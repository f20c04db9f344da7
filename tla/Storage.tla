------------------------------- MODULE Storage -------------------------------
(***************************************************************************)
(* Model files on the mounted disk: AssetStore (asset_store.py) hashes every *)
(* registered file once and then compares metadata, StorageMonitor chooses   *)
(* between the two, StorageAdmissionGuard caches the answer, and its callers  *)
(* are the watch loop of the TCP process (app.py), requests, and the recovery *)
(* endpoint (Scheduler.storage_recovered).                                   *)
(*                                                                         *)
(* A version of a file stands for its inode, size and mtime; every change of *)
(* a file makes a new version, with the registered bytes or with others.     *)
(***************************************************************************)
EXTENDS Naturals, FiniteSets

CONSTANTS Assets, MaxChanges   \* registered files; changes of the disk

(* The mount is not one of the files; its entry in a pass is "mount".        *)
ASSUME StConstants == "mount" \notin Assets

VARIABLES mounted,    \* the expected filesystem is at the mount path
          file,       \* each file: version, whether it has the registered hash
          changes,    \* changes of the disk so far
          store,      \* AssetStore: state and baseline, 0 where there is none
          guard,      \* StorageAdmissionGuard: last answer, is it fresh
          pass,       \* the check in progress under the guard's lock
          caller,     \* watch, request, recover: what each one waits for
          closed,     \* Scheduler._storage_unavailable
          stuck       \* a recovery failed, the book stays recovering

stVars == <<mounted, file, changes, store, guard, pass, caller, closed, stuck>>
diskVars == <<mounted, file, changes>>

Callers == {"watch", "request", "recover"}
NoPass == [by |-> "nobody", kind |-> "none", todo |-> {}, opened |-> {},
           seen |-> [a \in Assets |-> 0], touched |-> {}]
NoBaseline == [a \in Assets |-> 0]

StInit ==
  /\ mounted = TRUE /\ changes = 0
  /\ file \in [Assets -> {[ver |-> 1, good |-> g] : g \in BOOLEAN}]
  /\ store = [state |-> "unverified", base |-> NoBaseline]
  /\ guard = [ready |-> FALSE, fresh |-> FALSE]
  /\ pass = NoPass /\ caller = [c \in Callers |-> "idle"]
  /\ closed = FALSE /\ stuck = FALSE

---------------------------------------------------------------------------
(* The disk. "mount" in touched: the mount changed during the pass.          *)

Change ==
  /\ changes < MaxChanges /\ changes' = changes + 1
  /\ UNCHANGED <<store, guard, caller, closed, stuck>>

Touch(x) == pass' = IF pass = NoPass THEN pass ELSE [pass EXCEPT !.touched = @ \cup {x}]

ChangeFile(a) ==
  /\ Change
  /\ \E good \in BOOLEAN : file' = [file EXCEPT ![a] = [ver |-> @.ver + 1, good |-> good]]
  /\ Touch(a)
  /\ UNCHANGED mounted

ChangeMount ==
  /\ Change
  /\ mounted' = ~mounted
  /\ Touch("mount")
  /\ UNCHANGED file

---------------------------------------------------------------------------
(* StorageAdmissionGuard.__call__ and StorageMonitor._run.                   *)

IsVerified == store.state = "verified" /\ store.base # NoBaseline

(* Within the sample interval the last answer is returned as it is.          *)
AnswerCached(c) ==
  /\ caller[c] = "asking" /\ pass = NoPass /\ guard.fresh
  /\ caller' = [caller EXCEPT ![c] = IF guard.ready THEN "yes" ELSE "no"]
  /\ UNCHANGED <<diskVars, store, guard, pass, closed, stuck>>

(* check: a full pass until the set is verified, metadata only after that.   *)
(* The interval counts from the start of the check.                          *)
BeginPass(c) ==
  /\ caller[c] = "asking" /\ pass = NoPass /\ ~guard.fresh
  /\ pass' = [NoPass EXCEPT !.by = c, !.todo = Assets \cup {"mount"},
                            !.kind = IF IsVerified THEN "observe" ELSE "verify"]
  /\ UNCHANGED <<diskVars, store, guard, caller, closed, stuck>>

(* The snapshot reaches the guard and its caller; any fault drops the        *)
(* baseline, so the next check hashes again.                                 *)
EndPass(state, base) ==
  /\ store' = [state |-> state, base |-> base]
  /\ guard' = [ready |-> state = "verified", fresh |-> TRUE]
  /\ caller' = [caller EXCEPT ![pass.by] = IF state = "verified" THEN "yes" ELSE "no"]
  /\ pass' = NoPass
  /\ UNCHANGED <<diskVars, closed, stuck>>

Continue(p) == pass' = p /\ UNCHANGED <<diskVars, store, guard, caller, closed, stuck>>

(* _check_mount comes first in both passes.                                  *)
CheckMount ==
  /\ pass # NoPass /\ "mount" \in pass.todo
  /\ IF mounted THEN Continue([pass EXCEPT !.todo = @ \ {"mount"}])
                ELSE EndPass("fault", NoBaseline)

\* Mutant: the cheap pass only looks for the file.
StatAsset_blind(a) ==
  /\ pass.kind = "observe" /\ a \in pass.todo /\ "mount" \notin pass.todo
  /\ IF mounted
     THEN Continue([pass EXCEPT !.todo = @ \ {a}, !.seen[a] = file[a].ver])
     ELSE EndPass("fault", NoBaseline)

(* _stat_asset: the metadata against the baseline.                           *)
StatAsset(a) ==
  /\ pass.kind = "observe" /\ a \in pass.todo /\ "mount" \notin pass.todo
  /\ IF file[a].ver = store.base[a] /\ mounted
     THEN Continue([pass EXCEPT !.todo = @ \ {a}, !.seen[a] = file[a].ver])
     ELSE EndPass("fault", NoBaseline)

(* _hash_asset: lstat, open and fstat ...                                    *)
OpenAsset(a) ==
  /\ pass.kind = "verify" /\ a \in pass.todo /\ "mount" \notin pass.todo
  /\ pass.opened = {}
  /\ IF mounted THEN Continue([pass EXCEPT !.opened = {a}, !.seen[a] = file[a].ver])
                ELSE EndPass("fault", NoBaseline)

(* ... then the bytes, and fstat again: it must be one object throughout     *)
(* and have the registered digest.                                           *)
HashAsset(a) ==
  /\ pass.kind = "verify" /\ pass.opened = {a}
  /\ IF file[a].ver = pass.seen[a] /\ file[a].good
     THEN Continue([pass EXCEPT !.todo = @ \ {a}, !.opened = {}])
     ELSE EndPass("fault", NoBaseline)

(* The one deadline of a full pass expires, or the system call fails.        *)
PassUnknown ==
  /\ pass # NoPass
  /\ EndPass("unknown", NoBaseline)

PassReady ==
  /\ pass # NoPass /\ pass.todo = {}
  /\ EndPass("verified", pass.seen)

IntervalPasses ==
  /\ guard.fresh /\ pass = NoPass
  /\ guard' = [guard EXCEPT !.fresh = FALSE]
  /\ UNCHANGED <<diskVars, store, pass, caller, closed, stuck>>

---------------------------------------------------------------------------
(* The callers. *)

Ask(c) ==
  /\ caller[c] = "idle"
  /\ caller' = [caller EXCEPT ![c] = "asking"]
  /\ UNCHANGED <<diskVars, store, guard, pass, closed, stuck>>

Settle(c, close, fail) ==
  /\ caller' = [caller EXCEPT ![c] = "idle"]
  /\ closed' = close /\ stuck' = fail
  /\ UNCHANGED <<diskVars, store, guard, pass>>

\* Mutant: a bad answer of the watch closes nothing.
WatchOnce_ignores ==
  \/ caller["watch"] = "yes" /\ Settle("watch", closed, stuck)
  \/ caller["watch"] = "no" /\ Settle("watch", closed, stuck)

(* monitor_storage_once: one fail-closed transition; an answer that is good  *)
(* reopens nothing.                                                          *)
WatchOnce ==
  \/ caller["watch"] = "yes" /\ Settle("watch", closed, stuck)
  \/ caller["watch"] = "no" /\ Settle("watch", TRUE, stuck)

(* A request: acquire refuses it while storage is unavailable or the guard   *)
(* says no.                                                                  *)
Request ==
  /\ caller["request"] \in {"yes", "no"} /\ Settle("request", closed, stuck)

(* storage_recovered: validate, run the control recovery, reopen.            *)
RecoverStorage ==
  \/ caller["recover"] = "no" /\ Settle("recover", closed, stuck)
  \/ caller["recover"] = "yes" /\ (~closed \/ stuck) /\ Settle("recover", closed, stuck)
  \/ /\ caller["recover"] = "yes" /\ closed /\ ~stuck
     /\ caller' = [caller EXCEPT !["recover"] = "recovering"]
     /\ UNCHANGED <<diskVars, store, guard, pass, closed, stuck>>

RecoveryReturns ==
  /\ caller["recover"] = "recovering"
  /\ \E ok \in BOOLEAN : Settle("recover", ~ok, ~ok)

Pass == \/ CheckMount \/ PassReady \/ PassUnknown
        \/ \E a \in Assets : StatAsset(a) \/ OpenAsset(a) \/ HashAsset(a)
Watch == Ask("watch") \/ AnswerCached("watch") \/ BeginPass("watch") \/ WatchOnce
Work == \/ RecoveryReturns \/ IntervalPasses \/ Pass \/ Request \/ RecoverStorage
        \/ \E c \in Callers \ {"watch"} : AnswerCached(c) \/ BeginPass(c)
StNext == \/ ChangeMount \/ \E a \in Assets : ChangeFile(a)
          \/ Ask("request") \/ Ask("recover") \/ Watch \/ Work

(* The watch loop runs for as long as the process does (app.lifespan), the    *)
(* guard's lock is fair (asyncio.Lock), every check ends and time passes.     *)
(* Nothing is assumed of requests and of recoveries.                         *)
StFair == /\ SF_stVars(AnswerCached("watch") \/ BeginPass("watch"))
          /\ WF_stVars(Ask("watch") \/ WatchOnce)
          /\ WF_stVars(Pass) /\ WF_stVars(IntervalPasses)
StSpec == StInit /\ [][StNext]_stVars /\ StFair

---------------------------------------------------------------------------
(* Properties *)

(* A check answers ready only if every file has its registered bytes and the *)
(* disk is there, apart from what changed while the check was running: the    *)
(* cheap pass never trusts bytes that no full pass read (AssetStore.observe). *)
ReadyMeansGood ==
  [][guard'.ready /\ pass # NoPass /\ pass' = NoPass =>
       /\ mounted \/ "mount" \in pass.touched
       /\ \A a \in Assets : file[a].good \/ a \in pass.touched]_stVars

(* A disk that is wrong and stays wrong closes admission and keeps it closed, *)
(* whatever requests and recoveries do meanwhile (watch_storage in app.py).   *)
WrongDisk == ~mounted \/ \E a \in Assets : ~file[a].good
FaultClosesAdmission == <>[]WrongDisk => <>[]closed
=============================================================================
