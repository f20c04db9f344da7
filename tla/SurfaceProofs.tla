---------------------------- MODULE SurfaceProofs ----------------------------
(***************************************************************************)
(* Proofs about what a backend, the disk, the HTTP routes and the case     *)
(* driver promise: Lifecycle, Storage, Gateway and CaseDriver.             *)
(***************************************************************************)
EXTENDS Lifecycle, Storage, Gateway, CaseDriver, SequenceTheorems, TLAPS

---------------------------------------------------------------------------
(* Lifecycle: a model held for unloaded has no launch alive.               *)

\* The book and the call in progress agree, and a recorded launch is the only
\* one that can be alive: none is before a load has reached llama-swap.
LcInv ==
  /\ launched \in Instances \cup {Nobody}
  /\ inst \in [Instances -> {"unused", "launching", "starting", "serving", "gone"}]
  /\ DOMAIN task = {"kind", "at", "port", "late"}
  /\ book \in {"unloaded", "ready", "error"} <=> task.kind = "none"
  /\ task.kind = "none" => task = NoTask
  /\ task.kind = "load" => book = "loading"
  /\ supervised => \A i \in Instances : Live(i) => i = launched
  /\ supervised /\ task.kind = "load" /\ task.at = "control" => \A i \in Instances : ~Live(i)
  /\ UnloadedStaysUnloaded

\* Before the first load nothing is launched.
LEMMA LcInitInv == LcInit => LcInv
BY DEF LcInit, LcInv, NoTask, Live, UnloadedStaysUnloaded

\* A stop is reported only over an ended launch (ports_v3.stopped_is_proven).
LEMMA StoppedIsDead ==
  ASSUME LcInv, supervised, Observed(identity, task.port) = "stopped"
  PROVE  \A i \in Instances : ~Live(i)
<1>1. LaunchEnded
  BY DEF Observed, StoppedIsProven
<1> QED BY <1>1, LcConstants DEF LaunchEnded, LcInv

\* Every step of the backend, the launcher and the container keeps the invariant.
LEMMA LcStepInv == LcInv /\ [LcNext]_lcVars => LcInv'
<1> SUFFICES ASSUME LcInv, [LcNext]_lcVars PROVE LcInv'
  OBVIOUS
<1> USE DEF LcInv, Live, UnloadedStaysUnloaded, NoTask
<1>1. ASSUME NEW i \in Instances,
             LauncherRuns(i) \/ LauncherRefuses(i) \/ ServerListens(i)
      PROVE  LcInv'
  BY <1>1 DEF LauncherRuns, LauncherRefuses, ServerListens
<1>2. ASSUME NEW i \in Instances, RunnerStops(i) \/ InstanceEnds(i) PROVE LcInv'
  BY <1>2 DEF RunnerStops, InstanceEnds, Running
<1>3. CASE BeginLoad
  BY <1>3 DEF BeginLoad
<1>4. CASE BeginStop
  BY <1>4 DEF BeginStop
<1>5. CASE SwapLaunches
  BY <1>5 DEF SwapLaunches
<1>6. CASE LoadFails
  BY <1>6 DEF LoadFails, Return
<1>7. CASE LoadAnswered
  BY <1>7 DEF LoadAnswered
<1>8. CASE ControlUnload
  BY <1>8 DEF ControlUnload
<1>9. CASE DeadlinePasses
  BY <1>9 DEF DeadlinePasses
<1>10. CASE SamplePort
  BY <1>10 DEF SamplePort
<1>11. CASE SampleFacts
  <2>1. UNCHANGED <<supervised, launched, inst>>
    BY <1>11 DEF SampleFacts
  <2>2. PICK seen \in {"unknown", Observed(identity, task.port)} :
          VerifyRunning(seen) \/ PollStopped(seen)
    BY <1>11 DEF SampleFacts
  <2>3. CASE VerifyRunning(seen)
    BY <2>1, <2>3, <1>11 DEF VerifyRunning, NoVerdict, Return, SampleFacts
  <2>4. CASE PollStopped(seen)
    <3>1. book' = "unloaded" /\ supervised => \A i \in Instances : ~Live(i)
      BY <2>2, <2>4, StoppedIsDead DEF PollStopped, NoVerdict, Return
    <3> QED BY <2>1, <2>4, <3>1 DEF PollStopped, NoVerdict, Return
  <2> QED BY <2>2, <2>3, <2>4
<1>12. CASE LegacyObserve
  <2>1. UNCHANGED <<supervised, launched, inst>>
    BY <1>12 DEF LegacyObserve
  <2>2. LegacyObserved \in {"running", "unknown"}
    BY DEF LegacyObserved
  <2>3. book' \in {"ready", "error"} /\ task' = NoTask
    BY <1>12, <2>2 DEF LegacyObserve, Return
  <2> QED BY <2>1, <2>3
<1>13. CASE UNCHANGED lcVars
  BY <1>13 DEF lcVars
<1> QED BY <1>1, <1>2, <1>3, <1>4, <1>5, <1>6, <1>7, <1>8, <1>9, <1>10, <1>11, <1>12,
           <1>13 DEF LcNext, LcStep

\* Where launches are recorded, a model the book holds for unloaded has no
\* launcher and no container alive, for any number of launches, also after a
\* load that failed halfway (ManagedLifecycle.stop, LaunchOperation).
THEOREM UnloadedIsDead == LcSpec => []UnloadedStaysUnloaded
<1>1. LcInv => UnloadedStaysUnloaded
  BY DEF LcInv
<1> QED BY <1>1, LcInitInv, LcStepInv, PTL DEF LcSpec


---------------------------------------------------------------------------
(* Gateway: a chat request gives its lease back.                           *)

Outcomes == {"none", "success", "rejected", "aborted"}
CallRecord ==
  [at : Waits \cup {"new", "done"}, route : Routes, lease : {"none", "held", "released"},
   outcome : Outcomes, good : BOOLEAN, proven : BOOLEAN, guarded : BOOLEAN,
   cancelled : BOOLEAN, cut : BOOLEAN]

\* One request: no lease before acquire, a close and a release of a chat route
\* are inside its try, or release what did not succeed.
CallInv(rec) ==
  LET chat == rec.route \in {"chat", "stream"} IN
  /\ rec.at \in {"new", "body", "check", "warm", "recheck", "acquire"} => rec.lease = "none"
  /\ rec.at = "close" /\ chat => rec.guarded
  /\ rec.at = "release" /\ chat => rec.guarded \/ rec.outcome # "success"
  /\ rec.at = "done" /\ chat /\ rec.lease = "held" =>
       rec.cut /\ rec.cancelled /\ rec.outcome # "success"

GwInv == call \in [Calls -> CallRecord] /\ \A r \in Calls : CallInv(call[r])

\* A step of a request that leaves its record well formed keeps the invariant.
LEMMA GoesKeeps ==
  ASSUME GwInv, NEW r \in Calls, NEW rec \in CallRecord, CallInv(rec), Goes(r, rec)
  PROVE  GwInv'
BY DEF GwInv, Goes

\* Every step of a request keeps the invariant.
LEMMA GwStepInv == GwInv /\ [GwNext]_gwVars => GwInv'
<1> SUFFICES ASSUME GwInv, [GwNext]_gwVars PROVE GwInv'
  OBVIOUS
<1>1. CASE UNCHANGED gwVars
  BY <1>1 DEF gwVars, GwInv
<1>2. ASSUME NEW r \in Calls, Arrive(r) \/ CallStep(r) \/ CancelCall(r) PROVE GwInv'
  <2>0. call[r] \in CallRecord /\ CallInv(call[r])
    BY DEF GwInv
  <2>1. CASE Arrive(r)
    <3>1. PICK rec \in {[Moved(r, "body") EXCEPT !.route = route] : route \in Routes} :
            Goes(r, rec)
      BY <2>1 DEF Arrive
    <3>2. rec \in CallRecord
      BY <2>0, <3>1 DEF CallRecord, Moved, Ended, Chat, Waits, Outcomes
    <3>3. CallInv(rec)
      BY <2>0, <2>1, <3>1 DEF Arrive, CallRecord, CallInv, Moved, Ended, At, Chat, Waits, Routes, Outcomes
    <3> QED BY <3>1, <3>2, <3>3, GoesKeeps
  <2>2. CASE ReadJson(r)
    <3>1. PICK rec \in {Ended(r)} \cup {[Moved(r, stage) EXCEPT !.proven = ~Chat(r)] :
                           stage \in {"check", "acquire"}} :
            Goes(r, rec)
      BY <2>2 DEF ReadJson
    <3>2. rec \in CallRecord
      <4>1. CASE rec = Ended(r)
        BY <2>0, <4>1 DEF CallRecord, Moved, Ended, Chat, Waits, Outcomes
      <4>2. CASE \E stage \in {"check", "acquire"} :
                  rec = [Moved(r, stage) EXCEPT !.proven = ~Chat(r)]
        BY <2>0, <4>2 DEF CallRecord, Moved, Ended, Chat, Waits, Outcomes
      <4> QED BY <3>1, <4>1, <4>2
    <3>3. CallInv(rec)
      <4>1. CASE rec = Ended(r)
        BY <2>0, <2>2, <4>1 DEF ReadJson, CallRecord, CallInv, Moved, Ended, At, Chat, Waits, Routes, Outcomes
      <4>2. CASE \E stage \in {"check", "acquire"} :
                  rec = [Moved(r, stage) EXCEPT !.proven = ~Chat(r)]
        BY <2>0, <2>2, <4>2 DEF ReadJson, CallRecord, CallInv, Moved, Ended, At, Chat, Waits, Routes, Outcomes
      <4> QED BY <3>1, <4>1, <4>2
    <3> QED BY <3>1, <3>2, <3>3, GoesKeeps
  <2>3. CASE Check(r)
    <3>1. PICK rec \in {Ended(r), Moved(r, "warm"),
                 [Moved(r, "acquire") EXCEPT !.proven = TRUE]} :
            Goes(r, rec)
      BY <2>3 DEF Check
    <3>2. rec \in CallRecord
      BY <2>0, <3>1 DEF CallRecord, Moved, Ended, Chat, Waits, Outcomes
    <3>3. CallInv(rec)
      BY <2>0, <2>3, <3>1 DEF Check, CallRecord, CallInv, Moved, Ended, At, Chat, Waits, Routes, Outcomes
    <3> QED BY <3>1, <3>2, <3>3, GoesKeeps
  <2>4. CASE Warm(r)
    <3>1. PICK rec \in {Ended(r), Moved(r, "recheck")} :
            Goes(r, rec)
      BY <2>4 DEF Warm
    <3>2. rec \in CallRecord
      BY <2>0, <3>1 DEF CallRecord, Moved, Ended, Chat, Waits, Outcomes
    <3>3. CallInv(rec)
      BY <2>0, <2>4, <3>1 DEF Warm, CallRecord, CallInv, Moved, Ended, At, Chat, Waits, Routes, Outcomes
    <3> QED BY <3>1, <3>2, <3>3, GoesKeeps
  <2>5. CASE Recheck(r)
    <3>1. PICK rec \in {Ended(r), [Moved(r, "acquire") EXCEPT !.proven = TRUE]} :
            Goes(r, rec)
      BY <2>5 DEF Recheck
    <3>2. rec \in CallRecord
      BY <2>0, <3>1 DEF CallRecord, Moved, Ended, Chat, Waits, Outcomes
    <3>3. CallInv(rec)
      BY <2>0, <2>5, <3>1 DEF Recheck, CallRecord, CallInv, Moved, Ended, At, Chat, Waits, Routes, Outcomes
    <3> QED BY <3>1, <3>2, <3>3, GoesKeeps
  <2>6. CASE Acquire(r)
    <3>1. PICK rec \in {Ended(r), [Moved(r, "open") EXCEPT !.lease = "held"]} :
            Goes(r, rec)
      BY <2>6 DEF Acquire
    <3>2. rec \in CallRecord
      BY <2>0, <3>1 DEF CallRecord, Moved, Ended, Chat, Waits, Outcomes
    <3>3. CallInv(rec)
      BY <2>0, <2>6, <3>1 DEF Acquire, CallRecord, CallInv, Moved, Ended, At, Chat, Waits, Routes, Outcomes
    <3> QED BY <3>1, <3>2, <3>3, GoesKeeps
  <2>7. CASE Open(r)
    <3>1. PICK rec \in {[Moved(r, "release") EXCEPT !.outcome = o, !.guarded = FALSE] :
                  o \in {"rejected", "aborted"}}
                \cup {[Moved(r, "close") EXCEPT !.outcome = "aborted", !.good = FALSE,
                                                !.guarded = TRUE],
                      Moved(r, "streaming"), Moved(r, "json")} :
            Goes(r, rec)
      BY <2>7 DEF Open, HandlerReleases, CloseAndRelease
    <3>2. rec \in CallRecord
      <4>1. CASE \E o \in {"rejected", "aborted"} :
                  rec = [Moved(r, "release") EXCEPT !.outcome = o, !.guarded = FALSE]
        BY <2>0, <4>1 DEF CallRecord, Moved, Ended, Chat, Waits, Outcomes
      <4>2. CASE rec = [Moved(r, "close") EXCEPT !.outcome = "aborted", !.good = FALSE,
                                                  !.guarded = TRUE]
        BY <2>0, <4>2 DEF CallRecord, Moved, Ended, Chat, Waits, Outcomes
      <4>3. CASE rec \in {Moved(r, "streaming"), Moved(r, "json")}
        BY <2>0, <4>3 DEF CallRecord, Moved, Ended, Chat, Waits, Outcomes
      <4> QED BY <3>1, <4>1, <4>2, <4>3
    <3>3. CallInv(rec)
      <4>1. CASE \E o \in {"rejected", "aborted"} :
                  rec = [Moved(r, "release") EXCEPT !.outcome = o, !.guarded = FALSE]
        BY <2>0, <2>7, <4>1 DEF Open, CallRecord, CallInv, Moved, Ended, At, Chat, Waits, Routes, Outcomes
      <4>2. CASE rec = [Moved(r, "close") EXCEPT !.outcome = "aborted", !.good = FALSE,
                                                  !.guarded = TRUE]
        BY <2>0, <2>7, <4>2 DEF Open, CallRecord, CallInv, Moved, Ended, At, Chat, Waits, Routes, Outcomes
      <4>3. CASE rec \in {Moved(r, "streaming"), Moved(r, "json")}
        BY <2>0, <2>7, <4>3 DEF Open, CallRecord, CallInv, Moved, Ended, At, Chat, Waits, Routes, Outcomes
      <4> QED BY <3>1, <4>1, <4>2, <4>3
    <3> QED BY <3>1, <3>2, <3>3, GoesKeeps
  <2>8. CASE Json(r)
    <3>1. CASE HandlerReleases(r, "aborted")
      <4> DEFINE rec == [Moved(r, "release") EXCEPT !.outcome = "aborted", !.guarded = FALSE]
      <4>1. rec \in CallRecord /\ rec.at = "release" /\ rec.outcome = "aborted"
        BY <2>0 DEF CallRecord, Moved, Waits, Outcomes
      <4>2. CallInv(rec)
        BY <4>1 DEF CallInv
      <4> QED BY <3>1, <4>1, <4>2, GoesKeeps DEF HandlerReleases
    <3>2. ASSUME NEW o \in {"success", "aborted"}, NEW g \in BOOLEAN, NEW t \in BOOLEAN,
                 Chat(r) => t, CloseAndRelease(r, o, g, t)
          PROVE  GwInv'
      <4> DEFINE rec == [Moved(r, "close") EXCEPT !.outcome = o, !.good = g, !.guarded = t]
      <4>1. rec \in CallRecord
        BY <2>0 DEF CallRecord, Moved, Waits, Outcomes
      <4>2. rec.at = "close" /\ rec.route = call[r].route /\ (rec.guarded <=> t)
        BY <2>0 DEF CallRecord, Moved
      <4>3. CallInv(rec)
        BY <3>2, <4>2 DEF CallInv, Chat
      <4> QED BY <3>2, <4>1, <4>3, GoesKeeps DEF CloseAndRelease
    <3>3. CASE ~Chat(r) /\ Goes(r, [Ended(r) EXCEPT !.cut = TRUE])
      <4> DEFINE rec == [Ended(r) EXCEPT !.cut = TRUE]
      <4>1. rec \in CallRecord /\ rec.at = "done" /\ rec.route = call[r].route
        BY <2>0 DEF CallRecord, Ended, Moved, Waits
      <4>2. CallInv(rec)
        BY <3>3, <4>1 DEF CallInv, Chat
      <4> QED BY <3>3, <4>1, <4>2, GoesKeeps
    <3>4. Chat(r) \in BOOLEAN
      BY DEF Chat
    <3> QED BY <2>8, <3>1, <3>2, <3>3, <3>4 DEF Json
  <2>9. CASE Streaming(r)
    <3>1. PICK done \in BOOLEAN :
            Goes(r, [Moved(r, "shielded") EXCEPT !.good = done,
                       !.outcome = IF done THEN "success" ELSE "aborted"])
      BY <2>9 DEF Streaming
    <3> DEFINE rec == [Moved(r, "shielded") EXCEPT !.good = done,
                         !.outcome = IF done THEN "success" ELSE "aborted"]
    <3>2. rec \in CallRecord /\ rec.at = "shielded"
      BY <2>0 DEF CallRecord, Moved, Waits, Outcomes
    <3>3. CallInv(rec)
      BY <3>2 DEF CallInv
    <3> QED BY <3>1, <3>2, <3>3, GoesKeeps
  <2>10. CASE Close(r)
    <3>1. PICK rec \in {Moved(r, "release")} :
            Goes(r, rec)
      BY <2>10 DEF Close
    <3>2. rec \in CallRecord
      BY <2>0, <3>1 DEF CallRecord, Moved, Ended, Chat, Waits, Outcomes
    <3>3. CallInv(rec)
      BY <2>0, <2>10, <3>1 DEF Close, CallRecord, CallInv, Moved, Ended, At, Chat, Waits, Routes, Outcomes
    <3> QED BY <3>1, <3>2, <3>3, GoesKeeps
  <2>11. CASE Release(r)
    <3>1. PICK rec \in {[Ended(r) EXCEPT !.lease = "released"]} :
            Goes(r, rec)
      BY <2>11 DEF Release
    <3>2. rec \in CallRecord
      BY <2>0, <3>1 DEF CallRecord, Moved, Ended, Chat, Waits, Outcomes
    <3>3. CallInv(rec)
      BY <2>0, <2>11, <3>1 DEF Release, CallRecord, CallInv, Moved, Ended, At, Chat, Waits, Routes, Outcomes
    <3> QED BY <3>1, <3>2, <3>3, GoesKeeps
  <2>12. CASE CancelCall(r)
    <3> DEFINE Marked(rec) == [rec EXCEPT !.cancelled = TRUE]
    <3>1. CASE call[r].at \in Caught \/ (At(r, "release") /\ call[r].guarded)
      <4> DEFINE rec == Marked([Moved(r, "shielded") EXCEPT !.outcome = "aborted", !.good = FALSE])
      <4>1. Goes(r, rec)
        BY <2>12, <3>1 DEF CancelCall, Caught, At
      <4>2. rec \in CallRecord /\ rec.at = "shielded"
        BY <2>0 DEF CallRecord, Moved, Waits, Outcomes
      <4>3. CallInv(rec)
        BY <4>2 DEF CallInv
      <4> QED BY <4>1, <4>2, <4>3, GoesKeeps
    <3>2. CASE At(r, "close")
      <4> DEFINE rec == Marked(Moved(r, "release"))
      <4>1. Goes(r, rec)
        BY <2>12, <3>2 DEF CancelCall, Caught, At
      <4>2. /\ rec \in CallRecord /\ rec.at = "release" /\ rec.route = call[r].route
            /\ rec.guarded <=> call[r].guarded
        BY <2>0 DEF CallRecord, Moved, Waits
      <4>3. CallInv(rec)
        BY <2>0, <3>2, <4>2 DEF CallInv, At
      <4> QED BY <4>1, <4>2, <4>3, GoesKeeps
    <3>3. CASE At(r, "release") /\ ~call[r].guarded
      <4> DEFINE rec == Marked([Ended(r) EXCEPT !.cut = TRUE])
      <4>1. Goes(r, rec)
        BY <2>12, <3>3 DEF CancelCall, Caught, At
      <4>2. /\ rec \in CallRecord /\ rec.at = "done" /\ rec.route = call[r].route
            /\ rec.outcome = call[r].outcome /\ rec.cut /\ rec.cancelled
        BY <2>0 DEF CallRecord, Ended, Moved, Waits
      <4>3. CallInv(rec)
        BY <2>0, <3>3, <4>2 DEF CallInv, At
      <4> QED BY <4>1, <4>2, <4>3, GoesKeeps
    <3>4. CASE call[r].at \in {"body", "check", "warm", "recheck", "acquire"}
      <4> DEFINE rec == Marked(Ended(r))
      <4>1. Goes(r, rec)
        BY <2>12, <3>4 DEF CancelCall, Caught, At
      <4>2. rec \in CallRecord /\ rec.at = "done" /\ rec.lease = call[r].lease
        BY <2>0 DEF CallRecord, Ended, Moved, Waits
      <4>3. CallInv(rec)
        BY <2>0, <3>4, <4>2 DEF CallInv
      <4> QED BY <4>1, <4>2, <4>3, GoesKeeps
    <3> QED BY <2>12, <3>1, <3>2, <3>3, <3>4 DEF CancelCall, Caught, Waits, At
  <2> QED BY <1>2, <2>1, <2>2, <2>3, <2>4, <2>5, <2>6, <2>7, <2>8, <2>9, <2>10, <2>11,
             <2>12 DEF CallStep
<1> QED BY <1>1, <1>2 DEF GwNext

\* A chat request, whole or streamed, that has ended without giving its lease
\* back was cancelled inside the release of an error handler, for any number
\* of requests and lanes (close_and_release, _LeasedStreamingResponse).
THEOREM LeaseReturned == GwSpec => []ChatLeaseReturned
<1>1. GwInit => GwInv
  BY DEF GwInit, GwInv, CallInv, CallRecord, Waits, Routes, Outcomes
<1>2. GwInv => ChatLeaseReturned
  BY DEF GwInv, CallInv, ChatLeaseReturned, At, Chat
<1> QED BY <1>1, <1>2, GwStepInv, PTL DEF GwSpec

---------------------------------------------------------------------------
(* Storage: a check that answers ready saw the registered bytes.           *)

FileRecord == [ver : Nat \ {0}, good : BOOLEAN]
PassRecord == [by : Callers, kind : {"observe", "verify"},
               todo : SUBSET (Assets \cup {"mount"}), opened : SUBSET Assets,
               seen : [Assets -> Nat], touched : SUBSET (Assets \cup {"mount"})]

\* The version a note of a file names: not later than the file, and if it is
\* the file as it is now, its bytes are the registered ones.
Vouches(ver, a) ==
  ver <= file[a].ver /\ (ver = file[a].ver => file[a].good)

\* What a pass has established of the mount and of the files it has dealt
\* with, but for what was touched meanwhile.
PassInv(p) ==
  /\ "mount" \notin p.todo => mounted \/ "mount" \in p.touched
  /\ \A a \in Assets :
       /\ p.seen[a] <= file[a].ver
       /\ a \notin p.todo => /\ Vouches(p.seen[a], a)
                             /\ p.seen[a] = file[a].ver \/ a \in p.touched

\* The baseline vouches for what it names, and a running pass for its part.
StInv ==
  /\ mounted \in BOOLEAN /\ file \in [Assets -> FileRecord]
  /\ store.base \in [Assets -> Nat] /\ \A a \in Assets : Vouches(store.base[a], a)
  /\ \/ pass = NoPass
     \/ pass \in PassRecord /\ PassInv(pass)

\* No pass is mistaken for the absence of one.
LEMMA PassIsRunning == NoPass \notin PassRecord /\ \A p \in PassRecord : p # NoPass
BY DEF NoPass, PassRecord

\* No file is known before the first check.
LEMMA StInitInv == StInit => StInv
<1> SUFFICES ASSUME StInit PROVE StInv
  OBVIOUS
<1>1. file \in [Assets -> FileRecord] /\ \A a \in Assets : file[a].ver = 1
  BY DEF StInit, FileRecord
<1>2. store.base = NoBaseline
  BY DEF StInit
<1> QED BY <1>1, <1>2 DEF StInit, StInv, NoBaseline, Vouches

\* A step that leaves the disk and the baseline and makes p the pass.
LEMMA StContinue ==
  ASSUME StInv, UNCHANGED <<diskVars, store>>, NEW p, pass' = p,
         p = NoPass \/ (p \in PassRecord /\ PassInv(p))
  PROVE  StInv'
BY DEF StInv, diskVars, PassInv, Vouches

\* A pass that ends leaves a baseline that vouches, or none.
LEMMA StEnds ==
  ASSUME StInv, NEW state, NEW base \in [Assets -> Nat], EndPass(state, base),
         \A a \in Assets : Vouches(base[a], a)
  PROVE  StInv'
<1>1. UNCHANGED <<mounted, file>> /\ store'.base = base /\ pass' = NoPass
  BY DEF EndPass, diskVars
<1> QED BY <1>1 DEF StInv, Vouches, NoPass

LEMMA NoBaselineVouches ==
  ASSUME StInv
  PROVE  NoBaseline \in [Assets -> Nat] /\ \A a \in Assets : Vouches(NoBaseline[a], a)
BY DEF StInv, NoBaseline, Vouches, FileRecord

\* A change of the disk touches the pass and outdates the notes of the file.
LEMMA StDisk ==
  ASSUME StInv, ChangeMount \/ \E a \in Assets : ChangeFile(a)
  PROVE  StInv' /\ (pass # NoPass => pass' # NoPass)
<1>1. UNCHANGED store
  BY DEF ChangeMount, ChangeFile, Change
<1>2. ASSUME NEW x \in Assets \cup {"mount"}, Touch(x), pass # NoPass
      PROVE  /\ pass \in PassRecord /\ PassInv(pass) /\ pass' \in PassRecord
             /\ pass'.todo = pass.todo /\ pass'.seen = pass.seen
             /\ pass'.touched = pass.touched \cup {x}
  BY <1>2 DEF Touch, StInv, PassRecord
<1>3. CASE ChangeMount
  <2>1. mounted' \in BOOLEAN /\ file' = file /\ Touch("mount")
    BY <1>3 DEF ChangeMount
  <2>2. CASE pass = NoPass
    BY <1>1, <2>1, <2>2 DEF Touch, StInv, Vouches, NoPass
  <2>3. CASE pass # NoPass
    <3>1. PassInv(pass)'
      BY <2>1, <2>3, <1>2 DEF PassInv, Vouches
    <3> QED BY <1>1, <1>2, <2>1, <2>3, <3>1, PassIsRunning DEF StInv, Vouches
  <2> QED BY <2>2, <2>3
<1>4. ASSUME NEW a \in Assets, ChangeFile(a)
      PROVE  StInv' /\ (pass # NoPass => pass' # NoPass)
  <2>1. mounted' = mounted /\ Touch(a)
    BY <1>4 DEF ChangeFile
  <2>2. /\ file' \in [Assets -> FileRecord] /\ file'[a].ver > file[a].ver
        /\ \A b \in Assets : b # a => file'[b] = file[b]
    <3>1. PICK good \in BOOLEAN : file' = [file EXCEPT ![a] = [ver |-> @.ver + 1, good |-> good]]
      BY <1>4 DEF ChangeFile
    <3>2. file[a].ver \in Nat \ {0}
      BY DEF StInv, FileRecord
    <3>3. [ver |-> file[a].ver + 1, good |-> good] \in FileRecord
      BY <3>2 DEF FileRecord
    <3> QED BY <3>1, <3>2, <3>3 DEF StInv
  <2>3. \A b \in Assets : file[b].ver \in Nat /\ file'[b].ver \in Nat
    BY <2>2 DEF StInv, FileRecord
  <2>4. ASSUME NEW v \in Nat, NEW b \in Assets, v <= file[b].ver
        PROVE  v <= file'[b].ver /\ (b = a => v # file'[b].ver)
    BY <2>2, <2>3, <2>4
  <2>5. \A b \in Assets : Vouches(store.base[b], b)'
    BY <1>1, <2>2, <2>4 DEF StInv, Vouches
  <2>6. CASE pass = NoPass
    BY <1>1, <2>1, <2>2, <2>5, <2>6 DEF Touch, StInv, NoPass
  <2>7. CASE pass # NoPass
    <3>1. pass.seen \in [Assets -> Nat]
      BY <2>7, <1>2, <2>1 DEF PassRecord
    <3>2. PassInv(pass)'
      BY <2>1, <2>2, <2>4, <2>7, <3>1, <1>2 DEF PassInv, Vouches
    <3> QED BY <1>1, <1>2, <2>1, <2>2, <2>5, <2>7, <3>2, PassIsRunning DEF StInv
  <2> QED BY <2>6, <2>7
<1> QED BY <1>3, <1>4

\* Every step keeps the invariant.
LEMMA StStepInv == StInv /\ [StNext]_stVars => StInv'
<1> SUFFICES ASSUME StInv, [StNext]_stVars PROVE StInv'
  OBVIOUS
<1>1. CASE ChangeMount \/ \E a \in Assets : ChangeFile(a)
  BY <1>1, StDisk
<1>2. ASSUME NEW c \in Callers, Ask(c) \/ AnswerCached(c) PROVE StInv'
  BY <1>2, StContinue DEF Ask, AnswerCached, StInv
<1>3. ASSUME NEW c \in Callers, BeginPass(c) PROVE StInv'
  <2>1. pass' \in PassRecord /\ pass'.todo = Assets \cup {"mount"} /\ pass'.seen = NoBaseline
    BY <1>3 DEF BeginPass, NoPass, PassRecord, NoBaseline
  <2>2. PassInv(pass')
    BY <2>1, NoBaselineVouches DEF PassInv, Vouches
  <2> QED BY <1>3, <2>1, <2>2, StContinue DEF BeginPass
<1>4. CASE CheckMount
  <2>1. CASE Continue([pass EXCEPT !.todo = @ \ {"mount"}]) /\ mounted
    <3>1. pass \in PassRecord /\ PassInv(pass)
      BY <1>4 DEF CheckMount, StInv
    <3>2. /\ pass' \in PassRecord /\ pass'.todo = pass.todo \ {"mount"}
          /\ pass'.seen = pass.seen /\ pass'.touched = pass.touched
      BY <2>1, <3>1 DEF Continue, PassRecord
    <3>3. PassInv(pass')
      BY <2>1, <3>1, <3>2, StConstants DEF PassInv
    <3> QED BY <2>1, <3>2, <3>3, StContinue DEF Continue
  <2>2. CASE EndPass("fault", NoBaseline)
    BY <2>2, NoBaselineVouches, StEnds
  <2> QED BY <1>4, <2>1, <2>2 DEF CheckMount
<1>5. ASSUME NEW a \in Assets, StatAsset(a) PROVE StInv'
  <2>1. CASE /\ file[a].ver = store.base[a]
             /\ Continue([pass EXCEPT !.todo = @ \ {a}, !.seen[a] = file[a].ver])
    <3>1. pass \in PassRecord /\ PassInv(pass)
      BY <1>5 DEF StatAsset, StInv, NoPass
    <3>2. file[a].ver \in Nat
      BY DEF StInv, FileRecord
    <3>3. /\ pass' \in PassRecord /\ pass'.todo = pass.todo \ {a}
          /\ pass'.seen = [pass.seen EXCEPT ![a] = file[a].ver]
          /\ pass'.touched = pass.touched
      BY <2>1, <3>1, <3>2 DEF Continue, PassRecord
    <3>4. pass.seen \in [Assets -> Nat]
      BY <3>1 DEF PassRecord
    <3>5. Vouches(file[a].ver, a)
      BY <2>1 DEF StInv
    <3>6. PassInv(pass')
      BY <3>1, <3>2, <3>3, <3>4, <3>5, StConstants DEF PassInv
    <3> QED BY <2>1, <3>3, <3>6, StContinue DEF Continue
  <2>2. CASE EndPass("fault", NoBaseline)
    BY <2>2, NoBaselineVouches, StEnds
  <2> QED BY <1>5, <2>1, <2>2 DEF StatAsset
<1>6. ASSUME NEW a \in Assets, OpenAsset(a) PROVE StInv'
  <2>1. CASE /\ a \in pass.todo /\ pass.kind = "verify"
             /\ Continue([pass EXCEPT !.opened = {a}, !.seen[a] = file[a].ver])
    <3>1. pass \in PassRecord /\ PassInv(pass)
      BY <2>1 DEF StInv, NoPass
    <3>2. file[a].ver \in Nat
      BY DEF StInv, FileRecord
    <3>3. /\ pass' \in PassRecord /\ pass'.todo = pass.todo
          /\ pass'.seen = [pass.seen EXCEPT ![a] = file[a].ver]
          /\ pass'.touched = pass.touched
      BY <2>1, <3>1, <3>2 DEF Continue, PassRecord
    <3>4. pass.seen \in [Assets -> Nat]
      BY <3>1 DEF PassRecord
    <3>5. PassInv(pass')
      BY <2>1, <3>1, <3>2, <3>3, <3>4 DEF PassInv
    <3> QED BY <2>1, <3>3, <3>5, StContinue DEF Continue
  <2>2. CASE EndPass("fault", NoBaseline)
    BY <2>2, NoBaselineVouches, StEnds
  <2> QED BY <1>6, <2>1, <2>2 DEF OpenAsset
<1>7. ASSUME NEW a \in Assets, HashAsset(a) PROVE StInv'
  <2>1. CASE /\ file[a].ver = pass.seen[a] /\ file[a].good /\ pass.kind = "verify"
             /\ Continue([pass EXCEPT !.todo = @ \ {a}, !.opened = {}])
    <3>1. pass \in PassRecord /\ PassInv(pass)
      BY <2>1 DEF StInv, NoPass
    <3>2. /\ pass' \in PassRecord /\ pass'.todo = pass.todo \ {a}
          /\ pass'.seen = pass.seen /\ pass'.touched = pass.touched
      BY <2>1, <3>1 DEF Continue, PassRecord
    <3>3. PassInv(pass')
      BY <2>1, <3>1, <3>2, StConstants DEF PassInv, Vouches
    <3> QED BY <2>1, <3>2, <3>3, StContinue DEF Continue
  <2>2. CASE EndPass("fault", NoBaseline)
    BY <2>2, NoBaselineVouches, StEnds
  <2> QED BY <1>7, <2>1, <2>2 DEF HashAsset
<1>8. CASE PassUnknown
  BY <1>8, NoBaselineVouches, StEnds DEF PassUnknown
<1>9. CASE PassReady
  <2>1. pass.seen \in [Assets -> Nat] /\ \A a \in Assets : Vouches(pass.seen[a], a)
    BY <1>9 DEF PassReady, StInv, PassInv, PassRecord
  <2> QED BY <1>9, <2>1, StEnds DEF PassReady
<1>10. CASE IntervalPasses
  BY <1>10, StContinue DEF IntervalPasses, StInv
<1>11. CASE WatchOnce \/ Request \/ RecoverStorage \/ RecoveryReturns
  <2>1. UNCHANGED <<diskVars, store, pass>>
    BY <1>11 DEF WatchOnce, Request, RecoverStorage, RecoveryReturns, Settle
  <2> QED BY <2>1, StContinue DEF StInv
<1>12. CASE UNCHANGED stVars
  BY <1>12, StContinue DEF stVars, diskVars, StInv
<1>13. "watch" \in Callers /\ "request" \in Callers /\ "recover" \in Callers
  BY DEF Callers
<1> QED BY <1>1, <1>2, <1>3, <1>4, <1>5, <1>6, <1>7, <1>8, <1>9, <1>10, <1>11, <1>12,
           <1>13 DEF StNext, Watch, Work, Pass

ReadyStep ==
  guard'.ready /\ pass # NoPass /\ pass' = NoPass =>
    /\ mounted \/ "mount" \in pass.touched
    /\ \A a \in Assets : file[a].good \/ a \in pass.touched

\* Only the end of a complete pass answers ready.
LEMMA ReadyIsGood == StInv /\ [StNext]_stVars => ReadyStep
<1> SUFFICES ASSUME StInv, [StNext]_stVars, guard'.ready, pass # NoPass, pass' = NoPass
             PROVE  /\ mounted \/ "mount" \in pass.touched
                    /\ \A a \in Assets : file[a].good \/ a \in pass.touched
  BY DEF ReadyStep
<1>1. pass \in PassRecord /\ PassInv(pass)
  BY DEF StInv
<1>2. ASSUME NEW p \in PassRecord, Continue(p) PROVE FALSE
  BY <1>2, PassIsRunning DEF Continue
<1>3. ASSUME NEW state, NEW base, EndPass(state, base) PROVE state = "verified"
  BY <1>3 DEF EndPass
<1>4. CASE ChangeMount \/ \E a \in Assets : ChangeFile(a)
  BY <1>4, StDisk
<1>5. ASSUME NEW c, Ask(c) \/ AnswerCached(c) \/ BeginPass(c) PROVE FALSE
  BY <1>5 DEF Ask, AnswerCached, BeginPass
<1>6. CASE CheckMount
  <2>1. [pass EXCEPT !.todo = @ \ {"mount"}] \in PassRecord
    BY <1>1 DEF PassRecord
  <2> QED BY <1>2, <1>3, <1>6, <2>1 DEF CheckMount
<1>7. ASSUME NEW a \in Assets, StatAsset(a) \/ OpenAsset(a) \/ HashAsset(a) PROVE FALSE
  <2>1. file[a].ver \in Nat
    BY DEF StInv, FileRecord
  <2>2. /\ [pass EXCEPT !.todo = @ \ {a}, !.seen[a] = file[a].ver] \in PassRecord
        /\ [pass EXCEPT !.opened = {a}, !.seen[a] = file[a].ver] \in PassRecord
        /\ [pass EXCEPT !.todo = @ \ {a}, !.opened = {}] \in PassRecord
    BY <1>1, <2>1 DEF PassRecord
  <2> QED BY <1>2, <1>3, <1>7, <2>2 DEF StatAsset, OpenAsset, HashAsset
<1>8. CASE PassUnknown
  BY <1>3, <1>8 DEF PassUnknown
<1>9. CASE PassReady
  BY <1>1, <1>9 DEF PassReady, PassInv, Vouches
<1>10. CASE IntervalPasses
  BY <1>10 DEF IntervalPasses
<1>11. CASE WatchOnce \/ Request \/ RecoverStorage \/ RecoveryReturns
  BY <1>11 DEF WatchOnce, Request, RecoverStorage, RecoveryReturns, Settle
<1>12. CASE UNCHANGED stVars
  BY <1>12 DEF stVars
<1> QED BY <1>4, <1>5, <1>6, <1>7, <1>8, <1>9, <1>10, <1>11, <1>12
        DEF StNext, Watch, Work, Pass

\* A check that answers ready saw the disk mounted and every file with its
\* registered bytes, except for what changed while it ran, for any set of
\* files: the metadata pass (AssetStore.observe) trusts only what a full pass
\* (AssetStore.verify) has hashed.
THEOREM ReadyIsEarned == StSpec => ReadyMeansGood
<1>1. StInv /\ [StNext]_stVars => [ReadyStep]_stVars
  BY ReadyIsGood
<1>2. StSpec => [][ReadyStep]_stVars
  BY <1>1, StInitInv, StStepInv, PTL DEF StSpec
<1> QED BY <1>2 DEF ReadyMeansGood, ReadyStep

---------------------------------------------------------------------------
(* CaseDriver: a case passes on a session whose own load succeeded.        *)

CaseKinds == {"load", "reload", "stop", "infer", "cancel"}
Attempt == [kind : CaseKinds, status : {"passed", "failed", "unknown"}, session : Nat]

SessionStates == {"waiting", "active", "closed", "blocked"}

\* The attempts up to n: the session was opened by a load that did not fail and
\* every attempt since then was made on it.
OpenedBy(s, n) ==
  \E j \in 1..n : /\ log[j].kind \in {"load", "reload"}
                  /\ log[j].session = s /\ log[j].status # "failed"
                  /\ \A k \in j..n : log[k].session = s

\* Where the executor is in a case, and that the session it works on is one
\* that a load opened.
DrvInv ==
  /\ log \in Seq(Attempt) /\ openSession \in Nat /\ sessions \in Seq(SessionStates)
  /\ at \in {"begin", "close", "create", "await", "submit", "poll", "cancel", "cancelled",
             "cleanup"}
  /\ at # "begin" => InCase
  /\ at \in {"create", "await"} => Kind \in {"load", "reload"}
  /\ at = "close" => Kind \in {"load", "reload", "stop"}
  /\ at \in {"submit", "poll", "cancel", "cancelled"} =>
       Kind \in {"infer", "cancel"} /\ openSession # 0
  /\ at = "create" => openSession = 0
  /\ at \in {"begin", "submit", "poll", "cancel", "cancelled"} /\ openSession # 0 =>
       OpenedBy(openSession, Len(log))
  /\ LoadedBeforeUse

\* The matrix names a case at every place before its end.
LEMMA KindOfCase == ASSUME DrvInv, InCase PROVE Kind \in CaseKinds
BY DrvConstants DEF DrvInv, InCase, Kind, CaseKinds

\* The states of the sessions stay a sequence.
LEMMA SessionsSeq ==
  ASSUME NEW q \in Seq(SessionStates), NEW s \in Nat, NEW x \in SessionStates
  PROVE  [q EXCEPT ![s] = x] \in Seq(SessionStates) /\ Append(q, x) \in Seq(SessionStates)
<1>1. Append(q, x) \in Seq(SessionStates)
  OBVIOUS
<1>2. CASE s \in 1..Len(q)
  BY <1>1, <1>2, ExceptSeq
<1>3. CASE s \notin 1..Len(q)
  <2>1. [q EXCEPT ![s] = x] = q
    BY <1>3
  <2> QED BY <1>1, <2>1
<1> QED BY <1>2, <1>3

\* What a request to close a session may leave.
LEMMA ClosingsSeq ==
  ASSUME DrvInv, NEW q \in Closings(openSession) \cup {sessions}
  PROVE  q \in Seq(SessionStates)
<1>1. sessions \in Seq(SessionStates) /\ openSession \in Nat
  BY DEF DrvInv
<1>2. CASE q = sessions
  BY <1>1, <1>2
<1>3. ASSUME NEW state \in SessionStates, q = [sessions EXCEPT ![openSession] = state]
      PROVE  q \in Seq(SessionStates)
  BY <1>1, <1>3, SessionsSeq
<1>4. CASE q = [sessions EXCEPT ![openSession] = sessions[openSession]]
  <2>1. CASE openSession \in 1..Len(sessions)
    <3>1. sessions[openSession] \in SessionStates
      BY <1>1, <2>1
    <3> QED BY <1>3, <1>4, <3>1
  <2>2. CASE openSession \notin 1..Len(sessions)
    <3>1. q = sessions
      BY <1>1, <1>4, <2>2
    <3> QED BY <1>1, <3>1
  <2> QED BY <2>1, <2>2
<1> QED BY <1>2, <1>3, <1>4 DEF Closings, SessionStates

\* Nothing was attempted yet.
LEMMA DrvInitInv == DrvInit => DrvInv
BY DEF DrvInit, DrvInv, LoadedBeforeUse

\* A step that records nothing and stays in the case.
LEMMA DrvGoto ==
  ASSUME DrvInv, UNCHANGED log, openSession' \in Nat, sessions' \in Seq(SessionStates),
         NEW stage, at' = stage,
         InCase,
         \/ stage \in {"cleanup"}
         \/ stage = "create" /\ Kind \in {"load", "reload"} /\ openSession' = 0
         \/ stage = "await" /\ Kind \in {"load", "reload"}
         \/ stage = "close" /\ Kind \in {"load", "reload", "stop"}
         \/ /\ stage \in {"submit", "poll", "cancel", "cancelled"}
            /\ Kind \in {"infer", "cancel"}
            /\ openSession' = openSession /\ openSession # 0
            /\ OpenedBy(openSession, Len(log))
  PROVE  DrvInv'
<1>1. Len(log') = Len(log) /\ Kind' = Kind /\ InCase'
  BY DEF Kind, InCase
<1>2. LoadedBeforeUse'
  BY DEF DrvInv, LoadedBeforeUse
<1>3. OpenedBy(openSession, Len(log)) /\ openSession' = openSession =>
        OpenedBy(openSession, Len(log))'
  BY DEF OpenedBy
<1> QED BY <1>1, <1>2, <1>3 DEF DrvInv

\* An attempt is recorded and the next case begins.
LEMMA DrvRecord ==
  ASSUME DrvInv, InCase, NEW status \in {"passed", "failed", "unknown"}, NEW s \in Nat,
         Record(status, s), openSession' \in Nat, sessions' \in Seq(SessionStates),
         Kind \in {"infer", "cancel"} /\ status = "passed" => OpenedBy(s, Len(log)),
         \/ openSession' = 0
         \/ openSession' = s /\ OpenedBy(s, Len(log))
         \/ openSession' = s /\ Kind \in {"load", "reload"} /\ status # "failed"
  PROVE  DrvInv'
<1> DEFINE n == Len(log)
           new == [kind |-> Kind, status |-> status, session |-> s]
<1>1. new \in Attempt
  BY KindOfCase DEF Attempt
<1>2. log \in Seq(Attempt) /\ n \in Nat
  BY DEF DrvInv
<1>3. /\ log' \in Seq(Attempt) /\ Len(log') = n + 1 /\ log'[n + 1] = new
      /\ DOMAIN log' = 1..(n + 1) /\ DOMAIN log = 1..n
      /\ \A i \in 1..n : log'[i] = log[i]
  BY <1>1, <1>2 DEF Record
<1>4. new.session = s /\ new.kind = Kind /\ new.status = status /\ n = Len(log)
  OBVIOUS
<1> HIDE DEF n, new
<1>5. at' = "begin"
  BY DEF Record
<1>6. LoadedBeforeUse'
  <2> SUFFICES ASSUME NEW i \in 1..(n + 1), log'[i].kind \in {"infer", "cancel"},
                      log'[i].status = "passed"
               PROVE  \E j \in 1..(i - 1) :
                         /\ log'[j].kind \in {"load", "reload"}
                         /\ log'[j].session = log'[i].session
                         /\ log'[j].status # "failed"
                         /\ \A k \in j..(i - 1) : log'[k].session = log'[i].session
    BY <1>3 DEF LoadedBeforeUse
  <2>1. CASE i \in 1..n
    <3>1. PICK j \in 1..(i - 1) : /\ log[j].kind \in {"load", "reload"}
                                  /\ log[j].session = log[i].session
                                  /\ log[j].status # "failed"
                                  /\ \A k \in j..(i - 1) : log[k].session = log[i].session
      BY <1>2, <1>3, <2>1 DEF DrvInv, LoadedBeforeUse
    <3>2. \A k \in 1..i : log'[k] = log[k]
      BY <1>2, <1>3, <2>1
    <3>3. \A k \in j..(i - 1) : log'[k].session = log'[i].session
      BY <1>2, <2>1, <3>1, <3>2
    <3>4. j \in 1..i /\ i \in 1..i
      BY <1>2, <2>1
    <3> QED BY <3>1, <3>2, <3>3, <3>4
  <2>2. CASE i = n + 1
    <3>1. OpenedBy(s, n) /\ log'[i].session = s
      BY <1>3, <1>4, <2>2
    <3>2. PICK j \in 1..n : /\ log[j].kind \in {"load", "reload"}
                            /\ log[j].session = s /\ log[j].status # "failed"
                            /\ \A k \in j..n : log[k].session = s
      BY <3>1 DEF OpenedBy
    <3>3. i - 1 = n
      BY <1>2, <2>2
    <3>4. log'[j] = log[j] /\ \A k \in j..n : log'[k] = log[k]
      <4>1. \A k \in j..n : k \in 1..n
        BY <1>2
      <4> QED BY <1>3, <4>1
    <3> QED BY <3>1, <3>2, <3>3, <3>4
  <2> QED BY <1>2, <2>1, <2>2
<1>7. openSession' # 0 => OpenedBy(openSession, Len(log))'
  <2>1. CASE openSession' = s /\ OpenedBy(s, n)
    <3>1. PICK j \in 1..n : /\ log[j].kind \in {"load", "reload"}
                            /\ log[j].session = s /\ log[j].status # "failed"
                            /\ \A k \in j..n : log[k].session = s
      BY <2>1 DEF OpenedBy
    <3>2. j \in 1..(n + 1) /\ \A k \in j..(n + 1) : log'[k].session = s
      BY <1>2, <1>3, <1>4, <3>1
    <3> QED BY <1>2, <1>3, <2>1, <3>1, <3>2 DEF OpenedBy
  <2>2. CASE openSession' = s /\ Kind \in {"load", "reload"} /\ status # "failed"
    BY <1>2, <1>3, <1>4, <2>2 DEF OpenedBy
  <2> QED BY <1>4, <2>1, <2>2
<1> QED BY <1>2, <1>3, <1>5, <1>6, <1>7 DEF DrvInv

\* Every step of the executor and of the deployment keeps the invariant.
LEMMA DrvStepInv == DrvInv /\ [DrvNext]_drvVars => DrvInv'
<1> SUFFICES ASSUME DrvInv, [DrvNext]_drvVars PROVE DrvInv'
  OBVIOUS
<1>0. openSession \in Nat /\ sessions \in Seq(SessionStates)
  BY DEF DrvInv
<1>1. CASE BeginCase
  <2>1. /\ InCase /\ UNCHANGED <<openSession, sessions>>
        /\ openSession # 0 => OpenedBy(openSession, Len(log))
    BY <1>1 DEF BeginCase, deployment, DrvInv
  <2>2. Kind \in CaseKinds
    BY <2>1, KindOfCase
  <2>3. CASE Kind \in {"load", "reload"}
    BY <1>0, <1>1, <2>1, <2>3, DrvGoto DEF BeginCase, Goto
  <2>4. CASE Kind = "stop" /\ openSession # 0
    BY <1>0, <1>1, <2>1, <2>4, DrvGoto DEF BeginCase, Goto
  <2>5. CASE Kind = "stop" /\ openSession = 0
    BY <1>0, <1>1, <2>1, <2>5, DrvRecord DEF BeginCase
  <2>6. CASE Kind \in {"infer", "cancel"}
    BY <1>0, <1>1, <2>1, <2>6, DrvGoto DEF BeginCase, Goto
  <2> QED BY <2>2, <2>3, <2>4, <2>5, <2>6 DEF CaseKinds
<1>2. CASE CloseSession
  <2>1. InCase /\ Kind \in {"load", "reload", "stop"}
    BY <1>2 DEF CloseSession, DrvInv
  <2>2. sessions' \in Seq(SessionStates)
    BY <1>2, ClosingsSeq DEF CloseSession
  <2>3. CASE Raise /\ UNCHANGED openSession
    BY <1>0, <2>1, <2>2, <2>3, DrvGoto DEF Raise, Goto
  <2>4. CASE /\ openSession' = 0
             /\ CASE Kind = "load" -> Goto("create")
                  [] Kind = "reload" -> Goto(IF stopProven' THEN "create" ELSE "cleanup")
                  [] Kind = "stop" -> Record(IF stopProven' THEN "passed" ELSE "unknown",
                                             openSession)
    <3>1. CASE Kind \in {"load", "reload"}
      BY <1>0, <2>1, <2>2, <2>4, <3>1, DrvGoto DEF Goto
    <3>2. CASE Kind = "stop"
      BY <1>0, <2>1, <2>2, <2>4, <3>2, DrvRecord
    <3> QED BY <2>1, <3>1, <3>2
  <2> QED BY <1>2, <2>3, <2>4 DEF CloseSession
<1>3. CASE CreateSession
  <2>1. InCase /\ Kind \in {"load", "reload"}
    BY <1>3 DEF CreateSession, DrvInv
  <2>2. sessions' \in Seq(SessionStates)
    BY <1>0, <1>3, SessionsSeq DEF CreateSession, SessionStates
  <2>3. CASE Raise /\ UNCHANGED openSession
    BY <1>0, <2>1, <2>2, <2>3, DrvGoto DEF Raise, Goto
  <2>4. CASE Goto("await") /\ openSession' = Len(sessions')
    <3>1. openSession' \in Nat
      BY <2>2, <2>4
    <3> QED BY <2>1, <2>2, <2>4, <3>1, DrvGoto DEF Goto
  <2> QED BY <1>3, <2>3, <2>4 DEF CreateSession
<1>4. CASE AwaitActive
  <2>1. InCase /\ Kind \in {"load", "reload"} /\ UNCHANGED <<openSession, sessions>>
    BY <1>4 DEF AwaitActive, deployment, DrvInv
  <2>2. CASE \E status \in {"passed", "unknown"} : Record(status, openSession)
    BY <1>0, <2>1, <2>2, DrvRecord
  <2>3. CASE Raise
    BY <1>0, <2>1, <2>3, DrvGoto DEF Raise, Goto
  <2> QED BY <1>4, <2>2, <2>3 DEF AwaitActive
<1>5. CASE Submit
  <2>1. /\ InCase /\ Kind \in {"infer", "cancel"} /\ UNCHANGED <<openSession, sessions>>
        /\ openSession # 0 /\ OpenedBy(openSession, Len(log))
    BY <1>5 DEF Submit, DrvInv
  <2>2. \E stage \in {"cancel", "poll", "cleanup"} : Goto(stage)
    BY <1>5 DEF Submit, Raise
  <2> QED BY <1>0, <2>1, <2>2, DrvGoto DEF Goto
<1>6. CASE PollExecution \/ PollCancelled
  <2>1. /\ InCase /\ Kind \in {"infer", "cancel"} /\ UNCHANGED <<openSession, sessions>>
        /\ openSession # 0 /\ OpenedBy(openSession, Len(log))
    BY <1>6 DEF PollExecution, PollCancelled, deployment, DrvInv
  <2>2. \/ Goto("cleanup")
        \/ \E status \in {"passed", "failed", "unknown"} : Record(status, openSession)
    BY <1>6 DEF PollExecution, PollCancelled, Raise
  <2>3. CASE Goto("cleanup")
    BY <1>0, <2>1, <2>3, DrvGoto DEF Goto
  <2>4. CASE \E status \in {"passed", "failed", "unknown"} : Record(status, openSession)
    BY <1>0, <2>1, <2>4, DrvRecord
  <2> QED BY <2>2, <2>3, <2>4
<1>7. CASE CancelExecution
  <2>1. /\ InCase /\ Kind \in {"infer", "cancel"} /\ UNCHANGED <<openSession, sessions>>
        /\ openSession # 0 /\ OpenedBy(openSession, Len(log))
    BY <1>7 DEF CancelExecution, DrvInv
  <2>2. \E stage \in {"cancelled", "cleanup"} : Goto(stage)
    BY <1>7 DEF CancelExecution, Raise
  <2> QED BY <1>0, <2>1, <2>2, DrvGoto DEF Goto
<1>8. CASE Cleanup
  <2>1. InCase /\ openSession' = 0 /\ Record("failed", openSession)
    BY <1>8 DEF Cleanup, DrvInv
  <2>2. sessions' \in Seq(SessionStates)
    BY <1>8, ClosingsSeq DEF Cleanup
  <2> QED BY <1>0, <2>1, <2>2, DrvRecord
<1>9. ASSUME UNCHANGED <<openSession, at, log>>, sessions' \in Seq(SessionStates) PROVE DrvInv'
  BY <1>9 DEF DrvInv, InCase, Kind, OpenedBy, LoadedBeforeUse
<1>10. CASE ExecutionEnds
  BY <1>0, <1>9, <1>10 DEF ExecutionEnds
<1>11. ASSUME NEW s \in 1..Len(sessions), SessionActivates(s) \/ SessionEnds(s) PROVE DrvInv'
  <2>1. \E state \in SessionStates : sessions' = [sessions EXCEPT ![s] = state]
    BY <1>11 DEF SessionActivates, SessionEnds, SessionStates
  <2>2. sessions' \in Seq(SessionStates)
    BY <1>0, <2>1, SessionsSeq
  <2> QED BY <1>9, <1>11, <2>2 DEF SessionActivates, SessionEnds
<1>12. CASE UNCHANGED drvVars
  BY <1>0, <1>9, <1>12 DEF drvVars
<1> QED BY <1>1, <1>2, <1>3, <1>4, <1>5, <1>6, <1>7, <1>8, <1>10, <1>11, <1>12
        DEF DrvNext, DrvStep

\* A case that works on a session passes only if the load or reload that
\* opened the session did not fail and no attempt in between was made on
\* another one or on none, for any case matrix (CaseExecutor.run_model).
THEOREM PassedOnLoaded == DrvSpec => []LoadedBeforeUse
<1>1. DrvInv => LoadedBeforeUse
  BY DEF DrvInv
<1> QED BY <1>1, DrvInitInv, DrvStepInv, PTL DEF DrvSpec
=============================================================================
