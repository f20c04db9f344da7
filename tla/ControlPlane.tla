---------------------------- MODULE ControlPlane ----------------------------
(***************************************************************************)
(* The control socket of the v2 process: the listener (control_server.py), *)
(* the route surface (control_api.py), the idempotency registry            *)
(* (idempotency.py) and the boot-scoped tokens (control_identity.py), over  *)
(* the session registry of the scheduler (session_manager.py).             *)
(*                                                                         *)
(* A connection carries one request and is one task; an action is a        *)
(* stretch of that task between two awaits.  A session is named by the     *)
(* connection whose request created it (the code draws a fresh uuid), and  *)
(* its token by the session it was issued for: the code re-issues the same *)
(* token for every document of a session.                                  *)
(***************************************************************************)
EXTENDS Naturals, FiniteSets

CONSTANTS Conns,        \* connections, each used once
          Peers,        \* uids that may connect
          Allowed,      \* the allow list of the listener
          Keys,         \* idempotency keys
          Payloads,     \* bodies of a create request
          MaxSessions,  \* bound: largest queue_capacity of the session policy
          MaxBoots      \* bound: process starts

ASSUME CtlConstants ==
  /\ Allowed \subseteq Peers /\ Allowed # {}
  /\ MaxSessions \in Nat \ {0} /\ MaxBoots \in Nat \ {0}

VARIABLES server,    \* "down", "serving", "closing": the listener of this boot
          socket,    \* the socket path: "absent", "live", "stale"
          boot,      \* number of process starts
          conn,      \* the connections
          keys,      \* idempotency records, by owner and key
          sess,      \* session records of the scheduler
          bound,     \* ids in ControlAPI._sessions
          created,   \* history: [sid, owner, key, payload, boot]
          accepting, \* the scheduler admits sessions (no shutdown or storage fault)
          capacity   \* queue_capacity of the session policy, fixed

ctlVars == <<server, socket, boot, conn, keys, sess, bound, created, accepting, capacity>>

None == "none"
NoKey == [state |-> None, payload |-> None, sid |-> None]
NoSession == [phase |-> None, owner |-> None, boot |-> 0, expired |-> FALSE]
NoRequest == [kind |-> None]
Creates == [kind : {"create"}, key : Keys, payload : Payloads]
Targets == [kind : {"read", "heartbeat", "close", "submit"}, sid : Conns, token : Conns]
Requests == Creates \cup Targets \cup [kind : {"bad", "oversized", "peer"}]

(* control_server.ControlServer.__init__, ControlAPI.__init__,              *)
(* IdempotencyStore.__init__: everything but the socket path is in memory.  *)
CtlInit ==
  /\ server = "down" /\ socket \in {"absent", "stale"} /\ boot = 0
  /\ conn = [c \in Conns |-> [at |-> "unused", peer |-> None, request |-> NoRequest,
                              answer |-> None, told |-> None]]
  /\ keys = [k \in Allowed \X Keys |-> NoKey]
  /\ sess = [s \in Conns |-> NoSession]
  /\ bound = {} /\ created = {} /\ accepting = TRUE
  /\ capacity \in 1..MaxSessions

InFlight == {c \in Conns : conn[c].at \in {"header", "body", "register", "draining"}}
Moves(c, at) == conn' = [conn EXCEPT ![c].at = at]
Finish(c, answer, told) ==
  conn' = [conn EXCEPT ![c].at = "done", ![c].request = NoRequest,
                       ![c].answer = answer, ![c].told = told]
Closed(r) == [r EXCEPT !.at = "done", !.request = NoRequest]
Refuse(c, code) == Finish(c, code, None)

---------------------------------------------------------------------------
(* The listener. *)

(* run.main takes the instance lock, so one process serves at a time; start *)
(* probes the path and unlinks a socket nobody answers on.                  *)
Start ==
  /\ server = "down" /\ boot < MaxBoots
  /\ server' = "serving" /\ socket' = "live" /\ boot' = boot + 1
  /\ keys' = [k \in Allowed \X Keys |-> NoKey]
  /\ sess' = [s \in Conns |-> NoSession]
  /\ bound' = {} /\ accepting' = TRUE
  /\ UNCHANGED <<conn, created, capacity>>

(* stop: no further accept; wait_closed waits for the open connections.     *)
StopBegins ==
  /\ server = "serving"
  /\ server' = "closing"
  /\ accepting' = FALSE
  /\ UNCHANGED <<socket, boot, conn, keys, sess, bound, created, capacity>>

StopEnds ==
  /\ server = "closing" /\ InFlight = {}
  /\ server' = "down" /\ socket' = "absent"
  /\ UNCHANGED <<boot, conn, keys, sess, bound, created, accepting, capacity>>

(* The process dies: every task is gone, the path stays behind.             *)
Kill ==
  /\ server # "down"
  /\ server' = "down" /\ socket' = "stale"
  /\ conn' = [c \in Conns |-> IF c \in InFlight THEN Closed(conn[c]) ELSE conn[c]]
  /\ UNCHANGED <<boot, keys, sess, bound, created, accepting, capacity>>

(* _on_connection, _serve_connection up to the header read: a uid outside   *)
(* the allow list is closed before a byte is parsed.                        *)
Connect(c, p, r) ==
  /\ server = "serving" /\ conn[c].at = "unused"
  /\ LET opened == [conn[c] EXCEPT !.at = "header", !.peer = p, !.request = r] IN
     conn' = [conn EXCEPT ![c] = IF p \in Allowed THEN opened ELSE Closed(opened)]
  /\ UNCHANGED <<server, socket, boot, keys, sess, bound, created, accepting, capacity>>

(* The bounded header phase and the routing of ControlAPI.__call__: broken  *)
(* framing and a slow header close the connection without an answer, an     *)
(* oversized body is refused, routes without a body are answered at once.   *)
ReadHeader(c) ==
  /\ conn[c].at = "header"
  /\ LET kind == conn[c].request.kind IN
     \/ /\ kind = "bad" /\ conn' = [conn EXCEPT ![c] = Closed(@)]
     \/ /\ kind = "oversized" /\ Refuse(c, "payload_too_large")
     \/ /\ kind = "peer" /\ Finish(c, "ok", None)
     \/ /\ kind \notin {"bad", "oversized", "peer"} /\ Moves(c, "body")
  /\ UNCHANGED <<server, socket, boot, keys, sess, bound, created, accepting, capacity>>

---------------------------------------------------------------------------
(* Tokens and ownership. *)

(* TokenAuthority.verify: signature and claims of this boot, this owner,    *)
(* this session, and not expired.                                           *)
Verified(token, owner, s) ==
  /\ token = s
  /\ sess[token].phase # None /\ sess[token].boot = boot
  /\ sess[token].owner = owner
  /\ ~sess[token].expired

Owned(c, s) == s \in bound /\ sess[s].owner = conn[c].peer
SessionDocument(c, s) == Finish(c, sess[s].phase, s)

(* _session_read.                                                           *)
SessionRead(c, s) ==
  /\ \/ /\ ~Owned(c, s) /\ Refuse(c, "not_found")
     \/ /\ Owned(c, s) /\ SessionDocument(c, s)
  /\ UNCHANGED <<server, socket, boot, keys, sess, bound, created, accepting, capacity>>

(* _session_heartbeat: the ownership is checked before the body is read and *)
(* the token after it; SessionManager.heartbeat refuses an ended session.   *)
SessionHeartbeat(c, s, token) ==
  /\ \/ /\ ~Owned(c, s) /\ Refuse(c, "not_found")
     \/ /\ Owned(c, s) /\ ~Verified(token, conn[c].peer, s) /\ Refuse(c, "stale_token")
     \/ /\ Owned(c, s) /\ Verified(token, conn[c].peer, s)
        /\ \/ sess[s].phase \in {"preparing", "active"} /\ SessionDocument(c, s)
           \/ sess[s].phase \notin {"preparing"} /\ Refuse(c, "session_not_open")
  /\ UNCHANGED <<server, socket, boot, keys, sess, bound, created, accepting, capacity>>

(* _session_close with close_session: a closed session is answered at once, *)
(* any other is put into DRAINING and the task waits for its end.           *)
SessionClose(c, s, token) ==
  /\ \/ /\ ~Owned(c, s) /\ Refuse(c, "not_found") /\ UNCHANGED sess
     \/ /\ Owned(c, s) /\ ~Verified(token, conn[c].peer, s)
        /\ Refuse(c, "stale_token") /\ UNCHANGED sess
     \/ /\ Owned(c, s) /\ Verified(token, conn[c].peer, s)
        /\ sess[s].phase = "closed" /\ UNCHANGED sess
        /\ SessionDocument(c, s)
     \/ /\ Owned(c, s) /\ Verified(token, conn[c].peer, s)
        /\ sess[s].phase # "closed"
        /\ sess' = [sess EXCEPT ![s].phase = "draining"]
        /\ Moves(c, "draining")
  /\ UNCHANGED <<server, socket, boot, keys, bound, created, accepting, capacity>>

(* close_session returns once the session is CLOSED or BLOCKED.             *)
CloseReturns(c) ==
  /\ conn[c].at = "draining"
  /\ sess[conn[c].request.sid].phase \in {"closed", "blocked"}
  /\ UNCHANGED <<server, socket, boot, keys, sess, bound, created, accepting, capacity>>
  /\ SessionDocument(c, conn[c].request.sid)

(* _execution_create: the token alone names the session; submit verifies it *)
(* against the caller and takes work only for an ACTIVE session.            *)
ExecutionCreate(c, token) ==
  /\ \/ /\ token \notin bound /\ Refuse(c, "stale_token")
     \/ /\ token \in bound /\ ~Verified(token, conn[c].peer, token) /\ Refuse(c, "stale_token")
     \/ /\ token \in bound /\ Verified(token, conn[c].peer, token)
        /\ \/ sess[token].phase = "active" /\ Finish(c, "queued", token)
           \/ Refuse(c, "session_not_active")
  /\ UNCHANGED <<server, socket, boot, keys, sess, bound, created, accepting, capacity>>

---------------------------------------------------------------------------
(* Idempotent session creation. *)

\* Mutant: a pending key may be claimed again.
Free_pending(k) == k.state # "completed"

(* begin finds no record under the key.                                     *)
Free(k) == k.state = None

(* IdempotencyStore.begin under _session_create: claim, replay or refuse.   *)
Begin(c) ==
  LET owner == conn[c].peer
      r     == conn[c].request
      k     == keys[<<owner, r.key>>]
  IN
  /\ \/ /\ k.state # None /\ k.payload # r.payload
        /\ Refuse(c, "idempotency_conflict") /\ UNCHANGED keys
     \/ /\ k.state = "pending" /\ k.payload = r.payload
        /\ Refuse(c, "busy") /\ UNCHANGED keys
     \/ /\ k.state = "completed" /\ k.payload = r.payload
        /\ UNCHANGED keys
        /\ IF k.sid \in bound THEN Finish(c, sess[k.sid].phase, k.sid) ELSE Refuse(c, "not_found")
     \/ /\ Free(k)
        /\ keys' = [keys EXCEPT ![<<owner, r.key>>] =
                      [state |-> "pending", payload |-> r.payload, sid |-> None]]
        /\ Moves(c, "register")
  /\ UNCHANGED <<server, socket, boot, sess, bound, created, accepting, capacity>>

(* IdempotencyStore.fail: the key is free again.                            *)
Released(c) == [keys EXCEPT ![<<conn[c].peer, conn[c].request.key>>] = NoKey]

(* register_session holds the scheduler lock; bind, document and complete   *)
(* follow without an await.                                                 *)
Register(c) ==
  /\ conn[c].at = "register"
  /\ accepting /\ Cardinality({s \in Conns : sess[s].phase # None}) < capacity
  /\ LET owner == conn[c].peer
         r     == conn[c].request
     IN /\ sess' = [sess EXCEPT ![c] = [phase |-> "preparing", owner |-> owner,
                                        boot |-> boot, expired |-> FALSE]]
        /\ bound' = bound \cup {c}
        /\ created' = created \cup {[sid |-> c, owner |-> owner, key |-> r.key,
                                     payload |-> r.payload, boot |-> boot]}
        /\ keys' = [keys EXCEPT ![<<owner, r.key>>] =
                      [state |-> "completed", payload |-> r.payload, sid |-> c]]
  /\ Finish(c, "preparing", c)
  /\ UNCHANGED <<server, socket, boot, accepting, capacity>>

(* The refusals of register_session and SessionManager.create release the   *)
(* key before they are answered.                                            *)
RegisterRefused(c) ==
  /\ conn[c].at = "register"
  /\ \/ ~accepting /\ Refuse(c, "temporarily_unavailable")
     \/ /\ accepting
        /\ Cardinality({s \in Conns : sess[s].phase # None}) >= capacity
        /\ Refuse(c, "session_capacity")
  /\ keys' = Released(c)
  /\ UNCHANGED <<server, socket, boot, sess, bound, created, accepting, capacity>>

(* _json_body has the whole request: the handler runs.                      *)
ReadBody(c) ==
  LET r == conn[c].request IN
  /\ conn[c].at = "body"
  /\ \/ r.kind = "create" /\ Begin(c)
     \/ r.kind = "read" /\ SessionRead(c, r.sid)
     \/ r.kind = "heartbeat" /\ SessionHeartbeat(c, r.sid, r.token)
     \/ r.kind = "close" /\ SessionClose(c, r.sid, r.token)
     \/ r.kind = "submit" /\ ExecutionCreate(c, r.token)

(* receive reports a disconnect or a silent peer as one; the handler is     *)
(* refused before it has touched anything.                                  *)
BodyBreaks(c) ==
  /\ conn[c].at = "body"
  /\ conn[c].request.kind \notin {"read"}
  /\ Refuse(c, "temporarily_unavailable")
  /\ UNCHANGED <<server, socket, boot, keys, sess, bound, created, accepting, capacity>>

\* Mutant: the timeout bounds the header phase only.
RequestTimeout_header(c) ==
  /\ conn[c].at = "header"
  /\ conn' = [conn EXCEPT ![c] = Closed(@)]
  /\ UNCHANGED <<server, socket, boot, keys, sess, bound, created, accepting, capacity>>

(* wait_for around the header read and around the whole app: the task is    *)
(* cancelled where it waits and the connection closes without an answer.    *)
RequestTimeout(c) ==
  /\ c \in InFlight
  /\ conn' = [conn EXCEPT ![c] = Closed(@)]
  /\ keys' = IF conn[c].at = "register" THEN Released(c) ELSE keys
  /\ UNCHANGED <<server, socket, boot, sess, bound, created, accepting, capacity>>

---------------------------------------------------------------------------
(* The session worker of the scheduler (Sessions.tla has its steps).        *)
SessionMoves(s) ==
  /\ server # "down"
  /\ \/ /\ sess[s].phase = "preparing"
        /\ sess' = [sess EXCEPT ![s].phase = "active"]
     \/ /\ sess[s].phase \in {"preparing", "active"}
        /\ sess' = [sess EXCEPT ![s].phase = "draining"]
     \/ /\ sess[s].phase \in {"draining", "blocked"}
        /\ \E p \in {"closed", "blocked"} : sess' = [sess EXCEPT ![s].phase = p]
     \/ /\ sess[s].phase # None /\ ~sess[s].expired
        /\ sess' = [sess EXCEPT ![s].expired = TRUE]
  /\ UNCHANGED <<server, socket, boot, conn, keys, bound, created, accepting, capacity>>

AdmissionCloses ==
  /\ server = "serving" /\ accepting
  /\ accepting' = FALSE
  /\ UNCHANGED <<server, socket, boot, conn, keys, sess, bound, created, capacity>>

(* A client presents a token it was given in a document.                    *)
Holds(p, token) == \E d \in Conns : conn[d].peer = p /\ conn[d].told = token

CtlNext ==
  \/ Start \/ StopBegins \/ StopEnds \/ Kill \/ AdmissionCloses
  \/ \E c \in Conns, p \in Peers, r \in Requests :
       /\ r \in Targets => Holds(p, r.token) /\ \E d \in Conns : conn[d].told = r.sid
       /\ Connect(c, p, r)
  \/ \E c \in Conns : \/ ReadHeader(c) \/ ReadBody(c) \/ BodyBreaks(c) \/ RequestTimeout(c)
                      \/ Register(c) \/ RegisterRefused(c) \/ CloseReturns(c)
  \/ \E s \in Conns : SessionMoves(s)

CtlTasks == \A c \in Conns : WF_ctlVars(RequestTimeout(c))

(* The request timeouts bound every task and the process runs its stop to   *)
(* its end; nothing is assumed of clients or of the session worker.         *)
CtlFair == CtlTasks /\ WF_ctlVars(StopEnds)
CtlSpec == CtlInit /\ [][CtlNext]_ctlVars /\ CtlFair

---------------------------------------------------------------------------
(* Properties *)

(* IdempotencyStore.begin promises exactly one creation per owner, key and  *)
(* payload, and _session_create that a refusal does not strand the key:     *)
(* concurrent retries, timeouts and refusals in between never leave one     *)
(* boot with two sessions for a key, nor a key pending without the request  *)
(* that claimed it being at the scheduler.                                  *)
KeysHold ==
  /\ \A x, y \in created :
        x.boot = y.boot /\ x.owner = y.owner /\ x.key = y.key => x = y
  /\ server # "down" =>
       \A k \in DOMAIN keys : keys[k].state = "pending" =>
         \E c \in Conns : /\ conn[c].at = "register" /\ conn[c].peer = k[1]
                          /\ conn[c].request.key = k[2]

(* Every accepted connection ends, and a stop that was begun removes the    *)
(* socket: no peer and no session that never closes can hold either up.     *)
StopFinishes ==
  /\ (server = "closing") ~> (server = "down")
  /\ \A c \in Conns : (c \in InFlight) ~> (conn[c].at = "done")
=============================================================================
