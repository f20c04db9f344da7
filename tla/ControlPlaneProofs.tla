-------------------------- MODULE ControlPlaneProofs --------------------------
(***************************************************************************)
(* Proofs about ControlPlane: an idempotency key makes one session, and no *)
(* key is left pending behind a request that is gone.                      *)
(***************************************************************************)
EXTENDS ControlPlane, TLAPS

\* The idempotency record a connection works under.
KeyOf(c) == <<conn[c].peer, conn[c].request.key>>

CtlTypeOK ==
  /\ server \in {"down", "serving", "closing"} /\ boot \in Nat
  /\ DOMAIN conn = Conns /\ DOMAIN keys = Allowed \X Keys
  /\ \A c \in Conns : DOMAIN conn[c] = {"at", "peer", "request", "answer", "told"}

\* A connection at the scheduler has claimed its key, and is alone with it;
\* nobody works in a process that is down.
ClaimInv ==
  /\ \A c \in Conns : conn[c].at \in {"header", "body", "register", "draining"} =>
       /\ server # "down" /\ conn[c].peer \in Allowed
       /\ conn[c].request \in Requests
  /\ \A c \in Conns : conn[c].at = "register" =>
       conn[c].request \in Creates /\ keys[KeyOf(c)].state = "pending"
  /\ \A c, d \in Conns : conn[c].at = "register" /\ conn[d].at = "register"
                           /\ KeyOf(c) = KeyOf(d) => c = d

\* A session of this boot was created under a key that is completed since.
CreatedInv ==
  \A x \in created :
    /\ x.boot \in Nat /\ x.boot <= boot
    /\ x.boot = boot => /\ <<x.owner, x.key>> \in DOMAIN keys
                        /\ keys[<<x.owner, x.key>>].state = "completed"

CtlInv == CtlTypeOK /\ ClaimInv /\ CreatedInv /\ KeysHold

\* The first boot finds no connection, no key and no session.
LEMMA CtlInitInv == CtlInit => CtlInv
BY DEF CtlInit, CtlInv, CtlTypeOK, ClaimInv, CreatedInv, KeysHold, NoKey, None

\* A step of one connection that is not at the scheduler and does not go
\* there: it ends, or moves on, and leaves the keys alone.
Elsewhere(c) ==
  /\ UNCHANGED <<server, boot, keys, created>>
  /\ conn[c].at # "register"
  /\ DOMAIN conn' = Conns /\ DOMAIN conn'[c] = DOMAIN conn[c]
  /\ \A d \in Conns : d # c => conn'[d] = conn[d]
  /\ conn'[c].at # "register"
  /\ conn'[c].at \in {"header", "body", "draining"} =>
       server # "down" /\ conn'[c].peer \in Allowed /\ conn'[c].request \in Requests

LEMMA ElsewhereKeeps == ASSUME CtlInv, NEW c \in Conns, Elsewhere(c) PROVE CtlInv'
<1>1. CtlTypeOK'
  BY DEF CtlInv, CtlTypeOK, Elsewhere
<1>2. ClaimInv'
  BY DEF CtlInv, ClaimInv, Elsewhere, KeyOf
<1>3. CreatedInv'
  BY DEF CtlInv, CreatedInv, Elsewhere
<1>4. KeysHold'
  BY DEF CtlInv, KeysHold, Elsewhere
<1> QED BY <1>1, <1>2, <1>3, <1>4 DEF CtlInv

\* What the handlers write into the record of a connection.
LEMMA ConnMoves ==
  ASSUME CtlInv, NEW c \in Conns, NEW stage, Moves(c, stage)
  PROVE  /\ DOMAIN conn' = Conns /\ DOMAIN conn'[c] = DOMAIN conn[c]
         /\ \A d \in Conns : d # c => conn'[d] = conn[d]
         /\ conn'[c].at = stage /\ conn'[c].peer = conn[c].peer
         /\ conn'[c].request = conn[c].request
BY DEF CtlInv, CtlTypeOK, Moves

LEMMA ConnEnds ==
  ASSUME CtlInv, NEW c \in Conns,
         \/ \E answer, told : Finish(c, answer, told)
         \/ conn' = [conn EXCEPT ![c] = Closed(@)]
  PROVE  /\ DOMAIN conn' = Conns /\ DOMAIN conn'[c] = DOMAIN conn[c]
         /\ \A d \in Conns : d # c => conn'[d] = conn[d]
         /\ conn'[c].at = "done"
<1>1. ASSUME NEW answer, NEW told, Finish(c, answer, told)
      PROVE  /\ DOMAIN conn' = Conns /\ DOMAIN conn'[c] = DOMAIN conn[c]
             /\ \A d \in Conns : d # c => conn'[d] = conn[d]
             /\ conn'[c].at = "done"
  BY <1>1 DEF CtlInv, CtlTypeOK, Finish
<1>2. CASE conn' = [conn EXCEPT ![c] = Closed(@)]
  BY <1>2 DEF CtlInv, CtlTypeOK, Closed
<1> QED BY <1>1, <1>2

\* A connection outside the scheduler call that ends without touching a key.
LEMMA EndsElsewhere ==
  ASSUME CtlInv, NEW c \in Conns, conn[c].at # "register",
         UNCHANGED <<server, boot, keys, created>>,
         \/ \E answer, told : Finish(c, answer, told)
         \/ conn' = [conn EXCEPT ![c] = Closed(@)]
  PROVE  CtlInv'
BY ConnEnds, ElsewhereKeeps DEF Elsewhere

\* A request claims a free key and goes to the scheduler (IdempotencyStore.begin).
LEMMA BeginKeeps ==
  ASSUME CtlInv, NEW c \in Conns, conn[c].at = "body", conn[c].request.kind = "create",
         Begin(c)
  PROVE  CtlInv'
<1>1. CASE UNCHANGED keys /\ \E answer, told : Finish(c, answer, told)
  BY <1>1, EndsElsewhere DEF Begin
<1>2. CASE /\ Free(keys[KeyOf(c)]) /\ Moves(c, "register")
           /\ keys' = [keys EXCEPT ![KeyOf(c)] =
                 [state |-> "pending", payload |-> conn[c].request.payload, sid |-> None]]
  <2>1. UNCHANGED <<server, boot, created>>
    BY DEF Begin
  <2>2. conn[c].request \in Creates /\ conn[c].peer \in Allowed /\ server # "down"
    BY DEF CtlInv, ClaimInv, Requests, Creates, Targets
  <2>3. KeyOf(c) \in Allowed \X Keys
    BY <2>2 DEF KeyOf, Creates
  <2>4. /\ DOMAIN keys' = DOMAIN keys /\ keys'[KeyOf(c)].state = "pending"
        /\ \A k \in DOMAIN keys : k # KeyOf(c) => keys'[k] = keys[k]
    BY <1>2, <2>3 DEF CtlInv, CtlTypeOK
  <2>5. /\ DOMAIN conn' = Conns /\ DOMAIN conn'[c] = DOMAIN conn[c]
        /\ \A d \in Conns : d # c => conn'[d] = conn[d]
        /\ conn'[c].at = "register" /\ conn'[c].peer = conn[c].peer
        /\ conn'[c].request = conn[c].request
    BY <1>2, ConnMoves
  <2>6. keys[KeyOf(c)].state = None
    BY <1>2 DEF Free
  <2>7. \A d \in Conns : KeyOf(d)' = KeyOf(d)
    BY <2>5 DEF KeyOf
  <2>8. \A d \in Conns : d # c /\ conn[d].at = "register" =>
          KeyOf(d) # KeyOf(c) /\ KeyOf(d) \in DOMAIN keys
    BY <2>6 DEF CtlInv, CtlTypeOK, ClaimInv, None, KeyOf, Creates
  <2>9. CtlTypeOK'
    BY <2>1, <2>4, <2>5 DEF CtlInv, CtlTypeOK
  <2>10. ClaimInv'
    BY <2>1, <2>2, <2>4, <2>5, <2>7, <2>8 DEF CtlInv, ClaimInv
  <2>11. CreatedInv'
    BY <2>1, <2>4, <2>6 DEF CtlInv, CreatedInv, None
  <2>12. KeysHold'
    <3>1. ASSUME NEW k \in DOMAIN keys', keys'[k].state = "pending"
          PROVE  \E d \in Conns : /\ conn'[d].at = "register" /\ conn'[d].peer = k[1]
                                  /\ conn'[d].request.key = k[2]
      <4>1. CASE k = KeyOf(c)
        BY <2>5, <4>1 DEF KeyOf
      <4>2. CASE k # KeyOf(c)
        <5>1. PICK d \in Conns : /\ conn[d].at = "register" /\ conn[d].peer = k[1]
                                 /\ conn[d].request.key = k[2]
          BY <2>2, <2>4, <3>1, <4>2 DEF CtlInv, KeysHold
        <5>2. d # c
          BY <5>1
        <5> QED BY <2>5, <5>1, <5>2
      <4> QED BY <4>1, <4>2
    <3> QED BY <2>1, <3>1 DEF CtlInv, KeysHold
  <2> QED BY <2>9, <2>10, <2>11, <2>12 DEF CtlInv
<1> QED BY <1>1, <1>2 DEF Begin, KeyOf, Refuse

\* What a connection at the scheduler knows of its key.
LEMMA Claimed ==
  ASSUME CtlInv, NEW c \in Conns, conn[c].at = "register"
  PROVE  /\ KeyOf(c) \in DOMAIN keys /\ keys[KeyOf(c)].state = "pending"
         /\ \A d \in Conns : d # c /\ conn[d].at = "register" => KeyOf(d) # KeyOf(c)
         /\ KeyOf(c) = <<conn[c].peer, conn[c].request.key>>
BY DEF CtlInv, CtlTypeOK, ClaimInv, KeyOf, Creates

\* The connection ends and its key is free again (IdempotencyStore.fail).
LEMMA ReleaseKeeps ==
  ASSUME CtlInv, NEW c \in Conns, conn[c].at = "register",
         UNCHANGED <<server, boot, created>>, keys' = Released(c),
         \/ \E answer, told : Finish(c, answer, told)
         \/ conn' = [conn EXCEPT ![c] = Closed(@)]
  PROVE  CtlInv'
<1>1. /\ DOMAIN keys' = DOMAIN keys /\ keys'[KeyOf(c)].state = None
      /\ \A k \in DOMAIN keys : k # KeyOf(c) => keys'[k] = keys[k]
  BY Claimed DEF Released, NoKey, KeyOf
<1>2. /\ DOMAIN conn' = Conns /\ DOMAIN conn'[c] = DOMAIN conn[c]
      /\ \A d \in Conns : d # c => conn'[d] = conn[d]
      /\ conn'[c].at = "done"
  BY ConnEnds
<1>3. \A d \in Conns : d # c => KeyOf(d)' = KeyOf(d)
  BY <1>2 DEF KeyOf
<1>4. \A d \in Conns : conn[d].at = "register" => KeyOf(d) \in DOMAIN keys
  BY Claimed
<1>5. CtlTypeOK'
  BY <1>1, <1>2 DEF CtlInv, CtlTypeOK
<1>6. ClaimInv'
  BY <1>1, <1>2, <1>3, <1>4, Claimed DEF CtlInv, ClaimInv
<1>7. CreatedInv'
  BY <1>1, Claimed DEF CtlInv, CreatedInv
<1>8. KeysHold'
  <2>1. ASSUME server # "down", NEW k \in DOMAIN keys', keys'[k].state = "pending"
        PROVE  \E d \in Conns : /\ conn'[d].at = "register" /\ conn'[d].peer = k[1]
                                /\ conn'[d].request.key = k[2]
    <3>1. k # KeyOf(c) /\ k \in DOMAIN keys /\ keys[k].state = "pending"
      BY <1>1, <2>1 DEF None
    <3>2. PICK d \in Conns : /\ conn[d].at = "register" /\ conn[d].peer = k[1]
                             /\ conn[d].request.key = k[2]
      BY <2>1, <3>1 DEF CtlInv, KeysHold
    <3>3. k = <<k[1], k[2]>>
      BY <3>1 DEF CtlInv, CtlTypeOK
    <3>4. d # c
      BY <3>1, <3>2, <3>3 DEF KeyOf
    <3> QED BY <1>2, <3>2, <3>4
  <2> QED BY <2>1 DEF CtlInv, KeysHold
<1> QED BY <1>5, <1>6, <1>7, <1>8 DEF CtlInv

\* The session is registered and its key completed (IdempotencyStore.complete).
LEMMA RegisterKeeps == ASSUME CtlInv, NEW c \in Conns, Register(c) PROVE CtlInv'
<1> DEFINE new == [sid |-> c, owner |-> conn[c].peer, key |-> conn[c].request.key,
                   payload |-> conn[c].request.payload, boot |-> boot]
<1>1. /\ conn[c].at = "register" /\ UNCHANGED <<server, boot>>
      /\ created' = created \cup {new}
  BY DEF Register
<1>2. /\ DOMAIN keys' = DOMAIN keys /\ keys'[KeyOf(c)].state = "completed"
      /\ \A k \in DOMAIN keys : k # KeyOf(c) => keys'[k] = keys[k]
  BY <1>1, Claimed DEF Register, KeyOf
<1>3. /\ DOMAIN conn' = Conns /\ DOMAIN conn'[c] = DOMAIN conn[c]
      /\ \A d \in Conns : d # c => conn'[d] = conn[d]
      /\ conn'[c].at = "done"
  BY ConnEnds DEF Register
<1>4. \A d \in Conns : d # c => KeyOf(d)' = KeyOf(d)
  BY <1>3 DEF KeyOf
<1>5. \A d \in Conns : conn[d].at = "register" => KeyOf(d) \in DOMAIN keys
  BY Claimed
<1>6. /\ new.boot = boot /\ new.owner = conn[c].peer /\ new.key = conn[c].request.key
      /\ <<new.owner, new.key>> = KeyOf(c) /\ boot \in Nat
  BY DEF KeyOf, CtlInv, CtlTypeOK
<1> HIDE DEF new
<1>7. \A x \in created : x.boot = boot => <<x.owner, x.key>> # KeyOf(c)
  BY <1>1, Claimed DEF CtlInv, CreatedInv
<1>8. CtlTypeOK'
  BY <1>1, <1>2, <1>3 DEF CtlInv, CtlTypeOK
<1>9. ClaimInv'
  BY <1>1, <1>2, <1>3, <1>4, <1>5, Claimed DEF CtlInv, ClaimInv
<1>10. CreatedInv'
  <2>1. ASSUME NEW x \in created
        PROVE  /\ x.boot \in Nat /\ x.boot <= boot
               /\ x.boot = boot => /\ <<x.owner, x.key>> \in DOMAIN keys'
                                   /\ keys'[<<x.owner, x.key>>].state = "completed"
    BY <1>2, <1>7, <2>1 DEF CtlInv, CreatedInv
  <2>2. /\ new.boot \in Nat /\ new.boot <= boot
        /\ <<new.owner, new.key>> \in DOMAIN keys'
        /\ keys'[<<new.owner, new.key>>].state = "completed"
    BY <1>1, <1>2, <1>5, <1>6
  <2> QED BY <1>1, <2>1, <2>2 DEF CreatedInv
<1>11. KeysHold'
  <2>1. ASSUME NEW x \in created', NEW y \in created',
               x.boot = y.boot, x.owner = y.owner, x.key = y.key
        PROVE  x = y
    BY <1>1, <1>6, <1>7, <2>1 DEF CtlInv, KeysHold
  <2>2. ASSUME server # "down", NEW k \in DOMAIN keys', keys'[k].state = "pending"
        PROVE  \E d \in Conns : /\ conn'[d].at = "register" /\ conn'[d].peer = k[1]
                                /\ conn'[d].request.key = k[2]
    <3>1. k # KeyOf(c) /\ k \in DOMAIN keys /\ keys[k].state = "pending"
      BY <1>2, <2>2
    <3>2. PICK d \in Conns : /\ conn[d].at = "register" /\ conn[d].peer = k[1]
                             /\ conn[d].request.key = k[2]
      BY <2>2, <3>1 DEF CtlInv, KeysHold
    <3>3. k = <<k[1], k[2]>>
      BY <3>1 DEF CtlInv, CtlTypeOK
    <3>4. d # c
      BY <3>1, <3>2, <3>3 DEF KeyOf
    <3> QED BY <1>3, <3>2, <3>4
  <2> QED BY <1>1, <2>1, <2>2 DEF KeysHold
<1> QED BY <1>8, <1>9, <1>10, <1>11 DEF CtlInv

\* The handlers without an idempotency key end their connection, or leave it
\* waiting for the end of the session it closes.
LEMMA HandlersKeep ==
  ASSUME CtlInv, NEW c \in Conns, conn[c].at = "body", NEW s, NEW token,
         SessionRead(c, s) \/ SessionHeartbeat(c, s, token) \/ SessionClose(c, s, token)
           \/ ExecutionCreate(c, token)
  PROVE  CtlInv'
<1>1. UNCHANGED <<server, boot, keys, created>>
  BY DEF SessionRead, SessionHeartbeat, SessionClose, ExecutionCreate
<1>2. Moves(c, "draining") \/ \E answer, told : Finish(c, answer, told)
  BY DEF SessionRead, SessionHeartbeat, SessionClose, ExecutionCreate, Refuse, SessionDocument
<1>3. CASE Moves(c, "draining")
  <2>1. server # "down" /\ conn[c].peer \in Allowed /\ conn[c].request \in Requests
    BY DEF CtlInv, ClaimInv
  <2> QED BY <1>1, <1>3, <2>1, ConnMoves, ElsewhereKeeps DEF Elsewhere
<1>4. CASE \E answer, told : Finish(c, answer, told)
  BY <1>1, <1>4, EndsElsewhere
<1> QED BY <1>2, <1>3, <1>4

\* The steps of the process: a start forgets the keys, and a process that goes
\* down takes every connection with it.
LEMMA ProcessKeeps ==
  ASSUME CtlInv, Start \/ StopBegins \/ StopEnds \/ Kill
  PROVE  CtlInv'
<1>1. CASE Start
  <2>1. \A c \in Conns : conn[c].at \notin {"header", "body", "register", "draining"}
    BY <1>1 DEF Start, CtlInv, ClaimInv
  <2>2. \A x \in created : x.boot \in Nat /\ x.boot < boot'
    <3>1. boot \in Nat /\ boot' = boot + 1
      BY <1>1 DEF Start, CtlInv, CtlTypeOK
    <3>2. \A x \in created : x.boot \in Nat /\ x.boot <= boot
      BY DEF CtlInv, CreatedInv
    <3> QED BY <3>1, <3>2
  <2>3. \A k \in DOMAIN keys' : keys'[k].state # "pending"
    BY <1>1 DEF Start, NoKey, None
  <2>4. CtlTypeOK'
    BY <1>1 DEF Start, CtlInv, CtlTypeOK
  <2>5. ClaimInv'
    BY <1>1, <2>1 DEF Start, ClaimInv
  <2>6. CreatedInv'
    <3>1. created' = created /\ boot' \in Nat
      BY <1>1 DEF Start, CtlInv, CtlTypeOK
    <3> QED BY <2>2, <3>1 DEF CreatedInv
  <2>7. KeysHold'
    BY <1>1, <2>3 DEF Start, CtlInv, KeysHold
  <2> QED BY <2>4, <2>5, <2>6, <2>7 DEF CtlInv
<1>2. CASE StopBegins
  <2>1. UNCHANGED <<boot, conn, keys, created>> /\ server # "down" /\ server' = "closing"
    BY <1>2 DEF StopBegins
  <2>2. CtlTypeOK' /\ CreatedInv'
    BY <2>1 DEF CtlInv, CtlTypeOK, CreatedInv
  <2>3. ClaimInv' /\ KeysHold'
    BY <2>1 DEF CtlInv, ClaimInv, KeysHold, KeyOf
  <2> QED BY <2>2, <2>3 DEF CtlInv
<1>3. CASE StopEnds
  <2>1. /\ UNCHANGED <<boot, conn, keys, created>> /\ server' = "down"
        /\ \A c \in Conns : conn[c].at \notin {"header", "body", "register", "draining"}
    BY <1>3 DEF StopEnds, InFlight
  <2>2. CtlTypeOK' /\ CreatedInv'
    BY <2>1 DEF CtlInv, CtlTypeOK, CreatedInv
  <2>3. ClaimInv' /\ KeysHold'
    BY <2>1 DEF CtlInv, ClaimInv, KeysHold
  <2> QED BY <2>2, <2>3 DEF CtlInv
<1>4. CASE Kill
  <2>1. /\ UNCHANGED <<boot, keys, created>> /\ server' = "down" /\ DOMAIN conn' = Conns
        /\ \A c \in Conns : conn'[c] = IF c \in InFlight THEN Closed(conn[c]) ELSE conn[c]
    BY <1>4 DEF Kill
  <2>2. \A c \in Conns : conn'[c].at \notin {"header", "body", "register", "draining"}
    BY <2>1 DEF InFlight, Closed, CtlInv, CtlTypeOK
  <2>3. \A c \in Conns : DOMAIN conn'[c] = DOMAIN conn[c]
    BY <2>1 DEF Closed
  <2>4. CtlTypeOK' /\ CreatedInv'
    BY <2>1, <2>3 DEF CtlInv, CtlTypeOK, CreatedInv
  <2>5. ClaimInv' /\ KeysHold'
    BY <2>1, <2>2 DEF CtlInv, ClaimInv, KeysHold
  <2> QED BY <2>4, <2>5 DEF CtlInv
<1> QED BY <1>1, <1>2, <1>3, <1>4

\* Every step of the control plane keeps the invariant.
LEMMA CtlStepInv == CtlInv /\ [CtlNext]_ctlVars => CtlInv'
<1> SUFFICES ASSUME CtlInv, [CtlNext]_ctlVars PROVE CtlInv'
  OBVIOUS
<1>1. CASE Start \/ StopBegins \/ StopEnds \/ Kill
  BY <1>1, ProcessKeeps
<1>2. CASE UNCHANGED <<server, boot, conn, keys, created>>
  <2>1. CtlTypeOK' /\ CreatedInv'
    BY <1>2 DEF CtlInv, CtlTypeOK, CreatedInv
  <2>2. ClaimInv' /\ KeysHold'
    BY <1>2 DEF CtlInv, ClaimInv, KeysHold, KeyOf
  <2> QED BY <2>1, <2>2 DEF CtlInv
<1>3. CASE AdmissionCloses \/ \E s \in Conns : SessionMoves(s)
  BY <1>2, <1>3 DEF AdmissionCloses, SessionMoves
<1>4. ASSUME NEW c \in Conns, NEW p \in Peers, NEW r \in Requests, Connect(c, p, r)
      PROVE  CtlInv'
  <2> DEFINE opened == [conn[c] EXCEPT !.at = "header", !.peer = p, !.request = r]
  <2>1. DOMAIN conn[c] = {"at", "peer", "request", "answer", "told"} /\ c \in DOMAIN conn
    BY DEF CtlInv, CtlTypeOK
  <2>2. /\ DOMAIN opened = DOMAIN conn[c] /\ opened.at = "header"
        /\ opened.peer = p /\ opened.request = r
    BY <2>1
  <2>3. DOMAIN Closed(opened) = DOMAIN conn[c] /\ Closed(opened).at = "done"
    BY <2>1 DEF Closed
  <2>4. /\ UNCHANGED <<server, boot, keys, created>> /\ server = "serving"
        /\ conn[c].at = "unused"
        /\ conn' = [conn EXCEPT ![c] = IF p \in Allowed THEN opened ELSE Closed(opened)]
    BY <1>4 DEF Connect
  <2> HIDE DEF opened
  <2>5. /\ DOMAIN conn' = Conns /\ \A d \in Conns : d # c => conn'[d] = conn[d]
        /\ conn'[c] = IF p \in Allowed THEN opened ELSE Closed(opened)
    BY <2>1, <2>4 DEF CtlInv, CtlTypeOK
  <2> QED BY <2>2, <2>3, <2>4, <2>5, ElsewhereKeeps DEF Elsewhere
<1>5. ASSUME NEW c \in Conns, ReadHeader(c) PROVE CtlInv'
  <2>1. /\ UNCHANGED <<server, boot, keys, created>> /\ conn[c].at = "header"
        /\ \/ conn' = [conn EXCEPT ![c] = Closed(@)]
           \/ \E answer, told : Finish(c, answer, told)
           \/ Moves(c, "body")
    BY <1>5 DEF ReadHeader, Refuse
  <2>2. CASE Moves(c, "body")
    <3>1. server # "down" /\ conn[c].peer \in Allowed /\ conn[c].request \in Requests
      BY <2>1 DEF CtlInv, ClaimInv
    <3> QED BY <2>1, <2>2, <3>1, ConnMoves, ElsewhereKeeps DEF Elsewhere
  <2> QED BY <2>1, <2>2, EndsElsewhere
<1>6. ASSUME NEW c \in Conns, ReadBody(c) PROVE CtlInv'
  BY <1>6, BeginKeeps, HandlersKeep DEF ReadBody
<1>7. ASSUME NEW c \in Conns, BodyBreaks(c) \/ CloseReturns(c) PROVE CtlInv'
  BY <1>7, EndsElsewhere DEF BodyBreaks, CloseReturns, Refuse, SessionDocument
<1>8. ASSUME NEW c \in Conns, RequestTimeout(c) PROVE CtlInv'
  BY <1>8, EndsElsewhere, ReleaseKeeps DEF RequestTimeout
<1>9. ASSUME NEW c \in Conns, Register(c) PROVE CtlInv'
  BY <1>9, RegisterKeeps
<1>10. ASSUME NEW c \in Conns, RegisterRefused(c) PROVE CtlInv'
  BY <1>10, ReleaseKeeps DEF RegisterRefused, Refuse
<1>11. CASE UNCHANGED ctlVars
  BY <1>2, <1>11 DEF ctlVars
<1> QED BY <1>1, <1>3, <1>4, <1>5, <1>6, <1>7, <1>8, <1>9, <1>10, <1>11 DEF CtlNext

\* IdempotencyStore.begin, complete and fail around register_session: within a
\* boot one owner and key make one session, and a pending key always has the
\* request that claimed it at the scheduler, whatever times out or is refused.
THEOREM OneSessionPerKey == CtlSpec => []KeysHold
<1>1. CtlInit => CtlInv
  BY CtlInitInv
<1>2. CtlInv /\ [CtlNext]_ctlVars => CtlInv'
  BY CtlStepInv
<1>3. CtlInv => KeysHold
  BY DEF CtlInv
<1> QED BY <1>1, <1>2, <1>3, PTL DEF CtlSpec
=============================================================================
