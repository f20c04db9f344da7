----------------------------- MODULE RequestQueue -----------------------------
(***************************************************************************)
(* The aged priority queue of request_queue.py, as the scheduler drives it: *)
(* waiters arrive with a priority and a deadline, the head of a kind is      *)
(* granted, and a granted session that yields is put back as it was.         *)
(***************************************************************************)
EXTENDS Naturals, FiniteSets

CONSTANTS Waiters, Kinds, Priorities, Waits, Capacity, Aging, MaxQueueClock

ASSUME QueueConstants ==
  /\ Capacity \in Nat \ {0} /\ Aging \in Nat \ {0} /\ MaxQueueClock \in Nat
  /\ Priorities \subseteq Nat /\ Waits \subseteq Nat \ {0}

VARIABLES items,     \* _items: the waiters in the queue
          entry,     \* the QueuedRequest of each waiter; a caller may keep it
          sequence,  \* _sequence
          qclock     \* the scheduler's clock

queueVars == <<items, entry, sequence, qclock>>

NoEntry == [state |-> "none", kind |-> "none", priority |-> 0, enqueued_at |-> 0, deadline |-> 0, sequence |-> 0]
Gone == [NoEntry EXCEPT !.state = "gone"]  \* expired or cancelled

QueueInit ==
  /\ items = {} /\ entry = [w \in Waiters |-> NoEntry]
  /\ sequence = 0 /\ qclock = 0

QueueTick ==
  /\ qclock < MaxQueueClock /\ qclock' = qclock + 1
  /\ UNCHANGED <<items, entry, sequence>>

(* expire(now), the first thing enqueue and head do.                          *)
Kept == {w \in items : qclock < entry[w].deadline}
Expiring == [w \in Waiters |-> IF w \in items \ Kept THEN Gone ELSE entry[w]]

(* A request id is used once.                                                 *)
EnqueueWaiter(w, kind, priority, wait) ==
  /\ entry[w] = NoEntry /\ Cardinality(Kept) < Capacity
  /\ sequence' = sequence + 1 /\ items' = Kept \cup {w}
  /\ entry' = [Expiring EXCEPT ![w] = [state |-> "waiting", kind |-> kind, priority |-> priority,
                                       enqueued_at |-> qclock, deadline |-> qclock + wait, sequence |-> sequence']]
  /\ UNCHANGED <<qclock>>

(* requeue neither refreshes the entry nor expires anybody.                    *)
Requeue(w) ==
  /\ entry[w].state = "granted" /\ Cardinality(items) < Capacity
  /\ items' = items \cup {w} /\ entry' = [entry EXCEPT ![w].state = "waiting"]
  /\ UNCHANGED <<sequence, qclock>>

RemoveWaiter(w) ==
  /\ w \in items /\ items' = items \ {w}
  /\ entry' = [entry EXCEPT ![w] = Gone]
  /\ UNCHANGED <<sequence, qclock>>

ClearQueue ==
  /\ items # {} /\ items' = {}
  /\ entry' = [w \in Waiters |-> IF w \in items THEN Gone ELSE entry[w]]
  /\ UNCHANGED <<sequence, qclock>>

\* Mutant: waiters do not age.
AgedPriority_static(e) == e.priority

AgedPriority(e) == e.priority + (qclock - e.enqueued_at) \div Aging

Precedes(d, e) ==
  \/ AgedPriority(d) > AgedPriority(e)
  \/ AgedPriority(d) = AgedPriority(e) /\ d.sequence < e.sequence

HeadOf(S) == CHOOSE w \in S : \A v \in S \ {w} : Precedes(entry[w], entry[v])

(* head(now, kind=...) and the removal of the waiter it names.                 *)
GrantHead(kind) ==
  LET S == {w \in Kept : entry[w].kind = kind}
  IN  /\ S # {}
      /\ items' = Kept \ {HeadOf(S)}
      /\ entry' = [Expiring EXCEPT ![HeadOf(S)].state = "granted"]
      /\ UNCHANGED <<sequence, qclock>>

QueueNext ==
  \/ QueueTick \/ ClearQueue
  \/ \E w \in Waiters : Requeue(w) \/ RemoveWaiter(w)
  \/ \E w \in Waiters, k \in Kinds, p \in Priorities, d \in Waits : EnqueueWaiter(w, k, p, d)
  \/ \E k \in Kinds : GrantHead(k)

---------------------------------------------------------------------------

Granted(w) == entry[w].state = "waiting" /\ entry'[w].state = "granted"

(* Nobody is passed for longer than priorities justify: who is granted ahead   *)
(* of an earlier waiter of the same kind arrived less than one aging period    *)
(* per priority step (plus one) later, whatever was requeued or expired since. *)
AgingBound ==
  [][\A w, v \in Waiters :
       LET d == entry[w] e == entry[v]
       IN  Granted(w) /\ entry'[v] = e /\ e.state = "waiting" /\ e.kind = d.kind /\ e.enqueued_at < d.enqueued_at
             => d.priority > e.priority /\ d.enqueued_at - e.enqueued_at < (d.priority - e.priority + 1) * Aging]_queueVars

====
