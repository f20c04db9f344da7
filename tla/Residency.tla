----------------------------- MODULE Residency -----------------------------
(***************************************************************************)
(* What the accounting book promises, without operations, epochs or        *)
(* freezes: a set of models whose memory is charged to the budget, and the *)
(* requests that hold a lease on each of them.                             *)
(***************************************************************************)
EXTENDS Integers

CONSTANTS
    Models,          \* registered model ids
    Requests,        \* request ids that may hold leases
    Required,        \* [Models -> bytes charged for a model]
    Figure,          \* [Models -> static physical bytes, 0 when unmeasured]
    Budget,          \* model_budget
    Sum(_)           \* summation of a function from Models to bytes

VARIABLES
    charged,         \* models that still count against the budget
    holders          \* [Models -> set of requests holding a lease]

resVars == <<charged, holders>>

Masked(w, S) == [m \in Models |-> IF m \in S THEN w[m] ELSE 0]

\* What was not seen stopped at start is charged, and nobody is served.
Init ==
    /\ charged \in SUBSET Models
    /\ holders = [m \in Models |-> {}]

\* A model may be charged only if both ledgers stay inside the budget.
Charge(m) ==
    /\ m \notin charged
    /\ charged' = charged \cup {m}
    /\ Sum(Masked(Required, charged')) <= Budget
    /\ Sum(Masked(Figure, charged')) <= Budget
    /\ UNCHANGED holders

\* Memory is given back only for models nobody holds.
Refund(S) ==
    /\ S \subseteq charged
    /\ \A m \in S : holders[m] = {}
    /\ charged' = charged \ S
    /\ UNCHANGED holders

\* A request gets a lease on a charged model and never holds two.
Grant(m, r) ==
    /\ m \in charged
    /\ \A k \in Models : r \notin holders[k]
    /\ holders' = [holders EXCEPT ![m] = @ \cup {r}]
    /\ UNCHANGED charged

\* Leases end, one by one or all at once when they are aborted.
Return ==
    /\ holders' \in [Models -> SUBSET Requests]
    /\ \A m \in Models : holders'[m] \subseteq holders[m]
    /\ UNCHANGED charged

Next ==
    \/ \E m \in Models : Charge(m)
    \/ \E S \in SUBSET Models : Refund(S)
    \/ \E m \in Models, r \in Requests : Grant(m, r)
    \/ Return

Spec == Init /\ [][Next]_resVars
=============================================================================
