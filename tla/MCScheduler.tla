---------------------------- MODULE MCScheduler ----------------------------
(***************************************************************************)
(* Instances of Scheduler: two models that cannot be resident together.    *)
(***************************************************************************)
EXTENDS Scheduler, TLC, FiniteSetsExt

CONSTANTS m1, m2, r1, r2, w1

MCSum(f) == FoldSet(LAMBDA m, acc : f[m] + acc, 0, DOMAIN f)

Order == <<m1, m2>>
Known == {{m1, m2}}
Sizes == m1 :> 2 @@ m2 :> 3
Unmeasured == m1 :> None @@ m2 :> None
OneSlot == m1 :> 1 @@ m2 :> 1
TwoSlots == m1 :> 2 @@ m2 :> 1
Ttls == m1 :> 1 @@ m2 :> 0
BothTtl == m1 :> 1 @@ m2 :> 1
OneEach == r1 :> m1 @@ r2 :> m2
OneOnly == r1 :> m1
SameModel == r1 :> m1 @@ r2 :> m1
WarmFirst == w1 :> {m1}
WarmEither == w1 :> {m1, m2}
Maybe == {{m1}, {m1, m2}}
Equal == m1 :> 2 @@ m2 :> 2
NoSession == [r \in Requests |-> None]
NoWarm == [p \in {} |-> {}]
=============================================================================
