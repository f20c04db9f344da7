----------------------------- MODULE MCSessions -----------------------------
(***************************************************************************)
(* Instances of Sessions: two models that cannot be resident together.     *)
(***************************************************************************)
EXTENDS Sessions, TLC, FiniteSetsExt

CONSTANTS m1, m2, r1, w1, s1, s2

MCSum(f) == FoldSet(LAMBDA m, acc : f[m] + acc, 0, DOMAIN f)

Order == <<m1, m2>>
Known == {{m1, m2}}
Sizes == m1 :> 2 @@ m2 :> 3
Unmeasured == m1 :> None @@ m2 :> None
OneSlot == m1 :> 1 @@ m2 :> 1
Ttls == m1 :> 0 @@ m2 :> 0
Outsider == r1 :> None
OneSession == r1 :> m2 @@ s1 :> m1
TwoSessions == r1 :> m2 @@ s1 :> m1 @@ s2 :> m2
NoWarm == w1 :> {}
=============================================================================
