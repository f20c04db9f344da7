---------------------------- MODULE MCModelBook ----------------------------
(***************************************************************************)
(* An instance of ModelBook: two models whose memory excludes each other.   *)
(***************************************************************************)
EXTENDS ModelBook, TLC, FiniteSetsExt

CONSTANTS m1, m2, r1, r2

MCSum(f) == FoldSet(LAMBDA m, acc : f[m] + acc, 0, DOMAIN f)

\* Together the models fit the effective budget and exceed the physical one.
Sizes == m1 :> 2 @@ m2 :> 2
Measured == m1 :> 3 @@ m2 :> 2
Slots == m1 :> 2 @@ m2 :> 1
Ttls == m1 :> 1 @@ m2 :> 0
=============================================================================
