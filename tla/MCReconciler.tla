---------------------------- MODULE MCReconciler ----------------------------
(***************************************************************************)
(* Instances of Reconciler for TLC: one decision observed by overlapping   *)
(* reconciliation cycles, or two decisions on one pair, whose positions    *)
(* the venue does not tell apart.                                          *)
(***************************************************************************)
EXTENDS Reconciler, TLC

CONSTANTS i1, i2, p1, c1, c2

OneIntent  == {i1}
TwoIntents == {i1, i2}
OnePair    == {p1}
SamePair   == [i \in Intents |-> p1]
OneCycle   == {c1}
TwoCycles  == {c1, c2}

CyclesAlike == Permutations({c1, c2})

=============================================================================
