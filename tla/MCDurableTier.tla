---------------------------- MODULE MCDurableTier ----------------------------
(* Model values and symmetry for the runs of DurableTier.                  *)
EXTENDS DurableTier, TLC

CONSTANTS t1, t2, t3, t4, k1

Three == {t1, t2, t3}
Four  == {t1, t2, t3, t4}
One   == {k1}

(* Every action and property treats all tasks alike.                       *)
ThreeAlike == Permutations(Three)
FourAlike  == Permutations(Four)
=============================================================================
