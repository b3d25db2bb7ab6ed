----------------------------- MODULE MCMultiTier -----------------------------
(* Sizes, limits and policies for the runs of MultiTier.                   *)
EXTENDS MultiTier, TLC

CONSTANTS t1, t2, t3

Three == {t1, t2, t3}

(* t1's body fits every tier, the others' are too large for L0.            *)
Sizes  == [t \in Three |-> IF t = t1 THEN 1 ELSE 2]
Limits == [i \in Caches |-> i + 1]

LargeAlike == Permutations({t2, t3})

(* Policy::default promotes from each tier to all tiers above it.          *)
PromoteAll == {p \in Tiers \X Caches : p[2] < p[1]}
=============================================================================
