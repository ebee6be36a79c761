------------------------ MODULE MC_LRUSessionCache ------------------------
(* An instance of LRUSessionCache for TLC. *)
EXTENDS LRUSessionCache, TLC

CONSTANTS k1, k2, k3, k4, k5, s1, s2

FiveKeys  == {k1, k2, k3, k4, k5}
TwoStates == {s1, s2}
Symmetry  == Permutations(Keys) \cup Permutations(States)
===========================================================================
