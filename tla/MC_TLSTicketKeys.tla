-------------------------- MODULE MC_TLSTicketKeys --------------------------
(* Instances of TLSTicketKeys for TLC. *)
EXTENDS TLSTicketKeys, TLC

CONSTANTS g1, g2, g3

ThreeGoroutines == {g1, g2, g3}
NoConfigs       == {}
Symmetry        == Permutations(G)

=============================================================================
