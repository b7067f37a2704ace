---------------------- MODULE MCPermissionForwarding ----------------------
(* PermissionForwarding for TLC: two children of one parent ask about the  *)
(* same pattern.                                                           *)
EXTENDS PermissionForwarding, TLC

CONSTANT p
MCPatternOf == [r \in Request |-> p]
MCRequester == [r \in Request |-> r]
MCConfig == [r \in Request |-> "ask"]

Symmetry == Permutations(Request)
=============================================================================
