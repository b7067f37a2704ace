--------------------------- MODULE MCSessionLease ---------------------------
(* SessionLease for TLC: runners are interchangeable, and so are hosts.    *)
EXTENDS SessionLease, TLC

Symmetry == Permutations(Runner) \cup Permutations(Host)
=============================================================================
