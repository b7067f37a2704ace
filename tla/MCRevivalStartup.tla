------------------------- MODULE MCRevivalStartup -------------------------
(* RevivalStartup for TLC.                                                 *)
EXTENDS RevivalStartup, TLC
=============================================================================
