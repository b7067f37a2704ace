---------------------------- MODULE MCAtomicLock ----------------------------
(* AtomicLock for TLC: t3 of p2 contends for k1 with t4 of p3, which can   *)
(* start once p1, whose id it has, is gone; nobody but p1 ever asks for k2. *)
EXTENDS AtomicLock, TLC

CONSTANTS p1, p2, p3, t2, t3, t4, k1, k2

OsPid == (p1 :> 1) @@ (p2 :> 2) @@ (p3 :> 1)
HomeOf == (t2 :> p1) @@ (t3 :> p2) @@ (t4 :> p3)
KeyFor == (t2 :> k2) @@ (t3 :> k1) @@ (t4 :> k1)
=============================================================================
