---------------------------- MODULE LeaseContract ----------------------------
(***************************************************************************)
(* What a user of AtomicLock, or of SessionLease, may rely on.  A key has  *)
(* at most one owner; a task that holds a lease is the owner of its key    *)
(* unless its lease has lapsed, that is, was not stamped for the staleness *)
(* period of the lock (a session lease never lapses).  Nothing is said of  *)
(* processes, files, probes, tokens, sweeps or clocks.                     *)
(***************************************************************************)
CONSTANTS Task, Key, KeyOf, Nil

VARIABLES
  owner,   \* owner[k]: the task the lock of k was last granted to, or Nil
  holds,   \* the tasks that act as holders of a lease
  lapsed   \* the holders that went without a stamp for too long

vars == <<owner, holds, lapsed>>

Init == owner = [k \in Key |-> Nil] /\ holds = {} /\ lapsed = {}

\* The lock may be taken from an owner that lapsed or is no longer there.
Free(k) == owner[k] \notin holds \/ owner[k] \in lapsed

Grant(t) ==
  /\ t \notin holds /\ Free(KeyOf[t])
  /\ owner' = [owner EXCEPT ![KeyOf[t]] = t]
  /\ holds' = holds \cup {t}
  /\ lapsed' \in {lapsed, lapsed \cup {t}}

\* A holder stops; the lock may stay in its name until somebody clears it.
Stop(S) ==
  /\ holds' = holds \ S
  /\ lapsed' = lapsed \ S
  /\ \/ UNCHANGED owner
     \/ \E t \in S : owner[KeyOf[t]] = t /\ owner' = [owner EXCEPT ![KeyOf[t]] = Nil]

Clear(K) ==
  /\ \A k \in K : owner[k] \notin holds
  /\ owner' = [k \in Key |-> IF k \in K THEN Nil ELSE owner[k]]
  /\ UNCHANGED <<holds, lapsed>>

Lapse(S) == lapsed' = lapsed \cup S /\ UNCHANGED <<owner, holds>>

Renew(t) ==
  /\ owner[KeyOf[t]] = t
  /\ lapsed' = lapsed \ {t}
  /\ UNCHANGED <<owner, holds>>

Next ==
  \/ \E t \in Task : Grant(t) \/ Renew(t)
  \/ \E S \in SUBSET holds : Stop(S) \/ Lapse(S)
  \/ \E K \in SUBSET Key : Clear(K)

Spec == Init /\ [][Next]_vars
=============================================================================
