----------------------------- MODULE AtomicLock -----------------------------
(***************************************************************************)
(* The lock table of pi-hermes-memory                                      *)
(* (src/store/atomic-lock-coordinator.ts) with the loops that wait for a   *)
(* lease (markdown-mutation-lock.ts, auto-consolidate.ts).                 *)
(*                                                                         *)
(* A task is one use of a lock inside one process.  Its token is a fresh   *)
(* UUID, so a task and its token are the same value; the value is used     *)
(* again only once no row and no snapshot mentions it.  Each SQLite        *)
(* statement or transaction is one step.  The calls are synchronous, so    *)
(* the tasks of ONE process do not interleave inside tryAcquire; processes *)
(* do.                                                                     *)
(***************************************************************************)
EXTENDS Naturals, FiniteSets

CONSTANTS
  Proc,      \* incarnations of Pi processes
  Pid,       \* Pid[p]: the process id of p; a later process may get it again
  Nameless,  \* processes whose own start-time probe failed at import
  Task,      \* uses of a lock
  Home,      \* Home[t]: the process t runs in
  Key,       \* lock keys of one database
  KeyOf,     \* KeyOf[t]: the key t asks for
  Beating,   \* tasks that renew their lease on a timer (auto-consolidate)
  Stale,     \* staleMs, in ticks
  Grace,     \* DEAD_LOCK_SWEEP_GRACE_MS, in ticks
  Interval,  \* DEAD_LOCK_SWEEP_INTERVAL_MS, in ticks
  MaxDelay,  \* bound: ticks between a Date.now() and the commit that uses it
  Faults,    \* what the environment may do, see Fault
  Nil

(***************************************************************************)
(* "die", "wedge", "resume": a process may die, be suspended or blocked,   *)
(* and go on.  "probe": the start time of a live process may be            *)
(* unreadable.  "busy", "sweep", "release": the statements of that part    *)
(* may throw.                                                              *)
(***************************************************************************)
Fault == {"die", "wedge", "resume", "probe", "busy", "sweep", "release"}

ASSUME ProcAssumption ==
  Home \in [Task -> Proc] /\ Nameless \subseteq Proc /\ Nil \notin Proc
ASSUME TaskAssumption ==
  KeyOf \in [Task -> Key] /\ Beating \subseteq Task /\ Nil \notin Task
ASSUME TimeAssumption ==
  Stale \in Nat \ {0} /\ {Grace, Interval, MaxDelay} \subseteq Nat
ASSUME FaultAssumption == Faults \subseteq Fault

VARIABLES
  status,  \* status[p]: "unborn", "up", "wedged" or "down"
  row,     \* the locks table: row[k] is the task whose token it holds, or Nil
  pc,      \* pc[t]: where t is
  age,     \* age[t]: ticks since the clock reading t's stamp is made of
  snap,    \* snap[t]: tasks whose rows t's sweep has selected
  rest     \* rest[p]: ticks since p's coordinator swept last (lastSweepMs)

vars == <<status, row, pc, age, snap, rest>>

InCall == {"asked", "probed", "swept"}      \* inside tryAcquire
PC == {"idle", "waiting", "holding", "pending", "ended"} \cup InCall

\* Ages saturate: beyond Cap every staleness test has the same outcome.
Cap == Stale + Grace + MaxDelay

Exists(p) == status[p] \in {"up", "wedged"}
Alive(pid) == \E p \in Proc : Exists(p) /\ Pid[p] = pid      \* processIsAlive

\* t's process runs and is not inside a tryAcquire of another task.
Runs(t) ==
  /\ status[Home[t]] = "up"
  /\ \A u \in Task \ {t} : Home[u] = Home[t] => pc[u] \notin InCall

Holds(t) == pc[t] = "holding" /\ Exists(Home[t])
Owns(t) == row[KeyOf[t]] = t                                 \* isCurrentOwner

-----------------------------------------------------------------------------
(* Probes.  The incarnation column and the probes yield Nil when unknown.  *)

Incarnation(p) == IF p \in Nameless THEN Nil ELSE p

\* The outcomes of probeIncarnation(Pid[q]) called in p.
Observed(p, q) ==
  IF Pid[p] = Pid[q] THEN {Incarnation(p)}
  ELSE IF ~Alive(Pid[q]) THEN {Nil}
  ELSE {r \in Proc : Exists(r) /\ Pid[r] = Pid[q]}
         \cup (IF "probe" \in Faults THEN {Nil} ELSE {})

\* Mutant: an unknown incarnation counts as another one.
NotTheOwnerUnlessProved(o, observed) ==
  Incarnation(Home[o]) = Nil \/ Incarnation(Home[o]) # observed

\* The incarnation test of tryAcquire, for the owner o and an observation.
NotTheOwner(o, observed) ==
  LET recorded == Incarnation(Home[o])
      alive == observed # Nil \/ Alive(Pid[Home[o]])
  IN  \/ ~alive
      \/ recorded # Nil /\ observed # Nil /\ recorded # observed

\* Mutant: liveness and incarnation alone decide (staleMs <= 0).
IsStaleNever(o, t) == FALSE

IsStale(o, t) == age[o] >= age[t] + Stale

\* Mutant: an unreadable start time is taken for a dead process.
HolderIsGoneUnprobed(t, o) ==
  Pid[Home[o]] # Pid[Home[t]] /\ Nil \in Observed(Home[t], Home[o])

\* holderIsGone, asked by t of the holder o of a row.
HolderIsGone(t, o) == Pid[Home[o]] # Pid[Home[t]] /\ ~Alive(Pid[Home[o]])

-----------------------------------------------------------------------------
(* tryAcquire.                                                             *)

Goto(t, l) == pc' = [pc EXCEPT ![t] = l]

\* Releases of t's process and key that failed, kept in pendingReleases.
Pending(t) ==
  {u \in Task : pc[u] = "pending" /\ Home[u] = Home[t] /\ KeyOf[u] = KeyOf[t]}

\* Retry the pending releases, read the clock and, if the last sweep of this
\* process is an Interval ago, select the rows older than Grace.
Ask(t) ==
  /\ pc[t] \in {"idle", "waiting"} /\ Runs(t)
  /\ \E done \in SUBSET Pending(t) :
       LET sweeps == rest[Home[t]] >= Interval
           rows == [k \in Key |-> IF row[k] \in done THEN Nil ELSE row[k]]
       IN  /\ done = Pending(t) \/ "release" \in Faults
           /\ row' = rows
           /\ pc' = [u \in Task |-> IF u = t THEN (IF sweeps THEN "asked" ELSE "swept")
                                    ELSE IF u \in done THEN "ended" ELSE pc[u]]
           /\ age' = [age EXCEPT ![t] = 0]
           /\ snap' = [snap EXCEPT ![t] =
                IF sweeps THEN {o \in Task : rows[KeyOf[o]] = o /\ age[o] >= Grace} ELSE {}]
           /\ rest' = IF sweeps THEN [rest EXCEPT ![Home[t]] = 0] ELSE rest
  /\ UNCHANGED status

\* Probe the holders of the selected rows, outside any transaction.
Probe(t) ==
  /\ pc[t] = "asked" /\ Runs(t)
  /\ snap' = [snap EXCEPT ![t] = {o \in @ : HolderIsGone(t, o)}]
  /\ Goto(t, "probed")
  /\ UNCHANGED <<status, row, age, rest>>

\* Mutant: only the row of the key asked for is collected.
CollectAskedKey(t) ==
  /\ pc[t] = "probed" /\ Runs(t)
  /\ row' = IF row[KeyOf[t]] \in snap[t] THEN [row EXCEPT ![KeyOf[t]] = Nil] ELSE row
  /\ snap' = [snap EXCEPT ![t] = {}]
  /\ Goto(t, "swept")
  /\ UNCHANGED <<status, age, rest>>

\* Delete the rows found dead, unless they changed hands or were restamped.
Collect(t) ==
  /\ pc[t] = "probed" /\ Runs(t)
  /\ \E S \in SUBSET snap[t] :
       /\ S = snap[t] \/ "sweep" \in Faults
       /\ row' = [k \in Key |-> IF row[k] \in S THEN Nil ELSE row[k]]
  /\ snap' = [snap EXCEPT ![t] = {}]
  /\ Goto(t, "swept")
  /\ UNCHANGED <<status, age, rest>>

\* The owner o of t's key may be replaced.
MaySteal(t, o) ==
  IsStale(o, t) \/ \E observed \in Observed(Home[t], Home[o]) : NotTheOwner(o, observed)
MayRefuse(t, o) ==
  ~IsStale(o, t) /\ \E observed \in Observed(Home[t], Home[o]) : ~NotTheOwner(o, observed)

\* Mutant: the new row gets the process where the token belongs.
TransactSwapped(t) ==
  /\ pc[t] = "swept" /\ Runs(t) /\ row[KeyOf[t]] = Nil
  /\ row' = [row EXCEPT ![KeyOf[t]] = Home[t]]
  /\ Goto(t, "holding")
  /\ UNCHANGED <<status, age, snap, rest>>

\* The immediate transaction: insert the row or steal it.
Transact(t) ==
  /\ pc[t] = "swept" /\ Runs(t)
  /\ LET o == row[KeyOf[t]]
     IN  \/ /\ o # Nil => MaySteal(t, o)
            /\ row' = [row EXCEPT ![KeyOf[t]] = t]
            /\ Goto(t, "holding")
            /\ UNCHANGED age
         \/ /\ o # Nil /\ MayRefuse(t, o)
            /\ Goto(t, "waiting")
            /\ age' = [age EXCEPT ![t] = 0]
            /\ UNCHANGED row
  /\ UNCHANGED <<status, snap, rest>>

\* The transaction throws and is rolled back; the callers pass the error on.
TransactFails(t) ==
  /\ "busy" \in Faults
  /\ pc[t] = "swept" /\ Runs(t)
  /\ Goto(t, "ended")
  /\ UNCHANGED <<status, row, age, snap, rest>>

\* The waiting loops throw or give up after their five seconds.
GiveUp(t) ==
  /\ pc[t] = "waiting" /\ Runs(t)
  /\ Goto(t, "ended")
  /\ UNCHANGED <<status, row, age, snap, rest>>

-----------------------------------------------------------------------------
(* The holder.                                                             *)

\* A beat of the consolidation timer: a fresh stamp, if the row is still t's.
\* A DELETE that waits with the old stamp no longer matches the row.
Renew(t) ==
  /\ t \in Beating /\ pc[t] = "holding" /\ Runs(t) /\ Owns(t)
  /\ age' = [age EXCEPT ![t] = 0]
  /\ snap' = [u \in Task |-> snap[u] \ {t}]
  /\ UNCHANGED <<status, row, pc, rest>>

\* Mutant: the row of the key is deleted, whoever's token it holds.
ReleaseUnfenced(t) ==
  /\ pc[t] = "holding" /\ Runs(t)
  /\ row' = [row EXCEPT ![KeyOf[t]] = Nil]
  /\ Goto(t, "ended")
  /\ UNCHANGED <<status, age, snap, rest>>

\* release: delete the row if it still holds t's token.
Release(t) ==
  /\ pc[t] = "holding" /\ Runs(t)
  /\ row' = IF Owns(t) THEN [row EXCEPT ![KeyOf[t]] = Nil] ELSE row
  /\ Goto(t, "ended")
  /\ UNCHANGED <<status, age, snap, rest>>

\* Three attempts throw: the release is left to the next tryAcquire.
ReleaseFails(t) ==
  /\ "release" \in Faults
  /\ pc[t] = "holding" /\ Runs(t)
  /\ Goto(t, "pending")
  /\ UNCHANGED <<status, row, age, snap, rest>>

\* Another use of the lock: a fresh token, which nothing mentions yet.  A
\* pending release whose row is gone deletes nothing, whenever it is retried.
Recycle(t) ==
  /\ pc[t] \in {"ended", "pending"} /\ status[Home[t]] = "up" /\ ~Owns(t)
  /\ \A u \in Task : t \notin snap[u]
  /\ Goto(t, "idle")
  /\ age' = [age EXCEPT ![t] = 0]
  /\ UNCHANGED <<status, row, snap, rest>>

-----------------------------------------------------------------------------
(* Processes and time.                                                     *)

\* A process starts; its id is not in use.
Boot(p) ==
  /\ status[p] = "unborn" /\ ~Alive(Pid[p])
  /\ status' = [status EXCEPT ![p] = "up"]
  /\ UNCHANGED <<row, pc, age, snap, rest>>

\* A process ends.  Its rows stay; pendingReleases was in its memory.
Die(p) ==
  /\ "die" \in Faults /\ Exists(p)
  /\ status' = [status EXCEPT ![p] = "down"]
  /\ pc' = [t \in Task |-> IF Home[t] = p THEN "ended" ELSE pc[t]]
  /\ snap' = [t \in Task |-> IF Home[t] = p THEN {} ELSE snap[t]]
  /\ UNCHANGED <<row, age, rest>>

\* A process makes no progress: suspended, or blocked between two calls.
Wedge(p) ==
  /\ "wedge" \in Faults /\ status[p] = "up"
  /\ \A t \in Task : Home[t] = p => pc[t] \notin InCall
  /\ status' = [status EXCEPT ![p] = "wedged"]
  /\ UNCHANGED <<row, pc, age, snap, rest>>

Resume(p) ==
  /\ "resume" \in Faults /\ status[p] = "wedged"
  /\ status' = [status EXCEPT ![p] = "up"]
  /\ UNCHANGED <<row, pc, age, snap, rest>>

\* The ages that matter: clock readings in use, and stamps in the table.
Stamped(t) == pc[t] \in InCall \cup {"holding"} \/ Owns(t)

Tick ==
  /\ \A t \in Task : pc[t] \in InCall => age[t] < MaxDelay
  /\ age' = [t \in Task |-> IF Stamped(t) /\ age[t] < Cap THEN age[t] + 1 ELSE age[t]]
  /\ rest' = [p \in Proc |-> IF rest[p] < Interval THEN rest[p] + 1 ELSE rest[p]]
  /\ UNCHANGED <<status, row, pc, snap>>

-----------------------------------------------------------------------------
\* Every coordinator sweeps on its first call: lastSweepMs is 0.
Init ==
  /\ status = [p \in Proc |-> "unborn"]
  /\ row = [k \in Key |-> Nil]
  /\ pc = [t \in Task |-> "idle"]
  /\ age = [t \in Task |-> 0]
  /\ snap = [t \in Task |-> {}]
  /\ rest = [p \in Proc |-> Interval]

Step(t) ==
  \/ Ask(t) \/ Probe(t) \/ Collect(t) \/ Transact(t) \/ TransactFails(t)
  \/ GiveUp(t) \/ Renew(t) \/ Release(t) \/ ReleaseFails(t) \/ Recycle(t)

Next ==
  \/ \E t \in Task : Step(t)
  \/ \E p \in Proc : Boot(p) \/ Die(p) \/ Wedge(p) \/ Resume(p)
  \/ Tick

Spec == Init /\ [][Next]_vars

(***************************************************************************)
(* Fairness: a running process finishes a tryAcquire, polls on while it    *)
(* waits and ends what it does under the lock; sessions keep using their   *)
(* locks; time passes.  The event loop of a process serves its tasks in    *)
(* turn, so one that is ready again and again runs: strong fairness.  Some *)
(* sweeps are not cut short by a busy database.                            *)
(* Nothing forces a process to give up, to renew, to start or to resume.   *)
(***************************************************************************)
Ends(t) == Release(t) \/ ReleaseFails(t)
Works(t) == \/ Ask(t) \/ Probe(t) \/ Collect(t) \/ Transact(t) \/ Recycle(t) \/ Ends(t)
Sweeps(t) == Collect(t) /\ \A k \in Key : row'[k] \notin snap[t]
FairSpec ==
  /\ Spec /\ WF_vars(Tick)
  /\ \A t \in Task : SF_vars(Works(t))
  /\ SF_vars(\E t \in Task : Sweeps(t))

-----------------------------------------------------------------------------
(* Properties.                                                             *)

TypeOK ==
  /\ status \in [Proc -> {"unborn", "up", "wedged", "down"}]
  /\ row \in [Key -> Task \cup {Nil}]
  /\ pc \in [Task -> PC]
  /\ age \in [Task -> 0..Cap]
  /\ snap \in [Task -> SUBSET Task]
  /\ rest \in [Proc -> 0..Interval]

(***************************************************************************)
(* A holder that stamped its lease less than Stale ago has its token in    *)
(* the table, whoever else polls, sweeps, retries an old release, renews   *)
(* late or runs under a process id that was used before.  So two tasks act *)
(* on one key together only after one of them let its lease go stale.      *)
(***************************************************************************)
FreshHolderOwns == \A t \in Task : Holds(t) /\ age[t] < Stale => Owns(t)

(***************************************************************************)
(* A row of a live process is never collected by a sweep: what the sweep   *)
(* has found dead stays dead, whoever gets its process id afterwards ("a   *)
(* dead process can never release or renew its lease, so deleting its row  *)
(* is always safe").                                                       *)
(***************************************************************************)
CollectsOnlyTheDead ==
  \A t \in Task : pc[t] = "probed" => \A o \in snap[t] : ~Exists(Home[o])

(***************************************************************************)
(* The lock implements the contract its users rely on.                     *)
(***************************************************************************)
Holders == {t \in Task : Holds(t)}
Contract == INSTANCE LeaseContract WITH
  owner <- row, holds <- Holders, lapsed <- {t \in Holders : age[t] >= Stale}
ImplementsContract == Contract!Spec

(***************************************************************************)
(* No lease outlasts a waiter: while a task polls, whoever is in the table *)
(* leaves it, although holders may hang, die or fail to release.  (That    *)
(* the waiter itself comes next is not promised: polling has no queue.)    *)
(***************************************************************************)
Polls(t) == pc[t] \in {"waiting"} \cup InCall /\ status[Home[t]] = "up"
LeasesEnd ==
  \A t, o \in Task : Polls(t) /\ row[KeyOf[t]] = o ~> ~Polls(t) \/ row[KeyOf[t]] # o

(***************************************************************************)
(* The row of a dead process is removed although nobody asks for its key   *)
(* again, as long as some process goes on using its own locks and the dead *)
(* one's id is not in use.                                                 *)
(***************************************************************************)
Orphan(k) == row[k] # Nil /\ ~Alive(Pid[Home[row[k]]])
Goes(t) == status[Home[t]] = "up" /\ ~(pc[t] = "pending" /\ Owns(t))
Sweepable(k) == Orphan(k) /\ \E t \in Task : Goes(t)
OrphansCollected == \A k \in Key : Sweepable(k) ~> ~Sweepable(k)

=============================================================================
