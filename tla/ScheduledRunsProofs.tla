------------------------- MODULE ScheduledRunsProofs -------------------------
(***************************************************************************)
(* Proofs about ScheduledRuns, for any processes, jobs, dialogs and limits *)
(***************************************************************************)
EXTENDS ScheduledRuns, FiniteSetTheorems, TLAPS

-----------------------------------------------------------------------------
(* The type invariant, with what the callback that writes has read.        *)

TypeInv ==
  /\ TypeOK
  /\ \A p \in Process : task[p].pc = "write" => task[p].snap \in Store

\* What mutate writes is a store.
LEMMA ChangeType ==
  ASSUME NEW s \in Store, NEW J \in SUBSET Job, NEW st \in JobState
  PROVE  Change(s, J, st) \in Store
  BY DEF Change, Store

LEMMA IdleType == Idle \in Task /\ \A l \in Step : [Idle EXCEPT !.pc = l] \in Task
  BY DEF Idle, Task, Step, After, JobState

\* A callback may begin with a new Task, or go to a step without a snapshot.
LEMMA MutateType ==
  ASSUME TypeInv, NEW p \in Process, NEW J \in SUBSET Job, NEW st \in JobState,
         NEW next \in After, Mutate(p, J, st, next)
  PROVE  /\ task' \in [Process -> Task]
         /\ \A q \in Process : task'[q].pc = "write" => task'[q].snap \in Store
  <1> DEFINE t == [pc |-> "read", jobs |-> J, to |-> st, snap |-> None, next |-> next]
  <1>1. t \in Task
    BY DEF Task, Step
  <1>2. task' = [task EXCEPT ![p] = t]
    BY DEF Mutate
  <1> QED
    BY <1>1, <1>2 DEF TypeInv, TypeOK

LEMMA TaskIsType ==
  ASSUME TypeInv, NEW p \in Process, NEW l \in Step \ {"write"}, TaskIs(p, l)
  PROVE  /\ task' \in [Process -> Task]
         /\ \A q \in Process : task'[q].pc = "write" => task'[q].snap \in Store
  <1>1. [Idle EXCEPT !.pc = l] \in Task /\ [Idle EXCEPT !.pc = l].pc = l
    BY IdleType DEF Idle
  <1> QED
    BY <1>1 DEF TypeInv, TypeOK, TaskIs

LEMMA TypeInit == Init => TypeInv
  <1> SUFFICES ASSUME Init PROVE TypeInv
    OBVIOUS
  <1>1. \A p \in Process : task[p] = Idle /\ Idle.pc = "idle"
    BY DEF Init, Idle
  <1>2. Limit \in Nat
    BY BoundAssumption
  <1> QED
    BY <1>1, <1>2, IdleType DEF Init, TypeInv, TypeOK, Store, Phase

LEMMA TypeStep == TypeInv /\ [Next]_vars => TypeInv'
  <1> SUFFICES ASSUME TypeInv, [Next]_vars PROVE TypeInv'
    OBVIOUS
  <1> USE BoundAssumption
  <1>1. ASSUME NEW p \in Process, MutateRead(p) PROVE TypeInv'
    <2> DEFINE t == [task[p] EXCEPT !.pc = "write", !.snap = store]
    <2>1. task[p] \in Task /\ store \in Store
      BY DEF TypeInv, TypeOK
    <2>2. t \in Task /\ t.snap = store
      BY <2>1 DEF Task, Step
    <2>3. task' = [task EXCEPT ![p] = t]
      BY <1>1 DEF MutateRead
    <2> QED
      BY <1>1, <2>1, <2>2, <2>3 DEF MutateRead, budgetVars, TypeInv, TypeOK
  <1>2. ASSUME NEW p \in Process, MutateWrite(p) PROVE TypeInv'
    <2> DEFINE t == task[p]
               u == [Idle EXCEPT !.pc = t.next, !.jobs = Kept(t)]
    <2>1. t \in Task /\ t.snap \in Store /\ t.pc = "write"
      BY <1>2 DEF TypeInv, TypeOK, MutateWrite
    <2>2. t.next \in After /\ t.jobs \in SUBSET Job /\ t.to \in JobState
      BY <2>1 DEF Task
    <2>3. store' \in Store
      BY <1>2, <2>1, <2>2, ChangeType DEF MutateWrite
    <2>4. u \in Task /\ u.snap = None /\ u.pc = t.next
      BY <2>2 DEF Idle, Task, Kept, JobState, Step, After
    <2>5. task' = [task EXCEPT ![p] = u]
      BY <1>2 DEF MutateWrite
    <2>6. timers' \in [Process -> SUBSET Job]
      BY <1>2, <2>2 DEF MutateWrite, TypeInv, TypeOK
    <2>7. t.next # "write"
      BY <2>2 DEF After
    <2> QED
      BY <1>2, <2>3, <2>4, <2>5, <2>6, <2>7 DEF MutateWrite, budgetVars, TypeInv, TypeOK
  <1>3. ASSUME NEW p \in Process, ListMissed(p) PROVE TypeInv'
    <2>1. CASE TaskIs(p, "arm")
      <3>1. "arm" \in Step \ {"write"}
        BY DEF Step
      <3> QED
        BY <1>3, <2>1, <3>1, TaskIsType DEF ListMissed, budgetVars, TypeInv, TypeOK
    <2>2. CASE ~TaskIs(p, "arm")
      <3> DEFINE M == {j \in Job : store[j] = "scheduled" /\ phase[j] = "late"}
      <3>1. Mutate(p, M, "missed", "arm")
        BY <1>3, <2>2 DEF ListMissed
      <3>2. "missed" \in JobState /\ "arm" \in After /\ M \in SUBSET Job
        BY DEF JobState, After
      <3> QED
        BY <1>3, <3>1, <3>2, MutateType DEF ListMissed, budgetVars, TypeInv, TypeOK
    <2> QED
      BY <2>1, <2>2
  <1>4. ASSUME NEW p \in Process, Arm(p) PROVE TypeInv'
    <2>1. "idle" \in Step \ {"write"}
      BY DEF Step
    <2> QED
      BY <1>4, <2>1, TaskIsType DEF Arm, budgetVars, TypeInv, TypeOK
  <1>5. ASSUME NEW p \in Process, Launch(p) PROVE TypeInv'
    <2>1. PICK j \in task[p].jobs : LaunchNot(p, j) \/ LaunchOk(p, j) \/ LaunchError(p, j)
      BY <1>5 DEF Launch
    <2>2. j \in Job
      BY <2>1 DEF TypeInv, TypeOK, Task
    <2>3. /\ "idle" \in Step \ {"write"} /\ "idle" \in After
          /\ {"fired", "failed"} \subseteq JobState
      BY DEF Step, After, JobState
    <2>4. /\ task' \in [Process -> Task]
          /\ \A q \in Process : task'[q].pc = "write" => task'[q].snap \in Store
      BY <2>1, <2>2, <2>3, TaskIsType, MutateType DEF LaunchNot, LaunchOk, LaunchError
    <2>5. CASE LaunchOk(p, j)
      BY <1>5, <2>2, <2>4, <2>5
      DEF Launch, LaunchOk, HasRoom, Reserve, TypeInv, TypeOK
    <2>6. CASE LaunchNot(p, j) \/ LaunchError(p, j)
      BY <1>5, <2>4, <2>6 DEF Launch, LaunchNot, LaunchError, TypeInv, TypeOK
    <2> QED
      BY <2>1, <2>5, <2>6
  <1>6. ASSUME NEW p \in Process, Bind(p) PROVE TypeInv'
    <2>1. "list" \in Step \ {"write"}
      BY DEF Step
    <2> QED
      BY <1>6, <2>1, TaskIsType DEF Bind, budgetVars, TypeInv, TypeOK
  <1>7. ASSUME NEW p \in Process, Shutdown(p) PROVE TypeInv'
    BY <1>7 DEF Shutdown, NewBudget, TypeInv, TypeOK
  <1>8. ASSUME NEW p \in Process, Crash(p) PROVE TypeInv'
    <2>1. "idle" \in Step \ {"write"}
      BY DEF Step
    <2> QED
      BY <1>8, <2>1, TaskIsType DEF Crash, NewBudget, TypeInv, TypeOK
  <1>9. ASSUME NEW p \in Process, Spawn(p) PROVE TypeInv'
    BY <1>9 DEF Spawn, HasRoom, Reserve, TypeInv, TypeOK
  <1>10. ASSUME NEW p \in Process, NEW j \in Job, Create(p, j) \/ Cancel(p, j) PROVE TypeInv'
    <2>1. {"scheduled", "canceled"} \subseteq JobState /\ "idle" \in After /\ "early" \in Phase
      BY DEF JobState, After, Phase
    <2> QED
      BY <1>10, <2>1, MutateType DEF Create, Cancel, Disarm, budgetVars, TypeInv, TypeOK
  <1>11. ASSUME NEW p \in Process, NEW j \in Job, Fire(p, j) PROVE TypeInv'
    <2>1. {"missed", "running"} \subseteq JobState /\ {"idle", "launch"} \subseteq After
      BY DEF JobState, After
    <2>2. timers' \in [Process -> SUBSET Job]
      BY <1>11 DEF Fire, FireEarly, FireStale, FireLate, FireDue, Disarm, TypeInv, TypeOK
    <2>3. CASE UNCHANGED task
      BY <1>11, <2>2, <2>3 DEF Fire, budgetVars, TypeInv, TypeOK
    <2>4. CASE Mutate(p, {j}, "missed", "idle") \/ Mutate(p, {j}, "running", "launch")
      BY <1>11, <2>1, <2>2, <2>4, MutateType DEF Fire, budgetVars, TypeInv, TypeOK
    <2> QED
      BY <1>11, <2>3, <2>4 DEF Fire, FireEarly, FireStale, FireLate, FireDue
  <1>12. ASSUME NEW p \in Process, NEW d \in Dialog, OpenGrant(p, d) PROVE TypeInv'
    <2>1. PICK n \in 1 .. Limit :
            dialog' = [dialog EXCEPT ![d] =
              [at |-> p, used |-> used[p], granted |-> granted[p], additional |-> n]]
      BY <1>12 DEF OpenGrant
    <2> QED
      BY <1>12, <2>1 DEF OpenGrant, Shown, TypeInv, TypeOK
  <1>13. ASSUME NEW d \in Dialog, Confirm(d) PROVE TypeInv'
    <2> DEFINE g == dialog[d]
    <2>1. g \in Shown
      BY <1>13 DEF Confirm, TypeInv, TypeOK
    <2>2. /\ granted' \in [Process -> 0 .. Limit]
          /\ \A p \in Process : granted'[p] >= granted[p]
      BY <1>13, <2>1 DEF Confirm, Allowed, Shown, TypeInv, TypeOK
    <2>3. \A p \in Process : used'[p] <= Limit + granted'[p]
      BY <1>13, <2>2 DEF Confirm, TypeInv, TypeOK
    <2> QED
      BY <1>13, <2>2, <2>3 DEF Confirm, TypeInv, TypeOK
  <1>14. ASSUME NEW d \in Dialog, Decline(d) PROVE TypeInv'
    BY <1>14 DEF Decline, TypeInv, TypeOK
  <1>15. ASSUME NEW j \in Job, TimePasses(j) PROVE TypeInv'
    BY <1>15 DEF TimePasses, budgetVars, Phase, TypeInv, TypeOK
  <1>16. CASE ChildEnds
    BY <1>16 DEF ChildEnds, TypeInv, TypeOK
  <1>17. CASE UNCHANGED vars
    BY <1>17 DEF vars, budgetVars, TypeInv, TypeOK
  <1> QED
    BY <1>1, <1>2, <1>3, <1>4, <1>5, <1>6, <1>7, <1>8, <1>9, <1>10, <1>11, <1>12, <1>13,
       <1>14, <1>15, <1>16, <1>17 DEF Next, Goes

LEMMA TypeAlways == Spec => []TypeInv
  BY TypeInit, TypeStep, PTL DEF Spec

\* The state keeps its shape, and the budget is kept, for any processes, jobs,
\* dialogs and limits.
THEOREM TypeCorrect == Spec => []TypeOK
  <1>1. TypeInv => TypeOK
    BY DEF TypeInv
  <1> QED
    BY <1>1, TypeAlways, PTL
-----------------------------------------------------------------------------
(* One launch for a job, while one process at a time is alive.             *)

\* Nothing runs in a process that is not alive, and one process is alive.
AloneInv ==
  /\ \A p, q \in Process : session[p] # "off" /\ session[q] # "off" => p = q
  /\ \A p \in Process : session[p] = "off" => task[p] = Idle

\* What a callback has examined is still so when it writes and launches, since
\* no other process has written meanwhile.
TaskInv(t) ==
  /\ t.pc \in {"read", "write"} =>
       /\ t.next = "launch" => t.to = "running"
       /\ \A j \in t.jobs :
            /\ phase[j] # "unborn"
            /\ t.to = "scheduled" => store[j] = "none"
            /\ t.to \in {"canceled", "missed", "running"} => store[j] = "scheduled"
            /\ t.to = "fired" => store[j] = "running" /\ launches[j] = 1
            /\ t.to = "failed" => store[j] = "running"
  /\ t.pc = "write" => t.snap = store
  /\ t.pc = "launch" => \A j \in t.jobs : store[j] = "running" /\ launches[j] = 0

LaunchInv ==
  alone =>
    /\ AloneInv
    /\ \A j \in Job : phase[j] = "unborn" => store[j] = "none"
    /\ \A p \in Process : TaskInv(task[p])
    /\ LaunchedOnce

LEMMA LaunchInit == Init => LaunchInv
  BY DEF Init, Idle, LaunchInv, AloneInv, TaskInv, LaunchedOnce

\* A process with a callback is alive, so the others have none.
LEMMA OthersIdle ==
  ASSUME AloneInv, NEW p \in Process, session[p] # "off"
  PROVE  \A q \in Process \ {p} : session[q] = "off" /\ task[q] = Idle
  BY DEF AloneInv

LEMMA IdleFits == TaskInv(Idle)
  BY DEF TaskInv, Idle

\* The number of processes that may live together is settled at the start.
LEMMA AloneStays == [Next]_vars => alone' = alone
  <1> SUFFICES ASSUME [Next]_vars PROVE alone' = alone
    OBVIOUS
  <1>1. ASSUME NEW p \in Process, Goes(p) PROVE alone' = alone
    BY <1>1 DEF Goes, MutateRead, MutateWrite, ListMissed, Arm, Launch
  <1>2. ASSUME NEW p \in Process, Bind(p) \/ Shutdown(p) \/ Crash(p) \/ Spawn(p)
        PROVE  alone' = alone
    BY <1>2 DEF Bind, Shutdown, Crash, Spawn
  <1>3. ASSUME NEW p \in Process, NEW j \in Job, Create(p, j) \/ Cancel(p, j) \/ Fire(p, j)
        PROVE  alone' = alone
    BY <1>3 DEF Create, Cancel, Fire
  <1>4. ASSUME NEW d \in Dialog, Confirm(d) \/ Decline(d) PROVE alone' = alone
    BY <1>4 DEF Confirm, Decline
  <1>5. ASSUME NEW p \in Process, NEW d \in Dialog, OpenGrant(p, d) PROVE alone' = alone
    BY <1>5 DEF OpenGrant
  <1>6. ASSUME NEW j \in Job, TimePasses(j) PROVE alone' = alone
    BY <1>6 DEF TimePasses
  <1>7. CASE ChildEnds
    BY <1>7 DEF ChildEnds
  <1>8. CASE UNCHANGED vars
    BY <1>8 DEF vars
  <1> QED
    BY <1>1, <1>2, <1>3, <1>4, <1>5, <1>6, <1>7, <1>8 DEF Next

LEMMA LaunchStep == TypeInv /\ TypeInv' /\ LaunchInv /\ [Next]_vars => LaunchInv'
  <1> SUFFICES ASSUME TypeInv, TypeInv', LaunchInv, [Next]_vars PROVE LaunchInv'
    OBVIOUS
  <1>a. alone' = alone
    BY AloneStays
  <1> SUFFICES ASSUME alone PROVE LaunchInv'
    BY <1>a DEF LaunchInv
  \* It is enough to look at the task of the process that moves.
  <1>0. ASSUME NEW p \in Process, session[p] # "off",
               \A q \in Process \ {p} : session'[q] = session[q] /\ task'[q] = task[q],
               session'[p] # "off" \/ task'[p] = Idle,
               TaskInv(task[p])',
               \A j \in Job : (phase[j] = "unborn" => store[j] = "none")',
               LaunchedOnce'
        PROVE  LaunchInv'
    <2>1. \A q \in Process \ {p} : session[q] = "off" /\ task[q] = Idle
      BY <1>0, OthersIdle DEF LaunchInv
    <2>2. AloneInv'
      BY <1>0, <2>1 DEF AloneInv
    <2>3. \A q \in Process \ {p} : TaskInv(task[q])'
      BY <1>0, <2>1 DEF TaskInv, Idle
    <2> QED
      BY <1>0, <2>2, <2>3 DEF LaunchInv
  <1>1. ASSUME NEW p \in Process, MutateRead(p) PROVE LaunchInv'
    <2>1. session[p] # "off"
      BY <1>1 DEF MutateRead, LaunchInv, AloneInv, Idle
    <2>2. TaskInv(task[p])'
      BY <1>1 DEF MutateRead, TypeInv, TypeOK, Task, LaunchInv, TaskInv
    <2> QED
      BY <1>0, <1>1, <2>1, <2>2 DEF MutateRead, TypeInv, TypeOK, LaunchInv, LaunchedOnce
  <1>2. ASSUME NEW p \in Process, MutateWrite(p) PROVE LaunchInv'
    <2> DEFINE t == task[p]
    <2>1. /\ session[p] # "off" /\ t.snap = store /\ TaskInv(t)
          /\ t \in Task /\ t.pc = "write"
      BY <1>2 DEF MutateWrite, LaunchInv, AloneInv, Idle, TaskInv, TypeInv, TypeOK
    <2>2. store' = Change(store, t.jobs, t.to)
      BY <1>2, <2>1 DEF MutateWrite
    <2>3. \A j \in Job : j \notin t.jobs => store'[j] = store[j]
      BY <2>2 DEF Change
    <2>4. \A j \in t.jobs : store'[j] = t.to
      BY <2>1, <2>2 DEF Change, TaskInv, Task, JobState
    <2>5. launches' = launches /\ phase' = phase /\ session' = session
      BY <1>2 DEF MutateWrite
    <2>6. task'[p] = [Idle EXCEPT !.pc = t.next, !.jobs = Kept(t)]
          /\ \A q \in Process \ {p} : task'[q] = task[q]
      BY <1>2 DEF MutateWrite, TypeInv, TypeOK
    <2>7. \A j \in t.jobs : t.to # "fired" /\ t.to # "failed" => launches[j] = 0
      BY <2>1 DEF LaunchInv, LaunchedOnce, TaskInv, Task, JobState
    <2>8. TaskInv(task[p])'
      <3>1. task'[p].pc = t.next /\ task'[p].jobs = Kept(t) /\ t.next \in After
        BY <2>1, <2>6 DEF Idle, Task
      <3>2. t.next = "launch" => t.to = "running"
        BY <2>1 DEF TaskInv
      <3> QED
        BY <2>4, <2>5, <2>7, <3>1, <3>2 DEF TaskInv, Kept, After
    <2>9. LaunchedOnce'
      <3> SUFFICES ASSUME NEW j \in Job
                   PROVE  /\ launches[j] <= 1
                          /\ store'[j] \in {"none", "scheduled", "canceled", "missed"}
                               => launches[j] = 0
                          /\ store'[j] = "fired" => launches[j] = 1
        BY <2>5 DEF LaunchedOnce
      <3>1. CASE j \notin t.jobs
        BY <2>3, <3>1 DEF LaunchInv, LaunchedOnce
      <3>2. CASE j \in t.jobs
        BY <2>1, <2>4, <2>7, <3>2 DEF LaunchInv, LaunchedOnce, TaskInv
      <3> QED
        BY <3>1, <3>2
    <2>10. \A j \in Job : (phase[j] = "unborn" => store[j] = "none")'
      <3>1. ASSUME NEW j \in Job, phase[j] = "unborn" PROVE store'[j] = "none"
        BY <2>1, <2>3, <3>1 DEF TaskInv, LaunchInv
      <3> QED
        BY <2>5, <3>1
    <2> QED
      BY <1>0, <2>1, <2>5, <2>6, <2>8, <2>9, <2>10
  \* A step that leaves the file, the times and the launches alone.
  <1>3. ASSUME NEW p \in Process, session[p] # "off",
               \A q \in Process \ {p} : session'[q] = session[q] /\ task'[q] = task[q],
               session'[p] # "off" \/ task'[p] = Idle,
               TaskInv(task[p])',
               UNCHANGED <<store, phase, launches>>
        PROVE  LaunchInv'
    <2>1. LaunchedOnce' /\ \A j \in Job : (phase[j] = "unborn" => store[j] = "none")'
      BY <1>3 DEF LaunchInv, LaunchedOnce
    <2> QED
      BY <1>0, <1>3, <2>1
  <1>4. ASSUME NEW p \in Process, ListMissed(p) PROVE LaunchInv'
    <2>1. session[p] # "off"
      BY <1>4 DEF ListMissed, LaunchInv, AloneInv, Idle
    <2>2. TaskInv(task[p])'
      BY <1>4 DEF ListMissed, TaskIs, Mutate, Idle, TaskInv, TypeInv, TypeOK
    <2> QED
      BY <1>3, <1>4, <2>1, <2>2 DEF ListMissed, TaskIs, Mutate, TypeInv, TypeOK
  <1>5. ASSUME NEW p \in Process, Arm(p) PROVE LaunchInv'
    <2>1. session[p] # "off"
      BY <1>5 DEF Arm, LaunchInv, AloneInv, Idle
    <2>2. TaskInv(task[p])'
      BY <1>5 DEF Arm, TaskIs, Idle, TaskInv, TypeInv, TypeOK
    <2> QED
      BY <1>3, <1>5, <2>1, <2>2 DEF Arm, TaskIs, TypeInv, TypeOK
  <1>6. ASSUME NEW p \in Process, Launch(p) PROVE LaunchInv'
    <2>1. PICK j \in task[p].jobs : LaunchNot(p, j) \/ LaunchOk(p, j) \/ LaunchError(p, j)
      BY <1>6 DEF Launch
    <2>2. session[p] # "off" /\ j \in Job /\ store[j] = "running" /\ launches[j] = 0
      BY <1>6, <2>1 DEF Launch, LaunchInv, AloneInv, Idle, TaskInv, TypeInv, TypeOK, Task
    <2>3. phase[j] # "unborn"
      BY <2>2 DEF LaunchInv
    <2>4. /\ \A q \in Process \ {p} : session'[q] = session[q] /\ task'[q] = task[q]
          /\ session' = session /\ store' = store /\ phase' = phase
      BY <1>6, <2>1 DEF Launch, LaunchNot, LaunchOk, LaunchError, TaskIs, Mutate, TypeInv, TypeOK
    <2>5. CASE LaunchOk(p, j)
      <3>1. launches' = [launches EXCEPT ![j] = 1]
        BY <2>2, <2>5 DEF LaunchOk
      <3>2. TaskInv(task[p])'
        BY <2>2, <2>3, <2>4, <2>5, <3>1 DEF LaunchOk, Mutate, TaskInv, TypeInv, TypeOK
      <3>3. LaunchedOnce'
        BY <2>2, <2>4, <3>1 DEF LaunchInv, LaunchedOnce, TypeInv, TypeOK
      <3>4. \A k \in Job : (phase[k] = "unborn" => store[k] = "none")'
        BY <2>4 DEF LaunchInv
      <3> QED
        BY <1>0, <2>2, <2>4, <3>2, <3>3, <3>4
    <2>6. CASE LaunchError(p, j)
      <3>1. TaskInv(task[p])'
        BY <2>2, <2>3, <2>4, <2>6 DEF LaunchError, Mutate, TaskInv, TypeInv, TypeOK
      <3> QED
        BY <1>3, <2>2, <2>4, <2>6, <3>1 DEF LaunchError
    <2> QED
      BY <2>1, <2>2, <2>5, <2>6 DEF LaunchNot
  <1>7. ASSUME NEW p \in Process, Bind(p) PROVE LaunchInv'
    <2>1. \A q \in Process \ {p} : session[q] = "off" /\ session'[q] = session[q]
                                  /\ task'[q] = task[q]
      BY <1>7 DEF Bind, TaskIs, TypeInv, TypeOK
    <2>2. TaskInv(task[p])'
      BY <1>7 DEF Bind, TaskIs, Idle, TaskInv, TypeInv, TypeOK
    <2>3. AloneInv'
      BY <1>7, <2>1 DEF Bind, LaunchInv, AloneInv, TypeInv, TypeOK
    <2>4. \A q \in Process \ {p} : TaskInv(task[q])'
      BY <1>7, <2>1 DEF Bind, LaunchInv, AloneInv, TaskInv, Idle
    <2> QED
      BY <1>7, <2>2, <2>3, <2>4 DEF Bind, LaunchInv, LaunchedOnce
  <1>8. ASSUME NEW p \in Process, Shutdown(p) \/ Spawn(p) PROVE LaunchInv'
    <2>1. session[p] # "off" /\ task[p] = Idle /\ task' = task /\ session'[p] # "off"
      BY <1>8 DEF Shutdown, Spawn, Ready, TypeInv, TypeOK
    <2>2. TaskInv(task[p])'
      BY <2>1 DEF TaskInv, Idle
    <2> QED
      BY <1>3, <1>8, <2>1, <2>2 DEF Shutdown, Spawn, TypeInv, TypeOK
  <1>9. ASSUME NEW p \in Process, Crash(p) PROVE LaunchInv'
    <2>1. session[p] # "off" /\ task'[p] = Idle
      BY <1>9 DEF Crash, TaskIs, Idle, TypeInv, TypeOK
    <2>2. TaskInv(task[p])'
      BY <2>1 DEF TaskInv, Idle
    <2> QED
      BY <1>3, <1>9, <2>1, <2>2 DEF Crash, TaskIs, TypeInv, TypeOK
  <1>10. ASSUME NEW p \in Process, NEW j \in Job, Create(p, j) PROVE LaunchInv'
    <2>1. store[j] = "none" /\ session[p] # "off" /\ store' = store /\ launches' = launches
      BY <1>10 DEF Create, Ready, LaunchInv
    <2>2. TaskInv(task[p])'
      BY <1>10, <2>1 DEF Create, Mutate, TaskInv, TypeInv, TypeOK
    <2>3. \A k \in Job : (phase[k] = "unborn" => store[k] = "none")'
      BY <1>10 DEF Create, LaunchInv, TypeInv, TypeOK
    <2>4. LaunchedOnce'
      BY <2>1 DEF LaunchInv, LaunchedOnce
    <2> QED
      BY <1>0, <1>10, <2>1, <2>2, <2>3, <2>4 DEF Create, Mutate, TypeInv, TypeOK
  <1>11. ASSUME NEW p \in Process, NEW j \in Job, Cancel(p, j) PROVE LaunchInv'
    <2>1. session[p] # "off" /\ phase[j] # "unborn"
      BY <1>11 DEF Cancel, Ready, LaunchInv
    <2>2. TaskInv(task[p])'
      BY <1>11, <2>1 DEF Cancel, Mutate, TaskInv, TypeInv, TypeOK
    <2> QED
      BY <1>3, <1>11, <2>1, <2>2 DEF Cancel, Mutate, TypeInv, TypeOK
  <1>12. ASSUME NEW p \in Process, NEW j \in Job, Fire(p, j) PROVE LaunchInv'
    <2>1. session[p] # "off" /\ task[p] = Idle
      BY <1>12 DEF Fire, Ready
    <2>2. TaskInv(task[p])'
      <3>1. CASE UNCHANGED task
        BY <2>1, <3>1 DEF TaskInv, Idle
      <3>2. CASE FireLate(p, j) \/ FireDue(p, j)
        BY <1>12, <3>2 DEF Fire, FireLate, FireDue, Mutate, TaskInv, TypeInv, TypeOK
      <3> QED
        BY <1>12, <3>1, <3>2 DEF Fire, FireEarly, FireStale
    <2>3. \A q \in Process \ {p} : task'[q] = task[q]
      BY <1>12 DEF Fire, FireEarly, FireStale, FireLate, FireDue, Mutate, TypeInv, TypeOK
    <2> QED
      BY <1>3, <1>12, <2>1, <2>2, <2>3 DEF Fire
  <1>13. ASSUME NEW j \in Job, TimePasses(j) PROVE LaunchInv'
    <2>1. /\ UNCHANGED <<session, store, task, launches, alone>>
          /\ \A k \in Job : phase'[k] = "unborn" <=> phase[k] = "unborn"
      BY <1>13 DEF TimePasses, TypeInv, TypeOK
    <2>2. ASSUME NEW p \in Process PROVE TaskInv(task[p])'
      <3>1. task[p] \in Task /\ TaskInv(task[p])
        BY DEF TypeInv, TypeOK, LaunchInv
      <3> QED
        BY <2>1, <3>1 DEF TaskInv, Task
    <2> QED
      BY <2>1, <2>2 DEF LaunchInv, AloneInv, LaunchedOnce
  \* The others touch none of this.
  <1>14. CASE UNCHANGED <<alone, store, phase, session, task, launches>>
    BY <1>14 DEF LaunchInv, AloneInv, TaskInv, LaunchedOnce
  <1>15. ASSUME NEW d \in Dialog, Confirm(d) \/ Decline(d) PROVE LaunchInv'
    BY <1>14, <1>15 DEF Confirm, Decline
  <1>16. ASSUME NEW p \in Process, NEW d \in Dialog, OpenGrant(p, d) PROVE LaunchInv'
    BY <1>14, <1>16 DEF OpenGrant
  <1> QED
    BY <1>1, <1>2, <1>4, <1>5, <1>6, <1>7, <1>8, <1>9, <1>10, <1>11, <1>12, <1>13, <1>14,
       <1>15, <1>16 DEF Next, Goes, ChildEnds, vars

\* A job is launched at most once, and what has not been claimed has not run,
\* wherever the process dies and however often the session is opened.
THEOREM LaunchesAreSingle == Spec => []LaunchedOnce
  <1>1. TypeInv /\ LaunchInv => LaunchedOnce
    BY DEF LaunchInv, LaunchedOnce
  <1> QED
    BY <1>1, TypeAlways, LaunchInit, LaunchStep, PTL DEF Spec

-----------------------------------------------------------------------------
(* maxPending.                                                             *)

\* The jobs that a callback is about to write as scheduled.
Adds(t) == IF t.pc \in {"read", "write"} /\ t.to = "scheduled" THEN t.jobs ELSE {}
Coming == UNION {Adds(task[p]) : p \in Process}
PendingInv == alone => Cardinality(Pending \cup Coming) <= MaxPending

LEMMA PendingInit == Init => PendingInv
  <1> SUFFICES ASSUME Init PROVE Cardinality(Pending \cup Coming) <= MaxPending
    BY DEF PendingInv
  <1>1. Pending \cup Coming = {}
    BY DEF Init, Pending, Coming, Adds, Idle
  <1> QED
    BY <1>1, FS_EmptySet, BoundAssumption

LEMMA PendingStep ==
  TypeInv /\ TypeInv' /\ LaunchInv /\ LaunchInv' /\ PendingInv /\ [Next]_vars => PendingInv'
  <1> SUFFICES ASSUME TypeInv, TypeInv', LaunchInv, LaunchInv', PendingInv, [Next]_vars, alone'
               PROVE  Cardinality((Pending \cup Coming)') <= MaxPending
    BY DEF PendingInv
  <1> DEFINE S == Pending \cup Coming
  <1>a. alone
    BY AloneStays
  <1>b. S \subseteq Job /\ S' \subseteq Job /\ IsFiniteSet(S) /\ IsFiniteSet(S')
    <2>1. S \subseteq Job /\ S' \subseteq Job
      BY DEF Pending, Coming, Adds, TypeInv, TypeOK, Task
    <2> QED
      BY <2>1, JobAssumption, FS_Subset
  \* Only createJob makes a job pending that was not.
  <1>0. ASSUME S' \subseteq S PROVE Cardinality(S') <= MaxPending
    <2>1. Cardinality(S') <= Cardinality(S) /\ Cardinality(S) <= MaxPending
      BY <1>0, <1>a, <1>b, FS_Subset DEF PendingInv
    <2>2. Cardinality(S) \in Nat /\ Cardinality(S') \in Nat
      BY <1>b, FS_CardinalityType
    <2> QED
      BY <2>1, <2>2, BoundAssumption
  <1>1. ASSUME NEW p \in Process, NEW j \in Job, Create(p, j)
        PROVE  Cardinality(S') <= MaxPending
    <2>1. \A q \in Process : task[q] = Idle
      BY <1>1, <1>a, OthersIdle DEF Create, Ready, LaunchInv
    <2>2. Coming = {} /\ Pending' = Pending
      BY <1>1, <2>1 DEF Coming, Adds, Idle, Pending, Create
    <2>3. \A q \in Process : Adds(task'[q]) \subseteq {j}
      BY <1>1, <2>1 DEF Create, Mutate, Adds, Idle, TypeInv, TypeOK
    <2>4. S' \subseteq S \cup {j}
      BY <2>2, <2>3 DEF Coming
    <2>5. /\ IsFiniteSet(S \cup {j})
          /\ Cardinality(S \cup {j}) = IF j \in S THEN Cardinality(S) ELSE Cardinality(S) + 1
      BY <1>b, FS_AddElement
    <2>6. Cardinality(S') <= Cardinality(S \cup {j})
      BY <2>4, <2>5, FS_Subset
    <2>7. Cardinality(S) < MaxPending
      BY <1>1, <2>2 DEF Create
    <2>8. /\ Cardinality(S) \in Nat /\ Cardinality(S') \in Nat
          /\ Cardinality(S \cup {j}) \in Nat
      BY <1>b, <2>5, FS_CardinalityType
    <2> QED
      BY <2>5, <2>6, <2>7, <2>8, BoundAssumption
  <1>2. ASSUME NEW p \in Process, MutateWrite(p) PROVE Cardinality(S') <= MaxPending
    <2> DEFINE t == task[p]
    <2>1. /\ t.snap = store /\ TaskInv(t) /\ t \in Task /\ t.pc = "write"
          /\ store' = Change(store, t.jobs, t.to)
      BY <1>2, <1>a DEF MutateWrite, LaunchInv, TaskInv, TypeInv, TypeOK
    <2>2. Pending' \subseteq Pending \cup Adds(t)
      BY <2>1 DEF Pending, Change, Adds, TaskInv, Task, JobState
    <2>3. \A q \in Process : Adds(task'[q]) \subseteq Adds(task[q])
      <3>1. task'[p].pc = t.next /\ t.next \in After
        BY <1>2, <2>1 DEF MutateWrite, Idle, Task, TypeInv, TypeOK
      <3>2. Adds(task'[p]) = {}
        BY <3>1 DEF Adds, After
      <3>3. \A q \in Process \ {p} : task'[q] = task[q]
        BY <1>2 DEF MutateWrite, TypeInv, TypeOK
      <3> QED
        BY <3>2, <3>3
    <2>4. S' \subseteq S
      BY <2>2, <2>3 DEF Coming
    <2> QED
      BY <1>0, <2>4
  \* The others leave the file alone, and none of them adds a job.
  <1>3. ASSUME store' = store,
               \A p \in Process : Adds(task'[p]) \subseteq Adds(task[p])
        PROVE  Cardinality(S') <= MaxPending
    BY <1>0, <1>3 DEF Pending, Coming
  <1>4. ASSUME NEW p \in Process, MutateRead(p) PROVE Cardinality(S') <= MaxPending
    <2>1. store' = store /\ \A q \in Process : Adds(task'[q]) \subseteq Adds(task[q])
      BY <1>4 DEF MutateRead, Adds, TypeInv, TypeOK, Task
    <2> QED
      BY <1>3, <2>1
  <1>5. ASSUME NEW p \in Process, ListMissed(p) \/ Arm(p) \/ Bind(p) \/ Crash(p)
        PROVE  Cardinality(S') <= MaxPending
    <2>1. store' = store /\ \A q \in Process \ {p} : task'[q] = task[q]
      BY <1>5 DEF ListMissed, Arm, Bind, Crash, TaskIs, Mutate, TypeInv, TypeOK
    <2>2. Adds(task'[p]) = {}
      <3>1. CASE \E l \in {"arm", "idle", "list"} : TaskIs(p, l)
        BY <3>1 DEF TaskIs, Idle, Adds, TypeInv, TypeOK
      <3>2. CASE \E J \in SUBSET Job : Mutate(p, J, "missed", "arm")
        BY <3>2 DEF Mutate, Adds, TypeInv, TypeOK
      <3> QED
        BY <1>5, <3>1, <3>2 DEF ListMissed, Arm, Bind, Crash
    <2> QED
      BY <1>3, <2>1, <2>2
  <1>6. ASSUME NEW p \in Process, Launch(p) PROVE Cardinality(S') <= MaxPending
    <2>1. PICK j \in task[p].jobs : LaunchNot(p, j) \/ LaunchOk(p, j) \/ LaunchError(p, j)
      BY <1>6 DEF Launch
    <2>2. store' = store /\ \A q \in Process : Adds(task'[q]) \subseteq Adds(task[q])
      BY <1>6, <2>1 DEF Launch, LaunchNot, LaunchOk, LaunchError, TaskIs, Mutate, Idle, Adds,
         TypeInv, TypeOK
    <2> QED
      BY <1>3, <2>2
  <1>7. CASE UNCHANGED <<store, task>>
    BY <1>3, <1>7
  <1>8. ASSUME NEW p \in Process, NEW j \in Job, Cancel(p, j) \/ Fire(p, j)
        PROVE  Cardinality(S') <= MaxPending
    <2>1. store' = store
      BY <1>8 DEF Cancel, Fire
    <2>2. CASE UNCHANGED task
      BY <1>7, <2>1, <2>2
    <2>3. ASSUME NEW st \in {"canceled", "missed", "running"}, NEW next \in After,
                 Mutate(p, {j}, st, next)
          PROVE  Cardinality(S') <= MaxPending
      <3>1. \A q \in Process : Adds(task'[q]) \subseteq Adds(task[q])
        BY <2>3 DEF Mutate, Adds, TypeInv, TypeOK
      <3> QED
        BY <1>3, <2>1, <3>1
    <2> QED
      BY <1>8, <2>2, <2>3 DEF Cancel, Fire, FireEarly, FireStale, FireLate, FireDue, After
  <1>9. ASSUME NEW p \in Process,
               Shutdown(p) \/ Spawn(p) \/ \E d \in Dialog : OpenGrant(p, d)
        PROVE  UNCHANGED <<store, task>>
    BY <1>9 DEF Shutdown, Spawn, OpenGrant
  <1>10. ASSUME NEW d \in Dialog, Confirm(d) \/ Decline(d) PROVE UNCHANGED <<store, task>>
    BY <1>10 DEF Confirm, Decline
  <1>11. ASSUME NEW j \in Job, TimePasses(j) PROVE UNCHANGED <<store, task>>
    BY <1>11 DEF TimePasses
  <1>12. CASE ChildEnds \/ UNCHANGED vars
    BY <1>7, <1>12 DEF ChildEnds, vars
  <1> QED
    BY <1>1, <1>2, <1>4, <1>5, <1>6, <1>7, <1>8, <1>9, <1>10, <1>11, <1>12 DEF Next, Goes

\* No more jobs are scheduled or running than maxPending, wherever the process
\* dies and however often the session is opened.
THEOREM PendingIsBounded == Spec => []PendingBounded
  <1>1. TypeInv /\ LaunchInv /\ PendingInv => PendingBounded
    <2> SUFFICES ASSUME TypeInv, PendingInv, alone PROVE Cardinality(Pending) <= MaxPending
      BY DEF PendingBounded
    <2>1. Pending \cup Coming \subseteq Job
      BY DEF Pending, Coming, Adds, TypeInv, TypeOK, Task
    <2>2. IsFiniteSet(Pending \cup Coming) /\ IsFiniteSet(Pending)
      BY <2>1, JobAssumption, FS_Subset
    <2>3. Cardinality(Pending) <= Cardinality(Pending \cup Coming)
      BY <2>2, FS_Subset
    <2>4. Cardinality(Pending) \in Nat /\ Cardinality(Pending \cup Coming) \in Nat
      BY <2>2, FS_CardinalityType
    <2> QED
      BY <2>3, <2>4, BoundAssumption DEF PendingInv
  <1> QED
    BY <1>1, TypeAlways, LaunchInit, LaunchStep, PendingInit, PendingStep, PTL DEF Spec

-----------------------------------------------------------------------------
(* The grants.                                                             *)

\* Whatever fired, was launched or granted while a dialog was open, a grant
\* adds to the budget that the dialog has shown.
THEOREM GrantsAreConfirmed == Spec => GrantAsConfirmed
  <1> DEFINE Confirmed ==
        \A p \in Process : granted'[p] > granted[p] =>
          /\ children = 0 /\ session[p] = "bound"
          /\ \E d \in Dialog :
               /\ dialog[d] # None /\ dialog'[d] = None /\ dialog[d].at = p
               /\ dialog[d].used = used[p] /\ dialog[d].granted = granted[p]
               /\ granted'[p] = granted[p] + dialog[d].additional
  <1>1. TypeInv /\ [Next]_vars => Confirmed
    <2> SUFFICES ASSUME TypeInv, [Next]_vars PROVE Confirmed
      OBVIOUS
    <2>1. CASE \E d \in Dialog : Confirm(d)
      <3>1. PICK d \in Dialog : Confirm(d)
        BY <2>1
      <3> DEFINE g == dialog[d]
      <3>2. g.at \in Process /\ g # None /\ dialog'[d] = None
        BY <3>1 DEF Confirm, Shown, TypeInv, TypeOK
      <3>3. CASE StillAsShown(g) /\ Allowed(g)
        <4>1. granted' = [granted EXCEPT ![g.at] = granted[g.at] + g.additional]
          BY <3>1, <3>3 DEF Confirm
        <4>2. \A p \in Process : granted'[p] > granted[p] =>
                p = g.at /\ granted'[p] = granted[p] + g.additional
          BY <3>2, <4>1 DEF TypeInv, TypeOK
        <4> QED
          BY <3>2, <3>3, <4>2 DEF StillAsShown
      <3>4. CASE ~(StillAsShown(g) /\ Allowed(g))
        BY <3>1, <3>4 DEF Confirm, TypeInv, TypeOK
      <3> QED
        BY <3>3, <3>4
    <2>2. CASE \E p \in Process : Shutdown(p) \/ Crash(p)
      BY <2>2 DEF Shutdown, Crash, NewBudget, TypeInv, TypeOK
    <2>3. CASE UNCHANGED granted
      BY <2>3 DEF TypeInv, TypeOK
    <2> QED
      BY <2>1, <2>2, <2>3 DEF Next, Goes, vars, budgetVars, MutateRead, MutateWrite,
         ListMissed, Arm, Launch, Bind, Spawn, Create, Cancel, Fire, OpenGrant, Decline,
         TimePasses, ChildEnds
  <1> QED
    BY <1>1, TypeAlways, PTL DEF Spec, GrantAsConfirmed
=============================================================================
