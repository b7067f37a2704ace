---------------------------- MODULE ScheduledRuns ----------------------------
(***************************************************************************)
(* Scheduled runs of pi-subagents, scheduled-runs.ts, and the budget of    *)
(* children they draw on, shared/spawn-budget.ts.                          *)
(*                                                                         *)
(* The jobs of a session are in one file that every process with that      *)
(* session open reads and replaces, without a lock; the timers, and the    *)
(* budget, are in the memory of a process.  A process runs one callback at *)
(* a time; its reads and writes of the file are steps of their own, since  *)
(* it may die between them and since another process may take its turn.    *)
(*                                                                         *)
(* deps.launch reaches the spawn without an await, so a launch is a step   *)
(* of the callback that fires the job.  A job launches one child.          *)
(***************************************************************************)
EXTENDS Naturals, FiniteSets

CONSTANTS
  Process,    \* the Pi processes of the machine
  Job,        \* ids of jobs
  Dialog,     \* the grant dialogs that may be open together
  MaxPending, \* config.scheduledRuns.maxPending
  Limit,      \* config.maxSubagentSpawnsPerSession
  MaxStarts,  \* bound on the times the session is opened
  None

ASSUME BoundAssumption == {MaxPending, Limit, MaxStarts} \subseteq Nat
ASSUME JobAssumption == IsFiniteSet(Job)

VARIABLES
  alone,    \* whether one process at a time is alive, or any number of them;
            \* the tool calls that use the budget are taken in the first case
  store,    \* the file: store[j] is the state of job j, or "none"
  phase,    \* phase[j]: the time with respect to runAt of j
  session,  \* session[p]: whether p is alive, and has the session open
  timers,   \* timers[p]: the jobs that are armed in p
  task,     \* task[p]: the callback that p is running
  used,     \* used[p]: children launched, in the session of p
  granted,  \* granted[p]: what the human has added to the limit of p
  dialog,   \* dialog[d]: what an open dialog has shown, or None
  children, \* children of the session that are queued or running
  starts,   \* how often the session was opened
  launches, \* history: launches[j] counts the runs launched for j
  lost      \* history: jobs whose process died after the claim of the job, and
            \* before the result was in the file

budgetVars == <<used, granted, dialog, children>>
vars == <<alone, store, phase, session, timers, task, budgetVars, starts, launches, lost>>

JobState == {"scheduled", "running", "fired", "canceled", "missed", "failed"}
Store == [Job -> JobState \cup {"none"}]

\* "due": runAt is past, by maxLatenessMs at most; "late": by more.
Phase == {"unborn", "early", "due", "late"}

\* What a dialog shows, and where.
Shown == [at : Process, used : Nat, granted : 0 .. Limit, additional : 1 .. Limit]

\* A callback that changes the jobs in the set `jobs` to the state `to`, and
\* what it does next.
Step == {"idle", "list", "read", "write", "arm", "launch"}
After == {"idle", "arm", "launch"}
Task == [pc : Step, jobs : SUBSET Job, to : JobState, snap : Store \cup {None}, next : After]
Idle == [pc |-> "idle", jobs |-> {}, to |-> "scheduled", snap |-> None, next |-> "idle"]

TaskIs(p, l) == task' = [task EXCEPT ![p] = [Idle EXCEPT !.pc = l]]
Mutate(p, J, st, next) ==
  task' = [task EXCEPT ![p] =
    [pc |-> "read", jobs |-> J, to |-> st, snap |-> None, next |-> next]]

Ready(p) == session[p] = "bound" /\ task[p] = Idle
Disarm(p, j) == timers' = [timers EXCEPT ![p] = @ \ {j}]

-----------------------------------------------------------------------------
(* The file: ScheduledRunStore.mutate.                                     *)

\* The function given to mutate.  A job that is missed or claimed is examined
\* again; a job that is canceled or settled is only looked up.
Change(s, J, st) ==
  [j \in Job |->
     IF /\ j \in J
        /\ st \in {"missed", "running"} => s[j] = "scheduled"
        /\ st # "scheduled" => s[j] # "none"
     THEN st ELSE s[j]]

MutateRead(p) ==
  /\ task[p].pc = "read"
  /\ task' = [task EXCEPT ![p].pc = "write", ![p].snap = store]
  /\ UNCHANGED <<alone, store, phase, session, timers, budgetVars, starts, launches, lost>>

\* createJob arms the new job after the write.
Kept(t) == IF t.next = "launch" THEN t.jobs ELSE {}
MutateWrite(p) ==
  LET t == task[p] IN
  /\ t.pc = "write"
  /\ store' = Change(t.snap, t.jobs, t.to)
  /\ timers' = [timers EXCEPT ![p] = @ \cup IF t.to = "scheduled" THEN t.jobs ELSE {}]
  /\ task' = [task EXCEPT ![p] = [Idle EXCEPT !.pc = t.next, !.jobs = Kept(t)]]
  /\ UNCHANGED <<alone, phase, session, budgetVars, starts, launches, lost>>

Pending == {j \in Job : store[j] \in {"scheduled", "running"}}

-----------------------------------------------------------------------------
(* The session: bindSession, rearmScheduledJobs, stop.                     *)

\* resetSessionState starts a new budget; here that is done when the old one
\* goes out of scope.
NewBudget(p) ==
  used' = [used EXCEPT ![p] = 0] /\ granted' = [granted EXCEPT ![p] = 0]

Bind(p) ==
  /\ session[p] # "bound" /\ task[p] = Idle /\ starts < MaxStarts
  /\ alone => \A q \in Process \ {p} : session[q] = "off"
  /\ session' = [session EXCEPT ![p] = "bound"]
  /\ TaskIs(p, "list")
  /\ starts' = starts + 1
  /\ UNCHANGED <<alone, store, phase, timers, budgetVars, launches, lost>>

ListMissed(p) ==
  LET missed == {j \in Job : store[j] = "scheduled" /\ phase[j] = "late"} IN
  /\ task[p].pc = "list"
  /\ IF missed = {} THEN TaskIs(p, "arm") ELSE Mutate(p, missed, "missed", "arm")
  /\ UNCHANGED <<alone, store, phase, session, timers, budgetVars, starts, launches, lost>>

\* Mutant: only the jobs that are due are armed again.
ArmDue(p) ==
  /\ task[p].pc = "arm"
  /\ timers' = [timers EXCEPT ![p] = {j \in Job : store[j] = "scheduled" /\ phase[j] # "early"}]
  /\ TaskIs(p, "idle")
  /\ UNCHANGED <<alone, store, phase, session, budgetVars, starts, launches, lost>>

Arm(p) ==
  /\ task[p].pc = "arm"
  /\ timers' = [timers EXCEPT ![p] = {j \in Job : store[j] = "scheduled"}]
  /\ TaskIs(p, "idle")
  /\ UNCHANGED <<alone, store, phase, session, budgetVars, starts, launches, lost>>

Shutdown(p) ==
  /\ Ready(p)
  /\ session' = [session EXCEPT ![p] = "unbound"]
  /\ timers' = [timers EXCEPT ![p] = {}]
  /\ NewBudget(p)
  /\ UNCHANGED <<alone, store, phase, task, dialog, children, starts, launches, lost>>

\* The claim of j is in the file, and p has yet to write its result.
Claims(p, j) ==
  /\ store[j] = "running" /\ j \in task[p].jobs
  /\ task[p].pc = "launch" \/ task[p].to \in {"fired", "failed"}

Crash(p) ==
  /\ session[p] # "off"
  /\ lost' = lost \cup {j \in Job : Claims(p, j)}
  /\ session' = [session EXCEPT ![p] = "off"]
  /\ timers' = [timers EXCEPT ![p] = {}]
  /\ TaskIs(p, "idle") /\ NewBudget(p)
  /\ dialog' = [d \in Dialog |->
       IF dialog[d] # None /\ dialog[d].at = p THEN None ELSE dialog[d]]
  /\ UNCHANGED <<alone, store, phase, children, starts, launches>>

-----------------------------------------------------------------------------
(* The tool calls: createJob, cancelJob.                                   *)

Create(p, j) ==
  /\ Ready(p) /\ phase[j] = "unborn"
  /\ Cardinality(Pending) < MaxPending
  /\ phase' = [phase EXCEPT ![j] = "early"]
  /\ Mutate(p, {j}, "scheduled", "idle")
  /\ UNCHANGED <<alone, store, session, timers, budgetVars, starts, launches, lost>>

\* Mutant: a job that looks stuck in its launch may be canceled.
CancelStuck(p, j) ==
  /\ Ready(p) /\ store[j] \in {"scheduled", "running"}
  /\ Disarm(p, j)
  /\ Mutate(p, {j}, "canceled", "idle")
  /\ UNCHANGED <<alone, store, phase, session, budgetVars, starts, launches, lost>>

Cancel(p, j) ==
  /\ Ready(p) /\ store[j] = "scheduled"
  /\ Disarm(p, j)
  /\ Mutate(p, {j}, "canceled", "idle")
  /\ UNCHANGED <<alone, store, phase, session, budgetVars, starts, launches, lost>>

-----------------------------------------------------------------------------
(* The timers: fire, up to the result of the launch.                       *)

\* preflightSpawnBudget and reserveSpawnBudget, in one callback.
\* Mutant: one child more than the limit.
HasRoomOffByOne(p) == used[p] <= Limit + granted[p]
HasRoom(p) == used[p] < Limit + granted[p]
Reserve(p) == used' = [used EXCEPT ![p] = @ + 1]

\* A timer capped at MAX_TIMER_DELAY_MS goes off early, and is armed again.
FireEarly(p, j) == phase[j] = "early" /\ UNCHANGED <<timers, task>>
FireStale(p, j) == store[j] # "scheduled" /\ Disarm(p, j) /\ UNCHANGED task
FireLate(p, j) ==
  /\ store[j] = "scheduled" /\ phase[j] = "late"
  /\ Disarm(p, j) /\ Mutate(p, {j}, "missed", "idle")
FireDue(p, j) ==
  /\ store[j] = "scheduled" /\ phase[j] = "due"
  /\ Disarm(p, j) /\ Mutate(p, {j}, "running", "launch")

Fire(p, j) ==
  /\ Ready(p) /\ j \in timers[p]
  /\ FireStale(p, j) \/ FireEarly(p, j) \/ FireLate(p, j) \/ FireDue(p, j)
  /\ UNCHANGED <<alone, store, phase, session, budgetVars, starts, launches, lost>>

\* The job is read once more; a job that runs is taken for one's own.
LaunchNot(p, j) ==
  /\ store[j] # "running" /\ TaskIs(p, "idle")
  /\ UNCHANGED <<used, children, launches>>
\* Mutant: the error of a launch is not written down.
LaunchErrorUnsaid(p, j) ==
  /\ store[j] = "running" /\ TaskIs(p, "idle")
  /\ UNCHANGED <<used, children, launches>>

LaunchOk(p, j) ==
  /\ store[j] = "running" /\ HasRoom(p) /\ Reserve(p)
  /\ children' = children + 1
  /\ launches' = [launches EXCEPT ![j] = @ + 1]
  /\ Mutate(p, {j}, "fired", "idle")
\* The budget is used up, or the executor refuses the run for another reason.
LaunchError(p, j) ==
  /\ store[j] = "running" /\ Mutate(p, {j}, "failed", "idle")
  /\ UNCHANGED <<used, children, launches>>

Launch(p) ==
  /\ task[p].pc = "launch"
  /\ \E j \in task[p].jobs : LaunchNot(p, j) \/ LaunchOk(p, j) \/ LaunchError(p, j)
  /\ UNCHANGED <<alone, store, phase, session, timers, granted, dialog, starts, lost>>

-----------------------------------------------------------------------------
(* Other children, and the grants: action "grant-spawn-budget".            *)

\* The model calls the subagent tool.
Spawn(p) ==
  /\ alone /\ Ready(p) /\ HasRoom(p) /\ Reserve(p)
  /\ children' = children + 1
  /\ UNCHANGED <<alone, store, phase, session, timers, task, granted, dialog, starts, launches, lost>>

ChildEnds ==
  /\ children > 0 /\ children' = children - 1
  /\ UNCHANGED <<alone, store, phase, session, timers, task, used, granted, dialog, starts, launches, lost>>

OpenGrant(p, d) ==
  /\ alone /\ Ready(p) /\ dialog[d] = None
  /\ children = 0
  /\ \E n \in 1 .. Limit :
       /\ granted[p] + n <= Limit
       /\ dialog' = [dialog EXCEPT ![d] =
            [at |-> p, used |-> used[p], granted |-> granted[p], additional |-> n]]
  /\ UNCHANGED <<alone, store, phase, session, timers, task, used, granted, children, starts, launches, lost>>

\* Mutant: what was shown is not compared.
StillAsShownLoosely(g) == session[g.at] = "bound" /\ children = 0

\* The checks after the await, and those of grantSpawnBudget.  The children are
\* those that hasActiveSubagentChildren sees: a foreground child that was
\* detached for the intercom is not among them, though it runs.
StillAsShown(g) ==
  /\ session[g.at] = "bound"
  /\ children = 0
  /\ used[g.at] = g.used /\ granted[g.at] = g.granted
Allowed(g) == granted[g.at] + g.additional <= Limit

Confirm(d) ==
  LET g == dialog[d] IN
  /\ g # None /\ task[g.at] = Idle
  /\ dialog' = [dialog EXCEPT ![d] = None]
  /\ IF StillAsShown(g) /\ Allowed(g)
       THEN granted' = [granted EXCEPT ![g.at] = @ + g.additional]
       ELSE UNCHANGED granted
  /\ UNCHANGED <<alone, store, phase, session, timers, task, used, children, starts, launches, lost>>

Decline(d) ==
  /\ dialog[d] # None /\ task[dialog[d].at] = Idle
  /\ dialog' = [dialog EXCEPT ![d] = None]
  /\ UNCHANGED <<alone, store, phase, session, timers, task, used, granted, children, starts, launches, lost>>

-----------------------------------------------------------------------------
\* Only the time of a job that is scheduled matters.
TimePasses(j) ==
  /\ store[j] = "scheduled"
  /\ \/ phase[j] = "early" /\ phase' = [phase EXCEPT ![j] = "due"]
     \/ phase[j] = "due" /\ phase' = [phase EXCEPT ![j] = "late"]
  /\ UNCHANGED <<alone, store, session, timers, task, budgetVars, starts, launches, lost>>

Init ==
  /\ alone \in BOOLEAN
  /\ store = [j \in Job |-> "none"]
  /\ phase = [j \in Job |-> "unborn"]
  /\ session = [p \in Process |-> "off"]
  /\ timers = [p \in Process |-> {}]
  /\ task = [p \in Process |-> Idle]
  /\ used = [p \in Process |-> 0] /\ granted = [p \in Process |-> 0]
  /\ dialog = [d \in Dialog |-> None]
  /\ children = 0 /\ starts = 0
  /\ launches = [j \in Job |-> 0] /\ lost = {}

Goes(p) == MutateRead(p) \/ MutateWrite(p) \/ ListMissed(p) \/ Arm(p) \/ Launch(p)

Next ==
  \/ \E p \in Process :
       \/ Goes(p) \/ Bind(p) \/ Shutdown(p) \/ Crash(p) \/ Spawn(p)
       \/ \E j \in Job : Create(p, j) \/ Cancel(p, j) \/ Fire(p, j)
       \/ \E d \in Dialog : OpenGrant(p, d)
  \/ \E d \in Dialog : Confirm(d) \/ Decline(d)
  \/ \E j \in Job : TimePasses(j)
  \/ ChildEnds

Spec == Init /\ [][Next]_vars

(***************************************************************************)
(* Fairness: time passes, a callback goes on while its process lives, and  *)
(* a timer goes off, though any number of other callbacks may run first.   *)
(***************************************************************************)
Fairness ==
  /\ \A p \in Process : WF_vars(Goes(p))
  /\ \A p \in Process, j \in Job : SF_vars(Fire(p, j))
  /\ \A j \in Job : WF_vars(TimePasses(j))

FairSpec == Spec /\ Fairness

-----------------------------------------------------------------------------
(* Properties.                                                             *)

\* The state keeps its shape; no more children are launched or granted than
\* the configuration allows.
TypeOK ==
  /\ alone \in BOOLEAN
  /\ store \in Store
  /\ phase \in [Job -> Phase]
  /\ session \in [Process -> {"off", "unbound", "bound"}]
  /\ timers \in [Process -> SUBSET Job]
  /\ task \in [Process -> Task]
  /\ used \in [Process -> Nat] /\ granted \in [Process -> 0 .. Limit]
  /\ \A p \in Process : used[p] <= Limit + granted[p]
  /\ dialog \in [Dialog -> Shown \cup {None}]
  /\ children \in Nat /\ starts \in Nat
  /\ launches \in [Job -> Nat] /\ lost \subseteq Job

\* README: scheduled runs are "one-shot".  However often the session is closed,
\* or its process dies at any step, a job is launched at most once, and never
\* before its claim is in the file: what the file calls scheduled, canceled or
\* missed has not run, and what it calls fired has.
LaunchedOnce ==
  alone => \A j \in Job :
    /\ launches[j] <= 1
    /\ store[j] \in {"none", "scheduled", "canceled", "missed"} => launches[j] = 0
    /\ store[j] = "fired" => launches[j] = 1

\* A grant adds to the very budget that its dialog has shown, in an open
\* session without children, whatever fired or was launched or granted while
\* the human was thinking.
GrantAsConfirmed ==
  [][ \A p \in Process : granted'[p] > granted[p] =>
        /\ children = 0 /\ session[p] = "bound"
        /\ \E d \in Dialog :
             /\ dialog[d] # None /\ dialog'[d] = None /\ dialog[d].at = p
             /\ dialog[d].used = used[p] /\ dialog[d].granted = granted[p]
             /\ granted'[p] = granted[p] + dialog[d].additional ]_vars

\* README: "maxPending caps the number of pending or running scheduled jobs per
\* session", also when the process dies while it adds one.
PendingBounded == alone => Cardinality(Pending) <= MaxPending

\* README: schedules are "restored after a Pi restart".  In a session that stays
\* open at last, every scheduled job reaches a terminal state: it is launched and
\* said to be, or missed, failed or canceled, however often the session was
\* closed before.  The exception is a job whose process died between its claim
\* and its result: it stays "running", and nobody takes it up again.
terminalState(st) == st \in {"fired", "canceled", "missed", "failed"}
EventuallySettled ==
  (alone /\ \E p \in Process : <>[](session[p] = "bound"))
    => \A j \in Job : (store[j] = "scheduled") ~> (terminalState(store[j]) \/ j \in lost)
=============================================================================
