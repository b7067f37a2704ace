--------------------------- MODULE RevivalStartup ---------------------------
(***************************************************************************)
(* The start of a revived child of pi-subagents: spawnRunner and its       *)
(* helpers in src/runs/background/async-execution.ts, which wait           *)
(* synchronously in the parent, and runConfiguredSubagent and              *)
(* waitForStartupControl in subagent-runner.ts, in the detached runner.    *)
(*                                                                         *)
(*    parent                      files                     runner         *)
(*      spawns it                                    takes the lease       *)
(*      waits           <--  startup: "ready"   <--                        *)
(*      acknowledges    -->  ack                -->  waits                 *)
(*      waits           <--  "acknowledged"     <--                        *)
(*      authorizes      -->  proceed            -->  waits, then runs      *)
(*                                                                         *)
(* An attempt is one revival: a parent, a runner and the three files in    *)
(* the directory of its run.  All attempts revive one session, so their    *)
(* runners share its lease.  SessionLease models the lease itself; here it *)
(* is what that module guarantees (LeaseContract): it has one holder, and  *)
(* another runner takes it when the holder is dead and its child has ended.*)
(***************************************************************************)
EXTENDS Naturals

CONSTANTS
  Attempt,         \* the revivals
  ParentPatience,  \* RUNNER_STARTUP_TIMEOUT_MS in ticks
  RunnerPatience,  \* the timeoutMs of waitForStartupControl in ticks
  MaxLag,          \* bound on how late a process takes a step that it can take
  Faults,          \* the faults considered, a subset of Fault
  None             \* no file, no holder

(***************************************************************************)
(* "write":   a file may fail to be written or removed                     *)
(* "die":     a parent or a runner may die                                 *)
(* "suspend": a process may be late without bound                          *)
(***************************************************************************)
Fault == {"write", "die", "suspend"}

ASSUME PatienceAssumption ==
  ParentPatience \in Nat /\ RunnerPatience \in Nat /\ MaxLag \in Nat
ASSUME NoneAssumption == None \notin Attempt \cup {"ready", "acknowledged", "error"}
ASSUME FaultAssumption == Faults \subseteq Fault

VARIABLES
  parent,   \* parent[a]: where spawnRunner is
  runner,   \* runner[a]: where runConfiguredSubagent is
  startup,  \* startup[a]: the state in runner-startup.json
  ack,      \* the attempts with a runner-startup-ack.json
  proceed,  \* the attempts with a runner-startup-proceed.json
  lease,    \* the holder of the session lease
  age,      \* age[x]: ticks since process x got where it is
  lag,      \* lag[x]: ticks for which process x could have taken a step
  ran       \* history: attempts whose runner has entered runSubagent

files == <<startup, ack, proceed>>
vars == <<parent, runner, startup, ack, proceed, lease, age, lag, ran>>

Process == {"parent", "runner"} \X Attempt

ParentWaits == {"waitReady", "waitAck"}
ParentPC == ParentWaits \cup {"idle", "sendAck", "sendProceed", "tidy", "started",
                              "term", "kill", "refused", "gone"}
RunnerWaits == {"waitAck", "waitProceed"}
Ended == {"ended", "orphaning", "dead"}
RunnerPC == RunnerWaits \cup Ended \cup {"unborn", "starting", "leased", "acking",
                                         "clearing", "running", "failing", "releasing"}

\* process.kill(pid, 0): a killed process that nobody has waited for is there.
Alive(a) == runner[a] \notin Ended \cup {"unborn"}

Step(x) ==
  /\ age' = [age EXCEPT ![x] = 0]
  /\ lag' = [lag EXCEPT ![x] = 0]

ParentGoes(a, l) == parent' = [parent EXCEPT ![a] = l] /\ Step(<<"parent", a>>)
RunnerGoes(a, l) == runner' = [runner EXCEPT ![a] = l] /\ Step(<<"runner", a>>)

Waited(x, patience) == age[x] >= patience

-----------------------------------------------------------------------------
(* The parent: spawnRunner.                                                *)

\* Old files are removed and the runner is spawned, or one of these throws.
Spawn(a) ==
  /\ parent[a] = "idle"
  /\ \/ /\ startup' = [startup EXCEPT ![a] = None]
        /\ ack' = ack \ {a}
        /\ proceed' = proceed \ {a}
        /\ runner' = [runner EXCEPT ![a] = "starting"]
        /\ parent' = [parent EXCEPT ![a] = "waitReady"]
        /\ age' = [x \in Process |-> IF x[2] = a THEN 0 ELSE age[x]]
        /\ lag' = [x \in Process |-> IF x[2] = a THEN 0 ELSE lag[x]]
     \/ /\ "write" \in Faults
        /\ ParentGoes(a, "refused")
        /\ UNCHANGED <<runner, files>>
  /\ UNCHANGED <<lease, ran>>

\* The state waited for, and what follows when it is read.
Expected == [waitReady |-> "ready", waitAck |-> "acknowledged"]
Onward == [waitReady |-> "sendAck", waitAck |-> "sendProceed"]

\* Mutant: any answer of the runner will do.
ReadStartupAny(a) ==
  /\ parent[a] \in ParentWaits /\ startup[a] \notin {None, "error"}
  /\ ParentGoes(a, Onward[parent[a]])
  /\ UNCHANGED <<runner, files, lease, ran>>

\* readRunnerStartup finds the expected state.
ReadStartup(a) ==
  /\ parent[a] \in ParentWaits /\ startup[a] = Expected[parent[a]]
  /\ ParentGoes(a, Onward[parent[a]])
  /\ UNCHANGED <<runner, files, lease, ran>>

\* Mutant: no deadline.
GiveUpStartupOnError(a) ==
  /\ parent[a] \in ParentWaits /\ startup[a] = "error"
  /\ ParentGoes(a, "term")
  /\ UNCHANGED <<runner, files, lease, ran>>

\* ... or an error; after the deadline it reads once more before it gives up.
GiveUpStartup(a) ==
  /\ parent[a] \in ParentWaits
  /\ \/ startup[a] = "error"
     \/ /\ startup[a] # Expected[parent[a]]
        /\ Waited(<<"parent", a>>, ParentPatience)
  /\ ParentGoes(a, "term")
  /\ UNCHANGED <<runner, files, lease, ran>>

\* writeRunnerStartupControl, "ack"
SendAck(a) ==
  /\ parent[a] = "sendAck"
  /\ \/ ack' = ack \cup {a} /\ ParentGoes(a, "waitAck")
     \/ "write" \in Faults /\ ParentGoes(a, "term") /\ UNCHANGED ack
  /\ UNCHANGED <<runner, startup, proceed, lease, ran>>

\* Mutant: the file is in place when an error of the cleanup is reported.
SendProceedThenFail(a) ==
  /\ parent[a] = "sendProceed"
  /\ proceed' = proceed \cup {a}
  /\ \/ ParentGoes(a, "tidy")
     \/ "write" \in Faults /\ ParentGoes(a, "term")
  /\ UNCHANGED <<runner, startup, ack, lease, ran>>

\* writeRunnerStartupControl, "proceed": from here on the start is a success.
SendProceed(a) ==
  /\ parent[a] = "sendProceed"
  /\ \/ proceed' = proceed \cup {a} /\ ParentGoes(a, "tidy")
     \/ "write" \in Faults /\ ParentGoes(a, "term") /\ UNCHANGED proceed
  /\ UNCHANGED <<runner, startup, ack, lease, ran>>

\* The startup file is removed, if it can be; the start is reported.
Tidy(a) ==
  /\ parent[a] = "tidy"
  /\ \/ startup' = [startup EXCEPT ![a] = None]
     \/ "write" \in Faults /\ UNCHANGED startup
  /\ ParentGoes(a, "started")
  /\ UNCHANGED <<runner, ack, proceed, lease, ran>>

\* terminateRunnerBeforeProceed: SIGTERM, then SIGKILL, each for a second at
\* most; the error is reported in any case.
Terminate(a) ==
  /\ parent[a] \in {"term", "kill"}
  /\ ParentGoes(a, IF Alive(a) /\ parent[a] = "term" THEN "kill" ELSE "refused")
  /\ UNCHANGED <<runner, files, lease, ran>>

-----------------------------------------------------------------------------
(* The runner: runConfiguredSubagent.  A signal sent to it has its default *)
(* action until the run begins; after SIGKILL it executes nothing.         *)

Signalled(a) == parent[a] \in {"kill", "refused"}
Executes(a) == parent[a] # "refused"

\* acquireSessionLease: the lease is free, or its holder is gone.
MayAcquire == lease # None => runner[lease] = "dead"

Acquire(a) ==
  /\ runner[a] = "starting" /\ Executes(a)
  /\ \/ MayAcquire /\ lease' = a /\ RunnerGoes(a, "leased")
     \/ /\ ~MayAcquire \/ "write" \in Faults
        /\ RunnerGoes(a, "failing") /\ UNCHANGED lease
  /\ UNCHANGED <<parent, files, ran>>

\* writeAtomicJson of "ready" and of "acknowledged"
WriteState(a, at, s, next) ==
  /\ runner[a] = at /\ Executes(a)
  /\ \/ startup' = [startup EXCEPT ![a] = s] /\ RunnerGoes(a, next)
     \/ "write" \in Faults /\ RunnerGoes(a, "failing") /\ UNCHANGED startup
  /\ UNCHANGED <<parent, ack, proceed, lease, ran>>
WriteReady(a) == WriteState(a, "leased", "ready", "waitAck")

\* Mutant: the state is named after the file that it answers.
WriteAcknowledgedAsAck(a) == WriteState(a, "acking", "ack", "waitProceed")

WriteAcknowledged(a) == WriteState(a, "acking", "acknowledged", "waitProceed")

\* waitForStartupControl: the file is looked at until the deadline, not after.
InTime(a) == age[<<"runner", a>>] <= RunnerPatience

SeeAck(a) ==
  /\ runner[a] = "waitAck" /\ Executes(a) /\ a \in ack /\ InTime(a)
  /\ RunnerGoes(a, "acking")
  /\ UNCHANGED <<parent, files, lease, ran>>

SeeProceed(a) ==
  /\ runner[a] = "waitProceed" /\ Executes(a) /\ a \in proceed /\ InTime(a)
  /\ RunnerGoes(a, "clearing")
  /\ UNCHANGED <<parent, files, lease, ran>>

TimeOut(a) ==
  /\ runner[a] \in RunnerWaits /\ Executes(a) /\ ~InTime(a)
  /\ RunnerGoes(a, "failing")
  /\ UNCHANGED <<parent, files, lease, ran>>

\* The control files are removed, if they can be, and runSubagent begins.
Begin(a) ==
  /\ runner[a] = "clearing" /\ Executes(a)
  /\ \/ ack' = ack \ {a} /\ proceed' = proceed \ {a}
     \/ "write" \in Faults /\ UNCHANGED <<ack, proceed>>
  /\ ran' = ran \cup {a}
  /\ RunnerGoes(a, "running")
  /\ UNCHANGED <<parent, startup, lease>>

\* runSubagent returns or throws.
End(a) ==
  /\ runner[a] = "running"
  /\ RunnerGoes(a, "releasing")
  /\ UNCHANGED <<parent, files, lease, ran>>

\* The catch clause before the start is committed.
WriteError(a) ==
  /\ runner[a] = "failing" /\ Executes(a)
  /\ \/ startup' = [startup EXCEPT ![a] = "error"]
     \/ "write" \in Faults /\ UNCHANGED startup
  /\ RunnerGoes(a, "releasing")
  /\ UNCHANGED <<parent, ack, proceed, lease, ran>>

\* The finally clause; when it cannot release the lease, its exit does.
Release(a) ==
  /\ runner[a] = "releasing" /\ Executes(a)
  /\ \/ lease' = (IF lease = a THEN None ELSE lease) /\ RunnerGoes(a, "ended")
     \/ "write" \in Faults /\ RunnerGoes(a, "dead") /\ UNCHANGED lease
  /\ UNCHANGED <<parent, files, ran>>

\* The default action of a signal, without exit handlers: the lease stays.
Killed(a) ==
  /\ Alive(a) /\ Signalled(a)
  /\ RunnerGoes(a, "dead")
  /\ UNCHANGED <<parent, files, lease, ran>>

-----------------------------------------------------------------------------
(* Deaths, and time.                                                       *)

\* Once the parent has sent a signal its own death changes nothing.
ParentDies(a) ==
  /\ "die" \in Faults
  /\ parent[a] \notin {"idle", "started", "kill", "refused", "gone"}
  /\ ParentGoes(a, "gone")
  /\ UNCHANGED <<runner, files, lease, ran>>

\* A child of the runner may outlive it.
RunnerDies(a) ==
  /\ "die" \in Faults /\ Alive(a)
  /\ RunnerGoes(a, IF runner[a] = "running" THEN "orphaning" ELSE "dead")
  /\ UNCHANGED <<parent, files, lease, ran>>

ChildEnds(a) ==
  /\ runner[a] = "orphaning"
  /\ RunnerGoes(a, "dead")
  /\ UNCHANGED <<parent, files, lease, ran>>

\* A process can take a step: it does not merely wait for the other one.
ParentReady(a) ==
  \/ parent[a] \in {"sendAck", "sendProceed", "tidy", "term", "kill"}
  \/ /\ parent[a] \in ParentWaits
     /\ \/ startup[a] \in {Expected[parent[a]], "error"}
        \/ Waited(<<"parent", a>>, ParentPatience)
RunnerReady(a) ==
  \/ runner[a] \in {"starting", "leased", "acking", "clearing", "failing", "releasing"}
  \/ runner[a] = "waitAck" /\ a \in ack
  \/ runner[a] = "waitProceed" /\ a \in proceed
  \/ runner[a] \in RunnerWaits /\ ~InTime(a)
Ready(x) == IF x[1] = "parent" THEN ParentReady(x[2]) ELSE RunnerReady(x[2])

\* Ages stop where no guard tells them apart.
OldAge == IF ParentPatience > RunnerPatience THEN ParentPatience + 1 ELSE RunnerPatience + 1
Waits(x) == IF x[1] = "parent" THEN parent[x[2]] \in ParentWaits
                               ELSE runner[x[2]] \in RunnerWaits

Tick ==
  /\ "suspend" \in Faults \/ \A x \in Process : Ready(x) => lag[x] < MaxLag
  /\ age' = [x \in Process |-> IF Waits(x) /\ age[x] < OldAge THEN age[x] + 1 ELSE age[x]]
  /\ lag' = [x \in Process |-> IF ~Ready(x) THEN 0
                               ELSE IF lag[x] < MaxLag THEN lag[x] + 1 ELSE lag[x]]
  /\ UNCHANGED <<parent, runner, files, lease, ran>>

-----------------------------------------------------------------------------
Init ==
  /\ parent = [a \in Attempt |-> "idle"]
  /\ runner = [a \in Attempt |-> "unborn"]
  /\ startup = [a \in Attempt |-> None]
  /\ ack = {}
  /\ proceed = {}
  /\ lease = None
  /\ age = [x \in Process |-> 0]
  /\ lag = [x \in Process |-> 0]
  /\ ran = {}

ParentStep(a) == \/ ReadStartup(a) \/ GiveUpStartup(a) \/ SendAck(a) \/ SendProceed(a)
                 \/ Tidy(a) \/ Terminate(a)
RunnerStep(a) == \/ Acquire(a) \/ WriteReady(a) \/ SeeAck(a) \/ WriteAcknowledged(a)
                 \/ SeeProceed(a) \/ TimeOut(a) \/ Begin(a) \/ WriteError(a)
                 \/ Release(a) \/ Killed(a)

Next ==
  \/ \E a \in Attempt :
       \/ Spawn(a) \/ ParentStep(a) \/ RunnerStep(a) \/ End(a)
       \/ ParentDies(a) \/ RunnerDies(a) \/ ChildEnds(a)
  \/ Tick

Spec == Init /\ [][Next]_vars

\* Both processes poll, a signal takes effect, and time passes.  Nothing makes
\* a run end, a process die or a parent start.
FairSpec ==
  /\ Spec /\ WF_vars(Tick)
  /\ \A a \in Attempt : WF_vars(ParentStep(a)) /\ WF_vars(RunnerStep(a))

-----------------------------------------------------------------------------
(* Properties.                                                             *)

TypeOK ==
  /\ parent \in [Attempt -> ParentPC]
  /\ runner \in [Attempt -> RunnerPC]
  /\ startup \in [Attempt -> {"ready", "acknowledged", "error", None}]
  /\ ack \subseteq Attempt
  /\ proceed \subseteq Attempt
  /\ lease \in Attempt \cup {None}
  /\ age \in [Process -> Nat]
  /\ lag \in [Process -> Nat]
  /\ ran \subseteq Attempt

(***************************************************************************)
(* A revival that its parent reports as refused has not begun and never    *)
(* will, wherever the handshake failed and however late the runner is: the *)
(* user who tries again does not get two children on one session.          *)
(***************************************************************************)
RefusedNeverRuns == \A a \in Attempt : parent[a] = "refused" => a \notin ran

(***************************************************************************)
(* The runner of a revival that is reported as started does not give up:   *)
(* it goes on to run unless it is killed.  This takes both phases of the   *)
(* handshake, and the patience of the runner, which outlasts the lags of   *)
(* both processes.                                                         *)
(***************************************************************************)
GaveUp(a) == a \notin ran /\ runner[a] \in {"failing", "releasing", "ended"}
StartedGoesOn ==
  "suspend" \notin Faults /\ 3 * MaxLag <= RunnerPatience =>
    \A a \in Attempt : parent[a] \in {"tidy", "started"} => ~GaveUp(a)

(***************************************************************************)
(* Every attempt is settled: its parent has an answer or is gone, and its  *)
(* runner runs or has left the session to the next one, also when either   *)
(* of them dies half way.                                                  *)
(***************************************************************************)
Settled(a) ==
  /\ parent[a] \in {"started", "refused", "gone"}
  /\ a \in ran \/ (runner[a] \in {"ended", "dead"} /\ (lease = a => runner[a] = "dead"))
AttemptsSettle == \A a \in Attempt : parent[a] = "waitReady" ~> Settled(a)
=============================================================================
