------------------------------ MODULE AsyncRun ------------------------------
(***************************************************************************)
(* One detached run of pi-subagents and everybody who touches its files:   *)
(* the runner (runSubagent of src/runs/background/subagent-runner.ts), the *)
(* processes that reconcile it when it looks stale                         *)
(* (stale-run-reconciler.ts), the processes that append a step to its      *)
(* chain (chain-append.ts), the control inbox (control-channel.ts), and    *)
(* the watcher that takes its result file away (result-watcher.ts).        *)
(*                                                                         *)
(* The run is a chain of sequential steps.  status.json, the result file,  *)
(* the append requests and the control requests are files, replaced        *)
(* atomically; `state', `pend' and `flags' are the runner's own memory.    *)
(***************************************************************************)
EXTENDS Naturals, FiniteSets, Sequences

CONSTANTS
  Reconciler,    \* processes that may call reconcileAsyncRun on the run
  Appender,        \* append-step calls, each made by a process of its own
  InitialSteps,  \* chain steps the run starts with
  MaxReports,    \* bound: result files taken by the watcher
  Faults,        \* the combinations of faults considered, of those below
  None           \* no such file

ASSUME StepsAssumption == InitialSteps \in Nat \ {0}
ASSUME ReportsAssumption == MaxReports \in Nat \ {0}
ASSUME FaultsAssumption == Faults \subseteq SUBSET {"race", "abandon", "lostFinal", "silent"}

ASSUME ProcessesAssumption ==
  /\ IsFiniteSet(Appender)
  /\ Reconciler \cap Appender = {} /\ None \notin Reconciler \cup Appender

VARIABLES
  faults,    \* what the environment of this behaviour may do, see below
  rpc,       \* where the runner is
  state,     \* statusPayload.state
  pend,      \* statusPayload.pendingAppends
  flags,     \* why the run is not going to be complete, see Flag
  cursor,    \* stepCursor: steps started
  consumed,  \* append requests whose step the runner has added to its chain
  status,    \* status.json
  result,    \* the result file, and whether the runner or a repair wrote it
  inbox,     \* control requests no one has consumed
  requests,  \* append request files no one has consumed
  rec,       \* rec[r]: where reconciler r is, with the status it goes by
  app,       \* app[a]: where append call a is, with the status it has read
  reports    \* history: the result files taken by the watcher, in order

runnerVars == <<rpc, state, pend, flags, cursor, consumed>>
vars == <<faults, rpc, state, pend, flags, cursor, consumed, status, result,
          inbox, requests, rec, app, reports>>

(***************************************************************************)
(* "race":      another process may run between two file operations of a   *)
(*              reconciliation or of an append call.                       *)
(* "abandon":   a process may die half way through a reconciliation.       *)
(* "lostFinal": the runner may die, or fail to write the result file, once *)
(*              it has written a final state to status.json.               *)
(* "silent":    a live runner may leave status.json alone for 24 hours.    *)
(***************************************************************************)
Final == {"complete", "failed", "paused", "stopped"}
State == {"running"} \cup Final
Halt  == {"stop", "timeout", "interrupt"}
Flag  == Halt \cup {"budget", "gate", "stepFailed"}

Status == [state : State, active : BOOLEAN, pend : 0 .. Cardinality(Appender)]
Result == [state : Final, by : {"runner", "repair"}]

ASSUME NoneAssumption == None \notin Status \cup Result

Steps == InitialSteps + Cardinality(consumed)

\* status.json of a run whose runner has not written one: buildStartedStatus.
StartedStatus == [state |-> "running", active |-> TRUE, pend |-> 0]

Busy == {r \in Reconciler : rec[r].pc \notin {"idle", "gone"}}
          \cup {a \in Appender : app[a].pc \in {"write", "count"}}

\* Nobody but p is between two file operations, or the scheduler lets p in.
Undisturbed(p) == "race" \in faults \/ Busy \subseteq {p}

-----------------------------------------------------------------------------
(* The runner.                                                             *)

Init ==
  /\ faults \in Faults
  /\ rpc = "starting"
  /\ state = "running"
  /\ pend = 0
  /\ flags = {}
  /\ cursor = 0
  /\ consumed = {}
  /\ status = None
  /\ result = None
  /\ inbox = {}
  /\ requests = {}
  /\ rec = [r \in Reconciler |-> [pc |-> "idle", snap |-> None]]
  /\ app = [a \in Appender |-> [pc |-> "idle", snap |-> None]]
  /\ reports = <<>>

\* writeStatusPayload: the whole payload replaces the file.
Publish(s, a, p) == status' = [state |-> s, active |-> a, pend |-> p]

Start ==
  /\ rpc = "starting" /\ Undisturbed(None)
  /\ rpc' = "loop"
  /\ Publish("running", TRUE, 0)
  /\ UNCHANGED <<faults, state, pend, flags, cursor, consumed, result, inbox,
                 requests, rec, app, reports>>

\* The loop is left: the session is exported first when it is to be shared.
Leave == rpc' \in {"sharing", "final"}

\* interrupted || timedOut || stopped || turnBudgetExceeded
Halted == flags \cap (Halt \cup {"budget"}) # {}

Break ==
  /\ rpc = "loop" /\ Halted /\ Undisturbed(None)
  /\ Leave
  /\ UNCHANGED <<faults, state, pend, flags, cursor, consumed, status, result,
                 inbox, requests, rec, app, reports>>

\* consumePendingAppendRequests
Consume ==
  /\ rpc = "loop" /\ ~Halted /\ Undisturbed(None)
  /\ rpc' = "next"
  /\ consumed' = consumed \cup requests
  /\ requests' = {}
  /\ pend' = 0
  /\ IF requests # {} \/ pend # 0
       THEN Publish(state, cursor < InitialSteps + Cardinality(consumed'), 0)
       ELSE UNCHANGED status
  /\ UNCHANGED <<faults, state, flags, cursor, result, inbox, rec, app, reports>>

\* Mutant: the loop runs past the last step.
HasNextStepOffByOne == cursor <= Steps

HasNextStep == cursor < Steps

StartStep ==
  /\ rpc = "next" /\ HasNextStep /\ Undisturbed(None)
  /\ rpc' = "step"
  /\ cursor' = cursor + 1
  /\ Publish(state, TRUE, pend)
  /\ UNCHANGED <<faults, state, pend, flags, consumed, result, inbox, requests,
                 rec, app, reports>>

NoMoreSteps ==
  /\ rpc = "next" /\ ~HasNextStep /\ Undisturbed(None)
  /\ Leave
  /\ UNCHANGED <<faults, state, pend, flags, cursor, consumed, status, result,
                 inbox, requests, rec, app, reports>>

\* runSingleStep returns.  Under a version 1 contract a rejected acceptance
\* leaves the step's exit code alone; the gate stops the chain with an error.
StepEnd ==
  /\ rpc = "step" /\ Undisturbed(None)
  /\ \/ rpc' = "loop" /\ UNCHANGED flags
     \/ Leave /\ flags' = flags \cup {"stepFailed"}
     \/ /\ flags \cap {"stop", "timeout", "budget"} = {}
        /\ Leave
        /\ flags' = flags \cup {"gate"}
  /\ Publish(state, cursor < Steps, pend)
  /\ UNCHANGED <<faults, state, pend, cursor, consumed, result, inbox, requests,
                 rec, app, reports>>

\* The awaits of runSubagent, where timers, signals and the inbox get in.
Listening == rpc \in {"step", "sharing"} /\ Undisturbed(None)

HaltState == [stop |-> "stopped", timeout |-> "failed", interrupt |-> "paused"]

\* stopRunner, timeoutRunner, interruptRunner: only a running run is halted.
HaltRun(k) ==
  IF state = "running"
    THEN /\ flags' = flags \cup {k}
         /\ state' = HaltState[k]
         /\ Publish(HaltState[k], status.active, pend)
    ELSE UNCHANGED <<flags, state, status>>

\* check: stop goes before timeout goes before interrupt.
First(b) == IF "stop" \in b THEN "stop" ELSE IF "timeout" \in b THEN "timeout" ELSE "interrupt"

CheckInbox ==
  /\ Listening /\ inbox # {}
  /\ inbox' = {}
  /\ HaltRun(First(inbox))
  /\ UNCHANGED <<faults, rpc, pend, cursor, consumed, result, requests, rec, app, reports>>

\* The signal that follows the request file interrupts the runner at once.
InterruptSignal ==
  /\ Listening /\ "interrupt" \in inbox
  /\ inbox' = inbox \ {"interrupt"}
  /\ HaltRun("interrupt")
  /\ UNCHANGED <<faults, rpc, pend, cursor, consumed, result, requests, rec, app, reports>>

Deadline ==
  /\ Listening /\ state = "running"
  /\ HaltRun("timeout")
  /\ UNCHANGED <<faults, rpc, pend, cursor, consumed, result, inbox, requests,
                 rec, app, reports>>

\* updateStepTurnBudget aborts the child; status.json follows later.
ExceedBudget ==
  /\ rpc = "step" /\ Undisturbed(None)
  /\ flags \cap {"stop", "timeout", "budget"} = {}
  /\ flags' = flags \cup {"budget"}
  /\ UNCHANGED <<faults, rpc, state, pend, cursor, consumed, status, result, inbox,
                 requests, rec, app, reports>>

Verdict(failing) ==
  IF "stop" \in flags THEN "stopped"
  ELSE IF flags \cap failing # {} THEN "failed"
  ELSE IF "interrupt" \in flags THEN "paused"
  ELSE IF "stepFailed" \in flags THEN "failed" ELSE "complete"

\* Mutant: a timeout is forgotten when the run is wound up.
FinalStateForgettingTimeout == Verdict({"budget", "gate"})

\* The state of status.json: any error makes the run failed.
FinalState == Verdict({"timeout", "budget", "gate"})

\* The state of the result file: an acceptance gate does not count.
ResultState == Verdict({"timeout", "budget"})

Finalize ==
  /\ rpc \in {"sharing", "final"} /\ Undisturbed(None)
  /\ rpc' = "closed"
  /\ state' = FinalState
  /\ Publish(FinalState, cursor < Steps, pend)
  /\ UNCHANGED <<faults, pend, flags, cursor, consumed, result, inbox, requests,
                 rec, app, reports>>

WriteResult ==
  /\ rpc = "closed" /\ Undisturbed(None)
  /\ rpc' = "ended"
  /\ result' = [state |-> ResultState, by |-> "runner"]
  /\ UNCHANGED <<faults, state, pend, flags, cursor, consumed, status, inbox,
                 requests, rec, app, reports>>

\* The runner dies, or swallows the failure to write its result.
Die ==
  /\ rpc \notin {"ended", "dead"} /\ Undisturbed(None)
  /\ state = "running" \/ "lostFinal" \in faults
  /\ rpc' = "dead"
  /\ UNCHANGED <<faults, state, pend, flags, cursor, consumed, status, result,
                 inbox, requests, rec, app, reports>>

-----------------------------------------------------------------------------
(* The parent: control requests, and the result watcher.                   *)

\* deliverInterruptRequest, deliverTimeoutRequest, deliverStopRequest
Ask(k) ==
  /\ status # None /\ status.state = "running" /\ Undisturbed(None)
  /\ k \notin inbox
  /\ inbox' = inbox \cup {k}
  /\ UNCHANGED <<faults, runnerVars, status, result, requests, rec, app, reports>>

Deliver ==
  /\ result # None /\ Len(reports) < MaxReports /\ Undisturbed(None)
  /\ reports' = reports \o <<result>>
  /\ result' = None
  /\ UNCHANGED <<faults, runnerVars, status, inbox, requests, rec, app>>

-----------------------------------------------------------------------------
(* reconcileAsyncRun: three reads, then at most two writes.                *)

Goto(r, l, s) == rec' = [rec EXCEPT ![r] = [pc |-> l, snap |-> s]]

\* Mutant: a run without status.json is not looked at.
ReadStatusIfAny(r) ==
  /\ rec[r].pc = "idle" /\ Undisturbed(r) /\ status # None
  /\ Goto(r, "check", status)
  /\ UNCHANGED <<faults, runnerVars, status, result, inbox, requests, app, reports>>

ReadStatus(r) ==
  /\ rec[r].pc = "idle" /\ Undisturbed(r)
  /\ Goto(r, "check", IF status = None THEN StartedStatus ELSE status)
  /\ UNCHANGED <<faults, runnerVars, status, result, inbox, requests, app, reports>>

\* Mutant: whatever the state of the run, a missing result is repaired.
LooksActiveAlways(snap) == snap.state \in State

LooksActive(snap) == snap.state = "running"

\* An existing result decides the state (terminalStatusFromResult).
CheckResult(r) ==
  LET snap == rec[r].snap
  IN  /\ rec[r].pc = "check" /\ Undisturbed(r)
      /\ IF ~LooksActive(snap) THEN Goto(r, "idle", None)
         ELSE IF result = None THEN Goto(r, "probe", snap)
         ELSE Goto(r, "write", [snap EXCEPT !.state = result.state])
      /\ UNCHANGED <<faults, runnerVars, status, result, inbox, requests, app, reports>>

\* checkPidLiveness, or a live pid with a status older than staleAlivePidMs.
MayCallDead == rpc \in {"ended", "dead"} \/ "silent" \in faults

ProbePid(r) ==
  /\ rec[r].pc = "probe" /\ Undisturbed(r)
  /\ \/ MayCallDead /\ Goto(r, "repair", rec[r].snap)
     \/ rpc \notin {"ended", "dead"} /\ Goto(r, "idle", None)
  /\ UNCHANGED <<faults, runnerVars, status, result, inbox, requests, app, reports>>

\* writeFailedRepair: the result file goes before status.json.
WriteRepair(r) ==
  /\ rec[r].pc = "repair" /\ Undisturbed(r)
  /\ result' = [state |-> "failed", by |-> "repair"]
  /\ Goto(r, "write", [rec[r].snap EXCEPT !.state = "failed"])
  /\ UNCHANGED <<faults, runnerVars, status, inbox, requests, app, reports>>

WriteStatus(r) ==
  /\ rec[r].pc = "write" /\ Undisturbed(r)
  /\ status' = rec[r].snap
  /\ Goto(r, "idle", None)
  /\ UNCHANGED <<faults, runnerVars, result, inbox, requests, app, reports>>

\* The reconciling process dies half way.
AbandonRepair(r) ==
  /\ "abandon" \in faults /\ r \in Busy
  /\ Goto(r, "gone", None)
  /\ UNCHANGED <<faults, runnerVars, status, result, inbox, requests, app, reports>>

-----------------------------------------------------------------------------
(* enqueueChainAppendRequest: a read, then two writes.  A caller that dies  *)
(* half way is one that takes no further step.                             *)

AppGoto(a, l, s) == app' = [app EXCEPT ![a] = [pc |-> l, snap |-> s]]

\* Mutant: any running chain takes a step, whether or not it is in progress.
InProgressUnchecked(s) == s.state = "running"

InProgress(s) == s.state = "running" /\ (s.active \/ s.pend > 0)

Validate(a) ==
  /\ app[a].pc = "idle" /\ Undisturbed(a)
  /\ status # None /\ InProgress(status)
  /\ AppGoto(a, "write", status)
  /\ UNCHANGED <<faults, runnerVars, status, result, inbox, requests, rec, reports>>

WriteRequest(a) ==
  /\ app[a].pc = "write" /\ Undisturbed(a)
  /\ requests' = requests \cup {a}
  /\ AppGoto(a, "count", app[a].snap)
  /\ UNCHANGED <<faults, runnerVars, status, result, inbox, rec, reports>>

\* The status read before goes back into the file with the new count.
CountAndWriteBack(a) ==
  /\ app[a].pc = "count" /\ Undisturbed(a)
  /\ status' = [app[a].snap EXCEPT !.pend = Cardinality(requests)]
  /\ AppGoto(a, "accepted", None)
  /\ UNCHANGED <<faults, runnerVars, result, inbox, requests, rec, reports>>

-----------------------------------------------------------------------------

Run == \/ Start \/ Break \/ Consume \/ StartStep \/ NoMoreSteps \/ StepEnd
       \/ Finalize \/ WriteResult
Listen == CheckInbox \/ InterruptSignal \/ Deadline \/ ExceedBudget
Reconcile(r) == \/ ReadStatus(r) \/ CheckResult(r) \/ ProbePid(r)
                \/ WriteRepair(r) \/ WriteStatus(r)
AppendStep(a) == Validate(a) \/ WriteRequest(a) \/ CountAndWriteBack(a)

Next ==
  \/ Run \/ Listen \/ Die \/ Deliver
  \/ \E k \in Halt : Ask(k)
  \/ \E r \in Reconciler : Reconcile(r) \/ AbandonRepair(r)
  \/ \E a \in Appender : AppendStep(a)

Spec == Init /\ [][Next]_vars

(***************************************************************************)
(* Fairness.  Every child exits or is killed, so the runner keeps going;   *)
(* the parent polls the run and watches the results directory for as long  *)
(* as it lives, and not every reconciliation dies half way.  Steps that    *)
(* wait for another process's sequence to end (Undisturbed) get strong     *)
(* fairness: the operating system schedules them between two sequences.    *)
(***************************************************************************)
Fairness ==
  /\ SF_vars(Run)
  /\ SF_vars(Deliver)
  /\ \A r \in Reconciler : SF_vars(Reconcile(r))
  /\ \A a \in Appender : WF_vars(WriteRequest(a) \/ CountAndWriteBack(a))

FairSpec == Spec /\ Fairness

-----------------------------------------------------------------------------
(* Properties.                                                             *)

TypeOK ==
  /\ faults \in Faults
  /\ rpc \in {"starting", "loop", "next", "step", "sharing", "final", "closed",
              "ended", "dead"}
  /\ state \in State
  /\ pend \in 0 .. Cardinality(Appender)
  /\ flags \subseteq Flag
  /\ cursor \in 0 .. Steps
  /\ consumed \subseteq Appender
  /\ status \in Status \cup {None}
  /\ result \in Result \cup {None}
  /\ inbox \subseteq Halt
  /\ requests \subseteq Appender
  /\ rec \in [Reconciler -> [pc : {"idle", "check", "probe", "repair", "write", "gone"},
                             snap : Status \cup {None}]]
  /\ app \in [Appender -> [pc : {"idle", "write", "count", "accepted"},
                         snap : Status \cup {None}]]
  /\ reports \in Seq(Result) /\ Len(reports) <= MaxReports

\* Outside the races and the 24-hour rule, after which a report may be untrue.
Orderly == faults \cap {"race", "abandon", "silent"} = {}

\* The parent session is told the outcome of a run at most once: a repair by
\* reconcileAsyncRun and the runner's own result never both reach the watcher,
\* nor do two repairs by different processes.
OneReport == Orderly => Len(reports) <= 1

\* The message of a repair is true: a run is reported as gone before writing
\* a result only when its runner has not written one and never will.
Repaired == \E i \in DOMAIN reports : reports[i].by = "repair"
TrueReport == Orderly /\ Repaired => rpc = "dead"

\* status.json and the report agree on the outcome, except for a chain stopped
\* by an acceptance gate: its status is failed, while the result file speaks
\* of the steps alone.
StatusAgrees ==
  Orderly /\ Busy = {} /\ "gate" \notin flags =>
    \A i \in DOMAIN reports : status.state = reports[i].state

\* What a parent session is told of a run is so, and is told once.
Reported == OneReport /\ TrueReport /\ StatusAgrees

\* A step that append-step has accepted is run before the chain is complete.
Accepted == {a \in Appender : app[a].pc = "accepted"}
AcceptedAppendRuns ==
  "race" \notin faults /\ status # None /\ status.state = "complete"
    => Accepted \subseteq consumed

\* A final state in status.json stays: the run is not resurrected, and the
\* state a stop, a timeout or an interrupt has announced is the one it ends
\* with.  A pause alone may still turn into a failure, when the interrupted
\* step runs out of its turn budget or is rejected by its gate.
FinalIsFinal ==
  [][ Orderly /\ status # None /\ status.state \in Final
        => \/ status'.state = status.state
           \/ /\ status.state = "paused" /\ status'.state = "failed"
              /\ flags' \cap {"budget", "gate"} # {} ]_vars

\* A run that ends, in whatever way, is reported to its parent: by the runner,
\* or by a repair of what the runner left when it died while running.
EventuallyReported ==
  "lostFinal" \notin faults =>
    <>(reports # <<>> \/ \A r \in Reconciler : rec[r].pc = "gone")

\* stale-run-reconciler.ts: "exited or disappeared before writing a result".
RepairedOnlyWithoutResult == Repaired => rpc # "ended"

\* README: "completed, failed, paused, ... runs reject appends": an append
\* leaves the status of a run that is over as it is.
AppendLeavesFinal ==
  [][ \A a \in Appender :
        CountAndWriteBack(a) /\ status.state \in Final => status'.state = status.state ]_vars
=============================================================================
