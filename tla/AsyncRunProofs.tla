--------------------------- MODULE AsyncRunProofs ---------------------------
(***************************************************************************)
(* Proofs about AsyncRun for any reconcilers, append calls, initial steps  *)
(* and faults.  The inductive invariant IInv has three layers: what holds  *)
(* always (types, and what the flags of the runner say of its state), what *)
(* holds while no process runs between two file operations of another      *)
(* (whoever has read status.json still sees it), and what holds when in    *)
(* addition nobody is declared dead that is not.                           *)
(***************************************************************************)
EXTENDS AsyncRun, FiniteSetTheorems, TLAPS

\* Nobody runs between two file operations of another process.
Serial == "race" \notin faults

Over == rpc \in {"closed", "ended", "dead"}

-----------------------------------------------------------------------------
(* Always.                                                                 *)

SnapsAreTyped ==
  /\ \A r \in Reconciler : rec[r].pc \notin {"idle", "gone"} => rec[r].snap \in Status
  /\ \A a \in Appender : app[a].pc \in {"write", "count"} => app[a].snap \in Status

\* The first stop, timeout or interrupt decides the state, and no other is heard.
HaltIsState ==
  ~Over => \/ state = "running" /\ flags \cap Halt = {}
           \/ \E k \in Halt : state = HaltState[k] /\ flags \cap Halt = {k}

StatusIsThere == status = None => rpc \in {"starting", "dead"}

NothingPending == pend = 0
StartsAtTheFirstStep == rpc = "starting" => cursor = 0 /\ state = "running"

\* Only the runner speaks of a completed run, and only after it has ended.
ResultIsByItsWriter ==
  result # None => \/ result.by = "runner" /\ rpc = "ended"
                   \/ result.by = "repair" /\ result.state = "failed"

\* A request that has been written waits or is in the chain.
RequestIsKept ==
  \A a \in Appender : app[a].pc \in {"count", "accepted"} => a \in consumed \cup requests

Always ==
  /\ TypeOK /\ SnapsAreTyped /\ HaltIsState /\ StatusIsThere
  /\ NothingPending /\ StartsAtTheFirstStep /\ ResultIsByItsWriter /\ RequestIsKept

-----------------------------------------------------------------------------
(* While file operations of different processes do not mix.                *)

Alone == \A p, q \in Busy : p = q

\* What a reader of status.json takes it for.
Seen == IF status = None THEN StartedStatus ELSE status

RecSees ==
  \A r \in Reconciler :
    /\ rec[r].pc \in {"check", "probe", "repair"} => rec[r].snap = Seen
    /\ rec[r].pc \in {"probe", "repair"} => Seen.state = "running" /\ result = None
    /\ rec[r].pc = "write" =>
         /\ Seen.state = "running" /\ result # None
         /\ rec[r].snap = [Seen EXCEPT !.state = result.state]

AppSees ==
  \A a \in Appender :
    /\ app[a].pc \in {"write", "count"} =>
         status # None /\ app[a].snap = status /\ InProgress(status)
    /\ app[a].pc = "count" => a \in requests

\* The runner leaves its loop for want of a step: nothing is accepted any more.
NoStepLeft == (rpc = "next" /\ cursor >= Steps) \/ (rpc \in {"sharing", "final"} /\ flags = {})
ChainIsWoundUp == NoStepLeft => ~status.active /\ status.pend = 0 /\ requests = {}

\* status.json promises a step only if there is one, or a request for one.
ActiveIsTrue ==
  /\ rpc \in {"loop", "next"} /\ status.active => cursor < Steps
  /\ rpc = "loop" /\ status.pend > 0 => requests # {}

FinalIsPublished == rpc \in {"closed", "ended"} => status.state = FinalState

CompleteIsOver ==
  status # None /\ status.state = "complete" => Over /\ Accepted \subseteq consumed

WhileSerial == Serial =>
  /\ Alone /\ RecSees /\ AppSees
  /\ ChainIsWoundUp /\ ActiveIsTrue /\ FinalIsPublished /\ CompleteIsOver

-----------------------------------------------------------------------------
(* While, in addition, nobody that lives is declared dead and no repair is *)
(* abandoned.                                                              *)

Writing == \E r \in Reconciler : rec[r].pc = "write"

\* What the runner knows of its state is what status.json says.
StatusIsState ==
  /\ rpc = "starting" => status = None
  /\ rpc # "dead" /\ status # None => status.state = state

\* The outcome o has been written for the watcher to find.
Truthful(o) ==
  \/ o.by = "runner" /\ rpc = "ended" /\ o.state = ResultState
  \/ /\ o.by = "repair" /\ rpc = "dead" /\ o.state = "failed"
     /\ Writing \/ (status # None /\ status.state = "failed")
OutcomeIsTrue ==
  /\ result # None => Truthful(result) /\ reports = <<>>
  /\ Len(reports) <= 1
  /\ reports # <<>> => Truthful(reports[1]) /\ ~Writing

RepairsTheDead == \A r \in Reconciler : rec[r].pc = "repair" => rpc = "dead"

WhileOrderly == Orderly => StatusIsState /\ OutcomeIsTrue /\ RepairsTheDead

IInv == Always /\ WhileSerial /\ WhileOrderly

-----------------------------------------------------------------------------
(* Lemmas about the counts.                                                *)

LEMMA Counts ==
  /\ Cardinality(Appender) \in Nat
  /\ \A S \in SUBSET Appender :
       /\ IsFiniteSet(S) /\ Cardinality(S) \in 0 .. Cardinality(Appender)
       /\ S # {} => Cardinality(S) > 0
  /\ \A S \in SUBSET Appender : \A T \in SUBSET S : Cardinality(T) <= Cardinality(S)
<1>1. Cardinality(Appender) \in Nat
  BY ProcessesAssumption, FS_CardinalityType
<1>2. ASSUME NEW S \in SUBSET Appender
      PROVE  IsFiniteSet(S) /\ Cardinality(S) \in Nat /\ Cardinality(S) <= Cardinality(Appender)
  BY ProcessesAssumption, FS_Subset, FS_CardinalityType
<1>3. ASSUME NEW S \in SUBSET Appender, S # {} PROVE Cardinality(S) > 0
  BY <1>2, <1>3, FS_EmptySet
<1>4. ASSUME NEW S \in SUBSET Appender, NEW T \in SUBSET S PROVE Cardinality(T) <= Cardinality(S)
  BY <1>2, FS_Subset
<1> QED
  BY <1>1, <1>2, <1>3, <1>4

LEMMA StepsCount ==
  ASSUME NEW C \in SUBSET Appender, NEW D \in SUBSET Appender, C \subseteq D
  PROVE  /\ InitialSteps + Cardinality(C) \in Nat
         /\ InitialSteps + Cardinality(C) >= 1
         /\ InitialSteps + Cardinality(C) <= InitialSteps + Cardinality(D)
<1>1. Cardinality(C) \in Nat /\ Cardinality(D) \in Nat /\ Cardinality(C) <= Cardinality(D)
  BY Counts
<1> QED
  BY <1>1, StepsAssumption

\* The run starts with nothing written, asked or appended.
LEMMA InitIInv == Init => IInv
<1> SUFFICES ASSUME Init PROVE IInv
  OBVIOUS
<1> USE DEF Init
<1>1. TypeOK
  <2>1. cursor \in 0 .. Steps
    BY StepsCount DEF Steps
  <2>2. pend \in 0 .. Cardinality(Appender)
    BY Counts
  <2>3. reports \in Seq(Result) /\ Len(reports) <= MaxReports
    BY ReportsAssumption
  <2> QED
    BY <2>1, <2>2, <2>3, FaultsAssumption DEF TypeOK, State, Flag
<1>2. Always
  BY <1>1 DEF Always, SnapsAreTyped, HaltIsState, StatusIsThere, NothingPending, StartsAtTheFirstStep,
              ResultIsByItsWriter, RequestIsKept
<1>3. WhileSerial
  BY DEF WhileSerial, Alone, Busy, RecSees, AppSees, ChainIsWoundUp, NoStepLeft, ActiveIsTrue,
         FinalIsPublished, CompleteIsOver
<1>4. WhileOrderly
  BY DEF WhileOrderly, StatusIsState, OutcomeIsTrue, RepairsTheDead
<1> QED
  BY <1>2, <1>3, <1>4 DEF IInv

-----------------------------------------------------------------------------
(* What holds always.                                                      *)

LEMMA StatusType ==
  /\ \A s \in State, a \in BOOLEAN, p \in 0 .. Cardinality(Appender) :
       [state |-> s, active |-> a, pend |-> p] \in Status
  /\ StartedStatus \in Status /\ StartedStatus.state = "running"
  /\ \A s \in Status, t \in State : [s EXCEPT !.state = t] \in Status
  /\ \A s \in Status, S \in SUBSET Appender : [s EXCEPT !.pend = Cardinality(S)] \in Status
  /\ None \notin Status /\ None \notin Result
<1>1. StartedStatus \in Status /\ StartedStatus.state = "running"
  BY Counts DEF StartedStatus, Status, State
<1>2. \A s \in Status, S \in SUBSET Appender : [s EXCEPT !.pend = Cardinality(S)] \in Status
  BY Counts DEF Status
<1> QED
  BY <1>1, <1>2, NoneAssumption DEF Status

LEMMA VerdictType == FinalState \in Final /\ ResultState \in Final
BY DEF FinalState, ResultState, Verdict, Final

\* The runner's own variables.
LEMMA RunnerTypes ==
  ASSUME TypeOK, Next
  PROVE  /\ faults' \in Faults
         /\ rpc' \in {"starting", "loop", "next", "step", "sharing", "final", "closed",
                      "ended", "dead"}
         /\ state' \in State /\ flags' \subseteq Flag
         /\ consumed \subseteq consumed' /\ consumed' \subseteq consumed \cup requests
         /\ requests' \subseteq Appender /\ inbox' \subseteq Halt
         /\ consumed \cup requests \subseteq consumed' \cup requests'
<1> USE DEF TypeOK
<1>1. CASE Run
  BY <1>1, VerdictType DEF Run, Start, Break, Leave, Consume, StartStep, NoMoreSteps, StepEnd, Finalize,
             WriteResult, State, Flag
<1>2. CASE Listen
  BY <1>2 DEF Listen, CheckInbox, InterruptSignal, Deadline, ExceedBudget, HaltRun, HaltState,
              First, State, Final, Flag, Halt
<1>3. CASE Die \/ Deliver \/ \E k \in Halt : Ask(k)
  BY <1>3 DEF Die, Deliver, Ask, runnerVars
<1>4. CASE \E r \in Reconciler : Reconcile(r) \/ AbandonRepair(r)
  BY <1>4 DEF Reconcile, ReadStatus, CheckResult, ProbePid, WriteRepair, WriteStatus, AbandonRepair,
              runnerVars
<1>5. CASE \E a \in Appender : AppendStep(a)
  BY <1>5 DEF AppendStep, Validate, WriteRequest, CountAndWriteBack, runnerVars
<1> QED
  BY <1>1, <1>2, <1>3, <1>4, <1>5 DEF Next

\* The counts: no step is started that is not there, and no pending append is
\* left to the runner.
LEMMA CountersStep ==
  ASSUME TypeOK, NothingPending, Next
  PROVE  cursor' \in 0 .. Steps' /\ pend' = 0 /\ Steps' \in Nat /\ Steps <= Steps' /\ Steps \in Nat
<1>1. Steps \in Nat /\ Steps' \in Nat /\ Steps <= Steps'
  <2>1. consumed \subseteq consumed' /\ consumed' \subseteq Appender
    BY RunnerTypes DEF TypeOK
  <2> QED
    BY <2>1, StepsCount DEF Steps
<1>2. pend' = 0
  <2>1. CASE Run
    BY <2>1 DEF NothingPending, Run, Start, Break, Consume, StartStep, NoMoreSteps, StepEnd, Finalize,
                WriteResult
  <2>2. CASE Listen \/ Die \/ Deliver
    BY <2>2 DEF NothingPending, Listen, CheckInbox, InterruptSignal, Deadline, ExceedBudget, Die,
                Deliver, runnerVars
  <2>3. CASE (\E k \in Halt : Ask(k)) \/ \E a \in Appender : AppendStep(a)
    BY <2>3 DEF NothingPending, Ask, AppendStep, Validate, WriteRequest, CountAndWriteBack, runnerVars
  <2>4. CASE \E r \in Reconciler : Reconcile(r) \/ AbandonRepair(r)
    BY <2>4 DEF NothingPending, Reconcile, ReadStatus, CheckResult, ProbePid, WriteRepair, WriteStatus,
                AbandonRepair, runnerVars
  <2> QED
    BY <2>1, <2>2, <2>3, <2>4 DEF Next
<1>3. cursor' = cursor \/ (cursor' = cursor + 1 /\ cursor < Steps)
  <2>1. CASE Run
    BY <2>1 DEF Run, Start, Break, Consume, StartStep, HasNextStep, NoMoreSteps, StepEnd, Finalize,
                WriteResult
  <2>2. CASE Listen \/ Die \/ Deliver
    BY <2>2 DEF Listen, CheckInbox, InterruptSignal, Deadline, ExceedBudget, Die, Deliver, runnerVars
  <2>3. CASE (\E k \in Halt : Ask(k)) \/ \E a \in Appender : AppendStep(a)
    BY <2>3 DEF Ask, AppendStep, Validate, WriteRequest, CountAndWriteBack, runnerVars
  <2>4. CASE \E r \in Reconciler : Reconcile(r) \/ AbandonRepair(r)
    BY <2>4 DEF Reconcile, ReadStatus, CheckResult, ProbePid, WriteRepair, WriteStatus, AbandonRepair,
                runnerVars
  <2> QED
    BY <2>1, <2>2, <2>3, <2>4 DEF Next
<1>4. cursor' \in 0 .. Steps'
  BY <1>1, <1>3 DEF TypeOK
<1> QED
  BY <1>1, <1>2, <1>4

\* What the processes have read, and the files.
FilesAreTyped ==
  /\ status \in Status \cup {None} /\ result \in Result \cup {None}
  /\ rec \in [Reconciler -> [pc : {"idle", "check", "probe", "repair", "write", "gone"},
                             snap : Status \cup {None}]]
  /\ app \in [Appender -> [pc : {"idle", "write", "count", "accepted"},
                         snap : Status \cup {None}]]
  /\ reports \in Seq(Result) /\ Len(reports) <= MaxReports

LEMMA GotoType ==
  ASSUME FilesAreTyped, SnapsAreTyped, NEW r \in Reconciler,
         NEW l \in {"idle", "check", "probe", "repair", "write", "gone"},
         NEW s \in Status \cup {None}, l \notin {"idle", "gone"} => s \in Status, Goto(r, l, s)
  PROVE  /\ rec' \in [Reconciler -> [pc : {"idle", "check", "probe", "repair", "write", "gone"},
                                     snap : Status \cup {None}]]
         /\ \A q \in Reconciler : rec'[q].pc \notin {"idle", "gone"} => rec'[q].snap \in Status
         /\ rec'[r].pc = l /\ rec'[r].snap = s
         /\ \A q \in Reconciler \ {r} : rec'[q] = rec[q]
BY DEF Goto, FilesAreTyped, SnapsAreTyped

LEMMA AppGotoType ==
  ASSUME FilesAreTyped, SnapsAreTyped, NEW a \in Appender,
         NEW l \in {"idle", "write", "count", "accepted"},
         NEW s \in Status \cup {None}, l \in {"write", "count"} => s \in Status, AppGoto(a, l, s)
  PROVE  /\ app' \in [Appender -> [pc : {"idle", "write", "count", "accepted"},
                                 snap : Status \cup {None}]]
         /\ \A b \in Appender : app'[b].pc \in {"write", "count"} => app'[b].snap \in Status
         /\ app'[a].pc = l /\ app'[a].snap = s
         /\ \A b \in Appender \ {a} : app'[b] = app[b]
BY DEF AppGoto, FilesAreTyped, SnapsAreTyped

LEMMA FilesStep ==
  ASSUME TypeOK, SnapsAreTyped, NothingPending, StatusIsThere, Next
  PROVE  FilesAreTyped' /\ SnapsAreTyped' /\ status' \in Status \cup {status}
<1>1. FilesAreTyped
  BY DEF TypeOK, FilesAreTyped
<1>2. 0 \in 0 .. Cardinality(Appender) /\ pend = 0 /\ state \in State
  BY Counts DEF NothingPending, TypeOK
<1>3. \A s \in State, a \in BOOLEAN : Publish(s, a, 0) => status' \in Status
  BY <1>2, StatusType DEF Publish
<1> USE DEF FilesAreTyped, SnapsAreTyped
<1>4. CASE Run
  <2>1. UNCHANGED <<rec, app, reports>>
    BY <1>4 DEF Run, Start, Break, Consume, StartStep, NoMoreSteps, StepEnd, Finalize, WriteResult
  <2>2. result' \in Result \cup {None}
    <3>1. [state |-> ResultState, by |-> "runner"] \in Result
      BY VerdictType DEF Result
    <3> QED
      BY <1>1, <1>4, <3>1 DEF Run, Start, Break, Consume, StartStep, NoMoreSteps, StepEnd, Finalize,
                              WriteResult
  <2>3. status' \in Status \cup {status}
    <3>1. "running" \in State /\ FinalState \in State
      BY VerdictType DEF State
    <3>2. cursor \in Int /\ Steps \in Int
      BY CountersStep DEF TypeOK
    <3>3. CASE Start \/ Break \/ NoMoreSteps \/ WriteResult
      BY <1>1, <1>3, <3>1, <3>3 DEF Start, Break, NoMoreSteps, WriteResult
    <3>4. CASE StartStep \/ StepEnd \/ Finalize
      <4>1. CASE StartStep
        BY <1>2, <4>1 DEF StartStep, Publish, Status
      <4>2. CASE StepEnd
        BY <1>2, <4>2 DEF StepEnd, Publish, Status
      <4>3. CASE Finalize
        BY <1>2, <3>1, <4>3 DEF Finalize, Publish, Status
      <4> QED
        BY <3>4, <4>1, <4>2, <4>3
    <3>5. CASE Consume
      <4> DEFINE more == cursor < InitialSteps + Cardinality(consumed')
      <4>1. more \in BOOLEAN
        OBVIOUS
      <4>2. UNCHANGED status \/ status' = [state |-> state, active |-> more, pend |-> 0]
        BY <3>5 DEF Consume, Publish
      <4> HIDE DEF more
      <4> QED
        BY <1>1, <1>2, <4>1, <4>2 DEF Status
    <3> QED
      BY <1>4, <3>3, <3>4, <3>5 DEF Run
  <2> QED
    BY <1>1, <2>1, <2>2, <2>3
<1>5. CASE Listen
  <2>1. UNCHANGED <<rec, app, reports, result>>
    BY <1>5 DEF Listen, CheckInbox, InterruptSignal, Deadline, ExceedBudget
  <2>2. \A k \in Halt : HaltRun(k) => status' \in Status \cup {status}
    <3>1. SUFFICES ASSUME NEW k \in Halt, HaltRun(k), Listening, state = "running"
                   PROVE  status' \in Status
      BY <1>1, <1>5 DEF HaltRun, Listen, CheckInbox, InterruptSignal, Deadline, ExceedBudget
    <3>2. status \in Status
      BY <1>1, <3>1 DEF StatusIsThere, Listening
    <3>3. HaltState[k] \in State /\ status.active \in BOOLEAN
      BY <3>2 DEF HaltState, Halt, State, Final, Status
    <3> QED
      BY <1>2, <1>3, <3>1, <3>3 DEF HaltRun
  <2>3. CASE \E k \in Halt : HaltRun(k)
    BY <1>1, <2>1, <2>2, <2>3
  <2>4. CASE UNCHANGED status
    BY <1>1, <2>1, <2>4
  <2> QED
    BY <1>5, <2>3, <2>4 DEF Listen, CheckInbox, InterruptSignal, Deadline, ExceedBudget, First, Halt
<1>6. CASE Die \/ \E k \in Halt : Ask(k)
  BY <1>1, <1>6 DEF Die, Ask
<1>7. CASE Deliver
  <2>1. result \in Result
    BY <1>1, <1>7 DEF Deliver
  <2>2. reports' \in Seq(Result) /\ Len(reports') = Len(reports) + 1
    BY <1>1, <1>7, <2>1 DEF Deliver
  <2>3. Len(reports) < MaxReports /\ Len(reports) \in Nat
    BY <1>1, <1>7 DEF Deliver
  <2> QED
    BY <1>1, <1>7, <2>2, <2>3, ReportsAssumption DEF Deliver
<1>8. ASSUME NEW r \in Reconciler, Reconcile(r) \/ AbandonRepair(r)
      PROVE  FilesAreTyped' /\ SnapsAreTyped' /\ status' \in Status \cup {status}
  <2>1. UNCHANGED <<app, reports>>
    BY <1>8 DEF Reconcile, ReadStatus, CheckResult, ProbePid, WriteRepair, WriteStatus, AbandonRepair
  <2>2. ASSUME NEW s \in Status \cup {None}, Goto(r, "idle", None) \/ Goto(r, "gone", None)
                 \/ (s \in Status
                      /\ \E l \in {"check", "probe", "repair", "write"} : Goto(r, l, s))
        PROVE  /\ rec' \in [Reconciler -> [pc : {"idle", "check", "probe", "repair", "write", "gone"},
                                     snap : Status \cup {None}]]
               /\ \A q \in Reconciler : rec'[q].pc \notin {"idle", "gone"} => rec'[q].snap \in Status
    BY <1>1, <2>2, GotoType
  <2>3. CASE ReadStatus(r)
    BY <1>1, <2>1, <2>2, <2>3, StatusType DEF ReadStatus
  <2>4. CASE CheckResult(r)
    <3>1. rec[r].snap \in Status
      BY <1>1, <2>4 DEF CheckResult
    <3>2. result # None => [rec[r].snap EXCEPT !.state = result.state] \in Status
      BY <1>1, <3>1, StatusType DEF Result, State
    <3> QED
      BY <1>1, <2>1, <2>2, <2>4, <3>1, <3>2 DEF CheckResult
  <2>5. CASE ProbePid(r)
    <3>1. rec[r].snap \in Status
      BY <1>1, <2>5 DEF ProbePid
    <3> QED
      BY <1>1, <2>1, <2>2, <2>5, <3>1 DEF ProbePid
  <2>6. CASE WriteRepair(r)
    <3>1. rec[r].snap \in Status
      BY <1>1, <2>6 DEF WriteRepair
    <3>2. [rec[r].snap EXCEPT !.state = "failed"] \in Status
      BY <3>1, StatusType DEF State, Final
    <3>3. result' \in Result
      BY <2>6 DEF WriteRepair, Result, Final
    <3> QED
      BY <1>1, <2>1, <2>2, <2>6, <3>2, <3>3 DEF WriteRepair
  <2>7. CASE WriteStatus(r)
    <3>1. rec[r].snap \in Status
      BY <1>1, <2>7 DEF WriteStatus
    <3> QED
      BY <1>1, <2>1, <2>2, <2>7, <3>1 DEF WriteStatus
  <2>8. CASE AbandonRepair(r)
    BY <1>1, <2>1, <2>2, <2>8 DEF AbandonRepair
  <2> QED
    BY <1>8, <2>3, <2>4, <2>5, <2>6, <2>7, <2>8 DEF Reconcile
<1>9. ASSUME NEW a \in Appender, AppendStep(a) PROVE FilesAreTyped' /\ SnapsAreTyped' /\ status' \in Status \cup {status}
  <2>1. UNCHANGED <<rec, reports, result>>
    BY <1>9 DEF AppendStep, Validate, WriteRequest, CountAndWriteBack
  <2>2. CASE Validate(a)
    BY <1>1, <2>1, <2>2, AppGotoType DEF Validate
  <2>3. CASE WriteRequest(a)
    BY <1>1, <2>1, <2>3, AppGotoType DEF WriteRequest
  <2>4. CASE CountAndWriteBack(a)
    <3>1. status' \in Status
      BY <1>1, <2>4, StatusType DEF CountAndWriteBack, TypeOK
    <3> QED
      BY <1>1, <2>1, <2>4, <3>1, AppGotoType DEF CountAndWriteBack
  <2> QED
    BY <1>9, <2>2, <2>3, <2>4 DEF AppendStep
<1> QED
  BY <1>4, <1>5, <1>6, <1>7, <1>8, <1>9 DEF Next

\* status.json, once written, is replaced and never taken away.
LEMMA ThereStep ==
  ASSUME TypeOK, SnapsAreTyped, NothingPending, StatusIsThere, Next PROVE StatusIsThere'
<1>1. status' = None => status = None
  BY FilesStep, StatusType
<1>2. rpc = "starting" => rpc' \in {"starting", "dead"} \/ Start
  BY DEF Next, Run, Break, Consume, StartStep, NoMoreSteps, StepEnd, Finalize, WriteResult, Listen,
         Listening, CheckInbox, InterruptSignal, Deadline, ExceedBudget, Die, Deliver, Ask, Reconcile,
         ReadStatus, CheckResult, ProbePid, WriteRepair, WriteStatus, AbandonRepair, AppendStep,
         Validate, WriteRequest, CountAndWriteBack, runnerVars
<1>3. rpc = "dead" => rpc' = "dead"
  BY DEF Next, Run, Start, Break, Consume, StartStep, NoMoreSteps, StepEnd, Finalize, WriteResult,
         Listen, Listening, CheckInbox, InterruptSignal, Deadline, ExceedBudget, Die, Deliver, Ask,
         Reconcile, ReadStatus, CheckResult, ProbePid, WriteRepair, WriteStatus, AbandonRepair,
         AppendStep, Validate, WriteRequest, CountAndWriteBack, runnerVars
<1>4. Start => status' # None
  <2>1. [state |-> "running", active |-> TRUE, pend |-> 0] \in Status
    BY Counts DEF State, Status
  <2> QED
    BY <2>1, StatusType DEF Start, Publish
<1> QED
  BY <1>1, <1>2, <1>3, <1>4 DEF StatusIsThere

\* Only a running run is halted, and the first halt gives the state until the
\* run is wound up.
LEMMA HaltStep == ASSUME TypeOK, HaltIsState, Next PROVE HaltIsState'
<1>1. CASE Run
  <2>1. Over' \/ (~Over /\ state' = state /\ flags' \cap Halt = flags \cap Halt)
    BY <1>1 DEF Run, Start, Break, Leave, Consume, StartStep, NoMoreSteps, StepEnd, Finalize,
                WriteResult, Halt, Over
  <2> QED
    BY <2>1 DEF HaltIsState
<1>2. CASE Listen
  <2>1. ~Over /\ ~Over'
    BY <1>2 DEF Listen, Listening, CheckInbox, InterruptSignal, Deadline, ExceedBudget, Over
  <2>2. CASE \E k \in Halt : HaltRun(k)
    BY <2>1, <2>2 DEF HaltRun, HaltIsState, HaltState, Halt
  <2>3. CASE UNCHANGED state /\ flags' \cap Halt = flags \cap Halt
    BY <2>1, <2>3 DEF HaltIsState
  <2>4. \/ \E k \in Halt : HaltRun(k)
        \/ UNCHANGED state /\ flags' \cap Halt = flags \cap Halt
    BY <1>2 DEF Listen, CheckInbox, InterruptSignal, Deadline, ExceedBudget, First, Halt
  <2> QED
    BY <2>2, <2>3, <2>4
<1>3. CASE UNCHANGED <<rpc, state, flags>> \/ Die
  BY <1>3 DEF HaltIsState, Over, Die
<1>4. CASE Deliver \/ \E k \in Halt : Ask(k)
  BY <1>3, <1>4 DEF Deliver, Ask, runnerVars
<1>5. CASE \E r \in Reconciler : Reconcile(r) \/ AbandonRepair(r)
  BY <1>3, <1>5 DEF Reconcile, ReadStatus, CheckResult, ProbePid, WriteRepair, WriteStatus,
                    AbandonRepair, runnerVars
<1>6. CASE \E a \in Appender : AppendStep(a)
  BY <1>3, <1>6 DEF AppendStep, Validate, WriteRequest, CountAndWriteBack, runnerVars
<1> QED
  BY <1>1, <1>2, <1>3, <1>4, <1>5, <1>6 DEF Next

LEMMA FirstStepStep == ASSUME StartsAtTheFirstStep, Next PROVE StartsAtTheFirstStep'
<1>1. rpc' = "starting" => rpc = "starting" /\ UNCHANGED <<cursor, state>>
  BY DEF Next, Run, Start, Break, Leave, Consume, StartStep, NoMoreSteps, StepEnd, Finalize,
         WriteResult, Listen, Listening, CheckInbox, InterruptSignal, Deadline, ExceedBudget, Die,
         Deliver, Ask, Reconcile, ReadStatus, CheckResult, ProbePid, WriteRepair, WriteStatus,
         AbandonRepair, AppendStep, Validate, WriteRequest, CountAndWriteBack, runnerVars
<1> QED
  BY <1>1 DEF StartsAtTheFirstStep

\* The runner writes the last result of its life.
LEMMA WriterStep == ASSUME ResultIsByItsWriter, Next PROVE ResultIsByItsWriter'
<1> USE DEF ResultIsByItsWriter
<1>1. CASE Run
  <2>1. CASE WriteResult
    BY <2>1 DEF WriteResult
  <2>2. CASE ~WriteResult
    <3>1. UNCHANGED result /\ rpc # "ended"
      BY <1>1, <2>2 DEF Run, Start, Break, Consume, StartStep, NoMoreSteps, StepEnd, Finalize
    <3> QED
      BY <3>1
  <2> QED
    BY <2>1, <2>2
<1>2. CASE Listen
  BY <1>2 DEF Listen, CheckInbox, InterruptSignal, Deadline, ExceedBudget
<1>3. CASE Die \/ Deliver \/ \E k \in Halt : Ask(k)
  BY <1>3 DEF Die, Deliver, Ask, runnerVars
<1>4. CASE \E r \in Reconciler : Reconcile(r) \/ AbandonRepair(r)
  BY <1>4 DEF Reconcile, ReadStatus, CheckResult, ProbePid, WriteRepair, WriteStatus, AbandonRepair,
              runnerVars
<1>5. CASE \E a \in Appender : AppendStep(a)
  BY <1>5 DEF AppendStep, Validate, WriteRequest, CountAndWriteBack, runnerVars
<1> QED
  BY <1>1, <1>2, <1>3, <1>4, <1>5 DEF Next

\* A request is not lost between its file and the chain.
LEMMA RequestStep == ASSUME TypeOK, RequestIsKept, Next PROVE RequestIsKept'
<1>1. consumed \cup requests \subseteq consumed' \cup requests'
  BY RunnerTypes
<1>2. ASSUME NEW a \in Appender, app'[a].pc \in {"count", "accepted"}
      PROVE  app[a].pc \in {"count", "accepted"} \/ a \in requests'
  <2>1. CASE UNCHANGED app
    BY <1>2, <2>1
  <2>2. ASSUME NEW b \in Appender, AppendStep(b)
        PROVE  app[a].pc \in {"count", "accepted"} \/ a \in requests'
    BY <1>2, <2>2 DEF AppendStep, Validate, WriteRequest, CountAndWriteBack, AppGoto, TypeOK
  <2>3. UNCHANGED app \/ \E b \in Appender : AppendStep(b)
    BY DEF Next, Run, Start, Break, Consume, StartStep, NoMoreSteps, StepEnd, Finalize, WriteResult,
           Listen, CheckInbox, InterruptSignal, Deadline, ExceedBudget, Die, Deliver, Ask, Reconcile,
           ReadStatus, CheckResult, ProbePid, WriteRepair, WriteStatus, AbandonRepair
  <2> QED
    BY <2>1, <2>2, <2>3
<1> QED
  BY <1>1, <1>2 DEF RequestIsKept

LEMMA AlwaysStep == ASSUME Always, Next PROVE Always'
<1> USE DEF Always
<1>1. FilesAreTyped' /\ SnapsAreTyped'
  BY FilesStep
<1>2. TypeOK'
  <2>1. consumed' \subseteq Appender
    BY RunnerTypes DEF TypeOK
  <2>2. pend' \in 0 .. Cardinality(Appender)
    BY CountersStep, Counts
  <2> QED
    BY <1>1, <2>1, <2>2, CountersStep, RunnerTypes DEF FilesAreTyped, TypeOK
<1>3. NothingPending'
  BY CountersStep DEF NothingPending
<1> QED
  BY <1>1, <1>2, <1>3, ThereStep, HaltStep, FirstStepStep, WriterStep, RequestStep

-----------------------------------------------------------------------------
(* While file operations of different processes do not mix.                *)

\* The steps of the runner and of the parent, and those of other processes.
OfRunner == Run \/ Listen \/ Die \/ Deliver \/ \E k \in Halt : Ask(k)

LEMMA RunnerFrame == ASSUME OfRunner PROVE Undisturbed(None) /\ UNCHANGED <<faults, rec, app>>
BY DEF OfRunner, Run, Start, Break, Consume, StartStep, NoMoreSteps, StepEnd, Finalize, WriteResult,
       Listen, Listening, CheckInbox, InterruptSignal, Deadline, ExceedBudget, Die, Deliver, Ask,
       runnerVars

LEMMA ReconcilerFrame ==
  ASSUME NEW r \in Reconciler, Reconcile(r) \/ AbandonRepair(r)
  PROVE  UNCHANGED <<faults, rpc, state, pend, flags, cursor, consumed, inbox, requests, app, reports>>
BY DEF Reconcile, ReadStatus, CheckResult, ProbePid, WriteRepair, WriteStatus, AbandonRepair,
       runnerVars

LEMMA AppenderFrame ==
  ASSUME NEW a \in Appender, AppendStep(a)
  PROVE  /\ UNCHANGED <<faults, rpc, state, pend, flags, cursor, consumed, result, inbox, rec, reports>>
         /\ Undisturbed(a)
BY DEF AppendStep, Validate, WriteRequest, CountAndWriteBack, runnerVars

\* Who runs finds no other process between two operations.
LEMMA NobodyBusy ==
  ASSUME Serial, Undisturbed(None)
  PROVE  Busy = {}
BY ProcessesAssumption DEF Serial, Undisturbed, Busy

LEMMA OnlyBusy ==
  ASSUME Serial, NEW p \in Reconciler \cup Appender, Undisturbed(p)
  PROVE  Busy \subseteq {p}
BY DEF Serial, Undisturbed

\* What is written back by a repair, and by an append call.
LEMMA RepairWrites ==
  ASSUME Always, WhileSerial, Serial, NEW r \in Reconciler, WriteStatus(r)
  PROVE  /\ Seen.state = "running" /\ result # None
         /\ status' \in Status /\ status'.state = result.state
         /\ status'.active = Seen.active /\ status'.pend = Seen.pend
<1>1. /\ Seen.state = "running" /\ result # None
      /\ status' = [Seen EXCEPT !.state = result.state] /\ status' \in Status
  BY DEF WriteStatus, WhileSerial, RecSees, Always, SnapsAreTyped
<1>2. Seen \in Status
  BY StatusType DEF Seen, Always, TypeOK
<1> QED
  BY <1>1, <1>2 DEF Status

LEMMA AppendWrites ==
  ASSUME Always, WhileSerial, Serial, NEW a \in Appender, CountAndWriteBack(a)
  PROVE  /\ status # None /\ InProgress(status) /\ requests # {}
         /\ status' \in Status /\ status'.state = "running" /\ status'.active = status.active
<1>1. /\ status # None /\ InProgress(status) /\ a \in requests
      /\ status' = [status EXCEPT !.pend = Cardinality(requests)]
  BY DEF CountAndWriteBack, WhileSerial, AppSees
<1>2. status \in Status /\ status' \in Status
  BY <1>1, StatusType DEF Always, TypeOK
<1> QED
  BY <1>1, <1>2 DEF Status, InProgress

LEMMA SeesStep ==
  ASSUME Always, WhileSerial, Serial, Next PROVE Alone' /\ RecSees' /\ AppSees'
<1>1. CASE OfRunner
  <2>1. Busy = {} /\ UNCHANGED <<rec, app>>
    BY <1>1, RunnerFrame, NobodyBusy
  <2>2. /\ \A r \in Reconciler : rec'[r].pc \in {"idle", "gone"}
        /\ \A a \in Appender : app'[a].pc \notin {"write", "count"}
    BY <2>1 DEF Busy
  <2> QED
    BY <2>1, <2>2 DEF Alone, RecSees, AppSees, Busy
<1>2. ASSUME NEW r \in Reconciler, Reconcile(r) \/ AbandonRepair(r)
      PROVE  Alone' /\ RecSees' /\ AppSees'
  <2>1. Busy \subseteq {r} /\ UNCHANGED <<app, requests>>
    <3>1. CASE Reconcile(r)
      BY <3>1, OnlyBusy, ReconcilerFrame DEF Reconcile, ReadStatus, CheckResult, ProbePid, WriteRepair,
                                        WriteStatus
    <3>2. CASE AbandonRepair(r)
      BY <3>2, ReconcilerFrame DEF AbandonRepair, WhileSerial, Alone
    <3> QED
      BY <1>2, <3>1, <3>2
  <2>2. /\ \A q \in Reconciler \ {r} : rec[q].pc \in {"idle", "gone"}
        /\ \A a \in Appender : app[a].pc \notin {"write", "count"}
    BY <2>1, ProcessesAssumption DEF Busy
  <2>3. rec \in [Reconciler -> [pc : {"idle", "check", "probe", "repair", "write", "gone"},
                               snap : Status \cup {None}]]
    BY DEF Always, TypeOK
  <2>4. \A q \in Reconciler \ {r} : rec'[q] = rec[q]
    BY <1>2, <2>3 DEF Reconcile, ReadStatus, CheckResult, ProbePid, WriteRepair, WriteStatus,
                      AbandonRepair, Goto
  <2>5. Busy' \subseteq {r}
    BY <2>1, <2>2, <2>4 DEF Busy
  <2>6. Alone' /\ AppSees'
    BY <2>1, <2>2, <2>5 DEF Alone, AppSees
  <2>7. /\ rec'[r].pc \in {"check", "probe", "repair"} => rec'[r].snap = Seen'
        /\ rec'[r].pc \in {"probe", "repair"} => Seen'.state = "running" /\ result' = None
        /\ rec'[r].pc = "write" =>
             /\ Seen'.state = "running" /\ result' # None
             /\ rec'[r].snap = [Seen' EXCEPT !.state = result'.state]
    <3>1. CASE ReadStatus(r)
      BY <2>3, <3>1 DEF ReadStatus, Goto, Seen
    <3>2. CASE CheckResult(r)
      BY <2>3, <3>2 DEF CheckResult, Goto, Seen, LooksActive, WhileSerial, RecSees
    <3>3. CASE ProbePid(r)
      BY <2>3, <3>3 DEF ProbePid, Goto, Seen, WhileSerial, RecSees
    <3>4. CASE WriteRepair(r)
      <4>1. rec[r].snap = Seen /\ Seen.state = "running"
        BY <3>4 DEF WriteRepair, WhileSerial, RecSees
      <4>2. result' = [state |-> "failed", by |-> "repair"] /\ result' # None
        BY <3>4, StatusType DEF WriteRepair, Result, Final
      <4> QED
        BY <2>3, <3>4, <4>1, <4>2 DEF WriteRepair, Goto, Seen
    <3>5. CASE WriteStatus(r) \/ AbandonRepair(r)
      BY <2>3, <3>5 DEF WriteStatus, AbandonRepair, Goto
    <3> QED
      BY <1>2, <3>1, <3>2, <3>3, <3>4, <3>5 DEF Reconcile
  <2> QED
    BY <2>2, <2>4, <2>6, <2>7 DEF RecSees
<1>3. ASSUME NEW a \in Appender, AppendStep(a) PROVE Alone' /\ RecSees' /\ AppSees'
  <2>1. Busy \subseteq {a} /\ UNCHANGED rec
    BY <1>3, AppenderFrame, OnlyBusy
  <2>2. /\ \A r \in Reconciler : rec[r].pc \in {"idle", "gone"}
        /\ \A b \in Appender \ {a} : app[b].pc \notin {"write", "count"}
    BY <2>1, ProcessesAssumption DEF Busy
  <2>3. app \in [Appender -> [pc : {"idle", "write", "count", "accepted"},
                            snap : Status \cup {None}]]
    BY DEF Always, TypeOK
  <2>4. \A b \in Appender \ {a} : app'[b] = app[b]
    BY <1>3, <2>3 DEF AppendStep, Validate, WriteRequest, CountAndWriteBack, AppGoto
  <2>5. Alone' /\ RecSees'
    BY <2>1, <2>2, <2>4 DEF Alone, RecSees, Busy
  <2>6. /\ app'[a].pc \in {"write", "count"} =>
             status' # None /\ app'[a].snap = status' /\ InProgress(status')
        /\ app'[a].pc = "count" => a \in requests'
    <3>1. CASE Validate(a)
      BY <2>3, <3>1 DEF Validate, AppGoto
    <3>2. CASE WriteRequest(a)
      BY <2>3, <3>2 DEF WriteRequest, AppGoto, WhileSerial, AppSees
    <3>3. CASE CountAndWriteBack(a)
      BY <2>3, <3>3 DEF CountAndWriteBack, AppGoto
    <3> QED
      BY <1>3, <3>1, <3>2, <3>3 DEF AppendStep
  <2> QED
    BY <2>2, <2>4, <2>5, <2>6 DEF AppSees
<1> QED
  BY <1>1, <1>2, <1>3 DEF Next, OfRunner

\* What the runner makes of status.json: its state is running, or what a halt
\* has made of it, until the run is wound up.
LEMMA RunnerWrites ==
  ASSUME Always, OfRunner
  PROVE  status' # status => Finalize \/ status'.state = state'
<1>1. CASE Run
  BY <1>1 DEF Run, Start, Break, Consume, StartStep, NoMoreSteps, StepEnd, WriteResult, Publish,
              Always, StartsAtTheFirstStep
<1>2. CASE Listen
  BY <1>2 DEF Listen, CheckInbox, InterruptSignal, Deadline, ExceedBudget, HaltRun, Publish
<1>3. CASE Die \/ Deliver \/ \E k \in Halt : Ask(k)
  BY <1>3 DEF Die, Deliver, Ask
<1> QED
  BY <1>1, <1>2, <1>3 DEF OfRunner

LEMMA OverStays == ASSUME Next, Over PROVE Over' /\ UNCHANGED <<flags, consumed>>
<1>1. CASE OfRunner
  BY <1>1 DEF OfRunner, Over, Run, Start, Break, Consume, StartStep, NoMoreSteps, StepEnd, Finalize,
              WriteResult, Listen, Listening, CheckInbox, InterruptSignal, Deadline, ExceedBudget, Die,
              Deliver, Ask, runnerVars
<1>2. CASE UNCHANGED <<rpc, flags, consumed>>
  BY <1>2 DEF Over
<1> QED
  BY <1>1, <1>2, ReconcilerFrame, AppenderFrame DEF Next, OfRunner

LEMMA CompleteMeansNoFlags ==
  ASSUME TypeOK, FinalState = "complete" PROVE flags = {}
BY DEF FinalState, Verdict, TypeOK, Flag, Halt

LEMMA WoundUpStep ==
  ASSUME Always, WhileSerial, Serial, Next PROVE ChainIsWoundUp'
<1>0. /\ cursor \in Nat /\ Steps \in Nat /\ Steps' \in Nat /\ Steps <= Steps' /\ cursor' \in Nat
      /\ pend = 0 /\ status \in Status \cup {None} /\ status' \in Status \cup {status}
  BY CountersStep, FilesStep DEF Always, TypeOK, NothingPending
<1>1. ASSUME NoStepLeft, UNCHANGED <<status, requests>> PROVE ChainIsWoundUp'
  BY <1>1 DEF ChainIsWoundUp, WhileSerial
<1>2. CASE Run
  <2>1. CASE Start \/ Break \/ StartStep \/ StepEnd \/ Finalize \/ WriteResult
    BY <2>1 DEF Start, Break, Leave, StartStep, StepEnd, Finalize, WriteResult, ChainIsWoundUp,
                NoStepLeft, Halted
  <2>2. CASE Consume
    <3>1. SUFFICES ASSUME cursor >= Steps'
                   PROVE  ~status'.active /\ status'.pend = 0 /\ requests' = {}
      BY <2>2 DEF Consume, ChainIsWoundUp, NoStepLeft
    <3>2. CASE requests # {}
      <4> DEFINE more == cursor < InitialSteps + Cardinality(consumed')
      <4>1. status' = [state |-> state, active |-> more, pend |-> 0] /\ requests' = {}
        BY <2>2, <3>2 DEF Consume, Publish
      <4>2. ~more
        BY <1>0, <3>1 DEF Steps
      <4> HIDE DEF more
      <4> QED
        BY <4>1, <4>2
    <3>3. CASE requests = {}
      <4>1. status' = status /\ requests' = {} /\ rpc = "loop"
        BY <1>0, <2>2, <3>3 DEF Consume
      <4>2. status \in Status /\ (status.active => cursor < Steps) /\ ~(status.pend > 0)
        BY <1>0, <3>3, <4>1 DEF WhileSerial, ActiveIsTrue, Always, StatusIsThere
      <4>3. status.pend \in Nat
        BY <4>2, Counts DEF Status
      <4> QED
        BY <1>0, <3>1, <4>1, <4>2, <4>3
    <3> QED
      BY <3>2, <3>3
  <2>3. CASE NoMoreSteps
    BY <1>0, <1>1, <2>3 DEF NoMoreSteps, HasNextStep, NoStepLeft
  <2> QED
    BY <1>2, <2>1, <2>2, <2>3 DEF Run
<1>3. CASE Listen
  <2>1. CASE NoStepLeft'
    <3>1. rpc \in {"step", "sharing"} /\ rpc' = rpc /\ requests' = requests
      BY <1>3 DEF Listen, Listening, CheckInbox, InterruptSignal, Deadline, ExceedBudget
    <3>2. flags' = {} /\ rpc = "sharing"
      BY <2>1, <3>1 DEF NoStepLeft
    <3>3. UNCHANGED <<flags, status>>
      BY <1>3, <3>2 DEF Listen, CheckInbox, InterruptSignal, Deadline, ExceedBudget, HaltRun
    <3> QED
      BY <1>1, <3>1, <3>2, <3>3 DEF NoStepLeft
  <2> QED
    BY <2>1 DEF ChainIsWoundUp
<1>4. CASE Die \/ Deliver \/ \E k \in Halt : Ask(k)
  BY <1>4 DEF Die, Deliver, Ask, runnerVars, ChainIsWoundUp, NoStepLeft, Steps, WhileSerial
<1>5. ASSUME NEW r \in Reconciler, Reconcile(r) \/ AbandonRepair(r) PROVE ChainIsWoundUp'
  <2>1. SUFFICES ASSUME NoStepLeft' PROVE ~status'.active /\ status'.pend = 0 /\ requests' = {}
    BY DEF ChainIsWoundUp
  <2>2. NoStepLeft /\ UNCHANGED requests
    BY <1>5, <2>1, ReconcilerFrame DEF NoStepLeft, Steps
  <2>3. ~status.active /\ status.pend = 0 /\ requests = {} /\ Seen = status
    BY <2>2 DEF WhileSerial, ChainIsWoundUp, Seen, Always, StatusIsThere, NoStepLeft
  <2>4. CASE WriteStatus(r)
    BY <2>2, <2>3, <2>4, RepairWrites
  <2>5. CASE UNCHANGED status
    BY <2>2, <2>3, <2>5
  <2> QED
    BY <1>5, <2>4, <2>5 DEF Reconcile, ReadStatus, CheckResult, ProbePid, WriteRepair, AbandonRepair
<1>6. ASSUME NEW a \in Appender, AppendStep(a) PROVE ChainIsWoundUp'
  <2>1. SUFFICES ASSUME NoStepLeft' PROVE ~status'.active /\ status'.pend = 0 /\ requests' = {}
    BY DEF ChainIsWoundUp
  <2>2. NoStepLeft
    BY <1>6, <2>1, AppenderFrame DEF NoStepLeft, Steps
  <2>3. ~InProgress(status)
    BY <2>2 DEF WhileSerial, ChainIsWoundUp, InProgress
  <2> QED
    BY <1>6, <2>3 DEF AppendStep, Validate, WriteRequest, CountAndWriteBack, WhileSerial, AppSees
<1> QED
  BY <1>2, <1>3, <1>4, <1>5, <1>6 DEF Next

LEMMA ActiveStep ==
  ASSUME Always, WhileSerial, Serial, Next PROVE ActiveIsTrue'
<1>0. /\ cursor \in Nat /\ Steps \in Nat /\ Steps' \in Nat /\ Steps <= Steps' /\ Steps >= 1
      /\ pend = 0 /\ status \in Status \cup {None} /\ status' \in Status \cup {status}
  <2>1. Steps >= 1
    BY StepsCount DEF Steps, Always, TypeOK
  <2> QED
    BY <2>1, CountersStep, FilesStep DEF Always, TypeOK, NothingPending
<1>1. CASE Run
  <2>1. CASE Start
    <3>1. rpc' = "loop" /\ status' = [state |-> "running", active |-> TRUE, pend |-> 0]
          /\ cursor' = 0 /\ Steps' = Steps
      BY <2>1 DEF Start, Publish, Always, StartsAtTheFirstStep, Steps
    <3> QED
      BY <1>0, <3>1 DEF ActiveIsTrue
  <2>2. CASE Consume
    <3>1. SUFFICES ASSUME status'.active PROVE cursor < Steps'
      BY <2>2 DEF Consume, ActiveIsTrue
    <3>2. CASE UNCHANGED status
      <4>1. cursor < Steps
        BY <2>2, <3>1, <3>2 DEF Consume, WhileSerial, ActiveIsTrue
      <4> QED
        BY <1>0, <4>1
    <3>3. CASE status' # status
      <4> DEFINE more == cursor < InitialSteps + Cardinality(consumed')
      <4>1. status' = [state |-> state, active |-> more, pend |-> 0]
        BY <2>2, <3>3 DEF Consume, Publish
      <4>2. status'.active = more
        BY <4>1
      <4> QED
        BY <3>1, <4>2 DEF Steps
    <3> QED
      BY <3>2, <3>3
  <2>3. CASE StepEnd
    <3> DEFINE more == cursor < Steps
    <3>1. status' = [state |-> state, active |-> more, pend |-> 0] /\ UNCHANGED <<cursor, consumed>>
          /\ rpc' \in {"loop", "sharing", "final"}
      BY <1>0, <2>3 DEF StepEnd, Publish, Leave
    <3>2. (status'.active => cursor < Steps) /\ status'.pend = 0 /\ Steps' = Steps
      BY <3>1 DEF Steps
    <3> QED
      BY <3>1, <3>2 DEF ActiveIsTrue
  <2>4. CASE Break \/ StartStep \/ NoMoreSteps \/ Finalize \/ WriteResult
    BY <2>4 DEF Break, Leave, StartStep, NoMoreSteps, Finalize, WriteResult, ActiveIsTrue
  <2> QED
    BY <1>1, <2>1, <2>2, <2>3, <2>4 DEF Run
<1>2. CASE Listen
  BY <1>2 DEF Listen, Listening, CheckInbox, InterruptSignal, Deadline, ExceedBudget, ActiveIsTrue
<1>3. CASE Die \/ Deliver \/ \E k \in Halt : Ask(k)
  BY <1>3 DEF Die, Deliver, Ask, runnerVars, ActiveIsTrue, Steps, WhileSerial
<1>4. ASSUME NEW r \in Reconciler, Reconcile(r) \/ AbandonRepair(r) PROVE ActiveIsTrue'
  <2>1. UNCHANGED <<rpc, cursor, consumed, requests>> /\ Steps' = Steps
    BY <1>4, ReconcilerFrame DEF Steps
  <2>2. CASE UNCHANGED status
    BY <2>1, <2>2 DEF ActiveIsTrue, WhileSerial
  <2>3. CASE WriteStatus(r)
    <3>1. rpc \in {"loop", "next"} => Seen = status
      BY DEF Seen, Always, StatusIsThere
    <3> QED
      BY <2>1, <2>3, <3>1, RepairWrites DEF ActiveIsTrue, WhileSerial
  <2> QED
    BY <1>4, <2>2, <2>3 DEF Reconcile, ReadStatus, CheckResult, ProbePid, WriteRepair, AbandonRepair
<1>5. ASSUME NEW a \in Appender, AppendStep(a) PROVE ActiveIsTrue'
  <2>1. UNCHANGED <<rpc, cursor, consumed>> /\ Steps' = Steps
    BY <1>5, AppenderFrame DEF Steps
  <2>2. CASE CountAndWriteBack(a)
    <3>1. UNCHANGED requests
      BY <2>2 DEF CountAndWriteBack
    <3> QED
      BY <2>1, <2>2, <3>1, AppendWrites DEF ActiveIsTrue, WhileSerial
  <2>3. CASE Validate(a) \/ WriteRequest(a)
    BY <2>1, <2>3 DEF Validate, WriteRequest, ActiveIsTrue, WhileSerial
  <2> QED
    BY <1>5, <2>2, <2>3 DEF AppendStep
<1> QED
  BY <1>1, <1>2, <1>3, <1>4, <1>5 DEF Next

\* A repair of a run that is wound up finds its final state and does nothing.
LEMMA NoRepairOfTheEnded ==
  ASSUME Always, WhileSerial, Serial, rpc \in {"closed", "ended"}
  PROVE  status # None /\ status.state \in Final /\ Seen.state # "running"
<1>1. status # None /\ status.state = FinalState
  BY DEF WhileSerial, FinalIsPublished, Always, StatusIsThere
<1> QED
  BY <1>1, VerdictType DEF Seen, Final

LEMMA PublishedStep ==
  ASSUME Always, WhileSerial, Serial, Next PROVE FinalIsPublished'
<1>1. SUFFICES ASSUME rpc' \in {"closed", "ended"} PROVE status'.state = FinalState'
  BY DEF FinalIsPublished
<1>2. CASE Finalize
  <2>1. status'.state = FinalState /\ UNCHANGED flags
    BY <1>2 DEF Finalize, Publish
  <2> QED
    BY <2>1 DEF FinalState, Verdict
<1>3. CASE rpc \in {"closed", "ended"}
  <2>1. status # None /\ status.state = FinalState /\ Seen.state # "running"
    BY <1>3, NoRepairOfTheEnded DEF WhileSerial, FinalIsPublished
  <2>2. UNCHANGED flags
    BY <1>3, OverStays DEF Over
  <2>3. UNCHANGED status
    <3>1. CASE OfRunner
      BY <1>3, <3>1 DEF OfRunner, Run, Start, Break, Consume, StartStep, NoMoreSteps, StepEnd, Finalize,
                    WriteResult, Listen, Listening, CheckInbox, InterruptSignal, Deadline, ExceedBudget,
                    Die, Deliver, Ask
    <3>2. ASSUME NEW r \in Reconciler, Reconcile(r) \/ AbandonRepair(r) PROVE UNCHANGED status
      BY <2>1, <3>2, RepairWrites DEF Reconcile, ReadStatus, CheckResult, ProbePid, WriteRepair,
                                  AbandonRepair
    <3>3. ASSUME NEW a \in Appender, AppendStep(a) PROVE UNCHANGED status
      <4>1. ~InProgress(status)
        BY <1>3, <2>1, NoRepairOfTheEnded DEF InProgress, Final
      <4> QED
        BY <3>3, <4>1, AppendWrites DEF AppendStep, Validate, WriteRequest
    <3> QED
      BY <3>1, <3>2, <3>3 DEF Next, OfRunner
  <2> QED
    BY <2>1, <2>2, <2>3 DEF FinalState, Verdict
<1>4. Finalize \/ rpc \in {"closed", "ended"}
  <2>1. CASE OfRunner
    BY <1>1, <2>1 DEF OfRunner, Run, Start, Break, Leave, Consume, StartStep, NoMoreSteps, StepEnd,
                  WriteResult, Listen, CheckInbox, InterruptSignal, Deadline, ExceedBudget, Die, Deliver,
                  Ask, runnerVars
  <2> QED
    BY <1>1, <2>1, ReconcilerFrame, AppenderFrame DEF Next, OfRunner
<1> QED
  BY <1>2, <1>3, <1>4

LEMMA CompleteStep ==
  ASSUME Always, WhileSerial, Serial, Next PROVE CompleteIsOver'
<1>1. SUFFICES ASSUME status' # None, status'.state = "complete"
               PROVE  Over' /\ Accepted' \subseteq consumed'
  BY DEF CompleteIsOver
<1>2. consumed \subseteq consumed'
  BY RunnerTypes DEF Always
<1>3. CASE OfRunner
  <2>1. UNCHANGED Accepted
    BY <1>3, RunnerFrame DEF Accepted
  <2>2. CASE UNCHANGED status
    BY <1>1, <1>2, <2>1, <2>2, OverStays DEF WhileSerial, CompleteIsOver
  <2>3. CASE status' # status
    <3>1. CASE Finalize
      <4>1. FinalState = "complete" /\ rpc \in {"sharing", "final"} /\ Over'
        BY <1>1, <3>1 DEF Finalize, Publish, Over
      <4>2. requests = {}
        BY <4>1, CompleteMeansNoFlags DEF WhileSerial, ChainIsWoundUp, NoStepLeft, Always
      <4>3. Accepted \subseteq consumed
        BY <4>2 DEF Always, RequestIsKept, Accepted
      <4> QED
        BY <1>2, <2>1, <4>1, <4>3
    <3>2. CASE ~Finalize
      <4>1. state' = "complete"
        BY <1>1, <1>3, <2>3, <3>2, RunnerWrites
      <4>2. HaltIsState'
        BY AlwaysStep DEF Always
      <4>3. Over'
        BY <4>1, <4>2 DEF HaltIsState, HaltState, Halt
      <4>4. ~Over
        BY <1>3, <2>3, <3>2 DEF OfRunner, Over, Run, Start, Break, Consume, StartStep, NoMoreSteps,
                            StepEnd, WriteResult, Listen, Listening, CheckInbox, InterruptSignal,
                            Deadline, ExceedBudget, Die, Deliver, Ask
      <4>5. Over' => Finalize \/ Die
        BY <1>3, <4>4 DEF OfRunner, Over, Run, Start, Break, Leave, Consume, StartStep, NoMoreSteps,
                            StepEnd, WriteResult, Listen, CheckInbox, InterruptSignal,
                            Deadline, ExceedBudget, Die, Deliver, Ask, runnerVars
      <4> QED
        BY <2>3, <3>2, <4>3, <4>5 DEF Die
    <3> QED
      BY <3>1, <3>2
  <2> QED
    BY <2>2, <2>3
<1>4. ASSUME NEW r \in Reconciler, Reconcile(r) \/ AbandonRepair(r)
      PROVE  Over' /\ Accepted' \subseteq consumed'
  <2>1. UNCHANGED Accepted /\ UNCHANGED <<rpc, consumed>>
    BY <1>4, ReconcilerFrame DEF Accepted
  <2>2. CASE UNCHANGED status
    BY <1>1, <2>1, <2>2 DEF WhileSerial, CompleteIsOver, Over
  <2>3. CASE WriteStatus(r)
    <3>1. result # None /\ result.state = "complete" /\ Seen.state = "running"
      BY <1>1, <2>3, RepairWrites
    <3>2. rpc = "ended"
      BY <3>1 DEF Always, ResultIsByItsWriter
    <3> QED
      BY <3>1, <3>2, NoRepairOfTheEnded
  <2> QED
    BY <1>4, <2>2, <2>3 DEF Reconcile, ReadStatus, CheckResult, ProbePid, WriteRepair, AbandonRepair
<1>5. ASSUME NEW a \in Appender, AppendStep(a) PROVE Over' /\ Accepted' \subseteq consumed'
  <2>1. UNCHANGED <<rpc, consumed>>
    BY <1>5, AppenderFrame
  <2>2. CASE CountAndWriteBack(a)
    BY <1>1, <2>2, AppendWrites
  <2>3. CASE Validate(a) \/ WriteRequest(a)
    <3>1. Accepted' = Accepted /\ UNCHANGED status
      BY <2>3 DEF Validate, WriteRequest, AppGoto, Accepted, Always, TypeOK
    <3> QED
      BY <1>1, <2>1, <3>1 DEF WhileSerial, CompleteIsOver, Over
  <2> QED
    BY <1>5, <2>2, <2>3 DEF AppendStep
<1> QED
  BY <1>3, <1>4, <1>5 DEF Next, OfRunner

LEMMA SerialStep == ASSUME Always, WhileSerial, Next PROVE WhileSerial'
<1>1. faults' = faults
  BY RunnerFrame, ReconcilerFrame, AppenderFrame DEF Next, OfRunner
<1>2. ASSUME Serial PROVE WhileSerial'
  BY <1>2, SeesStep, WoundUpStep, ActiveStep, PublishedStep, CompleteStep DEF WhileSerial
<1> QED
  BY <1>1, <1>2 DEF WhileSerial, Serial

-----------------------------------------------------------------------------
(* While nobody that lives is declared dead and no repair is abandoned.     *)

OrderlyHypotheses == Always /\ WhileSerial /\ WhileOrderly /\ Orderly

LEMMA OrderlyIsSerial == ASSUME Orderly PROVE Serial /\ "abandon" \notin faults /\ "silent" \notin faults
BY DEF Orderly, Serial

\* Every change of the runner's state goes to status.json in the same step.
LEMMA RunnerPublishes ==
  ASSUME Always, OfRunner
  PROVE  /\ rpc' = "starting" => UNCHANGED status /\ rpc = "starting"
         /\ \/ UNCHANGED <<state, status>>
            \/ status' # None /\ status'.state = state'
<1>1. rpc' = "starting" => UNCHANGED status /\ rpc = "starting"
  BY DEF OfRunner, Run, Start, Break, Leave, Consume, StartStep, NoMoreSteps, StepEnd, Finalize,
         WriteResult, Listen, Listening, CheckInbox, InterruptSignal, Deadline, ExceedBudget, Die,
         Deliver, Ask, runnerVars
<1> SUFFICES UNCHANGED <<state, status>> \/ (status' # None /\ status'.state = state')
  BY <1>1
<1>2. CASE UNCHANGED status
  <2>1. UNCHANGED state \/ (\E k \in Halt : HaltRun(k)) \/ Finalize
    BY DEF OfRunner, Run, Start, Break, Consume, StartStep, NoMoreSteps, StepEnd, WriteResult, Listen,
           CheckInbox, InterruptSignal, Deadline, ExceedBudget, First, Halt, Die, Deliver, Ask, runnerVars
  <2>2. CASE Finalize
    <3>1. status # None
      BY <2>2 DEF Finalize, Always, StatusIsThere
    <3>2. status'.state = state'
      BY <2>2 DEF Finalize, Publish
    <3> QED
      BY <1>2, <3>1, <3>2
  <2>3. CASE \E k \in Halt : HaltRun(k)
    <3>1. PICK k \in Halt : HaltRun(k)
      BY <2>3
    <3>2. CASE state = "running"
      <4>1. CASE Listen
        <5>1. status # None
          BY <4>1 DEF Listen, Listening, CheckInbox, InterruptSignal, Deadline, ExceedBudget, Always,
                      StatusIsThere
        <5> QED
          BY <1>2, <3>1, <3>2, <5>1 DEF HaltRun, Publish
      <4>2. CASE ~Listen
        BY <1>2, <2>2, <4>2 DEF OfRunner, Run, Start, Break, Consume, StartStep, NoMoreSteps, StepEnd,
                          WriteResult, Die, Deliver, Ask, runnerVars
      <4> QED
        BY <4>1, <4>2
    <3>3. CASE state # "running"
      BY <3>1, <3>3 DEF HaltRun
    <3> QED
      BY <3>2, <3>3
  <2> QED
    BY <1>2, <2>1, <2>2, <2>3
<1>3. CASE status' # status
  <2>1. status' # None
    BY <1>3, FilesStep, StatusType DEF Next, OfRunner, Always
  <2>2. Finalize => status'.state = state'
    BY DEF Finalize, Publish
  <2> QED
    BY <1>3, <2>1, <2>2, RunnerWrites
<1> QED
  BY <1>1, <1>2, <1>3

\* A repair that has something to write is the repair of a dead runner.
LEMMA WritesOfTheDead ==
  ASSUME OrderlyHypotheses, NEW r \in Reconciler, WriteStatus(r)
  PROVE  /\ rpc = "dead" /\ reports = <<>>
         /\ status' # None /\ status'.state = "failed"
<1> USE OrderlyIsSerial DEF OrderlyHypotheses
<1>1. Seen.state = "running" /\ result # None /\ status' \in Status /\ status'.state = result.state
  BY RepairWrites
<1>2. Truthful(result) /\ reports = <<>>
  BY <1>1 DEF WhileOrderly, OutcomeIsTrue
<1>3. rpc # "ended"
  BY <1>1, NoRepairOfTheEnded
<1> QED
  BY <1>1, <1>2, <1>3, StatusType DEF Truthful

LEMMA StateStep == ASSUME OrderlyHypotheses, Next PROVE StatusIsState'
<1> USE OrderlyIsSerial DEF OrderlyHypotheses
<1>1. StatusIsState
  BY DEF WhileOrderly
<1>2. CASE OfRunner
  <2>1. rpc = "dead" => rpc' = "dead"
    BY <1>2 DEF OfRunner, Run, Start, Break, Consume, StartStep, NoMoreSteps, StepEnd, Finalize,
                WriteResult, Listen, Listening, CheckInbox, InterruptSignal, Deadline, ExceedBudget, Die,
                Deliver, Ask, runnerVars
  <2> QED
    BY <1>1, <1>2, <2>1, RunnerPublishes DEF StatusIsState
<1>3. ASSUME NEW r \in Reconciler, Reconcile(r) \/ AbandonRepair(r) PROVE StatusIsState'
  <2>1. CASE UNCHANGED status
    BY <1>1, <1>3, <2>1, ReconcilerFrame DEF StatusIsState
  <2>2. CASE WriteStatus(r)
    BY <1>3, <2>2, ReconcilerFrame, WritesOfTheDead DEF StatusIsState
  <2> QED
    BY <1>3, <2>1, <2>2 DEF Reconcile, ReadStatus, CheckResult, ProbePid, WriteRepair, AbandonRepair
<1>4. ASSUME NEW a \in Appender, AppendStep(a) PROVE StatusIsState'
  <2>1. CASE UNCHANGED status
    BY <1>1, <1>4, <2>1, AppenderFrame DEF StatusIsState
  <2>2. CASE CountAndWriteBack(a)
    BY <1>1, <1>4, <2>2, AppenderFrame, AppendWrites DEF StatusIsState, InProgress
  <2> QED
    BY <1>4, <2>1, <2>2 DEF AppendStep, Validate, WriteRequest
<1> QED
  BY <1>2, <1>3, <1>4 DEF Next, OfRunner

LEMMA DeadStep == ASSUME OrderlyHypotheses, Next PROVE RepairsTheDead'
<1> USE OrderlyIsSerial DEF OrderlyHypotheses
<1>1. RepairsTheDead
  BY DEF WhileOrderly
<1>2. CASE OfRunner
  <2>1. Busy = {} /\ UNCHANGED rec
    BY <1>2, RunnerFrame, NobodyBusy
  <2> QED
    BY <2>1 DEF Busy, RepairsTheDead
<1>3. ASSUME NEW r \in Reconciler, Reconcile(r) \/ AbandonRepair(r) PROVE RepairsTheDead'
  <2>1. rec \in [Reconciler -> [pc : {"idle", "check", "probe", "repair", "write", "gone"},
                               snap : Status \cup {None}]]
    BY DEF Always, TypeOK
  <2>2. ASSUME NEW q \in Reconciler, rec'[q].pc = "repair" PROVE rec[q].pc = "repair" \/ rpc = "dead"
    <3>1. CASE ProbePid(r) /\ q = r
      <4>1. Seen.state = "running"
        BY <3>1 DEF ProbePid, WhileSerial, RecSees
      <4>2. rpc \notin {"ended"}
        BY <4>1, NoRepairOfTheEnded
      <4> QED
        BY <2>1, <2>2, <3>1, <4>2 DEF ProbePid, MayCallDead, Goto
    <3>2. CASE ~(ProbePid(r) /\ q = r)
      BY <1>3, <2>1, <2>2, <3>2 DEF Reconcile, ReadStatus, CheckResult, ProbePid, WriteRepair,
                                    WriteStatus, AbandonRepair, Goto
    <3> QED
      BY <3>1, <3>2
  <2> QED
    BY <1>1, <1>3, <2>2, ReconcilerFrame DEF RepairsTheDead
<1>4. CASE \E a \in Appender : AppendStep(a)
  BY <1>1, <1>4, AppenderFrame DEF RepairsTheDead
<1> QED
  BY <1>2, <1>3, <1>4 DEF Next, OfRunner

\* The outcome once written stays the outcome of the run.
LEMMA TruthStays ==
  ASSUME OrderlyHypotheses, NEW o, Truthful(o), UNCHANGED <<rpc, flags>>, Writing => Writing',
         UNCHANGED status \/ (status' # None /\ status'.state = "failed")
  PROVE  Truthful(o)'
BY DEF Truthful, ResultState, Verdict

LEMMA OutcomeOfRunner == ASSUME OrderlyHypotheses, OfRunner PROVE OutcomeIsTrue'
<1> USE OrderlyIsSerial DEF OrderlyHypotheses
<1>1. OutcomeIsTrue /\ reports \in Seq(Result) /\ result \in Result \cup {None}
  BY DEF WhileOrderly, Always, TypeOK
<1>2. ~Writing /\ ~Writing'
  <2>1. Busy = {} /\ UNCHANGED rec
    BY RunnerFrame, NobodyBusy
  <2> QED
    BY <2>1 DEF Busy, Writing
<1>3. CASE WriteResult
  <2>1. result = None /\ reports = <<>>
    BY <1>1, <1>3 DEF WriteResult, OutcomeIsTrue, Truthful
  <2>2. result'.by = "runner" /\ result'.state = ResultState' /\ rpc' = "ended" /\ reports' = <<>>
    BY <1>3, <2>1 DEF WriteResult, ResultState, Verdict
  <2> QED
    BY <2>2 DEF OutcomeIsTrue, Truthful
<1>4. CASE Deliver
  <2>1. Truthful(result) /\ reports' = <<result>> /\ result' = None
    BY <1>1, <1>4 DEF Deliver, OutcomeIsTrue
  <2>2. UNCHANGED <<rpc, flags, status>>
    BY <1>4 DEF Deliver, runnerVars
  <2>3. Len(reports') = 1 /\ reports'[1] = result
    BY <2>1
  <2>4. Truthful(reports[1])'
    BY <1>2, <2>1, <2>2, <2>3 DEF Truthful, ResultState, Verdict
  <2> QED
    BY <1>2, <2>1, <2>3, <2>4 DEF OutcomeIsTrue
<1>5. CASE ~WriteResult /\ ~Deliver
  <2>1. UNCHANGED <<result, reports>>
    BY <1>5 DEF OfRunner, Run, Start, Break, Consume, StartStep, NoMoreSteps, StepEnd, Finalize, Listen,
           CheckInbox, InterruptSignal, Deadline, ExceedBudget, Die, Ask
  <2>2. rpc \in {"ended", "dead"} => UNCHANGED <<rpc, flags, status>>
    BY <1>5 DEF OfRunner, Run, Start, Break, Consume, StartStep, NoMoreSteps, StepEnd, Finalize, Listen,
           Listening, CheckInbox, InterruptSignal, Deadline, ExceedBudget, Die, Ask, runnerVars
  <2>3. ASSUME NEW o, Truthful(o) PROVE Truthful(o)'
    <3>1. rpc \in {"ended", "dead"}
      BY <2>3 DEF Truthful
    <3> QED
      BY <1>2, <2>2, <2>3, <3>1, TruthStays
  <2>4. (result # None => Truthful(result)') /\ (reports # <<>> => Truthful(reports[1])')
    BY <1>1, <2>1, <2>3 DEF OutcomeIsTrue, Truthful
  <2> QED
    BY <1>1, <1>2, <2>1, <2>4 DEF OutcomeIsTrue
<1> QED
  BY <1>3, <1>4, <1>5

\* A repair writes its result when there is none, and none has been reported.
LEMMA RepairIsFirst ==
  ASSUME OrderlyHypotheses, NEW r \in Reconciler, WriteRepair(r)
  PROVE  rpc = "dead" /\ reports = <<>>
<1> USE OrderlyIsSerial DEF OrderlyHypotheses
<1>1. rpc = "dead" /\ Seen.state = "running"
  BY DEF WriteRepair, WhileOrderly, RepairsTheDead, WhileSerial, RecSees
<1>2. reports = <<>>
  <2>1. SUFFICES ASSUME reports # <<>> PROVE FALSE
    OBVIOUS
  <2>2. Truthful(reports[1]) /\ ~Writing
    BY <2>1 DEF WhileOrderly, OutcomeIsTrue
  <2>3. status # None /\ status.state = "failed"
    BY <1>1, <2>2 DEF Truthful
  <2> QED
    BY <1>1, <2>3 DEF Seen
<1> QED
  BY <1>1, <1>2

LEMMA OutcomeOfReconciler ==
  ASSUME OrderlyHypotheses, NEW r \in Reconciler, Reconcile(r) PROVE OutcomeIsTrue'
<1> USE OrderlyIsSerial DEF OrderlyHypotheses
<1>1. /\ OutcomeIsTrue /\ UNCHANGED <<rpc, flags, reports>>
      /\ rec \in [Reconciler -> [pc : {"idle", "check", "probe", "repair", "write", "gone"},
                                 snap : Status \cup {None}]]
  BY ReconcilerFrame DEF WhileOrderly, Always, TypeOK
<1>2. CASE ReadStatus(r) \/ CheckResult(r) \/ ProbePid(r)
  <2>1. UNCHANGED <<status, result>>
    BY <1>2 DEF ReadStatus, CheckResult, ProbePid
  <2>2. Writing => Writing'
    <3>1. SUFFICES ASSUME NEW w \in Reconciler, rec[w].pc = "write" PROVE Writing'
      BY DEF Writing
    <3>2. w # r
      BY <1>2, <3>1 DEF ReadStatus, CheckResult, ProbePid
    <3>3. rec'[w] = rec[w]
      BY <1>1, <1>2, <3>2 DEF ReadStatus, CheckResult, ProbePid, Goto
    <3> QED
      BY <3>1, <3>3 DEF Writing
  <2>3. reports # <<>> => (Writing' => Writing)
    <3>1. SUFFICES ASSUME reports # <<>>, NEW w \in Reconciler, rec'[w].pc = "write" PROVE Writing
      BY DEF Writing
    <3>2. result = None
      BY <1>1, <3>1 DEF OutcomeIsTrue
    <3>3. rec[w].pc = "write"
      BY <1>1, <1>2, <3>1, <3>2 DEF ReadStatus, CheckResult, ProbePid, Goto
    <3> QED
      BY <3>3 DEF Writing
  <2>4. ASSUME NEW o, Truthful(o) PROVE Truthful(o)'
    BY <1>1, <2>1, <2>2, <2>4, TruthStays
  <2>5. (result # None => Truthful(result)') /\ (reports # <<>> => Truthful(reports[1])')
    BY <1>1, <2>1, <2>4 DEF OutcomeIsTrue, Truthful
  <2> QED
    BY <1>1, <2>1, <2>3, <2>5 DEF OutcomeIsTrue
<1>3. CASE WriteRepair(r)
  <2>1. rpc = "dead" /\ reports = <<>>
    BY <1>3, RepairIsFirst
  <2>2. Writing'
    BY <1>1, <1>3 DEF WriteRepair, Goto, Writing
  <2>3. result'.by = "repair" /\ result'.state = "failed"
    BY <1>3 DEF WriteRepair
  <2> QED
    BY <1>1, <2>1, <2>2, <2>3 DEF OutcomeIsTrue, Truthful
<1>4. CASE WriteStatus(r)
  <2>1. rpc = "dead" /\ reports = <<>> /\ status' # None /\ status'.state = "failed"
    BY <1>4, WritesOfTheDead
  <2>2. result' = result
    BY <1>4 DEF WriteStatus
  <2>3. result # None => Truthful(result)'
    BY <1>1, <2>1, <2>2 DEF OutcomeIsTrue, Truthful
  <2> QED
    BY <1>1, <2>1, <2>2, <2>3 DEF OutcomeIsTrue
<1> QED
  BY <1>2, <1>3, <1>4 DEF Reconcile

LEMMA OutcomeOfAppender ==
  ASSUME OrderlyHypotheses, NEW a \in Appender, AppendStep(a) PROVE OutcomeIsTrue'
<1> USE OrderlyIsSerial DEF OrderlyHypotheses
<1>1. OutcomeIsTrue /\ UNCHANGED <<rpc, flags, result, reports, rec>> /\ Writing' = Writing
  BY AppenderFrame DEF WhileOrderly, Writing
<1>2. UNCHANGED status \/ (status # None /\ status.state = "running")
  BY AppendWrites DEF AppendStep, Validate, WriteRequest, InProgress
<1>3. ASSUME NEW o, Truthful(o) PROVE Truthful(o)'
  BY <1>1, <1>2, <1>3 DEF Truthful, ResultState, Verdict
<1>4. (result # None => Truthful(result)') /\ (reports # <<>> => Truthful(reports[1])')
  BY <1>1, <1>3 DEF OutcomeIsTrue, Truthful
<1> QED
  BY <1>1, <1>4 DEF OutcomeIsTrue

LEMMA OrderlyStep == ASSUME Always, WhileSerial, WhileOrderly, Next PROVE WhileOrderly'
<1>1. faults' = faults
  BY RunnerFrame, ReconcilerFrame, AppenderFrame DEF Next, OfRunner
<1>2. ASSUME Orderly PROVE OutcomeIsTrue'
  <2>1. OrderlyHypotheses /\ ~(\E r \in Reconciler : AbandonRepair(r))
    BY <1>2, OrderlyIsSerial DEF OrderlyHypotheses, AbandonRepair
  <2> QED
    BY <2>1, OutcomeOfRunner, OutcomeOfReconciler, OutcomeOfAppender DEF Next, OfRunner
<1>3. ASSUME Orderly PROVE StatusIsState' /\ RepairsTheDead'
  BY <1>3, StateStep, DeadStep DEF OrderlyHypotheses
<1> QED
  BY <1>1, <1>2, <1>3 DEF WhileOrderly, Orderly

-----------------------------------------------------------------------------
(* The inductive invariant.                                                *)

LEMMA StepIInv == ASSUME IInv, [Next]_vars PROVE IInv'
<1>1. CASE Next
  BY <1>1, AlwaysStep, SerialStep, OrderlyStep DEF IInv
<1>2. CASE UNCHANGED vars
  <2>1. Always'
    BY <1>2 DEF vars, IInv, Always, TypeOK, Steps, SnapsAreTyped, HaltIsState, Over, StatusIsThere,
                NothingPending, StartsAtTheFirstStep, ResultIsByItsWriter, RequestIsKept
  <2>2. WhileSerial'
    BY <1>2 DEF vars, IInv, WhileSerial, Serial, Alone, Busy, RecSees, Seen, AppSees, ChainIsWoundUp,
                NoStepLeft, Steps, ActiveIsTrue, FinalIsPublished, FinalState, Verdict, CompleteIsOver,
                Over, Accepted
  <2>3. WhileOrderly'
    BY <1>2 DEF vars, IInv, WhileOrderly, Orderly, StatusIsState, OutcomeIsTrue, Truthful, Writing,
                ResultState, Verdict, RepairsTheDead
  <2> QED
    BY <2>1, <2>2, <2>3 DEF IInv
<1> QED
  BY <1>1, <1>2

LEMMA Invariance == Spec => []IInv
BY InitIInv, StepIInv, PTL DEF Spec

-----------------------------------------------------------------------------
(* The theorems.                                                           *)

\* The runner's payload, the files and what every process remembers of them
\* keep their types; in particular stepCursor never passes the last step of
\* the chain, however many steps are appended to it.
THEOREM TypeCorrect == Spec => []TypeOK
<1>1. IInv => TypeOK
  BY DEF IInv, Always
<1> QED
  BY <1>1, Invariance, PTL

\* Of the runner's own result and the repairs by reconcileAsyncRun, whoever
\* makes them and however many processes do, at most one is reported to the
\* parent; a repair is reported of a dead runner only; and what is reported is
\* what status.json says, but for a chain stopped by an acceptance gate.
THEOREM OutcomeIsReported == Spec => []Reported
<1>1. ASSUME IInv, Orderly PROVE OutcomeIsTrue /\ Serial
  BY <1>1, OrderlyIsSerial DEF IInv, WhileOrderly
<1>2. IInv => OneReport
  BY <1>1 DEF OneReport, OutcomeIsTrue
<1>3. ASSUME IInv, Orderly, NEW i \in DOMAIN reports
      PROVE  /\ reports[i].by = "repair" => rpc = "dead"
             /\ Busy = {} /\ "gate" \notin flags => status.state = reports[i].state
  <2>1. Len(reports) <= 1 /\ (reports # <<>> => Truthful(reports[1])) /\ reports \in Seq(Result)
    BY <1>1, <1>3 DEF OutcomeIsTrue, IInv, Always, TypeOK
  <2>2. reports # <<>> /\ i = 1
    BY <1>3, <2>1
  <2>3. Truthful(reports[i])
    BY <2>1, <2>2
  <2>4. Busy = {} => ~Writing
    BY DEF Busy, Writing
  <2>5. rpc = "ended" => status.state = FinalState
    BY <1>1, <1>3 DEF IInv, WhileSerial, FinalIsPublished
  <2>6. "gate" \notin flags => FinalState = ResultState
    <3>1. ASSUME "gate" \notin flags
          PROVE  flags \cap {"timeout", "budget", "gate"} = flags \cap {"timeout", "budget"}
      BY <3>1
    <3> QED
      BY <3>1 DEF FinalState, ResultState, Verdict
  <2> QED
    BY <2>3, <2>4, <2>5, <2>6 DEF Truthful
<1>4. IInv => TrueReport
  BY <1>3 DEF TrueReport, Repaired
<1>5. IInv => StatusAgrees
  BY <1>3 DEF StatusAgrees
<1>6. IInv => Reported
  BY <1>2, <1>4, <1>5 DEF Reported
<1> QED
  BY <1>6, Invariance, PTL

\* A step that append-step has accepted is in the chain before the run is said
\* to be complete: the runner leaves its loop for want of a step only when
\* status.json no longer lets a call in and no request waits.
THEOREM AcceptedStepsRun == Spec => []AcceptedAppendRuns
<1>1. IInv => AcceptedAppendRuns
  BY DEF IInv, WhileSerial, Serial, CompleteIsOver, AcceptedAppendRuns
<1> QED
  BY <1>1, Invariance, PTL

\* Neither a later halt, nor the winding up of the run, nor a reconciliation,
\* nor an append call takes a final state back, except for a pause that fails.
THEOREM FinalStatesStay == Spec => FinalIsFinal
<1> DEFINE Stays == \/ status'.state = status.state
                    \/ /\ status.state = "paused" /\ status'.state = "failed"
                       /\ flags' \cap {"budget", "gate"} # {}
<1>1. ASSUME IInv, Next, Orderly, status # None, status.state \in Final PROVE Stays
  <2>1. /\ OrderlyHypotheses /\ Serial /\ "abandon" \notin faults
        /\ rpc # "dead" => status.state = state
        /\ rpc # "starting" /\ status.state # "running" /\ Seen.state # "running"
    BY <1>1, OrderlyIsSerial DEF IInv, OrderlyHypotheses, WhileOrderly, StatusIsState, Final, Seen
  <2>2. CASE Run
    <3>1. CASE Start \/ Break \/ NoMoreSteps \/ WriteResult
      BY <2>1, <3>1 DEF Start, Break, NoMoreSteps, WriteResult
    <3>2. CASE Consume \/ StartStep \/ StepEnd
      <4>1. UNCHANGED state /\ rpc # "dead" /\ ~Finalize
        BY <3>2 DEF Consume, StartStep, StepEnd, Finalize
      <4>2. UNCHANGED status \/ status'.state = state'
        BY <2>1, <2>2, <4>1, RunnerPublishes DEF OrderlyHypotheses, OfRunner
      <4> QED
        BY <2>1, <4>1, <4>2
    <3>3. CASE Finalize
      <4>1. status'.state = FinalState /\ flags' = flags /\ ~Over /\ state = status.state
        BY <2>1, <3>3 DEF Finalize, Publish, Over
      <4>2. PICK k \in Halt : state = HaltState[k] /\ flags \cap Halt = {k}
        BY <2>1, <4>1 DEF OrderlyHypotheses, Always, HaltIsState
      <4>3. CASE k = "stop"
        BY <4>1, <4>2, <4>3 DEF FinalState, Verdict, HaltState, Halt
      <4>4. CASE k = "timeout"
        BY <4>1, <4>2, <4>4 DEF FinalState, Verdict, HaltState, Halt
      <4>5. CASE k = "interrupt"
        BY <4>1, <4>2, <4>5 DEF FinalState, Verdict, HaltState, Halt
      <4> QED
        BY <4>3, <4>4, <4>5 DEF Halt
    <3> QED
      BY <2>2, <3>1, <3>2, <3>3 DEF Run
  <2>3. CASE Listen
    <3>1. state # "running"
      BY <2>1, <2>3 DEF Listen, Listening, CheckInbox, InterruptSignal, Deadline, ExceedBudget
    <3> QED
      BY <2>3, <3>1 DEF Listen, CheckInbox, InterruptSignal, Deadline, ExceedBudget, HaltRun
  <2>4. CASE Die \/ Deliver \/ \E k \in Halt : Ask(k)
    BY <2>4 DEF Die, Deliver, Ask
  <2>5. ASSUME NEW r \in Reconciler, Reconcile(r) PROVE Stays
    BY <2>1, <2>5, RepairWrites DEF Reconcile, ReadStatus, CheckResult, ProbePid, WriteRepair,
                                OrderlyHypotheses
  <2>6. ASSUME NEW a \in Appender, AppendStep(a) PROVE Stays
    BY <2>1, <2>6, AppendWrites DEF AppendStep, Validate, WriteRequest, OrderlyHypotheses, InProgress
  <2>7. \A r \in Reconciler : ~AbandonRepair(r)
    BY <2>1 DEF AbandonRepair
  <2> QED
    BY <1>1, <2>2, <2>3, <2>4, <2>5, <2>6, <2>7 DEF Next
<1>2. IInv /\ [Next]_vars => [Orderly /\ status # None /\ status.state \in Final => Stays]_vars
  BY <1>1
<1> QED
  BY <1>2, Invariance, PTL DEF Spec, FinalIsFinal
=============================================================================
