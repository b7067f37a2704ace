-------------------------- MODULE CommentaryProofs --------------------------
(***************************************************************************)
(* Proofs about Commentary for any number of entries, calls, dialogs and   *)
(* sessions.  Two invariants are inductive, each by itself.  IInv: off     *)
(* means that nothing is in flight, the attempt clock of the code is the   *)
(* one of the history variable, and a dialog that asks on with the current *)
(* generation is of this session.  Story: the branches share their         *)
(* beginnings, so that a mark set on one means the same on another, and    *)
(* what precedes a mark has been answered for or is being asked about.     *)
(***************************************************************************)
EXTENDS Commentary, FiniteSetTheorems, SequenceTheorems, TLAPS

ClockIsTrue == since = gap /\ gap \in 0 .. Interval
DialogsAreOfThisSession ==
  \A d \in Dialog : Asking(d) /\ ~stale(d) => ~dialogs[d].over
DialogsAreTyped ==
  dialogs \in [Dialog -> [generation : Nat, at : Question, on : BOOLEAN, over : BOOLEAN]]
GenerationsAreOfThePast ==
  generation \in Nat /\ \A d \in Dialog : dialogs[d].generation <= generation
Switches == enabled \in BOOLEAN /\ sessionOn \in BOOLEAN

IInv ==
  /\ DialogsAreTyped
  /\ GenerationsAreOfThePast
  /\ Switches
  /\ ClockIsTrue
  /\ OffIsSilent
  /\ DialogsAreOfThisSession

\* The extension starts with nothing shown, asked or counted.
LEMMA InitIInv == Init => IInv
<1> SUFFICES ASSUME Init PROVE IInv
  OBVIOUS
<1> USE IntervalAssumption DEF Init
<1>1. DialogsAreTyped /\ GenerationsAreOfThePast
  BY DEF DialogsAreTyped, GenerationsAreOfThePast, Unasked, Question
<1>2. Switches
  BY DEF Switches, Effective
<1>3. ClockIsTrue /\ OffIsSilent
  BY DEF ClockIsTrue, OffIsSilent
<1>4. DialogsAreOfThisSession
  BY DEF DialogsAreOfThisSession, Unasked, Asking
<1> QED
  BY <1>1, <1>2, <1>3, <1>4 DEF IInv


\* The two clocks, in every step.
LEMMA ClockStep == ASSUME ClockIsTrue, [Next]_vars PROVE ClockIsTrue'
<1> USE DEF ClockIsTrue
<1>0. 0 \in 0 .. Interval /\ Interval \in 0 .. Interval
  BY IntervalAssumption
<1>1. CASE \E c \in Call : Answer(c) \/ Throw(c)
  BY <1>1 DEF Answer, Throw
<1>2. CASE turn_end \/ session_shutdown \/ CommandOff
  BY <1>2 DEF turn_end, session_shutdown, CommandOff, invalidateActive
<1>3. CASE agent_settled \/ CommandNow
  BY <1>0, <1>3 DEF agent_settled, CommandNow, Consider, maybeCommentary, requestVars
<1>4. CASE session_start
  BY <1>0, <1>4 DEF session_start
<1>5. CASE CommandOn \/ Prompt \/ Extend \/ Navigate
  BY <1>5 DEF CommandOn, Prompt, Extend, Navigate, requestVars
<1>6. CASE \E d \in Dialog : \/ OpenDialog(d) \/ CloseDialog(d) \/ AnswerDialog(d)
                               \/ ResetFails(d)
  BY <1>6 DEF OpenDialog, CloseDialog, AnswerDialog, ResetFails, requestVars
<1>7. CASE \E d \in Dialog : Commit(d)
  BY <1>7 DEF Commit, reconcileEnabled, invalidateActive
<1>8. CASE Tick
  BY <1>8, IntervalAssumption DEF Tick
<1>9. CASE UNCHANGED vars
  BY <1>9 DEF vars, requestVars
<1> QED
  BY <1>1, <1>2, <1>3, <1>4, <1>5, <1>6, <1>7, <1>8, <1>9 DEF Next

\* The switches, the widget and the request in flight.
LEMMA OffStep == ASSUME Switches, OffIsSilent, [Next]_vars PROVE Switches' /\ OffIsSilent'
<1> USE DEF Switches, OffIsSilent
<1>1. CASE \E c \in Call : Answer(c) \/ Throw(c)
  BY <1>1 DEF Answer, Throw, IsCurrent, treeVars, settingVars
<1>2. CASE turn_end \/ session_shutdown \/ CommandOff
  BY <1>2 DEF turn_end, session_shutdown, CommandOff, invalidateActive, treeVars, settingVars
<1>3. CASE agent_settled \/ CommandNow
  BY <1>3 DEF agent_settled, CommandNow, Consider, maybeCommentary, MayLaunch, requestVars,
              treeVars, settingVars
<1>4. CASE session_start
  BY <1>4 DEF session_start, Effective
<1>5. CASE CommandOn \/ Prompt \/ Extend \/ Navigate
  BY <1>5 DEF CommandOn, Prompt, Extend, Navigate, requestVars, treeVars, settingVars
<1>6. CASE \E d \in Dialog : \/ OpenDialog(d) \/ CloseDialog(d) \/ AnswerDialog(d)
                               \/ ResetFails(d)
  BY <1>6 DEF OpenDialog, CloseDialog, AnswerDialog, ResetFails, requestVars, treeVars, settingVars
<1>7. ASSUME NEW d \in Dialog, Commit(d) PROVE Switches' /\ OffIsSilent'
  <2>1. enabled' \in BOOLEAN
    BY <1>7 DEF Commit, Effective
  <2>2. PICK off \in BOOLEAN : reconcileEnabled(off)
    BY <1>7 DEF Commit, DialogState
  <2>3. UNCHANGED open
    BY <1>7 DEF Commit, treeVars
  <2> QED
    BY <2>1, <2>2, <2>3 DEF reconcileEnabled, invalidateActive
<1>8. CASE Tick
  BY <1>8 DEF Tick, treeVars, settingVars
<1>9. CASE UNCHANGED vars
  BY <1>9 DEF vars, requestVars, treeVars, settingVars
<1> QED
  BY <1>1, <1>2, <1>3, <1>4, <1>5, <1>6, <1>7, <1>8, <1>9 DEF Next

\* The dialogs and the generation: the only thing that makes a question of an
\* earlier session is a boundary, and a boundary leaves it with a generation of
\* the past.
DialogsOK == DialogsAreTyped /\ GenerationsAreOfThePast /\ DialogsAreOfThisSession

LEMMA QuestionStep ==
  ASSUME DialogsOK, UNCHANGED generation, NEW d \in Dialog,
         NEW q \in [generation : Nat, at : Question, on : BOOLEAN, over : BOOLEAN],
         dialogs' = [dialogs EXCEPT ![d] = q], q.generation <= generation,
         q.at \in {"enabled", "details", "scope"} /\ q.generation = generation => ~q.over
  PROVE  DialogsOK'
<1> USE DEF DialogsOK, DialogsAreTyped, GenerationsAreOfThePast, DialogsAreOfThisSession
<1>1. dialogs' \in [Dialog -> [generation : Nat, at : Question, on : BOOLEAN, over : BOOLEAN]]
  OBVIOUS
<1>2. dialogs'[d] = q /\ \A e \in Dialog \ {d} : dialogs'[e] = dialogs[e]
  OBVIOUS
<1>3. \A e \in Dialog : dialogs'[e].generation <= generation
  BY <1>2
<1>4. DialogsAreOfThisSession'
  BY <1>2 DEF Asking, stale
<1> QED
  BY <1>1, <1>3, <1>4

LEMMA BoundaryStep ==
  ASSUME DialogsOK, EndDialogs, generation' = generation + 1
  PROVE  DialogsOK'
<1> USE DEF DialogsOK, DialogsAreTyped, GenerationsAreOfThePast
<1>1. ASSUME NEW d \in Dialog
      PROVE  /\ dialogs'[d] \in [generation : Nat, at : Question, on : BOOLEAN, over : BOOLEAN]
             /\ dialogs'[d].generation = dialogs[d].generation
  BY DEF EndDialogs
<1>2. DialogsAreTyped'
  BY <1>1 DEF EndDialogs
<1>3. GenerationsAreOfThePast'
  BY <1>1
<1>4. ASSUME NEW d \in Dialog PROVE stale(d)'
  BY <1>1 DEF stale
<1>5. DialogsAreOfThisSession'
  BY <1>4 DEF DialogsAreOfThisSession
<1> QED
  BY <1>2, <1>3, <1>5

LEMMA DialogsStep == ASSUME DialogsOK, [Next]_vars PROVE DialogsOK'
<1>1. CASE UNCHANGED <<dialogs, generation>>
  BY <1>1 DEF DialogsOK, DialogsAreTyped, GenerationsAreOfThePast, DialogsAreOfThisSession,
              Asking, stale
<1>2. CASE \/ \E c \in Call : Answer(c) \/ Throw(c)
           \/ turn_end \/ agent_settled \/ CommandOff \/ CommandOn \/ CommandNow
           \/ Prompt \/ Extend \/ Navigate \/ Tick \/ UNCHANGED vars
  BY <1>1, <1>2 DEF Answer, Throw, turn_end, agent_settled, CommandOff, CommandOn, CommandNow,
                    Prompt, Extend, Navigate, Tick, vars
<1>3. CASE session_start \/ session_shutdown
  BY <1>3, BoundaryStep DEF session_start, session_shutdown
<1>4. ASSUME NEW d \in Dialog, OpenDialog(d) PROVE DialogsOK'
  <2> DEFINE q == [generation |-> generation, at |-> "enabled", on |-> TRUE, over |-> FALSE]
  <2>1. dialogs' = [dialogs EXCEPT ![d] = q] /\ UNCHANGED generation
    BY <1>4 DEF OpenDialog
  <2>2. /\ q \in [generation : Nat, at : Question, on : BOOLEAN, over : BOOLEAN]
        /\ q.generation <= generation /\ ~q.over
    BY DEF DialogsOK, GenerationsAreOfThePast, Question
  <2> HIDE DEF q
  <2> QED
    BY <2>1, <2>2, QuestionStep
<1>5. ASSUME NEW d \in Dialog, CloseDialog(d) \/ Commit(d) \/ ResetFails(d) PROVE DialogsOK'
  <2>1. dialogs' = [dialogs EXCEPT ![d] = Closed] /\ UNCHANGED generation
    BY <1>5 DEF CloseDialog, Commit, ResetFails
  <2> DEFINE q == [generation |-> 0, at |-> "closed", on |-> TRUE, over |-> FALSE]
  <2>2. Closed = q
    BY DEF Closed
  <2>3. /\ q \in [generation : Nat, at : Question, on : BOOLEAN, over : BOOLEAN]
        /\ q.generation <= generation /\ ~q.over
    BY DEF DialogsOK, GenerationsAreOfThePast, Question
  <2> HIDE DEF q
  <2> QED
    BY <2>1, <2>2, <2>3, QuestionStep
<1>6. ASSUME NEW d \in Dialog, AnswerDialog(d) PROVE DialogsOK'
  <2>1. PICK on \in BOOLEAN :
          dialogs' = [dialogs EXCEPT ![d].on = on, ![d].at = NextQuestion(@, on)]
    BY <1>6 DEF AnswerDialog
  <2> DEFINE q == [dialogs[d] EXCEPT !.on = on, !.at = NextQuestion(dialogs[d].at, on)]
  <2>2. dialogs' = [dialogs EXCEPT ![d] = q] /\ UNCHANGED generation
    BY <1>6, <2>1 DEF AnswerDialog
  <2>3. NextQuestion(dialogs[d].at, on) \in Question
    BY DEF NextQuestion, Question
  <2>4. /\ q \in [generation : Nat, at : Question, on : BOOLEAN, over : BOOLEAN]
        /\ q.generation = dialogs[d].generation /\ q.over = dialogs[d].over
    BY <2>3 DEF DialogsOK, DialogsAreTyped
  <2>5. q.generation <= generation /\ ~q.over
    BY <1>6, <2>4 DEF AnswerDialog, Asking, stale, DialogsOK, GenerationsAreOfThePast,
                      DialogsAreOfThisSession
  <2> HIDE DEF q
  <2> QED
    BY <2>2, <2>4, <2>5, QuestionStep
<1> QED
  BY <1>2, <1>3, <1>4, <1>5, <1>6 DEF Next

LEMMA StepIInv == IInv /\ [Next]_vars => IInv'
<1> SUFFICES ASSUME IInv, [Next]_vars PROVE IInv'
  OBVIOUS
<1>1. ClockIsTrue'
  BY ClockStep DEF IInv
<1>2. Switches' /\ OffIsSilent'
  BY OffStep DEF IInv
<1>3. DialogsOK'
  BY DialogsStep DEF IInv, DialogsOK
<1> QED
  BY <1>1, <1>2, <1>3 DEF IInv, DialogsOK

LEMMA Invariance == Spec => []IInv
<1> QED
  BY InitIInv, StepIInv, PTL DEF Spec

-----------------------------------------------------------------------------
(* The theorems.                                                           *)

\* While commentary is off, by the environment, the files, the dialog, its reset or
\* the command, nothing is shown and nothing that could still be shown is in flight.
THEOREM OffIsQuiet == Spec => []OffIsSilent
<1>1. IInv => OffIsSilent
  BY DEF IInv
<1> QED
  BY <1>1, Invariance, PTL

\* A settling agent never starts a request within an Interval of the last one,
\* however that one ended: a superseded request keeps the clock.
THEOREM AttemptsKeepTheirDistance == Spec => AttemptFloor
<1>1. ASSUME IInv, agent_settled, active = None, active' # None PROVE gap = Interval
  <2>1. PICK c \in Call : maybeCommentary(FALSE, c)
    BY <1>1 DEF agent_settled, Consider, requestVars
  <2>2. since >= Interval
    BY <2>1 DEF maybeCommentary, MayLaunch
  <2>3. since = gap /\ gap \in 0 .. Interval
    BY <1>1 DEF IInv, ClockIsTrue
  <2> QED
    BY <2>2, <2>3, IntervalAssumption
<1>2. IInv => [agent_settled /\ active = None /\ active' # None => gap = Interval]_vars
  BY <1>1
<1> QED
  BY <1>2, Invariance, PTL DEF AttemptFloor

\* A dialog that outlives its session changes no setting of the next one.
THEOREM DialogsCommitToTheirSession == Spec => DialogOfThisSession
<1> DEFINE Allowed == \/ generation' # generation
                      \/ \E d \in Dialog : dialogs'[d].at # dialogs[d].at /\ ~dialogs[d].over
<1>1. ASSUME IInv, [Next]_vars, <<saved, overridden>>' # <<saved, overridden>> PROVE Allowed
  <2>1. CASE session_start
    BY <1>1, <2>1 DEF session_start, IInv, GenerationsAreOfThePast
  <2>2. ASSUME NEW d \in Dialog, Commit(d) \/ ResetFails(d) PROVE Allowed
    <3>1. /\ dialogs' = [dialogs EXCEPT ![d] = Closed]
          /\ dialogs[d].at = "scope" /\ ~stale(d)
      BY <2>2 DEF Commit, ResetFails
    <3>2. dialogs'[d].at = "closed"
      BY <1>1, <3>1 DEF Closed, IInv, DialogsAreTyped
    <3>3. ~dialogs[d].over
      BY <1>1, <3>1 DEF IInv, DialogsAreOfThisSession, Asking
    <3> QED
      BY <3>1, <3>2, <3>3
  <2>3. CASE \/ \E c \in Call : Answer(c) \/ Throw(c)
             \/ turn_end \/ agent_settled \/ session_shutdown
             \/ CommandOff \/ CommandOn \/ CommandNow
             \/ \E d \in Dialog : OpenDialog(d) \/ CloseDialog(d) \/ AnswerDialog(d)
             \/ Prompt \/ Extend \/ Navigate \/ Tick \/ UNCHANGED vars
    <3>1. UNCHANGED settingVars
      BY <2>3 DEF Answer, Throw, turn_end, agent_settled, session_shutdown, CommandOff,
                  CommandOn, CommandNow, OpenDialog, CloseDialog, AnswerDialog, Prompt, Extend,
                  Navigate, Tick, vars
    <3> QED
      BY <1>1, <3>1 DEF settingVars
  <2> QED
    BY <1>1, <2>1, <2>2, <2>3 DEF Next
<1>2. IInv /\ [Next]_vars =>
        [<<saved, overridden>>' # <<saved, overridden>> => Allowed]_vars
  BY <1>1
<1> QED
  BY <1>2, Invariance, PTL DEF DialogOfThisSession, Spec

-----------------------------------------------------------------------------
(* The tree, the marks and the request in flight.                          *)

Known == UNION {Entries(b) : b \in tree}

\* Entries are numbered as they come, and a branch that has an entry has the
\* way to it from the root.
TreeIsGrown ==
  /\ tree \subseteq Branches /\ branch \in tree
  /\ \E n \in 0 .. MaxEntry : Known = 1 .. n
  /\ \A b \in tree : \A i \in DOMAIN b : i <= b[i]
  /\ \A a, b \in tree : \A i \in DOMAIN a, j \in DOMAIN b :
       a[i] = b[j] => i = j /\ \A k \in 1 .. i : a[k] = b[k]

\* The request in flight is a call under way, of a session that is open, made on
\* a branch of the tree.
RequestIsOfTheSession ==
  active # None =>
    /\ open /\ active \in Request
    /\ calls[active.call] # None
    /\ calls[active.call].saw \in tree /\ calls[active.call].delta \subseteq Known

MarkIsKnown(m) == m # None => m \in Mark /\ m.tailRef \in Known \cup {None}

Shapes ==
  /\ {moves, open, busy, turned} \subseteq BOOLEAN
  /\ env \in Environments /\ saved \in Files /\ overridden \in Setting
  /\ calls \in [Call -> Observation \cup {None}]
  /\ tip \in Branches \cup {None}
  /\ generation \in 0 .. MaxBoundary

MarksAreKnown ==
  /\ MarkIsKnown(consumed)
  /\ active # None => MarkIsKnown(active.restore)
  /\ spent \subseteq Known

\* Of no branch, wherever the user navigates, is anything before the mark lost.
AllCovered ==
  /\ \A b \in tree : Entries(b) \subseteq deltaSince(b, consumed) \cup spent \cup InFlight
  /\ active # None =>
       \A b \in tree : Entries(b) \subseteq deltaSince(b, active.restore) \cup spent

NoneTwice ==
  ~moves =>
    /\ deltaSince(branch, consumed) \cap (spent \cup InFlight) = {}
    /\ active # None => deltaSince(branch, active.restore) \cap spent = {}

Story ==
  /\ Shapes /\ TreeIsGrown /\ RequestIsOfTheSession /\ MarksAreKnown
  /\ AllCovered /\ NoneTwice

-----------------------------------------------------------------------------
(* Lemmas about branches and marks.                                        *)

LEMMA BranchIsSeq ==
  ASSUME NEW b \in Branches
  PROVE  /\ b \in Seq(1 .. MaxEntry) /\ Len(b) \in 0 .. MaxEntry /\ DOMAIN b = 1 .. Len(b)
         /\ Entries(b) \subseteq 1 .. MaxEntry
         /\ \A i \in DOMAIN b : b[i] \in 1 .. MaxEntry
         /\ \A i, j \in DOMAIN b : i < j => b[i] < b[j]
<1>1. PICK n \in 0 .. MaxEntry : b \in [1 .. n -> 1 .. MaxEntry]
  BY DEF Branches
<1>2. n \in Nat /\ DOMAIN b = 1 .. n
  BY <1>1, EntryAssumption
<1>3. b \in Seq(1 .. MaxEntry) /\ Len(b) = n
  <2>1. b \in Seq(1 .. MaxEntry)
    BY <1>1, <1>2, SeqDef
  <2>2. Len(b) \in Nat /\ 1 .. Len(b) = 1 .. n
    BY <1>2, <2>1, LenProperties
  <2> QED
    BY <1>2, <2>1, <2>2
<1> QED
  BY <1>1, <1>2, <1>3 DEF Branches, Entries

LEMMA SeqIsBranch ==
  ASSUME NEW b \in Seq(1 .. MaxEntry), Len(b) <= MaxEntry,
         \A i, j \in DOMAIN b : i < j => b[i] < b[j]
  PROVE  b \in Branches
<1>1. Len(b) \in 0 .. MaxEntry /\ b \in [1 .. Len(b) -> 1 .. MaxEntry]
  BY EntryAssumption
<1> QED
  BY <1>1 DEF Branches

\* What a mark covers of a branch: the way to its entry.
LEMMA CoveredByMark ==
  ASSUME NEW b \in Branches, NEW m, NEW i \in DOMAIN b
  PROVE  b[i] \notin deltaSince(b, m) <=>
           m # None /\ \E k \in DOMAIN b : i <= k /\ b[k] = m.tailRef
<1>0. /\ DOMAIN b = 1 .. Len(b) /\ Len(b) \in Nat
      /\ \A j, k \in DOMAIN b : j < k => b[j] < b[k]
      /\ \A j \in DOMAIN b : b[j] \in Nat
  <2>1. \A j \in 1 .. MaxEntry : j \in Nat
    BY EntryAssumption
  <2> QED
    BY <2>1, BranchIsSeq, EntryAssumption
<1>1. \A j, k \in DOMAIN b : b[j] = b[k] => j = k
  BY <1>0
<1>2. CASE m # None /\ m.tailRef \in Entries(b)
  <2>1. PICK t \in DOMAIN b : b[t] = m.tailRef
    BY <1>2 DEF Entries
  <2>2. b[i] \in deltaSince(b, m) <=> \E k \in 1 .. (i - 1) : b[k] = m.tailRef
    <3>1. b[i] \in deltaSince(b, m) <=>
            \E j \in DOMAIN b : b[j] = b[i] /\ \E k \in 1 .. (j - 1) : b[k] = m.tailRef
      BY <1>2 DEF deltaSince
    <3> QED
      BY <1>1, <3>1
  <2>3. (\E k \in 1 .. (i - 1) : b[k] = m.tailRef) <=> t < i
    BY <1>0, <1>1, <2>1
  <2>4. (\E k \in DOMAIN b : i <= k /\ b[k] = m.tailRef) <=> i <= t
    BY <1>0, <1>1, <2>1
  <2> QED
    BY <1>0, <1>2, <2>2, <2>3, <2>4
<1>3. CASE ~(m # None /\ m.tailRef \in Entries(b))
  BY <1>3 DEF deltaSince, Entries
<1> QED
  BY <1>2, <1>3

LEMMA DeltaOfBranch == ASSUME NEW b, NEW m PROVE deltaSince(b, m) \subseteq Entries(b)
BY DEF deltaSince, Entries

\* A mark set at the end of a branch covers all of it.
LEMMA NothingAfterTheEnd ==
  ASSUME NEW b \in Branches
  PROVE  /\ markOf(b) \in Mark /\ markOf(b) # None /\ deltaSince(b, markOf(b)) = {}
         /\ markOf(b).tailRef \in Entries(b) \cup {None}
<1>1. /\ b \in Seq(1 .. MaxEntry) /\ DOMAIN b = 1 .. Len(b) /\ Len(b) \in 0 .. MaxEntry /\ Len(b) \in Nat
      /\ \A i \in DOMAIN b : b[i] \in 1 .. MaxEntry
  BY BranchIsSeq, EntryAssumption
<1>2. b # <<>> => Len(b) \in DOMAIN b
  BY <1>1
<1>3. markOf(b).tailRef = (IF b = <<>> THEN None ELSE b[Len(b)])
  BY DEF markOf
<1>4. markOf(b) \in Mark
  BY <1>1, <1>2 DEF markOf, Mark
<1>5. markOf(b) # None
  BY <1>4, NullAssumption
<1>6. ASSUME NEW i \in DOMAIN b PROVE b[i] \notin deltaSince(b, markOf(b))
  <2>1. b # <<>> /\ i <= Len(b)
    BY <1>1, <1>6
  <2> QED
    BY <1>2, <1>3, <1>5, <2>1, CoveredByMark
<1>7. deltaSince(b, markOf(b)) = {}
  BY <1>6, DeltaOfBranch DEF Entries
<1>8. markOf(b).tailRef \in Entries(b) \cup {None}
  BY <1>2, <1>3 DEF Entries
<1> QED
  BY <1>4, <1>5, <1>7, <1>8

\* What a branch of the tree loses to a mark set at the end of the current one
\* is on the current one: they share the way to that entry.
LEMMA MarkOfAnotherBranch ==
  ASSUME TreeIsGrown, NEW b \in tree
  PROVE  Entries(b) \subseteq deltaSince(b, markOf(branch)) \cup Entries(branch)
<1>1. SUFFICES ASSUME NEW i \in DOMAIN b, b[i] \notin deltaSince(b, markOf(branch))
               PROVE  b[i] \in Entries(branch)
  BY DEF Entries
<1>2. b \in Branches /\ branch \in Branches /\ branch \in tree
  BY DEF TreeIsGrown
<1>3. PICK k \in DOMAIN b : i <= k /\ b[k] = markOf(branch).tailRef
  BY <1>1, <1>2, CoveredByMark
<1>4. markOf(branch).tailRef \in Entries(branch)
  <2>1. b[k] \in Nat
    BY <1>2, BranchIsSeq, EntryAssumption
  <2> QED
    BY <1>2, <1>3, <2>1, NothingAfterTheEnd, NoneAssumption
<1>5. PICK j \in DOMAIN branch : branch[j] = b[k]
  BY <1>3, <1>4 DEF Entries
<1>6. k = j /\ \A l \in 1 .. k : b[l] = branch[l]
  BY <1>2, <1>5 DEF TreeIsGrown
<1>7. i \in 1 .. k /\ i \in DOMAIN branch
  BY <1>2, <1>3, <1>5, <1>6, BranchIsSeq, EntryAssumption
<1> QED
  BY <1>6, <1>7 DEF Entries

\* A new entry is new to all branches and comes after every mark.
LEMMA ExtendGrows ==
  ASSUME TreeIsGrown, Extend
  PROVE  \E e \in 1 .. MaxEntry :
           /\ e \notin Known /\ Known' = Known \cup {e} /\ TreeIsGrown'
           /\ tree' = tree \cup {branch'} /\ Entries(branch)' = Entries(branch) \cup {e}
           /\ \A m : MarkIsKnown(m) =>
                deltaSince(branch', m) = deltaSince(branch, m) \cup {e}
<1>1. PICK n \in 0 .. MaxEntry : Known = 1 .. n
  BY DEF TreeIsGrown
<1> DEFINE e == n + 1
<1>2. n \in Nat /\ MaxEntry \in Nat /\ Cardinality(Known) = n
  BY <1>1, FS_Interval, EntryAssumption
<1>3. /\ branch' = Append(branch, e) /\ tree' = tree \cup {branch'} /\ e \in 1 .. MaxEntry
  BY <1>1, <1>2 DEF Extend, Known
<1> HIDE DEF e
<1>4. /\ branch \in Branches /\ branch \in tree /\ tree \subseteq Branches
      /\ \A b \in tree : \A i \in DOMAIN b : b[i] \in Known /\ i <= b[i]
  BY DEF TreeIsGrown, Known, Entries
<1>5. /\ branch \in Seq(1 .. MaxEntry) /\ Len(branch) \in Nat /\ DOMAIN branch = 1 .. Len(branch)
      /\ \A i, j \in DOMAIN branch : i < j => branch[i] < branch[j]
  BY <1>4, BranchIsSeq, EntryAssumption
<1>6. e \notin Known /\ e \in Nat /\ \A x \in Known : x \in Nat /\ x < e
  BY <1>1, <1>2 DEF e
<1>7. /\ branch' \in Seq(1 .. MaxEntry) /\ Len(branch') = Len(branch) + 1
      /\ DOMAIN branch' = DOMAIN branch \cup {Len(branch')} /\ Len(branch') \notin DOMAIN branch
      /\ \A i \in DOMAIN branch : branch'[i] = branch[i]
      /\ branch'[Len(branch')] = e
  BY <1>3, <1>5
<1>8. Entries(branch)' = Entries(branch) \cup {e}
  BY <1>7 DEF Entries
<1>9. Known' = Known \cup {e}
  BY <1>3, <1>4, <1>8 DEF Known
<1>10. Len(branch') <= e
  <2>1. CASE branch = <<>>
    BY <1>6, <1>7, <2>1 DEF e
  <2>2. CASE branch # <<>>
    <3>1. Len(branch) \in DOMAIN branch
      BY <1>5, <2>2
    <3>2. Len(branch) <= branch[Len(branch)] /\ branch[Len(branch)] < e /\ branch[Len(branch)] \in Nat
      BY <1>4, <1>6, <3>1
    <3> QED
      BY <1>5, <1>6, <1>7, <3>2
  <2> QED
    BY <2>1, <2>2
<1>11. branch' \in Branches
  <2>1. \A i, j \in DOMAIN branch' : i < j => branch'[i] < branch'[j]
    BY <1>4, <1>5, <1>6, <1>7
  <2>2. Len(branch') <= MaxEntry
    BY <1>2, <1>3, <1>5, <1>7, <1>10
  <2> QED
    BY <1>7, <2>1, <2>2, SeqIsBranch
<1>12. TreeIsGrown'
  <2>1. tree' \subseteq Branches /\ branch' \in tree'
    BY <1>3, <1>4, <1>11
  <2>2. \E k \in 0 .. MaxEntry : Known' = 1 .. k
    <3>1. e \in 0 .. MaxEntry /\ Known' = 1 .. e
      BY <1>1, <1>2, <1>3, <1>9 DEF e
    <3> QED
      BY <3>1
  <2>3. \A b \in tree' : \A i \in DOMAIN b : i <= b[i]
    BY <1>3, <1>4, <1>7, <1>10
  <2>4. ASSUME NEW a \in tree, NEW i \in DOMAIN a, NEW j \in DOMAIN branch', a[i] = branch'[j]
        PROVE  i = j /\ \A k \in 1 .. i : a[k] = branch'[k]
    <3>1. j \in DOMAIN branch /\ a[i] = branch[j]
      BY <1>4, <1>6, <1>7, <2>4
    <3>2. i = j /\ \A k \in 1 .. i : a[k] = branch[k]
      BY <1>4, <3>1 DEF TreeIsGrown
    <3>3. \A k \in 1 .. i : k \in DOMAIN branch
      BY <1>5, <3>1, <3>2
    <3> QED
      BY <1>7, <3>2, <3>3
  <2>5. ASSUME NEW i \in DOMAIN branch', NEW j \in DOMAIN branch', branch'[i] = branch'[j]
        PROVE  i = j
    BY <1>4, <1>5, <1>6, <1>7, <2>5
  <2>6. \A a, b \in tree' : \A i \in DOMAIN a, j \in DOMAIN b :
          a[i] = b[j] => i = j /\ \A k \in 1 .. i : a[k] = b[k]
    <3>1. SUFFICES ASSUME NEW a \in tree', NEW b \in tree', NEW i \in DOMAIN a, NEW j \in DOMAIN b,
                          a[i] = b[j]
                   PROVE  i = j /\ \A k \in 1 .. i : a[k] = b[k]
      OBVIOUS
    <3>2. CASE a \in tree /\ b \in tree
      BY <3>1, <3>2 DEF TreeIsGrown
    <3>3. CASE a \in tree /\ b = branch'
      BY <2>4, <3>1, <3>3
    <3>4. CASE a = branch' /\ b \in tree
      BY <2>4, <3>1, <3>4
    <3>5. CASE a = branch' /\ b = branch'
      BY <2>5, <3>1, <3>5
    <3> QED
      BY <1>3, <3>2, <3>3, <3>4, <3>5
  <2> QED
    BY <2>1, <2>2, <2>3, <2>6 DEF TreeIsGrown
<1>13. ASSUME NEW m, MarkIsKnown(m)
       PROVE  deltaSince(branch', m) = deltaSince(branch, m) \cup {e}
  <2>1. m # None => m.tailRef # e
    BY <1>6, <1>13, NoneAssumption DEF MarkIsKnown
  <2>2. ASSUME NEW i \in DOMAIN branch
        PROVE  branch[i] \in deltaSince(branch', m) <=> branch[i] \in deltaSince(branch, m)
    <3>1. (\E k \in DOMAIN branch' : i <= k /\ branch'[k] = m.tailRef) /\ m # None <=>
          (\E k \in DOMAIN branch : i <= k /\ branch[k] = m.tailRef) /\ m # None
      BY <1>7, <2>1
    <3>2. i \in DOMAIN branch' /\ branch'[i] = branch[i]
      BY <1>7
    <3> QED
      BY <1>4, <1>11, <3>1, <3>2, CoveredByMark
  <2>3. e \in deltaSince(branch', m)
    <3>1. Len(branch') \in DOMAIN branch' /\ branch'[Len(branch')] = e
      BY <1>7
    <3>2. ~\E k \in DOMAIN branch' : Len(branch') <= k /\ m # None /\ branch'[k] = m.tailRef
      BY <1>5, <1>7, <2>1
    <3> QED
      BY <1>11, <3>1, <3>2, CoveredByMark
  <2>4. deltaSince(branch', m) \subseteq Entries(branch)' /\ deltaSince(branch, m) \subseteq Entries(branch)
    BY DeltaOfBranch
  <2> QED
    BY <1>8, <2>2, <2>3, <2>4 DEF Entries
<1> QED
  BY <1>3, <1>6, <1>8, <1>9, <1>12, <1>13

-----------------------------------------------------------------------------
(* What a step does to the request, the mark and the tree.                 *)

RequestStays ==
  /\ UNCHANGED <<moves, consumed, active, spent>>
  /\ active # None => calls'[active.call] = calls[active.call]
TreeStays == UNCHANGED <<moves, tree, branch>>

Restored == active # None /\ active' = None /\ consumed' = active.restore /\ UNCHANGED spent
Settled  == active' = None /\ UNCHANGED consumed /\ spent' = spent \cup InFlight
Launched == open /\ \E c \in Call, force \in BOOLEAN : maybeCommentary(force, c)

LEMMA Invalidation ==
  ASSUME NEW restore \in BOOLEAN, invalidateActive(restore), UNCHANGED moves
  PROVE  (UNCHANGED calls /\ RequestStays) \/ Restored \/ Settled
<1>1. CASE restore /\ active # None
  BY <1>1 DEF invalidateActive, Restored
<1>2. CASE restore /\ active = None
  BY <1>2 DEF invalidateActive, RequestStays, Settled, InFlight
<1>3. CASE ~restore
  BY <1>3 DEF invalidateActive, Settled
<1> QED
  BY <1>1, <1>2, <1>3

LEMMA Kinds ==
  ASSUME Shapes, RequestIsOfTheSession, [Next]_vars
  PROVE  \/ RequestStays /\ TreeStays
         \/ RequestStays /\ (Extend \/ Navigate)
         \/ (Restored \/ Settled \/ Launched) /\ TreeStays
         \/ session_start
<1> DEFINE Goal == \/ RequestStays /\ TreeStays
                   \/ RequestStays /\ (Extend \/ Navigate)
                   \/ (Restored \/ Settled \/ Launched) /\ TreeStays
                   \/ session_start
<1>1. ASSUME NEW c \in Call, Answer(c) \/ Throw(c) PROVE Goal
  <2>1. TreeStays
    BY <1>1 DEF Answer, Throw, treeVars, TreeStays
  <2>2. CASE IsCurrent(c)
    BY <1>1, <2>1, <2>2 DEF Answer, Throw, IsCurrent, Restored, Settled
  <2>3. CASE ~IsCurrent(c)
    <3>1. UNCHANGED <<active, consumed, spent>>
      BY <1>1, <2>3 DEF Answer, Throw
    <3>2. active # None => calls'[active.call] = calls[active.call]
      BY <1>1, <2>3 DEF Answer, Throw, IsCurrent, Shapes, RequestIsOfTheSession, Request
    <3> QED
      BY <2>1, <3>1, <3>2 DEF RequestStays, TreeStays
  <2> QED
    BY <2>2, <2>3
<1>2. CASE turn_end \/ CommandOff \/ session_shutdown
  <2>1. \E restore \in BOOLEAN : invalidateActive(restore)
    BY <1>2 DEF turn_end, CommandOff, session_shutdown
  <2>2. TreeStays
    BY <1>2 DEF turn_end, CommandOff, session_shutdown, treeVars, TreeStays
  <2> QED
    BY <2>1, <2>2, Invalidation DEF TreeStays
<1>3. CASE agent_settled \/ CommandNow
  <2>1. TreeStays
    BY <1>3 DEF agent_settled, CommandNow, treeVars, TreeStays
  <2>2. Launched \/ UNCHANGED requestVars
    BY <1>3 DEF agent_settled, CommandNow, Consider, Launched
  <2> QED
    BY <2>1, <2>2 DEF requestVars, RequestStays, TreeStays
<1>4. CASE Prompt \/ Tick \/ CommandOn
  BY <1>4 DEF Prompt, Tick, CommandOn, requestVars, treeVars, RequestStays, TreeStays
<1>5. CASE Extend \/ Navigate
  BY <1>5 DEF Extend, Navigate, requestVars, RequestStays
<1>6. CASE \E d \in Dialog : \/ OpenDialog(d) \/ CloseDialog(d) \/ AnswerDialog(d)
                               \/ ResetFails(d)
  BY <1>6 DEF OpenDialog, CloseDialog, AnswerDialog, ResetFails, requestVars, treeVars,
              RequestStays, TreeStays
<1>7. ASSUME NEW d \in Dialog, Commit(d) PROVE Goal
  <2>1. TreeStays /\ UNCHANGED calls /\ \E off : reconcileEnabled(off)
    BY <1>7 DEF Commit, treeVars, TreeStays
  <2>2. invalidateActive(FALSE) \/ UNCHANGED <<consumed, active, spent>>
    BY <2>1 DEF reconcileEnabled
  <2> QED
    BY <2>1, <2>2, Invalidation DEF RequestStays, TreeStays
<1>8. CASE UNCHANGED vars
  BY <1>8 DEF vars, requestVars, treeVars, RequestStays, TreeStays
<1> QED
  BY <1>1, <1>2, <1>3, <1>4, <1>5, <1>6, <1>7, <1>8 DEF Next

\* The tree grows, or a new session starts with a tree of its own.
LEMMA TreeStep == ASSUME Shapes, TreeIsGrown, RequestIsOfTheSession, [Next]_vars PROVE TreeIsGrown'
<1>1. CASE TreeStays
  BY <1>1 DEF TreeStays, TreeIsGrown, Known, Entries
<1>2. CASE Extend
  BY <1>2, ExtendGrows
<1>3. CASE Navigate
  BY <1>3 DEF Navigate, TreeIsGrown, Known, Entries
<1>4. CASE session_start
  <2>1. CASE UNCHANGED <<tree, branch>>
    BY <2>1 DEF TreeIsGrown, Known, Entries
  <2>2. CASE branch' = <<>> /\ tree' = {<<>>}
    <3>1. <<>> \in Branches
      <4>1. <<>> \in Seq(1 .. MaxEntry) /\ Len(<<>>) <= MaxEntry /\ DOMAIN <<>> = {}
        BY EntryAssumption
      <4> QED
        BY <4>1, SeqIsBranch
    <3>2. Known' = 1 .. 0 /\ 0 \in 0 .. MaxEntry
      BY <2>2, EntryAssumption DEF Known, Entries
    <3> QED
      BY <2>2, <3>1, <3>2 DEF TreeIsGrown
  <2> QED
    BY <1>4, <2>1, <2>2 DEF session_start
<1> QED
  BY <1>1, <1>2, <1>3, <1>4, Kinds

\* Sets, records and functions.
LEMMA ShapesStep == ASSUME Shapes, TreeIsGrown, [Next]_vars PROVE Shapes'
<1>1. branch \in Branches
  BY DEF TreeIsGrown
<1>2. /\ moves' \in BOOLEAN /\ open' \in BOOLEAN /\ busy' \in BOOLEAN /\ turned' \in BOOLEAN
      /\ env' \in Environments /\ saved' \in Files /\ overridden' \in Setting
  <2>1. CASE \E c \in Call : Answer(c) \/ Throw(c)
    BY <2>1 DEF Shapes, Answer, Throw, treeVars, settingVars
  <2>2. CASE turn_end \/ session_shutdown \/ CommandOff \/ CommandOn
    BY <2>2 DEF Shapes, turn_end, session_shutdown, CommandOff, CommandOn, treeVars, settingVars,
                requestVars
  <2>3. CASE agent_settled \/ CommandNow
    BY <2>3 DEF Shapes, agent_settled, CommandNow, Consider, maybeCommentary, treeVars, settingVars,
                requestVars
  <2>4. CASE session_start
    BY <2>4 DEF Shapes, session_start, Files, Setting
  <2>5. CASE Prompt \/ Extend \/ Navigate \/ Tick \/ UNCHANGED vars
    BY <2>5 DEF Shapes, Prompt, Extend, Navigate, Tick, vars, treeVars, settingVars, requestVars
  <2>6. CASE \E d \in Dialog : OpenDialog(d) \/ CloseDialog(d) \/ AnswerDialog(d)
    BY <2>6 DEF Shapes, OpenDialog, CloseDialog, AnswerDialog, treeVars, settingVars, requestVars
  <2>7. CASE \E d \in Dialog : Commit(d) \/ ResetFails(d)
    <3>1. UNCHANGED <<moves, open, busy, turned, env>>
      BY <2>7 DEF Commit, ResetFails, treeVars, requestVars
    <3>2. overridden' \in {overridden, "none", "on", "off"}
      BY <2>7 DEF Commit, ResetFails, Override
    <3>3. \/ UNCHANGED saved \/ saved' = [user |-> "none", project |-> "none"]
          \/ \E s \in Setting : saved' = [saved EXCEPT !.user = s]
      BY <2>7 DEF Commit, ResetFails, Override, Setting
    <3>4. saved' \in Files
      BY <3>3 DEF Shapes, Files, Setting
    <3> QED
      BY <3>1, <3>2, <3>4 DEF Shapes, Setting
  <2> QED
    BY <2>1, <2>2, <2>3, <2>4, <2>5, <2>6, <2>7 DEF Next
<1>3. calls' \in [Call -> Observation \cup {None}]
  <2>1. CASE \E c \in Call : Answer(c) \/ Throw(c)
    BY <2>1 DEF Shapes, Answer, Throw
  <2>2. CASE agent_settled \/ CommandNow
    <3>1. deltaSince(branch, consumed) \subseteq 1 .. MaxEntry
      BY <1>1, DeltaOfBranch, BranchIsSeq
    <3>2. [saw |-> branch, delta |-> deltaSince(branch, consumed)] \in Observation
      BY <1>1, <3>1 DEF Observation
    <3> QED
      BY <2>2, <3>2 DEF Shapes, agent_settled, CommandNow, Consider, maybeCommentary, requestVars
  <2>3. CASE UNCHANGED calls
    BY <2>3 DEF Shapes
  <2>4. \/ UNCHANGED calls \/ agent_settled \/ CommandNow
        \/ \E c \in Call : Answer(c) \/ Throw(c)
    BY DEF Next, turn_end, session_start, session_shutdown, CommandOff, CommandOn, Prompt, Extend,
           Navigate, Tick, OpenDialog, CloseDialog, AnswerDialog, Commit, ResetFails, requestVars, vars
  <2> QED
    BY <2>1, <2>2, <2>3, <2>4
<1>4. tip' \in Branches \cup {None}
  <2>1. ASSUME NEW c \in Call, Answer(c) PROVE tip' \in Branches \cup {None}
    <3>1. calls[c] \in Observation
      BY <2>1 DEF Answer, Shapes
    <3> QED
      BY <2>1, <3>1 DEF Answer, Observation, Shapes
  <2>2. CASE tip' \in {tip, None}
    BY <2>2 DEF Shapes
  <2>3. tip' \in {tip, None} \/ \E c \in Call : Answer(c)
    BY DEF Next, Throw, turn_end, agent_settled, session_start, session_shutdown, CommandOff,
           CommandOn, CommandNow, Prompt, Extend, Navigate, Tick, OpenDialog, CloseDialog,
           AnswerDialog, Commit, ResetFails, reconcileEnabled, requestVars, vars
  <2> QED
    BY <2>1, <2>2, <2>3
<1>5. generation' \in 0 .. MaxBoundary
  <2>1. UNCHANGED generation \/ (generation < MaxBoundary /\ generation' = generation + 1)
    BY DEF Next, Answer, Throw, turn_end, agent_settled, session_start, session_shutdown, CommandOff,
           CommandOn, CommandNow, Prompt, Extend, Navigate, Tick, OpenDialog, CloseDialog,
           AnswerDialog, Commit, ResetFails, vars
  <2> QED
    BY <2>1, BoundaryAssumption DEF Shapes
<1> QED
  BY <1>2, <1>3, <1>4, <1>5 DEF Shapes

\* A request outlives neither its session nor, within it, any branch or entry.
LEMMA SessionFrame ==
  ASSUME Shapes, TreeIsGrown, RequestIsOfTheSession, [Next]_vars
  PROVE  /\ UNCHANGED open \/ active' = None
         /\ session_start \/ (tree \subseteq tree' /\ Known \subseteq Known')
<1>1. UNCHANGED open \/ active' = None
  BY DEF Next, Answer, Throw, turn_end, agent_settled, session_start, session_shutdown, CommandOff,
         CommandOn, CommandNow, Prompt, Extend, Navigate, Tick, OpenDialog, CloseDialog,
         AnswerDialog, Commit, ResetFails, invalidateActive, treeVars, vars
<1>2. TreeStays \/ Navigate => tree' = tree /\ Known' = Known
  BY DEF TreeStays, Navigate, Known
<1>3. Extend => tree \subseteq tree' /\ Known \subseteq Known'
  BY ExtendGrows
<1> QED
  BY <1>1, <1>2, <1>3, Kinds

LEMMA LaunchMakesARequest ==
  ASSUME Shapes, TreeIsGrown, MarksAreKnown, Launched
  PROVE  /\ active = None /\ active' \in Request /\ active'.restore = consumed
         /\ calls'[active'.call] \in Observation
         /\ calls'[active'.call] = [saw |-> branch, delta |-> deltaSince(branch, consumed)]
         /\ consumed' = markOf(branch) /\ UNCHANGED spent
         /\ branch \in Branches /\ deltaSince(branch, consumed) \subseteq Known
<1>1. branch \in Branches /\ Entries(branch) \subseteq Known
  BY DEF TreeIsGrown, Known
<1>2. /\ deltaSince(branch, consumed) \subseteq Known
      /\ deltaSince(branch, consumed) \subseteq 1 .. MaxEntry
  BY <1>1, DeltaOfBranch, BranchIsSeq
<1>3. PICK c \in Call, force \in BOOLEAN : maybeCommentary(force, c)
  BY DEF Launched
<1>4. [saw |-> branch, delta |-> deltaSince(branch, consumed)] \in Observation
  BY <1>1, <1>2 DEF Observation
<1>5. /\ active = None /\ active' = [call |-> c, restore |-> consumed]
      /\ calls'[c] = [saw |-> branch, delta |-> deltaSince(branch, consumed)]
      /\ consumed' = markOf(branch) /\ UNCHANGED spent
  BY <1>3 DEF maybeCommentary, MayLaunch, Shapes
<1>6. active' \in Request
  BY <1>5 DEF Request, MarksAreKnown, MarkIsKnown
<1> QED
  BY <1>1, <1>2, <1>4, <1>5, <1>6

LEMMA RequestStep ==
  ASSUME Shapes, TreeIsGrown, RequestIsOfTheSession, MarksAreKnown, [Next]_vars
  PROVE  RequestIsOfTheSession' /\ MarksAreKnown'
<1>1. /\ UNCHANGED open \/ active' = None
      /\ session_start \/ (tree \subseteq tree' /\ Known \subseteq Known')
  BY SessionFrame
<1>2. ASSUME NEW m, MarkIsKnown(m), Known \subseteq Known' PROVE MarkIsKnown(m)'
  BY <1>2 DEF MarkIsKnown
<1>3. CASE session_start
  BY <1>3 DEF session_start, RequestIsOfTheSession, MarksAreKnown, MarkIsKnown
<1>4. CASE RequestStays /\ ~session_start
  BY <1>1, <1>4 DEF RequestStays, RequestIsOfTheSession, MarksAreKnown, MarkIsKnown
<1>5. CASE (Restored \/ Settled) /\ ~session_start
  <2>1. InFlight \subseteq Known
    BY DEF InFlight, RequestIsOfTheSession
  <2>2. /\ active' = None /\ spent' \subseteq Known
        /\ consumed' = consumed \/ (active # None /\ consumed' = active.restore)
    BY <1>5, <2>1 DEF Restored, Settled, MarksAreKnown
  <2> QED
    BY <1>1, <1>5, <2>2 DEF RequestIsOfTheSession, MarksAreKnown, MarkIsKnown
<1>6. CASE Launched /\ ~session_start
  <2>1. calls'[active'.call] # None
    BY <1>6, LaunchMakesARequest, NullAssumption
  <2>2. /\ calls'[active'.call].saw \in tree' /\ calls'[active'.call].delta \subseteq Known'
    BY <1>1, <1>6, LaunchMakesARequest DEF TreeIsGrown
  <2>3. active' # None /\ open'
    BY <1>1, <1>6, LaunchMakesARequest, NullAssumption DEF Launched
  <2>4. MarkIsKnown(markOf(branch))
    BY <1>6, LaunchMakesARequest, NothingAfterTheEnd DEF MarkIsKnown, TreeIsGrown, Known
  <2>5. MarkIsKnown(consumed)' /\ MarkIsKnown(active.restore)'
    BY <1>1, <1>6, <2>4, LaunchMakesARequest DEF MarkIsKnown, MarksAreKnown
  <2>6. spent' \subseteq Known'
    BY <1>1, <1>6, LaunchMakesARequest DEF MarksAreKnown
  <2> QED
    BY <1>6, <2>1, <2>2, <2>3, <2>5, <2>6, LaunchMakesARequest DEF RequestIsOfTheSession, MarksAreKnown
<1> QED
  BY <1>3, <1>4, <1>5, <1>6, Kinds

-----------------------------------------------------------------------------
(* Accounting.                                                             *)

\* What a request leaves behind when it is taken back, answered or given up.
LEMMA InFlightIs ==
  /\ active = None => InFlight = {}
  /\ active # None => InFlight = calls[active.call].delta
  /\ active' = None => InFlight' = {}
  /\ active' # None => InFlight' = calls'[active'.call].delta
BY DEF InFlight

LEMMA CoveredStep == ASSUME Story, [Next]_vars PROVE AllCovered'
<1> USE DEF Story
<1>1. CASE RequestStays /\ (TreeStays \/ Navigate)
  <2>1. tree' = tree /\ UNCHANGED <<active, consumed, spent>> /\ InFlight' = InFlight
    BY <1>1, InFlightIs DEF RequestStays, TreeStays, Navigate
  <2> QED
    BY <2>1 DEF AllCovered
<1>2. CASE RequestStays /\ Extend
  <2>1. UNCHANGED <<active, consumed, spent>> /\ InFlight' = InFlight
    BY <1>2, InFlightIs DEF RequestStays
  <2>2. /\ tree' = tree \cup {branch'}
        /\ \A m : MarkIsKnown(m) =>
             Entries(branch') \ deltaSince(branch', m) \subseteq Entries(branch) \ deltaSince(branch, m)
    BY <1>2, ExtendGrows
  <2>3. branch \in tree
    BY DEF TreeIsGrown
  <2>4. Entries(branch') \subseteq deltaSince(branch', consumed) \cup spent \cup InFlight
    BY <2>2, <2>3 DEF AllCovered, MarksAreKnown
  <2>5. active # None => Entries(branch') \subseteq deltaSince(branch', active.restore) \cup spent
    BY <2>2, <2>3 DEF AllCovered, MarksAreKnown
  <2> QED
    BY <2>1, <2>2, <2>4, <2>5 DEF AllCovered
<1>3. CASE Restored /\ TreeStays
  BY <1>3, InFlightIs DEF Restored, TreeStays, AllCovered
<1>4. CASE Settled /\ TreeStays
  BY <1>4, InFlightIs DEF Settled, TreeStays, AllCovered
<1>5. CASE Launched /\ TreeStays
  <2>1. /\ active = None /\ active'.restore = consumed /\ active' # None
        /\ consumed' = markOf(branch) /\ UNCHANGED <<spent, tree>>
        /\ InFlight' = deltaSince(branch, consumed)
    BY <1>5, LaunchMakesARequest, NullAssumption, InFlightIs DEF TreeStays
  <2>2. \A b \in tree : Entries(b) \subseteq deltaSince(b, consumed) \cup spent
    BY <2>1, InFlightIs DEF AllCovered
  <2>3. branch \in tree
    BY DEF TreeIsGrown
  <2>4. ASSUME NEW b \in tree
        PROVE  Entries(b) \subseteq deltaSince(b, markOf(branch)) \cup spent \cup deltaSince(branch, consumed)
    BY <2>2, <2>3, MarkOfAnotherBranch
  <2> QED
    BY <2>1, <2>2, <2>4 DEF AllCovered
<1>6. CASE session_start
  <2>1. active' = None /\ consumed' = None
    BY <1>6 DEF session_start
  <2>2. \A b \in tree' : deltaSince(b, None) = Entries(b)
    BY DEF deltaSince
  <2> QED
    BY <2>1, <2>2 DEF AllCovered
<1> QED
  BY <1>1, <1>2, <1>3, <1>4, <1>5, <1>6, Kinds

LEMMA TwiceStep == ASSUME Story, [Next]_vars PROVE NoneTwice'
<1> USE DEF Story
<1>1. CASE RequestStays /\ TreeStays
  <2>1. UNCHANGED <<moves, branch, active, consumed, spent>> /\ InFlight' = InFlight
    BY <1>1, InFlightIs DEF RequestStays, TreeStays
  <2> QED
    BY <2>1 DEF NoneTwice
<1>2. CASE RequestStays /\ Navigate
  BY <1>2 DEF Navigate, NoneTwice
<1>3. CASE RequestStays /\ Extend
  <2>1. UNCHANGED <<moves, active, consumed, spent>> /\ InFlight' = InFlight
    BY <1>3, InFlightIs DEF RequestStays
  <2>2. spent \subseteq Known /\ InFlight \subseteq Known
    BY InFlightIs DEF MarksAreKnown, RequestIsOfTheSession
  <2>3. PICK e : e \notin Known /\ \A m : MarkIsKnown(m) =>
                   deltaSince(branch', m) = deltaSince(branch, m) \cup {e}
    BY <1>3, ExtendGrows
  <2>4. ~moves => deltaSince(branch', consumed) \cap (spent \cup InFlight) = {}
    BY <2>2, <2>3 DEF NoneTwice, MarksAreKnown
  <2>5. ~moves /\ active # None => deltaSince(branch', active.restore) \cap spent = {}
    BY <2>2, <2>3 DEF NoneTwice, MarksAreKnown
  <2> QED
    BY <2>1, <2>4, <2>5 DEF NoneTwice
<1>4. CASE Restored /\ TreeStays
  BY <1>4, InFlightIs DEF Restored, TreeStays, NoneTwice
<1>5. CASE Settled /\ TreeStays
  BY <1>5, InFlightIs DEF Settled, TreeStays, NoneTwice
<1>6. CASE Launched /\ TreeStays
  <2>1. /\ active = None /\ active'.restore = consumed /\ active' # None
        /\ consumed' = markOf(branch) /\ UNCHANGED <<spent, branch, moves>>
    BY <1>6, LaunchMakesARequest, NullAssumption DEF TreeStays
  <2>2. deltaSince(branch, markOf(branch)) = {}
    BY <1>6, LaunchMakesARequest, NothingAfterTheEnd
  <2> QED
    BY <2>1, <2>2 DEF NoneTwice
<1>7. CASE session_start
  <2>1. active' = None /\ spent' = {}
    BY <1>7 DEF session_start
  <2> QED
    BY <2>1, InFlightIs DEF NoneTwice
<1> QED
  BY <1>1, <1>2, <1>3, <1>4, <1>5, <1>6, <1>7, Kinds

LEMMA StoryStep == Story /\ [Next]_vars => Story'
<1> SUFFICES ASSUME Story, [Next]_vars PROVE Story'
  OBVIOUS
<1>1. Shapes' /\ TreeIsGrown' /\ RequestIsOfTheSession' /\ MarksAreKnown'
  BY ShapesStep, TreeStep, RequestStep DEF Story
<1> QED
  BY <1>1, CoveredStep, TwiceStep DEF Story

LEMMA InitStory == Init => Story
<1> SUFFICES ASSUME Init PROVE Story
  OBVIOUS
<1> USE DEF Init
<1>1. <<>> \in Branches /\ Entries(<<>>) = {}
  <2>1. <<>> \in Seq(1 .. MaxEntry) /\ Len(<<>>) <= MaxEntry /\ DOMAIN <<>> = {}
    BY EntryAssumption
  <2> QED
    BY <2>1, SeqIsBranch DEF Entries
<1>2. Shapes
  <2>1. 0 \in 0 .. MaxBoundary
    BY BoundaryAssumption
  <2>2. calls \in [Call -> Observation \cup {None}]
    OBVIOUS
  <2> QED
    BY <2>1, <2>2 DEF Shapes, Setting
<1>3. TreeIsGrown
  <2>1. Known = 1 .. 0 /\ 0 \in 0 .. MaxEntry
    BY <1>1, EntryAssumption DEF Known
  <2> QED
    BY <1>1, <2>1 DEF TreeIsGrown
<1>4. RequestIsOfTheSession /\ MarksAreKnown /\ AllCovered /\ NoneTwice
  BY <1>1, InFlightIs DEF RequestIsOfTheSession, MarksAreKnown, MarkIsKnown, AllCovered, NoneTwice,
                          deltaSince
<1> QED
  BY <1>2, <1>3, <1>4 DEF Story

LEMMA StoryInvariance == Spec => []Story
BY InitStory, StoryStep, PTL DEF Spec

-----------------------------------------------------------------------------
(* The theorems about the story of a session.                              *)

\* The branch, the marks, the calls and the dialogs keep their shape, and the
\* request in flight is always a call that is still under way.
THEOREM TypeCorrect == Spec => []TypeOK
<1>1. ASSUME IInv, Story PROVE TypeOK
  <2> USE <1>1 DEF IInv, Story
  <2>1. active \in [call : {c \in Call : calls[c] # None}, restore : Mark \cup {None}] \cup {None}
    BY DEF RequestIsOfTheSession, Request
  <2>2. \A c \in Call : calls[c] # None =>
          calls[c].saw \in Branches /\ calls[c].delta \subseteq 1 .. MaxEntry
    BY DEF Shapes, Observation
  <2>3. dialogs \in [Dialog -> DialogState]
    <3>1. \A d \in Dialog : dialogs[d].generation \in 0 .. MaxBoundary
      BY BoundaryAssumption DEF DialogsAreTyped, GenerationsAreOfThePast, Shapes
    <3> QED
      BY <3>1 DEF DialogsAreTyped, DialogState
  <2>4. spent \subseteq 1 .. MaxEntry
    <3>1. Known \subseteq 1 .. MaxEntry
      BY BranchIsSeq DEF TreeIsGrown, Known
    <3> QED
      BY <3>1 DEF MarksAreKnown
  <2>5. consumed \in Mark \cup {None}
    BY DEF MarksAreKnown, MarkIsKnown
  <2> QED
    BY <2>1, <2>2, <2>3, <2>4, <2>5 DEF TypeOK, Shapes, TreeIsGrown, Switches, ClockIsTrue
<1> QED
  BY <1>1, Invariance, StoryInvariance, PTL

\* Nothing is silently lost: an entry of the branch that no later request will
\* be offered has been answered for, is being asked about or was given up when
\* the user switched commentary off, however turns, supersessions, sessions and
\* navigation follow each other; and as long as the branch only grows, nothing
\* is offered twice.
THEOREM ActivityIsAccounted == Spec => []Accounted
<1>1. Story => NothingLost
  BY DEF Story, AllCovered, TreeIsGrown, NothingLost
<1>2. Story => CountedOnce
  BY DEF Story, NoneTwice, CountedOnce
<1>3. Story => Accounted
  BY <1>1, <1>2 DEF Accounted
<1> QED
  BY <1>3, StoryInvariance, PTL

\* Two branches of the tree with the same mark at their end are the same.
LEMMA SameMarkSameBranch ==
  ASSUME TreeIsGrown, NEW a \in tree, isSameBranch(branch, markOf(a))
  PROVE  a = branch
<1>1. /\ a \in Branches /\ branch \in Branches /\ branch \in tree
      /\ Len(a) = Len(branch) /\ markOf(a).tailRef = markOf(branch).tailRef
  BY DEF TreeIsGrown, isSameBranch, markOf
<1>2. /\ a \in Seq(1 .. MaxEntry) /\ branch \in Seq(1 .. MaxEntry)
      /\ DOMAIN a = 1 .. Len(a) /\ DOMAIN branch = 1 .. Len(a) /\ Len(a) \in Nat
  BY <1>1, BranchIsSeq, EntryAssumption
<1>3. CASE Len(a) = 0
  BY <1>1, <1>2, <1>3
<1>4. CASE Len(a) # 0
  <2>1. Len(a) \in DOMAIN a /\ Len(a) \in DOMAIN branch /\ a # <<>> /\ branch # <<>>
    BY <1>1, <1>2, <1>4
  <2>2. a[Len(a)] = branch[Len(a)]
    BY <1>1, <2>1 DEF markOf
  <2>3. \A k \in 1 .. Len(a) : a[k] = branch[k]
    BY <1>1, <2>1, <2>2 DEF TreeIsGrown
  <2> QED
    BY <1>1, <1>2, <2>3
<1> QED
  BY <1>3, <1>4

\* A tip that appears is about the branch the session is on at that moment: a
\* superseded, aborted or earlier session's answer changes nothing, and the
\* length and the last entry of a branch are enough to recognise it.
THEOREM TipsFit == Spec => TipFits
<1>1. ASSUME Story, [Next]_vars, tip' # None, tip' # tip PROVE open /\ tip' = branch
  <2>1. \E c \in Call : Answer(c)
    BY <1>1 DEF Next, Throw, turn_end, agent_settled, session_start, session_shutdown, CommandOff,
           CommandOn, CommandNow, Prompt, Extend, Navigate, Tick, OpenDialog, CloseDialog,
           AnswerDialog, Commit, ResetFails, reconcileEnabled, requestVars, vars
  <2>2. PICK c \in Call : Answer(c)
    BY <2>1
  <2>3. /\ active # None /\ active.call = c /\ tip' = calls[c].saw
        /\ isSameBranch(branch, markOf(calls[c].saw))
    BY <1>1, <2>2 DEF Answer, IsCurrent
  <2>4. open /\ calls[c].saw \in tree
    BY <1>1, <2>3 DEF Story, RequestIsOfTheSession
  <2>5. calls[c].saw = branch
    BY <1>1, <2>3, <2>4, SameMarkSameBranch DEF Story
  <2> QED
    BY <2>3, <2>4, <2>5
<1>2. Story /\ [Next]_vars => [tip' # None /\ tip' # tip => open /\ tip' = branch]_vars
  BY <1>1
<1> QED
  BY <1>2, StoryInvariance, PTL DEF TipFits, Spec
=============================================================================
