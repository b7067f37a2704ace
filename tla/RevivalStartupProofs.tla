------------------------ MODULE RevivalStartupProofs ------------------------
(***************************************************************************)
(* That a refused revival never runs, for any number of revivals of one    *)
(* session, any patience and any lag, wherever processes die, are late or  *)
(* fail to write; and that a started one does, where no process is late by *)
(* more than a third of what its runner waits for.                         *)
(***************************************************************************)
EXTENDS RevivalStartup, TLAPS

\* Every step is one of these.
Act(a) == Spawn(a) \/ ParentStep(a) \/ RunnerStep(a) \/ End(a) \/ ParentDies(a)
            \/ RunnerDies(a) \/ ChildEnds(a)

LEMMA StartupSteps ==
  ASSUME Next
  PROVE  (\E a \in Attempt : Act(a)) \/ Tick
BY DEF Next, Act

(***************************************************************************)
(* The state keeps its shape.                                              *)
(***************************************************************************)
Clocks == age \in [Process -> Nat] /\ lag \in [Process -> Nat]

LEMMA StepTyped ==
  ASSUME Clocks, NEW x \in Process, Step(x)
  PROVE  Clocks'
BY DEF Clocks, Step

LEMMA ParentGoesTyped ==
  ASSUME TypeOK, NEW a \in Attempt, NEW l \in ParentPC, ParentGoes(a, l)
  PROVE  parent' \in [Attempt -> ParentPC] /\ Clocks'
<1>1. <<"parent", a>> \in Process
  BY DEF Process
<1> QED BY <1>1, StepTyped DEF TypeOK, ParentGoes, Clocks

LEMMA RunnerGoesTyped ==
  ASSUME TypeOK, NEW a \in Attempt, NEW l \in RunnerPC, RunnerGoes(a, l)
  PROVE  runner' \in [Attempt -> RunnerPC] /\ Clocks'
<1>1. <<"runner", a>> \in Process
  BY DEF Process
<1> QED BY <1>1, StepTyped DEF TypeOK, RunnerGoes, Clocks

LEMMA ParentStepTyped ==
  ASSUME TypeOK, NEW a \in Attempt, ParentStep(a) \/ ParentDies(a)
  PROVE  TypeOK'
<1> USE ParentGoesTyped DEF TypeOK, Clocks, ParentPC, ParentWaits, files
<1>1. CASE ReadStartup(a)
  BY <1>1 DEF ReadStartup, Onward
<1>2. CASE GiveUpStartup(a)
  BY <1>2 DEF GiveUpStartup
<1>3. CASE SendAck(a)
  BY <1>3 DEF SendAck
<1>4. CASE SendProceed(a)
  BY <1>4 DEF SendProceed
<1>5. CASE Tidy(a)
  BY <1>5 DEF Tidy
<1>6. CASE Terminate(a)
  BY <1>6 DEF Terminate
<1>7. CASE ParentDies(a)
  BY <1>7 DEF ParentDies
<1> QED BY <1>1, <1>2, <1>3, <1>4, <1>5, <1>6, <1>7 DEF ParentStep

LEMMA RunnerStepTyped ==
  ASSUME TypeOK, NEW a \in Attempt,
         RunnerStep(a) \/ End(a) \/ RunnerDies(a) \/ ChildEnds(a)
  PROVE  TypeOK'
<1> USE RunnerGoesTyped DEF TypeOK, Clocks, RunnerPC, RunnerWaits, Ended, files
<1>1. CASE Acquire(a)
  BY <1>1 DEF Acquire
<1>2. CASE WriteReady(a)
  BY <1>2 DEF WriteReady, WriteState
<1>3. CASE SeeAck(a)
  BY <1>3 DEF SeeAck
<1>4. CASE WriteAcknowledged(a)
  BY <1>4 DEF WriteAcknowledged, WriteState
<1>5. CASE SeeProceed(a)
  BY <1>5 DEF SeeProceed
<1>6. CASE TimeOut(a)
  BY <1>6 DEF TimeOut
<1>7. CASE Begin(a)
  BY <1>7 DEF Begin
<1>8. CASE WriteError(a)
  BY <1>8 DEF WriteError
<1>9. CASE Release(a)
  BY <1>9 DEF Release
<1>10. CASE Killed(a)
  BY <1>10 DEF Killed
<1>11. CASE End(a)
  BY <1>11 DEF End
<1>12. CASE RunnerDies(a)
  BY <1>12 DEF RunnerDies
<1>13. CASE ChildEnds(a)
  BY <1>13 DEF ChildEnds
<1> QED
  BY <1>1, <1>2, <1>3, <1>4, <1>5, <1>6, <1>7, <1>8, <1>9, <1>10, <1>11, <1>12,
     <1>13 DEF RunnerStep

THEOREM TypeCorrect == Spec => []TypeOK
<1>1. Init => TypeOK
  BY DEF Init, TypeOK, ParentPC, RunnerPC
<1>2. TypeOK /\ [Next]_vars => TypeOK'
  <2> SUFFICES ASSUME TypeOK, [Next]_vars
               PROVE  TypeOK'
    OBVIOUS
  <2>1. CASE UNCHANGED vars
    BY <2>1 DEF TypeOK, vars, files
  <2>2. ASSUME NEW a \in Attempt, Spawn(a)
        PROVE  TypeOK'
    <3> USE DEF TypeOK, files
    <3>1. CASE ParentGoes(a, "refused") /\ UNCHANGED <<runner, files>>
      BY <2>2, <3>1, ParentGoesTyped DEF Spawn, ParentPC, ParentWaits, Clocks, RunnerPC
    <3>2. CASE ~(ParentGoes(a, "refused") /\ UNCHANGED <<runner, files>>)
      BY <2>2, <3>2 DEF Spawn, ParentPC, ParentWaits, RunnerPC, Process
    <3> QED BY <3>1, <3>2
  <2>3. CASE Tick
    BY <2>3, PatienceAssumption DEF TypeOK, Tick, OldAge, Process, files
  <2> QED
    BY <2>1, <2>2, <2>3, ParentStepTyped, RunnerStepTyped, StartupSteps DEF Act
<1> QED BY <1>1, <1>2, PTL DEF Spec

-----------------------------------------------------------------------------
(***************************************************************************)
(* A runner that runs, or is about to, was authorized: its parent has      *)
(* written proceed, and from there it never reports a refusal.             *)
(***************************************************************************)
Authorized(a) == parent[a] \in {"tidy", "started", "gone"}
Committed(a) == a \in proceed \/ a \in ran \/ runner[a] \in {"clearing", "running"}
CommittedAreAuthorized == \A a \in Attempt : Committed(a) => Authorized(a)

THEOREM RefusalsAreFinal == Spec => []RefusedNeverRuns
<1>1. Init => CommittedAreAuthorized
  BY DEF Init, CommittedAreAuthorized, Committed
<1>2. TypeOK /\ CommittedAreAuthorized /\ [Next]_vars => CommittedAreAuthorized'
  <2> SUFFICES ASSUME TypeOK, CommittedAreAuthorized, [Next]_vars,
                      NEW b \in Attempt, Committed(b)'
               PROVE  Authorized(b)'
    BY DEF CommittedAreAuthorized
  <2> USE DEF TypeOK, CommittedAreAuthorized, Committed, Authorized, files
  <2>1. CASE UNCHANGED vars
    BY <2>1 DEF vars
  <2>2. CASE Tick
    BY <2>2 DEF Tick
  <2>3. ASSUME NEW a \in Attempt, Spawn(a)
        PROVE  Authorized(b)'
    BY <2>3 DEF Spawn, ParentGoes
  <2>4. ASSUME NEW a \in Attempt, ParentStep(a) \/ ParentDies(a)
        PROVE  Authorized(b)'
    BY <2>4 DEF ParentStep, ParentDies, ParentGoes, ReadStartup, GiveUpStartup, SendAck,
                SendProceed, Tidy, Terminate, ParentWaits
  <2>5. ASSUME NEW a \in Attempt, RunnerStep(a) \/ End(a) \/ RunnerDies(a) \/ ChildEnds(a)
        PROVE  Authorized(b)'
    BY <2>5 DEF RunnerStep, End, RunnerDies, ChildEnds, RunnerGoes, Acquire, WriteReady,
                WriteState, SeeAck, WriteAcknowledged, SeeProceed, TimeOut, Begin,
                WriteError, Release, Killed
  <2> QED BY <2>1, <2>2, <2>3, <2>4, <2>5, StartupSteps DEF Act
<1>3. CommittedAreAuthorized => RefusedNeverRuns
  BY DEF CommittedAreAuthorized, Committed, Authorized, RefusedNeverRuns
<1> QED BY <1>1, <1>2, <1>3, TypeCorrect, PTL DEF Spec
-----------------------------------------------------------------------------
(***************************************************************************)
(* Where no process is late by more than MaxLag, the time that a runner    *)
(* has waited for proceed is made up of the lags of the steps in between:  *)
(* its parent reads the acknowledgement, its parent writes proceed, and it *)
(* looks.  Three lags fit into its patience.                               *)
(***************************************************************************)
Punctual == "suspend" \notin Faults /\ 3 * MaxLag <= RunnerPatience

LagsAreBounded == \A x \in Process : lag[x] <= MaxLag

\* Nothing answers an acknowledgement that has not been sent.
Early(a) ==
  parent[a] \in {"idle", "waitReady", "sendAck"} =>
    a \notin ack /\ runner[a] # "acking" /\ startup[a] # "acknowledged"

\* The runner has acknowledged and its parent has read this, or can.
Agreed(a) ==
  \/ parent[a] \in {"sendProceed", "tidy", "started"}
  \/ parent[a] = "waitAck" /\ startup[a] = "acknowledged"

\* It waits for proceed, or it is past it, or it is dead.
OnItsWay(a) ==
  \/ runner[a] \in {"waitProceed", "clearing", "dead"}
  \/ a \in ran /\ runner[a] \in {"running", "releasing", "ended", "orphaning"}

\* How long it has waited, by how far its parent has come.
WaitIsAccounted(a) ==
  runner[a] = "waitProceed" =>
    /\ parent[a] = "waitAck" => age[<<"runner", a>>] <= lag[<<"parent", a>>]
    /\ parent[a] = "sendProceed" => age[<<"runner", a>>] <= MaxLag + lag[<<"parent", a>>]
    /\ parent[a] \in {"tidy", "started"} =>
         a \in proceed /\ age[<<"runner", a>>] <= 2 * MaxLag + lag[<<"runner", a>>]

InStep(a) == Early(a) /\ (Agreed(a) => OnItsWay(a) /\ WaitIsAccounted(a))
Timely == LagsAreBounded /\ \A a \in Attempt : InStep(a)

LEMMA LagsStayBounded ==
  ASSUME Punctual, TypeOK, LagsAreBounded, [Next]_vars
  PROVE  LagsAreBounded'
<1> USE PatienceAssumption DEF LagsAreBounded, TypeOK
<1>1. CASE UNCHANGED vars
  BY <1>1 DEF vars
<1>2. CASE Tick
  <2>1. lag' = [x \in Process |-> IF ~Ready(x) THEN 0
                                  ELSE IF lag[x] < MaxLag THEN lag[x] + 1 ELSE lag[x]]
    BY <1>2 DEF Tick
  <2> QED BY <2>1
<1>3. ASSUME NEW a \in Attempt, Act(a)
      PROVE  LagsAreBounded'
  <2>1. \/ lag' = [x \in Process |-> IF x[2] = a THEN 0 ELSE lag[x]]
        \/ \E y \in Process : lag' = [lag EXCEPT ![y] = 0]
    <3>1. <<"parent", a>> \in Process /\ <<"runner", a>> \in Process
      BY DEF Process
    <3>2. ASSUME NEW l, ParentGoes(a, l) \/ RunnerGoes(a, l)
          PROVE  \E y \in Process : lag' = [lag EXCEPT ![y] = 0]
      BY <3>1, <3>2 DEF ParentGoes, RunnerGoes, Step
    <3>3. CASE Spawn(a)
      BY <3>2, <3>3 DEF Spawn
    <3>4. CASE ParentStep(a) \/ ParentDies(a)
      BY <3>2, <3>4 DEF ParentStep, ParentDies, ReadStartup, GiveUpStartup, SendAck,
                        SendProceed, Tidy, Terminate
    <3>5. CASE RunnerStep(a) \/ End(a) \/ RunnerDies(a) \/ ChildEnds(a)
      BY <3>2, <3>5 DEF RunnerStep, End, RunnerDies, ChildEnds, Acquire, WriteReady,
                        WriteState, SeeAck, WriteAcknowledged, SeeProceed, TimeOut, Begin,
                        WriteError, Release, Killed
    <3> QED BY <1>3, <3>3, <3>4, <3>5 DEF Act
  <2>2. 0 <= MaxLag
    OBVIOUS
  <2> QED BY <2>1, <2>2
<1> QED BY <1>1, <1>2, <1>3, StartupSteps

\* The parts of the state that an attempt can see.
Own(a) ==
  <<parent[a], runner[a], startup[a], a \in ack, a \in proceed, a \in ran,
    age[<<"runner", a>>], lag[<<"parent", a>>], lag[<<"runner", a>>]>>

LEMMA InStepIsOwn ==
  ASSUME NEW a \in Attempt, InStep(a), UNCHANGED Own(a)
  PROVE  InStep(a)'
BY DEF InStep, Own, Early, Agreed, OnItsWay, WaitIsAccounted

\* An attempt does not touch another one, but for the lease.
LEMMA OthersAreLeftAlone ==
  ASSUME TypeOK, NEW a \in Attempt, NEW b \in Attempt, b # a, Act(a)
  PROVE  UNCHANGED Own(b)
<1>1. /\ <<"parent", a>> \in Process /\ <<"runner", a>> \in Process
      /\ <<"parent", b>> \in Process /\ <<"runner", b>> \in Process
      /\ <<"parent", b>> # <<"parent", a>> /\ <<"runner", b>> # <<"runner", a>>
      /\ <<"parent", b>> # <<"runner", a>> /\ <<"runner", b>> # <<"parent", a>>
      /\ <<"parent", b>>[2] = b /\ <<"runner", b>>[2] = b
  BY DEF Process
<1> USE <1>1 DEF Own, TypeOK, files, ParentGoes, RunnerGoes, Step
<1>2. CASE Spawn(a)
  BY <1>2 DEF Spawn
<1>3. CASE ParentStep(a) \/ ParentDies(a)
  BY <1>3 DEF ParentStep, ParentDies, ReadStartup, GiveUpStartup, SendAck, SendProceed,
              Tidy, Terminate
<1>4. CASE RunnerStep(a) \/ End(a) \/ RunnerDies(a) \/ ChildEnds(a)
  BY <1>4 DEF RunnerStep, End, RunnerDies, ChildEnds, Acquire, WriteReady, WriteState,
              SeeAck, WriteAcknowledged, SeeProceed, TimeOut, Begin, WriteError, Release,
              Killed
<1> QED BY <1>2, <1>3, <1>4 DEF Act

LEMMA TickInStep ==
  ASSUME Punctual, TypeOK, LagsAreBounded, NEW a \in Attempt, InStep(a), Tick
  PROVE  InStep(a)'
<1> DEFINE p == <<"parent", a>>
           r == <<"runner", a>>
<1>1. p \in Process /\ r \in Process
  BY DEF Process
<1>2. UNCHANGED <<parent, runner, startup, ack, proceed, ran>>
  BY DEF Tick, files
<1>3. age[r]' = age[r] \/ age[r]' = age[r] + 1
  BY <1>1 DEF Tick
<1>4. ASSUME NEW x \in Process, Ready(x)
      PROVE  lag[x]' = lag[x] + 1
  BY <1>4 DEF Tick, Punctual
<1>5. ParentReady(a) => lag[p]' = lag[p] + 1
  BY <1>1, <1>4 DEF Ready
<1>6. RunnerReady(a) => lag[r]' = lag[r] + 1
  BY <1>1, <1>4 DEF Ready
<1>7. age[r] \in Nat /\ lag[p] \in Nat /\ lag[r] \in Nat
  BY <1>1 DEF TypeOK
<1>8. ASSUME Agreed(a), WaitIsAccounted(a)
      PROVE  WaitIsAccounted(a)'
  <2> SUFFICES ASSUME runner[a] = "waitProceed"
               PROVE  WaitIsAccounted(a)'
    BY <1>2 DEF WaitIsAccounted
  <2> USE <1>2, <1>3, <1>7, <1>8, PatienceAssumption
  <2>1. CASE parent[a] = "waitAck"
    <3>1. ParentReady(a)
      BY <2>1 DEF Agreed, ParentReady, Expected, ParentWaits
    <3> HIDE DEF p, r
    <3> QED BY <2>1, <3>1, <1>5 DEF WaitIsAccounted, p, r
  <2>2. CASE parent[a] = "sendProceed"
    <3>1. ParentReady(a)
      BY <2>2 DEF ParentReady
    <3> QED BY <2>2, <3>1, <1>5 DEF WaitIsAccounted
  <2>3. CASE parent[a] \in {"tidy", "started"}
    <3>1. RunnerReady(a)
      BY <2>3 DEF RunnerReady, WaitIsAccounted
    <3> QED BY <2>3, <3>1, <1>6 DEF WaitIsAccounted
  <2> QED BY <2>1, <2>2, <2>3 DEF Agreed
<1> QED BY <1>2, <1>8 DEF InStep, Early, Agreed, OnItsWay

LEMMA ParentInStep ==
  ASSUME TypeOK, LagsAreBounded, NEW a \in Attempt, InStep(a),
         ParentStep(a) \/ ParentDies(a)
  PROVE  InStep(a)'
<1> DEFINE p == <<"parent", a>>
           r == <<"runner", a>>
<1>1. p \in Process /\ r \in Process /\ p # r
  BY DEF Process
<1>2. ASSUME NEW l, ParentGoes(a, l)
      PROVE  /\ parent[a]' = l
             /\ lag[p]' = 0 /\ lag[r]' = lag[r] /\ age[r]' = age[r]
  BY <1>1, <1>2 DEF ParentGoes, Step, TypeOK
<1>3. /\ age[r] \in Nat /\ lag[p] \in Nat /\ lag[r] \in Nat
      /\ lag[p] <= MaxLag
  BY <1>1 DEF TypeOK, LagsAreBounded
<1>4. UNCHANGED runner /\ UNCHANGED ran
  BY DEF ParentStep, ParentDies, ReadStartup, GiveUpStartup, SendAck, SendProceed, Tidy,
         Terminate
<1>5. CASE ReadStartup(a) \/ SendProceed(a) \/ Tidy(a)
  <2> USE <1>2, <1>3, <1>4, PatienceAssumption
          DEF InStep, Early, Agreed, OnItsWay, WaitIsAccounted, TypeOK, files
  <2>1. CASE ReadStartup(a)
    BY <2>1 DEF ReadStartup, ParentWaits, Expected, Onward
  <2>2. CASE SendProceed(a)
    BY <2>2 DEF SendProceed
  <2>3. CASE Tidy(a)
    BY <2>3 DEF Tidy
  <2> QED BY <1>5, <2>1, <2>2, <2>3
<1>6. CASE SendAck(a)
  BY <1>6, <1>2, <1>4 DEF SendAck, InStep, Early, Agreed
<1>7. CASE GiveUpStartup(a) \/ Terminate(a) \/ ParentDies(a)
  <2>1. parent[a]' \in {"term", "kill", "refused", "gone"}
    BY <1>2, <1>7 DEF GiveUpStartup, Terminate, ParentDies
  <2> QED BY <2>1 DEF InStep, Early, Agreed
<1> QED BY <1>5, <1>6, <1>7 DEF ParentStep

LEMMA RunnerInStep ==
  ASSUME Punctual, TypeOK, LagsAreBounded, NEW a \in Attempt, InStep(a),
         RunnerStep(a) \/ End(a) \/ RunnerDies(a) \/ ChildEnds(a)
  PROVE  InStep(a)'
<1> DEFINE p == <<"parent", a>>
           r == <<"runner", a>>
<1>1. p \in Process /\ r \in Process /\ p # r
  BY DEF Process
<1>2. ASSUME NEW l, RunnerGoes(a, l)
      PROVE  runner[a]' = l /\ age[r]' = 0 /\ lag[p]' = lag[p] /\ lag[r]' = 0
  BY <1>1, <1>2 DEF RunnerGoes, Step, TypeOK
<1>3. /\ age[r] \in Nat /\ lag[p] \in Nat /\ lag[r] \in Nat
      /\ lag[p] <= MaxLag /\ lag[r] <= MaxLag
  BY <1>1 DEF TypeOK, LagsAreBounded
<1>4. UNCHANGED parent
  BY DEF RunnerStep, End, RunnerDies, ChildEnds, Acquire, WriteReady, WriteState, SeeAck,
         WriteAcknowledged, SeeProceed, TimeOut, Begin, WriteError, Release, Killed
<1> USE <1>2, <1>3, <1>4 DEF InStep, Early, Agreed, OnItsWay, WaitIsAccounted
<1>5. CASE Acquire(a)
  BY <1>5 DEF Acquire, files
<1>6. CASE WriteReady(a)
  BY <1>6 DEF WriteReady, WriteState, TypeOK
<1>7. CASE SeeAck(a)
  BY <1>7 DEF SeeAck, files
<1>8. CASE WriteAcknowledged(a)
  BY <1>8 DEF WriteAcknowledged, WriteState, TypeOK
<1>9. CASE SeeProceed(a)
  BY <1>9 DEF SeeProceed, files
<1>10. CASE TimeOut(a)
  <2>1. ~(Agreed(a) /\ runner[a] = "waitProceed")
    BY <1>10, PatienceAssumption DEF TimeOut, InTime, Punctual
  <2> QED BY <1>10, <2>1 DEF TimeOut, files, RunnerWaits
<1>11. CASE Begin(a)
  BY <1>11 DEF Begin
<1>12. CASE WriteError(a)
  BY <1>12 DEF WriteError, TypeOK
<1>13. CASE Release(a)
  BY <1>13 DEF Release, files
<1>14. CASE Killed(a)
  BY <1>14 DEF Killed, files
<1>15. CASE End(a)
  BY <1>15 DEF End, files
<1>16. CASE RunnerDies(a)
  BY <1>16 DEF RunnerDies, files, Alive, Ended
<1>17. CASE ChildEnds(a)
  BY <1>17 DEF ChildEnds, files
<1> QED
  BY <1>5, <1>6, <1>7, <1>8, <1>9, <1>10, <1>11, <1>12, <1>13, <1>14, <1>15, <1>16, <1>17
     DEF RunnerStep

LEMMA SpawnInStep ==
  ASSUME TypeOK, NEW a \in Attempt, InStep(a), Spawn(a)
  PROVE  InStep(a)'
<1>1. parent[a]' \in {"waitReady", "refused"}
  BY DEF Spawn, ParentGoes, TypeOK
<1>2. CASE parent[a]' = "refused"
  BY <1>2 DEF InStep, Early, Agreed
<1>3. CASE parent[a]' = "waitReady"
  <2>1. a \notin ack' /\ runner[a]' = "starting" /\ startup[a]' = None
    BY <1>3 DEF Spawn, ParentGoes, TypeOK
  <2>2. startup[a]' # "acknowledged"
    BY <2>1, NoneAssumption
  <2> QED BY <1>3, <2>1, <2>2 DEF InStep, Early, Agreed
<1> QED BY <1>1, <1>2, <1>3

(***************************************************************************)
(* The runner of a revival that is reported as started does not give up,   *)
(* whatever the lags are of which three fit into its patience.             *)
(***************************************************************************)
THEOREM StartsGoOn == Spec => []StartedGoesOn
<1>1. CASE ~Punctual
  <2>1. TypeOK => StartedGoesOn
    BY <1>1 DEF StartedGoesOn, Punctual
  <2> QED BY <2>1, TypeCorrect, PTL
<1>2. CASE Punctual
  <2>1. Init => Timely
    BY PatienceAssumption, NoneAssumption
       DEF Init, Timely, LagsAreBounded, InStep, Early, Agreed
  <2>2. TypeOK /\ Timely /\ [Next]_vars => Timely'
    <3> SUFFICES ASSUME TypeOK, Timely, [Next]_vars
                 PROVE  Timely'
      OBVIOUS
    <3>1. LagsAreBounded'
      BY <1>2, LagsStayBounded DEF Timely
    <3>2. ASSUME NEW b \in Attempt
          PROVE  InStep(b)'
      <4>1. InStep(b) /\ LagsAreBounded
        BY DEF Timely
      <4>2. CASE UNCHANGED vars
        BY <4>1, <4>2, InStepIsOwn DEF vars, files, Own
      <4>3. CASE Tick
        BY <1>2, <4>1, <4>3, TickInStep
      <4>4. ASSUME NEW a \in Attempt, Act(a), a # b
            PROVE  InStep(b)'
        BY <4>1, <4>4, OthersAreLeftAlone, InStepIsOwn
      <4>5. CASE Act(b)
        BY <1>2, <4>1, <4>5, SpawnInStep, ParentInStep, RunnerInStep DEF Act
      <4> QED BY <4>2, <4>3, <4>4, <4>5, StartupSteps
    <3> QED BY <3>1, <3>2 DEF Timely
  <2>3. Timely => StartedGoesOn
    BY DEF Timely, InStep, Agreed, OnItsWay, StartedGoesOn, GaveUp
  <2> QED BY <2>1, <2>2, <2>3, TypeCorrect, PTL DEF Spec
<1> QED BY <1>1, <1>2
=============================================================================
