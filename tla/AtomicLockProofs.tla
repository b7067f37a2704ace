-------------------------- MODULE AtomicLockProofs --------------------------
(***************************************************************************)
(* Theorems about AtomicLock for any processes, process ids, tasks, keys,  *)
(* periods and faults.                                                     *)
(***************************************************************************)
EXTENDS AtomicLock, TLAPS

(***************************************************************************)
(* What the lock relies on besides its own table: a process id names one   *)
(* process at a time, a process that is not there yet has left no trace,   *)
(* and what a sweep has found dead is dead for good.                       *)
(***************************************************************************)
OneProcessPerPid ==
  \A p, q \in Proc : Exists(p) /\ Exists(q) /\ Pid[p] = Pid[q] => p = q

Born(t) == status[Home[t]] # "unborn"

TracesAreOfTheBorn ==
  /\ \A t \in Task : pc[t] # "idle" => Born(t)
  /\ \A k \in Key : row[k] # Nil => Born(row[k]) /\ KeyOf[row[k]] = k
  /\ \A t \in Task : \A o \in snap[t] : Born(o)

ProbedAreDead ==
  \A t \in Task : pc[t] = "probed" => \A o \in snap[t] : status[Home[o]] = "down"

IInv ==
  /\ TypeOK
  /\ OneProcessPerPid
  /\ TracesAreOfTheBorn
  /\ ProbedAreDead
  /\ FreshHolderOwns

LEMMA InitIInv == Init => IInv
  BY ProcAssumption, TaskAssumption, TimeAssumption
  DEF Init, IInv, TypeOK, PC, Cap, OneProcessPerPid, Exists, TracesAreOfTheBorn,
      ProbedAreDead, FreshHolderOwns, Holds, Born

(***************************************************************************)
(* tryAcquire takes a lock only from an owner that is no holder any more   *)
(* or went stale: neither a reused process id nor an unreadable start time *)
(* makes a live fresh holder look gone.                                    *)
(***************************************************************************)
LEMMA StealsOnlyTheLapsed ==
  ASSUME IInv, NEW t \in Task, status[Home[t]] = "up",
         NEW o \in Task, MaySteal(t, o), Exists(Home[o])
  PROVE  age[o] >= Stale
<1> USE ProcAssumption, TaskAssumption, TimeAssumption
<1>1. age[o] \in Nat /\ age[t] \in Nat /\ Stale \in Nat
  BY DEF IInv, TypeOK, Cap
<1>2. CASE IsStale(o, t)
  BY <1>1, <1>2 DEF IsStale
<1>3. CASE ~IsStale(o, t)
  <2>1. PICK observed \in Observed(Home[t], Home[o]) : NotTheOwner(o, observed)
    BY <1>3 DEF MaySteal
  <2>2. Home[o] \in Proc /\ Home[t] \in Proc /\ Exists(Home[t]) /\ Alive(Pid[Home[o]])
    BY DEF Exists, Alive
  <2>3. observed = Nil \/ observed = Incarnation(Home[o]) \/ observed = Home[o]
    <3>1. CASE Pid[Home[t]] = Pid[Home[o]]
      BY <3>1, <2>2 DEF Observed, IInv, OneProcessPerPid
    <3>2. CASE Pid[Home[t]] # Pid[Home[o]]
      BY <3>2, <2>2 DEF Observed, IInv, OneProcessPerPid
    <3> QED BY <3>1, <3>2
  <2> QED
    BY <2>1, <2>2, <2>3 DEF NotTheOwner, Incarnation
<1> QED BY <1>2, <1>3

LEMMA StepIInv == IInv /\ [Next]_vars => IInv'
<1> SUFFICES ASSUME IInv, [Next]_vars PROVE IInv'
  OBVIOUS
<1> USE ProcAssumption, TaskAssumption, TimeAssumption
<1> USE DEF IInv, TypeOK, PC, InCall, Cap, Goto
<1>1. ASSUME NEW t \in Task, Ask(t) PROVE IInv'
  <2> DEFINE rows(done) == [k \in Key |-> IF row[k] \in done THEN Nil ELSE row[k]]
             sweeps == rest[Home[t]] >= Interval
             old(done) == {o \in Task : rows(done)[KeyOf[o]] = o /\ age[o] >= Grace}
  <2>1. PICK done \in SUBSET Pending(t) :
          /\ row' = rows(done)
          /\ pc' = [u \in Task |-> IF u = t THEN (IF sweeps THEN "asked" ELSE "swept")
                                   ELSE IF u \in done THEN "ended" ELSE pc[u]]
          /\ age' = [age EXCEPT ![t] = 0]
          /\ snap' = [snap EXCEPT ![t] = IF sweeps THEN old(done) ELSE {}]
          /\ rest' = IF sweeps THEN [rest EXCEPT ![Home[t]] = 0] ELSE rest
    BY <1>1 DEF Ask
  <2>2. status' = status /\ status[Home[t]] = "up" /\ Nil \notin done /\ done \subseteq Task
    BY <1>1 DEF Ask, Runs, Pending
  <2>3. TypeOK'
    BY <2>1, <2>2
  <2>4. \A u \in Task : pc'[u] = "holding" => u # t /\ pc[u] = "holding" /\ u \notin done
    BY <2>1 DEF Pending
  <2>5. FreshHolderOwns'
    BY <2>1, <2>2, <2>4 DEF FreshHolderOwns, Holds, Owns, Exists
  <2>6. TracesAreOfTheBorn'
    BY <2>1, <2>2 DEF TracesAreOfTheBorn, Born, Pending
  <2>7. ProbedAreDead' /\ OneProcessPerPid'
    BY <2>1, <2>2 DEF ProbedAreDead, OneProcessPerPid, Exists
  <2> QED BY <2>3, <2>5, <2>6, <2>7
<1>2. ASSUME NEW t \in Task, Probe(t) PROVE IInv'
  <2>1. \A o \in Task : Born(o) /\ HolderIsGone(t, o) => status[Home[o]] = "down"
    BY DEF HolderIsGone, Alive, Exists, Born
  <2>2. ProbedAreDead'
    BY <1>2, <2>1 DEF Probe, ProbedAreDead, TracesAreOfTheBorn
  <2> QED
    BY <1>2, <2>2 DEF Probe, OneProcessPerPid, TracesAreOfTheBorn, Born, FreshHolderOwns,
                     Holds, Owns, Exists
<1>3. ASSUME NEW t \in Task, Collect(t) PROVE IInv'
  <2>1. PICK S \in SUBSET snap[t] :
          row' = [k \in Key |-> IF row[k] \in S THEN Nil ELSE row[k]]
    BY <1>3 DEF Collect
  <2>2. \A o \in S : o \in Task /\ ~Exists(Home[o])
    BY <1>3, <2>1 DEF Collect, ProbedAreDead, Exists
  <2>3. FreshHolderOwns'
    BY <1>3, <2>1, <2>2 DEF Collect, FreshHolderOwns, Holds, Owns, Exists
  <2>4. TracesAreOfTheBorn'
    BY <1>3, <2>1 DEF Collect, TracesAreOfTheBorn, Born
  <2> QED
    BY <1>3, <2>1, <2>3, <2>4 DEF Collect, OneProcessPerPid, ProbedAreDead, Exists
<1>4. ASSUME NEW t \in Task, Transact(t) PROVE IInv'
  <2> DEFINE o == row[KeyOf[t]]
  <2>1. status[Home[t]] = "up" /\ pc[t] = "swept" /\ o \in Task \cup {Nil}
    BY <1>4 DEF Transact, Runs
  <2>2. CASE /\ o # Nil => MaySteal(t, o)
             /\ row' = [row EXCEPT ![KeyOf[t]] = t]
             /\ pc' = [pc EXCEPT ![t] = "holding"]
             /\ UNCHANGED <<age, status, snap, rest>>
    <3>1. o # Nil /\ Holds(o) => age[o] >= Stale
      BY <2>1, <2>2, StealsOnlyTheLapsed DEF Holds
    <3>2. FreshHolderOwns'
      BY <2>1, <2>2, <3>1 DEF FreshHolderOwns, Holds, Owns, Exists
    <3>3. TracesAreOfTheBorn'
      BY <2>1, <2>2 DEF TracesAreOfTheBorn, Born
    <3> QED
      BY <2>2, <3>2, <3>3 DEF OneProcessPerPid, ProbedAreDead, Exists
  <2>3. CASE /\ pc' = [pc EXCEPT ![t] = "waiting"]
             /\ age' = [age EXCEPT ![t] = 0]
             /\ UNCHANGED <<row, status, snap, rest>>
    BY <2>1, <2>3 DEF FreshHolderOwns, Holds, Owns, Exists, TracesAreOfTheBorn, Born,
                      OneProcessPerPid, ProbedAreDead
  <2> QED BY <1>4, <2>2, <2>3 DEF Transact
<1>5. ASSUME NEW t \in Task, TransactFails(t) \/ GiveUp(t) \/ ReleaseFails(t) PROVE IInv'
  BY <1>5 DEF TransactFails, GiveUp, ReleaseFails, Runs, FreshHolderOwns, Holds, Owns,
              Exists, TracesAreOfTheBorn, Born, OneProcessPerPid, ProbedAreDead
<1>6. ASSUME NEW t \in Task, Renew(t) PROVE IInv'
  BY <1>6 DEF Renew, Runs, FreshHolderOwns, Holds, Owns, Exists, TracesAreOfTheBorn, Born,
              OneProcessPerPid, ProbedAreDead
<1>7. ASSUME NEW t \in Task, Release(t) PROVE IInv'
  <2>1. FreshHolderOwns'
    BY <1>7 DEF Release, FreshHolderOwns, Holds, Owns, Exists
  <2> QED
    BY <1>7, <2>1 DEF Release, Runs, Exists, Owns, TracesAreOfTheBorn, Born,
                      OneProcessPerPid, ProbedAreDead
<1>8. ASSUME NEW t \in Task, Recycle(t) PROVE IInv'
  BY <1>8 DEF Recycle, FreshHolderOwns, Holds, Owns, Exists, TracesAreOfTheBorn, Born,
              OneProcessPerPid, ProbedAreDead
<1>9. ASSUME NEW p \in Proc, Boot(p) PROVE IInv'
  <2>1. OneProcessPerPid'
    BY <1>9 DEF Boot, OneProcessPerPid, Exists, Alive
  <2>2. FreshHolderOwns'
    BY <1>9 DEF Boot, FreshHolderOwns, Holds, Owns, Exists, TracesAreOfTheBorn, Born
  <2>3. TracesAreOfTheBorn' /\ ProbedAreDead'
    BY <1>9 DEF Boot, TracesAreOfTheBorn, Born, ProbedAreDead
  <2> QED BY <1>9, <2>1, <2>2, <2>3 DEF Boot
<1>10. ASSUME NEW p \in Proc, Die(p) PROVE IInv'
  <2>1. OneProcessPerPid'
    BY <1>10 DEF Die, OneProcessPerPid, Exists
  <2>2. FreshHolderOwns'
    BY <1>10 DEF Die, FreshHolderOwns, Holds, Owns, Exists
  <2>3. TracesAreOfTheBorn' /\ ProbedAreDead'
    BY <1>10 DEF Die, TracesAreOfTheBorn, Born, ProbedAreDead, Exists
  <2> QED BY <1>10, <2>1, <2>2, <2>3 DEF Die
<1>11. ASSUME NEW p \in Proc, Wedge(p) \/ Resume(p) PROVE IInv'
  <2>1. \A q \in Proc : Exists(q)' <=> Exists(q)
    BY <1>11 DEF Wedge, Resume, Exists
  <2>2. \A q \in Proc : /\ status'[q] = "unborn" <=> status[q] = "unborn"
                        /\ status[q] = "down" => status'[q] = "down"
    BY <1>11 DEF Wedge, Resume
  <2>3. FreshHolderOwns' /\ OneProcessPerPid'
    BY <1>11, <2>1 DEF Wedge, Resume, FreshHolderOwns, Holds, Owns, OneProcessPerPid
  <2>4. TracesAreOfTheBorn' /\ ProbedAreDead'
    BY <1>11, <2>2 DEF Wedge, Resume, TracesAreOfTheBorn, Born, ProbedAreDead
  <2> QED BY <1>11, <2>3, <2>4 DEF Wedge, Resume
<1>12. ASSUME Tick PROVE IInv'
  <2>1. \A t \in Task : age'[t] \in 0..Cap /\ age'[t] >= age[t]
    BY <1>12 DEF Tick
  <2>2. FreshHolderOwns'
    BY <1>12, <2>1 DEF Tick, FreshHolderOwns, Holds, Owns, Exists
  <2> QED
    BY <1>12, <2>2 DEF Tick, Exists, TracesAreOfTheBorn, Born, OneProcessPerPid, ProbedAreDead
<1>13. ASSUME UNCHANGED vars PROVE IInv'
  BY <1>13 DEF vars, Exists, TracesAreOfTheBorn, Born, OneProcessPerPid, ProbedAreDead,
               FreshHolderOwns, Holds, Owns
<1> QED
  BY <1>1, <1>2, <1>3, <1>4, <1>5, <1>6, <1>7, <1>8, <1>9, <1>10, <1>11, <1>12, <1>13
  DEF Next, Step

LEMMA InvariantIInv == Spec => []IInv
  BY InitIInv, StepIInv, PTL DEF Spec

(***************************************************************************)
(* The variables keep their types.                                         *)
(***************************************************************************)
THEOREM TypeCorrect == Spec => []TypeOK
<1>1. IInv => TypeOK
  BY DEF IInv
<1> QED BY <1>1, InvariantIInv, PTL

(***************************************************************************)
(* A holder whose stamp is fresh owns the row of its key.                  *)
(***************************************************************************)
THEOREM FreshHoldersOwnTheirKey == Spec => []FreshHolderOwns
<1>1. IInv => FreshHolderOwns
  BY DEF IInv
<1> QED BY <1>1, InvariantIInv, PTL

(***************************************************************************)
(* What a sweep is about to delete belongs to processes that have ended.   *)
(***************************************************************************)
THEOREM SweepsCollectOnlyTheDead == Spec => []CollectsOnlyTheDead
<1>1. IInv => CollectsOnlyTheDead
  BY ProcAssumption DEF IInv, TypeOK, ProbedAreDead, CollectsOnlyTheDead, Exists
<1> QED BY <1>1, InvariantIInv, PTL
(***************************************************************************)
(* Refinement.  Every step of the lock is a step of LeaseContract, or does *)
(* not change what the contract talks about.                               *)
(***************************************************************************)
Lapsed == {t \in Holders : age[t] >= Stale}

LEMMA InitRefines == Init => Contract!Init
  BY DEF Init, Contract!Init, Holders, Holds

LEMMA StepRefines == IInv /\ [Next]_vars => [Contract!Next]_(Contract!vars)
<1> SUFFICES ASSUME IInv, [Next]_vars PROVE Contract!Next \/ UNCHANGED Contract!vars
  OBVIOUS
<1> USE ProcAssumption, TaskAssumption, TimeAssumption
<1> USE DEF IInv, TypeOK, PC, InCall, Cap, Goto
<1>0. /\ Contract!vars = <<row, Holders, Lapsed>>
      /\ Contract!vars' = <<row', Holders', Lapsed'>>
      /\ Holders \subseteq Task
  BY DEF Contract!vars, Lapsed, Holders
<1>a. ASSUME row' = row, Holders' = Holders, \A t \in Holders : age'[t] = age[t]
      PROVE  UNCHANGED Contract!vars
  BY <1>a, <1>0 DEF Lapsed
<1>b. ASSUME NEW K \in SUBSET Key, \A k \in K : row[k] \notin Holders,
             row' = [k \in Key |-> IF k \in K THEN Nil ELSE row[k]],
             Holders' = Holders, \A t \in Holders : age'[t] = age[t]
      PROVE  Contract!Next
  <2>1. Lapsed' = Lapsed
    BY <1>b DEF Lapsed
  <2>2. Contract!Clear(K)
    BY <1>b, <2>1 DEF Contract!Clear, Lapsed
  <2> QED BY <2>2 DEF Contract!Next
<1>c. ASSUME NEW S \in SUBSET Holders, Holders' = Holders \ S,
             \A t \in Holders : age'[t] = age[t],
             \/ row' = row
             \/ \E t \in S : row[KeyOf[t]] = t /\ row' = [row EXCEPT ![KeyOf[t]] = Nil]
      PROVE  Contract!Next
  <2>1. Lapsed' = Lapsed \ S
    BY <1>c DEF Lapsed
  <2>2. Contract!Stop(S)
    BY <1>c, <2>1 DEF Contract!Stop, Lapsed
  <2> QED BY <2>2 DEF Contract!Next
<1>d. ASSUME NEW S \in SUBSET Holders, Holders' = Holders, row' = row,
             Lapsed' = Lapsed \cup S
      PROVE  Contract!Next
  <2>1. Contract!Lapse(S)
    BY <1>d DEF Contract!Lapse, Lapsed
  <2> QED BY <2>1 DEF Contract!Next
<1>1. ASSUME NEW t \in Task, Ask(t) PROVE Contract!Next
  <2>1. PICK done \in SUBSET Pending(t) :
          /\ row' = [k \in Key |-> IF row[k] \in done THEN Nil ELSE row[k]]
          /\ pc' = [u \in Task |->
               IF u = t THEN (IF rest[Home[t]] >= Interval THEN "asked" ELSE "swept")
               ELSE IF u \in done THEN "ended" ELSE pc[u]]
          /\ age' = [age EXCEPT ![t] = 0]
    BY <1>1 DEF Ask
  <2> DEFINE K == {k \in Key : row[k] \in done}
  <2>2. pc[t] # "holding" /\ status' = status /\ \A u \in done : pc[u] = "pending"
    BY <1>1 DEF Ask, Pending
  <2>3. Holders' = Holders
    BY <2>1, <2>2 DEF Holders, Holds, Exists
  <2>4. \A u \in Holders : age'[u] = age[u]
    BY <2>1, <2>2 DEF Holders, Holds
  <2>5. K \in SUBSET Key /\ \A k \in K : row[k] \notin Holders
    BY <2>2 DEF Holders, Holds
  <2>6. row' = [k \in Key |-> IF k \in K THEN Nil ELSE row[k]]
    BY <2>1
  <2> HIDE DEF K
  <2> QED BY <1>b, <2>3, <2>4, <2>5, <2>6
<1>2. ASSUME NEW t \in Task, Collect(t) PROVE Contract!Next
  <2>1. PICK S \in SUBSET snap[t] :
          row' = [k \in Key |-> IF row[k] \in S THEN Nil ELSE row[k]]
    BY <1>2 DEF Collect
  <2> DEFINE K == {k \in Key : row[k] \in S}
  <2>2. \A o \in S : ~Exists(Home[o])
    BY <1>2, <2>1 DEF Collect, ProbedAreDead, Exists
  <2>3. Holders' = Holders /\ age' = age
    BY <1>2 DEF Collect, Holders, Holds, Exists
  <2>4. K \in SUBSET Key /\ \A k \in K : row[k] \notin Holders
    BY <2>2 DEF Holders, Holds
  <2>5. row' = [k \in Key |-> IF k \in K THEN Nil ELSE row[k]]
    BY <2>1
  <2> HIDE DEF K
  <2> QED BY <1>b, <2>3, <2>4, <2>5
<1>3. ASSUME NEW t \in Task, Transact(t) PROVE Contract!Next \/ UNCHANGED Contract!vars
  <2> DEFINE o == row[KeyOf[t]]
  <2>1. status[Home[t]] = "up" /\ pc[t] = "swept" /\ status' = status /\ o \in Task \cup {Nil}
    BY <1>3 DEF Transact, Runs
  <2>2. CASE /\ o # Nil => MaySteal(t, o)
             /\ row' = [row EXCEPT ![KeyOf[t]] = t]
             /\ pc' = [pc EXCEPT ![t] = "holding"]
             /\ age' = age
    <3>1. o \notin Holders \/ o \in Lapsed
      BY <2>1, <2>2, StealsOnlyTheLapsed DEF Holders, Holds, Lapsed
    <3>2. t \notin Holders /\ Holders' = Holders \cup {t}
      BY <2>1, <2>2 DEF Holders, Holds, Exists
    <3>3. Lapsed' \in {Lapsed, Lapsed \cup {t}}
      BY <2>2, <3>2 DEF Lapsed
    <3>4. Contract!Grant(t)
      BY <2>2, <3>1, <3>2, <3>3 DEF Contract!Grant, Contract!Free, Lapsed
    <3> QED BY <3>4 DEF Contract!Next
  <2>3. CASE /\ pc' = [pc EXCEPT ![t] = "waiting"]
             /\ age' = [age EXCEPT ![t] = 0]
             /\ row' = row
    BY <1>a, <2>1, <2>3 DEF Holders, Holds, Exists
  <2> QED BY <1>3, <2>2, <2>3 DEF Transact
<1>4. ASSUME NEW t \in Task, Probe(t) \/ TransactFails(t) \/ GiveUp(t) \/ Recycle(t)
      PROVE  UNCHANGED Contract!vars
  BY <1>4, <1>a DEF Probe, TransactFails, GiveUp, Recycle, Holders, Holds, Exists
<1>5. ASSUME NEW t \in Task, Renew(t) PROVE Contract!Next
  <2>1. Holders' = Holders /\ row' = row /\ row[KeyOf[t]] = t /\ age' = [age EXCEPT ![t] = 0]
    BY <1>5 DEF Renew, Owns, Holders, Holds, Exists
  <2>2. Lapsed' = Lapsed \ {t}
    BY <2>1 DEF Lapsed, Holders
  <2>3. Contract!Renew(t)
    BY <2>1, <2>2 DEF Contract!Renew, Lapsed
  <2> QED BY <2>3 DEF Contract!Next
<1>6. ASSUME NEW t \in Task, Release(t) \/ ReleaseFails(t) PROVE Contract!Next
  <2>1. t \in Task /\ status[Home[t]] = "up" /\ pc[t] = "holding"
    BY <1>6 DEF Release, ReleaseFails, Runs
  <2>2. {t} \in SUBSET Holders
    BY <2>1 DEF Holders, Holds, Exists
  <2>3. Holders' = Holders \ {t} /\ age' = age
    BY <1>6, <2>1 DEF Release, ReleaseFails, Holders, Holds, Exists
  <2>4. row' = row \/ \E u \in {t} : row[KeyOf[u]] = u /\ row' = [row EXCEPT ![KeyOf[u]] = Nil]
    BY <1>6 DEF Release, ReleaseFails, Owns
  <2> QED BY <1>c, <2>2, <2>3, <2>4
<1>7. ASSUME NEW p \in Proc, Die(p) PROVE Contract!Next
  <2> DEFINE S == {t \in Holders : Home[t] = p}
  <2>1. Holders' = Holders \ S /\ age' = age /\ row' = row
    BY <1>7 DEF Die, Holders, Holds, Exists
  <2>2. S \in SUBSET Holders
    OBVIOUS
  <2> HIDE DEF S
  <2> QED BY <1>c, <2>1, <2>2
<1>8. ASSUME NEW p \in Proc, Boot(p) \/ Wedge(p) \/ Resume(p) PROVE UNCHANGED Contract!vars
  <2>1. Holders' = Holders /\ age' = age /\ row' = row
    BY <1>8 DEF Boot, Wedge, Resume, Holders, Holds, Exists, TracesAreOfTheBorn, Born
  <2> QED BY <1>a, <2>1
<1>9. ASSUME Tick PROVE Contract!Next
  <2> DEFINE S == {t \in Holders : age'[t] >= Stale}
  <2>1. \A t \in Task : age'[t] \in 0..Cap /\ age'[t] >= age[t]
    BY <1>9 DEF Tick
  <2>2. Holders' = Holders /\ row' = row
    BY <1>9 DEF Tick, Holders, Holds, Exists
  <2>3. S \in SUBSET Holders
    OBVIOUS
  <2>4. Lapsed' = Lapsed \cup S
    BY <1>0, <2>1, <2>2 DEF Lapsed
  <2> HIDE DEF S
  <2> QED BY <1>d, <2>2, <2>3, <2>4
<1>10. ASSUME UNCHANGED vars PROVE UNCHANGED Contract!vars
  BY <1>10, <1>a DEF vars, Holders, Holds, Exists
<1> QED
  BY <1>1, <1>2, <1>3, <1>4, <1>5, <1>6, <1>7, <1>8, <1>9, <1>10 DEF Next, Step

(***************************************************************************)
(* The lock implements the contract.                                       *)
(***************************************************************************)
THEOREM LockImplementsContract == Spec => ImplementsContract
  BY InitRefines, StepRefines, InvariantIInv, PTL
  DEF Spec, ImplementsContract, Contract!Spec

=============================================================================
