------------------------- MODULE SessionLeaseProofs -------------------------
(***************************************************************************)
(* Theorems about SessionLease for any set of runners and hosts and any    *)
(* bound on the acquisition loop.                                          *)
(***************************************************************************)
EXTENDS SessionLease, TLAPS

(***************************************************************************)
(* TypeOK is not inductive: a takeover reads the token of the owner seen,  *)
(* and counts a round.                                                     *)
(***************************************************************************)
TypeInv ==
  /\ TypeOK
  /\ \A r \in Runner : pc[r] \in Window => seen[r] \in Owner
  /\ \A r \in Runner : pc[r] \in Acquiring \cup {"idle"} => rounds[r] < MaxAttempts

LEMMA InitTypeInv == Init => TypeInv
  BY AttemptsAssumption
  DEF Init, TypeInv, TypeOK, PC, Owner, WriterState, Window, Acquiring

LEMMA StepTypeInv == TypeInv /\ [Next]_vars => TypeInv'
<1> SUFFICES ASSUME TypeInv, [Next]_vars PROVE TypeInv'
  OBVIOUS
<1> USE DEF TypeInv, TypeOK, Goto, PC, Acquiring, Holding, Leaving, Window
<1>1. ASSUME NEW r \in Runner, Begin(r) PROVE TypeInv'
  BY <1>1 DEF Begin
<1>2. ASSUME NEW r \in Runner, Create(r) PROVE TypeInv'
  BY <1>2 DEF Create, Owner, WriterState
<1>3. ASSUME NEW r \in Runner, Exists(r) PROVE TypeInv'
  BY <1>3 DEF Exists
<1>4. ASSUME NEW r \in Runner, Inspect(r) PROVE TypeInv'
  BY <1>4 DEF Inspect, IsOwner
<1>5. ASSUME NEW r \in Runner, Probe(r) PROVE TypeInv'
  BY <1>5 DEF Probe
<1>6. ASSUME NEW r \in Runner, Takeover(r) PROVE TypeInv'
  <2>1. seen[r].token \in Runner /\ rounds[r] < MaxAttempts /\ rounds[r] \in Nat
    BY <1>6 DEF Takeover, Owner
  <2>2. dir' \in Owner \cup {Absent, Empty} /\ tombs' \subseteq Runner
    BY <1>6, <2>1 DEF Takeover
  <2>3. rounds' \in [Runner -> 0..MaxAttempts]
    BY <1>6, <2>1, AttemptsAssumption DEF Takeover
  <2> QED
    BY <1>6, <2>1, <2>2, <2>3, AttemptsAssumption DEF Takeover, NextRound
<1>7. ASSUME NEW r \in Runner, BeginWriter(r) PROVE TypeInv'
  BY <1>7 DEF BeginWriter, WriterState
<1>8. ASSUME NEW r \in Runner, UpdateCheck(r) PROVE TypeInv'
  BY <1>8 DEF UpdateCheck, AfterFailedUpdate
<1>9. ASSUME NEW r \in Runner, UpdateWrite(r) PROVE TypeInv'
  <2>1. [token |-> r, writer |-> stage[r]] \in Owner
    BY DEF Owner
  <2>2. AfterUpdate(r) \in PC \ (Acquiring \cup {"idle"})
    BY DEF AfterUpdate
  <2>3. AfterFailedUpdate(r) \in PC \ (Acquiring \cup {"idle"})
    BY DEF AfterFailedUpdate
  <2> QED
    BY <1>9, <2>1, <2>2, <2>3 DEF UpdateWrite
<1>10. ASSUME NEW r \in Runner, Spawn(r) PROVE TypeInv'
  BY <1>10 DEF Spawn, WriterState
<1>11. ASSUME NEW r \in Runner, WriterExit(r) PROVE TypeInv'
  BY <1>11 DEF WriterExit
<1>12. ASSUME NEW r \in Runner, WriterClosed(r) PROVE TypeInv'
  BY <1>12 DEF WriterClosed, WriterState
<1>13. ASSUME NEW r \in Runner, Finish(r) \/ Uncaught(r) PROVE TypeInv'
  BY <1>13 DEF Finish, Uncaught
<1>14. ASSUME NEW r \in Runner, ReleaseCheck(r) PROVE TypeInv'
  BY <1>14 DEF ReleaseCheck
<1>15. ASSUME NEW r \in Runner, ReleaseUnlink(r) PROVE TypeInv'
  BY <1>15 DEF ReleaseUnlink
<1>16. ASSUME NEW r \in Runner, ReleaseRmdir(r) PROVE TypeInv'
  BY <1>16 DEF ReleaseRmdir
<1>17. ASSUME NEW r \in Runner, Die(r) PROVE TypeInv'
  BY <1>17 DEF Die
<1>18. CASE UNCHANGED vars
  BY <1>18 DEF vars
<1> QED
  BY <1>1, <1>2, <1>3, <1>4, <1>5, <1>6, <1>7, <1>8, <1>9, <1>10, <1>11, <1>12,
     <1>13, <1>14, <1>15, <1>16, <1>17, <1>18 DEF Next

\* Every reachable state has the shape TypeOK gives it.
THEOREM TypeCorrect == Spec => []TypeOK
<1>1. TypeInv => TypeOK
  BY DEF TypeInv
<1> QED
  BY <1>1, InitTypeInv, StepTypeInv, PTL DEF Spec

-----------------------------------------------------------------------------
(***************************************************************************)
(* LeaseInv: who may be named by the directory, and what a contender in    *)
(* the window knows about it.  HolderOwnsDir alone is not inductive: a     *)
(* takeover is harmless only because the observed owner is gone and its    *)
(* record, if no tombstone has its name yet, is still the one in place.    *)
(***************************************************************************)
NamesHolder == IsOwner(dir) => pc[dir.token] \in Holding \cup {"gone"}
WindowKnows(r) ==
  pc[r] \in Window /\ seen[r].token \notin tombs => OwnsDir(seen[r].token)
TakeoverOfDead(r) == pc[r] = "takeover" => pc[seen[r].token] = "gone"
OneInWindow ==
  "preempt" \notin faults =>
    \A p, q \in Runner : pc[p] \in Window /\ pc[q] \in Window => p = q

LeaseInv ==
  NoConfusion =>
    /\ \A r \in Runner : pc[r] \in Holding => OwnsDir(r)
    /\ NamesHolder
    /\ \A r \in Runner : WindowKnows(r) /\ TakeoverOfDead(r)
    /\ \A t \in tombs : pc[t] = "gone"
    /\ OneInWindow

LEMMA InitLeaseInv == Init => LeaseInv
  BY MarkerAssumption
  DEF Init, LeaseInv, NamesHolder, WindowKnows, TakeoverOfDead, OneInWindow,
      IsOwner, Window, Holding

LEMMA StepLeaseInv == TypeInv /\ LeaseInv /\ [Next]_vars => LeaseInv'
<1> SUFFICES ASSUME TypeInv, LeaseInv, [Next]_vars, NoConfusion' PROVE LeaseInv'
  BY DEF LeaseInv
<1>0. NoConfusion /\ faults' = faults
  BY DEF NoConfusion, Next, vars, Begin, Create, Exists, Inspect, Probe, Takeover,
         BeginWriter, UpdateCheck, UpdateWrite, Spawn, WriterExit, WriterClosed,
         Finish, ReleaseCheck, ReleaseUnlink, ReleaseRmdir, Die, Uncaught, TypeInv, TypeOK
<1> USE <1>0, MarkerAssumption
    DEF TypeInv, TypeOK, LeaseInv, NamesHolder, WindowKnows, TakeoverOfDead, OneInWindow,
        Goto, OwnsDir, IsOwner, PC, Acquiring, Holding, Leaving, Window, Undisturbed, Owner
<1>1. ASSUME NEW r \in Runner, Begin(r) PROVE LeaseInv'
  BY <1>1 DEF Begin
<1>2. ASSUME NEW r \in Runner, Create(r) PROVE LeaseInv'
  <2>1. [token |-> r, writer |-> "none"] \in Owner
    BY DEF WriterState
  <2> QED
    BY <1>2, <2>1 DEF Create
<1>3. ASSUME NEW r \in Runner, Exists(r) PROVE LeaseInv'
  BY <1>3 DEF Exists
<1>4. ASSUME NEW r \in Runner, Inspect(r) PROVE LeaseInv'
  BY <1>4 DEF Inspect
<1>5. ASSUME NEW r \in Runner, Probe(r) PROVE LeaseInv'
  BY <1>5 DEF Probe, MayLookStale, OwnerMayLookGone
<1>6. ASSUME NEW r \in Runner, Takeover(r) PROVE LeaseInv'
  BY <1>6 DEF Takeover, NextRound, CanMoveAside
<1>7. ASSUME NEW r \in Runner, BeginWriter(r) PROVE LeaseInv'
  BY <1>7 DEF BeginWriter
<1>8. ASSUME NEW r \in Runner, UpdateCheck(r) PROVE LeaseInv'
  BY <1>8 DEF UpdateCheck, AfterFailedUpdate
<1>9. ASSUME NEW r \in Runner, UpdateWrite(r) PROVE LeaseInv'
  BY <1>9 DEF UpdateWrite, AfterFailedUpdate, AfterUpdate
<1>10. ASSUME NEW r \in Runner, Spawn(r) PROVE LeaseInv'
  BY <1>10 DEF Spawn
<1>11. ASSUME NEW r \in Runner, WriterExit(r) PROVE LeaseInv'
  BY <1>11 DEF WriterExit
<1>12. ASSUME NEW r \in Runner, WriterClosed(r) PROVE LeaseInv'
  BY <1>12 DEF WriterClosed
<1>13. ASSUME NEW r \in Runner, Finish(r) \/ Uncaught(r) PROVE LeaseInv'
  BY <1>13 DEF Finish, Uncaught
<1>14. ASSUME NEW r \in Runner, ReleaseCheck(r) PROVE LeaseInv'
  BY <1>14 DEF ReleaseCheck
<1>15. ASSUME NEW r \in Runner, ReleaseUnlink(r) PROVE LeaseInv'
  BY <1>15 DEF ReleaseUnlink, NoConfusion
<1>16. ASSUME NEW r \in Runner, ReleaseRmdir(r) PROVE LeaseInv'
  BY <1>16 DEF ReleaseRmdir
<1>17. ASSUME NEW r \in Runner, Die(r) PROVE LeaseInv'
  BY <1>17 DEF Die, Started
<1>18. CASE UNCHANGED vars
  BY <1>18 DEF vars
<1> QED
  BY <1>1, <1>2, <1>3, <1>4, <1>5, <1>6, <1>7, <1>8, <1>9, <1>10, <1>11, <1>12,
     <1>13, <1>14, <1>15, <1>16, <1>17, <1>18 DEF Next

\* Between acquisition and release a runner finds its own token in the lease
\* directory, unless a contender is preempted while an owner releases.
THEOREM HoldersOwnTheDirectory == Spec => []HolderOwnsDir
<1>1. LeaseInv => HolderOwnsDir
  BY DEF LeaseInv, HolderOwnsDir
<1> QED
  BY <1>1, InitTypeInv, StepTypeInv, InitLeaseInv, StepLeaseInv, PTL DEF Spec

\* A takeover moves the lease of the owner that was found stale.
THEOREM TakeoverMovesWhatItRead == Spec => MovesWhatItRead
<1>1. TypeInv /\ LeaseInv /\ [Next]_vars => [NoConfusion => MovesAsideStep]_vars
  <2> SUFFICES ASSUME TypeInv, LeaseInv, [Next]_vars, NoConfusion,
                      NEW r \in Runner, pc[r] = "takeover", pc'[r] # "takeover",
                      IsOwner(dir), dir' = Absent
               PROVE dir.token = seen[r].token
    BY DEF MovesAsideStep
  <2>1. Takeover(r) \/ Die(r)
    BY DEF Next, vars, TypeInv, TypeOK, Goto, Begin, Create, Exists, Inspect, Probe,
           Takeover, BeginWriter, UpdateCheck, UpdateWrite, Spawn, WriterExit,
           WriterClosed, Finish, ReleaseCheck, ReleaseUnlink, ReleaseRmdir, Die, Uncaught
  <2>2. CanMoveAside(r)
    BY <2>1 DEF Takeover, Die, IsOwner
  <2> QED
    BY <2>2 DEF LeaseInv, WindowKnows, OwnsDir, Window, CanMoveAside
<1> QED
  BY <1>1, InitTypeInv, StepTypeInv, InitLeaseInv, StepLeaseInv, PTL DEF Spec, MovesWhatItRead

-----------------------------------------------------------------------------
(***************************************************************************)
(* WriterInv: without faults, the record in the directory runs ahead of    *)
(* the child.  It says "spawning" before there is one and until the pid is *)
(* known, so that the record of a runner that dies at any point of this    *)
(* protocol stays unclaimable for as long as its child lives.              *)
(***************************************************************************)
Registering(r) == pc[r] \in {"check", "write"} /\ stage[r] = "running"
LiveChildRecorded(r) ==
  writer[r] = "live" =>
    /\ OwnsDir(r) /\ dir.writer \in {"spawning", "running"}
    /\ pc[r] \in {"running", "gone"} \/ Registering(r)
SpawnAnnounced(r) == pc[r] = "spawn" \/ Registering(r) => dir.writer = "spawning"
WindowCurrent(r) == pc[r] \in Window => seen[r] = dir
TakeoverOfIdle(r) ==
  pc[r] = "takeover" =>
    \/ seen[r].writer = "none"
    \/ seen[r].writer = "running" /\ writer[seen[r].token] # "live"

WriterInv ==
  faults = {} =>
    \A r \in Runner : /\ LiveChildRecorded(r)
                      /\ SpawnAnnounced(r)
                      /\ WindowCurrent(r)
                      /\ TakeoverOfIdle(r)

LEMMA InitWriterInv == Init => WriterInv
  BY DEF Init, WriterInv, LiveChildRecorded, SpawnAnnounced, Registering,
         WindowCurrent, TakeoverOfIdle, Window

LEMMA StepWriterInv == TypeInv /\ LeaseInv /\ WriterInv /\ [Next]_vars => WriterInv'
<1> SUFFICES ASSUME TypeInv, LeaseInv, WriterInv, [Next]_vars, faults' = {}
             PROVE WriterInv'
  BY DEF WriterInv
<1>0. faults = {}
  BY DEF Next, vars, Begin, Create, Exists, Inspect, Probe, Takeover,
         BeginWriter, UpdateCheck, UpdateWrite, Spawn, WriterExit, WriterClosed,
         Finish, ReleaseCheck, ReleaseUnlink, ReleaseRmdir, Die, Uncaught
<1> USE <1>0, MarkerAssumption
    DEF TypeInv, TypeOK, LeaseInv, NoConfusion, NamesHolder, TakeoverOfDead, OneInWindow,
        WriterInv, LiveChildRecorded, SpawnAnnounced, Registering, WindowCurrent,
        TakeoverOfIdle, Goto, OwnsDir, IsOwner, PC, Acquiring, Holding, Leaving, Window,
        Undisturbed, Owner, WriterState
<1>1. ASSUME NEW r \in Runner, Begin(r) PROVE WriterInv'
  BY <1>1 DEF Begin
<1>2. ASSUME NEW r \in Runner, Create(r) PROVE WriterInv'
  BY <1>2 DEF Create
<1>3. ASSUME NEW r \in Runner, Exists(r) PROVE WriterInv'
  BY <1>3 DEF Exists
<1>4. ASSUME NEW r \in Runner, Inspect(r) PROVE WriterInv'
  BY <1>4 DEF Inspect
<1>5. ASSUME NEW r \in Runner, Probe(r) PROVE WriterInv'
  BY <1>5 DEF Probe, MayLookStale, WriterMayLookGone
<1>6. ASSUME NEW r \in Runner, Takeover(r) PROVE WriterInv'
  BY <1>6 DEF Takeover, NextRound, CanMoveAside
<1>7. ASSUME NEW r \in Runner, BeginWriter(r) PROVE WriterInv'
  BY <1>7 DEF BeginWriter
<1>8. ASSUME NEW r \in Runner, UpdateCheck(r) PROVE WriterInv'
  BY <1>8 DEF UpdateCheck, AfterFailedUpdate
<1>9. ASSUME NEW r \in Runner, UpdateWrite(r) PROVE WriterInv'
  BY <1>9 DEF UpdateWrite, AfterFailedUpdate, AfterUpdate
<1>10. ASSUME NEW r \in Runner, Spawn(r) PROVE WriterInv'
  BY <1>10 DEF Spawn
<1>11. ASSUME NEW r \in Runner, WriterExit(r) PROVE WriterInv'
  BY <1>11 DEF WriterExit
<1>12. ASSUME NEW r \in Runner, WriterClosed(r) PROVE WriterInv'
  BY <1>12 DEF WriterClosed
<1>13. ASSUME NEW r \in Runner, Finish(r) \/ Uncaught(r) PROVE WriterInv'
  BY <1>13 DEF Finish, Uncaught
<1>14. ASSUME NEW r \in Runner, ReleaseCheck(r) PROVE WriterInv'
  BY <1>14 DEF ReleaseCheck
<1>15. ASSUME NEW r \in Runner, ReleaseUnlink(r) PROVE WriterInv'
  BY <1>15 DEF ReleaseUnlink
<1>16. ASSUME NEW r \in Runner, ReleaseRmdir(r) PROVE WriterInv'
  BY <1>16 DEF ReleaseRmdir
<1>17. ASSUME NEW r \in Runner, Die(r) PROVE WriterInv'
  BY <1>17 DEF Die, Started
<1>18. CASE UNCHANGED vars
  BY <1>18 DEF vars
<1> QED
  BY <1>1, <1>2, <1>3, <1>4, <1>5, <1>6, <1>7, <1>8, <1>9, <1>10, <1>11, <1>12,
     <1>13, <1>14, <1>15, <1>16, <1>17, <1>18 DEF Next

\* While a child may be writing, the lease cannot be found reclaimable.
THEOREM LiveWriterIsCovered == Spec => []WriterCovered
<1>1. WriterInv => WriterCovered
  BY DEF WriterInv, LiveChildRecorded, WriterCovered, LiveWriters
<1> QED
  BY <1>1, InitTypeInv, StepTypeInv, InitLeaseInv, StepLeaseInv,
     InitWriterInv, StepWriterInv, PTL DEF Spec

\* At most one child writes the session file, whichever runners die and when.
THEOREM AtMostOneWriter == Spec => []OneWriter
<1>1. WriterInv => OneWriter
  BY DEF WriterInv, LiveChildRecorded, OneWriter, LiveWriters, OwnsDir
<1> QED
  BY <1>1, InitTypeInv, StepTypeInv, InitLeaseInv, StepLeaseInv,
     InitWriterInv, StepWriterInv, PTL DEF Spec

-----------------------------------------------------------------------------
(***************************************************************************)
(* Refinement.  Without faults every step of the lease is a step of        *)
(* LeaseContract, or does not change what that contract speaks of.         *)
(***************************************************************************)

LEMMA InitRefines == Init => Contract!Init
  BY DEF Init, Contract!Init, OwnerOf, Holders, IsOwner, Holding

LEMMA StepRefines ==
  ASSUME TypeInv, LeaseInv, WriterInv, [Next]_vars, faults = {}
  PROVE  Contract!Next \/ UNCHANGED Contract!vars
<1>0. /\ Contract!vars = <<OwnerOf, Holders, {}>>
      /\ Contract!vars' = <<OwnerOf', Holders', {}>>
  BY DEF Contract!vars
<1>a. ASSUME OwnerOf' = OwnerOf, Holders' = Holders
      PROVE  UNCHANGED Contract!vars
  BY <1>0, <1>a
<1>b. ASSUME NEW r \in Runner, Holders' = Holders \ {r}, r \in Holders,
             \/ OwnerOf' = OwnerOf
             \/ OwnerOf[Session] = r /\ OwnerOf' = [k \in {Session} |-> Nil]
      PROVE  Contract!Next
  <2>1. OwnerOf' = OwnerOf \/ OwnerOf' = [OwnerOf EXCEPT ![Session] = Nil]
    BY <1>b DEF OwnerOf
  <2>2. Contract!Stop({r})
    BY <1>b, <2>1 DEF Contract!Stop
  <2>3. {r} \in SUBSET Holders
    BY <1>b
  <2> QED BY <2>2, <2>3 DEF Contract!Next
<1>c. /\ \A r \in Runner : pc[r] \in Holding => OwnsDir(r)
      /\ NamesHolder
      /\ \A r \in Runner : WindowKnows(r) /\ TakeoverOfDead(r)
      /\ OneInWindow
      /\ \A r \in Runner : /\ LiveChildRecorded(r) /\ SpawnAnnounced(r)
                           /\ WindowCurrent(r) /\ TakeoverOfIdle(r)
  BY DEF LeaseInv, NoConfusion, WriterInv
<1> USE <1>c, MarkerAssumption
    DEF TypeInv, TypeOK, Goto, OwnsDir, IsOwner, Owner, WriterState
\* Steps between two places that are equally far from holding.
<1>1. ASSUME NEW r \in Runner,
             \/ Begin(r) \/ Exists(r) \/ Inspect(r) \/ Probe(r) \/ BeginWriter(r)
             \/ UpdateCheck(r) \/ WriterClosed(r) \/ Finish(r)
      PROVE  UNCHANGED Contract!vars
  <2>1. dir' = dir /\ writer' = writer
    BY <1>1 DEF Begin, Exists, Inspect, Probe, BeginWriter, UpdateCheck, WriterClosed, Finish
  <2>2. \A q \in Runner : pc'[q] \in Holding <=> pc[q] \in Holding
    BY <1>1 DEF Begin, Exists, Inspect, Probe, BeginWriter, UpdateCheck, WriterClosed,
                Finish, Holding, AfterFailedUpdate
  <2> QED BY <2>1, <2>2, <1>a DEF OwnerOf, Holders
<1>2. ASSUME NEW r \in Runner, Create(r)
      PROVE  Contract!Next \/ UNCHANGED Contract!vars
  <2>1. r \notin Holders
    BY <1>2 DEF Create, Holders, Holding, LiveChildRecorded, Registering
  <2>2. CASE IsOwner(dir)
    BY <1>2, <2>2, <1>a DEF Create, OwnerOf, Holders, Holding
  <2>3. CASE ~IsOwner(dir)
    <3>1. [token |-> r, writer |-> "none"] \in Owner
      OBVIOUS
    <3>2. OwnerOf' = [OwnerOf EXCEPT ![Session] = r]
      BY <1>2, <2>3, <3>1 DEF Create, OwnerOf
    <3>3. Holders' = Holders \cup {r}
      BY <1>2, <2>3 DEF Create, Holders, Holding
    <3>4. OwnerOf[Session] \notin Holders
      BY <2>3 DEF OwnerOf, Holders
    <3>5. Contract!Grant(r)
      BY <2>1, <3>2, <3>3, <3>4 DEF Contract!Grant, Contract!Free
    <3> QED BY <3>5 DEF Contract!Next
  <2> QED BY <2>2, <2>3
\* A dead owner without a child holds nothing: its name is cleared.
<1>3. ASSUME NEW r \in Runner, Takeover(r)
      PROVE  Contract!Next \/ UNCHANGED Contract!vars
  <2>1. Holders' = Holders
    BY <1>3 DEF Takeover, Holders, Holding, NextRound
  <2>2. CASE ~CanMoveAside(r)
    BY <1>3, <2>1, <2>2, <1>a DEF Takeover, OwnerOf
  <2>3. CASE CanMoveAside(r)
    <3>1. /\ OwnsDir(seen[r].token) /\ pc[seen[r].token] = "gone"
          /\ writer[seen[r].token] # "live"
      BY <1>3, <2>3 DEF Takeover, CanMoveAside, Window, WindowKnows, TakeoverOfDead,
                        WindowCurrent, TakeoverOfIdle, LiveChildRecorded
    <3>2. OwnerOf[Session] \notin Holders
      BY <3>1 DEF OwnerOf, Holders, Holding
    <3>3. OwnerOf' = [k \in {Session} |-> IF k \in {Session} THEN Nil ELSE OwnerOf[k]]
      BY <1>3, <2>3 DEF Takeover, OwnerOf
    <3>4. Contract!Clear({Session})
      BY <2>1, <3>2, <3>3 DEF Contract!Clear
    <3> QED BY <3>4 DEF Contract!Next
  <2> QED BY <2>2, <2>3
<1>4. ASSUME NEW r \in Runner, UpdateWrite(r)
      PROVE  UNCHANGED Contract!vars
  <2>1. OwnsDir(r)
    BY <1>4 DEF UpdateWrite, Holding
  <2>2. OwnsDir(r)'
    BY <1>4, <2>1 DEF UpdateWrite
  <2>3. \A q \in Runner : pc'[q] \in Holding <=> pc[q] \in Holding
    BY <1>4 DEF UpdateWrite, AfterUpdate, AfterFailedUpdate, Holding
  <2>4. writer' = writer
    BY <1>4 DEF UpdateWrite
  <2> QED BY <2>1, <2>2, <2>3, <2>4, <1>a DEF OwnerOf, Holders
<1>5. ASSUME NEW r \in Runner, Spawn(r)
      PROVE  UNCHANGED Contract!vars
  BY <1>5, <1>a DEF Spawn, OwnerOf, Holders, Holding
\* The child of a dead runner ends, and with it the lease.
<1>6. ASSUME NEW r \in Runner, WriterExit(r)
      PROVE  Contract!Next \/ UNCHANGED Contract!vars
  <2>1. OwnerOf' = OwnerOf
    BY <1>6 DEF WriterExit, OwnerOf
  <2>2. CASE pc[r] \in Holding
    BY <1>6, <2>1, <2>2, <1>a DEF WriterExit, Holders
  <2>3. CASE pc[r] \notin Holding
    BY <1>6, <2>1, <2>3, <1>b DEF WriterExit, Holders
  <2> QED BY <2>2, <2>3
<1>7. ASSUME NEW r \in Runner, ReleaseCheck(r)
      PROVE  UNCHANGED Contract!vars
  BY <1>7, <1>a DEF ReleaseCheck, OwnerOf, Holders, Holding
<1>8. ASSUME NEW r \in Runner, ReleaseUnlink(r)
      PROVE  Contract!Next
  <2>1. OwnsDir(r) /\ writer[r] # "live"
    BY <1>8 DEF ReleaseUnlink, Holding, LiveChildRecorded, Registering
  <2>2. Holders' = Holders \ {r} /\ r \in Holders
    BY <1>8, <2>1 DEF ReleaseUnlink, Holders, Holding
  <2>3. OwnerOf[Session] = r /\ OwnerOf' = [k \in {Session} |-> Nil]
    BY <1>8, <2>1 DEF ReleaseUnlink, OwnerOf
  <2> QED BY <2>2, <2>3, <1>b
<1>9. ASSUME NEW r \in Runner, ReleaseRmdir(r)
      PROVE  UNCHANGED Contract!vars
  BY <1>9, <1>a DEF ReleaseRmdir, OwnerOf, Holders, Holding
<1>10. ASSUME NEW r \in Runner, Die(r)
       PROVE  Contract!Next \/ UNCHANGED Contract!vars
  <2>1. OwnerOf' = OwnerOf
    BY <1>10 DEF Die, OwnerOf
  <2>2. CASE pc[r] \in Holding /\ writer[r] # "live"
    BY <1>10, <2>1, <2>2, <1>b DEF Die, Holders, Holding
  <2>3. CASE ~(pc[r] \in Holding /\ writer[r] # "live")
    BY <1>10, <2>1, <2>3, <1>a DEF Die, Holders, Holding
  <2> QED BY <2>2, <2>3
<1>11. CASE UNCHANGED vars
  BY <1>11, <1>a DEF vars, OwnerOf, Holders
<1> QED
  BY <1>1, <1>2, <1>3, <1>4, <1>5, <1>6, <1>7, <1>8, <1>9, <1>10, <1>11
     DEF Next, Uncaught

(***************************************************************************)
(* A runner, and after its death its child, holds the session exclusively: *)
(* the lease keeps the contract of the lock, for any number of runners.    *)
(***************************************************************************)
THEOREM LeaseImplementsContract == Spec => ImplementsContract
<1>1. TypeInv /\ LeaseInv /\ WriterInv /\ [Next]_vars
        => [faults = {} => Contract!Next \/ UNCHANGED Contract!vars]_vars
  BY StepRefines
<1> QED
  BY <1>1, InitTypeInv, StepTypeInv, InitLeaseInv, StepLeaseInv, InitWriterInv,
     StepWriterInv, InitRefines, PTL DEF Spec, ImplementsContract
=============================================================================
