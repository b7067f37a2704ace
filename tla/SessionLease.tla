---------------------------- MODULE SessionLease ----------------------------
(***************************************************************************)
(* The revival lease of pi-subagents (src/runs/shared/session-lease.ts)    *)
(* with its one user, the detached runner (runConfiguredSubagent and       *)
(* runPiStreaming of src/runs/background/subagent-runner.ts).              *)
(*                                                                         *)
(* All runners of a model contend for ONE canonical session file, hence    *)
(* for one lease directory.  A runner makes one acquisition, and its       *)
(* token is a fresh UUID, so a runner and its token are the same value.    *)
(* Every system call on the shared directory is a step of its own: the     *)
(* contenders are separate operating-system processes.                     *)
(***************************************************************************)
EXTENDS Naturals, FiniteSets

CONSTANTS
  Runner,       \* detached runner processes that revive the same session file
  Host,         \* machines sharing the lease root
  MaxAttempts,  \* rounds of the acquisition loop (4 in the code)
  Absent,       \* there is no lease directory
  Empty,        \* the lease directory holds no owner.json
  Nil           \* no owner observed yet

ASSUME AttemptsAssumption == MaxAttempts \in Nat \ {0}

VARIABLES
  faults,   \* what the environment of this behaviour may do, see Fault
  host,     \* host[r]: the hostname of r's machine
  pc,       \* pc[r]: what r does next
  stage,    \* stage[r]: the writer state an updateWriter call of r is to record
  rounds,   \* rounds[r]: rounds of the acquisition loop r has used
  seen,     \* seen[r]: the owner record r last read from a lease in its way
  dir,      \* the lease directory: Absent, Empty, or the owner.json in it
  tombs,    \* tokens whose tombstone directory exists with an owner.json in it
  writer,   \* writer[r]: the Pi child r spawned last, which writes the session
  released  \* history: the runners that have unlinked their owner.json

vars == <<faults, host, pc, stage, rounds, seen, dir, tombs, writer, released>>

(***************************************************************************)
(* "preempt":  other processes may run between a contender's read of       *)
(*             owner.json and the probe and rename that follow from it.    *)
(* "uncaught": an exception may escape a timer callback of a runner whose  *)
(*             child is alive; Node then runs the exit handlers.           *)
(***************************************************************************)
Fault == {"preempt", "uncaught"}

WriterState == {"none", "spawning", "running"}
Owner == [token : Runner, writer : WriterState]
IsOwner(d) == d \notin {Absent, Empty}

ASSUME MarkerAssumption ==
  Absent # Empty /\ {Absent, Empty, Nil} \cap Owner = {} /\ Nil \notin Runner

Acquiring == {"create", "exists", "inspect", "probe", "takeover"}
Holding   == {"held", "check", "write", "spawn", "running",
              "releaseCheck", "releaseUnlink"}
Leaving   == {"releaseRmdir", "exiting"}
PC        == {"idle", "gone"} \cup Acquiring \cup Holding \cup Leaving

\* A runner between its read of owner.json and the rename that relies on it.
Window == {"probe", "takeover"}

Started(r) == pc[r] \notin {"idle", "gone"}

\* Nobody but r is inside the window, or the scheduler preempts it there.
Undisturbed(r) == "preempt" \in faults \/ \A q \in Runner \ {r} : pc[q] \notin Window

Goto(r, l) == pc' = [pc EXCEPT ![r] = l]

-----------------------------------------------------------------------------
(* Acquisition: acquireSessionLease, createLeaseDirectory.                 *)

Init ==
  /\ faults \in SUBSET Fault
  /\ host \in [Runner -> Host]
  /\ pc = [r \in Runner |-> "idle"]
  /\ stage = [r \in Runner |-> "none"]
  /\ rounds = [r \in Runner |-> 0]
  /\ seen = [r \in Runner |-> Nil]
  /\ dir = Absent
  /\ tombs = {}
  /\ writer = [r \in Runner |-> "none"]
  /\ released = {}

Begin(r) ==
  /\ pc[r] = "idle"
  /\ Undisturbed(r)
  /\ Goto(r, "create")
  /\ UNCHANGED <<faults, host, stage, rounds, seen, dir, tombs, writer, released>>

\* rename(2) of the candidate directory replaces nothing or an EMPTY directory.
Create(r) ==
  /\ pc[r] = "create"
  /\ Undisturbed(r)
  /\ IF IsOwner(dir)
       THEN Goto(r, "exists") /\ UNCHANGED dir
       ELSE Goto(r, "held") /\ dir' = [token |-> r, writer |-> "none"]
  /\ UNCHANGED <<faults, host, stage, rounds, seen, tombs, writer, released>>

\* The rename failed: rethrow when the lease is gone again, else look at it.
Exists(r) ==
  /\ pc[r] = "exists"
  /\ Undisturbed(r)
  /\ Goto(r, IF dir = Absent THEN "exiting" ELSE "inspect")
  /\ UNCHANGED <<faults, host, stage, rounds, seen, dir, tombs, writer, released>>

\* Mutant: a lease without a readable owner is taken for an owner.
InspectUnreadable(r) ==
  /\ pc[r] = "inspect"
  /\ Undisturbed(r)
  /\ Goto(r, "probe")
  /\ seen' = [seen EXCEPT ![r] = dir]
  /\ UNCHANGED <<faults, host, stage, rounds, dir, tombs, writer, released>>

\* readLeaseOwner: an owner that cannot be read is a conflict.
Inspect(r) ==
  /\ pc[r] = "inspect"
  /\ Undisturbed(r)
  /\ IF IsOwner(dir)
       THEN Goto(r, "probe") /\ seen' = [seen EXCEPT ![r] = dir]
       ELSE Goto(r, "exiting") /\ UNCHANGED seen
  /\ UNCHANGED <<faults, host, stage, rounds, dir, tombs, writer, released>>

\* Mutant: an unreadable process start counts as a different process.
OwnerMayLookGoneUnproved(t) == pc[t] # "idle"

\* processDemonstrablyGone: a live process is never reported gone; a dead one
\* may look alive, its pid reused by a process whose start cannot be read.
OwnerMayLookGone(t) == pc[t] = "gone"
WriterMayLookGone(t) == writer[t] # "live"

\* Mutant: the writer of a dead owner is not looked at.
MayLookStaleIgnoringWriter(r) ==
  host[seen[r].token] = host[r] /\ OwnerMayLookGone(seen[r].token)

\* demonstrablyStale, evaluated on the record read earlier.
MayLookStale(r) ==
  LET o == seen[r]
  IN  /\ host[o.token] = host[r]
      /\ OwnerMayLookGone(o.token)
      /\ \/ o.writer = "none"
         \/ o.writer = "running" /\ WriterMayLookGone(o.token)

Probe(r) ==
  /\ pc[r] = "probe"
  /\ Undisturbed(r)
  /\ \/ MayLookStale(r) /\ Goto(r, "takeover")
     \/ Goto(r, "exiting")
  /\ UNCHANGED <<faults, host, stage, rounds, seen, dir, tombs, writer, released>>

\* Mutant: a tombstone per contender, not per stale owner.
CanMoveAsidePerContender(r) == dir # Absent

\* Can r rename the lease directory to the tombstone of the token it read?
CanMoveAside(r) == dir # Absent /\ seen[r].token \notin tombs

NextRound(r) == IF rounds[r] + 1 < MaxAttempts THEN "create" ELSE "exiting"

Takeover(r) ==
  /\ pc[r] = "takeover"
  /\ Undisturbed(r)
  /\ IF CanMoveAside(r)
       THEN /\ dir' = Absent
            /\ tombs' = IF IsOwner(dir) THEN tombs \cup {seen[r].token} ELSE tombs
       ELSE UNCHANGED <<dir, tombs>>
  /\ rounds' = [rounds EXCEPT ![r] = @ + 1]
  /\ Goto(r, NextRound(r))
  /\ UNCHANGED <<faults, host, stage, seen, writer, released>>

-----------------------------------------------------------------------------
(* The holder: updateWriter around each Pi child, then release.            *)

\* Mutant: the child is spawned before the lease says so.
BeginWriterUnrecorded(r) ==
  /\ pc[r] = "held"
  /\ Undisturbed(r)
  /\ Goto(r, "spawn")
  /\ UNCHANGED <<faults, host, stage, rounds, seen, dir, tombs, writer, released>>

\* runSubagent starts a child (a step, or the next model candidate of a step).
BeginWriter(r) ==
  /\ pc[r] = "held"
  /\ Undisturbed(r)
  /\ stage' = [stage EXCEPT ![r] = "spawning"]
  /\ Goto(r, "check")
  /\ UNCHANGED <<faults, host, rounds, seen, dir, tombs, writer, released>>

\* Where an updateWriter call that threw leaves the runner: no child was
\* spawned, or it is being killed, or it has closed already.
AfterFailedUpdate(r) ==
  CASE stage[r] = "spawning" -> "releaseCheck"
    [] stage[r] = "running"  -> "running"
    [] OTHER                 -> "held"

AfterUpdate(r) ==
  CASE stage[r] = "spawning" -> "spawn"
    [] stage[r] = "running"  -> "running"
    [] OTHER                 -> "held"

OwnsDir(r) == IsOwner(dir) /\ dir.token = r

UpdateCheck(r) ==
  /\ pc[r] = "check"
  /\ Undisturbed(r)
  /\ Goto(r, IF OwnsDir(r) THEN "write" ELSE AfterFailedUpdate(r))
  /\ UNCHANGED <<faults, host, stage, rounds, seen, dir, tombs, writer, released>>

\* The atomic writer recreates the directory and replaces whatever is there;
\* it can also fail (disk full, permissions).
UpdateWrite(r) ==
  /\ pc[r] = "write"
  /\ Undisturbed(r)
  /\ \/ /\ dir' = [token |-> r, writer |-> stage[r]]
        /\ Goto(r, AfterUpdate(r))
     \/ /\ Goto(r, AfterFailedUpdate(r))
        /\ UNCHANGED dir
  /\ UNCHANGED <<faults, host, stage, rounds, seen, tombs, writer, released>>

\* spawn() yields a pid, or fails and reports it through the error event.
Spawn(r) ==
  /\ pc[r] = "spawn"
  /\ Undisturbed(r)
  /\ \/ /\ writer' = [writer EXCEPT ![r] = "live"]
        /\ stage' = [stage EXCEPT ![r] = "running"]
     \/ /\ stage' = [stage EXCEPT ![r] = "none"]
        /\ UNCHANGED writer
  /\ Goto(r, "check")
  /\ UNCHANGED <<faults, host, rounds, seen, dir, tombs, released>>

\* The Pi child ends, whether or not its runner still lives.
WriterExit(r) ==
  /\ writer[r] = "live"
  /\ Undisturbed(r)
  /\ writer' = [writer EXCEPT ![r] = "dead"]
  /\ UNCHANGED <<faults, host, pc, stage, rounds, seen, dir, tombs, released>>

\* child.on("close"): the runner records that no writer is left.
WriterClosed(r) ==
  /\ pc[r] = "running"
  /\ writer[r] # "live"
  /\ Undisturbed(r)
  /\ stage' = [stage EXCEPT ![r] = "none"]
  /\ Goto(r, "check")
  /\ UNCHANGED <<faults, host, rounds, seen, dir, tombs, writer, released>>

\* runSubagent has settled; the finally block releases the lease.
Finish(r) ==
  /\ pc[r] = "held"
  /\ Undisturbed(r)
  /\ Goto(r, "releaseCheck")
  /\ UNCHANGED <<faults, host, stage, rounds, seen, dir, tombs, writer, released>>

ReleaseCheck(r) ==
  /\ pc[r] = "releaseCheck"
  /\ Undisturbed(r)
  /\ Goto(r, IF OwnsDir(r) THEN "releaseUnlink" ELSE "exiting")
  /\ UNCHANGED <<faults, host, stage, rounds, seen, dir, tombs, writer, released>>

\* rmSync(leaseDir, recursive) unlinks owner.json, then removes the directory.
ReleaseUnlink(r) ==
  /\ pc[r] = "releaseUnlink"
  /\ Undisturbed(r)
  /\ dir' = IF IsOwner(dir) THEN Empty ELSE dir
  /\ released' = released \cup {r}
  /\ Goto(r, "releaseRmdir")
  /\ UNCHANGED <<faults, host, stage, rounds, seen, tombs, writer>>

ReleaseRmdir(r) ==
  /\ pc[r] = "releaseRmdir"
  /\ Undisturbed(r)
  /\ dir' = IF dir = Empty THEN Absent ELSE dir
  /\ Goto(r, "exiting")
  /\ UNCHANGED <<faults, host, stage, rounds, seen, tombs, writer, released>>

-----------------------------------------------------------------------------
(* The end of a runner.                                                    *)

\* The process ends by itself, or is killed at any point of its life.
Die(r) ==
  /\ Started(r)
  /\ Undisturbed(r)
  /\ Goto(r, "gone")
  /\ UNCHANGED <<faults, host, stage, rounds, seen, dir, tombs, writer, released>>

\* releaseOnExit runs whatever the state of the child is.
Uncaught(r) ==
  /\ "uncaught" \in faults
  /\ pc[r] \in {"held", "running"}
  /\ Undisturbed(r)
  /\ Goto(r, "releaseCheck")
  /\ UNCHANGED <<faults, host, stage, rounds, seen, dir, tombs, writer, released>>

Next ==
  \E r \in Runner :
    \/ Begin(r) \/ Create(r) \/ Exists(r) \/ Inspect(r) \/ Probe(r) \/ Takeover(r)
    \/ BeginWriter(r) \/ UpdateCheck(r) \/ UpdateWrite(r) \/ Spawn(r)
    \/ WriterExit(r) \/ WriterClosed(r)
    \/ Finish(r) \/ ReleaseCheck(r) \/ ReleaseUnlink(r) \/ ReleaseRmdir(r)
    \/ Die(r) \/ Uncaught(r)

Spec == Init /\ [][Next]_vars

-----------------------------------------------------------------------------
(* Properties.                                                             *)

\* The shape of the state.
TypeOK ==
  /\ faults \subseteq Fault
  /\ host \in [Runner -> Host]
  /\ pc \in [Runner -> PC]
  /\ stage \in [Runner -> WriterState]
  /\ rounds \in [Runner -> 0..MaxAttempts]
  /\ seen \in [Runner -> Owner \cup {Nil}]
  /\ dir \in Owner \cup {Absent, Empty}
  /\ tombs \subseteq Runner
  /\ writer \in [Runner -> {"none", "live", "dead"}]
  /\ released \subseteq Runner

LiveWriters == {r \in Runner : writer[r] = "live"}

\* Two Pi children never write the session file at the same time, even when
\* the runner of one of them was killed and another runner takes its lease
\* over (session-lease.ts, the reason the lease exists).  Holds as long as the
\* inspection of a lease is not preempted and no exception escapes a runner.
OneWriter ==
  faults = {} => \A p, q \in LiveWriters : p = q

\* As long as a child may be writing, the lease directory names its runner and
\* says that there is a writer, so no contender can find it reclaimable,
\* whatever happens to the runner (updateWriter, demonstrablyStale).
WriterCovered ==
  faults = {} =>
    \A r \in LiveWriters : OwnsDir(r) /\ dir.writer \in {"spawning", "running"}

\* Contenders cannot confuse the owner they inspected with its successor: they
\* are not preempted, or every owner so far has died holding its lease.
NoConfusion == "preempt" \notin faults \/ released = {}

\* Every runner between acquisition and release finds its own token in the
\* directory: nobody moves, empties or rewrites the lease of a live holder.
HolderOwnsDir ==
  NoConfusion => \A r \in Runner : pc[r] \in Holding => OwnsDir(r)

\* A contender that renames a lease away moves the lease of the very owner it
\* found stale, never a successor's (the comment at session-lease.ts:264): of
\* any number of contenders that found the same dead owner, one succeeds.
MovesAsideStep ==
  \A r \in Runner :
    pc[r] = "takeover" /\ pc'[r] # "takeover" /\ IsOwner(dir) /\ dir' = Absent
      => dir.token = seen[r].token
MovesWhatItRead == [][NoConfusion => MovesAsideStep]_vars

\* The same for any schedule, which is what that comment promises.
NeverMovesSuccessor == [][MovesAsideStep]_vars

(***************************************************************************)
(* The lease keeps the contract that AtomicLock keeps, with one key and    *)
(* without lapses.  A runner holds it from the rename that creates it to   *)
(* the unlink of owner.json, and, if it dies in between, until its child   *)
(* has ended: that is what a revival (RevivalStartup) relies on.           *)
(***************************************************************************)
Session == "session"
OwnerOf == [k \in {Session} |-> IF IsOwner(dir) THEN dir.token ELSE Nil]
Holders == {r \in Runner : pc[r] \in Holding \/ writer[r] = "live"}
Contract == INSTANCE LeaseContract WITH
  Task <- Runner, Key <- {Session}, KeyOf <- [r \in Runner |-> Session],
  owner <- OwnerOf, holds <- Holders, lapsed <- {}
ImplementsContract ==
  /\ faults = {} => Contract!Init
  /\ [][faults = {} => Contract!Next \/ UNCHANGED Contract!vars]_vars
=============================================================================
