--------------------------- MODULE ResultDelivery ---------------------------
(***************************************************************************)
(* How a parent Pi process hands the result files of its background runs   *)
(* to the session they belong to: createResultWatcher of                   *)
(* src/runs/background/result-watcher.ts with its file coalescer, the      *)
(* notifier of notify.ts and the batcher of completion-batcher.ts.         *)
(*                                                                         *)
(* The extension is instantiated anew for every session the process opens  *)
(* or reloads; such an instance is called a runtime.  The process has one  *)
(* event loop: a step is what runs between two awaits.  A result file      *)
(* stands for its run, whose id is the key of both maps of seen results.   *)
(***************************************************************************)
EXTENDS Naturals, FiniteSets

CONSTANTS
  File,      \* result files, one for each run
  Session,   \* sessions the process may open
  Outcomes,  \* the sets of files whose runs are completed, not failed
  Intercom,  \* the files with an intercom target
  MaxLease,  \* bound: changes of the delivery epoch; one is left for a restart
  Faults,    \* the faults considered, a subset of those below
  None       \* no session is open

ASSUME FilesAssumption == Outcomes \subseteq SUBSET File /\ Intercom \subseteq File
ASSUME FaultsAssumption == Faults \subseteq {"crash", "send", "unlink", "gap", "poll"}
ASSUME NoneAssumption == None \notin Session
ASSUME LeaseAssumption == MaxLease \in Nat

VARIABLES
  faults,     \* what the environment of this behaviour may do, see below
  owner,      \* owner[f]: the session whose run wrote f
  batched,    \* the files whose run is completed: held back to be grouped
  written,    \* the result files written so far
  disk,       \* the result files in the results directory
  sess,       \* the session of the running runtime
  lease,      \* deliveryEpoch, counted through all runtimes
  born,       \* the lease at which the running runtime started
  watch,      \* the directory watcher of the running runtime
  scheduled,  \* scheduled[f]: the coalescer's timer for f, and its turn mode
  handlers,   \* handleResult calls that are awaiting something
  done,       \* completionSeen of the running runtime
  told,       \* the notifier's own map of seen results
  sent,       \* history: sent[f] notifications of f have been accepted (<= 2)
  turns,      \* history: the results of each message that has started a turn
  recovered   \* history: the files found by a runtime that recovers a session

vars == <<faults, owner, batched, written, disk, sess, lease, born, watch, scheduled,
          handlers, done, told, sent, turns, recovered>>
worldVars == <<faults, owner, batched, written>>
runtimeVars == <<sess, lease, born, watch, recovered>>

(***************************************************************************)
(* "crash":  the process may die at any point.                             *)
(* "send":   sendMessage may throw, or the nested registry be unreadable.  *)
(* "unlink": a delivered file may resist its removal.                      *)
(* "gap":    fs.watch may fail, at once or later, and is started again     *)
(*           after a while.                                                *)
(* "poll":   fs.watch may be short of handles; the directory is polled.    *)
(***************************************************************************)

Handler == [file : File, lease : 0 .. MaxLease, wake : BOOLEAN,
            at : {"intercom", "batched"}]

Held == {h \in handlers : h.at = "batched"}

\* The set `processing' of the running runtime.
Processing == {h.file : h \in {g \in handlers : g.lease >= born}}

\* Mutant: any open session will do.
OwnsAnySession(f, epoch) == epoch = lease /\ sess # None

\* ownsSession
Owns(f, epoch) == epoch = lease /\ sess = owner[f]

\* Mutant: the last call decides the mode.
ScheduleLast(S, wake, timers) ==
  [f \in File |-> IF f \in S THEN IF wake THEN "wake" ELSE "quiet" ELSE timers[f]]

\* scheduleResult on every file of S: a timer that waits stays, and once the
\* mode is quiet it stays quiet.
Schedule(S, wake, timers) ==
  [f \in File |-> IF f \notin S THEN timers[f]
                  ELSE IF wake /\ timers[f] # "quiet" THEN "wake" ELSE "quiet"]

NoTimers == [f \in File |-> "no"]

-----------------------------------------------------------------------------
Init ==
  /\ faults \in SUBSET Faults
  /\ owner \in [File -> Session] /\ batched \in Outcomes
  /\ written = {} /\ disk = {}
  /\ sess = None /\ lease = 0 /\ born = 0 /\ watch = "off"
  /\ scheduled = NoTimers
  /\ handlers = {}
  /\ done = {} /\ told = {}
  /\ sent = [f \in File |-> 0]
  /\ turns = {} /\ recovered = {}

\* A runner (or a repair) writes its result; the watcher sees the rename.
\* The removal of a file is seen too: its handler finds no file, and ends.
Write(f) ==
  /\ f \notin written
  /\ written' = written \cup {f}
  /\ disk' = disk \cup {f}
  /\ scheduled' = IF watch = "on" THEN Schedule({f}, TRUE, scheduled) ELSE scheduled
  /\ UNCHANGED <<faults, owner, batched, runtimeVars, handlers, done, told, sent, turns>>

\* What becomes of a watcher that fails, or cannot be started.
Broken == {IF e = "gap" THEN "restarting" ELSE "polling" : e \in faults \cap {"gap", "poll"}}

\* Mutant: a new runtime waits for events only.
FoundNone == {}

\* primeExistingResults
Found == disk

\* startPolling looks at the directory at once, a new watcher does not.
AfterStart(w, timers) == IF w = "polling" THEN Schedule(Found, TRUE, timers) ELSE timers

\* session_start: start the watcher, then look at what is there already.
Boot(s, recovering) ==
  /\ sess = None /\ lease + 1 < MaxLease
  /\ sess' = s
  /\ lease' = lease + 1 /\ born' = lease + 1
  /\ watch' \in {"on"} \cup Broken
  /\ scheduled' = Schedule(Found, ~recovering, AfterStart(watch', NoTimers))
  /\ done' = {} /\ told' = {} /\ turns' = {}
  /\ recovered' = IF recovering THEN disk ELSE {}
  /\ UNCHANGED <<worldVars, disk, handlers, sent>>

\* session_shutdown: stopResultWatcher, then the notifier's dispose, which
\* settles what it holds as not accepted; those handlers end.
Shutdown ==
  /\ sess # None /\ lease < MaxLease
  /\ sess' = None
  /\ lease' = lease + 1
  /\ watch' = "off"
  /\ scheduled' = NoTimers
  /\ handlers' = handlers \ Held
  /\ UNCHANGED <<worldVars, disk, born, done, told, sent, turns, recovered>>

Crash ==
  /\ "crash" \in faults /\ sess # None
  /\ sess' = None /\ watch' = "off"
  /\ scheduled' = NoTimers
  /\ handlers' = {}
  /\ UNCHANGED <<worldVars, disk, lease, born, done, told, sent, turns, recovered>>

\* The watcher reports an error: close it, and poll or try again in a while.
WatchFails ==
  /\ watch = "on" /\ lease < MaxLease
  /\ watch' \in Broken
  /\ scheduled' = AfterStart(watch', scheduled)
  /\ UNCHANGED <<worldVars, disk, sess, lease, born, recovered, handlers, done,
                 told, sent, turns>>

\* scheduleRestart: a new watcher, and a new epoch.
Restart ==
  /\ watch = "restarting" /\ lease < MaxLease
  /\ lease' = lease + 1
  /\ watch' \in {"on"} \cup (Broken \ {"restarting"})
  /\ scheduled' = AfterStart(watch', scheduled)
  /\ UNCHANGED <<worldVars, disk, sess, born, recovered, handlers, done, told,
                 sent, turns>>

Poll ==
  /\ watch = "polling" /\ disk # {}
  /\ scheduled' = Schedule(Found, TRUE, scheduled)
  /\ UNCHANGED <<worldVars, disk, runtimeVars, handlers, done, told, sent, turns>>

-----------------------------------------------------------------------------
(* Delivery.  `timers' are the coalescer's timers without the one that has *)
(* just fired, `calls' the handlers that go on awaiting.                   *)

\* Mutant: a delivered file is left where it is.
RemoveNothing(S, wake, timers) == disk' = disk /\ scheduled' = timers

\* Removal of S: each file goes, or its removal fails and is tried again.
Remove(S, wake, timers) ==
  \E stuck \in SUBSET (S \cap disk) :
    /\ stuck = {} \/ "unlink" \in faults
    /\ disk' = disk \ (S \ stuck)
    /\ scheduled' =
         [f \in File |-> IF f \in stuck THEN Schedule({f}, wake[f], timers)[f] ELSE timers[f]]

\* sendCompletion: each message, a set of handlers, starts a turn of the model
\* if one of its results asks for it; the results it announces are noted.
TurnsOf(messages) == {{h.file : h \in m} : m \in {n \in messages : \E h \in n : h.wake}}

\* The messages are sent, and their handlers and those of `known', which the
\* notifier has seen before, go on to the end: a handler whose epoch has
\* passed stops there, another marks its result and removes it.
Accepted(messages, known, timers, calls) ==
  LET items == UNION messages
      files == {h.file : h \in items}
      mine  == {h.file : h \in {g \in items \cup known : Owns(g.file, g.lease)}}
      wake  == [f \in File |-> \E h \in items \cup known : h.file = f /\ h.wake]
  IN  /\ sent' = [f \in File |-> IF f \in files /\ sent[f] < 2 THEN sent[f] + 1 ELSE sent[f]]
      /\ turns' = turns \cup TurnsOf(messages)
      /\ told' = told \cup files
      /\ done' = done \cup mine
      /\ Remove(mine, wake, timers)
      /\ handlers' = calls

\* Mutant: nobody asks whether the send was accepted.
RefusedUnnoticed(items, timers, calls) ==
  LET mine == {h.file : h \in {g \in items : Owns(g.file, g.lease)}}
  IN  /\ "send" \in faults
      /\ done' = done \cup mine
      /\ Remove(mine, [f \in File |-> TRUE], timers)
      /\ handlers' = calls
      /\ UNCHANGED <<sent, turns, told>>

\* sendMessage throws: who still owns its result will try again.
Refused(items, timers, calls) ==
  LET mine == {h \in items : Owns(h.file, h.lease)}
  IN  /\ "send" \in faults
      /\ scheduled' =
           [f \in File |->
              IF \E h \in mine : h.file = f
                THEN Schedule({f}, \A h \in mine : h.file = f => h.wake, timers)[f]
                ELSE timers[f]]
      /\ handlers' = calls
      /\ UNCHANGED <<disk, sent, turns, told, done>>

AlreadyTold(f) == f \in told

\* The notifier's deliver: known results are accepted at once, completed runs
\* are held back, any other sends out what is held in one message and itself in
\* a second one; sendMessage refuses both or none, as it throws only when the
\* runtime is stale.
DeliverTo(h, timers, calls) ==
  IF AlreadyTold(h.file) THEN Accepted({}, {h}, timers, calls)
  ELSE IF h.file \in batched
    THEN /\ handlers' = calls \cup {[h EXCEPT !.at = "batched"]}
         /\ scheduled' = timers
         /\ UNCHANGED <<disk, sent, turns, told, done>>
  ELSE \/ Accepted({Held, {h}}, {}, timers, calls \ Held)
       \/ Refused(Held \cup {h}, timers, calls \ Held)

\* Mutant: a file is handled while an earlier call is still at it.
MayHandleTwice(f) == f \in disk

MayHandle(f) == f \notin Processing /\ f \in disk

\* The coalescer's timer fires: handleResult up to its first await.
Fire(f) ==
  LET h == [file |-> f, lease |-> lease, wake |-> scheduled[f] = "wake", at |-> "intercom"]
      timers == [scheduled EXCEPT ![f] = "no"]
  IN  /\ sess # None /\ scheduled[f] # "no"
      /\ IF ~MayHandle(f) \/ ~Owns(f, lease)
           THEN scheduled' = timers /\ UNCHANGED <<disk, handlers, done, told, sent, turns>>
         ELSE IF f \in done
           THEN /\ Remove({f}, [g \in File |-> h.wake], timers)
                /\ UNCHANGED <<handlers, done, told, sent, turns>>
         ELSE IF f \in Intercom /\ h.wake
           THEN /\ handlers' = handlers \cup {h}
                /\ scheduled' = timers
                /\ UNCHANGED <<disk, done, told, sent, turns>>
         ELSE DeliverTo(h, timers, handlers)
      /\ UNCHANGED <<worldVars, runtimeVars>>

\* The intercom answers, or 500 ms pass.
IntercomDone(h) ==
  /\ h \in handlers /\ h.at = "intercom"
  /\ IF Owns(h.file, h.lease)
       THEN DeliverTo(h, scheduled, handlers \ {h})
       ELSE handlers' = handlers \ {h} /\ UNCHANGED <<disk, scheduled, done, told, sent, turns>>
  /\ UNCHANGED <<worldVars, runtimeVars>>

\* The batcher's debounce or its longest wait ends: emitGroup.
EmitGroup ==
  /\ Held # {}
  /\ \/ Accepted({Held}, {}, scheduled, handlers \ Held)
     \/ Refused(Held, scheduled, handlers \ Held)
  /\ UNCHANGED <<worldVars, runtimeVars>>

\* The process dies after the message has reached the session.
EmitAndCrash ==
  /\ "crash" \in faults /\ Held # {}
  /\ sent' = [f \in File |-> IF \E h \in Held : h.file = f /\ sent[f] < 2
                              THEN sent[f] + 1 ELSE sent[f]]
  /\ turns' = turns \cup TurnsOf({Held})
  /\ sess' = None /\ watch' = "off"
  /\ scheduled' = NoTimers
  /\ handlers' = {}
  /\ UNCHANGED <<worldVars, disk, lease, born, recovered, done, told>>

Next ==
  \/ \E f \in File : Write(f) \/ Fire(f)
  \/ \E s \in Session, recovering \in BOOLEAN : Boot(s, recovering)
  \/ \E h \in handlers : IntercomDone(h)
  \/ EmitGroup \/ EmitAndCrash
  \/ Shutdown \/ Crash \/ WatchFails \/ Restart \/ Poll

Spec == Init /\ [][Next]_vars

(***************************************************************************)
(* Fairness: timers fire, an intercom await is bounded by 500 ms, and the  *)
(* polling interval and the restart timer go off, as long as the event     *)
(* loop of the process turns.                                              *)
(***************************************************************************)
Fairness ==
  /\ \A f \in File : WF_vars(Fire(f))
  /\ WF_vars(\E h \in handlers : IntercomDone(h))
  /\ WF_vars(EmitGroup) /\ WF_vars(Restart) /\ WF_vars(Poll)

FairSpec == Spec /\ Fairness

-----------------------------------------------------------------------------
(* Properties.                                                             *)

TypeOK ==
  /\ faults \subseteq Faults
  /\ owner \in [File -> Session] /\ batched \in Outcomes
  /\ disk \subseteq written /\ written \subseteq File
  /\ sess \in Session \cup {None}
  /\ lease \in 0 .. MaxLease /\ born \in 0 .. lease
  /\ watch \in {"off", "on", "restarting", "polling"}
  /\ scheduled \in [File -> {"no", "quiet", "wake"}]
  /\ handlers \subseteq Handler
  /\ \A g, h \in handlers : {g.lease, h.lease} \subseteq born .. lease /\ g.file = h.file => g = h
  /\ done \subseteq File /\ told \subseteq File
  /\ sent \in [File -> 0 .. 2]
  /\ turns \subseteq SUBSET File /\ recovered \subseteq File

\* No result is lost: a result file leaves the directory only after the
\* notification of its run has been accepted by the session.
RemovedIsSent == \A f \in written \ disk : sent[f] > 0

\* A result is announced once, however often it is scheduled, retried, or
\* found again by a later runtime; a crash, a removal that fails and a watcher
\* that is replaced are the exceptions.
SentOnce == faults \cap {"crash", "unlink", "gap"} = {} => \A f \in File : sent[f] <= 1

\* A result never reaches, and is never removed for, another session than its
\* own, whatever callbacks of earlier runtimes are still under way.
OnlyForItsSession ==
  [][ \A f \in File : sent'[f] # sent[f] \/ (f \in disk /\ f \notin disk')
        => sess = owner[f] ]_vars

\* The results a runtime finds when it recovers a session never start a turn of
\* the model of their own: a message that starts one has a newer result in it,
\* whatever was scheduled again, refused and retried, or grouped with what.
RecoveredStaysQuiet == "gap" \notin faults => \A g \in turns : ~(g \subseteq recovered)

\* Every result of the session that stays open is announced.
Stays(f) == <>[](sess = owner[f])
Announced(f) == (Stays(f) /\ <>(f \in written)) => <>(sent[f] > 0)
EventuallyAnnounced == faults \cap {"send", "gap"} = {} => \A f \in File : Announced(f)

\* SKILL.md: "let Pi wake the session on completion", also when fs.watch has
\* failed for a while.
AnnouncedAfterRestart == faults \cap {"send"} = {} => \A f \in File : Announced(f)
=============================================================================
