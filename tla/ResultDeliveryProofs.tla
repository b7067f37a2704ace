------------------------ MODULE ResultDeliveryProofs ------------------------
(***************************************************************************)
(* Proofs about ResultDelivery for any files, sessions, faults and number  *)
(* of epochs.  What IInv adds to the properties: whose result a held       *)
(* handler has, that a known result has been sent, what an epoch says      *)
(* while no watcher is replaced, and why a recovered result cannot come to *)
(* a timer that wakes: it has a quiet timer, a quiet handler or nothing    *)
(* left to do.                                                             *)
(***************************************************************************)
EXTENDS ResultDelivery, TLAPS

Mode == {"no", "quiet", "wake"}

\* Nothing happens that could make a result be announced twice.
Calm == faults \cap {"crash", "unlink", "gap"} = {}

\* Two handlers of the running runtime are at different files.
AtDifferentFiles ==
  \A g, h \in handlers : {g.lease, h.lease} \subseteq born .. lease /\ g.file = h.file => g = h
USE DEF AtDifferentFiles

\* The result of h may be announced by the running runtime.
Ours(h) ==
  /\ h.lease \in born .. lease /\ sess = owner[h.file] /\ h.file \in written
  /\ "gap" \notin faults /\ h.file \in recovered => ~h.wake
  /\ Calm => h.file \in disk

HandlersOfThePast == \A h \in handlers : h.lease \in 0 .. lease /\ h.file \in written
HeldIsOurs == \A h \in Held : h.lease \in born .. lease /\ sess = owner[h.file]
KnownIsSent == \A f \in told \cup done : sent[f] > 0
OneEpoch == "gap" \notin faults =>
  watch # "restarting" /\ (sess # None => lease = born)
SentIsGone == Calm =>
  /\ \A h \in handlers : h.lease = lease => h.file \in disk
  /\ \A f \in File : sent[f] > 0 => f \in written \ disk

\* What keeps a recovered result from being handled by a timer that wakes.
Settled(f) ==
  \/ scheduled[f] = "quiet" \/ f \notin disk \/ f \in done \/ owner[f] # sess
  \/ \E h \in handlers : h.file = f /\ h.lease = lease
RecoveredIsSettled == "gap" \notin faults =>
  /\ recovered \subseteq written
  /\ sess # None => \A f \in recovered : Settled(f)
  /\ \A h \in handlers : h.lease = lease /\ h.file \in recovered => ~h.wake

IInv ==
  /\ TypeOK
  /\ HandlersOfThePast /\ HeldIsOurs /\ KnownIsSent
  /\ OneEpoch /\ SentIsGone /\ SentOnce
  /\ RecoveredIsSettled /\ RecoveredStaysQuiet
  /\ RemovedIsSent

\* What scheduling makes of the timers.
LEMMA ScheduleType ==
  ASSUME NEW S, NEW wake, NEW timers \in [File -> Mode]
  PROVE  /\ Schedule(S, wake, timers) \in [File -> Mode]
         /\ \A f \in File : /\ f \notin S => Schedule(S, wake, timers)[f] = timers[f]
                            /\ timers[f] = "quiet" => Schedule(S, wake, timers)[f] = "quiet"
                            /\ f \in S /\ ~wake => Schedule(S, wake, timers)[f] = "quiet"
BY DEF Schedule, Mode

LEMMA InitIInv == Init => IInv
<1> SUFFICES ASSUME Init PROVE IInv
  OBVIOUS
<1> USE DEF Init
<1>1. TypeOK
  BY LeaseAssumption DEF TypeOK, NoTimers
<1>2. HandlersOfThePast /\ HeldIsOurs /\ KnownIsSent
  BY DEF HandlersOfThePast, HeldIsOurs, Held, KnownIsSent
<1>3. OneEpoch /\ SentIsGone /\ SentOnce
  BY DEF OneEpoch, SentIsGone, SentOnce
<1>4. RecoveredIsSettled /\ RecoveredStaysQuiet /\ RemovedIsSent
  BY DEF RecoveredIsSettled, RecoveredStaysQuiet, RemovedIsSent
<1> QED
  BY <1>1, <1>2, <1>3, <1>4 DEF IInv

-----------------------------------------------------------------------------
(* Steps that announce nothing.                                            *)

\* The timers may gain files, as long as a quiet timer stays quiet.
QuietStays == \A f \in File : scheduled[f] = "quiet" => scheduled'[f] = "quiet"

LEMMA TimersOnly ==
  ASSUME IInv, UNCHANGED <<worldVars, disk, sess, lease, born, recovered, handlers, done, told,
                           sent, turns>>,
         scheduled' \in [File -> Mode], QuietStays,
         watch' \in {"off", "on", "restarting", "polling"},
         "gap" \notin faults => watch' # "restarting"
  PROVE  IInv'
<1> USE DEF IInv, worldVars
<1>1. TypeOK'
  BY DEF TypeOK, Mode
<1>2. (HandlersOfThePast /\ HeldIsOurs /\ KnownIsSent /\ RemovedIsSent)'
  BY DEF HandlersOfThePast, HeldIsOurs, Held, KnownIsSent, RemovedIsSent
<1>3. (OneEpoch /\ SentIsGone /\ SentOnce)'
  BY DEF OneEpoch, SentIsGone, SentOnce, Calm
<1>4. (RecoveredIsSettled /\ RecoveredStaysQuiet)'
  BY DEF RecoveredIsSettled, RecoveredStaysQuiet, Settled, QuietStays, TypeOK
<1> QED
  BY <1>1, <1>2, <1>3, <1>4

LEMMA WriteStep == ASSUME IInv, NEW f \in File, Write(f) PROVE IInv'
<1> USE DEF IInv, Write, worldVars, runtimeVars
<1>1. /\ scheduled' \in [File -> Mode]
      /\ \A g \in File \ {f} : scheduled'[g] = scheduled[g]
  BY DEF Schedule, TypeOK, Mode
<1>2. TypeOK'
  BY <1>1 DEF TypeOK, Mode
<1>3. (HandlersOfThePast /\ HeldIsOurs /\ KnownIsSent /\ RemovedIsSent)'
  BY DEF HandlersOfThePast, HeldIsOurs, Held, KnownIsSent, RemovedIsSent
<1>4. (OneEpoch /\ SentIsGone /\ SentOnce)'
  BY DEF OneEpoch, SentIsGone, SentOnce, Calm
<1>5. (RecoveredIsSettled /\ RecoveredStaysQuiet)'
  BY <1>1 DEF RecoveredIsSettled, RecoveredStaysQuiet, Settled, TypeOK
<1> QED
  BY <1>2, <1>3, <1>4, <1>5

LEMMA AfterStartType ==
  ASSUME NEW w, NEW timers \in [File -> Mode]
  PROVE  /\ AfterStart(w, timers) \in [File -> Mode]
         /\ \A f \in File : timers[f] = "quiet" => AfterStart(w, timers)[f] = "quiet"
BY DEF AfterStart, Schedule, Mode

LEMMA BrokenType ==
  /\ Broken \subseteq {"restarting", "polling"}
  /\ "gap" \notin faults => "restarting" \notin Broken
BY DEF Broken

LEMMA WatchStep == ASSUME IInv, WatchFails \/ Poll PROVE IInv'
<1>1. scheduled \in [File -> Mode]
  BY DEF IInv, TypeOK, Mode
<1>2. CASE WatchFails
  <2>1. scheduled' \in [File -> Mode] /\ QuietStays
    BY <1>1, <1>2, AfterStartType DEF WatchFails, QuietStays
  <2> QED
    BY <1>2, <2>1, BrokenType, TimersOnly DEF WatchFails
<1>3. CASE Poll
  <2>1. scheduled' \in [File -> Mode] /\ QuietStays
    BY <1>1, <1>3 DEF Poll, QuietStays, Schedule, Mode
  <2> QED
    BY <1>3, <2>1, TimersOnly DEF Poll, runtimeVars
<1> QED
  BY <1>2, <1>3

\* A new watcher begins a new epoch: never without a gap, and in a gap nothing
\* is said about epochs.
LEMMA RestartStep == ASSUME IInv, Restart PROVE IInv'
<1> USE DEF IInv, Restart, worldVars
<1>1. "gap" \in faults
  BY DEF OneEpoch
<1>2. scheduled' \in [File -> Mode]
  BY AfterStartType DEF TypeOK, Mode
<1>3. \A h \in handlers : h.lease \in born .. lease' => h.lease \in born .. lease
  BY LeaseAssumption DEF HandlersOfThePast, TypeOK
<1>4. watch' \in {"off", "on", "restarting", "polling"}
  BY BrokenType
<1>5. lease' \in 0 .. MaxLease /\ born' \in 0 .. lease'
  BY LeaseAssumption DEF TypeOK
<1>6. TypeOK'
  BY <1>2, <1>3, <1>4, <1>5 DEF TypeOK, Mode
<1>7. (HandlersOfThePast /\ HeldIsOurs)'
  BY LeaseAssumption DEF HandlersOfThePast, HeldIsOurs, Held, TypeOK
<1>8. (KnownIsSent /\ RemovedIsSent)'
  BY DEF KnownIsSent, RemovedIsSent
<1>9. (OneEpoch /\ SentIsGone /\ SentOnce /\ RecoveredIsSettled /\ RecoveredStaysQuiet)'
  BY <1>1 DEF OneEpoch, SentIsGone, SentOnce, Calm, RecoveredIsSettled, RecoveredStaysQuiet
<1> QED
  BY <1>6, <1>7, <1>8, <1>9 DEF IInv

\* A runtime starts when nothing is held; what is under way is of the past.
LEMMA BootStep ==
  ASSUME IInv, NEW s \in Session, NEW recovering \in BOOLEAN, Boot(s, recovering)
  PROVE  IInv'
<1> USE DEF IInv, Boot, worldVars
<1>1. Held = {}
  BY NoneAssumption DEF HeldIsOurs, TypeOK, Held, Handler
<1>2. AfterStart(watch', NoTimers) \in [File -> Mode]
  BY AfterStartType DEF NoTimers, Mode
<1>3. /\ scheduled' \in [File -> Mode]
      /\ recovering => \A f \in disk : scheduled'[f] = "quiet"
  BY <1>2 DEF Schedule, Found, TypeOK, Mode
<1>4. lease' \in 0 .. MaxLease /\ born' = lease' /\ lease' = lease + 1 /\ lease \in Nat
  BY LeaseAssumption DEF TypeOK
<1>5. \A h \in handlers : h.lease \in 0 .. lease' /\ h.lease < born'
  BY <1>4 DEF HandlersOfThePast
<1>6. AtDifferentFiles'
  BY <1>4, <1>5
<1>7. TypeOK'
  BY <1>3, <1>4, <1>6, BrokenType DEF TypeOK, Mode
<1>8. (HandlersOfThePast /\ HeldIsOurs)'
  BY <1>1, <1>5 DEF HandlersOfThePast, HeldIsOurs, Held
<1>9. (KnownIsSent /\ RemovedIsSent)'
  BY DEF KnownIsSent, RemovedIsSent
<1>10. (OneEpoch /\ SentIsGone /\ SentOnce)'
  BY <1>4, <1>5, BrokenType DEF OneEpoch, SentIsGone, SentOnce, Calm
<1>11. (RecoveredIsSettled /\ RecoveredStaysQuiet)'
  BY <1>3, <1>4, <1>5 DEF RecoveredIsSettled, RecoveredStaysQuiet, Settled, TypeOK
<1> QED
  BY <1>7, <1>8, <1>9, <1>10, <1>11

\* The end of a runtime, in order or not.
LEMMA EndStep ==
  ASSUME IInv, sess' = None, watch' = "off", scheduled' = NoTimers,
         handlers' \subseteq handlers \ Held,
         lease' \in lease .. MaxLease, lease' = lease + 1 \/ handlers' = {},
         UNCHANGED <<worldVars, disk, born, done, told, recovered>>,
         sent' \in [File -> 0 .. 2], \A f \in File : sent'[f] >= sent[f],
         sent' # sent => ~Calm, turns' \subseteq SUBSET File,
         "gap" \notin faults => \A g \in turns' \ turns : ~(g \subseteq recovered)
  PROVE  IInv'
<1> USE DEF IInv, worldVars
<1>1. lease' \in Nat /\ lease \in Nat /\ lease <= lease'
  BY LeaseAssumption DEF TypeOK
<1>2. TypeOK'
  BY <1>1 DEF TypeOK, NoTimers, HandlersOfThePast
<1>3. (HandlersOfThePast /\ HeldIsOurs)'
  BY <1>1 DEF HandlersOfThePast, HeldIsOurs, Held
<1>4. \A f \in File : sent[f] > 0 => sent'[f] > 0
  BY DEF TypeOK
<1>5. (KnownIsSent /\ RemovedIsSent)'
  BY <1>4 DEF KnownIsSent, RemovedIsSent, TypeOK
<1>6. \A h \in handlers' : h.lease # lease'
  BY <1>1 DEF HandlersOfThePast
<1>7. (OneEpoch /\ SentIsGone /\ SentOnce)'
  BY <1>6 DEF OneEpoch, SentIsGone, SentOnce, Calm
<1>8. (RecoveredIsSettled /\ RecoveredStaysQuiet)'
  BY <1>6 DEF RecoveredIsSettled, RecoveredStaysQuiet
<1> QED
  BY <1>2, <1>3, <1>5, <1>7, <1>8

LEMMA ShutdownStep == ASSUME IInv, Shutdown \/ Crash PROVE IInv'
<1>1. lease \in 0 .. MaxLease /\ MaxLease \in Nat
  BY LeaseAssumption DEF IInv, TypeOK
<1>2. sent \in [File -> 0 .. 2] /\ turns \subseteq SUBSET File
  BY DEF IInv, TypeOK
<1>3. \A f \in File : sent[f] >= sent[f]
  BY <1>2
<1> QED
  BY <1>1, <1>2, <1>3, EndStep DEF Shutdown, Crash, worldVars

-----------------------------------------------------------------------------
(* Steps of delivery.                                                      *)

\* The set X of handlers, which leave or come in, may be dealt with by the
\* runtime; `timers' are the old ones but for the files of X, and no other
\* handler of the runtime is at these files.
Dealing(X, timers, calls) ==
  /\ X \subseteq Handler /\ \A h \in X : Ours(h)
  /\ timers \in [File -> Mode]
  /\ \A f \in File : f \notin {h.file : h \in X} => timers[f] = scheduled[f]
  /\ calls \subseteq handlers /\ handlers \subseteq calls \cup X
  /\ \A g \in calls, h \in X : g.lease \in born .. lease => g.file # h.file

Unmoved == UNCHANGED <<worldVars, runtimeVars>>

\* Without a gap there is one epoch in a runtime: who may deal with a result
\* owns it.
LEMMA OursOwns ==
  ASSUME IInv, NEW h, Ours(h), h \in Handler, "gap" \notin faults
  PROVE  h.lease = lease /\ Owns(h.file, h.lease) /\ sess # None
<1>1. sess \in Session /\ sess # None
  BY NoneAssumption DEF IInv, TypeOK, Ours, Handler
<1>2. lease = born /\ lease \in Nat
  BY <1>1, LeaseAssumption DEF IInv, OneEpoch, TypeOK
<1> QED
  BY <1>1, <1>2 DEF Ours, Owns

\* The removal of the files of S.
LEMMA RemoveType ==
  ASSUME NEW S \in SUBSET File, NEW wake, NEW timers \in [File -> Mode], Remove(S, wake, timers)
  PROVE  /\ scheduled' \in [File -> Mode]
         /\ disk' \subseteq disk /\ disk \ S \subseteq disk'
         /\ "unlink" \notin faults => disk' = disk \ S
         /\ \A f \in File \ S : scheduled'[f] = timers[f]
BY DEF Remove, Schedule, Mode

\* What the handlers that are left share with those there were.
LEMMA FewerHandlers ==
  ASSUME IInv, NEW calls \in SUBSET handlers, Unmoved, handlers' = calls
  PROVE  /\ handlers' \subseteq Handler /\ AtDifferentFiles'
         /\ HandlersOfThePast' /\ HeldIsOurs'
<1>1. /\ handlers' \subseteq Handler /\ AtDifferentFiles'
  BY DEF IInv, TypeOK, Unmoved, worldVars, runtimeVars
<1>2. HandlersOfThePast' /\ HeldIsOurs'
  BY DEF IInv, HandlersOfThePast, HeldIsOurs, Held, Unmoved, worldVars, runtimeVars
<1> QED
  BY <1>1, <1>2

\* A message of the runtime that starts a turn has a handler that wakes, whose
\* result is not a recovered one.
LEMMA TurnsOfOurs ==
  ASSUME NEW messages, \A h \in UNION messages : h \in Handler /\ Ours(h)
  PROVE  /\ TurnsOf(messages) \subseteq SUBSET File
         /\ "gap" \notin faults => \A g \in TurnsOf(messages) : ~(g \subseteq recovered)
<1>1. SUFFICES ASSUME NEW g \in TurnsOf(messages)
               PROVE  g \subseteq File /\ ("gap" \notin faults => ~(g \subseteq recovered))
  OBVIOUS
<1>2. PICK m \in messages : g = {h.file : h \in m} /\ \E h \in m : h.wake
  BY DEF TurnsOf
<1>3. PICK h \in m : h.wake
  BY <1>2
<1>4. h.file \in g /\ ("gap" \notin faults => h.file \notin recovered)
  BY <1>2, <1>3 DEF Ours
<1>5. g \subseteq File
  BY <1>2 DEF Handler
<1> QED
  BY <1>4, <1>5

\* Accepted messages: the handlers of messages and known are gone, the files of
\* the messages are announced, and what the runtime owns is marked and removed.
LEMMA AcceptedStep ==
  ASSUME IInv, Unmoved,
         NEW messages, NEW known, NEW timers, NEW calls,
         Dealing((UNION messages) \cup known, timers, calls),
         \A h \in known : h.file \in told,
         Accepted(messages, known, timers, calls)
  PROVE  IInv'
<1> DEFINE items == UNION messages
           X     == items \cup known
           files == {h.file : h \in items}
           mine  == {h.file : h \in {g \in X : Owns(g.file, g.lease)}}
           wake  == [f \in File |-> \E h \in X : h.file = f /\ h.wake]
<1>1. X \subseteq Handler /\ files \subseteq File /\ mine \subseteq File
  BY DEF Dealing, Handler
<1>2. \A h \in X : Ours(h) /\ h.file \in File
  BY DEF Dealing, Handler
<1>0. /\ \A f : f \in files <=> \E h \in items : h.file = f
      /\ \A f : f \in mine <=> \E h \in X : h.file = f /\ Owns(h.file, h.lease)
      /\ \A f \in File : wake[f] <=> \E h \in X : h.file = f /\ h.wake
  OBVIOUS
<1>3. /\ sent' = [f \in File |-> IF f \in files /\ sent[f] < 2 THEN sent[f] + 1 ELSE sent[f]]
      /\ turns' = turns \cup TurnsOf(messages)
      /\ told' = told \cup files
      /\ done' = done \cup mine
      /\ Remove(mine, wake, timers)
      /\ handlers' = calls
  BY DEF Accepted
<1>17. /\ TurnsOf(messages) \subseteq SUBSET File
       /\ "gap" \notin faults => \A g \in TurnsOf(messages) : ~(g \subseteq recovered)
  BY <1>1, <1>2, TurnsOfOurs
<1> HIDE DEF files, mine, wake
<1>4. /\ scheduled' \in [File -> Mode]
      /\ disk' \subseteq disk /\ disk \ mine \subseteq disk'
      /\ "unlink" \notin faults => disk' = disk \ mine
      /\ \A f \in File \ mine : scheduled'[f] = timers[f]
  <2>1. timers \in [File -> Mode] /\ mine \in SUBSET File
    BY <1>1 DEF Dealing
  <2>2. Remove(mine, wake, timers)
    BY <1>3
  <2> QED
    BY <2>1, <2>2, RemoveType
<1>5. UNCHANGED <<faults, owner, batched, written, sess, lease, born, watch, recovered>>
  BY DEF Unmoved, worldVars, runtimeVars
<1>6. calls \in SUBSET handlers /\ handlers' = calls
  BY <1>3 DEF Dealing
<1>7. /\ sent' \in [File -> 0 .. 2]
      /\ \A f \in File : /\ sent[f] \in 0 .. 2 /\ sent'[f] \in 0 .. 2
                         /\ f \in files \/ sent[f] > 0 => sent'[f] > 0
                         /\ f \notin files => sent'[f] = sent[f]
                         /\ sent[f] = 0 => sent'[f] <= 1
  BY <1>3 DEF IInv, TypeOK
<1>8. \A f \in mine : sent'[f] > 0
  <2>1. \A h \in known : sent[h.file] > 0
    BY DEF IInv, KnownIsSent
  <2>2. SUFFICES ASSUME NEW f \in mine PROVE sent'[f] > 0
    OBVIOUS
  <2>3. PICK h \in X : h.file = f
    BY <1>0, <2>2
  <2>4. f \in File /\ (sent[f] > 0 \/ f \in files)
    BY <1>0, <1>2, <2>1, <2>3
  <2> QED
    BY <1>7, <2>4
<1>9. TypeOK'
  <2>1. handlers' \subseteq Handler /\ AtDifferentFiles'
    BY <1>6, FewerHandlers
  <2>2. told' \subseteq File /\ done' \subseteq File /\ turns' \subseteq SUBSET File
    BY <1>1, <1>3, <1>17 DEF IInv, TypeOK
  <2> QED
    BY <1>4, <1>5, <1>7, <2>1, <2>2 DEF IInv, TypeOK, Mode
<1>10. HandlersOfThePast' /\ HeldIsOurs'
  BY <1>6, FewerHandlers
<1>11. KnownIsSent'
  BY <1>1, <1>3, <1>7, <1>8 DEF IInv, KnownIsSent, TypeOK
<1>12. RemovedIsSent'
  <2>1. written \subseteq File /\ RemovedIsSent
    BY DEF IInv, TypeOK
  <2>2. \A f \in File : sent[f] > 0 => sent'[f] > 0
    BY <1>7
  <2> QED
    BY <1>4, <1>5, <1>8, <2>1, <2>2 DEF RemovedIsSent
<1>13. OneEpoch'
  BY <1>5 DEF IInv, OneEpoch
<1>14. ASSUME "gap" \notin faults PROVE \A h \in X : h.lease = lease /\ h.file \in mine
  BY <1>0, <1>1, <1>2, <1>14, OursOwns
<1>15. SentIsGone' /\ SentOnce'
  <2>1. SUFFICES ASSUME Calm
                 PROVE  /\ \A h \in handlers' : h.lease = lease => h.file \in disk'
                        /\ \A f \in File : sent'[f] > 0 => f \in written \ disk'
                        /\ \A f \in File : sent'[f] <= 1
    BY <1>5 DEF SentIsGone, SentOnce, Calm
  <2>2. "gap" \notin faults /\ disk' = disk \ mine
    BY <1>4, <2>1 DEF Calm
  <2>3. \A h \in X : h.file \in disk /\ h.file \in written /\ h.file \in mine
    BY <1>2, <1>14, <2>1, <2>2 DEF Ours
  <2>4. \A f \in files : sent[f] = 0 /\ f \in mine /\ f \in written
    BY <1>0, <1>1, <2>1, <2>3 DEF IInv, SentIsGone, TypeOK
  <2>5. \A h \in handlers' : h.lease = lease => h.file \in disk'
    <3>1. SUFFICES ASSUME NEW g \in calls, g.lease = lease PROVE g.file \in disk'
      BY <1>6
    <3>2. g.lease \in born .. lease /\ g.file \in disk
      BY <2>1, <3>1, <1>6, LeaseAssumption DEF IInv, SentIsGone, TypeOK
    <3>3. g.file \notin mine
      BY <1>0, <3>2 DEF Dealing
    <3> QED
      BY <2>2, <3>2, <3>3
  <2>6. \A f \in File : sent'[f] > 0 => f \in written \ disk'
    <3>1. \A f \in File : sent[f] > 0 => f \in written \ disk
      BY <2>1 DEF IInv, SentIsGone
    <3> QED
      BY <1>4, <1>7, <2>2, <2>4, <3>1
  <2>7. \A f \in File : sent'[f] <= 1
    <3>1. \A f \in File : sent[f] <= 1
      BY <2>1 DEF IInv, SentOnce, Calm
    <3> QED
      BY <1>7, <2>4, <3>1
  <2> QED
    BY <2>5, <2>6, <2>7
<1>16. RecoveredIsSettled' /\ RecoveredStaysQuiet'
  <2>1. SUFFICES ASSUME "gap" \notin faults
                 PROVE  /\ recovered \subseteq written
                        /\ sess # None => \A f \in recovered : Settled(f)'
                        /\ \A h \in handlers' : h.lease = lease /\ h.file \in recovered => ~h.wake
                        /\ \A g \in turns' : ~(g \subseteq recovered)
    BY <1>5 DEF RecoveredIsSettled, RecoveredStaysQuiet
  <2>2. recovered \subseteq written /\ recovered \subseteq File
    BY <2>1 DEF IInv, RecoveredIsSettled, TypeOK
  <2>3. \A h \in handlers' : h.lease = lease /\ h.file \in recovered => ~h.wake
    BY <1>6, <2>1 DEF IInv, RecoveredIsSettled
  <2>5. \A g \in turns' : ~(g \subseteq recovered)
    BY <1>3, <1>17, <2>1 DEF IInv, RecoveredStaysQuiet
  <2>6. ASSUME NEW f \in recovered, sess # None PROVE Settled(f)'
    <3>1. CASE f \in {h.file : h \in X}
      BY <1>3, <1>14, <2>1, <3>1 DEF Settled
    <3>2. CASE f \notin {h.file : h \in X}
      <4>1. f \in File /\ f \notin mine
        BY <1>0, <2>2, <3>2
      <4>2. scheduled'[f] = scheduled[f]
        BY <1>4, <3>2, <4>1 DEF Dealing
      <4>3. \A h \in handlers : h.file = f => h \in handlers'
        BY <1>6, <3>2 DEF Dealing
      <4>4. Settled(f)
        BY <2>1, <2>6 DEF IInv, RecoveredIsSettled
      <4> QED
        BY <1>3, <1>4, <1>5, <4>2, <4>3, <4>4 DEF Settled
    <3> QED
      BY <3>1, <3>2
  <2> QED
    BY <2>2, <2>3, <2>5, <2>6
<1> QED
  BY <1>9, <1>10, <1>11, <1>12, <1>13, <1>15, <1>16 DEF IInv

\* A refused group: the files are where they were, and their timers run again,
\* quietly if the handler was quiet.
LEMMA RefusedStep ==
  ASSUME IInv, Unmoved, NEW items, NEW timers, NEW calls,
         Dealing(items, timers, calls), Refused(items, timers, calls)
  PROVE  IInv'
<1> DEFINE mine == {h \in items : Owns(h.file, h.lease)}
<1>1. UNCHANGED <<faults, owner, batched, written, sess, lease, born, watch, recovered,
                  disk, sent, turns, told, done>>
  BY DEF Unmoved, worldVars, runtimeVars, Refused
<1>2. calls \in SUBSET handlers /\ handlers' = calls
  BY DEF Dealing, Refused
<1>3. scheduled' =
        [f \in File |->
           IF \E h \in mine : h.file = f
             THEN Schedule({f}, \A h \in mine : h.file = f => h.wake, timers)[f]
             ELSE timers[f]]
  BY DEF Refused
<1>4. timers \in [File -> Mode]
  BY DEF Dealing
<1>5. scheduled' \in [File -> Mode]
  BY <1>3, <1>4 DEF Schedule, Mode
<1>6. \A f \in File : f \notin {h.file : h \in items} => scheduled'[f] = scheduled[f]
  <2>1. \A f \in File : f \notin {h.file : h \in items} => timers[f] = scheduled[f]
    BY DEF Dealing
  <2> QED
    BY <1>3, <2>1
<1>7. \A f \in File : (\E h \in mine : h.file = f /\ ~h.wake) => scheduled'[f] = "quiet"
  BY <1>3, <1>4 DEF Schedule
<1>8. TypeOK'
  <2>1. handlers' \subseteq Handler /\ AtDifferentFiles'
    BY <1>2, FewerHandlers
  <2> QED
    BY <1>1, <1>5, <2>1 DEF IInv, TypeOK, Mode
<1>9. HandlersOfThePast' /\ HeldIsOurs'
  BY <1>2, FewerHandlers
<1>10. (KnownIsSent /\ RemovedIsSent /\ OneEpoch)'
  BY <1>1 DEF IInv, KnownIsSent, RemovedIsSent, OneEpoch
<1>11. (SentIsGone /\ SentOnce)'
  BY <1>1, <1>2 DEF IInv, SentIsGone, SentOnce, Calm
<1>12. (RecoveredIsSettled /\ RecoveredStaysQuiet)'
  <2>1. SUFFICES ASSUME "gap" \notin faults PROVE (RecoveredIsSettled /\ RecoveredStaysQuiet)'
    BY <1>1 DEF RecoveredIsSettled, RecoveredStaysQuiet
  <2>2. \A h \in handlers' : h.lease = lease /\ h.file \in recovered => ~h.wake
    BY <1>2, <2>1 DEF IInv, RecoveredIsSettled
  <2>3. ASSUME NEW f \in recovered, sess # None PROVE Settled(f)'
    <3>1. f \in File /\ Settled(f)
      BY <2>1, <2>3 DEF IInv, RecoveredIsSettled, TypeOK
    <3>2. ASSUME NEW h \in items, h.file = f PROVE scheduled'[f] = "quiet"
      <4>1. h \in Handler /\ Ours(h)
        BY DEF Dealing
      <4>2. h \in mine /\ ~h.wake
        BY <2>1, <2>3, <3>2, <4>1, OursOwns DEF Ours
      <4> QED
        BY <1>7, <3>1, <3>2, <4>2
    <3>3. CASE f \notin {h.file : h \in items}
      <4>1. \A h \in handlers : h.file = f => h \in handlers'
        BY <1>2, <3>3 DEF Dealing
      <4>2. scheduled'[f] = scheduled[f]
        BY <1>6, <3>1, <3>3
      <4> QED
        BY <1>1, <3>1, <4>1, <4>2 DEF Settled
    <3> QED
      BY <3>2, <3>3 DEF Settled
  <2> QED
    BY <1>1, <2>1, <2>2, <2>3 DEF IInv, RecoveredIsSettled, RecoveredStaysQuiet
<1> QED
  BY <1>8, <1>9, <1>10, <1>11, <1>12 DEF IInv

\* A handler goes on to wait, for its intercom target or in the batch.
LEMMA WaitStep ==
  ASSUME IInv, Unmoved, NEW h, NEW timers, NEW calls, Dealing({h}, timers, calls),
         NEW b \in Handler, b.file = h.file, b.lease = h.lease, b.wake = h.wake,
         handlers' = calls \cup {b},
         scheduled' = timers, UNCHANGED <<disk, sent, turns, told, done>>
  PROVE  IInv'
<1>1. UNCHANGED <<faults, owner, batched, written, sess, lease, born, watch, recovered>>
  BY DEF Unmoved, worldVars, runtimeVars
<1>2. h \in Handler /\ Ours(h)
  BY DEF Dealing
<1>3. b \in Handler /\ b.file = h.file /\ b.lease = h.lease /\ b.wake = h.wake
  OBVIOUS
<1>4. /\ handlers' = calls \cup {b} /\ calls \subseteq handlers /\ handlers \subseteq calls \cup {h}
      /\ \A g \in calls : g.lease \in born .. lease => g.file # h.file
  BY DEF Dealing
<1>5. /\ scheduled' \in [File -> Mode]
      /\ \A f \in File : f # h.file => scheduled'[f] = scheduled[f]
  BY DEF Dealing
<1>6. TypeOK'
  <2>1. AtDifferentFiles'
    BY <1>1, <1>3, <1>4 DEF IInv, TypeOK
  <2>2. handlers' \subseteq Handler
    BY <1>3, <1>4 DEF IInv, TypeOK
  <2> QED
    BY <1>1, <1>5, <2>1, <2>2 DEF IInv, TypeOK, Mode
<1>7. HandlersOfThePast' /\ HeldIsOurs'
  <2>1. /\ b.lease \in 0 .. lease /\ b.lease \in born .. lease
        /\ b.file \in written /\ sess = owner[b.file]
    BY <1>2, <1>3, LeaseAssumption DEF Ours, IInv, TypeOK
  <2> QED
    BY <1>1, <1>4, <2>1 DEF IInv, HandlersOfThePast, HeldIsOurs, Held
<1>8. (KnownIsSent /\ RemovedIsSent /\ OneEpoch)'
  BY <1>1 DEF IInv, KnownIsSent, RemovedIsSent, OneEpoch
<1>9. (SentIsGone /\ SentOnce)'
  BY <1>1, <1>2, <1>3, <1>4 DEF IInv, SentIsGone, SentOnce, Calm, Ours
<1>10. (RecoveredIsSettled /\ RecoveredStaysQuiet)'
  <2>1. SUFFICES ASSUME "gap" \notin faults PROVE (RecoveredIsSettled /\ RecoveredStaysQuiet)'
    BY <1>1 DEF RecoveredIsSettled, RecoveredStaysQuiet
  <2>2. b.lease = lease /\ (b.file \in recovered => ~b.wake)
    BY <1>2, <1>3, <2>1, OursOwns DEF Ours
  <2>3. \A g \in handlers' : g.lease = lease /\ g.file \in recovered => ~g.wake
    BY <1>4, <2>1, <2>2 DEF IInv, RecoveredIsSettled
  <2>4. ASSUME NEW f \in recovered, sess # None PROVE Settled(f)'
    <3>1. f \in File /\ Settled(f)
      BY <2>1, <2>4 DEF IInv, RecoveredIsSettled, TypeOK
    <3>2. CASE f = h.file
      BY <1>1, <1>3, <1>4, <2>2, <3>2 DEF Settled
    <3>3. CASE f # h.file
      BY <1>1, <1>4, <1>5, <3>1, <3>3 DEF Settled
    <3> QED
      BY <3>2, <3>3
  <2> QED
    BY <1>1, <2>1, <2>3, <2>4 DEF IInv, RecoveredIsSettled, RecoveredStaysQuiet
<1> QED
  BY <1>6, <1>7, <1>8, <1>9, <1>10 DEF IInv

LEMMA HeldOurs ==
  ASSUME IInv PROVE Held \subseteq handlers \cap Handler /\ \A h \in Held : Ours(h)
<1>1. Held \subseteq handlers \cap Handler
  BY DEF IInv, TypeOK, Held
<1>2. \A h \in Held : h.lease \in born .. lease /\ sess = owner[h.file] /\ h.file \in written
  BY <1>1 DEF IInv, HeldIsOurs, HandlersOfThePast
<1>3. ASSUME "gap" \notin faults, NEW h \in Held PROVE h.lease = lease
  <2>1. sess # None
    BY <1>1, <1>2, NoneAssumption DEF IInv, TypeOK, Handler
  <2> QED
    BY <1>2, <1>3, <2>1, LeaseAssumption DEF IInv, TypeOK, OneEpoch
<1> QED
  BY <1>1, <1>2, <1>3 DEF IInv, RecoveredIsSettled, SentIsGone, Ours, Calm

\* What is held back goes out with the run that follows.
LEMMA DealingWithHeld ==
  ASSUME IInv, NEW X, NEW timers, NEW calls, Dealing(X, timers, calls)
  PROVE  Dealing(Held \cup X, timers, calls \ Held)
<1>1. \A g \in calls \ Held, h \in Held : g.lease \in born .. lease => g.file # h.file
  <2>1. SUFFICES ASSUME NEW g \in calls \ Held, NEW h \in Held,
                        g.lease \in born .. lease, g.file = h.file
                 PROVE  FALSE
    OBVIOUS
  <2>2. g \in handlers /\ h \in handlers /\ h.lease \in born .. lease /\ g # h
    BY HeldOurs DEF Dealing, Ours
  <2> QED
    BY <2>1, <2>2 DEF IInv, TypeOK
<1> QED
  BY <1>1, HeldOurs DEF Dealing

LEMMA DeliverStep ==
  ASSUME IInv, Unmoved, NEW h, NEW timers, NEW calls,
         Dealing({h}, timers, calls), DeliverTo(h, timers, calls)
  PROVE  IInv'
<1>1. CASE h.file \in told
  <2>1. Accepted({}, {h}, timers, calls)
    BY <1>1 DEF DeliverTo, AlreadyTold
  <2>2. Dealing({} \cup {h}, timers, calls)
    OBVIOUS
  <2> QED
    BY <1>1, <2>1, <2>2, AcceptedStep
<1>2. CASE h.file \notin told /\ h.file \in batched
  <2> DEFINE b == [h EXCEPT !.at = "batched"]
  <2>1. h \in Handler
    BY DEF Dealing
  <2>2. b \in Handler /\ b.file = h.file /\ b.lease = h.lease /\ b.wake = h.wake
    BY <2>1 DEF Handler
  <2>3. /\ handlers' = calls \cup {b} /\ scheduled' = timers
        /\ UNCHANGED <<disk, sent, turns, told, done>>
    BY <1>2 DEF DeliverTo, AlreadyTold
  <2> HIDE DEF b
  <2> QED
    BY <2>2, <2>3, WaitStep
<1>3. CASE h.file \notin told /\ h.file \notin batched
  <2>1. Dealing(Held \cup {h}, timers, calls \ Held)
    BY DealingWithHeld
  <2>2. Dealing((UNION {Held, {h}}) \cup {}, timers, calls \ Held)
    BY <2>1
  <2>3. CASE Accepted({Held, {h}}, {}, timers, calls \ Held)
    BY <2>2, <2>3, AcceptedStep
  <2>4. CASE Refused(Held \cup {h}, timers, calls \ Held)
    BY <2>1, <2>4, RefusedStep
  <2> QED
    BY <1>3, <2>3, <2>4 DEF DeliverTo, AlreadyTold
<1> QED
  BY <1>1, <1>2, <1>3

\* A handler that is not to go on ends, a timer that is not to be served is
\* dropped.
LEMMA DropStep ==
  ASSUME IInv, Unmoved, UNCHANGED <<disk, done, told, sent, turns>>,
         NEW calls \in SUBSET handlers, handlers' = calls,
         scheduled' \in [File -> Mode],
         "gap" \notin faults =>
           \A f \in File : scheduled'[f] = scheduled[f] \/ Settled(f)',
         \A h \in handlers \ calls : h.lease # lease \/ owner[h.file] # sess
  PROVE  IInv'
<1>1. UNCHANGED <<faults, owner, batched, written, sess, lease, born, watch, recovered>>
  BY DEF Unmoved, worldVars, runtimeVars
<1>2. TypeOK'
  <2>1. handlers' \subseteq Handler /\ AtDifferentFiles'
    BY FewerHandlers
  <2> QED
    BY <1>1, <2>1 DEF IInv, TypeOK, Mode
<1>3. HandlersOfThePast' /\ HeldIsOurs'
  BY FewerHandlers
<1>4. (KnownIsSent /\ RemovedIsSent /\ OneEpoch)'
  BY <1>1 DEF IInv, KnownIsSent, RemovedIsSent, OneEpoch
<1>5. (SentIsGone /\ SentOnce)'
  BY <1>1 DEF IInv, SentIsGone, SentOnce, Calm
<1>6. (RecoveredIsSettled /\ RecoveredStaysQuiet)'
  <2>1. ASSUME "gap" \notin faults, sess # None, NEW f \in recovered PROVE Settled(f)'
    <3>1. f \in File /\ Settled(f)
      BY <2>1 DEF IInv, RecoveredIsSettled, TypeOK
    <3>2. CASE scheduled'[f] = scheduled[f]
      BY <1>1, <3>1, <3>2 DEF Settled
    <3> QED
      BY <2>1, <3>1, <3>2
  <2> QED
    BY <1>1, <2>1 DEF IInv, RecoveredIsSettled, RecoveredStaysQuiet
<1> QED
  BY <1>2, <1>3, <1>4, <1>5, <1>6 DEF IInv

\* A result that is known is removed without another word.
LEMMA RemoveKnownStep ==
  ASSUME IInv, Unmoved, UNCHANGED <<handlers, done, told, sent, turns>>,
         NEW f \in done, NEW wake, f \notin Processing, f \in disk, sess # None,
         Remove({f}, wake, [scheduled EXCEPT ![f] = "no"])
  PROVE  IInv'
<1>1. UNCHANGED <<faults, owner, batched, written, sess, lease, born, watch, recovered>>
  BY DEF Unmoved, worldVars, runtimeVars
<1> DEFINE timers == [scheduled EXCEPT ![f] = "no"]
<1>2. /\ {f} \in SUBSET File /\ timers \in [File -> Mode]
      /\ \A g \in File \ {f} : timers[g] = scheduled[g]
  BY DEF IInv, TypeOK, Mode
<1> HIDE DEF timers
<1>3. /\ scheduled' \in [File -> Mode]
      /\ disk' \subseteq disk /\ disk \ {f} \subseteq disk'
      /\ \A g \in File \ {f} : scheduled'[g] = scheduled[g]
  <2> DEFINE S == {f}
  <2>1. S \in SUBSET File /\ Remove(S, wake, timers)
    BY <1>2 DEF timers
  <2>2. \A g \in File : g \notin S <=> g # f
    OBVIOUS
  <2> HIDE DEF S
  <2>3. /\ scheduled' \in [File -> Mode]
        /\ disk' \subseteq disk /\ disk \ S \subseteq disk'
        /\ \A g \in File \ S : scheduled'[g] = timers[g]
    BY <1>2, <2>1, RemoveType
  <2> QED
    BY <1>2, <2>2, <2>3 DEF S
<1>4. handlers \in SUBSET handlers
  OBVIOUS
<1>5. TypeOK'
  BY <1>1, <1>3 DEF IInv, TypeOK, Mode
<1>6. HandlersOfThePast' /\ HeldIsOurs'
  BY <1>4, FewerHandlers
<1>7. (KnownIsSent /\ RemovedIsSent /\ OneEpoch)'
  BY <1>1, <1>3 DEF IInv, KnownIsSent, RemovedIsSent, OneEpoch
<1>8. (SentIsGone /\ SentOnce)'
  <2>1. \A h \in handlers : h.lease = lease => h.file # f
    BY LeaseAssumption DEF Processing, IInv, TypeOK
  <2> QED
    BY <1>1, <1>3, <2>1 DEF IInv, SentIsGone, SentOnce, Calm
<1>9. (RecoveredIsSettled /\ RecoveredStaysQuiet)'
  <2>1. ASSUME "gap" \notin faults, NEW g \in recovered PROVE Settled(g)'
    <3>1. g \in File /\ Settled(g)
      BY <2>1 DEF IInv, RecoveredIsSettled, TypeOK
    <3> QED
      BY <1>1, <1>3, <3>1 DEF Settled
  <2> QED
    BY <1>1, <2>1 DEF IInv, RecoveredIsSettled, RecoveredStaysQuiet
<1> QED
  BY <1>5, <1>6, <1>7, <1>8, <1>9 DEF IInv

-----------------------------------------------------------------------------
(* Every step.                                                             *)

LEMMA FireStep == ASSUME IInv, NEW f \in File, Fire(f) PROVE IInv'
<1> DEFINE h == [file |-> f, lease |-> lease, wake |-> scheduled[f] = "wake", at |-> "intercom"]
           timers == [scheduled EXCEPT ![f] = "no"]
<1>1. sess # None /\ Unmoved
  BY DEF Fire, Unmoved
<1>2. timers \in [File -> Mode] /\ \A g \in File \ {f} : timers[g] = scheduled[g]
  BY DEF IInv, TypeOK, Mode
<1>3. h \in Handler /\ h.file = f /\ h.lease = lease /\ lease \in born .. lease
  BY LeaseAssumption DEF Handler, IInv, TypeOK
<1>4. handlers \in SUBSET handlers
  OBVIOUS
<1> HIDE DEF timers
<1>5. CASE ~MayHandle(f) \/ ~Owns(f, lease)
  <2>1. scheduled' = timers /\ UNCHANGED <<disk, handlers, done, told, sent, turns>>
    BY <1>5 DEF Fire, timers
  <2>2. ASSUME "gap" \notin faults PROVE Settled(f)'
    <3>1. lease = born
      BY <1>1, <2>2 DEF IInv, OneEpoch
    <3>2. CASE f \notin disk \/ ~Owns(f, lease)
      BY <1>1, <2>1, <3>2 DEF Settled, Owns, Unmoved, worldVars, runtimeVars
    <3>3. CASE f \in Processing
      <4>1. PICK g \in handlers : g.file = f /\ g.lease >= born
        BY <3>3 DEF Processing
      <4>2. g.lease = lease
        BY <3>1, <4>1, LeaseAssumption DEF IInv, TypeOK, HandlersOfThePast
      <4> QED
        BY <1>1, <2>1, <4>1, <4>2 DEF Settled, Unmoved, worldVars, runtimeVars
    <3> QED
      BY <1>5, <3>2, <3>3 DEF MayHandle
  <2>3. "gap" \notin faults => \A g \in File : scheduled'[g] = scheduled[g] \/ Settled(g)'
    BY <1>2, <2>1, <2>2
  <2> QED
    BY <1>1, <1>2, <1>4, <2>1, <2>3, DropStep
<1>6. CASE MayHandle(f) /\ Owns(f, lease) /\ f \in done
  <2>1. /\ Remove({f}, [g \in File |-> h.wake], timers)
        /\ UNCHANGED <<handlers, done, told, sent, turns>>
    BY <1>6 DEF Fire, timers
  <2> QED
    BY <1>1, <1>6, <2>1, RemoveKnownStep DEF timers, MayHandle
<1>7. CASE MayHandle(f) /\ Owns(f, lease) /\ f \notin done
  <2>1. f \in disk /\ f \in written /\ sess = owner[f]
        /\ \A g \in handlers : g.lease \in born .. lease => g.file # f
    BY <1>7, LeaseAssumption DEF MayHandle, Owns, Processing, IInv, TypeOK
  <2>2. ASSUME "gap" \notin faults, f \in recovered PROVE ~h.wake
    <3>1. Settled(f)
      BY <1>1, <2>2 DEF IInv, RecoveredIsSettled
    <3> QED
      BY <1>3, <1>7, <2>1, <3>1 DEF Settled
  <2>3. Ours(h)
    BY <1>3, <2>1, <2>2 DEF Ours
  <2>4. Dealing({h}, timers, handlers)
    BY <1>2, <1>3, <2>1, <2>3 DEF Dealing
  <2>5. CASE f \in Intercom /\ h.wake
    <3>1. handlers' = handlers \cup {h} /\ scheduled' = timers
          /\ UNCHANGED <<disk, done, told, sent, turns>>
      BY <1>7, <2>5 DEF Fire, timers
    <3> QED
      BY <1>1, <1>3, <2>4, <3>1, WaitStep
  <2>6. CASE ~(f \in Intercom /\ h.wake)
    <3>1. DeliverTo(h, timers, handlers)
      BY <1>7, <2>6 DEF Fire, timers
    <3> QED
      BY <1>1, <2>4, <3>1, DeliverStep
  <2> QED
    BY <2>5, <2>6
<1> QED
  BY <1>5, <1>6, <1>7

LEMMA IntercomStep == ASSUME IInv, NEW h \in handlers, IntercomDone(h) PROVE IInv'
<1>1. Unmoved /\ h \in Handler
  BY DEF IntercomDone, Unmoved, IInv, TypeOK
<1>2. CASE Owns(h.file, h.lease)
  <2>1. h.lease = lease /\ lease \in born .. lease /\ sess = owner[h.file] /\ h.file \in written
    BY <1>2, LeaseAssumption DEF Owns, IInv, TypeOK, HandlersOfThePast
  <2>2. Ours(h)
    BY <2>1 DEF Ours, IInv, RecoveredIsSettled, SentIsGone
  <2>3. \A g \in handlers \ {h} : g.lease \in born .. lease => g.file # h.file
    BY <2>1 DEF IInv, TypeOK
  <2>4. Dealing({h}, scheduled, handlers \ {h})
    BY <1>1, <2>2, <2>3 DEF Dealing, IInv, TypeOK, Mode
  <2> QED
    BY <1>1, <1>2, <2>4, DeliverStep DEF IntercomDone
<1>3. CASE ~Owns(h.file, h.lease)
  <2>1. handlers' = handlers \ {h} /\ UNCHANGED <<disk, scheduled, done, told, sent, turns>>
    BY <1>3 DEF IntercomDone
  <2>2. scheduled' \in [File -> Mode]
    BY <2>1 DEF IInv, TypeOK, Mode
  <2>3. \A g \in handlers \ (handlers \ {h}) : g.lease # lease \/ owner[g.file] # sess
    BY <1>3 DEF Owns
  <2> QED
    BY <1>1, <2>1, <2>2, <2>3, DropStep
<1> QED
  BY <1>2, <1>3

LEMMA EmitStep == ASSUME IInv, EmitGroup PROVE IInv'
<1>1. Unmoved
  BY DEF EmitGroup, Unmoved
<1>2. Dealing({}, scheduled, handlers)
  BY DEF Dealing, IInv, TypeOK, Mode
<1>3. Dealing(Held \cup {}, scheduled, handlers \ Held)
  BY <1>2, DealingWithHeld
<1>4. Dealing(Held, scheduled, handlers \ Held)
  BY <1>3
<1>5. Dealing((UNION {Held}) \cup {}, scheduled, handlers \ Held)
  BY <1>3
<1>6. CASE Accepted({Held}, {}, scheduled, handlers \ Held)
  BY <1>1, <1>6, <1>5, AcceptedStep
<1>7. CASE Refused(Held, scheduled, handlers \ Held)
  BY <1>1, <1>4, <1>7, RefusedStep
<1> QED
  BY <1>6, <1>7 DEF EmitGroup

LEMMA EmitAndCrashStep == ASSUME IInv, EmitAndCrash PROVE IInv'
<1>1. sent \in [File -> 0 .. 2] /\ turns \subseteq SUBSET File /\ lease \in 0 .. MaxLease
  BY DEF IInv, TypeOK
<1>2. sent' \in [File -> 0 .. 2] /\ \A f \in File : sent'[f] >= sent[f]
  BY <1>1 DEF EmitAndCrash
<1>3. Held \subseteq Handler /\ \A h \in Held : Ours(h)
  BY HeldOurs
<1>4. \A h \in UNION {Held} : h \in Handler /\ Ours(h)
  BY <1>3
<1>5. turns' \subseteq SUBSET File
  BY <1>1, <1>4, TurnsOfOurs DEF EmitAndCrash
<1>6. "gap" \notin faults => \A g \in turns' \ turns : ~(g \subseteq recovered)
  BY <1>4, TurnsOfOurs DEF EmitAndCrash
<1>7. ~Calm
  BY DEF EmitAndCrash, Calm
<1>8. lease' \in lease .. MaxLease
  BY <1>1, LeaseAssumption DEF EmitAndCrash
<1> QED
  BY <1>2, <1>5, <1>6, <1>7, <1>8, EndStep DEF EmitAndCrash

LEMMA StepIInv == ASSUME IInv, [Next]_vars PROVE IInv'
<1>1. CASE \E f \in File : Write(f) \/ Fire(f)
  BY <1>1, WriteStep, FireStep
<1>2. CASE \E s \in Session, recovering \in BOOLEAN : Boot(s, recovering)
  BY <1>2, BootStep
<1>3. CASE \E h \in handlers : IntercomDone(h)
  BY <1>3, IntercomStep
<1>4. CASE EmitGroup \/ EmitAndCrash
  BY <1>4, EmitStep, EmitAndCrashStep
<1>5. CASE Shutdown \/ Crash
  BY <1>5, ShutdownStep
<1>6. CASE WatchFails \/ Restart \/ Poll
  BY <1>6, WatchStep, RestartStep
<1>7. CASE UNCHANGED vars
  BY <1>7, DropStep DEF vars, Unmoved, worldVars, runtimeVars, IInv, TypeOK, Mode
<1> QED
  BY <1>1, <1>2, <1>3, <1>4, <1>5, <1>6, <1>7 DEF Next

LEMMA Invariance == Spec => []IInv
<1>1. IInv /\ [Next]_vars => IInv'
  BY StepIInv
<1> QED
  BY InitIInv, <1>1, PTL DEF Spec

-----------------------------------------------------------------------------
(* The theorems.                                                           *)

\* Every state of every behaviour is well typed; the handlers of a runtime are
\* at different files.
THEOREM TypeCorrect == Spec => []TypeOK
<1>1. IInv => TypeOK
  BY DEF IInv
<1> QED
  BY <1>1, Invariance, PTL

\* No result is lost: a file that has left the directory has been announced,
\* whatever crashes, refusals and replaced watchers came in between.
THEOREM NoResultIsLost == Spec => []RemovedIsSent
<1>1. IInv => RemovedIsSent
  BY DEF IInv
<1> QED
  BY <1>1, Invariance, PTL

\* A result is announced once, in all the runtimes together, as long as no crash,
\* failing removal or replaced watcher separates its announcement from its removal.
THEOREM AnnouncedOnce == Spec => []SentOnce
<1>1. IInv => SentOnce
  BY DEF IInv
<1> QED
  BY <1>1, Invariance, PTL

\* A message that starts a turn in a recovered session has a result in it that was
\* not there at its start, whatever is retried, refused or grouped.
THEOREM RecoveryIsQuiet == Spec => []RecoveredStaysQuiet
<1>1. IInv => RecoveredStaysQuiet
  BY DEF IInv
<1> QED
  BY <1>1, Invariance, PTL

\* The file f may be announced or removed: its session is the one that is open.
OnlyOurs(f) == sent'[f] # sent[f] \/ (f \in disk /\ f \notin disk') => sess = owner[f]

LEMMA AcceptedIsOurs ==
  ASSUME NEW messages, NEW known, NEW timers, NEW calls,
         \A h \in (UNION messages) \cup known : sess = owner[h.file],
         Accepted(messages, known, timers, calls), NEW f \in File
  PROVE  OnlyOurs(f)
<1> DEFINE items == UNION messages
           files == {h.file : h \in items}
           mine  == {h.file : h \in {g \in items \cup known : Owns(g.file, g.lease)}}
           wake  == [e \in File |-> \E h \in items \cup known : h.file = e /\ h.wake]
<1>1. /\ sent' = [e \in File |-> IF e \in files /\ sent[e] < 2 THEN sent[e] + 1 ELSE sent[e]]
      /\ Remove(mine, wake, timers)
  BY DEF Accepted
<1>2. f \in files \/ f \in mine => sess = owner[f]
  OBVIOUS
<1> HIDE DEF files, mine, wake
<1>3. disk \ disk' \subseteq mine
  BY <1>1 DEF Remove
<1> QED
  BY <1>1, <1>2, <1>3 DEF OnlyOurs

LEMMA DeliverIsOurs ==
  ASSUME IInv, NEW h, sess = owner[h.file], NEW timers, NEW calls, DeliverTo(h, timers, calls),
         NEW f \in File
  PROVE  OnlyOurs(f)
<1>1. \A g \in Held \cup {h} : sess = owner[g.file]
  BY HeldOurs DEF Ours
<1>2. CASE \E messages, known, k : Accepted(messages, known, timers, k)
                                /\ \A g \in (UNION messages) \cup known : sess = owner[g.file]
  BY <1>2, AcceptedIsOurs
<1>3. CASE UNCHANGED <<disk, sent>>
  BY <1>3 DEF OnlyOurs
<1>4. CASE h.file \in told
  <2>1. Accepted({}, {h}, timers, calls) /\ \A g \in (UNION {}) \cup {h} : sess = owner[g.file]
    BY <1>4 DEF DeliverTo, AlreadyTold
  <2> QED
    BY <1>2, <2>1
<1>5. CASE Accepted({Held, {h}}, {}, timers, calls \ Held)
  <2>1. \A g \in (UNION {Held, {h}}) \cup {} : sess = owner[g.file]
    BY <1>1
  <2> QED
    BY <1>2, <1>5, <2>1
<1> QED
  BY <1>3, <1>4, <1>5 DEF DeliverTo, AlreadyTold, Refused

\* A result never reaches, and is never removed for, another session than its
\* own, whatever callbacks of earlier runtimes are still under way.
THEOREM EachToItsSession == Spec => OnlyForItsSession
<1>1. ASSUME IInv, Next, NEW f \in File PROVE OnlyOurs(f)
  <2>1. ASSUME NEW e \in File, Fire(e) PROVE OnlyOurs(f)
    <3>1. CASE UNCHANGED <<disk, sent>>
      BY <3>1 DEF OnlyOurs
    <3>2. CASE ~UNCHANGED <<disk, sent>>
      <4>1. sess = owner[e]
        BY <2>1, <3>2 DEF Fire, Owns
      <4> DEFINE h == [file |-> e, lease |-> lease, wake |-> scheduled[e] = "wake", at |-> "intercom"]
                 timers == [scheduled EXCEPT ![e] = "no"]
      <4>2. \/ Remove({e}, [g \in File |-> h.wake], timers) /\ UNCHANGED sent
            \/ DeliverTo(h, timers, handlers)
        BY <2>1, <3>2 DEF Fire
      <4>3. h.file = e
        OBVIOUS
      <4> HIDE DEF h, timers
      <4>4. CASE DeliverTo(h, timers, handlers)
        BY <1>1, <4>1, <4>3, <4>4, DeliverIsOurs
      <4>5. CASE Remove({e}, [g \in File |-> h.wake], timers) /\ UNCHANGED sent
        BY <4>1, <4>5 DEF Remove, OnlyOurs
      <4> QED
        BY <4>2, <4>4, <4>5
    <3> QED
      BY <3>1, <3>2
  <2>2. ASSUME NEW h \in handlers, IntercomDone(h) PROVE OnlyOurs(f)
    <3>1. CASE Owns(h.file, h.lease)
      <4>1. DeliverTo(h, scheduled, handlers \ {h}) /\ sess = owner[h.file]
        BY <2>2, <3>1 DEF IntercomDone, Owns
      <4> QED
        BY <1>1, <4>1, DeliverIsOurs
    <3>2. CASE ~Owns(h.file, h.lease)
      BY <2>2, <3>2 DEF IntercomDone, OnlyOurs
    <3> QED
      BY <3>1, <3>2
  <2>3. CASE EmitGroup
    <3>1. \A g \in (UNION {Held}) \cup {} : sess = owner[g.file]
      BY <1>1, HeldOurs DEF Ours
    <3>2. CASE Accepted({Held}, {}, scheduled, handlers \ Held)
      BY <3>1, <3>2, AcceptedIsOurs
    <3>3. CASE Refused(Held, scheduled, handlers \ Held)
      BY <3>3 DEF Refused, OnlyOurs
    <3> QED
      BY <2>3, <3>2, <3>3 DEF EmitGroup
  <2>4. CASE EmitAndCrash
    <3>1. \A g \in Held : sess = owner[g.file]
      BY <1>1, HeldOurs DEF Ours
    <3> QED
      BY <2>4, <3>1 DEF EmitAndCrash, OnlyOurs
  <2>5. CASE \E e \in File : Write(e)
    BY <2>5 DEF Write, OnlyOurs
  <2>6. CASE \E s \in Session, recovering \in BOOLEAN : Boot(s, recovering)
    BY <2>6 DEF Boot, OnlyOurs
  <2>7. CASE Shutdown \/ Crash \/ WatchFails \/ Restart \/ Poll
    BY <2>7 DEF Shutdown, Crash, WatchFails, Restart, Poll, OnlyOurs
  <2> QED
    BY <1>1, <2>1, <2>2, <2>3, <2>4, <2>5, <2>6, <2>7 DEF Next
<1>2. IInv /\ [Next]_vars =>
        [ \A f \in File : sent'[f] # sent[f] \/ (f \in disk /\ f \notin disk') => sess = owner[f] ]_vars
  BY <1>1 DEF OnlyOurs
<1> QED
  BY <1>2, Invariance, PTL DEF OnlyForItsSession, Spec
=============================================================================
