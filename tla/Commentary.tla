----------------------------- MODULE Commentary -----------------------------
(***************************************************************************)
(* pi-commentary (index.ts): one tip about the recent activity of a        *)
(* session, asked of a secondary model when the agent settles.             *)
(*                                                                         *)
(* The program is one event loop; a step is an event handler, what runs    *)
(* between two awaits of the settings dialog, or the arrival of an answer. *)
(* A call to the model that was aborted still comes back, at any time.     *)
(* The session is a tree of entries; the branch is the path to its current *)
(* leaf.  Entries are numbered in the order of their creation.             *)
(***************************************************************************)
EXTENDS Naturals, FiniteSets, Sequences

CONSTANTS
  MaxEntry,     \* bound: entries created
  Chatter,      \* the entries with no tool call and too little text
  Call,         \* model calls that can be under way together
  Interval,     \* minIntervalMs, in ticks
  MaxBoundary,  \* bound: session starts and shutdowns
  Dialog,       \* settings dialogs, each of them opened once
  Projects,     \* `enabled' in the project files there are
  Environments, \* what PI_COMMENTARY may say: "off", or anything else, "on"
  None          \* null

Setting == {"on", "off", "none"}

ASSUME EntryAssumption == MaxEntry \in Nat /\ Chatter \subseteq 1 .. MaxEntry
ASSUME ProjectsAssumption == Projects \subseteq Setting
ASSUME EnvironmentAssumption == Environments \subseteq {"on", "off"}
ASSUME IntervalAssumption == Interval \in Nat \ {0}
ASSUME BoundaryAssumption == MaxBoundary \in Nat
ASSUME NoneAssumption == None \notin Call /\ None \notin Nat

VARIABLES
  moves,       \* whether the user of this behaviour navigates the tree
  open,        \* between session_start and session_shutdown
  busy,        \* the agent runs
  tree,        \* the branches of the session so far
  branch,      \* getBranch(), as a sequence of entries
  env,         \* PI_COMMENTARY of this process
  saved,       \* `enabled' in the user and the project file, "none" if absent
  overridden,  \* sessionOverrides.enabled
  enabled,     \* config.enabled, as loaded last
  sessionOn,
  turned,      \* turnsSinceCommentary > 0
  since,       \* ticks since lastCommentaryAt, Interval if it is null
  consumed,    \* the mark of the activity that is covered
  active,      \* the request in flight: its call and the mark to restore
  calls,       \* calls[c]: what the call under way observed
  dialogs,     \* dialogs[d]: the generation, question and choice of a dialog
  generation,  \* dialogGeneration
  tip,         \* the branch the widget's tip is about
  spent,       \* history: entries whose attempt was answered, failed or was
               \*   switched off by the user
  gap          \* history: ticks since the last attempt of this session

settingVars == <<env, saved, overridden, enabled>>
requestVars == <<turned, since, consumed, active, calls, spent, gap>>
treeVars == <<moves, open, busy, tree, branch>>
vars == <<treeVars, settingVars, sessionOn, requestVars, dialogs, generation, tip>>


\* A file without `enabled' is as good as none.
Files == [user : Setting, project : Projects \cup {"none"}]

\* "details" stands for the questions about the model and the interval.
Question == {"unasked", "enabled", "details", "scope", "closed"}

Entries(b) == {b[i] : i \in DOMAIN b}
Branches == {b \in UNION {[1 .. n -> 1 .. MaxEntry] : n \in 0 .. MaxEntry} :
               \A i, j \in DOMAIN b : i < j => b[i] < b[j]}

-----------------------------------------------------------------------------
(* Marks.                                                                  *)

Mark == [length : 0 .. MaxEntry, tailRef : 1 .. MaxEntry \cup {None}]

markOf(b) == [length |-> Len(b), tailRef |-> IF b = <<>> THEN None ELSE b[Len(b)]]

\* The entries after the mark; all of them if its entry is not on the branch.
deltaSince(b, mark) ==
  IF mark # None /\ mark.tailRef \in Entries(b)
    THEN {b[i] : i \in {j \in DOMAIN b : \E k \in 1 .. (j - 1) : b[k] = mark.tailRef}}
    ELSE Entries(b)

isSameBranch(b, mark) == Len(b) = mark.length /\ markOf(b).tailRef = mark.tailRef

-----------------------------------------------------------------------------
(* The request in flight.                                                  *)

Request     == [call : Call, restore : Mark \cup {None}]
Observation == [saw : Branches, delta : SUBSET (1 .. MaxEntry)]

\* null is not an object.
ASSUME NullAssumption == None \notin Branches \cup Mark \cup Request \cup Observation

InFlight == IF active = None THEN {} ELSE calls[active.call].delta

\* Mutant: a superseded request does not count as an attempt.
invalidateActiveAndClock(restoreActivity) ==
  /\ active' = None
  /\ consumed' = IF active # None /\ restoreActivity THEN active.restore ELSE consumed
  /\ spent' = IF restoreActivity THEN spent ELSE spent \cup InFlight
  /\ since' = IF active # None /\ restoreActivity THEN Interval ELSE since

\* Without restoring, what is in flight stays consumed.
invalidateActive(restoreActivity) ==
  /\ active' = None
  /\ consumed' = IF active # None /\ restoreActivity THEN active.restore ELSE consumed
  /\ spent' = IF restoreActivity THEN spent ELSE spent \cup InFlight
  /\ UNCHANGED since

Eligible(delta) == ~(delta \subseteq Chatter)

\* The early returns of maybeCommentary.
MayLaunch(force) ==
  /\ enabled /\ sessionOn /\ active = None
  /\ force \/ (turned /\ since >= Interval /\ Eligible(deltaSince(branch, consumed)))

\* Mutant: the mark to restore is the one just set.
maybeCommentaryLate(force, c) ==
  /\ MayLaunch(force)
  /\ calls' = [calls EXCEPT ![c] = [saw |-> branch, delta |-> deltaSince(branch, consumed)]]
  /\ active' = [call |-> c, restore |-> markOf(branch)]
  /\ consumed' = markOf(branch)
  /\ turned' = FALSE /\ since' = 0 /\ gap' = 0
  /\ UNCHANGED spent

\* maybeCommentary, when it launches the call c.
maybeCommentary(force, c) ==
  /\ MayLaunch(force)
  /\ calls' = [calls EXCEPT ![c] = [saw |-> branch, delta |-> deltaSince(branch, consumed)]]
  /\ active' = [call |-> c, restore |-> consumed]
  /\ consumed' = markOf(branch)
  /\ turned' = FALSE /\ since' = 0 /\ gap' = 0
  /\ UNCHANGED spent

\* A settled agent, or the command: a call that is not under way, or nothing.
Consider(force) ==
  \/ \E c \in Call : calls[c] = None /\ maybeCommentary(force, c)
  \/ ~MayLaunch(force) /\ UNCHANGED requestVars

-----------------------------------------------------------------------------
(* The answer of a call.                                                   *)

\* Mutant: an answer is taken as long as any request is in flight.
IsCurrentAny(c) == active # None

IsCurrent(c) == active # None /\ active.call = c

\* An answer for a branch that has moved, or cannot be read, restores; a tip
\* is shown; NOTHING and every failure clear the widget.
Answer(c) ==
  /\ calls[c] # None
  /\ calls' = [calls EXCEPT ![c] = None]
  /\ IF ~IsCurrent(c) THEN UNCHANGED <<active, consumed, spent, tip>>
     ELSE /\ active' = None
          /\ \/ /\ consumed' = active.restore
                /\ UNCHANGED <<spent, tip>>
             \/ /\ isSameBranch(branch, markOf(calls[active.call].saw))
                /\ spent' = spent \cup InFlight
                /\ tip' \in {calls[c].saw, None}
                /\ UNCHANGED consumed
  /\ UNCHANGED <<treeVars, settingVars, sessionOn, turned, since, gap, dialogs, generation>>

\* Mutant: there is no `finally'.
ThrowThrough(c) ==
  /\ calls[c] # None
  /\ calls' = [calls EXCEPT ![c] = None]
  /\ UNCHANGED <<treeVars, settingVars, sessionOn, turned, since, consumed, active,
                 spent, gap, dialogs, generation, tip>>

\* Something between the launch and the answer throws: `finally'.
Throw(c) ==
  /\ calls[c] # None
  /\ calls' = [calls EXCEPT ![c] = None]
  /\ IF IsCurrent(c) THEN active' = None /\ spent' = spent \cup InFlight
                     ELSE UNCHANGED <<active, spent>>
  /\ UNCHANGED <<treeVars, settingVars, sessionOn, turned, since, consumed, gap,
                 dialogs, generation, tip>>

-----------------------------------------------------------------------------
(* Events.                                                                 *)

turn_end ==
  /\ open /\ busy
  /\ invalidateActive(TRUE)
  /\ turned' = TRUE
  /\ tip' = None
  /\ UNCHANGED <<treeVars, settingVars, sessionOn, calls, gap, dialogs, generation>>

agent_settled ==
  /\ open /\ busy
  /\ busy' = FALSE
  /\ Consider(FALSE)
  /\ UNCHANGED <<moves, open, tree, branch, settingVars, sessionOn, dialogs, generation, tip>>

\* Layers: the session goes before the project file, that before the user file,
\* and the environment comes last.
Effective(files, override) ==
  LET layers == <<override, files.project, files.user, env>>
  IN  \E i \in DOMAIN layers :
        layers[i] = "on" /\ \A j \in 1 .. (i - 1) : layers[j] = "none"

Asking(d) == dialogs[d].at \in {"enabled", "details", "scope"}

\* The dialogs that are open belong to a session that is over.
EndDialogs ==
  dialogs' = [d \in Dialog |-> IF Asking(d) THEN [dialogs[d] EXCEPT !.over = TRUE]
                               ELSE dialogs[d]]

\* A new, a resumed or a reloaded session; its project has a file of its own.
session_start ==
  /\ generation < MaxBoundary
  /\ open' = TRUE /\ busy' = FALSE
  /\ \/ branch' = <<>> /\ tree' = {<<>>}
     \/ UNCHANGED <<branch, tree>>
  /\ \E p \in Projects \cup {"none"} : saved' = [saved EXCEPT !.project = p]
  /\ active' = None /\ consumed' = None
  /\ turned' = FALSE /\ since' = Interval
  /\ spent' = {} /\ gap' = Interval
  /\ overridden' = "none"
  /\ generation' = generation + 1
  /\ enabled' = Effective(saved', "none")
  /\ sessionOn' = enabled'
  /\ tip' = None
  /\ EndDialogs
  /\ UNCHANGED <<moves, env, calls>>

\* Mutant: the dialogs are left to the next session_start.
session_shutdown_keeping ==
  /\ open /\ generation < MaxBoundary
  /\ open' = FALSE /\ busy' = FALSE
  /\ invalidateActive(FALSE)
  /\ EndDialogs
  /\ UNCHANGED <<moves, tree, branch, settingVars, sessionOn, turned, calls, gap,
                 generation, tip>>

session_shutdown ==
  /\ open /\ generation < MaxBoundary
  /\ open' = FALSE /\ busy' = FALSE
  /\ invalidateActive(FALSE)
  /\ generation' = generation + 1
  /\ EndDialogs
  /\ UNCHANGED <<moves, tree, branch, settingVars, sessionOn, turned, calls, gap, tip>>

-----------------------------------------------------------------------------
(* The command.                                                            *)

CommandOff ==
  /\ open
  /\ invalidateActive(FALSE)
  /\ sessionOn' = FALSE
  /\ tip' = None
  /\ UNCHANGED <<treeVars, settingVars, turned, calls, gap, dialogs, generation>>

CommandOn ==
  /\ open
  /\ sessionOn' = TRUE
  /\ UNCHANGED <<treeVars, settingVars, requestVars, dialogs, generation, tip>>

CommandNow ==
  /\ open
  /\ Consider(TRUE)
  /\ UNCHANGED <<treeVars, settingVars, sessionOn, dialogs, generation, tip>>

-----------------------------------------------------------------------------
(* settingsDialog.                                                         *)

DialogState == [generation : 0 .. MaxBoundary, at : Question, on : BOOLEAN, over : BOOLEAN]
Unasked == [generation |-> 0, at |-> "unasked", on |-> TRUE, over |-> FALSE]
Closed  == [generation |-> 0, at |-> "closed", on |-> TRUE, over |-> FALSE]

OpenDialog(d) ==
  /\ open /\ dialogs[d] = Unasked
  /\ dialogs' = [dialogs EXCEPT ![d] =
       [generation |-> generation, at |-> "enabled", on |-> TRUE, over |-> FALSE]]
  /\ UNCHANGED <<treeVars, settingVars, sessionOn, requestVars, generation, tip>>

stale(d) == dialogs[d].generation # generation

NextQuestion(at, on) == IF at = "enabled" /\ on THEN "details" ELSE "scope"

\* Escape, a refused value, an error, or any answer after a session boundary.
CloseDialog(d) ==
  /\ Asking(d)
  /\ dialogs' = [dialogs EXCEPT ![d] = Closed]
  /\ UNCHANGED <<treeVars, settingVars, sessionOn, requestVars, generation, tip>>

AnswerDialog(d) ==
  /\ dialogs[d].at \in {"enabled", "details"} /\ ~stale(d)
  /\ \E on \in BOOLEAN :
       /\ dialogs[d].at # "enabled" => on = dialogs[d].on
       /\ dialogs' = [dialogs EXCEPT ![d].on = on, ![d].at = NextQuestion(@, on)]
  /\ UNCHANGED <<treeVars, settingVars, sessionOn, requestVars, generation, tip>>

\* Mutant: only the dialog's own choice ends what is in flight.
reconcileEnabledLate(off) ==
  IF off
    THEN invalidateActive(FALSE) /\ sessionOn' = FALSE /\ tip' = None
    ELSE sessionOn' = enabled' /\ UNCHANGED <<since, consumed, active, spent, tip>>

\* reconcileEnabled, told that the dialog says off, or that the layers decide:
\* a reset, or an `on' below a project file that says off, may leave it off.
reconcileEnabled(off) ==
  IF off \/ ~enabled'
    THEN invalidateActive(FALSE) /\ sessionOn' = FALSE /\ tip' = None
    ELSE sessionOn' = TRUE /\ UNCHANGED <<since, consumed, active, spent, tip>>

Override(on) == IF on THEN "on" ELSE "off"

\* What the last answer commits: reset, the user file or this session.  A reset
\* removes both files, and so brings back what the environment says.
Commit(d) ==
  /\ dialogs[d].at = "scope" /\ ~stale(d)
  /\ \/ /\ saved' = [user |-> "none", project |-> "none"]
        /\ overridden' = "none"
        /\ enabled' = Effective(saved', overridden')
        /\ reconcileEnabled(FALSE)
     \/ /\ \/ saved' = [saved EXCEPT !.user = Override(dialogs[d].on)] /\ UNCHANGED overridden
           \/ overridden' = Override(dialogs[d].on) /\ UNCHANGED saved
        /\ enabled' = Effective(saved', overridden')
        /\ reconcileEnabled(~dialogs[d].on)
  /\ dialogs' = [dialogs EXCEPT ![d] = Closed]
  /\ UNCHANGED <<treeVars, env, turned, calls, gap, generation>>

\* The user file is removed, the removal of the project file throws: the catch
\* of the dialog reports it, and nothing is reloaded.
ResetFails(d) ==
  /\ dialogs[d].at = "scope" /\ ~stale(d)
  /\ saved' = [saved EXCEPT !.user = "none"]
  /\ dialogs' = [dialogs EXCEPT ![d] = Closed]
  /\ UNCHANGED <<treeVars, env, overridden, enabled, sessionOn, requestVars, generation, tip>>

-----------------------------------------------------------------------------
(* The session around the extension.                                       *)

Prompt ==
  /\ open /\ ~busy
  /\ busy' = TRUE
  /\ UNCHANGED <<moves, open, tree, branch, settingVars, sessionOn, requestVars,
                 dialogs, generation, tip>>

\* A message, a tool result or a compaction becomes the leaf.
Extend ==
  LET e == 1 + Cardinality(UNION {Entries(b) : b \in tree})
  IN  /\ open /\ e <= MaxEntry
      /\ branch' = Append(branch, e)
      /\ tree' = tree \cup {branch'}
      /\ UNCHANGED <<moves, open, busy, settingVars, sessionOn, requestVars,
                     dialogs, generation, tip>>

\* The user goes to another entry of the tree.
Navigate ==
  /\ moves /\ open /\ ~busy
  /\ branch' \in tree
  /\ UNCHANGED <<moves, open, busy, tree, settingVars, sessionOn, requestVars,
                 dialogs, generation, tip>>

Tick ==
  /\ since' = IF since < Interval THEN since + 1 ELSE since
  /\ gap' = IF gap < Interval THEN gap + 1 ELSE gap
  /\ UNCHANGED <<treeVars, settingVars, sessionOn, turned, consumed, active, calls,
                 spent, dialogs, generation, tip>>

-----------------------------------------------------------------------------
\* The extension is loaded, without a project; no event has come yet.
Init ==
  /\ moves \in BOOLEAN
  /\ open = FALSE /\ busy = FALSE
  /\ tree = {<<>>} /\ branch = <<>>
  /\ env \in Environments /\ saved \in Files
  /\ overridden = "none"
  /\ enabled = Effective([saved EXCEPT !.project = "none"], "none")
  /\ sessionOn = TRUE
  /\ turned = FALSE /\ since = Interval
  /\ consumed = None /\ active = None
  /\ calls = [c \in Call |-> None]
  /\ dialogs = [d \in Dialog |-> Unasked]
  /\ generation = 0
  /\ tip = None
  /\ spent = {} /\ gap = Interval

Next ==
  \/ \E c \in Call : Answer(c) \/ Throw(c)
  \/ turn_end \/ agent_settled \/ session_start \/ session_shutdown
  \/ CommandOff \/ CommandOn \/ CommandNow
  \/ \E d \in Dialog : OpenDialog(d) \/ CloseDialog(d) \/ AnswerDialog(d)
                       \/ Commit(d) \/ ResetFails(d)
  \/ Prompt \/ Extend \/ Navigate \/ Tick

Spec == Init /\ [][Next]_vars

-----------------------------------------------------------------------------
(* Properties.                                                             *)

TypeOK ==
  /\ {moves, open, busy, enabled, sessionOn, turned} \subseteq BOOLEAN
  /\ tree \subseteq Branches /\ branch \in tree
  /\ env \in Environments /\ saved \in Files /\ overridden \in Setting
  /\ since \in 0 .. Interval /\ gap \in 0 .. Interval
  /\ consumed \in Mark \cup {None}
  /\ active \in [call : {c \in Call : calls[c] # None}, restore : Mark \cup {None}] \cup {None}
  /\ \A c \in Call : calls[c] # None =>
       calls[c].saw \in Branches /\ calls[c].delta \subseteq 1 .. MaxEntry
  /\ dialogs \in [Dialog -> DialogState]
  /\ generation \in 0 .. MaxBoundary
  /\ tip \in Branches \cup {None}
  /\ spent \subseteq 1 .. MaxEntry

\* "Nothing is silently lost" (README): an entry of the branch that no later
\* request will be offered has been answered for, is being asked about, or was
\* given up when the user switched commentary off.
NothingLost ==
  open => Entries(branch) \subseteq deltaSince(branch, consumed) \cup spent \cup InFlight

\* "No lifetime double-counting" (README): on a branch that only grows, what
\* has been answered for is not offered again.
CountedOnce == open /\ ~moves => deltaSince(branch, consumed) \cap spent = {}

\* Activity is commented on once.
Accounted == NothingLost /\ CountedOnce

\* While commentary is off there is no tip, and no request whose answer could
\* still bring one, whichever of the command, the dialog, its reset, the files
\* and the environment has turned it off.
OffIsSilent == open /\ ~(enabled /\ sessionOn) => tip = None /\ active = None

\* A tip that appears is about the branch the session is on at that moment,
\* whatever was appended, navigated, superseded or restarted meanwhile.
TipFits == [][tip' # None /\ tip' # tip => open /\ tip' = branch]_vars

\* "The attempt clock is never rolled back" (README): a settling agent starts a
\* request only when the last attempt of the session is an Interval ago.
AttemptFloor == [][agent_settled /\ active = None /\ active' # None => gap = Interval]_vars

\* Settings change at the start of a session, or by a dialog that was opened
\* in the very session it commits to.
DialogOfThisSession ==
  [][ <<saved, overridden>>' # <<saved, overridden>> =>
        \/ generation' # generation
        \/ \E d \in Dialog : dialogs'[d].at # dialogs[d].at /\ ~dialogs[d].over ]_vars
=============================================================================
