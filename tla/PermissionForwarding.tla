------------------------ MODULE PermissionForwarding ------------------------
(***************************************************************************)
(* Forwarded permissions of pi-permission-system, src/authority: a child   *)
(* session without a UI (ParentAuthorizer in approval-escalator.ts) writes *)
(* a request file and polls for a response file; its parent session        *)
(* (ForwardingManager, ForwardedRequestServer) polls for requests, decides *)
(* each one by its rules or by a dialog, and writes the response.          *)
(*                                                                         *)
(* They share a directory with requests/ and responses/, which either side *)
(* creates when it needs them and removes when they are empty.  Every call *)
(* on a file is a step of its own.  Locals that go out of scope are reset. *)
(*                                                                         *)
(* The extension of the parent session is an instance: when the session is *)
(* reloaded or its process is restarted, the next instance takes over.     *)
(* Any process may stop anywhere: a child that has died, and a human who   *)
(* does not answer, take no further steps.                                 *)
(***************************************************************************)
EXTENDS Naturals, FiniteSets

CONSTANTS
  Request,    \* the asks of the children, one request file each
  Pattern,    \* what a session approval may cover
  PatternOf,  \* PatternOf[r]: the pattern that r suggests and matches, or None
  Requester,  \* Requester[r]: the child that asks r
  Config,     \* Config[r]: what the rules of the parent's files say of r
  Answers,    \* the answers that the human gives, a subset of Decision
  Links,      \* what the authorizers before the dialog decide, if not to defer
  MaxAnswers, \* bound on the different answers and failures of the asks
  Instances,  \* bound on the instances of the parent's extension
  Faults,     \* the sets of faults that a behaviour may show
  None

(***************************************************************************)
(* "write":   a directory or a file may fail to be written                 *)
(* "read":    a file that is there may fail to be read                     *)
(* "remove":  a file or a directory may fail to be removed                 *)
(* "ask":     an authorizer or the dialog may reject                       *)
(* "restart": the parent session is shut down and started again; work in   *)
(*           flight goes on in the old instance, or stops anywhere if its  *)
(*           process has died                                              *)
(***************************************************************************)
Fault == {"write", "read", "remove", "ask", "restart"}

State == {"allow", "deny", "ask"}
ASSUME ConfigAssumption ==
  /\ PatternOf \in [Request -> Pattern \cup {None}]
  /\ Config \in [Request -> State]
ASSUME BoundAssumption == Instances \in Nat \ {0} /\ MaxAnswers \in Nat
ASSUME NoneAssumption == None \notin Request /\ None \notin Pattern
ASSUME FaultAssumption == Faults \subseteq SUBSET Fault

Instance == 1 .. Instances

\* The states of a decision; the last one is not written into a response.
Reply == {"approved", "approved_for_session", "denied"}
Decision == Reply \cup {"approved_for_serving_session"}
ASSUME AnswersAssumption == Answers \subseteq Decision /\ Links \subseteq {"approved", "denied"}

\* How an ask of the parent ends: decided, or rejected.
Outcome == Decision \cup {"failed"}

VARIABLES
  faults,     \* the faults that this behaviour may show
  child,      \* child[r]: where the authorizer that asks r is
  verdict,    \* verdict[r]: the response that it has read, or "denied"
  requests,   \* the files in requests/
  responses,  \* responses[r]: the response file of r
  dirs,       \* those of the two directories that exist
  active,     \* the instance whose timer runs
  server,     \* server[i]: where processInbox of instance i is
  inbox,      \* inbox[i]: the listed files that are still to be processed
  serving,    \* serving[i]: the request that is decided
  decision,   \* decision[i]: its decision
  rules,      \* rules[i]: the patterns in the SessionRules of instance i
  said,       \* history: <<instance, request, outcome>> of the asks
  unread,     \* history: the requests that were deleted unread
  stuck       \* history: the requests that their children failed to remove

askers == <<child, verdict, stuck>>
files == <<requests, responses, dirs>>
servers == <<active, server, inbox, serving, decision, rules, said, unread>>
vars == <<faults, askers, files, servers>>

ChildPC == {"idle", "prepared", "waiting", "deleting", "sweeping", "done"}
ServerPC == {"idle", "preparing", "draining", "escalating", "dialog", "responding",
             "deleting", "sweeping"}

\* A response names the instance that wrote it; the instance is history.
Response == [by : Instance, state : Reply]
ASSUME NoneIsNoResponse == None \notin Response
Denied == [by |-> 1, state |-> "denied"]

ChildGoes(r, l) == child' = [child EXCEPT ![r] = l]
ServerGoes(i, l) == server' = [server EXCEPT ![i] = l]

-----------------------------------------------------------------------------
(* The directories.                                                        *)

\* tryRemoveDirectoryIfEmpty; rmdir itself refuses what is not empty.
RemoveIfEmpty(d, empty) ==
  \/ dirs' = IF empty THEN dirs \ {d} ELSE dirs
  \/ "remove" \in faults /\ UNCHANGED dirs
RemoveRequests == RemoveIfEmpty("requests", requests' = {})
RemoveResponses == RemoveIfEmpty("responses", \A r \in Request : responses[r] = None)
RequestsGone == "requests" \notin dirs'

\* safeDeleteFile warns when the file stays, and goes on.
DeleteFile(r) ==
  \/ requests' = requests \ {r}
  \/ "remove" \in faults /\ UNCHANGED requests

-----------------------------------------------------------------------------
(* The child: waitForForwardedApproval and pollForForwardedResponse.       *)

Deny(r) == verdict' = [verdict EXCEPT ![r] = Denied] /\ ChildGoes(r, "done")

\* The gate of the child asks unless its own session rules cover the ask.
AllowedHere(r) ==
  \E q \in Request :
    /\ Requester[q] = Requester[r] /\ PatternOf[q] = PatternOf[r] /\ PatternOf[r] # None
    /\ child[q] = "done" /\ verdict[q].state = "approved_for_session"

\* ensurePermissionForwardingLocation
Prepare(r) ==
  /\ child[r] = "idle" /\ ~AllowedHere(r)
  /\ \/ dirs' = {"requests", "responses"} /\ ChildGoes(r, "prepared") /\ UNCHANGED verdict
     \/ "write" \in faults /\ Deny(r) /\ UNCHANGED dirs
  /\ UNCHANGED <<stuck, requests, responses, servers>>

\* A cleanup may have removed the directory since.
WriteRequest(r) ==
  /\ child[r] = "prepared"
  /\ \/ /\ "requests" \in dirs
        /\ requests' = requests \cup {r}
        /\ ChildGoes(r, "waiting") /\ UNCHANGED verdict
     \/ /\ "requests" \notin dirs \/ "write" \in faults
        /\ Deny(r) /\ UNCHANGED requests
  /\ UNCHANGED <<stuck, responses, dirs, servers>>

\* The response is read and deleted.  What cannot be read denies.
ReadResponse(r) ==
  /\ child[r] = "waiting" /\ responses[r] # None
  /\ \/ verdict' = [verdict EXCEPT ![r] = responses[r]]
     \/ "read" \in faults /\ verdict' = [verdict EXCEPT ![r] = Denied]
  /\ \/ responses' = [responses EXCEPT ![r] = None]
     \/ "remove" \in faults /\ UNCHANGED responses
  /\ ChildGoes(r, "deleting")
  /\ UNCHANGED <<stuck, requests, dirs, servers>>

\* Ten minutes have passed, whether a response has come in the last poll
\* interval or not; a response is not deleted.
TimeOut(r) ==
  /\ child[r] = "waiting"
  /\ verdict' = [verdict EXCEPT ![r] = Denied]
  /\ ChildGoes(r, "deleting")
  /\ UNCHANGED <<stuck, files, servers>>

\* The request is deleted; the cleanup begins with requests/, and goes on
\* with responses/ when requests/ is gone.
DeleteRequest(r) ==
  /\ child[r] = "deleting"
  /\ DeleteFile(r)
  /\ stuck' = stuck \cup ({r} \cap requests')
  /\ RemoveRequests
  /\ ChildGoes(r, IF RequestsGone THEN "sweeping" ELSE "done")
  /\ UNCHANGED <<verdict, responses, servers>>

SweepResponses(r) ==
  /\ child[r] = "sweeping"
  /\ RemoveResponses
  /\ ChildGoes(r, "done")
  /\ UNCHANGED <<verdict, stuck, requests, responses, servers>>

-----------------------------------------------------------------------------
(* The parent: the timer of ForwardingManager, and processInbox.           *)

\* The timer does nothing while an inbox is processed.
List(i) ==
  /\ i = active /\ server[i] = "idle"
  /\ "requests" \in dirs /\ requests # {}
  /\ inbox' = [inbox EXCEPT ![i] = requests]
  /\ ServerGoes(i, "preparing")
  /\ UNCHANGED <<askers, files, active, serving, decision, rules, said, unread>>

\* responses/ is created again, in case a cleanup has removed it.
PrepareResponses(i) ==
  /\ server[i] = "preparing"
  /\ \/ dirs' = dirs \cup {"responses"} /\ ServerGoes(i, "draining") /\ UNCHANGED inbox
     \/ /\ "write" \in faults /\ ServerGoes(i, "idle") /\ UNCHANGED dirs
        /\ inbox' = [inbox EXCEPT ![i] = {}]
  /\ UNCHANGED <<askers, requests, responses, active, serving, decision, rules, said, unread>>

\* The rules of the session come last and win.
Resolved(i, r) == IF PatternOf[r] \in rules[i] THEN "allow" ELSE Config[r]

\* What follows from it: an ask goes to the chain of authorizers, with the
\* one that is selected now at its end; without one it is an error, which
\* denies.
Decide(i, r) ==
  LET decides(d) == ServerGoes(i, "responding") /\ decision' = [decision EXCEPT ![i] = d]
  IN \/ Resolved(i, r) = "allow" /\ decides("approved")
     \/ Resolved(i, r) = "deny" /\ decides("denied")
     \/ Resolved(i, r) = "ask" /\ i # active /\ decides("denied")
     \/ Resolved(i, r) = "ask" /\ i = active /\ ServerGoes(i, "escalating") /\ UNCHANGED decision

\* Mutant: all files are read when they are listed.
ReadRequestListed(i, r) ==
  /\ server[i] = "draining" /\ r \in inbox[i]
  /\ inbox' = [inbox EXCEPT ![i] = @ \ {r}]
  /\ serving' = [serving EXCEPT ![i] = r]
  /\ Decide(i, r)
  /\ UNCHANGED <<askers, files, active, rules, said, unread>>

\* A listed file is read when its turn comes, after the dialogs before it,
\* and resolved at once.
ReadRequest(i, r) ==
  /\ server[i] = "draining" /\ r \in inbox[i]
  /\ r \in requests
  /\ inbox' = [inbox EXCEPT ![i] = @ \ {r}]
  /\ serving' = [serving EXCEPT ![i] = r]
  /\ Decide(i, r)
  /\ UNCHANGED <<askers, files, active, rules, said, unread>>

\* A file that cannot be read, or is gone, is deleted.
SkipRequest(i, r) ==
  /\ server[i] = "draining" /\ r \in inbox[i]
  /\ r \notin requests \/ "read" \in faults
  /\ inbox' = [inbox EXCEPT ![i] = @ \ {r}]
  /\ DeleteFile(r)
  /\ unread' = unread \cup (requests \ requests')
  /\ UNCHANGED <<askers, responses, dirs, active, server, serving, decision, rules, said>>

\* What is written for a decision: a grant for the whole session is plain.
AsReply(d) == IF d = "approved_for_serving_session" THEN "approved" ELSE d

\* Mutant: any session grant is recorded in the parent.
ApplyGrantScopeAny(i, d) ==
  /\ rules' = [rules EXCEPT ![i] =
       IF d \in {"approved_for_serving_session", "approved_for_session"}
       THEN @ \cup ({PatternOf[serving[i]]} \ {None}) ELSE @]
  /\ decision' = [decision EXCEPT ![i] = AsReply(d)]

\* Mutant: a grant for the whole session is passed on as it is.
ApplyGrantScopeAsIs(i, d) ==
  /\ rules' = [rules EXCEPT ![i] =
       IF d = "approved_for_serving_session"
       THEN @ \cup ({PatternOf[serving[i]]} \ {None}) ELSE @]
  /\ decision' = [decision EXCEPT ![i] = d]

\* applyGrantScope
ApplyGrantScope(i, d) ==
  /\ rules' = [rules EXCEPT ![i] =
       IF d = "approved_for_serving_session"
       THEN @ \cup ({PatternOf[serving[i]]} \ {None}) ELSE @]
  /\ decision' = [decision EXCEPT ![i] = AsReply(d)]

Says(i, o) ==
  /\ said' = said \cup {<<i, serving[i], o>>}
  /\ Cardinality(said') <= MaxAnswers
  /\ ServerGoes(i, "responding")
  /\ UNCHANGED <<askers, files, active, inbox, serving, unread>>

\* An authorizer before the dialog decides.
LinkDecides(i) ==
  /\ server[i] = "escalating"
  /\ \E d \in Links : ApplyGrantScope(i, d) /\ Says(i, d)

\* All of them defer.
OpenDialog(i) ==
  /\ server[i] = "escalating"
  /\ ServerGoes(i, "dialog")
  /\ UNCHANGED <<askers, files, active, inbox, serving, decision, rules, said, unread>>

\* The human answers the dialog.  The scope of a session grant is asked for
\* only when the request suggests a pattern.
Answer(i) ==
  /\ server[i] = "dialog"
  /\ \E d \in Answers :
       /\ d = "approved_for_serving_session" => PatternOf[serving[i]] # None
       /\ ApplyGrantScope(i, d) /\ Says(i, d)

\* An authorizer or the dialog rejects, which denies.
EscalationFails(i) ==
  /\ "ask" \in faults /\ server[i] \in {"escalating", "dialog"}
  /\ ApplyGrantScope(i, "denied") /\ Says(i, "failed")

\* Mutant: the request is deleted although the response was not written.
RespondAnyway(i) ==
  /\ server[i] = "responding"
  /\ \/ /\ "responses" \in dirs
        /\ responses' = [responses EXCEPT ![serving[i]] =
                           [by |-> i, state |-> decision[i]]]
     \/ /\ "responses" \notin dirs \/ "write" \in faults
        /\ UNCHANGED responses
  /\ ServerGoes(i, "deleting")
  /\ decision' = [decision EXCEPT ![i] = "denied"]
  /\ UNCHANGED <<askers, requests, dirs, active, inbox, serving, rules, said, unread>>

\* recordForwardedDecision; when the response cannot be written, the request
\* stays for the next poll.
Respond(i) ==
  /\ server[i] = "responding"
  /\ \/ /\ "responses" \in dirs
        /\ responses' = [responses EXCEPT ![serving[i]] =
                           [by |-> i, state |-> decision[i]]]
        /\ ServerGoes(i, "deleting") /\ UNCHANGED serving
     \/ /\ "responses" \notin dirs \/ "write" \in faults
        /\ ServerGoes(i, "draining") /\ UNCHANGED responses
        /\ serving' = [serving EXCEPT ![i] = None]
  /\ decision' = [decision EXCEPT ![i] = "denied"]
  /\ UNCHANGED <<askers, requests, dirs, active, inbox, rules, said, unread>>

DeleteServed(i) ==
  /\ server[i] = "deleting"
  /\ DeleteFile(serving[i])
  /\ serving' = [serving EXCEPT ![i] = None]
  /\ ServerGoes(i, "draining")
  /\ UNCHANGED <<askers, responses, dirs, active, inbox, decision, rules, said, unread>>

Drained(i) ==
  /\ server[i] = "draining" /\ inbox[i] = {}
  /\ requests' = requests
  /\ RemoveRequests
  /\ ServerGoes(i, IF RequestsGone THEN "sweeping" ELSE "idle")
  /\ UNCHANGED <<askers, responses, active, inbox, serving, decision, rules, said, unread>>

SweepServed(i) ==
  /\ server[i] = "sweeping"
  /\ RemoveResponses
  /\ ServerGoes(i, "idle")
  /\ UNCHANGED <<askers, requests, responses, active, inbox, serving, decision, rules, said, unread>>

-----------------------------------------------------------------------------
(* The end of an instance.                                                 *)

\* PermissionSession.shutdown, and the next session_start
Restart ==
  /\ "restart" \in faults /\ active < Instances
  /\ active' = active + 1
  /\ rules' = [rules EXCEPT ![active] = {}]
  /\ UNCHANGED <<askers, files, server, inbox, serving, decision, said, unread>>

-----------------------------------------------------------------------------
Init ==
  /\ faults \in Faults
  /\ child = [r \in Request |-> "idle"]
  /\ verdict = [r \in Request |-> Denied]
  /\ requests = {}
  /\ responses = [r \in Request |-> None]
  /\ dirs = {}
  /\ active = 1
  /\ server = [i \in Instance |-> "idle"]
  /\ inbox = [i \in Instance |-> {}]
  /\ serving = [i \in Instance |-> None]
  /\ decision = [i \in Instance |-> "denied"]
  /\ rules = [i \in Instance |-> {}]
  /\ said = {}
  /\ unread = {}
  /\ stuck = {}

Asks(r) == Prepare(r) \/ WriteRequest(r) \/ ReadResponse(r) \/ TimeOut(r) \/ DeleteRequest(r)
              \/ SweepResponses(r)
Serves(i) == \/ List(i) \/ PrepareResponses(i)
             \/ \E r \in Request : ReadRequest(i, r) \/ SkipRequest(i, r)
             \/ LinkDecides(i) \/ OpenDialog(i) \/ Answer(i) \/ EscalationFails(i)
             \/ Respond(i) \/ DeleteServed(i) \/ Drained(i) \/ SweepServed(i)

Next ==
  /\ \/ \E r \in Request : Asks(r)
     \/ \E i \in Instance : Serves(i)
     \/ Restart
  /\ UNCHANGED faults

Spec == Init /\ [][Next]_vars

-----------------------------------------------------------------------------
(* Properties.                                                             *)

TypeOK ==
  /\ faults \in Faults
  /\ child \in [Request -> ChildPC]
  /\ verdict \in [Request -> Response]
  /\ requests \subseteq Request
  /\ responses \in [Request -> Response \cup {None}]
  /\ dirs \subseteq {"requests", "responses"}
  /\ active \in Instance
  /\ server \in [Instance -> ServerPC]
  /\ inbox \in [Instance -> SUBSET Request]
  /\ serving \in [Instance -> Request \cup {None}]
  /\ decision \in [Instance -> Reply]
  /\ rules \in [Instance -> SUBSET Pattern]
  /\ said \subseteq Instance \X Request \X Outcome
  /\ unread \subseteq Request /\ stuck \subseteq Request

(***************************************************************************)
(* A child goes ahead only on a grant: the human, or an authorizer before   *)
(* the dialog, granted this very ask, or the rules of the parent's files   *)
(* allow it, or the human granted its pattern to the whole session that    *)
(* answered.  A grant for one child does not reach another one, and none   *)
(* outlives its session, in whatever order dialogs, timeouts, reloads and  *)
(* crashes come.  A response denies only what one of these denied or whose *)
(* ask failed, unless its instance was shut down over it: that denies what *)
(* it can ask nobody about.                                                *)
(***************************************************************************)
GrantedTo(r, v) ==
  \/ \E d \in Decision : AsReply(d) = v.state /\ <<v.by, r, d>> \in said
  \/ /\ v.state = "approved"
     /\ \/ Config[r] = "allow"
        \/ \E q \in Request :
             /\ PatternOf[q] = PatternOf[r]
             /\ <<v.by, q, "approved_for_serving_session">> \in said
DeniedTo(r, v) ==
  \/ <<v.by, r, "denied">> \in said \/ <<v.by, r, "failed">> \in said
  \/ Config[r] = "deny" \/ v.by < active
AnswersTraced ==
  \A r \in Request :
    /\ responses[r] # None =>
         IF responses[r].state = "denied" THEN DeniedTo(r, responses[r])
                                          ELSE GrantedTo(r, responses[r])
    /\ verdict[r].state # "denied" => GrantedTo(r, verdict[r])

(***************************************************************************)
(* A child that waits has its request on disk, to be asked about again, or *)
(* its response: no failed write, cleanup or crash loses both.             *)
(***************************************************************************)
NeverStranded ==
  \A r \in Request : child[r] = "waiting" =>
    r \in requests \/ responses[r] # None \/ r \in unread

(***************************************************************************)
(* An instance takes up only requests whose children have not returned,    *)
(* however long the dialogs before them took and whoever else served them, *)
(* unless the child failed to remove its request.  So a dialog that nobody *)
(* waits for opens only if the child returned while the authorizers before *)
(* it were asked, or its request could not be removed.                     *)
(***************************************************************************)
TakesUp(i, r) == serving[i] # r /\ serving'[i] = r
OnlyAwaited ==
  [][\A i \in Instance, r \in Request :
       TakesUp(i, r) => child[r] \in {"waiting", "deleting"} \/ r \in stuck]_vars

=============================================================================
