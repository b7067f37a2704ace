--------------------- MODULE PermissionForwardingProofs ---------------------
(***************************************************************************)
(* TypeCorrect and TracedAnswers: every forwarded answer can be traced to  *)
(* the human or to the rules, for any asks, patterns, instances and        *)
(* faults.  The invariant adds to AnswersTraced what holds on the way from *)
(* a dialog to a response: the session rules come from grants for the      *)
(* whole session (RulesTraced), a decision is traced before it is written  *)
(* (DecisionTraced), and only instances up to the active one do anything.  *)
(*                                                                         *)
(* RequestsAreAnswered and AwaitedOnly: what is asked for is neither lost  *)
(* nor taken up in vain.  The invariant says whose request files are still *)
(* there (OnDisk), and what a request that is about to be deleted has left *)
(* behind (DeletedIsAnswered).                                             *)
(***************************************************************************)
EXTENDS PermissionForwarding, TLAPS

Asking == {"escalating", "dialog"}
Busy(i) == server[i] \in Asking \cup {"responding", "deleting"}

ServingOK ==
  \A i \in Instance : /\ server[i] # "idle" => i <= active
                      /\ Busy(i) => serving[i] \in Request

RulesTraced ==
  \A i \in Instance : \A x \in rules[i] :
    \E q \in Request : PatternOf[q] = x /\ <<i, q, "approved_for_serving_session">> \in said

Written(i) == [by |-> i, state |-> decision[i]]
Traced(r, v) == IF v.state = "denied" THEN DeniedTo(r, v) ELSE GrantedTo(r, v)
DecisionTraced ==
  \A i \in Instance : server[i] = "responding" => Traced(serving[i], Written(i))

IInv == TypeOK /\ ServingOK /\ RulesTraced /\ DecisionTraced /\ AnswersTraced

-----------------------------------------------------------------------------
\* The steps that end an ask, with what is said and what is decided.
Settles(i) == LinkDecides(i) \/ Answer(i) \/ EscalationFails(i)

LEMMA SettlesBy ==
  ASSUME NEW i \in Instance, Settles(i)
  PROVE  \E d \in Decision, o \in Outcome :
           /\ ApplyGrantScope(i, d) /\ Says(i, o)
           /\ (o = d \/ (o = "failed" /\ d = "denied"))
<1>1. "failed" \in Outcome /\ "denied" \in Decision /\ Decision \subseteq Outcome
  BY DEF Outcome, Decision, Reply
<1>2. CASE LinkDecides(i)
  <2>1. PICK d \in Links : ApplyGrantScope(i, d) /\ Says(i, d)
    BY <1>2 DEF LinkDecides
  <2>2. d \in Decision
    BY AnswersAssumption DEF Decision, Reply
  <2> QED
    BY <1>1, <2>1, <2>2
<1>3. CASE Answer(i)
  BY <1>1, <1>3, AnswersAssumption DEF Answer
<1>4. CASE EscalationFails(i)
  BY <1>1, <1>4 DEF EscalationFails
<1> QED
  BY <1>2, <1>3, <1>4 DEF Settles

-----------------------------------------------------------------------------
\* TypeOK is inductive together with ServingOK.
LEMMA InitTyped == Init => TypeOK /\ ServingOK
BY BoundAssumption, NoneAssumption
   DEF Init, TypeOK, ServingOK, Busy, Asking, ChildPC, ServerPC, Response, Reply, Denied,
      Instance

LEMMA ChildTyped ==
  ASSUME TypeOK, ServingOK, NEW r \in Request, Asks(r), UNCHANGED faults
  PROVE  TypeOK' /\ ServingOK'
<1> USE DEF TypeOK, ServingOK, Busy, Asking, ChildPC, ChildGoes, servers
<1>0. Denied \in Response
  BY BoundAssumption DEF Denied, Response, Reply, Instance
<1>1. CASE Prepare(r)
  <2>1. dirs' \subseteq {"requests", "responses"}
    BY <1>1 DEF Prepare
  <2>2. child' \in [Request -> ChildPC] /\ verdict' \in [Request -> Response]
    BY <1>0, <1>1 DEF Prepare, Deny
  <2>3. UNCHANGED <<stuck, requests, responses, servers>>
    BY <1>1 DEF Prepare
  <2>4. QED BY <2>1, <2>2, <2>3
<1>2. CASE WriteRequest(r)
  BY <1>0, <1>2 DEF WriteRequest, Deny
<1>3. CASE ReadResponse(r)
  BY <1>0, <1>3 DEF ReadResponse
<1>4. CASE TimeOut(r)
  BY <1>0, <1>4 DEF TimeOut, files
<1>5. CASE DeleteRequest(r)
  BY <1>5 DEF DeleteRequest, DeleteFile, RemoveRequests, RemoveIfEmpty
<1>6. CASE SweepResponses(r)
  BY <1>6 DEF SweepResponses, RemoveResponses, RemoveIfEmpty
<1>7. QED BY <1>1, <1>2, <1>3, <1>4, <1>5, <1>6 DEF Asks

LEMMA DecideTyped ==
  ASSUME TypeOK, ServingOK, NEW i \in Instance, NEW r \in Request, ReadRequest(i, r),
         UNCHANGED faults
  PROVE  TypeOK' /\ ServingOK'
<1>1. /\ server[i] = "draining"
      /\ server' \in [Instance -> ServerPC] /\ decision' \in [Instance -> Reply]
      /\ \A j \in Instance \ {i} : server'[j] = server[j]
  BY DEF ReadRequest, Decide, ServerGoes, TypeOK, ServerPC, Reply
<1>2. /\ inbox' \in [Instance -> SUBSET Request]
      /\ serving' \in [Instance -> Request \cup {None}]
      /\ serving'[i] = r
      /\ \A j \in Instance \ {i} : serving'[j] = serving[j]
      /\ UNCHANGED <<askers, files, active, rules, said, unread>>
  BY DEF ReadRequest, TypeOK
<1>3. i <= active
  BY <1>1 DEF ServingOK
<1>4. QED BY <1>1, <1>2, <1>3 DEF TypeOK, ServingOK, Busy, Asking, askers, files

LEMMA ServerTyped ==
  ASSUME TypeOK, ServingOK, NEW i \in Instance, Serves(i), UNCHANGED faults
  PROVE  TypeOK' /\ ServingOK'
<1> USE DEF TypeOK, ServingOK, Busy, Asking, ServerPC, Instance, ServerGoes, askers, files
<1>1. CASE List(i)
  BY <1>1, BoundAssumption DEF List
<1>2. CASE PrepareResponses(i)
  BY <1>2 DEF PrepareResponses
<1>3. CASE \E r \in Request : ReadRequest(i, r)
  BY <1>3, DecideTyped
<1>4. CASE \E r \in Request : SkipRequest(i, r)
  BY <1>4 DEF SkipRequest, DeleteFile
<1>5. ASSUME Settles(i) PROVE TypeOK' /\ ServingOK'
  <2>1. PICK d \in Decision, o \in Outcome : ApplyGrantScope(i, d) /\ Says(i, o)
    BY <1>5, SettlesBy
  <2>2. server[i] \in Asking /\ serving[i] \in Request
    BY <1>5 DEF Settles, LinkDecides, Answer, EscalationFails
  <2>3. rules' \in [Instance -> SUBSET Pattern] /\ decision' \in [Instance -> Reply]
    BY <2>1, <2>2, ConfigAssumption DEF ApplyGrantScope, AsReply, Decision, Reply
  <2>4. said' \subseteq Instance \X Request \X Outcome
    BY <2>1, <2>2 DEF Says
  <2>5. QED BY <2>1, <2>2, <2>3, <2>4 DEF Says
<1>6. CASE Respond(i)
  <2>1. responses' \in [Request -> Response \cup {None}]
    <3>1. [by |-> i, state |-> decision[i]] \in Response
      BY DEF Response
    <3>2. QED BY <1>6, <3>1 DEF Respond
  <2>2. decision' \in [Instance -> Reply]
    BY <1>6 DEF Respond, Reply
  <2>3. QED BY <1>6, <2>1, <2>2 DEF Respond
<1>7. CASE DeleteServed(i)
  BY <1>7 DEF DeleteServed, DeleteFile
<1>8. CASE Drained(i)
  BY <1>8 DEF Drained, RemoveRequests, RemoveIfEmpty
<1>9. CASE SweepServed(i)
  BY <1>9 DEF SweepServed, RemoveResponses, RemoveIfEmpty
<1>10. CASE OpenDialog(i)
  BY <1>10 DEF OpenDialog
<1>11. QED
  BY <1>1, <1>2, <1>3, <1>4, <1>5, <1>6, <1>7, <1>8, <1>9, <1>10 DEF Serves, Settles

LEMMA NextTyped == TypeOK /\ ServingOK /\ [Next]_vars => TypeOK' /\ ServingOK'
<1> SUFFICES ASSUME TypeOK, ServingOK, [Next]_vars PROVE TypeOK' /\ ServingOK'
  OBVIOUS
<1>1. CASE \E r \in Request : Asks(r)
  BY <1>1, ChildTyped DEF Next, vars
<1>2. CASE \E i \in Instance : Serves(i)
  BY <1>2, ServerTyped DEF Next, vars
<1>3. CASE Restart
  BY <1>3, BoundAssumption DEF Next, vars, Restart, TypeOK, ServingOK, Busy, Instance, askers, files
<1>4. CASE UNCHANGED vars
  BY <1>4 DEF vars, askers, files, servers, TypeOK, ServingOK, Busy
<1>5. QED BY <1>1, <1>2, <1>3, <1>4 DEF Next

(***************************************************************************)
(* Every variable keeps its type, for any number of asks and instances.    *)
(***************************************************************************)
THEOREM TypeCorrect == Spec => []TypeOK
<1>1. QED BY InitTyped, NextTyped, PTL DEF Spec

-----------------------------------------------------------------------------
\* What is traced stays traced: said and active only grow.
LEMMA TracesGrow ==
  ASSUME said \subseteq said', active <= active', active \in Instance, active' \in Instance,
         NEW r, NEW v, v.by \in Instance, Traced(r, v)
  PROVE  Traced(r, v)'
BY BoundAssumption DEF Traced, GrantedTo, DeniedTo, Instance

LEMMA SaidGrows ==
  ASSUME TypeOK, [Next]_vars
  PROVE  said \subseteq said' /\ active <= active' /\ active' \in Instance
<1> USE DEF TypeOK, Instance, servers
<1>1. CASE \E r \in Request : Asks(r)
  BY <1>1, BoundAssumption DEF Asks, Prepare, WriteRequest, ReadResponse, TimeOut,
     DeleteRequest,
     SweepResponses
<1>2. CASE \E i \in Instance : Serves(i)
  BY <1>2, BoundAssumption DEF Serves, List, PrepareResponses, ReadRequest, SkipRequest,
     LinkDecides, OpenDialog, Answer, EscalationFails, Says,
     Respond, DeleteServed, Drained, SweepServed
<1>3. CASE Restart
  BY <1>3, BoundAssumption DEF Restart
<1>4. CASE UNCHANGED vars
  BY <1>4, BoundAssumption DEF vars
<1>5. QED BY <1>1, <1>2, <1>3, <1>4 DEF Next

\* The session rules change when a dialog is answered and when a session ends.
LEMMA RulesStayTraced ==
  ASSUME TypeOK, ServingOK, RulesTraced, [Next]_vars
  PROVE  RulesTraced'
<1>1. said \subseteq said'
  BY SaidGrows
<1>2. CASE UNCHANGED rules
  BY <1>1, <1>2 DEF RulesTraced
<1>3. CASE Restart
  BY <1>1, <1>3 DEF Restart, RulesTraced, TypeOK
<1>4. ASSUME NEW i \in Instance, Settles(i) PROVE RulesTraced'
  <2>1. PICK d \in Decision, o \in Outcome : /\ ApplyGrantScope(i, d) /\ Says(i, o)
                                             /\ (o = d \/ (o = "failed" /\ d = "denied"))
    BY <1>4, SettlesBy
  <2>2. serving[i] \in Request
    BY <1>4 DEF Settles, LinkDecides, Answer, EscalationFails, ServingOK, Busy, Asking
  <2>3. SUFFICES ASSUME NEW j \in Instance, NEW x \in rules'[j]
                 PROVE  \E q \in Request : PatternOf[q] = x
                          /\ <<j, q, "approved_for_serving_session">> \in said'
    BY DEF RulesTraced
  <2>4. CASE x \in rules[j]
    BY <1>1, <2>4 DEF RulesTraced
  <2>5. CASE x \notin rules[j]
    <3>1. j = i /\ d = "approved_for_serving_session" /\ x = PatternOf[serving[i]]
      BY <2>1, <2>5 DEF ApplyGrantScope, TypeOK
    <3>2. QED BY <2>1, <2>2, <3>1 DEF Says
  <2>6. QED BY <2>4, <2>5
<1>5. CASE \E r \in Request : Asks(r)
  BY <1>2, <1>5 DEF Asks, Prepare, WriteRequest, ReadResponse, TimeOut, DeleteRequest,
     SweepResponses, servers
<1>6. CASE \E i \in Instance : Serves(i) /\ ~Settles(i)
  BY <1>2, <1>6 DEF Serves, Settles, List, PrepareResponses, ReadRequest, SkipRequest,
     OpenDialog,
     Respond, DeleteServed, Drained, SweepServed
<1>7. CASE UNCHANGED vars
  BY <1>2, <1>7 DEF vars, servers
<1>8. QED BY <1>3, <1>4, <1>5, <1>6, <1>7 DEF Next

\* A decision is made by the rules, by the dialog or for want of a dialog.
LEMMA DecisionsTraced ==
  ASSUME TypeOK, ServingOK, RulesTraced, DecisionTraced, [Next]_vars
  PROVE  DecisionTraced'
<1>1. said \subseteq said' /\ active <= active' /\ active \in Instance /\ active' \in Instance
  BY SaidGrows DEF TypeOK
<1>2. SUFFICES ASSUME NEW j \in Instance, server'[j] = "responding"
               PROVE  Traced(serving[j], Written(j))'
  BY DEF DecisionTraced
<1>3. CASE server[j] = "responding" /\ serving'[j] = serving[j] /\ decision'[j] = decision[j]
  <2>1. Traced(serving[j], Written(j)) /\ Written(j).by \in Instance
    BY <1>3 DEF DecisionTraced, Written
  <2>2. Traced(serving[j], Written(j))' <=> 
          IF Written(j).state = "denied" THEN DeniedTo(serving[j], Written(j))'
                                         ELSE GrantedTo(serving[j], Written(j))'
    BY <1>3 DEF Traced, Written
  <2>3. QED BY <1>1, <1>3, <2>1, BoundAssumption
            DEF Traced, Written, GrantedTo, DeniedTo, Instance
<1>4. CASE Settles(j)
  <2>1. PICK d \in Decision, o \in Outcome : /\ ApplyGrantScope(j, d) /\ Says(j, o)
                                             /\ (o = d \/ (o = "failed" /\ d = "denied"))
    BY <1>4, SettlesBy
  <2>2. /\ decision'[j] = AsReply(d) /\ serving'[j] = serving[j]
        /\ <<j, serving[j], o>> \in said'
    BY <2>1 DEF ApplyGrantScope, Says, TypeOK
  <2>3. QED BY <2>1, <2>2 DEF Traced, Written, GrantedTo, DeniedTo, AsReply, Decision, Reply
<1>5. ASSUME NEW r \in Request, ReadRequest(j, r) PROVE Traced(serving[j], Written(j))'
  <2>1. serving'[j] = r /\ j <= active /\ UNCHANGED <<said, active, rules>>
    BY <1>5 DEF ReadRequest, ServingOK, TypeOK
  <2>2. \/ Resolved(j, r) = "allow" /\ decision'[j] = "approved"
        \/ Resolved(j, r) = "deny" /\ decision'[j] = "denied"
        \/ j # active /\ decision'[j] = "denied"
    BY <1>2, <1>5 DEF ReadRequest, Decide, ServerGoes, TypeOK
  <2>3. CASE decision'[j] = "approved" /\ Resolved(j, r) = "allow"
    <3>1. CASE PatternOf[r] \in rules[j]
      BY <2>1, <2>3, <3>1 DEF RulesTraced, Traced, Written, GrantedTo
    <3>2. CASE Config[r] = "allow"
      BY <2>1, <2>3, <3>2 DEF Traced, Written, GrantedTo
    <3>3. QED BY <2>3, <3>1, <3>2 DEF Resolved
  <2>4. CASE decision'[j] = "denied" /\ (j # active \/ Resolved(j, r) = "deny")
    <3>1. j < active \/ Config[r] = "deny"
      BY <2>1, <2>4, BoundAssumption DEF Resolved, Instance, TypeOK
    <3>2. QED BY <2>1, <2>4, <3>1 DEF Traced, Written, DeniedTo
  <2>5. QED BY <2>2, <2>3, <2>4
<1>6. CASE \E r \in Request : Asks(r)
  BY <1>2, <1>3, <1>6 DEF Asks, Prepare, WriteRequest, ReadResponse, TimeOut, DeleteRequest,
     SweepResponses, servers
<1>7. CASE Restart \/ UNCHANGED vars
  BY <1>2, <1>3, <1>7 DEF Restart, vars, servers
<1>8. ASSUME NEW i \in Instance, Serves(i) PROVE Traced(serving[j], Written(j))'
  <2>1. CASE i = j
    BY <1>2, <1>4, <1>5, <1>8, <2>1 DEF Serves, Settles, OpenDialog, List, PrepareResponses,
       SkipRequest, Respond,
       DeleteServed, Drained, SweepServed, ServerGoes, TypeOK
  <2>2. CASE i # j
    BY <1>2, <1>3, <1>8, <2>2 DEF Serves, List, PrepareResponses, ReadRequest, Decide,
       SkipRequest, LinkDecides, OpenDialog, Answer, EscalationFails, Says, ApplyGrantScope,
       Respond, DeleteServed, Drained, SweepServed, ServerGoes, TypeOK
  <2>3. QED BY <2>1, <2>2
<1>9. QED BY <1>6, <1>7, <1>8 DEF Next

\* A response is a decision that was traced, a verdict a response.
LEMMA AnswersStayTraced ==
  ASSUME TypeOK, ServingOK, DecisionTraced, AnswersTraced, [Next]_vars
  PROVE  AnswersTraced'
<1>1. said \subseteq said' /\ active <= active' /\ active \in Instance /\ active' \in Instance
  BY SaidGrows DEF TypeOK
<1>2. TypeOK' /\ ServingOK'
  BY NextTyped
<1>3. ASSUME NEW r \in Request, responses'[r] # None PROVE Traced(r, responses[r])'
  <2>1. CASE responses'[r] = responses[r]
    <3>1. responses[r].by \in Instance /\ Traced(r, responses[r])
      BY <1>3, <2>1, NoneAssumption DEF AnswersTraced, Traced, TypeOK, Response
    <3>2. QED BY <1>1, <2>1, <3>1, BoundAssumption
              DEF Traced, GrantedTo, DeniedTo, Instance
  <2>2. CASE responses'[r] # responses[r]
    <3>1. PICK i \in Instance : Respond(i)
      BY <1>3, <2>2 DEF Next, Asks, Prepare, WriteRequest, ReadResponse, TimeOut, DeleteRequest,
         SweepResponses, servers, files, Serves, List, PrepareResponses, ReadRequest,
         SkipRequest, LinkDecides, OpenDialog, Answer, EscalationFails, Says, DeleteServed,
            Drained, SweepServed, Restart, vars, TypeOK
    <3>2. serving[i] = r /\ responses'[r] = Written(i) /\ UNCHANGED <<said, active>>
      BY <2>2, <3>1 DEF Respond, Written, TypeOK
    <3>3. Traced(r, Written(i))
      BY <3>1, <3>2 DEF DecisionTraced, Respond
    <3>4. QED BY <3>2, <3>3 DEF Traced, GrantedTo, DeniedTo
  <2>3. QED BY <2>1, <2>2
<1>4. ASSUME NEW r \in Request, verdict'[r].state # "denied" PROVE GrantedTo(r, verdict[r])'
  <2>1. CASE verdict'[r] = verdict[r]
    BY <1>1, <1>4, <2>1 DEF AnswersTraced, GrantedTo
  <2>2. CASE verdict'[r] # verdict[r]
    <3>1. ReadResponse(r) /\ verdict'[r] = responses[r]
      <4>1. PICK q \in Request : Asks(q)
        BY <2>2 DEF Next, Serves, List, PrepareResponses, ReadRequest, SkipRequest,
           LinkDecides, OpenDialog, Answer, EscalationFails, Says,
           Respond, DeleteServed, Drained, SweepServed, Restart, vars, askers
      <4>2. verdict'[r] # Denied
        BY <1>4 DEF Denied
      <4>3. QED BY <2>2, <4>1, <4>2 DEF Asks, Prepare, WriteRequest, ReadResponse, TimeOut,
                   DeleteRequest, SweepResponses, Deny, TypeOK
    <3>2. GrantedTo(r, responses[r]) /\ UNCHANGED said
      BY <1>4, <3>1 DEF ReadResponse, AnswersTraced, servers
    <3>3. QED BY <3>1, <3>2 DEF GrantedTo
  <2>3. QED BY <2>1, <2>2
<1>5. QED BY <1>3, <1>4 DEF AnswersTraced, Traced

(***************************************************************************)
(* Every response and every verdict that lets a child go ahead goes back   *)
(* to the human or to the rules.                                           *)
(***************************************************************************)
THEOREM TracedAnswers == Spec => []AnswersTraced
<1>1. Init => IInv
  BY InitTyped DEF Init, IInv, RulesTraced, DecisionTraced, AnswersTraced, Denied
<1>2. IInv /\ [Next]_vars => IInv'
  BY NextTyped, RulesStayTraced, DecisionsTraced, AnswersStayTraced DEF IInv
<1>3. IInv => AnswersTraced
  BY DEF IInv
<1>4. QED BY <1>1, <1>2, <1>3, PTL DEF Spec

-----------------------------------------------------------------------------
(* The files of a request, on the side of its child and of its servers.    *)

Returning == {"deleting", "sweeping", "done"}

OnDisk == \A r \in requests : child[r] \in {"waiting", "deleting"} \/ r \in stuck

\* A request is deleted by a server after its response was written, which
\* nobody but its child takes away.
DeletedIsAnswered ==
  \A i \in Instance : server[i] = "deleting" =>
    responses[serving[i]] # None \/ child[serving[i]] \in Returning

Kept == OnDisk /\ DeletedIsAnswered /\ NeverStranded

LEMMA ChildKeeps ==
  ASSUME TypeOK, ServingOK, Kept, NEW r \in Request, Asks(r)
  PROVE  Kept'
<1> USE DEF Kept, OnDisk, DeletedIsAnswered, NeverStranded, ChildGoes, servers, TypeOK
<1>1. /\ UNCHANGED <<server, serving, unread>>
      /\ \A i \in Instance : server[i] = "deleting" => serving[i] \in Request
  BY DEF Asks, Prepare, WriteRequest, ReadResponse, TimeOut, DeleteRequest, SweepResponses,
     files,
         ServingOK, Busy
<1>2. CASE Prepare(r) \/ WriteRequest(r)
  BY <1>1, <1>2 DEF Prepare, WriteRequest, Deny, Returning
<1>3. CASE ReadResponse(r) \/ TimeOut(r)
  BY <1>1, <1>3 DEF ReadResponse, TimeOut, files, Returning
<1>4. CASE DeleteRequest(r) \/ SweepResponses(r)
  BY <1>1, <1>4 DEF DeleteRequest, DeleteFile, SweepResponses, Returning
<1> QED
  BY <1>2, <1>3, <1>4 DEF Asks

LEMMA ServerKeeps ==
  ASSUME TypeOK, ServingOK, Kept, NEW i \in Instance, Serves(i)
  PROVE  Kept'
<1> USE DEF Kept, ServerGoes, TypeOK
<1>1. UNCHANGED <<child, stuck>> /\ requests' \subseteq requests
  BY DEF DeleteFile, Serves, List, PrepareResponses, ReadRequest, SkipRequest, LinkDecides,
     OpenDialog, Answer, EscalationFails, Says, Respond, DeleteServed,
         Drained, SweepServed, askers, files
<1>2. OnDisk'
  BY <1>1 DEF OnDisk
<1>3. \A r \in Request : responses[r] # None => responses'[r] # None
  <2>1. [by |-> i, state |-> decision[i]] \in Response
    BY DEF Response
  <2>2. CASE Respond(i)
    BY <2>1, <2>2, NoneIsNoResponse DEF Respond
  <2>3. CASE ~Respond(i)
    BY <2>3 DEF Serves, List, PrepareResponses, ReadRequest, SkipRequest, LinkDecides,
       OpenDialog, Answer, EscalationFails, Says, DeleteServed,
         Drained, SweepServed, files
  <2> QED
    BY <2>2, <2>3
<1>4. DeletedIsAnswered'
  <2>1. SUFFICES ASSUME NEW j \in Instance, server'[j] = "deleting"
                 PROVE  responses'[serving'[j]] # None \/ child'[serving'[j]] \in Returning
    BY DEF DeletedIsAnswered
  <2>2. CASE Respond(i) /\ j = i
    <3>1. serving'[i] = serving[i] /\ serving[i] \in Request
          /\ responses'[serving[i]] = [by |-> i, state |-> decision[i]]
      BY <2>1, <2>2 DEF Respond, ServingOK, Busy
    <3>2. [by |-> i, state |-> decision[i]] \in Response
      BY DEF Response
    <3> QED
      BY <2>2, <3>1, <3>2, NoneIsNoResponse
  <2>3. CASE ~(Respond(i) /\ j = i)
    <3>1. server[j] = "deleting" /\ serving'[j] = serving[j]
      BY <2>1, <2>3 DEF Serves, List, PrepareResponses, ReadRequest, Decide, SkipRequest,
         LinkDecides, OpenDialog, Answer, EscalationFails, Says,
                        Respond, DeleteServed, Drained, SweepServed
    <3>2. serving[j] \in Request
      BY <3>1 DEF ServingOK, Busy
    <3> QED
      BY <1>1, <1>3, <3>1, <3>2 DEF DeletedIsAnswered
  <2> QED
    BY <2>2, <2>3
<1>5. NeverStranded'
  <2>1. SUFFICES ASSUME NEW r \in Request, child[r] = "waiting", r \in requests, r \notin requests'
                 PROVE  responses'[r] # None \/ r \in unread'
    <3>1. unread \subseteq unread'
      BY DEF Serves, List, PrepareResponses, ReadRequest, SkipRequest, LinkDecides,
         OpenDialog, Answer, EscalationFails, Says, Respond, DeleteServed,
             Drained, SweepServed
    <3> QED
      BY <1>1, <1>3, <3>1 DEF NeverStranded
  <2>2. (\E q \in Request : SkipRequest(i, q)) \/ DeleteServed(i)
    BY <2>1 DEF Serves, List, PrepareResponses, ReadRequest, LinkDecides, OpenDialog,
       Answer, EscalationFails, Says, Respond, Drained, SweepServed, files
  <2>3. CASE \E q \in Request : SkipRequest(i, q)
    BY <2>1, <2>3 DEF SkipRequest
  <2>4. CASE DeleteServed(i)
    <3>1. r = serving[i]
      BY <2>1, <2>4 DEF DeleteServed, DeleteFile
    <3>2. responses[r] # None \/ child[r] \in Returning
      BY <2>4, <3>1 DEF DeleteServed, DeletedIsAnswered
    <3> QED
      BY <1>3, <2>1, <3>2 DEF Returning
  <2> QED
    BY <2>2, <2>3, <2>4
<1> QED
  BY <1>2, <1>4, <1>5

LEMMA KeptInvariance == Spec => [](TypeOK /\ ServingOK /\ Kept)
<1>1. Init => TypeOK /\ ServingOK /\ Kept
  BY InitTyped DEF Init, Kept, OnDisk, DeletedIsAnswered, NeverStranded
<1>2. TypeOK /\ ServingOK /\ Kept /\ [Next]_vars => (TypeOK /\ ServingOK /\ Kept)'
  <2>1. SUFFICES ASSUME TypeOK, ServingOK, Kept, [Next]_vars PROVE Kept'
    BY NextTyped
  <2>2. CASE Restart \/ UNCHANGED vars
    <3>1. UNCHANGED <<child, stuck, requests, responses, server, serving, unread>>
      BY <2>2 DEF Restart, vars, askers, files, servers
    <3> QED
      BY <2>1, <3>1 DEF Kept, OnDisk, DeletedIsAnswered, NeverStranded
  <2> QED
    BY <2>1, <2>2, ChildKeeps, ServerKeeps DEF Next
<1> QED
  BY <1>1, <1>2, PTL DEF Spec

(***************************************************************************)
(* A child that waits has its request on disk or its response, unless its  *)
(* request could not be read: no failed write, cleanup, restart or second  *)
(* server takes away both.                                                 *)
(***************************************************************************)
THEOREM RequestsAreAnswered == Spec => []NeverStranded
<1>1. Kept => NeverStranded
  BY DEF Kept
<1> QED
  BY <1>1, KeptInvariance, PTL

(***************************************************************************)
(* A request is taken up only while its child waits, or has not removed it *)
(* yet, or failed to: a file that was listed is read when its turn comes,  *)
(* and a child that returns takes it away.                                 *)
(***************************************************************************)
THEOREM AwaitedOnly == Spec => OnlyAwaited
<1>1. ASSUME TypeOK, Kept, [Next]_vars, NEW i \in Instance, NEW r \in Request, TakesUp(i, r)
      PROVE  child[r] \in {"waiting", "deleting"} \/ r \in stuck
  <2>1. serving'[i] = r /\ serving[i] # r /\ r # None
    BY <1>1, NoneAssumption DEF TakesUp
  <2>2. \E q \in Request : ReadRequest(i, q)
    <3>1. CASE (\E q \in Request : Asks(q)) \/ Restart \/ UNCHANGED vars
      <4>1. UNCHANGED serving
        BY <3>1 DEF Asks, Prepare, WriteRequest, ReadResponse, TimeOut, DeleteRequest,
                    SweepResponses, servers, Restart, vars
      <4> QED
        BY <2>1, <4>1
    <3>2. ASSUME NEW j \in Instance, Serves(j) PROVE \E q \in Request : ReadRequest(i, q)
      <4>1. CASE \E q \in Request : ReadRequest(j, q)
        BY <1>1, <2>1, <4>1 DEF ReadRequest, TypeOK
      <4>2. CASE Respond(j) \/ DeleteServed(j)
        BY <1>1, <2>1, <4>2 DEF Respond, DeleteServed, TypeOK
      <4>3. CASE UNCHANGED serving
        BY <2>1, <4>3
      <4> QED
        BY <3>2, <4>1, <4>2, <4>3 DEF Serves, List, PrepareResponses, SkipRequest, LinkDecides,
           OpenDialog, Answer, EscalationFails, Says, Drained, SweepServed
    <3> QED
      BY <1>1, <3>1, <3>2 DEF Next
  <2>3. r \in requests
    BY <1>1, <2>1, <2>2 DEF ReadRequest, TypeOK
  <2> QED
    BY <1>1, <2>3 DEF Kept, OnDisk
<1>2. TypeOK /\ Kept /\ [Next]_vars =>
        [\A i \in Instance, r \in Request :
           TakesUp(i, r) => child[r] \in {"waiting", "deleting"} \/ r \in stuck]_vars
  BY <1>1
<1> QED
  BY <1>2, KeptInvariance, PTL DEF OnlyAwaited, Spec
=============================================================================
