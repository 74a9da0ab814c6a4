----------------------------- MODULE IngestProofs -----------------------------
(***************************************************************************)
(* Theorems about the ingestion for every value of its constants.  First   *)
(* those about EventProcessor: types, deduplication, identity.  Then those *)
(* about EventsController, which implements the processor, so that what is *)
(* proved of the processor holds behind the controller too.                *)
(***************************************************************************)
EXTENDS EventsController, FiniteSetTheorems, TLAPS


\* The steps at which a call holds the lead it found or created.
LeadSteps == {"updateLead", "findLink", "updateLink", "createLink"}

\* What a call knows at each await.
CallOK(c) ==
    /\ pc[c] \in TrackSteps => IsTrack(c)
    /\ pc[c] \in IdentifySteps => ~IsTrack(c)
    /\ pc[c] \in {"getLinkedLead", "createEvent"} => SessionFor(c) \in SessionIds
    /\ pc[c] \in LeadSteps => leadOf[c] \in Calls /\ lead[leadOf[c]] # NULL

TypeInv == TypeOK /\ \A c \in Calls : CallOK(c)

\* What is assumed of the constants.
LEMMA Assumptions ==
    /\ Requests \subseteq TrackRequests \cup IdentifyRequests
    /\ NULL \notin Calls \cup Workspaces \cup SessionIds \cup EventIds
    /\ NULL \notin Emails \cup Phones \cup Times
    /\ NULL \notin Requests \cup SessionRows \cup LeadRows \cup EventRows
    /\ NULL \notin Accepted \cup Rejected
    /\ SESSION_TIMEOUT \in Nat /\ MaxTime \in Nat /\ MaxFaults \in Nat
BY RequestsAssumption, NullAssumption, BoundsAssumption

\* A call that is under way has a request, with the fields of its kind.
LEMMA RequestFields ==
    ASSUME TypeOK, NEW c \in Calls, pc[c] # "idle"
    PROVE  /\ request[c] \in TrackRequests \cup IdentifyRequests
           /\ request[c].workspace \in Workspaces
           /\ request[c].anonymousId \in AnonymousIds
           /\ IsTrack(c) => /\ request[c].eventId \in EventIds \cup {NULL}
                            /\ request[c].sessionId \in SessionIds \cup {NULL}
           /\ ~IsTrack(c) => /\ request[c].email \in Emails \cup {NULL}
                             /\ request[c].phone \in Phones \cup {NULL}
<1>1. request[c] \in Requests
  BY DEF TypeOK, ControlOK
<1>2. request[c] \in TrackRequests \cup IdentifyRequests
  BY <1>1, Assumptions
<1>3. CASE request[c] \in TrackRequests
  BY <1>3 DEF TrackRequests, IsTrack
<1>4. CASE request[c] \in IdentifyRequests
  BY <1>4 DEF IdentifyRequests, IsTrack
<1> QED
  BY <1>2, <1>3, <1>4

\* The inductive invariant holds in the empty tables, before any call.
LEMMA InitTypeInv == Init => TypeInv
BY Assumptions DEF Init, TypeInv, TypeOK, TablesOK, ControlOK, LocalsOK, CallOK, Times, LinkKeys,
   Steps, TrackSteps, IdentifySteps, CommonSteps, LeadSteps, Returned

\* A step moves call c to one of the places S, and no other call.
Moves(c, S) ==
    /\ ControlOK'
    /\ pc'[c] \in S
    /\ \A d \in Calls : d # c => pc'[d] = pc[d]

\* The control of a call that goes on, and of one that returns.
LEMMA GotoControl ==
    ASSUME ControlOK, NEW c \in Calls, NEW step \in Steps, InFlight(c),
           Goto(c, step), UNCHANGED request
    PROVE  Moves(c, {step})
<1>1. step \notin {"idle", "done"} /\ pc[c] \notin {"idle", "done"}
  BY DEF InFlight, Steps, TrackSteps, IdentifySteps, CommonSteps
<1> QED
  BY <1>1 DEF Moves, ControlOK, Goto, Returned

\* A call that answers is done and has its reply; the others stay.
LEMMA ReturnControl ==
    ASSUME ControlOK, NEW c \in Calls, NEW r \in Accepted \cup Rejected, InFlight(c),
           Return(c, r), UNCHANGED request
    PROVE  Moves(c, {"done"})
<1>1. pc[c] \notin {"idle", "done"}
  BY DEF InFlight, Steps, TrackSteps, IdentifySteps, CommonSteps
<1>2. r # NULL
  BY Assumptions
<1> QED
  BY <1>1, <1>2 DEF Moves, ControlOK, Return, Returned

\* The same of a call whose exception the catch block answers.
LEMMA CatchControl ==
    ASSUME ControlOK, NEW c \in Calls, NEW error \in {"unique", "foreignKey", "database"},
           InFlight(c), Catch(c, error), UNCHANGED request
    PROVE  Moves(c, {"done"})
<1>1. [ok |-> FALSE, why |-> error] \in Rejected
  BY DEF Rejected
<1> QED
  BY <1>1, ReturnControl DEF Catch

\* A step of one call leaves what the other calls know.
LEMMA OtherCalls ==
    ASSUME \A d \in Calls : CallOK(d), NEW c \in Calls, LocalsOK,
           \A d \in Calls : d # c => /\ pc'[d] = pc[d]
                                     /\ sessionOf'[d] = sessionOf[d]
                                     /\ leadOf'[d] = leadOf[d],
           UNCHANGED request,
           \A l \in Calls : lead[l] # NULL => lead'[l] # NULL
    PROVE  \A d \in Calls : d # c => CallOK(d)'
BY DEF CallOK, IsTrack, SessionFor, LocalsOK

\* Where a call goes once its visitor is known, and what it knows there.
LEMMA AfterVisitorStep ==
    ASSUME TypeInv, NEW c \in Calls, pc[c] # "idle"
    PROVE  /\ IsTrack(c) => AfterVisitor(c) \in {"findSession", "getLinkedLead"}
           /\ ~IsTrack(c) => AfterVisitor(c) \in {"findLead", "createLead"}
           /\ AfterVisitor(c) \in Steps \ (LeadSteps \cup {"createEvent"})
           /\ AfterVisitor(c) = "getLinkedLead" => SessionFor(c) \in SessionIds
BY RequestFields DEF AfterVisitor, SessionFor, TypeInv, Steps, TrackSteps, IdentifySteps, LeadSteps

\* Every step of processTrackEvent and processIdentifyEvent keeps it.
LEMMA NextTypeInv == TypeInv /\ [Next]_vars => TypeInv'
<1> SUFFICES ASSUME TypeInv, [Next]_vars PROVE TypeInv'
  OBVIOUS
<1> USE DEF TypeInv, TypeOK, tables, locals
<1>1. ASSUME NEW c \in Calls, NEW r \in Requests, Begin(c, r) PROVE TypeInv'
  <2>1. TablesOK'
    BY <1>1 DEF Begin, TablesOK
  <2>2. ControlOK'
    BY <1>1, Assumptions DEF Begin, ControlOK, FirstStep, Goto, At, Returned, Steps, TrackSteps, CommonSteps
  <2>3. LocalsOK'
    BY <1>1 DEF Begin, LocalsOK
  <2>4. ASSUME NEW d \in Calls PROVE CallOK(d)'
    <3>1. CASE d = c
      BY <1>1, <3>1 DEF Begin, CallOK, ControlOK, FirstStep, Goto, IsTrack, TrackSteps, IdentifySteps, LeadSteps
    <3>2. CASE d # c
      BY <1>1, <3>2 DEF Begin, CallOK, Goto, IsTrack, SessionFor, ControlOK
    <3> QED
      BY <3>1, <3>2
  <2> QED
    BY <2>1, <2>2, <2>3, <2>4
<1>2. ASSUME NEW c \in Calls, CheckDuplicate(c) PROVE TypeInv'
  <2>1. TablesOK' /\ LocalsOK' /\ UNCHANGED <<request, lead, sessionOf, leadOf>>
    BY <1>2 DEF CheckDuplicate, TablesOK, LocalsOK
  <2>2. InFlight(c)
    BY <1>2 DEF CheckDuplicate, InFlight, At, Steps, TrackSteps
  <2>3. Moves(c, {"done", "findVisitor"})
    <3>1. ASSUME NEW d \in Duplicates(c),
                 Return(c, [ok |-> TRUE, duplicate |-> TRUE, id |-> d, lead |-> NULL])
          PROVE Moves(c, {"done", "findVisitor"})
      <4>1. [ok |-> TRUE, duplicate |-> TRUE, id |-> d, lead |-> NULL] \in Accepted
        BY DEF Duplicates, Accepted
      <4> QED
        BY <2>1, <2>2, <3>1, <4>1, ReturnControl DEF Moves
    <3>2. CASE Goto(c, "findVisitor")
      BY <2>1, <2>2, <3>2, GotoControl DEF Moves, Steps, CommonSteps
    <3> QED
      BY <1>2, <3>1, <3>2 DEF CheckDuplicate
  <2>4. CallOK(c)'
    BY <2>3 DEF Moves, CallOK, TrackSteps, IdentifySteps, LeadSteps
  <2> QED
    BY <2>1, <2>3, <2>4, OtherCalls DEF Moves
<1>3. ASSUME NEW c \in Calls, FindVisitor(c) PROVE TypeInv'
  <2>1. TablesOK' /\ LocalsOK' /\ UNCHANGED <<request, lead, sessionOf, leadOf>>
    BY <1>3 DEF FindVisitor, TablesOK, LocalsOK
  <2>2. InFlight(c) /\ pc[c] # "idle"
    BY <1>3 DEF FindVisitor, InFlight, At, Steps, CommonSteps
  <2>3. Moves(c, {"createVisitor", AfterVisitor(c)})
    BY <1>3, <2>1, <2>2, GotoControl, AfterVisitorStep DEF FindVisitor, Moves, Steps, CommonSteps
  <2>4. CallOK(c)'
    BY <2>1, <2>2, <2>3, AfterVisitorStep
       DEF Moves, CallOK, TrackSteps, IdentifySteps, LeadSteps, IsTrack, SessionFor
  <2> QED
    BY <2>1, <2>3, <2>4, OtherCalls DEF Moves
<1>4. ASSUME NEW c \in Calls, CreateVisitor(c) PROVE TypeInv'
  <2>1. LocalsOK' /\ UNCHANGED <<request, lead, sessionOf, leadOf>>
    BY <1>4 DEF CreateVisitor, LocalsOK
  <2>2. InFlight(c) /\ pc[c] # "idle"
    BY <1>4 DEF CreateVisitor, InFlight, At, Steps, CommonSteps
  <2>3. TablesOK'
    BY <1>4, <2>2, RequestFields DEF CreateVisitor, TablesOK
  <2>4. Moves(c, {"done", AfterVisitor(c)})
    BY <1>4, <2>1, <2>2, GotoControl, CatchControl, AfterVisitorStep DEF CreateVisitor, Moves
  <2>5. CallOK(c)'
    BY <2>1, <2>2, <2>4, AfterVisitorStep
       DEF Moves, CallOK, TrackSteps, IdentifySteps, LeadSteps, IsTrack, SessionFor
  <2> QED
    BY <2>1, <2>3, <2>4, <2>5, OtherCalls DEF Moves
<1>5. ASSUME NEW c \in Calls, FindSession(c) PROVE TypeInv'
  <2>1. TablesOK' /\ UNCHANGED <<request, lead, leadOf>>
    BY <1>5 DEF FindSession, TablesOK
  <2>2. InFlight(c)
    BY <1>5 DEF FindSession, InFlight, At, Steps, TrackSteps
  <2>3. LocalsOK' /\ \A d \in Calls : d # c => sessionOf'[d] = sessionOf[d]
    BY <1>5 DEF FindSession, LocalsOK, LatestSessions, ActiveSessions
  <2>4. Moves(c, {"getLinkedLead", "createSession"})
    BY <1>5, <2>1, <2>2, GotoControl DEF FindSession, Moves, Steps, TrackSteps
  <2>5. IsTrack(c) /\ request[c].sessionId \in SessionIds \cup {NULL}
    BY <1>5, <2>2, RequestFields DEF FindSession, At, CallOK, TrackSteps
  <2>6. pc'[c] = "getLinkedLead" => sessionOf'[c] \in SessionIds
    BY <1>5, <2>4 DEF FindSession, Goto, Moves, ControlOK, LocalsOK, LatestSessions, ActiveSessions
  <2>7. CallOK(c)'
    BY <2>1, <2>4, <2>5, <2>6 DEF Moves, CallOK, TrackSteps, IdentifySteps, LeadSteps, IsTrack, SessionFor
  <2> QED
    BY <2>1, <2>3, <2>4, <2>7, OtherCalls DEF Moves
<1>6. ASSUME NEW c \in Calls, CreateSession(c) PROVE TypeInv'
  <2>1. UNCHANGED <<request, lead, leadOf, now, faults, visitor, link, event, before>>
    BY <1>6 DEF CreateSession
  <2>2. InFlight(c) /\ pc[c] # "idle"
    BY <1>6 DEF CreateSession, InFlight, At, Steps, TrackSteps
  <2>3. LocalsOK' /\ \A d \in Calls : d # c => sessionOf'[d] = sessionOf[d]
    BY <1>6 DEF CreateSession, LocalsOK
  <2>4. NewSession(c) \in SessionRows /\ NewSession(c).startedAt = now
    BY <2>2, RequestFields DEF NewSession, SessionRows, TablesOK
  <2>5. TablesOK'
    BY <1>6, <2>1, <2>4 DEF CreateSession, TablesOK, Times
  <2>6. Moves(c, {"done", "getLinkedLead"})
    BY <1>6, <2>1, <2>2, GotoControl, CatchControl DEF CreateSession, Moves, Steps, TrackSteps
  <2>7. IsTrack(c) /\ request[c].sessionId \in SessionIds \cup {NULL}
    BY <1>6, <2>2, RequestFields DEF CreateSession, At, CallOK, TrackSteps
  <2>8. pc'[c] = "getLinkedLead" => sessionOf'[c] \in SessionIds
    BY <1>6, <2>6 DEF CreateSession, Catch, Return, Moves, ControlOK, LocalsOK
  <2>9. CallOK(c)'
    BY <2>1, <2>6, <2>7, <2>8 DEF Moves, CallOK, TrackSteps, IdentifySteps, LeadSteps, IsTrack, SessionFor
  <2> QED
    BY <2>1, <2>3, <2>5, <2>6, <2>9, OtherCalls DEF Moves
<1>7. ASSUME NEW c \in Calls, GetLinkedLead(c) PROVE TypeInv'
  <2>1. TablesOK' /\ UNCHANGED <<request, lead, sessionOf>>
    BY <1>7 DEF GetLinkedLead, TablesOK
  <2>2. InFlight(c)
    BY <1>7 DEF GetLinkedLead, InFlight, At, Steps, TrackSteps
  <2>3. LocalsOK' /\ \A d \in Calls : d # c => leadOf'[d] = leadOf[d]
    BY <1>7 DEF GetLinkedLead, LocalsOK, LatestLeads, LinkedLeads
  <2>4. Moves(c, {"createEvent"})
    BY <1>7, <2>1, <2>2, GotoControl DEF GetLinkedLead, Moves, Steps, TrackSteps
  <2>5. CallOK(c)'
    BY <1>7, <2>1, <2>4 DEF GetLinkedLead, At, Moves, CallOK, TrackSteps, IdentifySteps, LeadSteps, IsTrack, SessionFor
  <2> QED
    BY <2>1, <2>3, <2>4, <2>5, OtherCalls DEF Moves
<1>8. ASSUME NEW c \in Calls, CreateEvent(c) PROVE TypeInv'
  <2>1. LocalsOK' /\ UNCHANGED <<request, lead, sessionOf, leadOf>>
    BY <1>8 DEF CreateEvent, LocalsOK
  <2>2. InFlight(c) /\ pc[c] # "idle"
    BY <1>8 DEF CreateEvent, InFlight, At, Steps, TrackSteps
  <2>3. IsTrack(c) /\ SessionFor(c) \in SessionIds
    BY <1>8 DEF CreateEvent, At, CallOK, TrackSteps
  <2>4. NewEvent(c) \in EventRows
    BY <2>2, <2>3, RequestFields DEF NewEvent, EventRows, LocalsOK
  <2>5. TablesOK'
    BY <1>8, <2>4 DEF CreateEvent, TablesOK
  <2>6. Moves(c, {"done", "respond"})
    BY <1>8, <2>1, <2>2, GotoControl, CatchControl DEF CreateEvent, Moves, Steps, CommonSteps
  <2>7. CallOK(c)'
    BY <2>6 DEF Moves, CallOK, TrackSteps, IdentifySteps, LeadSteps
  <2> QED
    BY <2>1, <2>5, <2>6, <2>7, OtherCalls DEF Moves
<1>9. ASSUME NEW c \in Calls, FindLead(c) PROVE TypeInv'
  <2>1. TablesOK' /\ UNCHANGED <<request, lead, sessionOf>>
    BY <1>9 DEF FindLead, TablesOK
  <2>2. InFlight(c)
    BY <1>9 DEF FindLead, InFlight, At, Steps, IdentifySteps
  <2>3. /\ LocalsOK'
        /\ \A d \in Calls : d # c => leadOf'[d] = leadOf[d]
    BY <1>9 DEF FindLead, LocalsOK, MatchingLeads, LeadsByEmail, LeadsByPhone
  <2>4. Moves(c, {"updateLead", "createLead"})
    BY <1>9, <2>1, <2>2, GotoControl DEF FindLead, Moves, Steps, IdentifySteps
  <2>5. pc'[c] = "updateLead" => leadOf'[c] \in Calls /\ lead'[leadOf'[c]] # NULL
    BY <1>9, <2>1, <2>4
       DEF FindLead, Goto, Moves, ControlOK, LocalsOK, MatchingLeads, LeadsByEmail, LeadsByPhone
  <2>6. CallOK(c)'
    BY <1>9, <2>1, <2>4, <2>5 DEF FindLead, At, Moves, CallOK, TrackSteps, IdentifySteps, LeadSteps, IsTrack
  <2> QED
    BY <2>1, <2>3, <2>4, <2>6, OtherCalls DEF Moves
<1>10. ASSUME NEW c \in Calls, UpdateLead(c) PROVE TypeInv'
  <2>1. LocalsOK' /\ UNCHANGED <<now, faults, visitor, session, link, event, request, sessionOf, leadOf>>
    BY <1>10 DEF UpdateLead, LocalsOK
  <2>2. InFlight(c) /\ pc[c] # "idle"
    BY <1>10 DEF UpdateLead, InFlight, At, Steps, IdentifySteps
  <2>3. ~IsTrack(c) /\ leadOf[c] \in Calls /\ lead[leadOf[c]] # NULL
    BY <1>10 DEF UpdateLead, At, CallOK, IdentifySteps, LeadSteps
  <2>4. /\ lead' \in [Calls -> LeadRows \cup {NULL}]
        /\ \A l \in Calls : lead[l] # NULL => lead'[l] # NULL
    <3>1. CASE UpdatesPhone(c)
      <4> DEFINE row == [lead[leadOf[c]] EXCEPT !.phone = request[c].phone]
      <4>1. lead[leadOf[c]] \in LeadRows
        BY <2>3 DEF TablesOK
      <4>2. row \in LeadRows
        BY <2>2, <2>3, <4>1, RequestFields DEF LeadRows
      <4>3. lead' = [lead EXCEPT ![leadOf[c]] = row]
        BY <1>10, <3>1 DEF UpdateLead
      <4>4. row # NULL
        BY <4>2, Assumptions
      <4> HIDE DEF row
      <4> QED
        BY <2>3, <4>2, <4>3, <4>4 DEF TablesOK
    <3>2. CASE ~UpdatesPhone(c)
      BY <1>10, <3>2 DEF UpdateLead, TablesOK
    <3> QED
      BY <3>1, <3>2
  <2>5. TablesOK'
    BY <2>1, <2>4 DEF TablesOK
  <2>6. Moves(c, {"findLink"})
    BY <1>10, <2>1, <2>2, GotoControl DEF UpdateLead, Moves, Steps, IdentifySteps
  <2>7. CallOK(c)'
    BY <2>1, <2>3, <2>4, <2>6 DEF Moves, CallOK, TrackSteps, IdentifySteps, LeadSteps, IsTrack
  <2> QED
    BY <2>1, <2>4, <2>5, <2>6, <2>7, OtherCalls DEF Moves
<1>11. ASSUME NEW c \in Calls, CreateLead(c) PROVE TypeInv'
  <2>1. UNCHANGED <<now, faults, visitor, session, link, event, request, sessionOf, before>>
    BY <1>11 DEF CreateLead
  <2>2. InFlight(c) /\ pc[c] # "idle"
    BY <1>11 DEF CreateLead, InFlight, At, Steps, IdentifySteps
  <2>3. ~IsTrack(c)
    BY <1>11 DEF CreateLead, At, CallOK, IdentifySteps
  <2>4. NewLead(c) \in LeadRows /\ NewLead(c) # NULL
    BY <2>2, <2>3, RequestFields, Assumptions DEF NewLead, LeadRows
  <2>5. TablesOK' /\ lead'[c] # NULL /\ \A l \in Calls : lead[l] # NULL => lead'[l] # NULL
    BY <1>11, <2>1, <2>4 DEF CreateLead, TablesOK
  <2>6. LocalsOK' /\ leadOf'[c] = c /\ \A d \in Calls : d # c => leadOf'[d] = leadOf[d]
    BY <1>11, <2>1 DEF CreateLead, LocalsOK
  <2>7. Moves(c, {"findLink"})
    BY <1>11, <2>1, <2>2, GotoControl DEF CreateLead, Moves, Steps, IdentifySteps
  <2>8. CallOK(c)'
    BY <2>1, <2>3, <2>5, <2>6, <2>7 DEF Moves, CallOK, TrackSteps, IdentifySteps, LeadSteps, IsTrack
  <2> QED
    BY <2>1, <2>5, <2>6, <2>7, <2>8, OtherCalls DEF Moves
<1>12. ASSUME NEW c \in Calls, FindLink(c) PROVE TypeInv'
  <2>1. TablesOK' /\ LocalsOK' /\ UNCHANGED <<request, lead, sessionOf, leadOf>>
    BY <1>12 DEF FindLink, TablesOK, LocalsOK
  <2>2. InFlight(c)
    BY <1>12 DEF FindLink, InFlight, At, Steps, IdentifySteps
  <2>3. Moves(c, {"createLink", "updateLink"})
    BY <1>12, <2>1, <2>2, GotoControl DEF FindLink, Moves, Steps, IdentifySteps
  <2>4. CallOK(c)'
    BY <1>12, <2>1, <2>3 DEF FindLink, At, Moves, CallOK, TrackSteps, IdentifySteps, LeadSteps, IsTrack
  <2> QED
    BY <2>1, <2>3, <2>4, OtherCalls DEF Moves
<1>13. ASSUME NEW c \in Calls, UpdateLink(c) PROVE TypeInv'
  <2>1. LocalsOK' /\ UNCHANGED <<now, faults, visitor, session, lead, event, request, sessionOf, leadOf>>
    BY <1>13 DEF UpdateLink, LocalsOK
  <2>2. InFlight(c) /\ pc[c] # "idle"
    BY <1>13 DEF UpdateLink, InFlight, At, Steps, IdentifySteps
  <2>3. LinkKey(c) \in LinkKeys
    BY <1>13, <2>2, RequestFields DEF UpdateLink, At, CallOK, LeadSteps, LinkKey, LinkKeys
  <2>4. TablesOK'
    BY <1>13, <2>1, <2>3 DEF UpdateLink, TablesOK, Times
  <2>5. Moves(c, {"respond"})
    BY <1>13, <2>1, <2>2, GotoControl DEF UpdateLink, Moves, Steps, CommonSteps
  <2>6. CallOK(c)'
    BY <2>5 DEF Moves, CallOK, TrackSteps, IdentifySteps, LeadSteps
  <2> QED
    BY <2>1, <2>4, <2>5, <2>6, OtherCalls DEF Moves
<1>14. ASSUME NEW c \in Calls, CreateLink(c) PROVE TypeInv'
  <2>1. LocalsOK' /\ UNCHANGED <<now, faults, visitor, session, lead, event, request, sessionOf, leadOf>>
    BY <1>14 DEF CreateLink, LocalsOK
  <2>2. InFlight(c) /\ pc[c] # "idle"
    BY <1>14 DEF CreateLink, InFlight, At, Steps, IdentifySteps
  <2>3. LinkKey(c) \in LinkKeys
    BY <1>14, <2>2, RequestFields DEF CreateLink, At, CallOK, LeadSteps, LinkKey, LinkKeys
  <2>4. TablesOK'
    BY <1>14, <2>1, <2>3 DEF CreateLink, TablesOK, Times
  <2>5. Moves(c, {"done", "respond"})
    BY <1>14, <2>1, <2>2, GotoControl, CatchControl DEF CreateLink, Moves, Steps, CommonSteps
  <2>6. CallOK(c)'
    BY <2>5 DEF Moves, CallOK, TrackSteps, IdentifySteps, LeadSteps
  <2> QED
    BY <2>1, <2>4, <2>5, <2>6, OtherCalls DEF Moves
<1>15. ASSUME NEW c \in Calls, Respond(c) PROVE TypeInv'
  <2>1. TablesOK' /\ LocalsOK' /\ UNCHANGED <<request, lead, sessionOf, leadOf>>
    BY <1>15 DEF Respond, TablesOK, LocalsOK
  <2>2. InFlight(c)
    BY <1>15 DEF Respond, InFlight, At, Steps, CommonSteps
  <2>3. [ok |-> TRUE, duplicate |-> FALSE, id |-> IF IsTrack(c) THEN c ELSE NULL,
         lead |-> leadOf[c]] \in Accepted
    BY DEF Accepted, LocalsOK
  <2>4. Moves(c, {"done"})
    BY <1>15, <2>1, <2>2, <2>3, ReturnControl DEF Respond
  <2>5. CallOK(c)'
    BY <2>4 DEF Moves, CallOK, TrackSteps, IdentifySteps, LeadSteps
  <2> QED
    BY <2>1, <2>4, <2>5, OtherCalls DEF Moves
<1>16. ASSUME NEW c \in Calls, DatabaseError(c) PROVE TypeInv'
  <2>1. TablesOK' /\ LocalsOK' /\ UNCHANGED <<request, lead, sessionOf, leadOf>>
    BY <1>16, Assumptions DEF DatabaseError, TablesOK, LocalsOK
  <2>2. Moves(c, {"done"})
    BY <1>16, <2>1, CatchControl DEF DatabaseError
  <2>3. CallOK(c)'
    BY <2>2 DEF Moves, CallOK, TrackSteps, IdentifySteps, LeadSteps
  <2> QED
    BY <2>1, <2>2, <2>3, OtherCalls DEF Moves
<1>17. CASE Tick
  <2>1. TablesOK'
    BY <1>17, Assumptions DEF Tick, TablesOK, Times, SessionRows
  <2> QED
    BY <1>17, <2>1 DEF Tick, ControlOK, LocalsOK, CallOK, Returned, IsTrack, SessionFor
<1>18. CASE UNCHANGED vars
  BY <1>18 DEF vars, TablesOK, ControlOK, LocalsOK, CallOK, Returned, IsTrack, SessionFor
<1> QED
  BY <1>1, <1>2, <1>3, <1>4, <1>5, <1>6, <1>7, <1>8, <1>9, <1>10, <1>11, <1>12, <1>13, <1>14, <1>15, <1>16, <1>17, <1>18 DEF Next, Progress, AllReturned

\* Every reachable state of every instance is well typed.
THEOREM TypeCorrect == Spec => []TypeOK
<1>1. Init => TypeInv
  BY InitTypeInv
<1>2. TypeInv /\ [Next]_vars => TypeInv'
  BY NextTypeInv
<1>3. TypeInv => TypeOK
  BY DEF TypeInv
<1> QED
  BY <1>1, <1>2, <1>3, PTL DEF Spec

-----------------------------------------------------------------------------
(* Deduplication.                                                          *)

\* An event row is the row of its call: it exists once the insert is done.
EventOfCall(c) ==
    /\ event[c] # NULL =>
          /\ pc[c] \in {"respond", "done"}
          /\ IsTrack(c)
          /\ event[c].workspace = request[c].workspace
          /\ event[c].anonymousId = request[c].anonymousId
          /\ event[c].eventId = request[c].eventId
    /\ pc[c] = "respond" /\ IsTrack(c) => event[c] # NULL

\* An accepted submission names a row of its tenant that carries its id.
ReplyNamesEvent(c) ==
    Accepts(c) /\ IsTrack(c) =>
        /\ reply[c].id \in Calls
        /\ event[reply[c].id] # NULL
        /\ event[reply[c].id].eventId = request[c].eventId
        /\ TenantOf[event[reply[c].id].workspace] = TenantOf[request[c].workspace]

DedupInv ==
    /\ \A c \in Calls : EventOfCall(c) /\ ReplyNamesEvent(c)
    /\ UniqueClientEvent

\* Before any call there is no event and no reply to relate.
LEMMA InitDedupInv == Init => DedupInv
BY DEF Init, DedupInv, EventOfCall, ReplyNamesEvent, Accepts, Returned, UniqueClientEvent

\* A step that neither writes an event nor answers a track with success.
LEMMA QuietStep ==
    ASSUME TypeInv, DedupInv, NEW c \in Calls, InFlight(c), UNCHANGED <<event, request>>,
           \A d \in Calls : d # c => pc'[d] = pc[d] /\ reply'[d] = reply[d],
           IF pc'[c] = "done" THEN ~reply'[c].ok \/ ~IsTrack(c)
           ELSE /\ pc'[c] = "respond" => ~IsTrack(c)
                /\ pc[c] # "respond"
    PROVE  DedupInv'
<1>1. pc[c] \notin {"idle", "done"}
  BY DEF InFlight, Steps, TrackSteps, IdentifySteps, CommonSteps
<1>2. UniqueClientEvent'
  BY DEF DedupInv, UniqueClientEvent
<1>3. ASSUME NEW d \in Calls PROVE EventOfCall(d)'
  BY <1>1 DEF DedupInv, EventOfCall, IsTrack
<1>4. ASSUME NEW d \in Calls PROVE ReplyNamesEvent(d)'
  BY DEF DedupInv, ReplyNamesEvent, Accepts, Returned, IsTrack
<1> QED
  BY <1>2, <1>3, <1>4 DEF DedupInv

\* What Goto and Catch do, spelled out per call.
LEMMA GotoFrame ==
    ASSUME ControlOK, NEW c \in Calls, NEW step, Goto(c, step)
    PROVE  /\ pc'[c] = step /\ UNCHANGED reply
           /\ \A d \in Calls : d # c => pc'[d] = pc[d]
BY DEF Goto, ControlOK

\* A caught exception touches no reply but that of its call.
LEMMA CatchFrame ==
    ASSUME ControlOK, NEW c \in Calls, NEW error, Catch(c, error)
    PROVE  /\ pc'[c] = "done" /\ ~reply'[c].ok
           /\ \A d \in Calls : d # c => pc'[d] = pc[d] /\ reply'[d] = reply[d]
BY DEF Catch, Return, ControlOK

\* Every step keeps events unique and accepted replies pointing at them.
LEMMA NextDedupInv == TypeInv /\ DedupInv /\ [Next]_vars => DedupInv'
<1> SUFFICES ASSUME TypeInv, DedupInv, [Next]_vars PROVE DedupInv'
  OBVIOUS
<1>0. ControlOK /\ LocalsOK /\ \A c \in Calls : CallOK(c)
  BY DEF TypeInv, TypeOK
<1> USE DEF tables, locals, InFlight, At, Steps, TrackSteps, IdentifySteps, CommonSteps
<1>1. ASSUME NEW c \in Calls, NEW r \in Requests, Begin(c, r) PROVE DedupInv'
  <2>1. /\ \A d \in Calls : d # c => request'[d] = request[d] /\ pc'[d] = pc[d]
        /\ pc[c] = "idle" /\ pc'[c] \in {"checkDuplicate", "findVisitor"}
        /\ UNCHANGED <<event, reply>>
    BY <1>0, <1>1 DEF Begin, FirstStep, Goto, ControlOK
  <2>2. \A d \in Calls : event[d] # NULL => d # c
    BY <2>1 DEF DedupInv, EventOfCall
  <2>3. UniqueClientEvent'
    BY <2>1 DEF DedupInv, UniqueClientEvent
  <2>4. ASSUME NEW d \in Calls PROVE EventOfCall(d)' /\ ReplyNamesEvent(d)'
    BY <2>1, <2>2 DEF DedupInv, EventOfCall, ReplyNamesEvent, Accepts, Returned, IsTrack
  <2> QED
    BY <2>3, <2>4 DEF DedupInv
<1>2. ASSUME NEW c \in Calls, CheckDuplicate(c) PROVE DedupInv'
  <2>1. UNCHANGED <<event, request>> /\ pc[c] = "checkDuplicate" /\ IsTrack(c)
    BY <1>0, <1>2 DEF CheckDuplicate, CallOK
  <2>2. CASE Goto(c, "findVisitor")
    BY <1>0, <2>1, <2>2, GotoFrame, QuietStep
  <2>3. ASSUME NEW d \in Duplicates(c),
               Return(c, [ok |-> TRUE, duplicate |-> TRUE, id |-> d, lead |-> NULL])
        PROVE DedupInv'
    <3>1. /\ pc'[c] = "done" /\ reply'[c].id = d
          /\ \A e \in Calls : e # c => pc'[e] = pc[e] /\ reply'[e] = reply[e]
      BY <1>0, <2>3 DEF Return, ControlOK
    <3>2. /\ d \in Calls /\ event[d] # NULL
          /\ TenantOf[event[d].workspace] = TenantOf[request[c].workspace]
          /\ event[d].eventId = request[c].eventId
      BY DEF Duplicates, SameClientEvent
    <3>4. UniqueClientEvent'
      BY <2>1 DEF DedupInv, UniqueClientEvent
    <3>5. ASSUME NEW e \in Calls PROVE EventOfCall(e)' /\ ReplyNamesEvent(e)'
      BY <2>1, <3>1, <3>2
         DEF DedupInv, EventOfCall, ReplyNamesEvent, Accepts, Returned, IsTrack
    <3> QED
      BY <3>4, <3>5 DEF DedupInv
  <2> QED
    BY <1>2, <2>2, <2>3 DEF CheckDuplicate
<1>3. ASSUME NEW c \in Calls, FindVisitor(c) PROVE DedupInv'
  <2>1. AfterVisitor(c) \notin {"done", "respond"}
    BY <1>3, AfterVisitorStep DEF FindVisitor, LeadSteps
  <2> QED
    BY <1>0, <1>3, <2>1, GotoFrame, CatchFrame, QuietStep DEF FindVisitor
<1>4. ASSUME NEW c \in Calls, CreateVisitor(c) PROVE DedupInv'
  <2>1. AfterVisitor(c) \notin {"done", "respond"}
    BY <1>4, AfterVisitorStep DEF CreateVisitor, LeadSteps
  <2> QED
    BY <1>0, <1>4, <2>1, GotoFrame, CatchFrame, QuietStep DEF CreateVisitor
<1>5. ASSUME NEW c \in Calls, FindSession(c) PROVE DedupInv'
  BY <1>0, <1>5, GotoFrame, CatchFrame, QuietStep DEF FindSession
<1>6. ASSUME NEW c \in Calls, CreateSession(c) PROVE DedupInv'
  BY <1>0, <1>6, GotoFrame, CatchFrame, QuietStep DEF CreateSession
<1>7. ASSUME NEW c \in Calls, GetLinkedLead(c) PROVE DedupInv'
  BY <1>0, <1>7, GotoFrame, CatchFrame, QuietStep DEF GetLinkedLead
<1>8. ASSUME NEW c \in Calls, FindLead(c) PROVE DedupInv'
  BY <1>0, <1>8, GotoFrame, CatchFrame, QuietStep DEF FindLead
<1>9. ASSUME NEW c \in Calls, UpdateLead(c) PROVE DedupInv'
  BY <1>0, <1>9, GotoFrame, CatchFrame, QuietStep DEF UpdateLead
<1>10. ASSUME NEW c \in Calls, CreateLead(c) PROVE DedupInv'
  BY <1>0, <1>10, GotoFrame, CatchFrame, QuietStep DEF CreateLead
<1>11. ASSUME NEW c \in Calls, FindLink(c) PROVE DedupInv'
  BY <1>0, <1>11, GotoFrame, CatchFrame, QuietStep DEF FindLink
<1>12. ASSUME NEW c \in Calls, UpdateLink(c) PROVE DedupInv'
  <2>1. ~IsTrack(c)
    BY <1>0, <1>12 DEF UpdateLink, CallOK
  <2> QED
    BY <1>0, <1>12, <2>1, GotoFrame, CatchFrame, QuietStep DEF UpdateLink
<1>13. ASSUME NEW c \in Calls, CreateLink(c) PROVE DedupInv'
  <2>1. ~IsTrack(c)
    BY <1>0, <1>13 DEF CreateLink, CallOK
  <2> QED
    BY <1>0, <1>13, <2>1, GotoFrame, CatchFrame, QuietStep DEF CreateLink
<1>14. ASSUME NEW c \in Calls, CreateEvent(c) PROVE DedupInv'
  <2>1. UNCHANGED request /\ pc[c] = "createEvent" /\ IsTrack(c)
    BY <1>0, <1>14 DEF CreateEvent, CallOK
  <2>2. ASSUME UNCHANGED event, NEW error, Catch(c, error) PROVE DedupInv'
    BY <1>0, <2>1, <2>2, CatchFrame, QuietStep
  <2>3. ASSUME ~ViolatesUniqueEvent(c), event' = [event EXCEPT ![c] = NewEvent(c)],
               Goto(c, "respond")
        PROVE DedupInv'
    <3>1. /\ event'[c] = NewEvent(c)
          /\ \A d \in Calls : d # c => event'[d] = event[d]
      BY <2>3 DEF TypeInv, TypeOK, TablesOK
    <3>2. /\ NewEvent(c).workspace = request[c].workspace
          /\ NewEvent(c).anonymousId = request[c].anonymousId
          /\ NewEvent(c).eventId = request[c].eventId
      BY DEF NewEvent
    <3>3. event[c] = NULL
      BY <2>1 DEF DedupInv, EventOfCall
    <3>4. NewEvent(c) # NULL
      <4>1. SessionFor(c) \in SessionIds
        BY <1>0, <2>1 DEF CallOK
      <4>2. NewEvent(c) \in EventRows
        BY <1>0, <2>1, <4>1, RequestFields DEF NewEvent, EventRows, LocalsOK, TypeInv
      <4> QED
        BY <4>2, Assumptions
    <3>5. UniqueClientEvent'
      <4>1. \A d \in Calls : event[d] # NULL /\ request[c].eventId # NULL
                              /\ TenantOf[event[d].workspace] = TenantOf[request[c].workspace]
                              => event[d].eventId # request[c].eventId
        BY <2>3 DEF ViolatesUniqueEvent, Duplicates, SameClientEvent
      <4> QED
        BY <3>1, <3>2, <3>3, <4>1 DEF DedupInv, UniqueClientEvent
    <3>6. pc'[c] = "respond" /\ UNCHANGED reply /\ \A d \in Calls : d # c => pc'[d] = pc[d]
      BY <1>0, <2>3, GotoFrame
    <3>7. ASSUME NEW d \in Calls PROVE EventOfCall(d)'
      BY <2>1, <3>1, <3>2, <3>4, <3>6 DEF DedupInv, EventOfCall, IsTrack
    <3>8. ASSUME NEW d \in Calls PROVE ReplyNamesEvent(d)'
      BY <2>1, <3>1, <3>3, <3>6 DEF DedupInv, ReplyNamesEvent, Accepts, Returned, IsTrack
    <3> QED
      BY <3>5, <3>7, <3>8 DEF DedupInv
  <2> QED
    BY <1>14, <2>2, <2>3 DEF CreateEvent
<1>15. ASSUME NEW c \in Calls, Respond(c) PROVE DedupInv'
  <2>1. UNCHANGED <<event, request>> /\ pc[c] = "respond"
    BY <1>15 DEF Respond
  <2>2. /\ pc'[c] = "done"
        /\ IsTrack(c) => reply'[c].id = c
        /\ \A d \in Calls : d # c => pc'[d] = pc[d] /\ reply'[d] = reply[d]
    BY <1>0, <1>15 DEF Respond, Return, ControlOK
  <2>3. CASE ~IsTrack(c)
    BY <2>1, <2>2, <2>3, QuietStep
  <2>4. CASE IsTrack(c)
    <3>1. /\ event[c] # NULL
          /\ event[c].workspace = request[c].workspace
          /\ event[c].eventId = request[c].eventId
      BY <2>1, <2>4 DEF DedupInv, EventOfCall
    <3>2. UniqueClientEvent'
      BY <2>1 DEF DedupInv, UniqueClientEvent
    <3>3. ASSUME NEW d \in Calls PROVE EventOfCall(d)' /\ ReplyNamesEvent(d)'
      BY <2>1, <2>2, <2>4, <3>1
         DEF DedupInv, EventOfCall, ReplyNamesEvent, Accepts, Returned, IsTrack
    <3> QED
      BY <3>2, <3>3 DEF DedupInv
  <2> QED
    BY <2>3, <2>4
<1>16. ASSUME NEW c \in Calls, DatabaseError(c) PROVE DedupInv'
  BY <1>0, <1>16, CatchFrame, QuietStep DEF DatabaseError
<1>17. CASE Tick \/ UNCHANGED vars
  BY <1>17 DEF Tick, vars, DedupInv, EventOfCall, ReplyNamesEvent, UniqueClientEvent,
     Accepts, Returned, IsTrack
<1> QED
  BY <1>1, <1>2, <1>3, <1>4, <1>5, <1>6, <1>7, <1>8, <1>9, <1>10, <1>11, <1>12, <1>13, <1>14, <1>15, <1>16, <1>17 DEF Next, Progress, AllReturned

\* No instance ever stores one client event id twice for a tenant.
THEOREM DedupUnique == Spec => []UniqueClientEvent
<1>1. Init => TypeInv /\ DedupInv
  BY InitTypeInv, InitDedupInv
<1>2. TypeInv /\ DedupInv /\ [Next]_vars => (TypeInv /\ DedupInv)'
  BY NextTypeInv, NextDedupInv
<1>3. DedupInv => UniqueClientEvent
  BY DEF DedupInv
<1> QED
  BY <1>1, <1>2, <1>3, PTL DEF Spec

\* All accepted submissions of an event id name one stored event.
THEOREM DedupIdempotent == Spec => []IdempotentReplies
<1>1. Init => TypeInv /\ DedupInv
  BY InitTypeInv, InitDedupInv
<1>2. TypeInv /\ DedupInv /\ [Next]_vars => (TypeInv /\ DedupInv)'
  BY NextTypeInv, NextDedupInv
<1>3. DedupInv => IdempotentReplies
  BY DEF DedupInv, IdempotentReplies, ReplyNamesEvent, UniqueClientEvent, SameSubmission
<1> QED
  BY <1>1, <1>2, <1>3, PTL DEF Spec

-----------------------------------------------------------------------------
(* Sessions and identity, whatever runs concurrently.  All of it rests on  *)
(* what a call knows of the calls that had returned when it began: they    *)
(* are done, so their rows are there and stay.                             *)

\* The steps after a lead was created.
LinkSteps == {"findLink", "updateLink", "createLink", "respond"}

\* The calls that were done when this one began are done.
History(c) == \A d \in before[c] : pc[d] = "done"

\* A lead carries the e-mail of the call that created it.
LeadOfCall(c) ==
    lead[c] # NULL =>
        /\ pc[c] \in LinkSteps \cup {"done"}
        /\ lead[c].workspace = request[c].workspace
        /\ lead[c].email = request[c].email

\* The lead of an identify is there and has the e-mail of the request.
Resolved(c, l) ==
    /\ l \in Calls
    /\ lead[l] # NULL
    /\ request[c].email # NULL => lead[l].email = request[c].email

LinkedTo(c, l) == link[<<request[c].workspace, request[c].anonymousId, l>>] # NULL

\* What an identify knows of the lead it holds, and what it has answered.
HoldsLead(c) ==
    pc[c] # "idle" /\ ~IsTrack(c) =>
        /\ pc[c] \in LeadSteps \cup {"respond"} => Resolved(c, leadOf[c])
        /\ pc[c] = "respond" => LinkedTo(c, leadOf[c])
        /\ Accepts(c) => Resolved(c, reply[c].lead) /\ LinkedTo(c, reply[c].lead)

\* A call creates a lead only if no earlier call left one with the e-mail.
NoEarlierLead(c) ==
    pc[c] = "createLead" /\ request[c].email # NULL =>
        \A d \in before[c] : lead[d] # NULL /\ lead[d].workspace = request[c].workspace
                             => lead[d].email # request[c].email

\* A track knows of the lead that an earlier call identified its visitor with.
KnowsLead(c) ==
    \A d \in before[c] : Accepts(d) /\ ~IsTrack(d) /\ SameVisitor(c, d) =>
        /\ pc[c] = "createEvent" => leadOf[c] # NULL
        /\ event[c] # NULL => event[c].lead # NULL

\* A call opens a session only if those of earlier calls have timed out.
NoEarlierSession(c) ==
    pc[c] = "createSession" =>
        \A s \in SessionIds :
            session[s] # NULL /\ session[s].openedBy \in before[c] /\ OfVisitor(session[s], c)
            => session[s].startedAt + SESSION_TIMEOUT < now

\* A session was opened by a call that has begun.
OpenedByCall(s) == session[s] # NULL => pc[session[s].openedBy] # "idle"

IdentityInv ==
    /\ \A c \in Calls : /\ History(c) /\ LeadOfCall(c) /\ HoldsLead(c)
                        /\ NoEarlierLead(c) /\ KnowsLead(c) /\ NoEarlierSession(c)
    /\ \A s \in SessionIds : OpenedByCall(s)
    /\ DuplicateLeadsOverlap
    /\ SplitSessionsOverlap

\* Before any call nothing is known and nothing is stored.
LEMMA InitIdentityInv == Init => IdentityInv
BY DEF Init, IdentityInv, History, LeadOfCall, HoldsLead, NoEarlierLead, KnowsLead,
   NoEarlierSession, OpenedByCall, DuplicateLeadsOverlap, SplitSessionsOverlap, Accepts, Returned

-----------------------------------------------------------------------------
(* A step of one call leaves what the other calls know.                    *)

\* Rows are never deleted, a lead keeps its workspace and its e-mail, and
\* what is new was written by c.
OnlyGrow(c) ==
    /\ \A l \in Calls : lead[l] # NULL => /\ lead'[l] # NULL
                                          /\ lead'[l].workspace = lead[l].workspace
                                          /\ lead'[l].email = lead[l].email
    /\ \A l \in Calls : l # c => (lead[l] = NULL => lead'[l] = NULL)
    /\ \A k \in LinkKeys : link[k] # NULL => link'[k] # NULL
    /\ \A d \in Calls : d # c => event'[d] = event[d]
    /\ \A s \in SessionIds : \/ session'[s] = session[s]
                             \/ session[s] = NULL /\ session'[s].openedBy = c

\* A step of call c, which is under way.
StepOf(c) ==
    /\ pc[c] \notin {"idle", "done"}
    /\ pc'[c] # "idle"
    /\ \A d \in Calls : d # c => pc'[d] = pc[d] /\ reply'[d] = reply[d] /\ leadOf'[d] = leadOf[d]
    /\ UNCHANGED <<now, request, before>>
    /\ OnlyGrow(c)

\* The links that matter are those of requests that were made.
LEMMA LinkOfRequest ==
    ASSUME TypeInv, NEW c \in Calls, pc[c] # "idle", NEW l \in Calls
    PROVE  <<request[c].workspace, request[c].anonymousId, l>> \in LinkKeys
BY RequestFields DEF TypeInv, LinkKeys

\* No call that is under way is among those that another one came after.
LEMMA NotBefore ==
    ASSUME IdentityInv, NEW c \in Calls, pc[c] # "done", NEW d \in Calls
    PROVE  c \notin before[d]
BY DEF IdentityInv, History

\* What call d knows survives a step of another call.
LEMMA OthersKeep ==
    ASSUME TypeInv, IdentityInv, NEW c \in Calls, StepOf(c), NEW d \in Calls
    PROVE  /\ History(d)'
           /\ d # c => /\ LeadOfCall(d)' /\ HoldsLead(d)' /\ NoEarlierLead(d)'
                       /\ KnowsLead(d)' /\ NoEarlierSession(d)'
<1>1. c \notin before[d] /\ before[d] \subseteq Calls
  BY NotBefore DEF StepOf, TypeInv, TypeOK, LocalsOK
<1>2. History(d)'
  BY <1>1 DEF StepOf, IdentityInv, History
<1>3. ASSUME d # c PROVE LeadOfCall(d)'
  BY <1>3 DEF StepOf, OnlyGrow, IdentityInv, LeadOfCall
<1>4. ASSUME d # c PROVE HoldsLead(d)'
  <2>1. ASSUME NEW l, Resolved(d, l) PROVE Resolved(d, l)'
    BY <2>1 DEF StepOf, OnlyGrow, Resolved
  <2>2. ASSUME NEW l \in Calls, pc[d] # "idle", LinkedTo(d, l) PROVE LinkedTo(d, l)'
    BY <2>2, LinkOfRequest DEF StepOf, OnlyGrow, LinkedTo
  <2>3. HoldsLead(d) /\ pc'[d] = pc[d] /\ reply'[d] = reply[d] /\ leadOf'[d] = leadOf[d]
        /\ IsTrack(d)' = IsTrack(d)
    BY <1>4 DEF StepOf, IdentityInv, IsTrack
  <2>4. CASE pc[d] = "idle" \/ IsTrack(d)
    BY <2>3, <2>4 DEF HoldsLead
  <2>5. ASSUME pc[d] # "idle", ~IsTrack(d), pc[d] \in LeadSteps \cup {"respond"}
        PROVE  Resolved(d, leadOf[d])'
    BY <2>1, <2>3, <2>5 DEF HoldsLead, Resolved, StepOf
  <2>6. ASSUME pc[d] = "respond", ~IsTrack(d) PROVE LinkedTo(d, leadOf[d])'
    BY <2>2, <2>3, <2>6 DEF HoldsLead, Resolved, LinkedTo
  <2>7. ASSUME pc[d] # "idle", ~IsTrack(d), Accepts(d)'
        PROVE  Resolved(d, reply[d].lead)' /\ LinkedTo(d, reply[d].lead)'
    <3>1. Resolved(d, reply[d].lead) /\ LinkedTo(d, reply[d].lead) /\ reply[d].lead \in Calls
      BY <2>3, <2>7 DEF HoldsLead, Accepts, Returned, Resolved
    <3> QED
      BY <2>1, <2>2, <2>3, <2>7, <3>1 DEF Resolved, LinkedTo
  <2> QED
    BY <2>3, <2>4, <2>5, <2>6, <2>7 DEF HoldsLead
<1>5. ASSUME d # c PROVE NoEarlierLead(d)'
  BY <1>1, <1>5 DEF StepOf, OnlyGrow, IdentityInv, NoEarlierLead
<1>6. ASSUME d # c PROVE KnowsLead(d)'
  BY <1>1, <1>6 DEF StepOf, OnlyGrow, IdentityInv, KnowsLead, Accepts, Returned, IsTrack, SameVisitor
<1>7. ASSUME d # c PROVE NoEarlierSession(d)'
  BY <1>1, <1>7 DEF StepOf, OnlyGrow, IdentityInv, NoEarlierSession, OfVisitor
<1> QED
  BY <1>2, <1>3, <1>4, <1>5, <1>6, <1>7

\* The invariant after a step of c, from what c knows and what it wrote.
LEMMA StepKeeps ==
    ASSUME TypeInv, IdentityInv, NEW c \in Calls, StepOf(c),
           LeadOfCall(c)', HoldsLead(c)', NoEarlierLead(c)', KnowsLead(c)', NoEarlierSession(c)',
           DuplicateLeadsOverlap', SplitSessionsOverlap'
    PROVE  IdentityInv'
<1>1. \A d \in Calls : /\ History(d)' /\ LeadOfCall(d)' /\ HoldsLead(d)'
                       /\ NoEarlierLead(d)' /\ KnowsLead(d)' /\ NoEarlierSession(d)'
  BY OthersKeep
<1>2. \A s \in SessionIds : OpenedByCall(s)'
  <2>1. ASSUME NEW s \in SessionIds, session[s] # NULL PROVE session[s].openedBy \in Calls
    BY <2>1 DEF TypeInv, TypeOK, TablesOK, SessionRows
  <2> QED
    BY <2>1 DEF StepOf, OnlyGrow, IdentityInv, OpenedByCall
<1> QED
  BY <1>1, <1>2 DEF IdentityInv

\* The places where a call claims nothing new: it neither holds a fresh lead,
\* nor is about to open a session or write an event.
Quiet(c) ==
    /\ pc'[c] \notin {"createEvent", "createSession", "respond"}
    /\ pc'[c] = "createLead" => request[c].email = NULL
    /\ pc'[c] \in LeadSteps => pc[c] \in LeadSteps
    /\ pc[c] \in LinkSteps => pc'[c] \in LinkSteps \cup {"done"}
    /\ pc'[c] = "done" => ~reply'[c].ok \/ IsTrack(c)

\* A step that writes nothing the invariant is about.
LEMMA QuietIdentity ==
    ASSUME TypeInv, DedupInv, IdentityInv, NEW c \in Calls,
           pc[c] \notin {"idle", "done"}, pc'[c] # "idle", Quiet(c),
           \A d \in Calls : d # c => pc'[d] = pc[d] /\ reply'[d] = reply[d],
           UNCHANGED <<now, request, before, leadOf, session, lead, link, event>>
    PROVE  IdentityInv'
<1>1. StepOf(c)
  BY DEF StepOf, OnlyGrow
<1>2. LeadOfCall(c)'
  BY DEF IdentityInv, LeadOfCall, Quiet
<1>3. HoldsLead(c)'
  BY DEF IdentityInv, HoldsLead, Quiet, Resolved, LinkedTo, Accepts, Returned, IsTrack
<1>4. NoEarlierLead(c)'
  BY DEF NoEarlierLead, Quiet
<1>5. KnowsLead(c)'
  <2>1. c \notin before[c] /\ before[c] \subseteq Calls
    BY NotBefore DEF TypeInv, TypeOK, LocalsOK
  <2> QED
    BY <2>1 DEF IdentityInv, KnowsLead, Quiet, Accepts, Returned, IsTrack, SameVisitor
<1>6. NoEarlierSession(c)'
  BY DEF NoEarlierSession, Quiet
<1>7. DuplicateLeadsOverlap' /\ SplitSessionsOverlap'
  BY DEF IdentityInv, DuplicateLeadsOverlap, SplitSessionsOverlap
<1> QED
  BY <1>1, <1>2, <1>3, <1>4, <1>5, <1>6, <1>7, StepKeeps

\* An exception, wherever it strikes, leaves what was written.
LEMMA CatchIdentity ==
    ASSUME TypeInv, DedupInv, IdentityInv, NEW c \in Calls, InFlight(c),
           NEW error, Catch(c, error),
           UNCHANGED <<now, request, before, leadOf, session, lead, link, event>>
    PROVE  IdentityInv'
<1>1. pc[c] \notin {"idle", "done"}
  BY DEF InFlight, Steps, TrackSteps, IdentifySteps, CommonSteps
<1>2. Quiet(c)
  BY CatchFrame DEF Quiet, TypeInv, TypeOK, LeadSteps
<1> QED
  BY <1>1, <1>2, CatchFrame, QuietIdentity DEF TypeInv, TypeOK

\* A step that writes no lead keeps what is said of the e-mails of the leads.
LEMMA SameLeads ==
    ASSUME DuplicateLeadsOverlap, UNCHANGED <<lead, before>> PROVE DuplicateLeadsOverlap'
BY DEF DuplicateLeadsOverlap

\* A step that writes no session keeps what is said of the sessions.
LEMMA SameSessions ==
    ASSUME SplitSessionsOverlap, UNCHANGED <<session, before>> PROVE SplitSessionsOverlap'
BY DEF SplitSessionsOverlap

-----------------------------------------------------------------------------
(* The steps that write, or that learn something.                          *)

\* A call that begins remembers the calls that have returned.
LEMMA BeginIdentity ==
    ASSUME TypeInv, DedupInv, IdentityInv, NEW c \in Calls, NEW r \in Requests, Begin(c, r)
    PROVE  IdentityInv'
<1> USE DEF TypeInv, TypeOK
<1>1. /\ pc[c] = "idle" /\ pc'[c] \in {"checkDuplicate", "findVisitor"}
      /\ before'[c] = {d \in Calls : pc[d] = "done"}
      /\ \A d \in Calls : d # c => /\ request'[d] = request[d] /\ pc'[d] = pc[d]
                                   /\ before'[d] = before[d]
      /\ UNCHANGED <<now, session, lead, link, event, leadOf, reply>>
  BY DEF Begin, At, Goto, FirstStep, Returned, ControlOK, LocalsOK, tables
<1>2. \A d \in Calls : c \notin before'[d] /\ before'[d] \subseteq Calls
  BY <1>1, NotBefore DEF LocalsOK
<1>3. lead[c] = NULL /\ event[c] = NULL /\ \A s \in SessionIds : session[s] # NULL => session[s].openedBy # c
  BY <1>1 DEF IdentityInv, DedupInv, LeadOfCall, EventOfCall, OpenedByCall, LinkSteps
<1>4. ASSUME NEW d \in Calls
      PROVE  /\ History(d)' /\ LeadOfCall(d)' /\ NoEarlierLead(d)'
             /\ KnowsLead(d)' /\ NoEarlierSession(d)'
  <2>1. History(d)'
    BY <1>1, <1>2 DEF IdentityInv, History
  <2>2. LeadOfCall(d)'
    BY <1>1, <1>3 DEF IdentityInv, LeadOfCall
  <2>3. NoEarlierLead(d)'
    BY <1>1 DEF IdentityInv, NoEarlierLead
  <2>4. KnowsLead(d)'
    BY <1>1, <1>2, <1>3 DEF IdentityInv, KnowsLead, Accepts, Returned, IsTrack, SameVisitor
  <2>5. NoEarlierSession(d)'
    BY <1>1 DEF IdentityInv, NoEarlierSession, OfVisitor
  <2> QED
    BY <2>1, <2>2, <2>3, <2>4, <2>5
<1>5. ASSUME NEW d \in Calls PROVE HoldsLead(d)'
  BY <1>1 DEF IdentityInv, HoldsLead, Resolved, LinkedTo, IsTrack, Accepts, Returned, LeadSteps
<1>6. \A s \in SessionIds : OpenedByCall(s)'
  BY <1>1 DEF IdentityInv, OpenedByCall, TablesOK, SessionRows
<1>7. DuplicateLeadsOverlap'
  BY <1>1, <1>2, <1>3 DEF IdentityInv, DuplicateLeadsOverlap
<1>8. SplitSessionsOverlap'
  BY <1>1, <1>2, <1>3 DEF IdentityInv, SplitSessionsOverlap, TablesOK, SessionRows
<1> QED
  BY <1>4, <1>5, <1>6, <1>7, <1>8 DEF IdentityInv

\* No session of an earlier call is active when a track goes on to open one.
LEMMA FindSessionIdentity ==
    ASSUME TypeInv, DedupInv, IdentityInv, NEW c \in Calls, FindSession(c)
    PROVE  IdentityInv'
<1> USE DEF TypeInv, TypeOK, At, tables
<1>1. pc[c] = "findSession" /\ UNCHANGED <<now, request, before, leadOf, session, lead, link, event>>
  BY DEF FindSession
<1>2. CASE Goto(c, "getLinkedLead")
  BY <1>1, <1>2, GotoFrame, QuietIdentity DEF Quiet, LeadSteps, LinkSteps
<1>3. CASE ActiveSessions(c) = {} /\ Goto(c, "createSession")
  <2>1. pc'[c] = "createSession" /\ UNCHANGED reply /\ \A d \in Calls : d # c => pc'[d] = pc[d]
    BY <1>3, GotoFrame
  <2>2. StepOf(c)
    BY <1>1, <2>1 DEF StepOf, OnlyGrow
  <2>3. NoEarlierSession(c)'
    <3>1. ASSUME NEW s \in SessionIds, session[s] # NULL, OfVisitor(session[s], c)
          PROVE  session[s].startedAt + SESSION_TIMEOUT < now
      <4>1. session[s].startedAt \in Int /\ now \in Int /\ SESSION_TIMEOUT \in Int
        BY <3>1, Assumptions DEF TablesOK, SessionRows, Times
      <4>2. ~(session[s].startedAt >= now - SESSION_TIMEOUT)
        BY <1>3, <3>1 DEF ActiveSessions
      <4> QED
        BY <4>1, <4>2
    <3> QED
      BY <1>1, <3>1 DEF NoEarlierSession, OfVisitor
  <2>4. LeadOfCall(c)' /\ HoldsLead(c)' /\ NoEarlierLead(c)'
    BY <1>1, <2>1 DEF IdentityInv, LeadOfCall, HoldsLead, NoEarlierLead, Accepts, Returned, LeadSteps, LinkSteps
  <2>5. KnowsLead(c)'
    <3>1. c \notin before[c] /\ before[c] \subseteq Calls
      BY <1>1, NotBefore DEF LocalsOK
    <3> QED
      BY <1>1, <2>1, <3>1 DEF IdentityInv, KnowsLead, Accepts, Returned, IsTrack, SameVisitor
  <2> QED
    BY <1>1, <2>2, <2>3, <2>4, <2>5, SameLeads, SameSessions, StepKeeps DEF IdentityInv
<1> QED
  BY <1>2, <1>3 DEF FindSession

\* A session that is opened lies a timeout after those of earlier calls.
LEMMA CreateSessionIdentity ==
    ASSUME TypeInv, DedupInv, IdentityInv, NEW c \in Calls, CreateSession(c)
    PROVE  IdentityInv'
<1> USE DEF TypeInv, TypeOK, At
<1>1. pc[c] = "createSession" /\ UNCHANGED <<now, request, before, leadOf, lead, link, event>>
  BY DEF CreateSession
<1>2. CASE Catch(c, "unique") /\ UNCHANGED session
  BY <1>1, <1>2, CatchIdentity DEF InFlight, Steps, TrackSteps
<1>3. ASSUME NEW s \in SessionIds, session[s] = NULL,
             session' = [session EXCEPT ![s] = NewSession(c)], Goto(c, "getLinkedLead")
      PROVE  IdentityInv'
  <2>1. pc'[c] = "getLinkedLead" /\ UNCHANGED reply /\ \A d \in Calls : d # c => pc'[d] = pc[d]
    BY <1>3, GotoFrame
  <2>2. /\ session'[s] = NewSession(c)
        /\ \A t \in SessionIds : t # s => session'[t] = session[t]
    BY <1>3 DEF TablesOK
  <2>3. /\ NewSession(c).openedBy = c /\ NewSession(c).startedAt = now
        /\ OfVisitor(NewSession(c), c)
    BY DEF NewSession, OfVisitor
  <2>4. StepOf(c)
    BY <1>1, <1>3, <2>1, <2>2, <2>3 DEF StepOf, OnlyGrow
  <2>5. LeadOfCall(c)' /\ HoldsLead(c)' /\ NoEarlierLead(c)' /\ NoEarlierSession(c)'
    BY <1>1, <2>1 DEF IdentityInv, LeadOfCall, HoldsLead, NoEarlierLead, NoEarlierSession,
       Accepts, Returned, LeadSteps, LinkSteps
  <2>6. KnowsLead(c)'
    <3>1. c \notin before[c] /\ before[c] \subseteq Calls
      BY <1>1, NotBefore DEF LocalsOK
    <3> QED
      BY <1>1, <2>1, <3>1 DEF IdentityInv, KnowsLead, Accepts, Returned, IsTrack, SameVisitor
  <2>7. SplitSessionsOverlap'
    <3>1. ASSUME NEW t \in SessionIds, t # s, session[t] # NULL, OfVisitor(session[t], c),
                 session[t].openedBy \in before[c]
          PROVE  ~(now <= session[t].startedAt + SESSION_TIMEOUT)
      <4>1. session[t].startedAt \in Int /\ now \in Int /\ SESSION_TIMEOUT \in Int
        BY <3>1, Assumptions DEF TablesOK, SessionRows, Times
      <4> QED
        BY <1>1, <3>1, <4>1 DEF IdentityInv, NoEarlierSession
    <3>2. \A t \in SessionIds : session[t] # NULL => c \notin before[session[t].openedBy]
      BY <1>1, NotBefore DEF TablesOK, SessionRows
    <3>3. c \notin before[c]
      BY <1>1, NotBefore
    <3> QED
      BY <1>1, <2>2, <2>3, <3>1, <3>2, <3>3 DEF IdentityInv, SplitSessionsOverlap, OfVisitor
  <2> QED
    BY <1>1, <2>4, <2>5, <2>6, <2>7, SameLeads, StepKeeps DEF IdentityInv
<1> QED
  BY <1>2, <1>3 DEF CreateSession

\* A visitor that an earlier identify linked has a lead to be found.
LEMMA GetLinkedLeadIdentity ==
    ASSUME TypeInv, DedupInv, IdentityInv, NEW c \in Calls, GetLinkedLead(c)
    PROVE  IdentityInv'
<1> USE DEF TypeInv, TypeOK, At, tables
<1>1. pc[c] = "getLinkedLead" /\ UNCHANGED <<now, request, before, session, lead, link, event>>
  BY DEF GetLinkedLead
<1>2. pc'[c] = "createEvent" /\ UNCHANGED reply /\ \A d \in Calls : d # c => pc'[d] = pc[d]
  BY GotoFrame DEF GetLinkedLead
<1>3. \A d \in Calls : d # c => leadOf'[d] = leadOf[d]
  BY DEF GetLinkedLead, LocalsOK
<1>4. StepOf(c)
  BY <1>1, <1>2, <1>3 DEF StepOf, OnlyGrow
<1>5. IsTrack(c) /\ event[c] = NULL
  BY <1>1 DEF CallOK, TrackSteps, DedupInv, EventOfCall
<1>6. LeadOfCall(c)' /\ HoldsLead(c)' /\ NoEarlierLead(c)' /\ NoEarlierSession(c)'
  BY <1>1, <1>2, <1>5 DEF IdentityInv, LeadOfCall, HoldsLead, NoEarlierLead, NoEarlierSession,
     IsTrack, LinkSteps
<1>7. KnowsLead(c)'
  <2>1. c \notin before[c] /\ before[c] \subseteq Calls
    BY <1>1, NotBefore DEF LocalsOK
  <2>2. ASSUME NEW d \in before[c], Accepts(d), ~IsTrack(d), SameVisitor(c, d)
        PROVE  leadOf'[c] # NULL
    <3>1. reply[d].lead \in Calls /\ LinkedTo(d, reply[d].lead)
      BY <2>1, <2>2 DEF IdentityInv, HoldsLead, Resolved, Accepts, Returned
    <3>2. reply[d].lead \in LinkedLeads(c)
      BY <2>2, <3>1 DEF LinkedLeads, LinkOf, LinkedTo, SameVisitor
    <3>3. PICK l \in LatestLeads(c) : leadOf' = [leadOf EXCEPT ![c] = l]
      BY <3>2 DEF GetLinkedLead
    <3> QED
      BY <3>3, Assumptions DEF LatestLeads, LinkedLeads, LocalsOK
  <2> QED
    BY <1>1, <1>2, <1>5, <2>1, <2>2 DEF KnowsLead, Accepts, Returned, IsTrack, SameVisitor
<1> QED
  BY <1>1, <1>4, <1>6, <1>7, SameLeads, SameSessions, StepKeeps DEF IdentityInv

\* An event is stored with the lead that was found.
LEMMA CreateEventIdentity ==
    ASSUME TypeInv, DedupInv, IdentityInv, NEW c \in Calls, CreateEvent(c)
    PROVE  IdentityInv'
<1> USE DEF TypeInv, TypeOK, At
<1>1. pc[c] = "createEvent" /\ UNCHANGED <<now, request, before, leadOf, session, lead, link>>
  BY DEF CreateEvent, locals
<1>2. ASSUME UNCHANGED event, NEW error, Catch(c, error) PROVE IdentityInv'
  BY <1>1, <1>2, CatchIdentity DEF InFlight, Steps, TrackSteps
<1>3. ASSUME event' = [event EXCEPT ![c] = NewEvent(c)], Goto(c, "respond") PROVE IdentityInv'
  <2>1. pc'[c] = "respond" /\ UNCHANGED reply /\ \A d \in Calls : d # c => pc'[d] = pc[d]
    BY <1>3, GotoFrame
  <2>2. /\ event'[c] = NewEvent(c) /\ NewEvent(c).lead = leadOf[c]
        /\ \A d \in Calls : d # c => event'[d] = event[d]
    BY <1>3 DEF TablesOK, NewEvent
  <2>3. IsTrack(c)
    BY <1>1 DEF CallOK, TrackSteps
  <2>4. StepOf(c)
    BY <1>1, <2>1, <2>2 DEF StepOf, OnlyGrow
  <2>5. LeadOfCall(c)' /\ HoldsLead(c)' /\ NoEarlierLead(c)' /\ NoEarlierSession(c)'
    BY <1>1, <2>1, <2>3 DEF IdentityInv, LeadOfCall, HoldsLead, NoEarlierLead, NoEarlierSession,
       IsTrack, LinkSteps
  <2>6. KnowsLead(c)'
    <3>1. c \notin before[c] /\ before[c] \subseteq Calls
      BY <1>1, NotBefore DEF LocalsOK
    <3> QED
      BY <1>1, <2>1, <2>2, <3>1 DEF IdentityInv, KnowsLead, Accepts, Returned, IsTrack, SameVisitor
  <2> QED
    BY <1>1, <2>4, <2>5, <2>6, SameLeads, SameSessions, StepKeeps DEF IdentityInv
<1> QED
  BY <1>2, <1>3 DEF CreateEvent

\* What a call that is not about to write an event knows of leads.
LEMMA KnowsLeadStays ==
    ASSUME TypeInv, IdentityInv, NEW c \in Calls, StepOf(c), UNCHANGED event,
           pc'[c] # "createEvent"
    PROVE  KnowsLead(c)'
<1>1. c \notin before[c] /\ before[c] \subseteq Calls
  BY NotBefore DEF StepOf, TypeInv, TypeOK, LocalsOK
<1> QED
  BY <1>1 DEF StepOf, IdentityInv, KnowsLead, Accepts, Returned, IsTrack, SameVisitor

\* The lead that is found has the e-mail; if none is, no earlier call made one.
LEMMA FindLeadIdentity ==
    ASSUME TypeInv, DedupInv, IdentityInv, NEW c \in Calls, FindLead(c)
    PROVE  IdentityInv'
<1> USE DEF TypeInv, TypeOK, At, tables
<1>1. pc[c] = "findLead" /\ UNCHANGED <<now, request, before, session, lead, link, event>>
  BY DEF FindLead
<1>2. pc'[c] \in {"updateLead", "createLead"} /\ UNCHANGED reply /\ \A d \in Calls : d # c => pc'[d] = pc[d]
  BY GotoFrame DEF FindLead
<1>3. \A d \in Calls : d # c => leadOf'[d] = leadOf[d]
  BY DEF FindLead, LocalsOK
<1>4. StepOf(c)
  BY <1>1, <1>2, <1>3 DEF StepOf, OnlyGrow
<1>5. LeadOfCall(c)' /\ NoEarlierSession(c)'
  BY <1>1, <1>2 DEF IdentityInv, LeadOfCall, NoEarlierSession, LinkSteps
<1>6. KnowsLead(c)'
  BY <1>1, <1>2, <1>4, KnowsLeadStays
<1>7. HoldsLead(c)' /\ NoEarlierLead(c)'
  <2>1. ASSUME NEW l \in MatchingLeads(c), leadOf' = [leadOf EXCEPT ![c] = l], Goto(c, "updateLead")
        PROVE  HoldsLead(c)' /\ NoEarlierLead(c)'
    <3>1. leadOf'[c] = l /\ pc'[c] = "updateLead"
      BY <2>1, GotoFrame DEF LocalsOK
    <3>2. Resolved(c, l)'
      BY <1>1 DEF Resolved, MatchingLeads, LeadsByEmail, LeadsByPhone
    <3> QED
      BY <3>1, <3>2 DEF HoldsLead, NoEarlierLead, Resolved, Accepts, Returned
  <2>2. CASE MatchingLeads(c) = {} /\ Goto(c, "createLead")
    <3>1. pc'[c] = "createLead"
      BY <2>2, GotoFrame
    <3>2. request[c].email # NULL => LeadsByEmail(c) = {}
      BY <2>2 DEF MatchingLeads
    <3>3. before[c] \subseteq Calls
      BY DEF LocalsOK
    <3> QED
      BY <1>1, <3>1, <3>2, <3>3 DEF HoldsLead, NoEarlierLead, LeadsByEmail, Accepts, Returned, LeadSteps
  <2> QED
    BY <2>1, <2>2 DEF FindLead
<1> QED
  BY <1>1, <1>4, <1>5, <1>6, <1>7, SameLeads, SameSessions, StepKeeps DEF IdentityInv

\* An update of a lead changes its phone and nothing else.
LEMMA UpdateLeadRows ==
    ASSUME TypeInv, NEW c \in Calls, UpdateLead(c), NEW l \in Calls
    PROVE  /\ lead[l] = NULL => lead'[l] = NULL
           /\ lead[l] # NULL => /\ lead'[l] # NULL
                                /\ lead'[l].workspace = lead[l].workspace
                                /\ lead'[l].email = lead[l].email
<1> USE DEF TypeInv, TypeOK, At
<1>1. leadOf[c] \in Calls /\ lead[leadOf[c]] \in LeadRows
  BY DEF UpdateLead, CallOK, LeadSteps, TablesOK
<1>2. pc[c] # "idle" /\ ~IsTrack(c)
  BY DEF UpdateLead, CallOK, IdentifySteps
<1> DEFINE row == [lead[leadOf[c]] EXCEPT !.phone = request[c].phone]
<1>3. row \in LeadRows /\ row.workspace = lead[leadOf[c]].workspace /\ row.email = lead[leadOf[c]].email
  BY <1>1, <1>2, RequestFields DEF LeadRows
<1>4. row # NULL /\ lead[leadOf[c]] # NULL
  BY <1>1, <1>3, Assumptions
<1>5. lead' = lead \/ lead' = [lead EXCEPT ![leadOf[c]] = row]
  BY DEF UpdateLead
<1> HIDE DEF row
<1> QED
  BY <1>1, <1>3, <1>4, <1>5 DEF TablesOK

\* So it keeps what is known of the e-mails of the leads.
LEMMA UpdateLeadIdentity ==
    ASSUME TypeInv, DedupInv, IdentityInv, NEW c \in Calls, UpdateLead(c)
    PROVE  IdentityInv'
<1> USE DEF TypeInv, TypeOK, At, locals
<1>1. pc[c] = "updateLead" /\ UNCHANGED <<now, request, before, leadOf, session, link, event>>
  BY DEF UpdateLead
<1>2. pc'[c] = "findLink" /\ UNCHANGED reply /\ \A d \in Calls : d # c => pc'[d] = pc[d]
  BY GotoFrame DEF UpdateLead
<1>3. StepOf(c)
  BY <1>1, <1>2, UpdateLeadRows DEF StepOf, OnlyGrow
<1>4. LeadOfCall(c)' /\ NoEarlierLead(c)' /\ NoEarlierSession(c)'
  BY <1>1, <1>2, UpdateLeadRows DEF IdentityInv, LeadOfCall, NoEarlierLead, NoEarlierSession, LinkSteps
<1>5. HoldsLead(c)'
  BY <1>1, <1>2, UpdateLeadRows DEF IdentityInv, HoldsLead, Resolved, Accepts, Returned, IsTrack, LeadSteps
<1>6. KnowsLead(c)'
  BY <1>1, <1>2, <1>3, KnowsLeadStays
<1>7. DuplicateLeadsOverlap'
  BY <1>1, UpdateLeadRows DEF IdentityInv, DuplicateLeadsOverlap
<1> QED
  BY <1>1, <1>3, <1>4, <1>5, <1>6, <1>7, SameSessions, StepKeeps DEF IdentityInv

\* A lead that is created has an e-mail of no lead of an earlier call.
LEMMA CreateLeadIdentity ==
    ASSUME TypeInv, DedupInv, IdentityInv, NEW c \in Calls, CreateLead(c)
    PROVE  IdentityInv'
<1> USE DEF TypeInv, TypeOK, At
<1>1. pc[c] = "createLead" /\ UNCHANGED <<now, request, before, session, link, event>>
  BY DEF CreateLead
<1>2. pc'[c] = "findLink" /\ UNCHANGED reply /\ \A d \in Calls : d # c => pc'[d] = pc[d]
  BY GotoFrame DEF CreateLead
<1>3. /\ leadOf'[c] = c /\ lead'[c] = NewLead(c)
      /\ \A d \in Calls : d # c => leadOf'[d] = leadOf[d] /\ lead'[d] = lead[d]
  BY DEF CreateLead, TablesOK, LocalsOK
<1>4. /\ NewLead(c).workspace = request[c].workspace
      /\ NewLead(c).email = request[c].email
  BY DEF NewLead
<1>5. NewLead(c) # NULL
  <2>1. ~IsTrack(c)
    BY <1>1 DEF CallOK, IdentifySteps
  <2> QED
    BY <1>1, <2>1, RequestFields, Assumptions DEF NewLead, LeadRows
<1>6. lead[c] = NULL
  BY <1>1 DEF IdentityInv, LeadOfCall, LinkSteps
<1>7. StepOf(c)
  BY <1>1, <1>2, <1>3, <1>6 DEF StepOf, OnlyGrow
<1>8. LeadOfCall(c)' /\ HoldsLead(c)' /\ NoEarlierLead(c)' /\ NoEarlierSession(c)'
  BY <1>1, <1>2, <1>3, <1>4, <1>5 DEF LeadOfCall, HoldsLead, Resolved, NoEarlierLead,
     NoEarlierSession, Accepts, Returned, LinkSteps
<1>9. KnowsLead(c)'
  BY <1>1, <1>2, <1>7, KnowsLeadStays
<1>10. DuplicateLeadsOverlap'
  <2>1. \A d \in Calls : c \notin before[d]
    BY <1>1, NotBefore
  <2>2. \A d \in before[c] : lead[d] # NULL /\ lead[d].workspace = request[c].workspace
                             /\ request[c].email # NULL => lead[d].email # request[c].email
    BY <1>1 DEF IdentityInv, NoEarlierLead
  <2> QED
    BY <1>1, <1>3, <1>4, <2>1, <2>2 DEF IdentityInv, DuplicateLeadsOverlap
<1> QED
  BY <1>1, <1>7, <1>8, <1>9, <1>10, SameSessions, StepKeeps DEF IdentityInv

\* Both ways of writing the link leave the visitor linked to the lead.
LEMMA WriteLinkIdentity ==
    ASSUME TypeInv, DedupInv, IdentityInv, NEW c \in Calls, pc[c] \in {"updateLink", "createLink"},
           link' = [link EXCEPT ![LinkKey(c)] = now], Goto(c, "respond"),
           UNCHANGED <<now, request, before, leadOf, session, lead, event>>
    PROVE  IdentityInv'
<1> USE DEF TypeInv, TypeOK
<1>1. pc'[c] = "respond" /\ UNCHANGED reply /\ \A d \in Calls : d # c => pc'[d] = pc[d]
  BY GotoFrame
<1>2. ~IsTrack(c) /\ Resolved(c, leadOf[c])
  BY DEF CallOK, IdentifySteps, LeadSteps, IdentityInv, HoldsLead
<1>3. LinkKey(c) \in LinkKeys /\ LinkKey(c) = <<request[c].workspace, request[c].anonymousId, leadOf[c]>>
  BY <1>2, LinkOfRequest DEF LinkKey, Resolved
<1>4. now # NULL
  BY Assumptions DEF TablesOK
<1>5. link'[LinkKey(c)] # NULL /\ \A k \in LinkKeys : link[k] # NULL => link'[k] # NULL
  BY <1>3, <1>4 DEF TablesOK
<1>6. StepOf(c)
  BY <1>1, <1>5 DEF StepOf, OnlyGrow
<1>7. LeadOfCall(c)' /\ NoEarlierLead(c)' /\ NoEarlierSession(c)'
  BY <1>1 DEF IdentityInv, LeadOfCall, NoEarlierLead, NoEarlierSession, LinkSteps
<1>8. HoldsLead(c)'
  <2>1. Resolved(c, leadOf[c])'
    BY <1>2 DEF Resolved
  <2>2. LinkedTo(c, leadOf[c])'
    BY <1>3, <1>5 DEF LinkedTo
  <2> QED
    BY <1>1, <2>1, <2>2 DEF HoldsLead, Accepts, Returned
<1>9. KnowsLead(c)'
  BY <1>1, <1>6, KnowsLeadStays
<1> QED
  BY <1>6, <1>7, <1>8, <1>9, SameLeads, SameSessions, StepKeeps DEF IdentityInv

\* An identify that answers has its lead linked.
LEMMA RespondIdentity ==
    ASSUME TypeInv, DedupInv, IdentityInv, NEW c \in Calls, Respond(c)
    PROVE  IdentityInv'
<1> USE DEF TypeInv, TypeOK, At, tables, locals
<1>1. pc[c] = "respond" /\ UNCHANGED <<now, request, before, leadOf, session, lead, link, event>>
  BY DEF Respond
<1>2. /\ pc'[c] = "done" /\ reply'[c].lead = leadOf[c]
      /\ \A d \in Calls : d # c => pc'[d] = pc[d] /\ reply'[d] = reply[d]
  BY DEF Respond, Return, ControlOK
<1>3. StepOf(c)
  BY <1>1, <1>2 DEF StepOf, OnlyGrow
<1>4. LeadOfCall(c)' /\ NoEarlierLead(c)' /\ NoEarlierSession(c)'
  BY <1>1, <1>2 DEF IdentityInv, LeadOfCall, NoEarlierLead, NoEarlierSession
<1>5. HoldsLead(c)'
  BY <1>1, <1>2 DEF IdentityInv, HoldsLead, Resolved, LinkedTo, IsTrack, LeadSteps
<1>6. KnowsLead(c)'
  BY <1>1, <1>2, <1>3, KnowsLeadStays
<1> QED
  BY <1>1, <1>3, <1>4, <1>5, <1>6, SameLeads, SameSessions, StepKeeps DEF IdentityInv

\* The clock moves on: sessions that had timed out still have.
LEMMA TickIdentity ==
    ASSUME TypeInv, IdentityInv, Tick PROVE IdentityInv'
<1>1. UNCHANGED <<session, lead, link, event, pc, request, leadOf, before, reply>> /\ now' = now + 1
  BY DEF Tick, tables, locals
<1>2. ASSUME NEW c \in Calls PROVE NoEarlierSession(c)'
  <2>1. ASSUME NEW s \in SessionIds, session[s] # NULL, session[s].startedAt + SESSION_TIMEOUT < now
        PROVE  session[s].startedAt + SESSION_TIMEOUT < now + 1
    BY <2>1, Assumptions DEF TypeInv, TypeOK, TablesOK, SessionRows, Times
  <2> QED
    BY <1>1, <2>1 DEF IdentityInv, NoEarlierSession, OfVisitor
<1> QED
  BY <1>1, <1>2 DEF IdentityInv, History, LeadOfCall, HoldsLead, Resolved, LinkedTo, NoEarlierLead,
     KnowsLead, OpenedByCall, DuplicateLeadsOverlap, SplitSessionsOverlap, Accepts, Returned,
     IsTrack, SameVisitor

\* Every step keeps what the calls know of sessions and leads.
LEMMA NextIdentityInv == TypeInv /\ DedupInv /\ IdentityInv /\ [Next]_vars => IdentityInv'
<1> SUFFICES ASSUME TypeInv, DedupInv, IdentityInv, [Next]_vars PROVE IdentityInv'
  OBVIOUS
<1>0. ControlOK /\ \A c \in Calls : CallOK(c)
  BY DEF TypeInv, TypeOK
<1> USE DEF tables, locals, At
<1>1. ASSUME NEW c \in Calls, NEW r \in Requests, Begin(c, r) PROVE IdentityInv'
  BY <1>1, BeginIdentity
<1>2. ASSUME NEW c \in Calls, CheckDuplicate(c) PROVE IdentityInv'
  <2>1. pc[c] = "checkDuplicate" /\ IsTrack(c)
        /\ UNCHANGED <<now, request, before, leadOf, session, lead, link, event>>
    BY <1>0, <1>2 DEF CheckDuplicate, CallOK, TrackSteps
  <2>2. /\ pc'[c] \in {"done", "findVisitor"}
        /\ \A d \in Calls : d # c => pc'[d] = pc[d] /\ reply'[d] = reply[d]
    BY <1>0, <1>2 DEF CheckDuplicate, Goto, Return, ControlOK
  <2>3. Quiet(c)
    BY <2>1, <2>2 DEF Quiet, LeadSteps, LinkSteps
  <2> QED
    BY <2>1, <2>2, <2>3, QuietIdentity
<1>3. ASSUME NEW c \in Calls, FindVisitor(c) \/ CreateVisitor(c) PROVE IdentityInv'
  <2>1. pc[c] \in {"findVisitor", "createVisitor"}
        /\ UNCHANGED <<now, request, before, leadOf, session, lead, link, event>>
    BY <1>3 DEF FindVisitor, CreateVisitor
  <2>2. /\ AfterVisitor(c) \in {"findSession", "getLinkedLead", "findLead", "createLead"}
        /\ AfterVisitor(c) = "createLead" => request[c].email = NULL
    BY <2>1, AfterVisitorStep DEF AfterVisitor
  <2>3. CASE \E step \in {"createVisitor", AfterVisitor(c)} : Goto(c, step)
    <3>1. /\ pc'[c] \in {"createVisitor", AfterVisitor(c)} /\ UNCHANGED reply
          /\ \A d \in Calls : d # c => pc'[d] = pc[d]
      BY <1>0, <2>3, GotoFrame
    <3>2. Quiet(c)
      BY <2>1, <2>2, <3>1 DEF Quiet, LeadSteps, LinkSteps
    <3> QED
      BY <2>1, <2>2, <3>1, <3>2, QuietIdentity
  <2>4. CASE Catch(c, "unique")
    BY <2>1, <2>4, CatchIdentity DEF InFlight, Steps, CommonSteps
  <2> QED
    BY <1>3, <2>3, <2>4 DEF FindVisitor, CreateVisitor
<1>4. ASSUME NEW c \in Calls, FindSession(c) PROVE IdentityInv'
  BY <1>4, FindSessionIdentity
<1>5. ASSUME NEW c \in Calls, CreateSession(c) PROVE IdentityInv'
  BY <1>5, CreateSessionIdentity
<1>6. ASSUME NEW c \in Calls, GetLinkedLead(c) PROVE IdentityInv'
  BY <1>6, GetLinkedLeadIdentity
<1>7. ASSUME NEW c \in Calls, CreateEvent(c) PROVE IdentityInv'
  BY <1>7, CreateEventIdentity
<1>8. ASSUME NEW c \in Calls, FindLead(c) PROVE IdentityInv'
  BY <1>8, FindLeadIdentity
<1>9. ASSUME NEW c \in Calls, UpdateLead(c) PROVE IdentityInv'
  BY <1>9, UpdateLeadIdentity
<1>10. ASSUME NEW c \in Calls, CreateLead(c) PROVE IdentityInv'
  BY <1>10, CreateLeadIdentity
<1>11. ASSUME NEW c \in Calls, FindLink(c) PROVE IdentityInv'
  <2>1. pc[c] = "findLink" /\ UNCHANGED <<now, request, before, leadOf, session, lead, link, event>>
    BY <1>11 DEF FindLink
  <2>2. /\ pc'[c] \in {"createLink", "updateLink"} /\ UNCHANGED reply
        /\ \A d \in Calls : d # c => pc'[d] = pc[d]
    BY <1>0, <1>11, GotoFrame DEF FindLink
  <2>3. Quiet(c)
    BY <2>1, <2>2 DEF Quiet, LeadSteps, LinkSteps
  <2> QED
    BY <2>1, <2>2, <2>3, QuietIdentity
<1>12. ASSUME NEW c \in Calls, UpdateLink(c) PROVE IdentityInv'
  BY <1>12, WriteLinkIdentity DEF UpdateLink
<1>13. ASSUME NEW c \in Calls, CreateLink(c) PROVE IdentityInv'
  <2>1. CASE Catch(c, "unique") /\ UNCHANGED link
    BY <1>13, <2>1, CatchIdentity DEF CreateLink, InFlight, Steps, IdentifySteps
  <2> QED
    BY <1>13, <2>1, WriteLinkIdentity DEF CreateLink
<1>14. ASSUME NEW c \in Calls, Respond(c) PROVE IdentityInv'
  BY <1>14, RespondIdentity
<1>15. ASSUME NEW c \in Calls, DatabaseError(c) PROVE IdentityInv'
  BY <1>15, CatchIdentity DEF DatabaseError
<1>16. CASE Tick
  BY <1>16, TickIdentity
<1>17. CASE UNCHANGED vars
  BY <1>17 DEF vars, IdentityInv, History, LeadOfCall, HoldsLead, Resolved, LinkedTo, NoEarlierLead,
     KnowsLead, NoEarlierSession, OpenedByCall, DuplicateLeadsOverlap, SplitSessionsOverlap, Accepts,
     Returned, IsTrack, SameVisitor, OfVisitor
<1> QED
  BY <1>1, <1>2, <1>3, <1>4, <1>5, <1>6, <1>7, <1>8, <1>9, <1>10, <1>11, <1>12, <1>13, <1>14, <1>15, <1>16, <1>17 DEF Next, Progress, AllReturned

\* The invariant of all three parts, in every reachable state.
THEOREM IdentityInductive == Spec => [](TypeInv /\ IdentityInv)
<1>1. Init => TypeInv /\ DedupInv /\ IdentityInv
  BY InitTypeInv, InitDedupInv, InitIdentityInv
<1>2. TypeInv /\ DedupInv /\ IdentityInv /\ [Next]_vars => (TypeInv /\ DedupInv /\ IdentityInv)'
  BY NextTypeInv, NextDedupInv, NextIdentityInv
<1> QED
  BY <1>1, <1>2, PTL DEF Spec

\* A visitor gets two sessions within one timeout only from overlapping calls.
THEOREM SplitSessionsOnlyByOverlap == Spec => []SplitSessionsOverlap
<1>1. IdentityInv => SplitSessionsOverlap
  BY DEF IdentityInv
<1> QED
  BY <1>1, IdentityInductive, PTL

\* Two leads of a workspace share an e-mail only if their calls overlapped.
THEOREM DuplicateLeadsOnlyByOverlap == Spec => []DuplicateLeadsOverlap
<1>1. IdentityInv => DuplicateLeadsOverlap
  BY DEF IdentityInv
<1> QED
  BY <1>1, IdentityInductive, PTL

\* An event tracked after an identify of its visitor has a lead.
THEOREM Attribution == Spec => []IdentifiedEventsHaveLead
<1>1. IdentityInv => IdentifiedEventsHaveLead
  BY DEF IdentityInv, KnowsLead, IdentifiedEventsHaveLead
<1> QED
  BY <1>1, IdentityInductive, PTL

\* An accepted identify linked its visitor to a lead with its e-mail.
THEOREM IdentifyResolves == Spec => []IdentityResolved
<1>1. TypeInv /\ IdentityInv => IdentityResolved
  <2> SUFFICES ASSUME TypeInv, IdentityInv, NEW c \in Calls, Accepts(c), ~IsTrack(c)
               PROVE  Resolved(c, reply[c].lead) /\ LinkedTo(c, reply[c].lead)
    BY DEF IdentityResolved, Resolved, LinkedTo
  <2> QED
    BY DEF IdentityInv, HoldsLead, Accepts, Returned
<1> QED
  BY <1>1, IdentityInductive, PTL
-----------------------------------------------------------------------------
(* Submissions repeated one after the other.                               *)

\* The call repeats an event id that an earlier call had accepted.
Repeats(c) == \E d \in before[c] : Accepts(d) /\ SameSubmission(c, d)

\* Such a call ends at its check: it is told of the row, or its query failed.
RepeatIsDuplicate(c) ==
    Repeats(c) => \/ pc[c] = "checkDuplicate"
                  \/ Returned(c) /\ IF reply[c].ok THEN reply[c].duplicate ELSE reply[c].why = "database"

\* A track that was accepted and is no duplicate has its own row.
FreshHasRow(c) == Accepts(c) /\ IsTrack(c) /\ ~reply[c].duplicate => event[c] # NULL

RepeatInv == \A c \in Calls : /\ pc[c] # "idle" => History(c)
                              /\ pc[c] # "idle" => RepeatIsDuplicate(c)
                              /\ FreshHasRow(c)

\* What a step of a call under way does not do.
LEMMA OneCallMoves ==
    ASSUME TypeInv, DedupInv, NEW c \in Calls, Progress(c) \/ DatabaseError(c)
    PROVE  /\ pc[c] \notin {"idle", "done"}
           /\ pc'[c] \notin {"idle", "checkDuplicate"}
           /\ \A d \in Calls : d # c => pc'[d] = pc[d] /\ reply'[d] = reply[d]
           /\ \A d \in Calls : event[d] # NULL => event'[d] = event[d]
           /\ UNCHANGED <<request, before>>
<1> USE DEF TypeInv, TypeOK, ControlOK, At, Goto, Return, Catch, tables, locals
<1>1. CASE DatabaseError(c)
  BY <1>1 DEF DatabaseError, InFlight, Steps, TrackSteps, IdentifySteps, CommonSteps
<1>2. CASE CheckDuplicate(c)
  BY <1>2 DEF CheckDuplicate
<1>3. CASE FindVisitor(c) \/ CreateVisitor(c)
  <2>1. AfterVisitor(c) \notin {"idle", "checkDuplicate"}
    BY <1>3, AfterVisitorStep DEF FindVisitor, CreateVisitor, AfterVisitor
  <2> QED
    BY <1>3, <2>1 DEF FindVisitor, CreateVisitor
<1>4. CASE FindSession(c) \/ CreateSession(c) \/ GetLinkedLead(c)
  BY <1>4 DEF FindSession, CreateSession, GetLinkedLead
<1>5. CASE CreateEvent(c)
  <2>1. CASE ViolatesUniqueEvent(c) \/ session[SessionFor(c)] = NULL
    BY <1>5, <2>1 DEF CreateEvent
  <2>2. CASE ~ViolatesUniqueEvent(c) /\ event' = [event EXCEPT ![c] = NewEvent(c)]
    BY <1>5, <2>2 DEF CreateEvent, TablesOK, DedupInv, EventOfCall
  <2> QED
    BY <1>5, <2>1, <2>2 DEF CreateEvent
<1>6. CASE FindLead(c) \/ UpdateLead(c) \/ CreateLead(c)
  BY <1>6 DEF FindLead, UpdateLead, CreateLead
<1>7. CASE FindLink(c) \/ UpdateLink(c) \/ CreateLink(c) \/ Respond(c)
  BY <1>7 DEF FindLink, UpdateLink, CreateLink, Respond
<1> QED
  BY <1>1, <1>2, <1>3, <1>4, <1>5, <1>6, <1>7 DEF Progress

\* A call that has begun keeps its request, one that has returned its reply,
\* and a stored event stays as it is.
LEMMA CallsKeep ==
    ASSUME TypeInv, DedupInv, [Next]_vars
    PROVE  /\ \A c \in Calls : pc[c] # "idle" => /\ pc'[c] # "idle"
                                              /\ request'[c] = request[c]
                                              /\ before'[c] = before[c]
           /\ \A c \in Calls : Returned(c) => pc'[c] = "done" /\ reply'[c] = reply[c]
           /\ \A c \in Calls : event[c] # NULL => event'[c] = event[c]
<1>1. ASSUME NEW c \in Calls, NEW r \in Requests, Begin(c, r)
      PROVE  /\ pc[c] = "idle"
             /\ \A d \in Calls : d # c => pc'[d] = pc[d] /\ request'[d] = request[d] /\ before'[d] = before[d]
             /\ UNCHANGED <<reply, event>>
  BY <1>1 DEF Begin, At, Goto, tables, TypeInv, TypeOK, ControlOK, LocalsOK
<1>2. CASE \E c \in Calls, r \in Requests : Begin(c, r)
  BY <1>1, <1>2 DEF Returned
<1>3. CASE \E c \in Calls : Progress(c) \/ DatabaseError(c)
  BY <1>3, OneCallMoves DEF Returned
<1>4. CASE Tick \/ UNCHANGED vars
  BY <1>4 DEF Tick, vars, tables, locals, Returned
<1> QED
  BY <1>2, <1>3, <1>4 DEF Next, AllReturned

\* No step but the check and the last one answers a call with success.
LEMMA NoSuccess ==
    ASSUME TypeInv, NEW c \in Calls, Progress(c), pc[c] \notin {"checkDuplicate", "respond"},
           pc'[c] = "done"
    PROVE  ~reply'[c].ok
<1>0. ControlOK
  BY DEF TypeInv, TypeOK
<1> USE DEF At, Goto
<1>1. CASE FindVisitor(c) \/ CreateVisitor(c)
  <2>1. AfterVisitor(c) # "done"
    BY <1>1, AfterVisitorStep DEF FindVisitor, CreateVisitor, AfterVisitor
  <2> QED
    BY <1>0, <1>1, <2>1, CatchFrame DEF FindVisitor, CreateVisitor, ControlOK
<1>2. CASE FindSession(c) \/ CreateSession(c) \/ GetLinkedLead(c) \/ CreateEvent(c)
  BY <1>0, <1>2, CatchFrame DEF FindSession, CreateSession, GetLinkedLead, CreateEvent, ControlOK
<1>3. CASE FindLead(c) \/ UpdateLead(c) \/ CreateLead(c)
  BY <1>0, <1>3 DEF FindLead, UpdateLead, CreateLead, ControlOK
<1>4. CASE FindLink(c) \/ UpdateLink(c) \/ CreateLink(c)
  BY <1>0, <1>4, CatchFrame DEF FindLink, UpdateLink, CreateLink, ControlOK
<1> QED
  BY <1>1, <1>2, <1>3, <1>4 DEF Progress, CheckDuplicate, Respond

\* Before any call there is nothing to repeat.
LEMMA InitRepeatInv == Init => RepeatInv
BY DEF Init, RepeatInv, FreshHasRow, Accepts, Returned

\* What an earlier call had answered is what it has answered.
LEMMA RepeatsAlready ==
    ASSUME TypeInv, DedupInv, RepeatInv, [Next]_vars,
           NEW c \in Calls, pc[c] # "idle", Repeats(c)'
    PROVE  Repeats(c)
<1>1. PICK d \in before'[c] : Accepts(d)' /\ SameSubmission(c, d)'
  BY DEF Repeats
<1>2. d \in Calls /\ Returned(d) /\ d \in before[c]
  BY <1>1, CallsKeep DEF RepeatInv, History, Returned, TypeInv, TypeOK, LocalsOK
<1>3. Accepts(d) /\ request'[d] = request[d] /\ request'[c] = request[c]
  BY <1>1, <1>2, CallsKeep DEF Accepts, Returned
<1> QED
  BY <1>1, <1>2, <1>3 DEF Repeats, SameSubmission, IsTrack

\* The check finds the row of the earlier call.
LEMMA CheckFinds ==
    ASSUME TypeInv, DedupInv, NEW c \in Calls, Repeats(c)
    PROVE  Duplicates(c) # {}
<1>1. PICK d \in before[c] : Accepts(d) /\ SameSubmission(c, d)
  BY DEF Repeats
<1>2. d \in Calls
  BY <1>1 DEF TypeInv, TypeOK, LocalsOK
<1>3. ReplyNamesEvent(d) /\ IsTrack(d)
  BY <1>1, <1>2 DEF DedupInv, SameSubmission
<1>4. reply[d].id \in Duplicates(c)
  BY <1>1, <1>3 DEF ReplyNamesEvent, Duplicates, SameClientEvent, SameSubmission
<1> QED
  BY <1>4

\* Every step keeps it.
LEMMA NextRepeatInv == TypeInv /\ DedupInv /\ RepeatInv /\ [Next]_vars => RepeatInv'
<1> SUFFICES ASSUME TypeInv, DedupInv, RepeatInv, [Next]_vars PROVE RepeatInv'
  OBVIOUS
<1>0. ControlOK /\ LocalsOK
  BY DEF TypeInv, TypeOK
<1>1. ASSUME NEW c \in Calls, pc[c] # "idle", pc'[c] = pc[c], reply'[c] = reply[c]
      PROVE  /\ History(c)' /\ RepeatIsDuplicate(c)' /\ FreshHasRow(c)'
  <2>1. History(c)'
    BY <1>0, <1>1, CallsKeep DEF RepeatInv, History, Returned, LocalsOK
  <2>2. RepeatIsDuplicate(c)'
    BY <1>1, RepeatsAlready DEF RepeatInv, RepeatIsDuplicate, Returned
  <2>3. FreshHasRow(c)'
    BY <1>1, CallsKeep DEF RepeatInv, FreshHasRow, Accepts, Returned, IsTrack
  <2> QED
    BY <2>1, <2>2, <2>3
<1>2. ASSUME NEW c \in Calls, NEW r \in Requests, Begin(c, r) PROVE RepeatInv'
  <2>1. /\ pc'[c] = FirstStep(r) /\ request'[c] = r /\ before'[c] = {d \in Calls : Returned(d)}
        /\ pc[c] = "idle" /\ UNCHANGED reply
        /\ \A d \in Calls : d # c => pc'[d] = pc[d]
    BY <1>0, <1>2 DEF Begin, At, Goto, ControlOK, LocalsOK
  <2>2. ASSUME NEW d \in Calls, d # c
        PROVE  /\ pc'[d] # "idle" => History(d)' /\ RepeatIsDuplicate(d)'
               /\ FreshHasRow(d)'
    BY <1>1, <2>1, <2>2 DEF FreshHasRow, Accepts, Returned
  <2>3. History(c)'
    BY <2>1 DEF History, Returned
  <2>4. RepeatIsDuplicate(c)'
    BY <2>1 DEF RepeatIsDuplicate, Repeats, SameSubmission, IsTrack, FirstStep
  <2>5. FreshHasRow(c)'
    BY <2>1 DEF FreshHasRow, Accepts, Returned, FirstStep
  <2> QED
    BY <2>2, <2>3, <2>4, <2>5 DEF RepeatInv
<1>3. ASSUME NEW c \in Calls, Progress(c) \/ DatabaseError(c),
             RepeatIsDuplicate(c)', FreshHasRow(c)'
      PROVE  RepeatInv'
  <2>1. /\ pc[c] # "idle"
        /\ \A d \in Calls : d # c => pc'[d] = pc[d] /\ reply'[d] = reply[d]
    BY <1>3, OneCallMoves
  <2>2. History(c)'
    BY <1>0, <2>1, CallsKeep DEF RepeatInv, History, Returned, LocalsOK
  <2>3. ASSUME NEW d \in Calls, d # c
        PROVE  /\ pc'[d] # "idle" => History(d)' /\ RepeatIsDuplicate(d)'
               /\ FreshHasRow(d)'
    BY <1>1, <2>1, <2>3 DEF FreshHasRow, Accepts, Returned
  <2> QED
    BY <1>3, <2>2, <2>3 DEF RepeatInv
<1>4. ASSUME NEW c \in Calls, CheckDuplicate(c) PROVE RepeatInv'
  <2>1. pc[c] = "checkDuplicate"
    BY <1>4 DEF CheckDuplicate, At
  <2>2. CASE Goto(c, "findVisitor")
    <3>1. ~Repeats(c)
      BY <1>4, <1>0, <2>2, CheckFinds DEF CheckDuplicate, Goto, Return, ControlOK
    <3> QED
      BY <1>0, <1>3, <1>4, <2>1, <2>2, <3>1, GotoFrame, RepeatsAlready
         DEF Progress, RepeatIsDuplicate, FreshHasRow, Accepts, Returned
  <2>3. ASSUME NEW d \in Duplicates(c),
               Return(c, [ok |-> TRUE, duplicate |-> TRUE, id |-> d, lead |-> NULL])
        PROVE  RepeatInv'
    <3>1. pc'[c] = "done" /\ reply'[c].ok /\ reply'[c].duplicate
      BY <1>0, <2>3 DEF Return, ControlOK
    <3> QED
      BY <1>3, <1>4, <3>1 DEF Progress, RepeatIsDuplicate, FreshHasRow, Returned
  <2> QED
    BY <1>4, <2>2, <2>3 DEF CheckDuplicate
<1>5. ASSUME NEW c \in Calls, DatabaseError(c) PROVE RepeatInv'
  <2>1. pc'[c] = "done" /\ ~reply'[c].ok /\ reply'[c].why = "database"
    BY <1>0, <1>5 DEF DatabaseError, Catch, Return, ControlOK
  <2> QED
    BY <1>3, <1>5, <2>1 DEF RepeatIsDuplicate, FreshHasRow, Accepts, Returned
<1>6. ASSUME NEW c \in Calls, Respond(c) PROVE RepeatInv'
  <2>1. pc[c] = "respond" /\ UNCHANGED <<event, request>>
    BY <1>6 DEF Respond, At, tables, locals
  <2>2. ~Repeats(c)
    BY <2>1 DEF RepeatInv, RepeatIsDuplicate, Returned
  <2>3. IsTrack(c) => event[c] # NULL
    BY <2>1 DEF DedupInv, EventOfCall
  <2>4. RepeatIsDuplicate(c)'
    BY <2>1, <2>2, RepeatsAlready DEF RepeatIsDuplicate
  <2>5. FreshHasRow(c)'
    BY <2>1, <2>3 DEF FreshHasRow, IsTrack
  <2> QED
    BY <1>3, <1>6, <2>4, <2>5 DEF Progress
<1>7. ASSUME NEW c \in Calls, Progress(c), pc[c] \notin {"checkDuplicate", "respond"} PROVE RepeatInv'
  <2>1. pc[c] # "done" /\ pc[c] # "idle"
    BY <1>7, OneCallMoves
  <2>2. ~Repeats(c)
    BY <1>7, <2>1 DEF RepeatInv, RepeatIsDuplicate, Returned
  <2>3. RepeatIsDuplicate(c)'
    BY <2>1, <2>2, RepeatsAlready DEF RepeatIsDuplicate
  <2>4. pc'[c] = "done" => ~reply'[c].ok \/ ~IsTrack(c)'
    BY <1>7, NoSuccess
  <2>5. FreshHasRow(c)'
    BY <2>4 DEF FreshHasRow, Accepts, Returned
  <2> QED
    BY <1>3, <1>7, <2>3, <2>5
<1>8. CASE Tick \/ UNCHANGED vars
  <2>1. UNCHANGED <<pc, reply, request, event, before>>
    BY <1>8 DEF Tick, vars, tables, locals
  <2> QED
    BY <2>1 DEF RepeatInv, History, RepeatIsDuplicate, Repeats, FreshHasRow, Accepts, Returned,
       SameSubmission, IsTrack
<1>9. ASSUME NEW c \in Calls, Progress(c) PROVE RepeatInv'
  <2>1. \/ CheckDuplicate(c) \/ Respond(c)
        \/ pc[c] \notin {"checkDuplicate", "respond"}
    BY <1>9 DEF Progress, At, FindVisitor, CreateVisitor, FindSession, CreateSession, GetLinkedLead,
       CreateEvent, FindLead, UpdateLead, CreateLead, FindLink, UpdateLink, CreateLink
  <2> QED
    BY <1>4, <1>6, <1>7, <1>9, <2>1
<1> QED
  BY <1>2, <1>5, <1>8, <1>9 DEF Next, AllReturned

-----------------------------------------------------------------------------
(* The controller: refusals.                                               *)

\* A batch is refused at once or not at all, the chunks of a batch stay within an accepted body, and only the events of
\* the chunks have begun.
BatchInv ==
    /\ body \in [Batches -> Bodies \cup {NULL}]
    /\ answer = [x \in Batches \cup Calls |-> answer[x]]
    /\ begun \in [Batches -> Nat]
    /\ until \in [Batches -> Nat]
    /\ \A b \in Batches :
          /\ begun[b] <= until[b]
          /\ Running(b) => ~Refuses(body[b])
          /\ until[b] > 0 => /\ body[b] # NULL
                             /\ ~Refuses(body[b])
                             /\ until[b] <= Size(b)
          /\ \A i \in 1..MAX_BATCH_SIZE :
                pc[CallOf[<<b, i>>]] # "idle" \/ CallOf[<<b, i>>] \in dispatched => i <= begun[b]

\* The calls of a batch are its own: no single call, no other batch's.
LEMMA CallsOfBatches ==
    ASSUME NEW b \in Batches, NEW i \in 1..MAX_BATCH_SIZE
    PROVE  /\ CallOf[<<b, i>>] \in Calls \ Singles
           /\ \A a \in Batches, j \in 1..MAX_BATCH_SIZE :
                 CallOf[<<a, j>>] = CallOf[<<b, i>>] => a = b /\ i = j
<1>1. <<b, i>> \in Batches \X (1..MAX_BATCH_SIZE)
  OBVIOUS
<1>2. CallOf[<<b, i>>] \in Calls
  BY <1>1, BatchAssumption
<1>3. CallOf[<<b, i>>] \in Members(b)
  BY DEF Members
<1>4. ASSUME NEW a \in Batches, NEW j \in 1..MAX_BATCH_SIZE, CallOf[<<a, j>>] = CallOf[<<b, i>>]
      PROVE  a = b /\ i = j
  <2>1. <<a, j>> = <<b, i>>
    BY <1>1, <1>4, BatchAssumption
  <2> QED
    BY <2>1
<1> QED
  BY <1>2, <1>3, <1>4 DEF Singles

\* A single call is none that processes an event of a batch.
LEMMA SinglesApart ==
    ASSUME NEW c \in Singles, NEW b \in Batches, NEW i \in 1..MAX_BATCH_SIZE
    PROVE  CallOf[<<b, i>>] \in Calls /\ CallOf[<<b, i>>] # c
<1>1. CallOf[<<b, i>>] \in Calls \ Singles
  BY CallsOfBatches
<1> QED
  BY <1>1

\* A chunk ends at or after its beginning and within the batch.
LEMMA ChunkWithinBatch ==
    ASSUME NEW m \in Bodies, NEW i \in Nat, i <= Len(m.events)
    PROVE  EndOfChunk(m, i) \in Nat /\ i <= EndOfChunk(m, i) /\ EndOfChunk(m, i) <= Len(m.events)
<1>1. Len(m.events) \in Nat
  BY BatchAssumption
<1> QED
  BY <1>1, BatchAssumption DEF EndOfChunk

\* What a call does leaves the place of the other calls alone.
LEMMA ProgressFrame ==
    ASSUME TypeInv, NEW c \in Calls, Progress(c) \/ DatabaseError(c)
    PROVE  /\ pc[c] # "idle"
           /\ \A d \in Calls : d # c => pc'[d] = pc[d]
<1> USE DEF TypeInv, TypeOK, ControlOK, At, Goto, Return, Catch
<1>1. CASE DatabaseError(c)
  BY <1>1 DEF DatabaseError, InFlight, Steps, TrackSteps, IdentifySteps, CommonSteps
<1>2. CASE CheckDuplicate(c) \/ FindVisitor(c) \/ CreateVisitor(c)
  BY <1>2 DEF CheckDuplicate, FindVisitor, CreateVisitor
<1>3. CASE FindSession(c) \/ CreateSession(c) \/ GetLinkedLead(c)
  BY <1>3 DEF FindSession, CreateSession, GetLinkedLead
<1>4. CASE CreateEvent(c) \/ FindLead(c) \/ UpdateLead(c) \/ CreateLead(c)
  BY <1>4 DEF CreateEvent, FindLead, UpdateLead, CreateLead
<1>5. CASE FindLink(c) \/ UpdateLink(c) \/ CreateLink(c) \/ Respond(c)
  BY <1>5 DEF FindLink, UpdateLink, CreateLink, Respond
<1> QED
  BY <1>1, <1>2, <1>3, <1>4, <1>5 DEF Progress

\* Every step of the controller is a step of the processor, or leaves it alone.
LEMMA StepIsProcessorStep ==
    ASSUME BatchInv, [CtlNext]_ctlVars
    PROVE  [Next]_vars
<1>1. ASSUME NEW c \in Calls, NEW r \in Requests, ReceiveCall(c, r) PROVE Next
  BY <1>1 DEF ReceiveCall, Next
<1>2. ASSUME NEW c \in Calls, Resume(c) \/ Fail(c) PROVE Next
  BY <1>2 DEF Resume, Fail, Next
<1>3. ASSUME NEW b \in Batches, BeginEvent(b) PROVE Next
  <2> DEFINE i == begun[b] + 1
  <2>1. until[b] > 0 /\ i \in 1..Size(b) /\ body[b] \in Bodies /\ Size(b) <= MAX_BATCH_SIZE
    BY <1>3, BatchAssumption DEF BeginEvent, Starting, Running, BatchInv, Refuses, Size
  <2>2. body[b].events[i] \in Requests
    BY <2>1, BatchAssumption DEF Size
  <2>3. CallOf[<<b, i>>] \in Calls
    BY <2>1, CallsOfBatches, BatchAssumption DEF Size
  <2> QED
    BY <1>3, <2>2, <2>3 DEF BeginEvent, Next
<1>4. CASE Wait
  BY <1>4 DEF Wait, Next
<1>5. ASSUME NEW c \in Calls, AnswerCall(c) PROVE UNCHANGED vars
  BY <1>5 DEF AnswerCall
<1>6. ASSUME NEW b \in Batches, NEW m \in Bodies, RefuseBatch(b, m) \/ AcceptBatch(b, m)
      PROVE  UNCHANGED vars
  BY <1>6 DEF RefuseBatch, AcceptBatch
<1>7. ASSUME NEW b \in Batches, NextChunk(b) \/ AnswerBatch(b) PROVE UNCHANGED vars
  BY <1>7 DEF NextChunk, AnswerBatch
<1>8. CASE AllAnswered \/ UNCHANGED ctlVars
  BY <1>8 DEF AllAnswered, ctlVars
<1> QED
  BY <1>1, <1>2, <1>3, <1>4, <1>5, <1>6, <1>7, <1>8 DEF CtlNext, BatchStep

\* A step that leaves the batches alone and begins none of their calls.
LEMMA BatchFrame ==
    ASSUME BatchInv, UNCHANGED <<body, begun, until>>,
           answer' = [x \in Batches \cup Calls |-> answer'[x]],
           \A b \in Batches : Running(b)' => Running(b),
           \A b \in Batches, i \in 1..MAX_BATCH_SIZE :
              /\ pc'[CallOf[<<b, i>>]] # "idle" => pc[CallOf[<<b, i>>]] # "idle"
              /\ CallOf[<<b, i>>] \in dispatched' => CallOf[<<b, i>>] \in dispatched
    PROVE  BatchInv'
<1>1. ASSUME NEW b \in Batches, until'[b] > 0
      PROVE  body'[b] # NULL /\ ~Refuses(body'[b]) /\ until'[b] <= Size(b)'
  BY <1>1 DEF BatchInv, Size
<1>2. ASSUME NEW b \in Batches, Running(b)' PROVE ~Refuses(body'[b])
  BY <1>2 DEF BatchInv
<1> QED
  BY <1>1, <1>2 DEF BatchInv

\* Before any batch arrives, none of its events has begun.
LEMMA InitBatchInv == CtlInit => BatchInv
<1> SUFFICES ASSUME CtlInit PROVE BatchInv
  OBVIOUS
<1>1. \A b \in Batches, i \in 1..MAX_BATCH_SIZE : pc[CallOf[<<b, i>>]] = "idle"
  BY CallsOfBatches DEF CtlInit, Init
<1> QED
  BY <1>1 DEF CtlInit, BatchInv, Running

\* Every step keeps the events of a batch from beginning before their turn.
LEMMA NextBatchInv == TypeInv /\ BatchInv /\ [CtlNext]_ctlVars => BatchInv'
<1> SUFFICES ASSUME TypeInv, BatchInv, [CtlNext]_ctlVars PROVE BatchInv'
  OBVIOUS
<1> USE BatchAssumption
<1>1. ASSUME NEW c \in Calls, NEW r \in Requests, ReceiveCall(c, r) PROVE BatchInv'
  <2>1. \A b \in Batches, i \in 1..MAX_BATCH_SIZE : pc'[CallOf[<<b, i>>]] = pc[CallOf[<<b, i>>]]
    <3>1. c \in Singles /\ \A d \in Calls : d # c => pc'[d] = pc[d]
      BY <1>1 DEF ReceiveCall, Begin, Goto, TypeInv, TypeOK, ControlOK
    <3> QED
      BY <3>1, SinglesApart
  <2> QED
    BY <1>1, <2>1, BatchFrame DEF ReceiveCall, batchVars, BatchInv, Running
<1>2. ASSUME NEW c \in Calls, Resume(c) \/ Fail(c) PROVE BatchInv'
  <2>1. pc[c] # "idle" /\ \A d \in Calls : d # c => pc'[d] = pc[d]
    BY <1>2, ProgressFrame DEF Resume, Fail
  <2>2. \A b \in Batches, i \in 1..MAX_BATCH_SIZE :
           pc'[CallOf[<<b, i>>]] # "idle" => pc[CallOf[<<b, i>>]] # "idle"
    BY <2>1, CallsOfBatches
  <2> QED
    BY <1>2, <2>2, BatchFrame DEF Resume, Fail, batchVars, BatchInv, Running
<1>3. ASSUME NEW b \in Batches, BeginEvent(b) PROVE BatchInv'
  <2> DEFINE k == begun[b] + 1
  <2>1. /\ begun[b] < until[b]
        /\ until[b] > 0
        /\ begun' = [begun EXCEPT ![b] = k]
        /\ UNCHANGED <<body, until, answer, dispatched>>
    BY <1>3 DEF BeginEvent, Starting, BatchInv
  <2>2. k \in 1..MAX_BATCH_SIZE
    BY <2>1 DEF BatchInv, Refuses, Size
  <2>3. \A d \in Calls : d # CallOf[<<b, k>>] => pc'[d] = pc[d]
    BY <1>3 DEF BeginEvent, Begin, Goto, TypeInv, TypeOK, ControlOK
  <2>4. ASSUME NEW a \in Batches, NEW i \in 1..MAX_BATCH_SIZE,
               pc'[CallOf[<<a, i>>]] # "idle" \/ CallOf[<<a, i>>] \in dispatched'
        PROVE  i <= begun'[a]
    <3>1. CASE a = b /\ i = k
      BY <2>1, <3>1 DEF BatchInv
    <3>2. CASE ~(a = b /\ i = k)
      <4>1. pc'[CallOf[<<a, i>>]] = pc[CallOf[<<a, i>>]]
        BY <2>2, <2>3, <3>2, CallsOfBatches
      <4> QED
        BY <2>1, <2>4, <4>1 DEF BatchInv
    <3> QED
      BY <3>1, <3>2
  <2> QED
    BY <2>1, <2>4 DEF BatchInv, Size, Refuses, Running
<1>4. CASE Wait \/ AllAnswered \/ UNCHANGED ctlVars
  BY <1>4, BatchFrame DEF Wait, AllAnswered, Tick, ctlVars, vars, batchVars, BatchInv, Running
<1>5. ASSUME NEW c \in Calls, AnswerCall(c) PROVE BatchInv'
  <2>1. dispatched' \subseteq dispatched \cup {c} /\ UNCHANGED <<pc, body, begun, until>>
    BY <1>5 DEF AnswerCall, vars
  <2>2. \A b \in Batches, i \in 1..MAX_BATCH_SIZE : CallOf[<<b, i>>] # c
    <3>1. c \in Singles
      BY <1>5 DEF AnswerCall
    <3> QED
      BY <3>1, SinglesApart
  <2>3. answer[c] = NULL /\ answer' = [answer EXCEPT ![c] = reply[c]]
    BY <1>5 DEF AnswerCall
  <2>4. \A b \in Batches : Running(b)' => Running(b)
    BY <2>1, <2>3 DEF Running, BatchInv
  <2>5. answer' = [x \in Batches \cup Calls |-> answer'[x]]
    BY <2>3 DEF BatchInv
  <2> QED
    BY <2>1, <2>2, <2>4, <2>5, BatchFrame
<1>6. ASSUME NEW b \in Batches, NEW m \in Bodies, RefuseBatch(b, m) PROVE BatchInv'
  <2>1. until[b] = 0
    BY <1>6 DEF RefuseBatch, BatchInv
  <2> DEFINE r == [refused |-> TRUE, accepted |-> 0, results |-> << >>]
  <2>2. r # NULL
    <3>1. r \in BatchAnswers
      BY DEF BatchAnswers
    <3> QED
      BY <3>1
  <2>3. /\ UNCHANGED <<pc, begun, until, dispatched>>
        /\ body' = [body EXCEPT ![b] = m]
        /\ answer' = [answer EXCEPT ![b] = r]
    BY <1>6 DEF RefuseBatch, vars
  <2> HIDE DEF r
  <2>4. /\ answer' = [x \in Batches \cup Calls |-> answer'[x]]
        /\ answer'[b] # NULL
        /\ \A a \in Batches : a # b => answer'[a] = answer[a] /\ body'[a] = body[a]
    BY <2>2, <2>3 DEF BatchInv
  <2>5. ASSUME NEW a \in Batches, Running(a)' PROVE ~Refuses(body'[a])
    BY <2>4, <2>5 DEF BatchInv, Running
  <2>6. ASSUME NEW a \in Batches, until'[a] > 0
        PROVE  body'[a] # NULL /\ ~Refuses(body'[a]) /\ until'[a] <= Size(a)'
    BY <2>1, <2>3, <2>4, <2>6 DEF BatchInv, Size
  <2> QED
    BY <2>3, <2>4, <2>5, <2>6 DEF BatchInv
<1>7. ASSUME NEW b \in Batches, NEW m \in Bodies, AcceptBatch(b, m) PROVE BatchInv'
  <2>1. until[b] = 0 /\ begun[b] = 0
    BY <1>7 DEF AcceptBatch, BatchInv
  <2>2. EndOfChunk(m, 0) \in Nat /\ EndOfChunk(m, 0) <= Len(m.events)
    <3>1. Len(m.events) \in Nat
      OBVIOUS
    <3> QED
      BY <3>1, ChunkWithinBatch
  <2>3. body' = [body EXCEPT ![b] = m] /\ until' = [until EXCEPT ![b] = EndOfChunk(m, 0)]
        /\ UNCHANGED <<pc, begun, answer, dispatched>> /\ ~Refuses(m)
    BY <1>7 DEF AcceptBatch, vars
  <2> QED
    BY <2>1, <2>2, <2>3 DEF BatchInv, Size, Refuses, Running
<1>8. ASSUME NEW b \in Batches, NextChunk(b) PROVE BatchInv'
  <2>1. body[b] \in Bodies /\ until[b] \in Nat /\ until[b] <= Size(b)
    BY <1>8 DEF NextChunk, Running, BatchInv, Size, Refuses
  <2>2. /\ EndOfChunk(body[b], until[b]) \in Nat
        /\ until[b] <= EndOfChunk(body[b], until[b])
        /\ EndOfChunk(body[b], until[b]) <= Size(b)
    BY <2>1, ChunkWithinBatch DEF Size
  <2>3. /\ UNCHANGED <<pc, body, begun, answer, dispatched>>
        /\ until' = [until EXCEPT ![b] = EndOfChunk(body[b], until[b])]
    BY <1>8 DEF NextChunk, vars
  <2>4. ~Refuses(body[b])
    BY <1>8, <2>1 DEF NextChunk, BatchInv
  <2> QED
    BY <2>1, <2>2, <2>3, <2>4 DEF BatchInv, Size, Refuses, Running
<1>9. ASSUME NEW b \in Batches, AnswerBatch(b) PROVE BatchInv'
  <2>1. UNCHANGED <<pc, body, begun, until>> /\ begun[b] = until[b] /\ until[b] = Size(b)
    BY <1>9 DEF AnswerBatch, vars, ThreadIsFree, Starting, BatchInv
  <2>2. Cardinality(Successes(b)) \in Nat /\ Cardinality(Successes(b)) <= Size(b)
    <3>1. Size(b) \in Nat
      BY <2>1 DEF BatchInv
    <3>2. IsFiniteSet(1..Size(b)) /\ Cardinality(1..Size(b)) = Size(b)
      BY <3>1, FS_Interval
    <3>3. Successes(b) \subseteq 1..Size(b)
      BY DEF Successes
    <3>4. IsFiniteSet(Successes(b)) /\ Cardinality(Successes(b)) <= Cardinality(1..Size(b))
      BY <3>2, <3>3, FS_Subset
    <3> QED
      BY <3>2, <3>4, FS_CardinalityType
  <2>3. /\ dispatched' = dispatched \cup BatchForFunnels(b)
        /\ Running(b)
        /\ answer' = [answer EXCEPT ![b] = answer'[b]]
    BY <1>9 DEF AnswerBatch, BatchInv
  <2>4. ASSUME NEW a \in Batches, NEW i \in 1..MAX_BATCH_SIZE,
               CallOf[<<a, i>>] \in BatchForFunnels(b)
        PROVE  a = b /\ i <= begun[b]
    <3>1. Size(b) \in Nat /\ (Size(b) > 0 => Size(b) <= MAX_BATCH_SIZE)
      BY <2>1 DEF BatchInv, Refuses, Size
    <3>2. PICK j \in 1..Cardinality(Successes(b)) : CallOf[<<a, i>>] = CallOf[<<b, j>>]
      BY <2>4 DEF BatchForFunnels
    <3>3. j \in 1..MAX_BATCH_SIZE /\ j <= begun[b]
      BY <2>1, <2>2, <3>1
    <3> QED
      BY <3>2, <3>3, CallsOfBatches
  <2>5. answer' = [x \in Batches \cup Calls |-> answer'[x]]
    BY <2>3 DEF BatchInv
  <2>6. ASSUME NEW a \in Batches, Running(a)' PROVE Running(a)
    BY <2>1, <2>3, <2>6 DEF BatchInv, Running
  <2> QED
    BY <2>1, <2>3, <2>4, <2>5, <2>6 DEF BatchInv, Size, Refuses
<1> QED
  BY <1>1, <1>2, <1>3, <1>4, <1>5, <1>6, <1>7, <1>8, <1>9 DEF CtlNext, BatchStep

\* The controller does to the tables what the event processor does.
THEOREM CtlImplementsProcessor == CtlSpec => Init /\ [][Next]_vars
<1>1. CtlInit => Init /\ TypeInv /\ BatchInv
  BY InitTypeInv, InitBatchInv DEF CtlInit
<1>2. TypeInv /\ BatchInv /\ [CtlNext]_ctlVars => (TypeInv /\ BatchInv)' /\ [Next]_vars
  BY StepIsProcessorStep, NextTypeInv, NextBatchInv
<1> QED
  BY <1>1, <1>2, PTL DEF CtlSpec

\* However batches and single calls interleave, all the accepted submissions
\* of an event id name one stored event.
THEOREM CtlDedupIdempotent == CtlSpec => []IdempotentReplies
<1>1. Init => TypeInv /\ DedupInv
  BY InitTypeInv, InitDedupInv
<1>2. TypeInv /\ DedupInv /\ [Next]_vars => (TypeInv /\ DedupInv)'
  BY NextTypeInv, NextDedupInv
<1>3. DedupInv => IdempotentReplies
  BY DEF DedupInv, IdempotentReplies, ReplyNamesEvent, UniqueClientEvent, SameSubmission
<1> QED
  BY <1>1, <1>2, <1>3, CtlImplementsProcessor, PTL

\* A refused batch never leaves an event in the table or in the funnels.
THEOREM CtlRefusal == CtlSpec => []RefusedBatchLeavesNothing
<1>1. CtlInit => Init /\ TypeInv /\ DedupInv /\ BatchInv
  BY InitTypeInv, InitDedupInv, InitBatchInv DEF CtlInit
<1>2. TypeInv /\ DedupInv /\ BatchInv /\ [CtlNext]_ctlVars => (TypeInv /\ DedupInv /\ BatchInv)'
  BY StepIsProcessorStep, NextTypeInv, NextDedupInv, NextBatchInv
<1>3. DedupInv /\ BatchInv => RefusedBatchLeavesNothing
  <2> SUFFICES ASSUME DedupInv, BatchInv,
                      NEW b \in Batches, NEW i \in 1..MAX_BATCH_SIZE,
                      Stored(b, i) \/ CallOf[<<b, i>>] \in dispatched
               PROVE  body[b].late = {} /\ Size(b) <= MAX_BATCH_SIZE
    BY DEF RefusedBatchLeavesNothing
  <2>1. i <= begun[b]
    BY CallsOfBatches DEF DedupInv, EventOfCall, BatchInv, Stored
  <2>2. ~Refuses(body[b])
    BY <2>1, BatchAssumption DEF BatchInv
  <2> QED
    BY <2>2, BatchAssumption DEF Refuses, Size, BatchInv
<1> QED
  BY <1>1, <1>2, <1>3, PTL DEF CtlSpec
-----------------------------------------------------------------------------
(* What a batch works on, in which order, and what it answers.             *)

\* Where the q-th chunk, counted from 0, begins.
Start(q) == CHUNK * q

\* The calls of a batch carry its events.
WorkOf(b) ==
    \A i \in 1..begun[b] : /\ pc[CallOf[<<b, i>>]] # "idle"
                           /\ request[CallOf[<<b, i>>]] = body[b].events[i]

\* A batch is in one of its chunks, and the earlier chunks have returned.
ChunkOf(b) ==
    until[b] > 0 =>
        \E q \in Nat : /\ Start(q) <= begun[b]
                       /\ Start(q) < until[b]
                       /\ until[b] <= Start(q) + CHUNK
                       /\ until[b] = Start(q) + CHUNK \/ until[b] = Size(b)
                       /\ \A i \in 1..Start(q) : Returned(CallOf[<<b, i>>])

\* An event of an earlier chunk had returned when one of a later chunk began.
OrderOf(b) ==
    \A q \in Nat, i, j \in 1..begun[b] :
        i <= Start(q) /\ Start(q) < j => CallOf[<<b, i>>] \in before[CallOf[<<b, j>>]]

\* The answer tells what the calls of the batch have returned.
AnswerOf(b) ==
    Answered(b) =>
        /\ body[b] # NULL /\ ~Refuses(body[b])
        /\ begun[b] = Size(b)
        /\ \A i \in 1..Size(b) : Returned(CallOf[<<b, i>>])
        /\ answer[b].accepted = Cardinality(Successes(b))
        /\ answer[b].results = [i \in 1..Size(b) |-> reply[CallOf[<<b, i>>]]]

BatchOK(b) == WorkOf(b) /\ ChunkOf(b) /\ OrderOf(b) /\ AnswerOf(b)

\* What goes to the funnels from a single request is an accepted track.
SingleOK(c) == c \in dispatched => Accepts(c) /\ IsTrack(c)

AnswerInv == (\A b \in Batches : BatchOK(b)) /\ (\A c \in Singles : SingleOK(c))

\* The chunks follow each other, each as long as the first.
LEMMA Starts ==
    /\ Start(0) = 0
    /\ \A q \in Nat : /\ Start(q) \in Nat
                      /\ Start(q + 1) = Start(q) + CHUNK
                      /\ \A p \in Nat : p <= q => Start(p) <= Start(q)
                      /\ \A p \in Nat : Start(p) < Start(q + 1) => Start(p) <= Start(q)
<1>1. CHUNK \in Nat /\ CHUNK > 0
  BY BatchAssumption
<1>2. ASSUME NEW q \in Nat, NEW p \in Nat, p <= q PROVE CHUNK * p <= CHUNK * q
  <2>1. PICK d \in Nat : q = p + d
    <3>1. q - p \in Nat /\ q = p + (q - p)
      BY <1>2
    <3> QED
      BY <3>1
  <2>2. CHUNK * q = CHUNK * p + CHUNK * d /\ CHUNK * d \in Nat /\ CHUNK * p \in Nat
    BY <1>1, <2>1
  <2> QED
    BY <2>2
<1>3. ASSUME NEW q \in Nat, NEW p \in Nat, CHUNK * p < CHUNK * (q + 1) PROVE CHUNK * p <= CHUNK * q
  <2>1. CASE p <= q
    BY <1>2, <2>1
  <2>2. CASE q + 1 <= p
    <3>1. CHUNK * (q + 1) <= CHUNK * p
      BY <1>2, <2>2
    <3>2. CHUNK * (q + 1) \in Nat /\ CHUNK * p \in Nat
      BY <1>1
    <3> QED
      BY <1>3, <3>1, <3>2
  <2> QED
    BY <2>1, <2>2
<1>4. ASSUME NEW q \in Nat PROVE CHUNK * q \in Nat /\ CHUNK * (q + 1) = CHUNK * q + CHUNK
  BY <1>1
<1>5. CHUNK * 0 = 0
  BY <1>1
<1> QED
  BY <1>2, <1>3, <1>4, <1>5 DEF Start

\* What has begun is within the bound, and is a call of the processor.
LEMMA BegunInRange ==
    ASSUME BatchInv, NEW b \in Batches, NEW i \in 1..begun[b]
    PROVE  /\ i \in 1..MAX_BATCH_SIZE
           /\ CallOf[<<b, i>>] \in Calls
           /\ body[b] \in Bodies
           /\ i \in 1..Size(b)
<1>1. until[b] > 0 /\ i \in Nat \ {0} /\ i <= until[b]
  BY DEF BatchInv
<1>2. body[b] \in Bodies /\ ~Refuses(body[b]) /\ until[b] <= Size(b)
  BY <1>1 DEF BatchInv
<1>3. Size(b) \in Nat /\ Size(b) <= MAX_BATCH_SIZE
  BY <1>2, BatchAssumption DEF Refuses, Size
<1>4. i \in 1..MAX_BATCH_SIZE /\ i \in 1..Size(b)
  BY <1>1, <1>2, <1>3, BatchAssumption DEF BatchInv
<1> QED
  BY <1>2, <1>4, CallsOfBatches

\* A step that is not one of its own leaves what a batch works on.
LEMMA BatchKeeps ==
    ASSUME TypeInv, DedupInv, BatchInv, AnswerInv, [Next]_vars, NEW b \in Batches,
           body'[b] = body[b], begun'[b] = begun[b], until'[b] = until[b], answer'[b] = answer[b]
    PROVE  BatchOK(b)'
<1> USE DEF AnswerInv, BatchOK
<1>1. WorkOf(b)'
  BY BegunInRange, CallsKeep DEF WorkOf
<1>2. Size(b)' = Size(b)
  BY DEF Size
<1>3. ChunkOf(b)'
  <2> SUFFICES ASSUME until[b] > 0 PROVE ChunkOf(b)'
    BY DEF ChunkOf
  <2>1. PICK q \in Nat : /\ Start(q) <= begun[b]
                         /\ Start(q) < until[b]
                         /\ until[b] <= Start(q) + CHUNK
                         /\ until[b] = Start(q) + CHUNK \/ until[b] = Size(b)
                         /\ \A i \in 1..Start(q) : Returned(CallOf[<<b, i>>])
    BY DEF ChunkOf
  <2>2. ASSUME NEW i \in 1..Start(q) PROVE Returned(CallOf[<<b, i>>])'
    <3>1. i \in 1..begun[b]
      BY <2>1, Starts DEF BatchInv
    <3> QED
      BY <2>1, <2>2, <3>1, BegunInRange, CallsKeep DEF Returned
  <2> QED
    BY <1>2, <2>1, <2>2 DEF ChunkOf, Start
<1>4. OrderOf(b)'
  <2> SUFFICES ASSUME NEW q \in Nat, NEW i \in 1..begun[b], NEW j \in 1..begun[b],
                      i <= Start(q), Start(q) < j
               PROVE  CallOf[<<b, i>>] \in before'[CallOf[<<b, j>>]]
    BY DEF OrderOf, Start
  <2> QED
    BY BegunInRange, CallsKeep DEF OrderOf, WorkOf
<1>5. AnswerOf(b)'
  <2> SUFFICES ASSUME Answered(b) PROVE AnswerOf(b)'
    BY DEF AnswerOf, Answered
  <2>1. \A i \in 1..Size(b) : /\ Returned(CallOf[<<b, i>>])'
                              /\ reply'[CallOf[<<b, i>>]] = reply[CallOf[<<b, i>>]]
    BY BegunInRange, CallsKeep DEF AnswerOf, Returned
  <2>2. Successes(b)' = Successes(b)
    BY <1>2, <2>1 DEF Successes
  <2> QED
    BY <1>2, <2>1, <2>2 DEF AnswerOf
<1> QED
  BY <1>1, <1>3, <1>4, <1>5

\* A single call that went to the funnels stays an accepted track.
LEMMA SingleKeeps ==
    ASSUME TypeInv, DedupInv, AnswerInv, [Next]_vars, NEW c \in Singles,
           c \in dispatched' => c \in dispatched \/ (Accepts(c) /\ IsTrack(c))
    PROVE  SingleOK(c)'
<1>1. c \in Calls
  BY DEF Singles
<1>2. ASSUME Accepts(c), IsTrack(c) PROVE Accepts(c)' /\ IsTrack(c)'
  BY <1>1, <1>2, CallsKeep DEF Accepts, Returned, IsTrack
<1> QED
  BY <1>2 DEF AnswerInv, SingleOK

\* The events of a batch are finitely many, and each of them succeeds or fails.
LEMMA SuccessesCounted ==
    ASSUME NEW b \in Batches, Size(b) \in Nat
    PROVE  /\ Cardinality(Successes(b)) \in Nat
           /\ Cardinality(Successes(b)) <= Size(b)
           /\ Cardinality((1..Size(b)) \ Successes(b)) = Size(b) - Cardinality(Successes(b))
<1>1. IsFiniteSet(1..Size(b)) /\ Cardinality(1..Size(b)) = Size(b)
  BY FS_Interval
<1>2. Successes(b) \subseteq 1..Size(b)
  BY DEF Successes
<1>3. IsFiniteSet(Successes(b)) /\ Cardinality(Successes(b)) <= Size(b)
  BY <1>1, <1>2, FS_Subset
<1>4. (1..Size(b)) \cap Successes(b) = Successes(b)
  BY <1>2
<1>5. Cardinality(Successes(b)) \in Nat
  BY <1>3, FS_CardinalityType
<1>6. Cardinality((1..Size(b)) \ Successes(b)) = Cardinality(1..Size(b)) - Cardinality((1..Size(b)) \cap Successes(b))
  BY <1>1, FS_Difference
<1> QED
  BY <1>1, <1>3, <1>4, <1>5, <1>6

\* Nothing has begun before anything arrives.
LEMMA InitAnswerInv == CtlInit => AnswerInv
BY DEF CtlInit, AnswerInv, BatchOK, WorkOf, ChunkOf, OrderOf, AnswerOf, SingleOK, Answered

\* Every step of the controller keeps what the batches work on and answer.
LEMMA NextAnswerInv ==
    TypeInv /\ DedupInv /\ BatchInv /\ AnswerInv /\ [CtlNext]_ctlVars => AnswerInv'
<1> SUFFICES ASSUME TypeInv, DedupInv, BatchInv, AnswerInv, [CtlNext]_ctlVars PROVE AnswerInv'
  OBVIOUS
<1>0. [Next]_vars
  BY StepIsProcessorStep
<1>1. ASSUME NEW b \in Batches, BatchOK(b)', UNCHANGED dispatched,
             \A a \in Batches : a # b => /\ body'[a] = body[a] /\ begun'[a] = begun[a]
                                         /\ until'[a] = until[a] /\ answer'[a] = answer[a]
      PROVE  AnswerInv'
  <2>1. \A c \in Singles : SingleOK(c)'
    BY <1>0, <1>1, SingleKeeps
  <2>2. \A a \in Batches : BatchOK(a)'
    BY <1>0, <1>1, BatchKeeps
  <2> QED
    BY <2>1, <2>2 DEF AnswerInv, Singles, Members
<1>2. ASSUME UNCHANGED <<body, begun, until>>, \A b \in Batches : answer'[b] = answer[b],
             \A c \in Singles : c \in dispatched' => c \in dispatched \/ (Accepts(c) /\ IsTrack(c))
      PROVE  AnswerInv'
  <2>1. \A c \in Singles : SingleOK(c)'
    BY <1>0, <1>2, SingleKeeps
  <2>2. \A a \in Batches : BatchOK(a)'
    BY <1>0, <1>2, BatchKeeps
  <2> QED
    BY <2>1, <2>2 DEF AnswerInv, Singles, Members
<1>3. ASSUME NEW c \in Calls, (\E r \in Requests : ReceiveCall(c, r)) \/ Resume(c) \/ Fail(c)
      PROVE  AnswerInv'
  BY <1>2, <1>3 DEF ReceiveCall, Resume, Fail, batchVars
<1>4. CASE Wait \/ AllAnswered \/ UNCHANGED ctlVars
  BY <1>2, <1>4 DEF Wait, AllAnswered, ctlVars, batchVars
<1>5. ASSUME NEW c \in Calls, AnswerCall(c) PROVE AnswerInv'
  <2>1. c \notin Batches /\ Returned(c)
    BY <1>5, BatchAssumption DEF AnswerCall
  <2>2. \A b \in Batches : answer'[b] = answer[b]
    BY <1>5, <2>1 DEF AnswerCall, BatchInv
  <2>3. \A d \in dispatched' : d \in dispatched \/ (Accepts(d) /\ IsTrack(d))
    BY <1>5, <2>1 DEF AnswerCall, ForFunnels, Accepts
  <2> QED
    BY <1>2, <1>5, <2>2, <2>3 DEF AnswerCall
<1>6. ASSUME NEW b \in Batches, NEW m \in Bodies, RefuseBatch(b, m) PROVE AnswerInv'
  <2>1. body[b] = NULL /\ until[b] = 0 /\ begun[b] = 0
    BY <1>6 DEF RefuseBatch, BatchInv
  <2>2. /\ UNCHANGED <<begun, until, dispatched>>
        /\ answer'[b].refused
        /\ \A a \in Batches : a # b => body'[a] = body[a] /\ answer'[a] = answer[a]
    BY <1>6 DEF RefuseBatch, BatchInv
  <2>3. BatchOK(b)'
    BY <2>1, <2>2 DEF BatchOK, WorkOf, ChunkOf, OrderOf, AnswerOf, Answered
  <2> QED
    BY <1>1, <2>2, <2>3
<1>7. ASSUME NEW b \in Batches, NEW m \in Bodies, AcceptBatch(b, m) PROVE AnswerInv'
  <2>1. body[b] = NULL /\ until[b] = 0 /\ begun[b] = 0
    BY <1>7 DEF AcceptBatch, BatchInv
  <2>2. /\ UNCHANGED <<begun, answer, dispatched>>
        /\ body'[b] = m /\ until'[b] = EndOfChunk(m, 0)
        /\ \A a \in Batches : a # b => body'[a] = body[a] /\ until'[a] = until[a]
    BY <1>7 DEF AcceptBatch, BatchInv
  <2>3. ~Answered(b)'
    BY <2>1, <2>2 DEF AnswerInv, BatchOK, AnswerOf, Answered
  <2>4. ChunkOf(b)'
    <3>1. Len(m.events) \in Nat /\ CHUNK \in Nat /\ CHUNK > 0
      BY BatchAssumption
    <3>2. 0 \in Nat /\ Start(0) = 0
      BY Starts
    <3>3. Size(b)' = Len(m.events)
      BY <2>2 DEF Size
    <3>4. /\ EndOfChunk(m, 0) <= CHUNK
          /\ EndOfChunk(m, 0) = CHUNK \/ EndOfChunk(m, 0) = Len(m.events)
      BY <3>1 DEF EndOfChunk
    <3>5. Start(0)' = 0
      BY <3>2 DEF Start
    <3> SUFFICES ASSUME until'[b] > 0
                 PROVE  /\ 0 <= begun'[b]
                        /\ 0 < until'[b]
                        /\ until'[b] <= 0 + CHUNK
                        /\ until'[b] = 0 + CHUNK \/ until'[b] = Size(b)'
                        /\ \A i \in 1..0 : Returned(CallOf[<<b, i>>])'
      BY <3>2, <3>5 DEF ChunkOf
    <3> QED
      BY <2>1, <2>2, <3>1, <3>3, <3>4
  <2>5. BatchOK(b)'
    BY <2>1, <2>2, <2>3, <2>4 DEF BatchOK, WorkOf, OrderOf, AnswerOf
  <2> QED
    BY <1>1, <2>2, <2>5
<1>8. ASSUME NEW b \in Batches, BeginEvent(b) PROVE AnswerInv'
  <2> DEFINE k == begun[b] + 1
  <2>1. /\ begun'[b] = k /\ begun[b] < until[b] /\ answer[b] = NULL
        /\ UNCHANGED <<body, until, answer, dispatched>>
        /\ \A a \in Batches : a # b => begun'[a] = begun[a]
        /\ Begin(CallOf[<<b, k>>], body[b].events[k])
    BY <1>8 DEF BeginEvent, Starting, Running, BatchInv
  <2>2. begun[b] \in Nat /\ BatchInv'
    BY NextBatchInv DEF BatchInv
  <2>3. \A i \in 1..k : i \in 1..MAX_BATCH_SIZE /\ CallOf[<<b, i>>] \in Calls /\ i \in 1..Size(b)
    <3>1. until[b] > 0 /\ until[b] \in Nat
      BY <2>1 DEF BatchInv
    <3>2. body[b] \in Bodies /\ ~Refuses(body[b]) /\ until[b] <= Size(b)
      BY <3>1 DEF BatchInv
    <3>3. Size(b) \in Nat /\ Size(b) <= MAX_BATCH_SIZE
      BY <3>2, BatchAssumption DEF Refuses, Size
    <3> QED
      BY <2>1, <2>2, <3>1, <3>2, <3>3, CallsOfBatches, BatchAssumption
  <2>4. CallOf[<<b, k>>] \in Calls /\ \A i \in 1..begun[b] : CallOf[<<b, i>>] # CallOf[<<b, k>>]
    <3>1. k \in 1..k /\ \A i \in 1..begun[b] : i \in 1..k /\ i # k
      BY <2>2
    <3>2. ASSUME NEW i \in 1..begun[b] PROVE CallOf[<<b, i>>] # CallOf[<<b, k>>]
      <4>1. i \in 1..MAX_BATCH_SIZE /\ k \in 1..MAX_BATCH_SIZE /\ i # k
        BY <2>3, <3>1
      <4>2. \A h, j \in 1..MAX_BATCH_SIZE : h # j => CallOf[<<b, h>>] # CallOf[<<b, j>>]
        BY CallsOfBatches
      <4> QED
        BY <4>1, <4>2
    <3> QED
      BY <2>3, <3>1, <3>2
  <2>5. /\ request'[CallOf[<<b, k>>]] = body[b].events[k]
        /\ pc'[CallOf[<<b, k>>]] # "idle"
        /\ before'[CallOf[<<b, k>>]] = {d \in Calls : Returned(d)}
    BY <2>1, <2>4 DEF Begin, Goto, FirstStep, TypeInv, TypeOK, ControlOK, LocalsOK
  <2>6. \A i \in 1..begun[b] : /\ pc'[CallOf[<<b, i>>]] # "idle"
                               /\ request'[CallOf[<<b, i>>]] = body[b].events[i]
                               /\ before'[CallOf[<<b, i>>]] = before[CallOf[<<b, i>>]]
    BY <1>0, <2>3, BegunInRange, CallsKeep DEF AnswerInv, BatchOK, WorkOf
  <2>7. \A i \in 1..k : i \in 1..begun[b] \/ i = k
    BY <2>2
  <2>8. WorkOf(b)'
    BY <2>1, <2>5, <2>6, <2>7 DEF WorkOf
  <2>9. PICK q \in Nat : /\ Start(q) <= begun[b]
                         /\ Start(q) < until[b]
                         /\ until[b] <= Start(q) + CHUNK
                         /\ until[b] = Start(q) + CHUNK \/ until[b] = Size(b)
                         /\ \A i \in 1..Start(q) : Returned(CallOf[<<b, i>>])
    BY <2>1, <2>2 DEF AnswerInv, BatchOK, ChunkOf, BatchInv
  <2>10. ChunkOf(b)'
    <3>1. \A i \in 1..Start(q) : Returned(CallOf[<<b, i>>])'
      <4>1. \A i \in 1..Start(q) : i \in 1..begun[b]
        BY <2>2, <2>9, Starts
      <4> QED
        BY <1>0, <2>9, <4>1, BegunInRange, CallsKeep DEF Returned
    <3>2. Start(q) <= begun'[b] /\ Size(b)' = Size(b) /\ Start(q)' = Start(q)
      <4>1. Start(q) \in Nat
        BY Starts
      <4>2. Start(q) <= begun'[b]
        BY <2>1, <2>2, <2>9, <4>1
      <4> QED
        BY <2>1, <4>2 DEF Size, Start
    <3> QED
      BY <2>1, <2>9, <3>1, <3>2 DEF ChunkOf
  <2>11. OrderOf(b)'
    <3> SUFFICES ASSUME NEW p \in Nat, NEW i \in 1..k, NEW j \in 1..k, i <= Start(p), Start(p) < j
                 PROVE  CallOf[<<b, i>>] \in before'[CallOf[<<b, j>>]]
      BY <2>1 DEF OrderOf, Start
    <3>1. i \in 1..begun[b] /\ i < j
      <4>1. Start(p) \in Nat
        BY Starts
      <4> QED
        BY <2>2, <4>1
    <3>2. CASE j \in 1..begun[b]
      BY <2>6, <3>1, <3>2 DEF AnswerInv, BatchOK, OrderOf
    <3>3. CASE j = k
      <4>1. Start(p) < Start(q + 1)
        BY <2>1, <2>2, <2>9, <3>3, Starts, BatchAssumption DEF BatchInv
      <4>2. i \in 1..Start(q)
        BY <3>1, <4>1, Starts
      <4> QED
        BY <2>3, <2>5, <2>9, <3>3, <4>2
    <3> QED
      BY <2>7, <3>2, <3>3
  <2>12. AnswerOf(b)'
    BY <2>1 DEF AnswerOf, Answered
  <2> QED
    BY <1>1, <2>1, <2>8, <2>10, <2>11, <2>12 DEF BatchOK
<1>9. ASSUME NEW b \in Batches, NextChunk(b) PROVE AnswerInv'
  <2>1. /\ Running(b) /\ Settled(b) /\ until[b] < Size(b) /\ begun[b] = until[b]
        /\ until'[b] = EndOfChunk(body[b], until[b])
        /\ UNCHANGED <<vars, body, begun, answer, dispatched>>
        /\ \A a \in Batches : a # b => until'[a] = until[a]
    BY <1>9 DEF NextChunk, ThreadIsFree, Starting, BatchInv
  <2>2. until[b] \in Nat /\ CHUNK \in Nat /\ Size(b) \in Nat /\ CHUNK > 0
    BY <2>1, BatchAssumption DEF BatchInv, Running, Size
  <2>3. PICK q \in Nat : Start(q) = until[b]
    <3>1. CASE until[b] = 0
      BY <3>1, Starts
    <3>2. CASE until[b] > 0
      <4>1. PICK p \in Nat : until[b] = Start(p) + CHUNK
        BY <2>1, <2>2, <3>2 DEF AnswerInv, BatchOK, ChunkOf
      <4>2. p + 1 \in Nat /\ Start(p + 1) = until[b]
        BY <4>1, Starts
      <4> QED
        BY <4>2
    <3> QED
      BY <2>2, <3>1, <3>2
  <2>4. ChunkOf(b)'
    <3>1. Size(b)' = Size(b) /\ Size(b) = Len(body[b].events) /\ Start(q)' = Start(q)
      BY <2>1 DEF Size, Start
    <3>2. \A i \in 1..Start(q) : Returned(CallOf[<<b, i>>])'
      BY <2>1, <2>3 DEF Settled, Returned, vars
    <3>3. /\ until'[b] = Start(q) + CHUNK \/ until'[b] = Size(b)
          /\ Start(q) < until'[b]
          /\ until'[b] <= Start(q) + CHUNK
      BY <2>1, <2>2, <2>3, <3>1 DEF EndOfChunk
    <3> QED
      BY <2>1, <2>2, <2>3, <3>1, <3>2, <3>3 DEF ChunkOf
  <2>5. WorkOf(b)' /\ OrderOf(b)'
    BY <2>1 DEF AnswerInv, BatchOK, WorkOf, OrderOf, Start, vars, locals
  <2>6. AnswerOf(b)'
    BY <2>1 DEF AnswerOf, Answered, Running
  <2> QED
    BY <1>1, <2>1, <2>4, <2>5, <2>6 DEF BatchOK
<1>10. ASSUME NEW b \in Batches, AnswerBatch(b) PROVE AnswerInv'
  <2>1. /\ Running(b) /\ Settled(b) /\ until[b] = Size(b) /\ begun[b] = until[b]
        /\ UNCHANGED <<vars, body, begun, until>>
        /\ dispatched' = dispatched \cup BatchForFunnels(b)
    BY <1>10 DEF AnswerBatch, ThreadIsFree, Starting, BatchInv
  <2>2. /\ answer'[b].accepted = Cardinality(Successes(b))
        /\ answer'[b].results = [i \in 1..Size(b) |-> reply[CallOf[<<b, i>>]]]
        /\ \A a \in Batches : a # b => answer'[a] = answer[a]
    BY <1>10 DEF AnswerBatch, BatchInv, SuccessCount
  <2>3. Size(b)' = Size(b) /\ Successes(b)' = Successes(b)
    BY <2>1 DEF Size, Successes, vars
  <2>4. body[b] # NULL /\ ~Refuses(body[b])
    BY <2>1 DEF Running, BatchInv
  <2>5. AnswerOf(b)'
    BY <2>1, <2>2, <2>3, <2>4 DEF AnswerOf, Settled, Returned, vars, Refuses
  <2>6. WorkOf(b)' /\ OrderOf(b)' /\ ChunkOf(b)'
    BY <2>1, <2>3 DEF AnswerInv, BatchOK, WorkOf, OrderOf, ChunkOf, Start, Returned, vars, locals
  <2>7. \A a \in Batches : BatchOK(a)'
    BY <1>0, <2>1, <2>2, <2>5, <2>6, BatchKeeps DEF BatchOK
  <2>8. \A c \in Singles : c \notin BatchForFunnels(b)
    <3>1. Cardinality(Successes(b)) \in Nat /\ Cardinality(Successes(b)) <= Size(b)
      <4>1. Size(b) \in Nat
        BY <2>1 DEF BatchInv
      <4> QED
        BY <4>1, SuccessesCounted
    <3>2. Size(b) <= MAX_BATCH_SIZE /\ Size(b) \in Nat
      BY <2>1, <2>4, BatchAssumption DEF Refuses, Size, BatchInv
    <3>3. \A i \in 1..Cardinality(Successes(b)) : i \in 1..MAX_BATCH_SIZE
      BY <3>1, <3>2, BatchAssumption
    <3> QED
      BY <3>3, SinglesApart DEF BatchForFunnels
  <2>9. \A c \in Singles : SingleOK(c)'
    BY <1>0, <2>1, <2>8, SingleKeeps
  <2> QED
    BY <2>7, <2>9 DEF AnswerInv, Singles, Members
<1> QED
  BY <1>3, <1>4, <1>5, <1>6, <1>7, <1>8, <1>9, <1>10 DEF CtlNext, BatchStep

\* The parts of the controller's invariant, from its initial state.
LEMMA CtlInductive == CtlSpec => [](TypeInv /\ DedupInv /\ RepeatInv /\ BatchInv /\ AnswerInv)
<1>1. CtlInit => TypeInv /\ DedupInv /\ RepeatInv /\ BatchInv /\ AnswerInv
  BY InitTypeInv, InitDedupInv, InitRepeatInv, InitBatchInv, InitAnswerInv DEF CtlInit
<1>2. TypeInv /\ DedupInv /\ RepeatInv /\ BatchInv /\ AnswerInv /\ [CtlNext]_ctlVars
      => (TypeInv /\ DedupInv /\ RepeatInv /\ BatchInv /\ AnswerInv)'
  BY StepIsProcessorStep, NextTypeInv, NextDedupInv, NextRepeatInv, NextBatchInv, NextAnswerInv
<1> QED
  BY <1>1, <1>2, PTL DEF CtlSpec

\* What the i-th result of an answered batch tells: the reply of a track call
\* with the i-th event.
LEMMA ResultOfEvent ==
    ASSUME TypeInv, BatchInv, AnswerInv, NEW b \in Batches, Answered(b), NEW i \in 1..Size(b)
    PROVE  /\ CallOf[<<b, i>>] \in Calls
           /\ Returned(CallOf[<<b, i>>])
           /\ answer[b].results[i] = reply[CallOf[<<b, i>>]]
           /\ request[CallOf[<<b, i>>]] = body[b].events[i]
           /\ IsTrack(CallOf[<<b, i>>])
<1>1. i \in 1..begun[b] /\ body[b] \in Bodies
  BY DEF AnswerInv, BatchOK, AnswerOf, BatchInv
<1>2. CallOf[<<b, i>>] \in Calls /\ request[CallOf[<<b, i>>]] = body[b].events[i]
  BY <1>1, BegunInRange DEF AnswerInv, BatchOK, WorkOf
<1>3. Returned(CallOf[<<b, i>>]) /\ answer[b].results[i] = reply[CallOf[<<b, i>>]]
  BY DEF AnswerInv, BatchOK, AnswerOf
<1>4. body[b].events[i].kind = "track"
  <2>1. body[b].events \in Seq(Requests) /\ i \in 1..Len(body[b].events)
    BY <1>1, BatchAssumption DEF Size
  <2>2. i \in DOMAIN body[b].events
    BY <2>1
  <2> QED
    BY <1>1, <2>2, BatchAssumption
<1> QED
  BY <1>2, <1>3, <1>4 DEF IsTrack

\* The chunk of an event, as the division tells it.
LEMMA ChunkOfEvent ==
    ASSUME NEW i \in Nat \ {0}, NEW j \in Nat \ {0}, (i - 1) \div CHUNK < (j - 1) \div CHUNK
    PROVE  \E q \in Nat : i <= Start(q) /\ Start(q) < j
<1>1. CHUNK \in Nat /\ CHUNK > 0
  BY BatchAssumption
<1>2. PICK p \in Nat, q \in Nat : p = (i - 1) \div CHUNK /\ q = (j - 1) \div CHUNK
  BY <1>1
<1>3. i - 1 < CHUNK * p + CHUNK /\ CHUNK * q <= j - 1
  BY <1>1, <1>2
<1>4. p + 1 <= q
  BY <1>2
<1>5. p + 1 \in Nat /\ Start(p + 1) <= Start(q) /\ Start(p + 1) = Start(p) + CHUNK
  BY <1>4, Starts
<1>6. Start(q) \in Nat /\ Start(p) \in Nat
  BY Starts
<1>7. i - 1 < Start(p) + CHUNK /\ Start(q) <= j - 1
  BY <1>3 DEF Start
<1> QED
  BY <1>1, <1>5, <1>6, <1>7

\* However chunks and single calls interleave and whatever fails, a repeat in
\* a later chunk is told of the row of the earlier one.
THEOREM CtlRepeatRecognised == CtlSpec => []RepeatInLaterChunk
<1> SUFFICES TypeInv /\ DedupInv /\ RepeatInv /\ BatchInv /\ AnswerInv => RepeatInLaterChunk
  BY CtlInductive, PTL
<1> SUFFICES ASSUME TypeInv, DedupInv, RepeatInv, BatchInv, AnswerInv,
                    NEW b \in Batches, Answered(b), NEW i \in 1..Size(b), NEW j \in 1..Size(b),
                    (i - 1) \div CHUNK < (j - 1) \div CHUNK,
                    body[b].events[i].eventId # NULL,
                    body[b].events[i].eventId = body[b].events[j].eventId,
                    answer[b].results[i].ok
             PROVE  IF answer[b].results[j].ok
                    THEN /\ answer[b].results[j].duplicate
                         /\ answer[b].results[j].id = answer[b].results[i].id
                    ELSE answer[b].results[j].why = "database"
  BY DEF RepeatInLaterChunk
<1> DEFINE c == CallOf[<<b, i>>]
           d == CallOf[<<b, j>>]
<1>1. /\ c \in Calls /\ Accepts(c) /\ IsTrack(c) /\ reply[c] = answer[b].results[i]
      /\ request[c] = body[b].events[i]
  BY ResultOfEvent DEF Accepts
<1>2. /\ d \in Calls /\ Returned(d) /\ IsTrack(d) /\ reply[d] = answer[b].results[j]
      /\ request[d] = body[b].events[j]
  BY ResultOfEvent
<1>3. c \in before[d]
  <2>1. PICK q \in Nat : i <= Start(q) /\ Start(q) < j
    <3>1. i \in Nat \ {0} /\ j \in Nat \ {0}
      OBVIOUS
    <3> QED
      BY <3>1, ChunkOfEvent
  <2>2. i \in 1..begun[b] /\ j \in 1..begun[b]
    BY DEF AnswerInv, BatchOK, AnswerOf
  <2> QED
    BY <2>1, <2>2 DEF AnswerInv, BatchOK, OrderOf
<1>4. SameSubmission(c, d)
  <2>1. request[c].workspace = request[d].workspace
    <3>1. body[b] \in Bodies
      BY DEF AnswerInv, BatchOK, AnswerOf, BatchInv
    <3>2. body[b].events \in Seq(Requests) /\ DOMAIN body[b].events = 1..Size(b)
      BY <3>1, BatchAssumption DEF Size
    <3>3. \A h, k \in DOMAIN body[b].events : body[b].events[h].workspace = body[b].events[k].workspace
      BY <3>1, BatchAssumption
    <3>4. body[b].events[i].workspace = body[b].events[j].workspace
      BY <3>2, <3>3
    <3> QED
      BY <1>1, <1>2, <3>4
  <2> QED
    BY <1>1, <1>2, <2>1 DEF SameSubmission
<1>5. RepeatIsDuplicate(d) /\ Repeats(d) /\ pc[d] # "idle"
  <2>1. SameSubmission(d, c)
    BY <1>4 DEF SameSubmission
  <2> QED
    BY <1>1, <1>2, <1>3, <2>1 DEF RepeatInv, Repeats, Returned
<1>6. IF reply[d].ok THEN reply[d].duplicate ELSE reply[d].why = "database"
  BY <1>2, <1>5 DEF RepeatIsDuplicate, Returned
<1>7. ASSUME reply[d].ok PROVE reply[d].id = reply[c].id
  <2>1. ReplyNamesEvent(c) /\ ReplyNamesEvent(d) /\ Accepts(d)
    BY <1>1, <1>2, <1>7 DEF DedupInv, Accepts
  <2>2. /\ reply[c].id \in Calls /\ event[reply[c].id] # NULL
        /\ event[reply[c].id].eventId = request[c].eventId
        /\ TenantOf[event[reply[c].id].workspace] = TenantOf[request[c].workspace]
    BY <1>1, <2>1 DEF ReplyNamesEvent
  <2>3. /\ reply[d].id \in Calls /\ event[reply[d].id] # NULL
        /\ event[reply[d].id].eventId = request[d].eventId
        /\ TenantOf[event[reply[d].id].workspace] = TenantOf[request[d].workspace]
    BY <1>2, <2>1 DEF ReplyNamesEvent
  <2>4. request[c].eventId # NULL /\ request[c].eventId = request[d].eventId
        /\ TenantOf[request[c].workspace] = TenantOf[request[d].workspace]
    BY <1>4 DEF SameSubmission
  <2> QED
    BY <2>2, <2>3, <2>4 DEF DedupInv, UniqueClientEvent
<1> QED
  BY <1>1, <1>2, <1>6, <1>7

\* The answer to a batch agrees with the tables, whatever interleaves and
\* whichever of its events fail.
THEOREM CtlAnswerHolds == CtlSpec => []BatchAnswerHolds
<1> SUFFICES TypeInv /\ DedupInv /\ RepeatInv /\ BatchInv /\ AnswerInv => BatchAnswerHolds
  BY CtlInductive, PTL
<1> SUFFICES ASSUME TypeInv, DedupInv, RepeatInv, BatchInv, AnswerInv,
                    NEW b \in Batches, Answered(b)
             PROVE  LET failed == {i \in 1..Size(b) : ~answer[b].results[i].ok}
                    IN /\ answer[b].accepted + Cardinality(failed) = Size(b)
                       /\ \A i \in (1..Size(b)) \ failed :
                             /\ event[answer[b].results[i].id] # NULL
                             /\ event[answer[b].results[i].id].eventId = body[b].events[i].eventId
                             /\ ~answer[b].results[i].duplicate =>
                                   event[CallOf[<<b, i>>]].anonymousId = body[b].events[i].anonymousId
  BY DEF BatchAnswerHolds
<1> DEFINE failed == {i \in 1..Size(b) : ~answer[b].results[i].ok}
<1>1. Size(b) \in Nat /\ answer[b].accepted = Cardinality(Successes(b))
  BY DEF AnswerInv, BatchOK, AnswerOf, BatchInv
<1>2. failed = (1..Size(b)) \ Successes(b)
  BY ResultOfEvent DEF Successes
<1>3. answer[b].accepted + Cardinality(failed) = Size(b)
  <2>1. /\ Cardinality(Successes(b)) \in Nat
        /\ Cardinality((1..Size(b)) \ Successes(b)) = Size(b) - Cardinality(Successes(b))
    BY <1>1, SuccessesCounted
  <2>2. Cardinality(failed) = Size(b) - Cardinality(Successes(b))
    BY <1>2, <2>1
  <2> HIDE DEF failed
  <2> QED
    BY <1>1, <2>1, <2>2
<1>4. ASSUME NEW i \in (1..Size(b)) \ failed
      PROVE  /\ event[answer[b].results[i].id] # NULL
             /\ event[answer[b].results[i].id].eventId = body[b].events[i].eventId
             /\ ~answer[b].results[i].duplicate =>
                   event[CallOf[<<b, i>>]].anonymousId = body[b].events[i].anonymousId
  <2> DEFINE c == CallOf[<<b, i>>]
  <2>1. /\ c \in Calls /\ Accepts(c) /\ IsTrack(c) /\ reply[c] = answer[b].results[i]
        /\ request[c] = body[b].events[i]
    BY ResultOfEvent DEF Accepts
  <2>2. ReplyNamesEvent(c) /\ EventOfCall(c) /\ FreshHasRow(c)
    BY <2>1 DEF DedupInv, RepeatInv
  <2> HIDE DEF c
  <2>3. /\ event[reply[c].id] # NULL /\ event[reply[c].id].eventId = request[c].eventId
        /\ ~reply[c].duplicate => event[c].anonymousId = request[c].anonymousId
    BY <2>1, <2>2 DEF ReplyNamesEvent, EventOfCall, FreshHasRow
  <2> QED
    BY <2>1, <2>3 DEF c
<1> QED
  BY <1>3, <1>4

\* What a single track sends to the funnels is stored, in its tenant.
THEOREM CtlFunnelsSeeStored == CtlSpec => []FunnelsSeeStoredTracks
<1>1. DedupInv /\ AnswerInv => FunnelsSeeStoredTracks
  BY DEF DedupInv, ReplyNamesEvent, AnswerInv, SingleOK, FunnelsSeeStoredTracks, Singles
<1> QED
  BY <1>1, CtlInductive, PTL
=============================================================================
