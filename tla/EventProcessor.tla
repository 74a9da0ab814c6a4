--------------------------- MODULE EventProcessor ---------------------------
(***************************************************************************)
(* The event ingestion core: EventProcessorService (processTrackEvent and  *)
(* processIdentifyEvent) over the visitor, session, lead, identity_link    *)
(* and event tables.                                                       *)
(*                                                                         *)
(* Every call is an async function: between two awaits it runs alone, at   *)
(* an await the calls of all the clients interleave.  No transaction is    *)
(* opened, so one action is one query with the code that follows it, and a *)
(* call keeps what it read while the other calls write.  The catch block   *)
(* turns any exception into a reply with success: false.                   *)
(*                                                                         *)
(* A row that a call may create at most once (event, lead) is named by the *)
(* call that created it, which stands for the autoincremented id.  The     *)
(* last-seen columns of a visitor, the payload of an event and the         *)
(* ciphertexts are left out: an e-mail or phone stands for its             *)
(* fingerprint.                                                            *)
(***************************************************************************)
EXTENDS Integers, FiniteSets

CONSTANTS
    Calls,            \* the calls that clients make
    Requests,         \* the requests a call may carry
    AnonymousIds,     \* visitor ids, chosen by the clients
    EventIds,         \* client-provided ids for deduplication
    SessionIds,       \* ids the server draws, or a client sends
    Emails, Phones,   \* fingerprints
    Workspaces, Tenants,
    TenantOf,         \* the tenant that owns a workspace
    SESSION_TIMEOUT,  \* SESSION_TIMEOUT_MINUTES, in ticks
    MaxTime,          \* bound: ticks of the clock
    MaxFaults,        \* bound: queries that fail or answers that are lost
    NULL

TrackRequests ==
    [kind: {"track"}, workspace: Workspaces, anonymousId: AnonymousIds,
     eventId: EventIds \cup {NULL}, sessionId: SessionIds \cup {NULL}]

\* The controller lets an identify through only with a user_id or traits.
IdentifyRequests ==
    [kind: {"identify"}, workspace: Workspaces, anonymousId: AnonymousIds,
     email: Emails \cup {NULL}, phone: Phones \cup {NULL}]

Times == 0..MaxTime
LinkKeys == Workspaces \X AnonymousIds \X Calls

SessionRows == [workspace: Workspaces, anonymousId: AnonymousIds,
                startedAt: Times, openedBy: Calls]
LeadRows == [workspace: Workspaces, email: Emails \cup {NULL}, phone: Phones \cup {NULL}]
EventRows == [workspace: Workspaces, anonymousId: AnonymousIds,
              eventId: EventIds \cup {NULL}, session: SessionIds,
              lead: Calls \cup {NULL}]

Accepted == [ok: {TRUE}, duplicate: BOOLEAN, id: Calls \cup {NULL}, lead: Calls \cup {NULL}]
Rejected == [ok: {FALSE}, why: {"unique", "foreignKey", "database"}]

ASSUME RequestsAssumption == Requests \subseteq TrackRequests \cup IdentifyRequests
ASSUME TenantAssumption == TenantOf \in [Workspaces -> Tenants]
ASSUME BoundsAssumption ==
    /\ SESSION_TIMEOUT \in Nat
    /\ MaxTime \in Nat
    /\ MaxFaults \in Nat
ASSUME NullAssumption ==
    /\ NULL \notin Calls \cup Workspaces \cup SessionIds \cup EventIds
    /\ NULL \notin Emails \cup Phones \cup Times
    /\ NULL \notin Requests \cup SessionRows \cup LeadRows \cup EventRows
    /\ NULL \notin Accepted \cup Rejected

VARIABLES
    now,        \* the clock, Date.now()
    faults,     \* queries that have failed so far
    visitor,    \* [AnonymousIds -> the workspace that first saw it, or NULL]
    session,    \* [SessionIds -> row or NULL]
    lead,       \* [Calls -> row or NULL]
    link,       \* [Workspaces \X AnonymousIds \X Calls -> lastAt or NULL]
    event,      \* [Calls -> row or NULL]
    pc,         \* the await at which a call is
    request,    \* its argument
    sessionOf,  \* local: sessionId
    leadOf,     \* local: leadId
    reply,      \* what it returned
    before      \* history: the calls that had returned when it began

tables == <<visitor, session, lead, link, event>>
locals == <<request, sessionOf, leadOf, before>>
vars == <<now, faults, tables, pc, locals, reply>>

TrackSteps == {"checkDuplicate", "findSession", "createSession", "getLinkedLead", "createEvent"}
IdentifySteps == {"findLead", "updateLead", "createLead", "findLink", "updateLink", "createLink"}
CommonSteps == {"findVisitor", "createVisitor", "respond"}
Steps == TrackSteps \cup IdentifySteps \cup CommonSteps

IsTrack(c) == request[c].kind = "track"
InFlight(c) == pc[c] \in Steps
Returned(c) == pc[c] = "done"

-----------------------------------------------------------------------------
(* What the queries select.                                                *)

SameClientEvent(d, c) ==
    /\ event[d] # NULL
    /\ TenantOf[event[d].workspace] = TenantOf[request[c].workspace]
    /\ event[d].eventId = request[c].eventId

\* Mutant: the tenant is missing from the where clause.
DuplicatesAnyTenant(c) ==
    {d \in Calls : event[d] # NULL /\ event[d].eventId = request[c].eventId}

\* event.findFirst({ tenantId, eventId })
Duplicates(c) == {d \in Calls : SameClientEvent(d, c)}

\* @@unique([tenantId, eventId]); SQL never compares two NULLs as equal.
ViolatesUniqueEvent(c) == request[c].eventId # NULL /\ Duplicates(c) # {}

OfVisitor(row, c) ==
    /\ row.workspace = request[c].workspace
    /\ row.anonymousId = request[c].anonymousId

\* Mutant: gt instead of gte.
YoungerSessions(c) ==
    {s \in SessionIds : /\ session[s] # NULL
                        /\ OfVisitor(session[s], c)
                        /\ session[s].startedAt > now - SESSION_TIMEOUT}

\* session.findFirst({ anonymousId, tenantId, workspaceId, startedAt >= threshold })
\* (nothing ever sets endedAt)
ActiveSessions(c) ==
    {s \in SessionIds : /\ session[s] # NULL
                        /\ OfVisitor(session[s], c)
                        /\ session[s].startedAt >= now - SESSION_TIMEOUT}

\* orderBy: { startedAt: 'desc' }
LatestSessions(c) ==
    {s \in ActiveSessions(c) : \A t \in ActiveSessions(c) :
                                  session[t].startedAt <= session[s].startedAt}

LinkOf(c, l) == link[<<request[c].workspace, request[c].anonymousId, l>>]
\* Mutant: links age like sessions do.
RecentlyLinkedLeads(c) ==
    {l \in Calls : LinkOf(c, l) # NULL /\ LinkOf(c, l) > now - SESSION_TIMEOUT}

LinkedLeads(c) == {l \in Calls : LinkOf(c, l) # NULL}

\* orderBy: { lastAt: 'desc' }
LatestLeads(c) ==
    {l \in LinkedLeads(c) : \A k \in LinkedLeads(c) : LinkOf(c, k) <= LinkOf(c, l)}

LeadsByEmail(c) ==
    {l \in Calls : /\ lead[l] # NULL
                   /\ lead[l].workspace = request[c].workspace
                   /\ lead[l].email = request[c].email}

LeadsByPhone(c) ==
    {l \in Calls : /\ lead[l] # NULL
                   /\ lead[l].workspace = request[c].workspace
                   /\ lead[l].phone = request[c].phone}

\* Mutant: the phone decides.
MatchingByPhoneFirst(c) ==
    IF request[c].phone # NULL THEN LeadsByPhone(c) ELSE LeadsByEmail(c)

\* Mutant: the phone is tried when no e-mail matches.
MatchingByEither(c) ==
    IF request[c].email # NULL /\ LeadsByEmail(c) # {}
    THEN LeadsByEmail(c) ELSE LeadsByPhone(c)

\* The e-mail decides; the phone is looked up only when there is no e-mail.
MatchingLeads(c) ==
    IF request[c].email # NULL THEN LeadsByEmail(c) ELSE LeadsByPhone(c)

-----------------------------------------------------------------------------
Init ==
    /\ now = 0
    /\ faults = 0
    /\ visitor = [a \in AnonymousIds |-> NULL]
    /\ session = [s \in SessionIds |-> NULL]
    /\ lead = [c \in Calls |-> NULL]
    /\ link = [k \in LinkKeys |-> NULL]
    /\ event = [c \in Calls |-> NULL]
    /\ pc = [c \in Calls |-> "idle"]
    /\ request = [c \in Calls |-> NULL]
    /\ sessionOf = [c \in Calls |-> NULL]
    /\ leadOf = [c \in Calls |-> NULL]
    /\ reply = [c \in Calls |-> NULL]
    /\ before = [c \in Calls |-> {}]

At(c, step) == pc[c] = step
Goto(c, step) == pc' = [pc EXCEPT ![c] = step] /\ UNCHANGED reply
Return(c, r) == pc' = [pc EXCEPT ![c] = "done"] /\ reply' = [reply EXCEPT ![c] = r]

\* Mutant: the exception is swallowed and the promise never settles.
Swallow(c, error) == UNCHANGED <<pc, reply>>

\* The catch block: success: false with the message of the error.
Catch(c, error) == Return(c, [ok |-> FALSE, why |-> error])

FirstStep(r) == IF r.kind = "track" /\ r.eventId # NULL THEN "checkDuplicate" ELSE "findVisitor"

\* A request is validated and handed to the service.
Begin(c, r) ==
    /\ At(c, "idle")
    /\ request' = [request EXCEPT ![c] = r]
    /\ before' = [before EXCEPT ![c] = {d \in Calls : Returned(d)}]
    /\ Goto(c, FirstStep(r))
    /\ UNCHANGED <<now, faults, tables, sessionOf, leadOf>>

\* Deduplication when an event_id is given.
CheckDuplicate(c) ==
    /\ At(c, "checkDuplicate")
    /\ \/ \E d \in Duplicates(c) :
             Return(c, [ok |-> TRUE, duplicate |-> TRUE, id |-> d, lead |-> NULL])
       \/ Duplicates(c) = {} /\ Goto(c, "findVisitor")
    /\ UNCHANGED <<now, faults, tables, locals>>

\* After ensureVisitor: the session of a track, the lead of an identify.
AfterVisitor(c) ==
    CASE IsTrack(c) /\ request[c].sessionId = NULL -> "findSession"
      [] IsTrack(c) /\ request[c].sessionId # NULL -> "getLinkedLead"
      [] ~IsTrack(c) /\ request[c].email = NULL /\ request[c].phone = NULL -> "createLead"
      [] OTHER -> "findLead"

\* ensureVisitor: visitor.findUnique by anonymousId alone; a visitor that
\* exists only gets its last-seen columns updated.
FindVisitor(c) ==
    /\ At(c, "findVisitor")
    /\ Goto(c, IF visitor[request[c].anonymousId] = NULL THEN "createVisitor" ELSE AfterVisitor(c))
    /\ UNCHANGED <<now, faults, tables, locals>>

\* visitor.create: anonymousId is the primary key.
CreateVisitor(c) ==
    LET a == request[c].anonymousId IN
    /\ At(c, "createVisitor")
    /\ \/ /\ visitor[a] = NULL
          /\ visitor' = [visitor EXCEPT ![a] = request[c].workspace]
          /\ Goto(c, AfterVisitor(c))
       \/ visitor[a] # NULL /\ Catch(c, "unique") /\ UNCHANGED visitor
    /\ UNCHANGED <<now, faults, session, lead, link, event, locals>>

\* ensureSession: join the latest session that began within the timeout.
FindSession(c) ==
    /\ At(c, "findSession")
    /\ \/ /\ \E s \in LatestSessions(c) : sessionOf' = [sessionOf EXCEPT ![c] = s]
          /\ Goto(c, "getLinkedLead")
       \/ ActiveSessions(c) = {} /\ Goto(c, "createSession") /\ UNCHANGED sessionOf
    /\ UNCHANGED <<now, faults, tables, request, leadOf, before>>

NewSession(c) == [workspace |-> request[c].workspace, anonymousId |-> request[c].anonymousId,
                  startedAt |-> now, openedBy |-> c]

\* session.create with the id s_<ms>_<random>, which may already be taken.
CreateSession(c) ==
    /\ At(c, "createSession")
    /\ \E s \in SessionIds :
          \/ /\ session[s] = NULL
             /\ session' = [session EXCEPT ![s] = NewSession(c)]
             /\ sessionOf' = [sessionOf EXCEPT ![c] = s]
             /\ Goto(c, "getLinkedLead")
          \/ session[s] # NULL /\ Catch(c, "unique") /\ UNCHANGED <<session, sessionOf>>
    /\ UNCHANGED <<now, faults, visitor, lead, link, event, request, leadOf, before>>

\* getLinkedLead: the lead of the link that was confirmed last.
GetLinkedLead(c) ==
    /\ At(c, "getLinkedLead")
    /\ \/ \E l \in LatestLeads(c) : leadOf' = [leadOf EXCEPT ![c] = l]
       \/ LinkedLeads(c) = {} /\ UNCHANGED leadOf
    /\ Goto(c, "createEvent")
    /\ UNCHANGED <<now, faults, tables, request, sessionOf, before>>

SessionFor(c) == IF request[c].sessionId # NULL THEN request[c].sessionId ELSE sessionOf[c]

NewEvent(c) == [workspace |-> request[c].workspace, anonymousId |-> request[c].anonymousId,
                eventId |-> request[c].eventId, session |-> SessionFor(c), lead |-> leadOf[c]]

\* event.create under the unique index and the foreign key to session.
CreateEvent(c) ==
    /\ At(c, "createEvent")
    /\ \/ ViolatesUniqueEvent(c) /\ Catch(c, "unique") /\ UNCHANGED event
       \/ /\ ~ViolatesUniqueEvent(c)
          /\ session[SessionFor(c)] = NULL
          /\ Catch(c, "foreignKey")
          /\ UNCHANGED event
       \/ /\ ~ViolatesUniqueEvent(c)
          /\ session[SessionFor(c)] # NULL
          /\ event' = [event EXCEPT ![c] = NewEvent(c)]
          /\ Goto(c, "respond")
    /\ UNCHANGED <<now, faults, visitor, session, lead, link, locals>>

\* findOrCreateLead: look the fingerprint up, in the order of MatchingLeads.
FindLead(c) ==
    /\ At(c, "findLead")
    /\ \/ /\ \E l \in MatchingLeads(c) : leadOf' = [leadOf EXCEPT ![c] = l]
          /\ Goto(c, "updateLead")
       \/ MatchingLeads(c) = {} /\ Goto(c, "createLead") /\ UNCHANGED leadOf
    /\ UNCHANGED <<now, faults, tables, request, sessionOf, before>>

UpdatesPhone(c) == request[c].email # NULL /\ request[c].phone # NULL

\* lead.update: a lead matched by e-mail takes the phone of the request.
UpdateLead(c) ==
    /\ At(c, "updateLead")
    /\ lead' = IF UpdatesPhone(c) THEN [lead EXCEPT ![leadOf[c]].phone = request[c].phone] ELSE lead
    /\ Goto(c, "findLink")
    /\ UNCHANGED <<now, faults, visitor, session, link, event, locals>>

NewLead(c) == [workspace |-> request[c].workspace,
               email |-> request[c].email, phone |-> request[c].phone]

\* lead.create: no unique index on the fingerprints.
CreateLead(c) ==
    /\ At(c, "createLead")
    /\ lead' = [lead EXCEPT ![c] = NewLead(c)]
    /\ leadOf' = [leadOf EXCEPT ![c] = c]
    /\ Goto(c, "findLink")
    /\ UNCHANGED <<now, faults, visitor, session, link, event, request, sessionOf, before>>

LinkKey(c) == <<request[c].workspace, request[c].anonymousId, leadOf[c]>>

\* createOrUpdateIdentityLink: identityLink.findUnique
FindLink(c) ==
    /\ At(c, "findLink")
    /\ Goto(c, IF link[LinkKey(c)] = NULL THEN "createLink" ELSE "updateLink")
    /\ UNCHANGED <<now, faults, tables, locals>>

\* identityLink.update sets lastAt.
UpdateLink(c) ==
    /\ At(c, "updateLink")
    /\ link' = [link EXCEPT ![LinkKey(c)] = now]
    /\ Goto(c, "respond")
    /\ UNCHANGED <<now, faults, visitor, session, lead, event, locals>>

\* identityLink.create: the key is the primary key.
CreateLink(c) ==
    /\ At(c, "createLink")
    /\ \/ /\ link[LinkKey(c)] = NULL
          /\ link' = [link EXCEPT ![LinkKey(c)] = now]
          /\ Goto(c, "respond")
       \/ link[LinkKey(c)] # NULL /\ Catch(c, "unique") /\ UNCHANGED link
    /\ UNCHANGED <<now, faults, visitor, session, lead, event, locals>>

\* The last query has answered: success: true with the ids.
Respond(c) ==
    /\ At(c, "respond")
    /\ Return(c, [ok |-> TRUE, duplicate |-> FALSE,
                  id |-> IF IsTrack(c) THEN c ELSE NULL, lead |-> leadOf[c]])
    /\ UNCHANGED <<now, faults, tables, locals>>

\* A query fails, or has committed and its answer is lost, or the process
\* stops: what was written stays, and the client sees a failure.
DatabaseError(c) ==
    /\ InFlight(c)
    /\ faults < MaxFaults
    /\ faults' = faults + 1
    /\ Catch(c, "database")
    /\ UNCHANGED <<now, tables, locals>>

Tick ==
    /\ now < MaxTime
    /\ now' = now + 1
    /\ UNCHANGED <<faults, tables, pc, locals, reply>>

\* One resumption of the async function.
Progress(c) ==
    \/ CheckDuplicate(c) \/ FindVisitor(c) \/ CreateVisitor(c)
    \/ FindSession(c) \/ CreateSession(c) \/ GetLinkedLead(c) \/ CreateEvent(c)
    \/ FindLead(c) \/ UpdateLead(c) \/ CreateLead(c)
    \/ FindLink(c) \/ UpdateLink(c) \/ CreateLink(c)
    \/ Respond(c)

AllReturned == (\A c \in Calls : Returned(c)) /\ UNCHANGED vars

Next ==
    \/ \E c \in Calls : (\E r \in Requests : Begin(c, r)) \/ Progress(c) \/ DatabaseError(c)
    \/ Tick
    \/ AllReturned

\* Every query is answered or fails: an awaited promise settles.
Fairness == \A c \in Calls : WF_vars(Progress(c))

Spec == Init /\ [][Next]_vars /\ Fairness

-----------------------------------------------------------------------------
(* Properties.                                                             *)

Accepts(c) == Returned(c) /\ reply[c].ok
Rejects(c) == Returned(c) /\ ~reply[c].ok

SameVisitor(c, d) ==
    /\ request[c].workspace = request[d].workspace
    /\ request[c].anonymousId = request[d].anonymousId

\* Both tracks carry the same client event id within one tenant.
SameSubmission(c, d) ==
    /\ IsTrack(c) /\ IsTrack(d)
    /\ request[c].eventId # NULL /\ request[c].eventId = request[d].eventId
    /\ TenantOf[request[c].workspace] = TenantOf[request[d].workspace]

TablesOK ==
    /\ now \in Times
    /\ faults \in 0..MaxFaults
    /\ visitor \in [AnonymousIds -> Workspaces \cup {NULL}]
    /\ session \in [SessionIds -> SessionRows \cup {NULL}]
    /\ \A s \in SessionIds : session[s] # NULL => session[s].startedAt <= now
    /\ lead \in [Calls -> LeadRows \cup {NULL}]
    /\ link \in [LinkKeys -> Times \cup {NULL}]
    /\ \A k \in LinkKeys : link[k] # NULL => link[k] <= now
    /\ event \in [Calls -> EventRows \cup {NULL}]

ControlOK ==
    /\ pc \in [Calls -> Steps \cup {"idle", "done"}]
    /\ request \in [Calls -> Requests \cup {NULL}]
    /\ reply \in [Calls -> Accepted \cup Rejected \cup {NULL}]
    /\ \A c \in Calls : /\ pc[c] = "idle" <=> request[c] = NULL
                        /\ Returned(c) <=> reply[c] # NULL

LocalsOK ==
    /\ sessionOf \in [Calls -> SessionIds \cup {NULL}]
    /\ leadOf \in [Calls -> Calls \cup {NULL}]
    /\ before \in [Calls -> SUBSET Calls]

\* Every variable has its type: rows are complete, nothing carries a time of
\* the future, and a call has a reply exactly when it has returned.
TypeOK == TablesOK /\ ControlOK /\ LocalsOK

\* Deduplication: a tenant never has two event rows with one client event id,
\* however the check at the start of the calls and their inserts interleave.
UniqueClientEvent ==
    \A c, d \in Calls :
        /\ event[c] # NULL /\ event[d] # NULL
        /\ event[c].eventId # NULL /\ event[c].eventId = event[d].eventId
        /\ TenantOf[event[c].workspace] = TenantOf[event[d].workspace]
        => c = d

\* Idempotence: an accepted track names a stored event of its own tenant that
\* carries its event id, and all the accepted submissions of an event id,
\* first ones and retries, name the same row.
IdempotentReplies ==
    \A c \in Calls : Accepts(c) /\ IsTrack(c) =>
        /\ reply[c].id \in Calls
        /\ event[reply[c].id] # NULL
        /\ event[reply[c].id].eventId = request[c].eventId
        /\ TenantOf[event[reply[c].id].workspace] = TenantOf[request[c].workspace]
        /\ \A d \in Calls : Accepts(d) /\ SameSubmission(c, d) => reply[c].id = reply[d].id

\* Attribution: an event tracked after an identify of the same visitor was
\* accepted is stored with a lead.
IdentifiedEventsHaveLead ==
    \A c \in Calls : event[c] # NULL =>
        \A d \in before[c] : Accepts(d) /\ ~IsTrack(d) /\ SameVisitor(c, d) => event[c].lead # NULL

\* Two leads of a workspace share an e-mail only if the identify calls that
\* created them overlapped: no unique index guards the fingerprint.
DuplicateLeadsOverlap ==
    \A c, d \in Calls :
        /\ lead[c] # NULL /\ lead[d] # NULL
        /\ lead[c].email # NULL /\ lead[c].email = lead[d].email
        /\ lead[c].workspace = lead[d].workspace
        => c \notin before[d]

\* An accepted identify with an e-mail has linked its visitor to a lead with
\* that very e-mail, whatever the phone says.
IdentityResolved ==
    \A c \in Calls : Accepts(c) /\ ~IsTrack(c) =>
        /\ reply[c].lead \in Calls
        /\ link[<<request[c].workspace, request[c].anonymousId, reply[c].lead>>] # NULL
        /\ request[c].email # NULL => lead[reply[c].lead].email = request[c].email

\* A visitor has two sessions that began within one timeout of each other only
\* if the calls that opened them overlapped.
SplitSessionsOverlap ==
    \A s, t \in SessionIds :
        /\ session[s] # NULL /\ session[t] # NULL
        /\ session[s].workspace = session[t].workspace
        /\ session[s].anonymousId = session[t].anonymousId
        /\ session[t].startedAt <= session[s].startedAt + SESSION_TIMEOUT
        => session[s].openedBy \notin before[session[t].openedBy]

(* What the documents and tests say and the code does not do.              *)

\* deduplication.test.ts: concurrent duplicate submissions are handled
\* gracefully; the code: "Return success for duplicate (idempotent response)".
DuplicateNotRejected ==
    \A c \in Calls : Rejects(c) /\ IsTrack(c) =>
        ~ \E d \in Calls : event[d] # NULL /\ SameSubmission(c, d)

\* README, "Multi-tenant: Complete workspace isolation": the visitor that an
\* event names was recorded by the event's workspace.
VisitorIsolated ==
    \A c \in Calls : event[c] # NULL => visitor[event[c].anonymousId] = event[c].workspace

\* The same sentence: an accepted event is stored in the workspace that sent it.
AcceptedInOwnWorkspace ==
    \A c \in Calls : Accepts(c) /\ IsTrack(c) =>
        event[reply[c].id].workspace = request[c].workspace

\* schema.prisma, "client-generated: s_xxxxx": a session id may come from the
\* client, so an event is never refused for the session it names.
ClientSessionAccepted ==
    \A c \in Calls : Rejects(c) => reply[c].why # "foreignKey"
=============================================================================
