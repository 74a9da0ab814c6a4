--------------------------- MODULE EventsController ---------------------------
(***************************************************************************)
(* EventsController over EventProcessor: a track request is one call of    *)
(* the processor; a batch request is validated as a whole, its events are  *)
(* processed in chunks, and what was accepted is handed to the funnels     *)
(* after the answer, without being awaited.                                *)
(*                                                                         *)
(* The rate limit and the permission of the key come before this module    *)
(* (RateLimit, and the guards).  A timestamp is late or it is not: the     *)
(* window of validateTimestamp is five minutes around the clock.           *)
(***************************************************************************)
EXTENDS EventProcessor, Sequences

CONSTANTS
    Batches,          \* the batch requests that clients make
    Bodies,           \* what a batch may carry: [events, late]; the workspace of
                      \* its events is that of the API key
    MAX_BATCH_SIZE,
    CHUNK,            \* batchSize: calls of a batch in flight together
    CallOf            \* the call that processes the i-th event of a batch

BatchAnswers == [refused : BOOLEAN, accepted : Nat, results : Seq(Accepted \cup Rejected)]

ASSUME BatchAssumption ==
    /\ MAX_BATCH_SIZE \in Nat
    /\ CHUNK \in Nat \ {0}
    /\ CallOf \in [Batches \X (1..MAX_BATCH_SIZE) -> Calls]
    /\ \A k, l \in Batches \X (1..MAX_BATCH_SIZE) : CallOf[k] = CallOf[l] => k = l
    /\ Bodies \subseteq [events : Seq(Requests), late : SUBSET (Nat \ {0})]
    /\ \A m \in Bodies : /\ m.late \subseteq DOMAIN m.events
                         /\ \A i \in DOMAIN m.events : m.events[i].kind = "track"
                         /\ \A i, j \in DOMAIN m.events :
                               m.events[i].workspace = m.events[j].workspace
    /\ NULL \notin Bodies \cup BatchAnswers
    /\ Batches \cap Calls = {}

VARIABLES
    body,       \* [Batches -> what it carries, or NULL before it arrives]
    begun,      \* [Batches -> how many of its events have begun]
    until,      \* [Batches -> where its current chunk ends]
    answer,     \* [Batches \cup Calls -> the HTTP answer, or NULL]
    dispatched  \* the calls whose event went to the funnels

batchVars == <<body, begun, until, answer, dispatched>>
ctlVars == <<vars, batchVars>>

Members(b) == {CallOf[<<b, i>>] : i \in 1..MAX_BATCH_SIZE}
Singles == Calls \ UNION {Members(b) : b \in Batches}

Size(b) == Len(body[b].events)

\* Mutant: the timestamps of the first chunk only are validated.
RefusesFirstChunk(m) == Len(m.events) > MAX_BATCH_SIZE \/ m.late \cap (1..CHUNK) # {}

\* A batch that is too large, or has any timestamp out of range, is refused.
Refuses(m) == Len(m.events) > MAX_BATCH_SIZE \/ m.late # {}

Running(b) == body[b] # NULL /\ answer[b] = NULL

\* Mutant: one chunk for the whole batch.
WholeBatch(m, i) == Len(m.events)

\* Where the chunk that begins after the i-th event ends.
EndOfChunk(m, i) == IF i + CHUNK < Len(m.events) THEN i + CHUNK ELSE Len(m.events)

\* events.slice(i, i + batchSize).map(...) runs to its end without an await.
Starting(b) == Running(b) /\ begun[b] < until[b]
ThreadIsFree == \A b \in Batches : ~Starting(b)

\* Promise.all over the chunks so far has settled.
Settled(b) == \A i \in 1..until[b] : Returned(CallOf[<<b, i>>])

-----------------------------------------------------------------------------
CtlInit ==
    /\ Init
    /\ body = [b \in Batches |-> NULL]
    /\ begun = [b \in Batches |-> 0]
    /\ until = [b \in Batches |-> 0]
    /\ answer = [x \in Batches \cup Calls |-> NULL]
    /\ dispatched = {}

\* POST track or identify: one call of the processor, once it is validated.
ReceiveCall(c, r) ==
    /\ ThreadIsFree
    /\ c \in Singles
    /\ Begin(c, r)
    /\ UNCHANGED batchVars

\* Mutant: a failed track goes to the funnels too.
AnyTrack(c) == IsTrack(c)

\* An accepted track goes to the funnels, be it a duplicate.
ForFunnels(c) == IsTrack(c) /\ reply[c].ok

\* The awaited call has returned: the answer is 200 or 400.
AnswerCall(c) ==
    /\ ThreadIsFree
    /\ c \in Singles
    /\ Returned(c)
    /\ answer[c] = NULL
    /\ answer' = [answer EXCEPT ![c] = reply[c]]
    /\ dispatched' = IF ForFunnels(c) THEN dispatched \cup {c} ELSE dispatched
    /\ UNCHANGED <<vars, body, begun, until>>

\* Nothing of a refused batch is processed.
RefuseBatch(b, m) ==
    /\ ThreadIsFree
    /\ body[b] = NULL
    /\ Refuses(m)
    /\ body' = [body EXCEPT ![b] = m]
    /\ answer' = [answer EXCEPT ![b] = [refused |-> TRUE, accepted |-> 0, results |-> << >>]]
    /\ UNCHANGED <<vars, begun, until, dispatched>>

AcceptBatch(b, m) ==
    /\ ThreadIsFree
    /\ body[b] = NULL
    /\ ~Refuses(m)
    /\ body' = [body EXCEPT ![b] = m]
    /\ until' = [until EXCEPT ![b] = EndOfChunk(m, 0)]
    /\ UNCHANGED <<vars, begun, answer, dispatched>>

\* One turn of map: the next event of the chunk is handed to the processor,
\* before anything else runs.
BeginEvent(b) ==
    /\ Starting(b)
    /\ Begin(CallOf[<<b, begun[b] + 1>>], body[b].events[begun[b] + 1])
    /\ begun' = [begun EXCEPT ![b] = @ + 1]
    /\ UNCHANGED <<body, until, answer, dispatched>>

\* The chunk has settled and another one follows.
NextChunk(b) ==
    /\ ThreadIsFree
    /\ Running(b)
    /\ Settled(b)
    /\ until[b] < Size(b)
    /\ until' = [until EXCEPT ![b] = EndOfChunk(body[b], @)]
    /\ UNCHANGED <<vars, body, begun, answer, dispatched>>

Successes(b) == {i \in 1..Size(b) : reply[CallOf[<<b, i>>]].ok}

\* Mutant: successCount is declared inside the loop over the chunks.
SuccessesOfLastChunk(b) ==
    Cardinality({i \in Successes(b) : i > ((Size(b) - 1) \div CHUNK) * CHUNK})

SuccessCount(b) == Cardinality(Successes(b))

\* processBatchEventsForFunnels filters the results and then takes
\* events[index], where index counts the filtered results.
BatchForFunnels(b) == {CallOf[<<b, i>>] : i \in 1..Cardinality(Successes(b))}

\* The last chunk has settled: the answer has one result per event, in the
\* order of the events.
AnswerBatch(b) ==
    /\ ThreadIsFree
    /\ Running(b)
    /\ Settled(b)
    /\ until[b] = Size(b)
    /\ answer' = [answer EXCEPT ![b] =
          [refused |-> FALSE, accepted |-> SuccessCount(b),
           results |-> [i \in 1..Size(b) |-> reply[CallOf[<<b, i>>]]]]]
    /\ dispatched' = dispatched \cup BatchForFunnels(b)
    /\ UNCHANGED <<vars, body, begun, until>>

\* Between two awaits the loop over a chunk is not interrupted.
Resume(c) == ThreadIsFree /\ Progress(c) /\ UNCHANGED batchVars
Fail(c) == ThreadIsFree /\ DatabaseError(c) /\ UNCHANGED batchVars
Wait == ThreadIsFree /\ Tick /\ UNCHANGED batchVars

AllAnswered ==
    /\ \A x \in Batches \cup Singles : answer[x] # NULL
    /\ UNCHANGED ctlVars

BatchStep(b) == BeginEvent(b) \/ NextChunk(b) \/ AnswerBatch(b)

CtlNext ==
    \/ \E c \in Calls : \/ \E r \in Requests : ReceiveCall(c, r)
                        \/ Resume(c) \/ Fail(c) \/ AnswerCall(c)
    \/ \E b \in Batches : \/ \E m \in Bodies : RefuseBatch(b, m) \/ AcceptBatch(b, m)
                          \/ BatchStep(b)
    \/ Wait
    \/ AllAnswered

\* An awaited promise settles, and what waits for it is resumed.
CtlFairness ==
    /\ \A c \in Calls : WF_ctlVars(Resume(c)) /\ WF_ctlVars(AnswerCall(c))
    /\ \A b \in Batches : WF_ctlVars(BatchStep(b))

CtlSpec == CtlInit /\ [][CtlNext]_ctlVars /\ CtlFairness

-----------------------------------------------------------------------------
(* Properties.                                                             *)

Answered(b) == answer[b] # NULL /\ ~answer[b].refused

Stored(b, i) == event[CallOf[<<b, i>>]] # NULL

\* Every variable has its type; a batch has begun the chunks it waits for and
\* nothing beyond them.
CtlTypeOK ==
    /\ TypeOK
    /\ body \in [Batches -> Bodies \cup {NULL}]
    /\ begun \in [Batches -> 0..MAX_BATCH_SIZE]
    /\ until \in [Batches -> 0..MAX_BATCH_SIZE]
    /\ dispatched \subseteq Calls
    /\ \A b \in Batches :
          /\ begun[b] <= until[b]
          /\ body[b] # NULL => until[b] <= Size(b)
          /\ \A i \in 1..MAX_BATCH_SIZE : pc[CallOf[<<b, i>>]] = "idle" <=> i > begun[b]

\* A batch is refused as a whole: if one of its timestamps is out of range, or
\* it is too large, none of its events is ever stored or sent to the funnels.
RefusedBatchLeavesNothing ==
    \A b \in Batches : \A i \in 1..MAX_BATCH_SIZE :
        Stored(b, i) \/ CallOf[<<b, i>>] \in dispatched =>
            body[b].late = {} /\ Size(b) <= MAX_BATCH_SIZE

\* An event id repeated in a later chunk of its batch is recognised: once the
\* earlier event was accepted, the later one is answered as a duplicate of the
\* same row, unless its own query failed.
RepeatInLaterChunk ==
    \A b \in Batches : Answered(b) =>
        \A i, j \in 1..Size(b) :
            /\ (i - 1) \div CHUNK < (j - 1) \div CHUNK
            /\ body[b].events[i].eventId # NULL
            /\ body[b].events[i].eventId = body[b].events[j].eventId
            /\ answer[b].results[i].ok
            => IF answer[b].results[j].ok
               THEN /\ answer[b].results[j].duplicate
                    /\ answer[b].results[j].id = answer[b].results[i].id
               ELSE answer[b].results[j].why = "database"

\* The answer to a batch agrees with the tables: as many events are counted as
\* accepted as were stored by the batch or found stored before, less the rows
\* whose insert was answered with an error, and the i-th result tells of the
\* i-th event.
BatchAnswerHolds ==
    \A b \in Batches : Answered(b) =>
        LET failed == {i \in 1..Size(b) : ~answer[b].results[i].ok}
        IN /\ answer[b].accepted + Cardinality(failed) = Size(b)
           /\ \A i \in (1..Size(b)) \ failed :
                 /\ event[answer[b].results[i].id] # NULL
                 /\ event[answer[b].results[i].id].eventId = body[b].events[i].eventId
                 /\ ~answer[b].results[i].duplicate =>
                       event[CallOf[<<b, i>>]].anonymousId = body[b].events[i].anonymousId

\* What a track sends to the funnels is in the event table, in its tenant.
FunnelsSeeStoredTracks ==
    \A c \in dispatched \cap Singles :
        \E d \in Calls : /\ event[d] # NULL
                         /\ event[d].eventId = request[c].eventId
                         /\ TenantOf[event[d].workspace] = TenantOf[request[c].workspace]

\* Every batch that arrives is answered, and every call that returned is.
EveryRequestAnswered ==
    /\ \A b \in Batches : body[b] # NULL ~> answer[b] # NULL
    /\ \A c \in Singles : InFlight(c) ~> answer[c] # NULL

(* What the comments and tests say and the code does not do.               *)

\* events.controller.ts: "Process only successful events for funnels".
FunnelsSeeSuccessesOnly == \A c \in dispatched : reply[c].ok

\* integration.test.ts: a batch of two events of a new visitor is accepted as
\* a whole (accepted 2, rejected 0).
NewVisitorBatchAccepted ==
    \A b \in Batches : Answered(b) => answer[b].accepted = Size(b)
=============================================================================
