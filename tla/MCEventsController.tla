------------------------- MODULE MCEventsController -------------------------
(* A small instance of EventsController for TLC: one batch beside one call. *)
EXTENDS EventsController, TLC

CONSTANTS w1, a1, a2, e1, s1, b1, c1, c2, c3

MCTenantOf == [w \in Workspaces |-> "t1"]

Track(a, e, s) ==
    [kind |-> "track", workspace |-> w1, anonymousId |-> a, eventId |-> e, sessionId |-> s]

\* The first has an event id, the second does not, and the third names a
\* session that may not exist.
Named == Track(a1, e1, NULL)
Plain == Track(a2, NULL, NULL)
InSession == Track(a1, NULL, s1)

MCRequests == {Named, Plain, InSession}

Body(events, late) == [events |-> events, late |-> late]

\* The third event of a batch is in a chunk of its own; the batches repeat an
\* event id, fail in part, are late at their end, are too large, are empty.
MCBodies == {
    Body(<<Named, Plain, Named>>, {}),
    Body(<<Named, InSession, Plain>>, {}),
    Body(<<Named, Named, Plain>>, {3}),
    Body([i \in 1..4 |-> Plain], {}),
    Body(<< >>, {}) }
OneBatch == <<b1, 1>> :> c1 @@ <<b1, 2>> :> c2 @@ <<b1, 3>> :> c3

\* A batch beside a single call, while a query fails; and a batch alone, while
\* the clock runs.
Workloads == {
    [singles |-> Singles, time |-> 0, faults |-> 1],
    [singles |-> {}, time |-> 1, faults |-> 0] }

\* Bound: a behaviour belongs to one workload.
OneWorkload ==
    \E w \in Workloads :
        /\ \A c \in Singles \ w.singles : request[c] = NULL
        /\ now <= w.time
        /\ faults <= w.faults

=============================================================================
