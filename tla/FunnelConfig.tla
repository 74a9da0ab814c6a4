----------------------------- MODULE FunnelConfig -----------------------------
(***************************************************************************)
(* FunnelConfigService with its repository and cache: create, get, list,   *)
(* update (a new version), archive and publish.  A change is committed in  *)
(* the database, and when its answer arrives the cached copies are         *)
(* deleted; a get or a create may in the meantime hold an older copy that  *)
(* it is about to store.  One workspace; a row is what a reader can tell   *)
(* of a funnel, its steps and texts left out.                              *)
(***************************************************************************)
EXTENDS Integers, FiniteSets

CONSTANTS
    Calls,
    Requests,
    MaxFunnels,    \* bound: funnels
    MaxVersions,   \* bound: versions of a funnel
    MaxFaults,     \* bound: queries that fail or answers that are lost
    NULL

Funnels == 1..MaxFunnels
Versions == 1..MaxVersions

\* Without a version, publish takes the latest.
AllRequests ==
    [op : {"create", "list"}]
    \cup [op : {"get", "archive"}, funnel : Funnels]
    \cup [op : {"update"}, funnel : Funnels, steps : BOOLEAN]
    \cup [op : {"publish"}, funnel : Funnels, version : Versions \cup {NULL}]

\* latest is the version of the last publication.  by is history: the calls
\* whose changes it has seen.
Rows == [versions : SUBSET Versions, published : SUBSET Versions, latest : Versions \cup {0},
         archived : BOOLEAN, by : SUBSET Calls]

ASSUME FunnelConfigAssumption ==
    /\ Requests \subseteq AllRequests
    /\ MaxFunnels \in Nat \ {0} /\ MaxVersions \in Nat \ {0} /\ MaxFaults \in Nat
    /\ NULL \notin Rows \cup Versions \cup Funnels \cup Calls \cup Requests

VARIABLES
    funnel,    \* [Funnels -> Rows or NULL]
    config,    \* [Funnels -> Rows or NULL]: the cached configurations
    listed,    \* the cached list: [Funnels -> Rows or NULL], or NULL
    faults,
    pc,
    request,
    target,    \* local: the funnel
    number,    \* local: the version to make or to publish
    got,       \* local: the row, or the list, that was read
    reply,
    before,    \* history: the calls that had returned when it began
    archivedBy, \* history: [Funnels -> the call that archived it, or NULL]
    storers    \* history: the calls that have stored a configuration in the cache

cache == <<config, listed>>
locals == <<target, number, got>>
history == <<before, archivedBy, storers>>
vars == <<funnel, cache, faults, pc, request, locals, reply, history>>

Steps == {"insert", "lookUp", "find", "lookUpList", "findMany", "readVersion", "write",
          "archive", "findVersion", "publish", "finish"}

At(c, step) == pc[c] = step
Returned(c) == pc[c] = "done"
InFlight(c) == pc[c] \in Steps
Goto(c, step) == pc' = [pc EXCEPT ![c] = step] /\ UNCHANGED reply
Return(c, r) == pc' = [pc EXCEPT ![c] = "done"] /\ reply' = [reply EXCEPT ![c] = r]

Op(c) == request[c].op
Row(c) == funnel[target[c]]
Known == {f \in Funnels : funnel[f] # NULL}
Open(f) == f \in Known /\ ~funnel[f].archived
Latest(row) == CHOOSE v \in row.versions : \A w \in row.versions : w <= v
Changed(row, c) == [row EXCEPT !.by = @ \cup {c}]

Init ==
    /\ funnel = [f \in Funnels |-> NULL]
    /\ config = [f \in Funnels |-> NULL] /\ listed = NULL
    /\ faults = 0
    /\ pc = [c \in Calls |-> "idle"]
    /\ request = [c \in Calls |-> NULL]
    /\ target = [c \in Calls |-> NULL]
    /\ number = [c \in Calls |-> 0]
    /\ got = [c \in Calls |-> NULL]
    /\ reply = [c \in Calls |-> NULL]
    /\ before = [c \in Calls |-> {}]
    /\ archivedBy = [f \in Funnels |-> NULL]
    /\ storers = {}

FirstStep(r) ==
    CASE r.op = "create" -> "insert" [] r.op = "get" -> "lookUp" [] r.op = "list" -> "lookUpList"
      [] r.op = "update" -> "readVersion" [] r.op = "archive" -> "archive"
      [] r.op = "publish" -> IF r.version = NULL THEN "lookUp" ELSE "findVersion"

Begin(c, r) ==
    /\ At(c, "idle")
    /\ r.op \notin {"create", "list"} => r.funnel \in Known
    /\ r.op = "create" =>
          Cardinality(Known) + Cardinality({d \in Calls : At(d, "insert")}) < MaxFunnels
    /\ request' = [request EXCEPT ![c] = r]
    /\ target' = [target EXCEPT ![c] = IF r.op \in {"create", "list"} THEN NULL ELSE r.funnel]
    /\ number' = [number EXCEPT ![c] =
                     IF r.op = "publish" /\ r.version # NULL THEN r.version ELSE 0]
    /\ before' = [before EXCEPT ![c] = {d \in Calls : Returned(d)}]
    /\ Goto(c, FirstStep(r))
    /\ UNCHANGED <<funnel, cache, faults, got, archivedBy, storers>>

\* A change is committed; its answer is still on its way.
Commit(c, f, row) ==
    /\ funnel' = [funnel EXCEPT ![f] = Changed(row, c)]
    /\ got' = [got EXCEPT ![c] = Changed(row, c)]
    /\ Goto(c, "finish")

NotFound(c) == Return(c, "not found") /\ UNCHANGED <<funnel, got>>

-----------------------------------------------------------------------------
(* createFunnel                                                            *)

Insert(c) ==
    LET f == Cardinality(Known) + 1 IN
    /\ At(c, "insert")
    /\ target' = [target EXCEPT ![c] = f]
    /\ Commit(c, f, [versions |-> {1}, published |-> {}, latest |-> 0, archived |-> FALSE, by |-> {}])
    /\ UNCHANGED <<cache, faults, request, number, history>>

-----------------------------------------------------------------------------
(* getFunnelById, also as the first part of a publish without a version    *)

Take(c, row) ==
    /\ got' = [got EXCEPT ![c] = row]
    /\ IF Op(c) = "get" THEN Return(c, "done") /\ UNCHANGED number
       ELSE Goto(c, "findVersion") /\ number' = [number EXCEPT ![c] = Latest(row)]

LookUp(c) ==
    /\ At(c, "lookUp")
    /\ IF config[target[c]] # NULL THEN Take(c, config[target[c]])
       ELSE Goto(c, "find") /\ UNCHANGED <<number, got>>
    /\ UNCHANGED <<funnel, cache, faults, request, target, history>>

\* One snapshot: Prisma reads the funnel and its relations in queries of their
\* own, between which another call's commit may fall; what was committed before
\* the first is in all of them.
Find(c) ==
    /\ At(c, "find")
    /\ IF Open(target[c]) THEN got' = [got EXCEPT ![c] = Row(c)] /\ Goto(c, "finish") /\ UNCHANGED funnel
       ELSE NotFound(c)
    /\ UNCHANGED <<cache, faults, request, target, number, history>>

-----------------------------------------------------------------------------
(* listFunnels, without its filters, pages and counts                      *)

LookUpList(c) ==
    /\ At(c, "lookUpList")
    /\ IF listed # NULL THEN got' = [got EXCEPT ![c] = listed] /\ Return(c, "done")
       ELSE Goto(c, "findMany") /\ UNCHANGED got
    /\ UNCHANGED <<funnel, cache, faults, request, target, number, history>>

FindMany(c) ==
    /\ At(c, "findMany")
    /\ got' = [got EXCEPT ![c] = [f \in Funnels |-> IF Open(f) THEN funnel[f] ELSE NULL]]
    /\ Goto(c, "finish")
    /\ UNCHANGED <<funnel, cache, faults, request, target, number, history>>

-----------------------------------------------------------------------------
(* updateFunnel                                                            *)

\* Mutant: archived funnels are found too.
IsKnown(f) == f \in Known

Editable(f) == Open(f)

\* The transaction reads the funnel with its latest version ...
ReadVersion(c) ==
    /\ At(c, "readVersion")
    /\ IF Editable(target[c])
       THEN number' = [number EXCEPT ![c] = Latest(Row(c)) + 1] /\ Goto(c, "write") /\ UNCHANGED <<funnel, got>>
       ELSE NotFound(c) /\ UNCHANGED number
    /\ UNCHANGED <<cache, faults, request, target, history>>

\* Mutant: the unique index is missing.
NeverTaken(c) == FALSE

\* The unique index on (funnel, version): another update was faster.
VersionTaken(c) == number[c] \in Row(c).versions

\* ... and writes the row, and the new version if there are steps.
Write(c) ==
    /\ At(c, "write") /\ number[c] <= MaxVersions
    /\ IF request[c].steps /\ VersionTaken(c)
       THEN Return(c, "failed") /\ UNCHANGED <<funnel, got>>
       ELSE Commit(c, target[c], IF request[c].steps
                                 THEN [Row(c) EXCEPT !.versions = @ \cup {number[c]}] ELSE Row(c))
    /\ UNCHANGED <<cache, faults, request, target, number, history>>

\* Bound: an update that would exceed MaxVersions is not carried out.
TooMany(c) ==
    /\ At(c, "write") /\ number[c] > MaxVersions
    /\ Return(c, "failed")
    /\ UNCHANGED <<funnel, cache, faults, request, locals, history>>

-----------------------------------------------------------------------------
(* archiveFunnel                                                           *)

\* updateMany, where archivedAt is null.
Archive(c) ==
    /\ At(c, "archive")
    /\ IF Open(target[c])
       THEN /\ Commit(c, target[c], [Row(c) EXCEPT !.archived = TRUE])
            /\ archivedBy' = [archivedBy EXCEPT ![target[c]] = c]
       ELSE NotFound(c) /\ UNCHANGED archivedBy
    /\ UNCHANGED <<cache, faults, request, target, number, before, storers>>

-----------------------------------------------------------------------------
(* publishFunnelVersion                                                    *)

VersionExists(c) == Open(target[c]) /\ number[c] \in Row(c).versions

FindVersion(c) ==
    /\ At(c, "findVersion")
    /\ IF VersionExists(c)
       THEN Goto(c, "publish") /\ UNCHANGED <<funnel, got>>
       ELSE NotFound(c)
    /\ UNCHANGED <<cache, faults, request, target, number, history>>

Publish(c) ==
    /\ At(c, "publish")
    /\ Commit(c, target[c], [Row(c) EXCEPT !.published = @ \cup {number[c]}, !.latest = number[c]])
    /\ UNCHANGED <<cache, faults, request, target, number, history>>

-----------------------------------------------------------------------------

\* Mutant: a publication leaves the copy where it is.
DeletedByUpdate(c) == IF Op(c) = "update" THEN [config EXCEPT ![target[c]] = NULL] ELSE config

\* invalidateFunnelCache deletes the key of the configuration.  The key it
\* deletes for the list is none that a list is stored under.
Deleted(c) == [config EXCEPT ![target[c]] = NULL]

\* cacheFunnelConfig keeps what the call has read, or has made.
StoreConfig(c) ==
    /\ config' = [config EXCEPT ![target[c]] = got[c]]
    /\ storers' = storers \cup {c}
    /\ UNCHANGED listed

\* The answer of the database is handled.  archiveFunnel of the repository
\* returns the funnel as getFunnelById finds it, which is not at all, and so
\* the service throws before it deletes anything.
Finish(c) ==
    /\ At(c, "finish")
    /\ \/ /\ Op(c) \in {"create", "get"}
          /\ StoreConfig(c) /\ Return(c, "done")
       \/ /\ Op(c) = "publish" /\ number[c] = 0     \* the version is still to be taken
          /\ StoreConfig(c) /\ Goto(c, "findVersion")
       \/ /\ Op(c) = "list"
          /\ listed' = got[c] /\ UNCHANGED <<config, storers>> /\ Return(c, "done")
       \/ /\ Op(c) = "update" \/ (Op(c) = "publish" /\ number[c] # 0)
          /\ config' = Deleted(c) /\ UNCHANGED <<listed, storers>> /\ Return(c, "done")
       \/ /\ Op(c) = "archive"
          /\ UNCHANGED <<cache, storers>> /\ Return(c, "not found")
    /\ number' = IF Op(c) = "publish" /\ number[c] = 0
                 THEN [number EXCEPT ![c] = Latest(got[c])] ELSE number
    /\ UNCHANGED <<funnel, faults, request, target, got, before, archivedBy>>

\* A query fails, or its answer is lost after the commit.
DatabaseError(c) ==
    /\ InFlight(c) /\ pc[c] \notin {"lookUp", "lookUpList"} /\ faults < MaxFaults
    /\ faults' = faults + 1
    /\ Return(c, "failed")
    /\ UNCHANGED <<funnel, cache, request, locals, history>>

Expire ==
    /\ \/ \E f \in Funnels : config[f] # NULL /\ config' = [config EXCEPT ![f] = NULL] /\ UNCHANGED listed
       \/ listed # NULL /\ listed' = NULL /\ UNCHANGED config
    /\ UNCHANGED <<funnel, faults, pc, request, locals, reply, history>>

AllReturned == (\A c \in Calls : Returned(c)) /\ UNCHANGED vars

Next ==
    \/ \E c \in Calls :
          \/ \E r \in Requests : Begin(c, r)
          \/ Insert(c) \/ LookUp(c) \/ Find(c) \/ LookUpList(c) \/ FindMany(c)
          \/ ReadVersion(c) \/ Write(c) \/ TooMany(c)
          \/ Archive(c) \/ FindVersion(c) \/ Publish(c)
          \/ Finish(c) \/ DatabaseError(c)
    \/ Expire
    \/ AllReturned

Spec == Init /\ [][Next]_vars

-----------------------------------------------------------------------------
(* Properties.                                                             *)

\* Every variable has its type, and only versions that exist are published.
RowOK(row) == row \in Rows /\ row.published \subseteq row.versions /\ row.latest \in row.published \cup {0}

TypeOK ==
    /\ \A f \in Funnels : funnel[f] # NULL => RowOK(funnel[f])
    /\ \A f \in Funnels : config[f] # NULL => RowOK(config[f]) /\ ~config[f].archived
    /\ faults \in 0..MaxFaults
    /\ pc \in [Calls -> Steps \cup {"idle", "done"}]
    /\ request \in [Calls -> Requests \cup {NULL}]
    /\ target \in [Calls -> Funnels \cup {NULL}]
    /\ number \in [Calls -> 0..(MaxVersions + 1)]
    /\ reply \in [Calls -> {NULL, "done", "failed", "not found"}]
    /\ before \in [Calls -> SUBSET Calls]
    /\ archivedBy \in [Funnels -> Calls \cup {NULL}]
    /\ storers \subseteq Calls

Overlap(c, d) == c \notin before[d] /\ d \notin before[c]
Did(c, ops) == Returned(c) /\ reply[c] = "done" /\ Op(c) \in ops

MakesVersion(c) == Op(c) = "create" \/ (Op(c) = "update" /\ request[c].steps)

\* Every creation and every update with steps that got into the database has
\* a version of its own, and the versions have no gap: of two updates that
\* read the same latest version one fails.
EveryUpdateItsVersion ==
    \A f \in Known :
        /\ funnel[f].versions = 1..Cardinality(funnel[f].versions)
        /\ Cardinality(funnel[f].versions) = Cardinality({c \in funnel[f].by : MakesVersion(c)})

\* A funnel changes after it was archived only by calls that overlapped the
\* archiving.
ArchivedChangesByRace ==
    \A f \in Known :
        funnel[f].archived =>
            \A c \in funnel[f].by \ {archivedBy[f]} : archivedBy[f] \notin before[c]

\* A get that was answered, and a publish that has just taken the version to
\* publish from what it read.
HoldsConfig(c) ==
    \/ Did(c, {"get"})
    \/ pc[c] \in {"findVersion", "publish"} /\ Op(c) = "publish" /\ request[c].version = NULL

\* What a get returns, and a publish takes its version from, contains every
\* update and publication answered before it began, unless a call other than
\* the change itself overlapped it and stored in the cache what it had read or
\* created.  A call that found its copy in the cache, or that published an
\* explicit version, stores nothing and is no excuse.
ConfigStaleByRace ==
    \A c, d \in Calls :
        /\ HoldsConfig(c)
        /\ Did(d, {"update", "publish"}) /\ d \in before[c] /\ target[c] = target[d]
        /\ d \notin got[c].by
        => \E q \in storers \ {d} : Overlap(q, d) /\ target[q] = target[d]

(* What the code says of itself and does not do.                           *)

\* funnel-config.service.ts: "Invalidate list caches", after a creation.
ListShowsCreated ==
    \A c, d \in Calls :
        Did(c, {"list"}) /\ Did(d, {"create"}) /\ d \in before[c] => got[c][target[d]] # NULL

\* funnel-config.controller.ts: "Archive a funnel (soft delete)", and the
\* service means to answer "Funnel archived successfully".
ArchiverIsTold == \A f \in Known : \A c \in Calls :
    archivedBy[f] = c /\ Returned(c) /\ faults = 0 => reply[c] = "done"

\* funnel-config.controller.ts: "If no version specified, get the latest version".
PublishesLatest ==
    \A c, d \in Calls :
        /\ Did(c, {"publish"}) /\ request[c].version = NULL
        /\ Did(d, {"update"}) /\ request[d].steps /\ d \in before[c] /\ target[c] = target[d]
        => number[c] >= number[d]
=============================================================================
