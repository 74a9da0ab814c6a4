-------------------------- MODULE FunnelConfigProofs --------------------------
(***************************************************************************)
(* Theorems about FunnelConfig for every value of its constants: versions  *)
(* have no gap and no double, an archived funnel changes only by a race,   *)
(* and so does a cached copy that is older than an answered change.        *)
(***************************************************************************)
EXTENDS FunnelConfig, TLAPS, FiniteSetTheorems

\* A row whose versions are numbered from 1 on.
FullRow(row) == RowOK(row) /\ \E n \in Versions : row.versions = 1..n

Inserting == {c \in Calls : At(c, "insert")}

\* Funnels are numbered from 1 on, and there is room for those on their way.
KnownOK ==
    \E k \in Nat : /\ Known = 1..k
                   /\ IsFiniteSet(Inserting)
                   /\ k + Cardinality(Inserting) <= MaxFunnels

\* The calls that store in the cache what they read, and those that delete it.
Stores(c) == Op(c) \in {"create", "get"} \/ (Op(c) = "publish" /\ number[c] = 0)
Deletes(c) == Op(c) = "update" \/ (Op(c) = "publish" /\ number[c] # 0)

TakesLatest(c) == Op(c) = "publish" /\ request[c].version = NULL /\ number[c] = 0

\* What a call does at each await.
OpOK(c) ==
    /\ pc[c] = "insert" => Op(c) = "create"
    /\ pc[c] \in {"lookUp", "find"} => Op(c) = "get" \/ TakesLatest(c)
    /\ pc[c] \in {"lookUpList", "findMany"} => Op(c) = "list"
    /\ pc[c] \in {"readVersion", "write"} => Op(c) = "update"
    /\ pc[c] = "archive" => Op(c) = "archive"
    /\ pc[c] \in {"findVersion", "publish"} => Op(c) = "publish" /\ number[c] \in Versions
    /\ pc[c] = "finish" /\ Op(c) = "publish" /\ number[c] = 0 => request[c].version = NULL

\* The funnel a call is about, and what the call holds of it.
TargetOK(c) ==
    /\ target[c] # NULL => target[c] \in Known
    /\ Op(c) \notin {"create", "list"} => target[c] \in Known
    /\ pc[c] = "finish" /\ Op(c) # "list" => target[c] \in Known
    /\ pc[c] = "finish" /\ Stores(c) => FullRow(got[c]) /\ ~got[c].archived
    /\ pc[c] = "write" => number[c] - 1 \in Row(c).versions
    /\ pc[c] = "publish" => number[c] \in Row(c).versions

CallOK(c) ==
    IF pc[c] = "idle" THEN request[c] = NULL /\ target[c] = NULL
    ELSE /\ request[c] \in Requests
         /\ OpOK(c) /\ TargetOK(c)
         /\ \A d \in before[c] : pc[d] = "done"

TypeInv ==
    /\ TypeOK
    /\ funnel = [f \in Funnels |-> funnel[f]]
    /\ config = [f \in Funnels |-> config[f]]
    /\ got = [c \in Calls |-> got[c]]
    /\ \A f \in Funnels : /\ funnel[f] # NULL => FullRow(funnel[f])
                          /\ config[f] # NULL => FullRow(config[f])
    /\ KnownOK
    /\ \A c \in Calls : CallOK(c)

-----------------------------------------------------------------------------
(* Rows.                                                                   *)

\* An interval from 1 has one end.
LEMMA SameTop == ASSUME NEW m \in Nat \ {0}, NEW n \in Nat \ {0}, 1..m = 1..n PROVE m = n
<1>1. m \in 1..n /\ n \in 1..m
  OBVIOUS
<1> QED
  BY <1>1

\* The latest version of a row is the number of its versions.
LEMMA LatestOfFull ==
    ASSUME NEW row, FullRow(row)
    PROVE  /\ Latest(row) \in Versions
           /\ Latest(row) \in row.versions
           /\ row.versions = 1..Latest(row)
<1>1. PICK n \in Versions : row.versions = 1..n
  BY DEF FullRow
<1>2. n \in Nat /\ n >= 1
  BY FunnelConfigAssumption DEF Versions
<1>3. n \in row.versions /\ \A w \in row.versions : w <= n
  BY <1>1, <1>2
<1>4. \A v \in row.versions : (\A w \in row.versions : w <= v) => v = n
  BY <1>1, <1>2
<1>5. Latest(row) = n
  BY <1>3, <1>4 DEF Latest
<1> QED
  BY <1>1, <1>3, <1>5

\* A change adds its call to the history of the row and nothing else.
LEMMA ChangedRow ==
    ASSUME NEW row, FullRow(row), NEW c \in Calls
    PROVE  /\ FullRow(Changed(row, c))
           /\ Changed(row, c) # NULL
           /\ Changed(row, c).versions = row.versions
           /\ Changed(row, c).archived = row.archived
           /\ Changed(row, c).by = row.by \cup {c}
<1>1. row \in Rows /\ row.published \subseteq row.versions /\ row.latest \in row.published \cup {0}
  BY DEF FullRow, RowOK
<1>2. /\ Changed(row, c) \in Rows
      /\ Changed(row, c).versions = row.versions
      /\ Changed(row, c).published = row.published
      /\ Changed(row, c).latest = row.latest
      /\ Changed(row, c).archived = row.archived
      /\ Changed(row, c).by = row.by \cup {c}
  BY <1>1 DEF Changed, Rows
<1>3. Changed(row, c) # NULL
  BY <1>2, FunnelConfigAssumption
<1> HIDE DEF Changed
<1> QED
  BY <1>1, <1>2, <1>3 DEF FullRow, RowOK

\* The row that createFunnel inserts.
LEMMA FirstRow ==
    LET row == [versions |-> {1}, published |-> {}, latest |-> 0, archived |-> FALSE, by |-> {}]
    IN FullRow(row) /\ ~row.archived /\ row.by = {} /\ row.versions = 1..1
<1> DEFINE row == [versions |-> {1}, published |-> {}, latest |-> 0, archived |-> FALSE, by |-> {}]
<1>1. 1 \in Versions
  BY FunnelConfigAssumption DEF Versions
<1>2. row \in Rows
  BY <1>1 DEF Rows
<1>3. row.versions = 1..1
  OBVIOUS
<1> QED
  BY <1>1, <1>2, <1>3 DEF FullRow, RowOK

\* The row with the version that an update adds.
LEMMA NextVersionRow ==
    ASSUME NEW row, FullRow(row), NEW v \in Versions, v - 1 \in row.versions, v \notin row.versions
    PROVE  LET r == [row EXCEPT !.versions = @ \cup {v}]
           IN /\ FullRow(r) /\ r.archived = row.archived /\ r.by = row.by
              /\ Latest(row) = v - 1 /\ r.versions = 1..v
<1> DEFINE r == [row EXCEPT !.versions = @ \cup {v}]
<1>1. row \in Rows /\ row.published \subseteq row.versions /\ row.latest \in row.published \cup {0}
  BY DEF FullRow, RowOK
<1>2. PICK n \in Versions : row.versions = 1..n
  BY DEF FullRow
<1>3. v = n + 1 /\ (1..n) \cup {v} = 1..v
  BY <1>2, FunnelConfigAssumption DEF Versions
<1>4. /\ r \in Rows /\ r.versions = row.versions \cup {v} /\ r.published = row.published
      /\ r.latest = row.latest /\ r.archived = row.archived /\ r.by = row.by
  BY <1>1 DEF Rows
<1>5. Latest(row) = n
  <2>1. row.versions = 1..Latest(row) /\ Latest(row) \in Versions
    BY LatestOfFull
  <2> QED
    BY <1>2, <2>1, FunnelConfigAssumption, SameTop DEF Versions
<1> HIDE DEF r
<1>6. FullRow(r) /\ r.versions = 1..v
  BY <1>1, <1>2, <1>3, <1>4 DEF FullRow, RowOK
<1>7. Latest(row) = v - 1
  BY <1>2, <1>3, <1>5, FunnelConfigAssumption DEF Versions
<1> QED
  BY <1>4, <1>6, <1>7 DEF r

\* The row of an archived funnel.
LEMMA ArchivedRow ==
    ASSUME NEW row, FullRow(row)
    PROVE  LET r == [row EXCEPT !.archived = TRUE]
           IN FullRow(r) /\ r.archived /\ r.by = row.by /\ r.versions = row.versions
<1> DEFINE r == [row EXCEPT !.archived = TRUE]
<1>1. row \in Rows /\ row.published \subseteq row.versions /\ row.latest \in row.published \cup {0}
  BY DEF FullRow, RowOK
<1>2. /\ r \in Rows /\ r.versions = row.versions /\ r.published = row.published
      /\ r.latest = row.latest /\ r.archived /\ r.by = row.by
  BY <1>1 DEF Rows
<1> HIDE DEF r
<1>3. FullRow(r)
  BY <1>1, <1>2 DEF FullRow, RowOK
<1> QED
  BY <1>2, <1>3 DEF r

\* The row of a funnel of which a version is published.
LEMMA PublishedRow ==
    ASSUME NEW row, FullRow(row), NEW v \in row.versions
    PROVE  LET r == [row EXCEPT !.published = @ \cup {v}, !.latest = v]
           IN FullRow(r) /\ r.archived = row.archived /\ r.by = row.by /\ r.versions = row.versions
<1> DEFINE r == [row EXCEPT !.published = @ \cup {v}, !.latest = v]
<1>1. row \in Rows /\ row.published \subseteq row.versions /\ row.latest \in row.published \cup {0}
  BY DEF FullRow, RowOK
<1>2. v \in Versions
  BY <1>1 DEF Rows
<1>3. /\ r \in Rows /\ r.versions = row.versions /\ r.published = row.published \cup {v}
      /\ r.latest = v /\ r.archived = row.archived /\ r.by = row.by
  BY <1>1, <1>2 DEF Rows
<1> HIDE DEF r
<1>4. FullRow(r)
  BY <1>1, <1>3 DEF FullRow, RowOK
<1> QED
  BY <1>3, <1>4 DEF r
-----------------------------------------------------------------------------
(* Steps.                                                                  *)

CallStep(c) ==
    \/ Insert(c) \/ LookUp(c) \/ Find(c) \/ LookUpList(c) \/ FindMany(c)
    \/ ReadVersion(c) \/ Write(c) \/ TooMany(c)
    \/ Archive(c) \/ FindVersion(c) \/ Publish(c)
    \/ Finish(c) \/ DatabaseError(c)

\* A step of one call leaves the other calls where they are.
Others(c) ==
    \A d \in Calls : d # c => /\ pc'[d] = pc[d] /\ reply'[d] = reply[d]
                              /\ request'[d] = request[d] /\ before'[d] = before[d]
                              /\ target'[d] = target[d] /\ number'[d] = number[d] /\ got'[d] = got[d]

\* Funnels and versions are never deleted.
Grows == \A f \in Funnels :
            funnel[f] # NULL => funnel'[f] # NULL /\ funnel[f].versions \subseteq funnel'[f].versions

\* What holds of a request, whatever the call.
LEMMA RequestFields ==
    ASSUME NEW r \in Requests
    PROVE  /\ r.op \in {"create", "list", "get", "archive", "update", "publish"}
           /\ r.op \notin {"create", "list"} => r.funnel \in Funnels
           /\ r.op = "update" => r.steps \in BOOLEAN
           /\ r.op = "publish" => r.version \in Versions \cup {NULL}
<1>1. r \in AllRequests
  BY FunnelConfigAssumption
<1> QED
  BY <1>1 DEF AllRequests

\* The first step of a call is under way.
LEMMA FirstStepOK ==
    ASSUME NEW r \in Requests
    PROVE  /\ FirstStep(r) \in Steps \ {"finish", "write", "publish"}
           /\ FirstStep(r) = "insert" <=> r.op = "create"
           /\ FirstStep(r) \in {"lookUpList", "findMany"} => r.op = "list"
           /\ FirstStep(r) \in {"readVersion", "write"} => r.op = "update"
           /\ FirstStep(r) = "archive" => r.op = "archive"
           /\ FirstStep(r) \in {"lookUp", "find"} =>
                 r.op = "get" \/ (r.op = "publish" /\ r.version = NULL)
           /\ FirstStep(r) = "findVersion" => r.op = "publish" /\ r.version \in Versions
BY RequestFields DEF FirstStep, Steps

\* A step of a call moves that call alone.
LEMMA StepFrame ==
    ASSUME TypeInv, NEW c \in Calls, CallStep(c)
    PROVE  Others(c) /\ UNCHANGED <<request, before>> /\ pc[c] \notin {"idle", "done"}
<1> USE DEF TypeInv, TypeOK, Others, At, Goto, Return, NotFound, Commit, Take, locals, cache, history
<1>1. CASE Insert(c) \/ LookUp(c) \/ Find(c)
  BY <1>1 DEF Insert, LookUp, Find
<1>2. CASE LookUpList(c) \/ FindMany(c) \/ ReadVersion(c) \/ Write(c) \/ TooMany(c)
  BY <1>2 DEF LookUpList, FindMany, ReadVersion, Write, TooMany
<1>3. CASE Archive(c) \/ FindVersion(c) \/ Publish(c)
  BY <1>3 DEF Archive, FindVersion, Publish
<1>4. CASE Finish(c)
  BY <1>4 DEF Finish
<1>5. CASE DatabaseError(c)
  BY <1>5 DEF DatabaseError, InFlight, Steps
<1> QED
  BY <1>1, <1>2, <1>3, <1>4, <1>5 DEF CallStep

\* What the other calls know survives the step.
LEMMA OthersKeep ==
    ASSUME TypeInv, NEW c \in Calls, Others(c), Grows, pc[c] # "done",
           NEW d \in Calls, d # c
    PROVE  CallOK(d)'
<1>1. CallOK(d) /\ before[d] \subseteq Calls
  BY DEF TypeInv, TypeOK
<1>2. CASE pc[d] = "idle"
  BY <1>1, <1>2 DEF Others, CallOK
<1>3. CASE pc[d] # "idle"
  <2>1. Op(d)' = Op(d) /\ TakesLatest(d)' = TakesLatest(d) /\ Stores(d)' = Stores(d)
    BY DEF Others, Op, TakesLatest, Stores
  <2>2. \A f \in Known : f \in Known' /\ funnel[f].versions \subseteq funnel'[f].versions
    BY DEF Known, Grows
  <2>3. pc[d] \in {"write", "publish"} => target[d] \in Known
    BY <1>1, <1>3 DEF CallOK, OpOK, TargetOK
  <2>4. OpOK(d)'
    BY <1>1, <1>3, <2>1 DEF CallOK, OpOK, Others
  <2>5. TargetOK(d)'
    BY <1>1, <1>3, <2>1, <2>2, <2>3 DEF CallOK, TargetOK, Others, Row, FullRow, RowOK
  <2>6. \A e \in before'[d] : pc'[e] = "done"
    BY <1>1, <1>3 DEF CallOK, Others
  <2> QED
    BY <1>1, <1>3, <2>4, <2>5, <2>6 DEF CallOK, Others
<1> QED
  BY <1>2, <1>3

\* There is room for as many funnels when no call comes to insert one.
LEMMA RoomKept ==
    ASSUME TypeInv, Known' = Known, NEW c \in Calls, Others(c), pc'[c] # "insert"
    PROVE  KnownOK'
<1>1. PICK k \in Nat : Known = 1..k /\ IsFiniteSet(Inserting) /\ k + Cardinality(Inserting) <= MaxFunnels
  BY DEF TypeInv, KnownOK
<1>2. Inserting' \subseteq Inserting
  BY DEF Inserting, At, Others
<1>3. /\ IsFiniteSet(Inserting') /\ Cardinality(Inserting') <= Cardinality(Inserting)
      /\ Cardinality(Inserting') \in Nat /\ Cardinality(Inserting) \in Nat
  BY <1>1, <1>2, FS_Subset, FS_CardinalityType
<1>4. MaxFunnels \in Nat
  BY FunnelConfigAssumption
<1> QED
  BY <1>1, <1>3, <1>4 DEF KnownOK

\* Before anything is called there is no funnel.
LEMMA InitTypeInv == Init => TypeInv
<1> SUFFICES ASSUME Init PROVE TypeInv
  OBVIOUS
<1> USE DEF Init
<1>1. TypeOK
  BY FunnelConfigAssumption DEF TypeOK
<1>2. Known = 1..0 /\ Inserting = {}
  BY DEF Known, Inserting, At
<1>3. KnownOK
  <2>1. IsFiniteSet({}) /\ Cardinality({}) = 0 /\ MaxFunnels \in Nat
    BY FS_EmptySet, FunnelConfigAssumption
  <2> QED
    BY <1>2, <2>1 DEF KnownOK
<1>4. \A c \in Calls : CallOK(c)
  BY DEF CallOK
<1> QED
  BY <1>1, <1>3, <1>4 DEF TypeInv

\* The variables of the calls have their types, but for the rows.
VarsOK ==
    /\ faults \in 0..MaxFaults
    /\ pc \in [Calls -> Steps \cup {"idle", "done"}]
    /\ request \in [Calls -> Requests \cup {NULL}]
    /\ target \in [Calls -> Funnels \cup {NULL}]
    /\ number \in [Calls -> 0..(MaxVersions + 1)]
    /\ reply \in [Calls -> {NULL, "done", "failed", "not found"}]
    /\ before \in [Calls -> SUBSET Calls]
    /\ archivedBy \in [Funnels -> Calls \cup {NULL}]
    /\ storers \subseteq Calls
    /\ got = [c \in Calls |-> got[c]]

\* The tables have the rows they should.
RowsOK ==
    /\ funnel = [f \in Funnels |-> funnel[f]]
    /\ config = [f \in Funnels |-> config[f]]
    /\ \A f \in Funnels : /\ funnel[f] # NULL => FullRow(funnel[f])
                          /\ config[f] # NULL => FullRow(config[f]) /\ ~config[f].archived

\* The type invariant by its parts.
LEMMA TypeParts == TypeInv <=> VarsOK /\ RowsOK /\ KnownOK /\ \A c \in Calls : CallOK(c)
BY DEF TypeInv, TypeOK, VarsOK, RowsOK, FullRow

\* The funnel that a call under way is about, and its row.
LEMMA RowOfCall ==
    ASSUME TypeInv, NEW c \in Calls, target[c] \in Known
    PROVE  target[c] \in Funnels /\ Row(c) # NULL /\ FullRow(Row(c))
BY DEF Known, TypeInv, Row

\* The number that a row makes the next one, or the one to publish.
LEMMA LatestInRange ==
    ASSUME NEW row, FullRow(row)
    PROVE  /\ Latest(row) \in 0..(MaxVersions + 1)
           /\ Latest(row) + 1 \in 0..(MaxVersions + 1)
           /\ Latest(row) # 0
BY LatestOfFull, FunnelConfigAssumption DEF Versions

\* A funnel row is replaced by one with at least its versions.
LEMMA CommitRows ==
    ASSUME TypeInv, NEW c \in Calls, NEW f \in Funnels, NEW row, FullRow(row), Commit(c, f, row),
           funnel[f] # NULL => funnel[f].versions \subseteq row.versions, UNCHANGED config
    PROVE  /\ RowsOK' /\ Grows
           /\ funnel'[f] = Changed(row, c) /\ got'[c] = Changed(row, c) /\ pc'[c] = "finish"
           /\ \A g \in Funnels : g # f => funnel'[g] = funnel[g]
           /\ FullRow(Changed(row, c)) /\ Changed(row, c) # NULL
<1>1. /\ FullRow(Changed(row, c)) /\ Changed(row, c) # NULL
      /\ Changed(row, c).versions = row.versions
  BY ChangedRow
<1>2. /\ funnel'[f] = Changed(row, c) /\ got'[c] = Changed(row, c) /\ pc'[c] = "finish"
      /\ \A g \in Funnels : g # f => funnel'[g] = funnel[g]
      /\ funnel' = [g \in Funnels |-> funnel'[g]]
  BY DEF Commit, TypeInv, TypeOK, Goto
<1>3. RowsOK'
  BY <1>1, <1>2, TypeParts DEF RowsOK
<1>4. Grows
  BY <1>1, <1>2 DEF Grows
<1> QED
  BY <1>1, <1>2, <1>3, <1>4

\* A funnel stays known; those that were unknown stay so, but for f.
LEMMA CommitKnown ==
    ASSUME NEW f \in Known, funnel'[f] # NULL, \A g \in Funnels : g # f => funnel'[g] = funnel[g]
    PROVE  Known' = Known
BY DEF Known

\* The step of a call keeps the invariant if the types hold after it and the
\* call knows what it should.
LEMMA StepKeepsType ==
    ASSUME TypeInv, NEW c \in Calls, CallStep(c), VarsOK', RowsOK', KnownOK', Grows,
           OpOK(c)', TargetOK(c)', pc'[c] # "idle"
    PROVE  TypeInv'
<1>1. Others(c) /\ UNCHANGED <<request, before>> /\ pc[c] \notin {"idle", "done"}
  BY StepFrame
<1>2. \A d \in Calls : d # c => CallOK(d)'
  BY <1>1, OthersKeep
<1>3. CallOK(c)'
  <2>1. CallOK(c) /\ before[c] \subseteq Calls
    BY DEF TypeInv, TypeOK
  <2>2. \A d \in before'[c] : pc'[d] = "done"
    BY <1>1, <2>1 DEF CallOK, Others
  <2> QED
    BY <1>1, <2>1, <2>2 DEF CallOK
<1> QED
  BY <1>2, <1>3 DEF TypeInv, TypeOK, VarsOK, RowsOK, FullRow

\* The same of a step that leaves the tables alone.
LEMMA QuietKeepsType ==
    ASSUME TypeInv, NEW c \in Calls, CallStep(c), VarsOK', UNCHANGED <<funnel, config>>,
           OpOK(c)', TargetOK(c)', pc'[c] \notin {"idle", "insert"}
    PROVE  TypeInv'
<1>1. RowsOK'
  BY TypeParts DEF RowsOK
<1>2. Grows /\ Known' = Known
  BY DEF Grows, Known
<1>3. KnownOK'
  BY <1>2, StepFrame, RoomKept
<1> QED
  BY <1>1, <1>2, <1>3, StepKeepsType

\* What a call answers when the funnel is not found.
LEMMA NotFoundType ==
    ASSUME TypeInv, NEW c \in Calls, CallStep(c), NotFound(c),
           UNCHANGED <<config, faults, target, number, archivedBy, storers>>
    PROVE  TypeInv'
<1>1. pc'[c] = "done" /\ UNCHANGED <<request, before>> /\ pc[c] \notin {"idle", "done"}
  BY StepFrame DEF NotFound, Return, TypeInv, TypeOK
<1>2. VarsOK'
  BY StepFrame, TypeParts DEF VarsOK, NotFound, Return
<1>3. OpOK(c)' /\ TargetOK(c)'
  BY <1>1 DEF NotFound, OpOK, TargetOK, TypeInv, CallOK, Op, Known
<1> QED
  BY <1>1, <1>2, <1>3, QuietKeepsType DEF NotFound

\* A call begins.
LEMMA BeginType == ASSUME TypeInv, NEW c \in Calls, NEW r \in Requests, Begin(c, r) PROVE TypeInv'
<1>1. /\ pc[c] = "idle" /\ pc'[c] = FirstStep(r) /\ request'[c] = r
      /\ before'[c] = {d \in Calls : Returned(d)}
      /\ target'[c] = (IF r.op \in {"create", "list"} THEN NULL ELSE r.funnel)
      /\ number'[c] = (IF r.op = "publish" /\ r.version # NULL THEN r.version ELSE 0)
      /\ UNCHANGED <<funnel, config, got, faults, reply, archivedBy, storers>>
      /\ r.op \notin {"create", "list"} => r.funnel \in Known
  BY DEF Begin, At, Goto, cache, TypeInv, TypeOK
<1>2. Others(c)
  BY DEF Begin, Goto, Others, TypeInv, TypeOK
<1>3. VarsOK'
  <2>1. FirstStep(r) \in Steps
    BY FirstStepOK
  <2>2. target'[c] \in Funnels \cup {NULL} /\ number'[c] \in 0..(MaxVersions + 1)
    BY <1>1, RequestFields, FunnelConfigAssumption DEF Known, Versions
  <2>3. /\ pc' = [pc EXCEPT ![c] = FirstStep(r)] /\ request' = [request EXCEPT ![c] = r]
        /\ target' = [target EXCEPT ![c] = target'[c]] /\ number' = [number EXCEPT ![c] = number'[c]]
        /\ before' = [before EXCEPT ![c] = before'[c]]
    BY DEF Begin, Goto, TypeInv, TypeOK
  <2>4. before'[c] \in SUBSET Calls
    BY <1>1
  <2> QED
    BY <1>1, <2>1, <2>2, <2>3, <2>4, TypeParts DEF VarsOK
<1>4. RowsOK' /\ Grows /\ Known' = Known
  BY <1>1, TypeParts DEF RowsOK, Grows, Known
<1>5. KnownOK'
  <2>1. CASE r.op # "create"
    BY <1>1, <1>2, <1>4, <2>1, RoomKept, FirstStepOK
  <2>2. CASE r.op = "create"
    <3>1. PICK k \in Nat : /\ Known = 1..k /\ IsFiniteSet(Inserting)
                           /\ k + Cardinality(Inserting) <= MaxFunnels
      BY DEF TypeInv, KnownOK
    <3>2. Cardinality(Known) = k
      BY <3>1, FS_Interval
    <3>3. Inserting' = Inserting \cup {c} /\ c \notin Inserting
      BY <1>1, <1>2, <2>2, FirstStepOK DEF Inserting, At, Others
    <3>4. IsFiniteSet(Inserting') /\ Cardinality(Inserting') = Cardinality(Inserting) + 1
      BY <3>1, <3>3, FS_AddElement
    <3>5. k + Cardinality(Inserting) < MaxFunnels /\ Cardinality(Inserting) \in Nat /\ MaxFunnels \in Nat
      BY <2>2, <3>1, <3>2, FS_CardinalityType, FunnelConfigAssumption DEF Begin, Inserting
    <3> QED
      BY <1>4, <3>1, <3>4, <3>5 DEF KnownOK
  <2> QED
    BY <2>1, <2>2
<1>6. OpOK(c)'
  <2>1. Op(c)' = r.op /\ request'[c].version = r.version
    BY <1>1 DEF Op
  <2>2. r.op = "publish" /\ r.version \in Versions => number'[c] \in Versions
    BY <1>1, FunnelConfigAssumption
  <2>3. r.op = "get" \/ (r.op = "publish" /\ r.version = NULL) => r.op = "get" \/ TakesLatest(c)'
    BY <1>1, <2>1 DEF TakesLatest
  <2>4. pc'[c] \notin {"finish", "write", "publish"}
    BY <1>1, FirstStepOK
  <2> QED
    BY <1>1, <2>1, <2>2, <2>3, <2>4, FirstStepOK DEF OpOK
<1>7. TargetOK(c)'
  BY <1>1, <1>4, FirstStepOK DEF TargetOK, Op
<1>8. CallOK(c)'
  <2>1. pc'[c] # "idle"
    BY <1>1, FirstStepOK DEF Steps
  <2>2. \A d \in before'[c] : pc'[d] = "done"
    BY <1>1, <1>2 DEF Others, Returned
  <2> QED
    BY <1>1, <1>6, <1>7, <2>1, <2>2 DEF CallOK
<1>9. \A d \in Calls : d # c => CallOK(d)'
  BY <1>1, <1>2, <1>4, OthersKeep
<1> QED
  BY <1>3, <1>4, <1>5, <1>8, <1>9 DEF TypeInv, TypeOK, VarsOK, RowsOK, FullRow

\* createFunnel inserts the next funnel.
LEMMA InsertType == ASSUME TypeInv, NEW c \in Calls, Insert(c) PROVE TypeInv'
<1> DEFINE row == [versions |-> {1}, published |-> {}, latest |-> 0, archived |-> FALSE, by |-> {}]
           f == Cardinality(Known) + 1
<1>1. PICK k \in Nat : Known = 1..k /\ IsFiniteSet(Inserting) /\ k + Cardinality(Inserting) <= MaxFunnels
  BY DEF TypeInv, KnownOK
<1>2. Cardinality(Known) = k
  BY <1>1, FS_Interval
<1>3. c \in Inserting /\ Op(c) = "create" /\ number[c] \in 0..(MaxVersions + 1)
  BY DEF Insert, Inserting, At, TypeInv, TypeOK, CallOK, OpOK
<1>4. Inserting # {} /\ Cardinality(Inserting) \in Nat /\ Cardinality(Inserting) # 0
  BY <1>1, <1>3, FS_EmptySet, FS_CardinalityType
<1>5. f \in Funnels /\ f \notin Known /\ f = k + 1
  BY <1>1, <1>2, <1>4, FunnelConfigAssumption DEF Funnels
<1>6. FullRow(row) /\ ~row.archived
  BY FirstRow
<1>7. /\ Commit(c, f, row) /\ target' = [target EXCEPT ![c] = f]
      /\ UNCHANGED <<config, listed, faults, request, number, before, archivedBy, storers>>
  BY DEF Insert, cache, history
<1> HIDE DEF row, f
<1>8. funnel[f] = NULL
  BY <1>5 DEF Known
<1>9. /\ RowsOK' /\ Grows
      /\ funnel'[f] = Changed(row, c) /\ got'[c] = Changed(row, c) /\ pc'[c] = "finish"
      /\ \A g \in Funnels : g # f => funnel'[g] = funnel[g]
      /\ FullRow(Changed(row, c)) /\ Changed(row, c) # NULL
  BY <1>5, <1>6, <1>7, <1>8, CommitRows
<1>10. Known' = 1..(k + 1)
  <2>1. Known' = Known \cup {f}
    BY <1>5, <1>9 DEF Known
  <2> QED
    BY <1>1, <1>5, <2>1
<1>11. KnownOK'
  <2>1. Inserting' = Inserting \ {c}
    BY <1>9, StepFrame DEF Inserting, At, Others, CallStep
  <2>2. IsFiniteSet(Inserting') /\ Cardinality(Inserting') = Cardinality(Inserting) - 1
    BY <1>1, <1>3, <2>1, FS_RemoveElement
  <2> QED
    BY <1>1, <1>4, <1>10, <2>2, FunnelConfigAssumption DEF KnownOK
<1>12. VarsOK'
  BY <1>5, <1>7, TypeParts DEF VarsOK, Commit, Goto, Steps
<1>13. OpOK(c)' /\ TargetOK(c)'
  <2>1. ~got'[c].archived /\ Op(c)' = "create" /\ target'[c] = f
    <3>1. target'[c] = f /\ Op(c)' = Op(c)
      BY <1>7 DEF Op, TypeInv, TypeOK
    <3>2. ~Changed(row, c).archived
      BY <1>6, ChangedRow
    <3> QED
      BY <1>3, <1>9, <3>1, <3>2
  <2>2. f \in Known'
    BY <1>5, <1>10
  <2> QED
    BY <1>9, <2>1, <2>2 DEF OpOK, TargetOK, Op
<1> QED
  BY <1>9, <1>11, <1>12, <1>13, StepKeepsType DEF CallStep

\* Every step keeps the types.
LEMMA NextTypeInv == TypeInv /\ [Next]_vars => TypeInv'
<1> SUFFICES ASSUME TypeInv, [Next]_vars PROVE TypeInv'
  OBVIOUS
<1>0. VarsOK /\ RowsOK /\ KnownOK /\ \A c \in Calls : CallOK(c)
  BY TypeParts
<1> USE DEF At, Goto, Return, cache, locals, history
<1>1. ASSUME NEW c \in Calls, LookUp(c) PROVE TypeInv'
  <2>1. /\ pc[c] = "lookUp" /\ OpOK(c) /\ TargetOK(c) /\ request[c] \in Requests
        /\ Op(c) = "get" \/ TakesLatest(c)
        /\ target[c] \in Known /\ target[c] \in Funnels
    BY <1>0, <1>1 DEF LookUp, CallOK, OpOK, TargetOK, TakesLatest, Known
  <2>2. UNCHANGED <<funnel, config, listed, faults, request, target, before, archivedBy, storers>>
    BY <1>1 DEF LookUp
  <2>3. CASE config[target[c]] # NULL /\ Op(c) = "get"
    <3>1. VarsOK' /\ pc'[c] = "done"
      BY <1>0, <1>1, <2>2, <2>3 DEF LookUp, Take, VarsOK
    <3>2. OpOK(c)' /\ TargetOK(c)'
      BY <2>1, <2>2, <3>1 DEF OpOK, TargetOK, Op, Known
    <3> QED
      BY <1>1, <2>2, <3>1, <3>2, QuietKeepsType DEF CallStep
  <2>4. CASE config[target[c]] # NULL /\ Op(c) # "get"
    <3> DEFINE v == Latest(config[target[c]])
    <3>1. FullRow(config[target[c]])
      BY <1>0, <2>1, <2>4 DEF RowsOK
    <3>2. v \in Versions /\ v \in 0..(MaxVersions + 1)
      BY <3>1, LatestOfFull, LatestInRange
    <3>3. number' = [number EXCEPT ![c] = v]
      BY <1>1, <2>4 DEF LookUp, Take
    <3> HIDE DEF v
    <3>4. VarsOK' /\ pc'[c] = "findVersion" /\ number'[c] = v
      BY <1>0, <1>1, <2>2, <2>4, <3>2, <3>3 DEF LookUp, Take, VarsOK, Steps
    <3>5. OpOK(c)' /\ TargetOK(c)'
      BY <2>1, <2>2, <2>4, <3>2, <3>4 DEF OpOK, TargetOK, Op, Known, TakesLatest
    <3> QED
      BY <1>1, <2>2, <3>4, <3>5, QuietKeepsType DEF CallStep
  <2>5. CASE config[target[c]] = NULL
    <3>1. VarsOK' /\ pc'[c] = "find" /\ UNCHANGED number
      BY <1>0, <1>1, <2>2, <2>5 DEF LookUp, VarsOK, Steps
    <3>2. OpOK(c)' /\ TargetOK(c)'
      BY <2>1, <2>2, <3>1 DEF OpOK, TargetOK, Op, Known, TakesLatest
    <3> QED
      BY <1>1, <2>2, <3>1, <3>2, QuietKeepsType DEF CallStep
  <2> QED
    BY <2>3, <2>4, <2>5
<1>2. ASSUME NEW c \in Calls, Find(c) PROVE TypeInv'
  <2>1. /\ pc[c] = "find" /\ OpOK(c) /\ TargetOK(c)
        /\ Op(c) = "get" \/ TakesLatest(c)
        /\ target[c] \in Known
    BY <1>0, <1>2 DEF Find, CallOK, OpOK, TargetOK, TakesLatest
  <2>2. UNCHANGED <<funnel, config, listed, faults, request, target, number, before, archivedBy, storers>>
    BY <1>2 DEF Find, NotFound
  <2>3. CASE NotFound(c)
    BY <1>2, <2>2, <2>3, NotFoundType DEF CallStep
  <2>4. CASE Open(target[c]) /\ ~NotFound(c)
    <3>1. FullRow(Row(c)) /\ ~Row(c).archived
      BY <2>1, <2>4, RowOfCall DEF Open, Row
    <3>2. got' = [got EXCEPT ![c] = Row(c)] /\ pc' = [pc EXCEPT ![c] = "finish"] /\ UNCHANGED reply
      BY <1>2, <2>4 DEF Find
    <3>3. VarsOK' /\ pc'[c] = "finish" /\ got'[c] = Row(c)
      BY <1>0, <2>2, <3>2 DEF VarsOK, Steps
    <3>4. OpOK(c)' /\ TargetOK(c)'
      BY <2>1, <2>2, <3>1, <3>3 DEF OpOK, TargetOK, Op, Known, TakesLatest
    <3> QED
      BY <1>2, <2>2, <3>3, <3>4, QuietKeepsType DEF CallStep
  <2> QED
    BY <1>2, <2>3, <2>4 DEF Find
<1>3. ASSUME NEW c \in Calls, LookUpList(c) \/ FindMany(c) PROVE TypeInv'
  <2>1. pc[c] \in {"lookUpList", "findMany"} /\ OpOK(c) /\ TargetOK(c) /\ Op(c) = "list"
    BY <1>0, <1>3 DEF LookUpList, FindMany, CallOK, OpOK
  <2>2. UNCHANGED <<funnel, config, listed, faults, request, target, number, before, archivedBy, storers>>
    BY <1>3 DEF LookUpList, FindMany
  <2>3. VarsOK' /\ pc'[c] \in {"done", "findMany", "finish"}
    <3>1. CASE LookUpList(c)
      BY <1>0, <2>2, <3>1 DEF LookUpList, VarsOK, Steps
    <3>2. CASE FindMany(c)
      BY <1>0, <2>2, <3>2 DEF FindMany, VarsOK, Steps
    <3> QED
      BY <1>3, <3>1, <3>2
  <2>4. OpOK(c)' /\ TargetOK(c)'
    BY <2>1, <2>2, <2>3 DEF OpOK, TargetOK, Op, Known, Stores
  <2> QED
    BY <1>3, <2>2, <2>3, <2>4, QuietKeepsType DEF CallStep
<1>4. ASSUME NEW c \in Calls, ReadVersion(c) PROVE TypeInv'
  <2>1. pc[c] = "readVersion" /\ OpOK(c) /\ TargetOK(c) /\ Op(c) = "update" /\ target[c] \in Known
    BY <1>0, <1>4 DEF ReadVersion, CallOK, OpOK, TargetOK
  <2>2. UNCHANGED <<funnel, config, listed, faults, request, target, got, before, archivedBy, storers>>
    BY <1>4 DEF ReadVersion, NotFound
  <2>3. CASE NotFound(c) /\ UNCHANGED number
    BY <1>4, <2>2, <2>3, NotFoundType DEF CallStep
  <2>4. CASE Editable(target[c])
    <3> DEFINE v == Latest(Row(c)) + 1
    <3>1. v \in 0..(MaxVersions + 1) /\ v - 1 \in Row(c).versions
      <4>1. FullRow(Row(c))
        BY <2>1, RowOfCall
      <4>2. Latest(Row(c)) \in Row(c).versions /\ Latest(Row(c)) \in Versions
        BY <4>1, LatestOfFull
      <4> QED
        BY <4>1, <4>2, LatestInRange DEF Versions
    <3>2. number' = [number EXCEPT ![c] = v] /\ pc' = [pc EXCEPT ![c] = "write"] /\ UNCHANGED reply
      BY <1>4, <2>4 DEF ReadVersion
    <3> HIDE DEF v
    <3>3. VarsOK' /\ pc'[c] = "write" /\ number'[c] = v
      BY <1>0, <2>2, <3>1, <3>2 DEF VarsOK, Steps
    <3>4. OpOK(c)' /\ TargetOK(c)'
      BY <2>1, <2>2, <3>1, <3>3 DEF OpOK, TargetOK, Op, Known, Row
    <3> QED
      BY <1>4, <2>2, <3>3, <3>4, QuietKeepsType DEF CallStep
  <2> QED
    BY <1>4, <2>3, <2>4 DEF ReadVersion
<1>5. ASSUME NEW c \in Calls, TooMany(c) \/ DatabaseError(c) PROVE TypeInv'
  <2>1. OpOK(c) /\ TargetOK(c) /\ pc'[c] = "done"
    <3>1. pc[c] # "idle"
      BY <1>5, StepFrame DEF CallStep
    <3> QED
      BY <1>0, <1>5, <3>1 DEF CallOK, TooMany, DatabaseError, VarsOK
  <2>2. UNCHANGED <<funnel, config, listed, request, target, number, got, before, archivedBy, storers>>
    BY <1>5 DEF TooMany, DatabaseError
  <2>3. VarsOK'
    <3>1. faults' \in 0..MaxFaults
      <4>1. faults \in 0..MaxFaults /\ MaxFaults \in Nat
        BY <1>0, FunnelConfigAssumption DEF VarsOK
      <4>2. UNCHANGED faults \/ (faults < MaxFaults /\ faults' = faults + 1)
        BY <1>5 DEF TooMany, DatabaseError
      <4> QED
        BY <4>1, <4>2
    <3>2. Return(c, "failed")
      BY <1>5 DEF TooMany, DatabaseError
    <3> QED
      BY <1>0, <2>2, <3>1, <3>2 DEF VarsOK
  <2>4. OpOK(c)' /\ TargetOK(c)'
    <3>1. pc[c] # "idle"
      BY <1>5, StepFrame DEF CallStep
    <3> QED
      BY <1>0, <2>1, <2>2, <3>1 DEF OpOK, TargetOK, Op, Known, CallOK
  <2> QED
    BY <1>5, <2>1, <2>2, <2>3, <2>4, QuietKeepsType DEF CallStep
<1>6. ASSUME NEW c \in Calls, NEW row, FullRow(row), CallStep(c), target[c] \in Known,
             Op(c) \in {"update", "archive"} \/ (Op(c) = "publish" /\ number[c] # 0),
             Commit(c, target[c], row), Row(c).versions \subseteq row.versions,
             UNCHANGED <<cache, faults, request, target, number, before, storers>>,
             archivedBy' \in [Funnels -> Calls \cup {NULL}]
      PROVE  TypeInv'
  <2>1. target[c] \in Funnels /\ Row(c) # NULL
    BY <1>6, RowOfCall
  <2>2. /\ RowsOK' /\ Grows /\ funnel'[target[c]] # NULL /\ pc'[c] = "finish"
        /\ \A g \in Funnels : g # target[c] => funnel'[g] = funnel[g]
    BY <1>6, <2>1, CommitRows DEF Row
  <2>3. Known' = Known
    BY <1>6, <2>1, <2>2 DEF Known
  <2>4. KnownOK'
    BY <1>6, <2>2, <2>3, StepFrame, RoomKept
  <2>5. VarsOK'
    BY <1>0, <1>6 DEF VarsOK, Commit, Steps
  <2>6. OpOK(c)' /\ TargetOK(c)'
    <3>1. Op(c)' = Op(c) /\ number'[c] = number[c] /\ target'[c] = target[c]
      BY <1>6 DEF Op
    <3> QED
      BY <1>6, <2>2, <2>3, <3>1 DEF OpOK, TargetOK, Stores
  <2> QED
    BY <1>6, <2>2, <2>4, <2>5, <2>6, StepKeepsType
<1>7. ASSUME NEW c \in Calls, Write(c) PROVE TypeInv'
  <2>1. /\ pc[c] = "write" /\ OpOK(c) /\ TargetOK(c) /\ Op(c) = "update" /\ target[c] \in Known
        /\ number[c] - 1 \in Row(c).versions /\ number[c] \in 0..(MaxVersions + 1)
        /\ number[c] <= MaxVersions
    BY <1>0, <1>7 DEF Write, CallOK, OpOK, TargetOK, VarsOK
  <2>2. UNCHANGED <<config, listed, faults, request, target, number, before, archivedBy, storers>>
    BY <1>7 DEF Write
  <2>3. FullRow(Row(c))
    BY <2>1, RowOfCall
  <2>4. CASE Return(c, "failed") /\ UNCHANGED <<funnel, got>>
    <3>1. VarsOK' /\ pc'[c] = "done"
      BY <1>0, <2>2, <2>4 DEF VarsOK
    <3>2. OpOK(c)' /\ TargetOK(c)'
      BY <2>1, <2>2, <2>4, <3>1 DEF OpOK, TargetOK, Op, Known
    <3> QED
      BY <1>7, <2>2, <2>4, <3>1, <3>2, QuietKeepsType DEF CallStep
  <2>5. CASE request[c].steps /\ ~VersionTaken(c)
             /\ Commit(c, target[c], [Row(c) EXCEPT !.versions = @ \cup {number[c]}])
    <3> DEFINE row == [Row(c) EXCEPT !.versions = @ \cup {number[c]}]
    <3>1. number[c] \in Versions /\ number[c] \notin Row(c).versions
      <4>1. Row(c).versions \subseteq Versions
        BY <2>3 DEF FullRow, RowOK, Rows
      <4> QED
        BY <2>1, <2>5, <4>1, FunnelConfigAssumption DEF VersionTaken, Versions
    <3>2. FullRow(row) /\ row.versions = 1..number[c] /\ Latest(Row(c)) = number[c] - 1
      BY <2>1, <2>3, <3>1, NextVersionRow
    <3>3. Row(c).versions \subseteq row.versions
      <4>1. Row(c).versions = 1..Latest(Row(c))
        BY <2>3, LatestOfFull
      <4> QED
        BY <3>1, <3>2, <4>1 DEF Versions
    <3> HIDE DEF row
    <3>4. Commit(c, target[c], row)
      BY <2>5 DEF row
    <3> QED
      BY <1>0, <1>6, <1>7, <2>1, <2>2, <3>2, <3>3, <3>4 DEF CallStep, VarsOK
  <2>6. CASE Commit(c, target[c], Row(c))
    BY <1>0, <1>6, <1>7, <2>1, <2>2, <2>3, <2>6 DEF CallStep, VarsOK
  <2> QED
    BY <1>7, <2>4, <2>5, <2>6 DEF Write
<1>8. ASSUME NEW c \in Calls, Archive(c) PROVE TypeInv'
  <2>1. pc[c] = "archive" /\ Op(c) = "archive" /\ target[c] \in Known
    BY <1>0, <1>8 DEF Archive, CallOK, OpOK, TargetOK
  <2>2. UNCHANGED <<config, listed, faults, request, target, number, before, storers>>
    BY <1>8 DEF Archive
  <2>3. CASE NotFound(c) /\ UNCHANGED archivedBy
    BY <1>8, <2>2, <2>3, NotFoundType DEF CallStep
  <2>4. CASE /\ Commit(c, target[c], [Row(c) EXCEPT !.archived = TRUE])
             /\ archivedBy' = [archivedBy EXCEPT ![target[c]] = c]
    <3> DEFINE row == [Row(c) EXCEPT !.archived = TRUE]
    <3>1. FullRow(row) /\ row.versions = Row(c).versions
      BY <2>1, RowOfCall, ArchivedRow
    <3>2. Commit(c, target[c], row) /\ archivedBy' \in [Funnels -> Calls \cup {NULL}]
      BY <1>0, <2>4 DEF VarsOK
    <3> HIDE DEF row
    <3> QED
      BY <1>6, <1>8, <2>1, <2>2, <3>1, <3>2 DEF CallStep
  <2> QED
    BY <1>8, <2>3, <2>4 DEF Archive
<1>9. ASSUME NEW c \in Calls, FindVersion(c) PROVE TypeInv'
  <2>1. /\ pc[c] = "findVersion" /\ OpOK(c) /\ TargetOK(c) /\ Op(c) = "publish" /\ target[c] \in Known
        /\ number[c] \in Versions
    BY <1>0, <1>9 DEF FindVersion, CallOK, OpOK, TargetOK
  <2>2. UNCHANGED <<funnel, config, listed, faults, request, target, number, got, before, archivedBy, storers>>
    BY <1>9 DEF FindVersion, NotFound
  <2>3. CASE NotFound(c)
    BY <1>9, <2>2, <2>3, NotFoundType DEF CallStep
  <2>4. CASE VersionExists(c) /\ ~NotFound(c)
    <3>1. pc' = [pc EXCEPT ![c] = "publish"] /\ UNCHANGED reply
      BY <1>9, <2>4 DEF FindVersion
    <3>2. VarsOK' /\ pc'[c] = "publish"
      BY <1>0, <2>2, <3>1 DEF VarsOK, Steps
    <3>3. OpOK(c)' /\ TargetOK(c)'
      BY <2>1, <2>2, <2>4, <3>2 DEF OpOK, TargetOK, Op, Known, Row, VersionExists
    <3> QED
      BY <1>9, <2>2, <3>2, <3>3, QuietKeepsType DEF CallStep
  <2> QED
    BY <1>9, <2>3, <2>4 DEF FindVersion
<1>10. ASSUME NEW c \in Calls, Publish(c) PROVE TypeInv'
  <2> DEFINE row == [Row(c) EXCEPT !.published = @ \cup {number[c]}, !.latest = number[c]]
  <2>1. /\ pc[c] = "publish" /\ Op(c) = "publish" /\ target[c] \in Known
        /\ number[c] \in Row(c).versions /\ number[c] \in Versions
    BY <1>0, <1>10 DEF Publish, CallOK, OpOK, TargetOK
  <2>2. UNCHANGED <<config, listed, faults, request, target, number, before, archivedBy, storers>>
    BY <1>10 DEF Publish
  <2>3. FullRow(row) /\ row.versions = Row(c).versions
    <3>1. FullRow(Row(c))
      BY <2>1, RowOfCall
    <3> QED
      BY <2>1, <3>1, PublishedRow
  <2>4. Commit(c, target[c], row)
    BY <1>10 DEF Publish
  <2>5. number[c] # 0
    BY <2>1 DEF Versions
  <2> HIDE DEF row
  <2> QED
    BY <1>0, <1>6, <1>10, <2>1, <2>2, <2>3, <2>4, <2>5 DEF CallStep, VarsOK
<1>11. ASSUME NEW c \in Calls, Finish(c) PROVE TypeInv'
  <2>1. /\ pc[c] = "finish" /\ OpOK(c) /\ TargetOK(c) /\ request[c] \in Requests
        /\ Op(c) # "list" => target[c] \in Known /\ target[c] \in Funnels
    BY <1>0, <1>11 DEF Finish, CallOK, TargetOK, Known
  <2>2. /\ UNCHANGED <<funnel, faults, request, target, got, before, archivedBy>> /\ storers' \subseteq Calls
        /\ Known' = Known /\ Op(c)' = Op(c) /\ Grows
    BY <1>0, <1>11 DEF Finish, StoreConfig, Known, Op, Grows, VarsOK
  <2>3. RowsOK'
    <3>1. CASE UNCHANGED config
      BY <1>0, <2>2, <3>1 DEF RowsOK
    <3>2. CASE Op(c) \in {"create", "get"} \/ (Op(c) = "publish" /\ number[c] = 0)
      <4>1. FullRow(got[c]) /\ ~got[c].archived /\ target[c] \in Funnels
        BY <2>1, <3>2 DEF TargetOK, Stores
      <4>2. config' = [config EXCEPT ![target[c]] = got[c]]
        BY <1>11, <3>2 DEF Finish, StoreConfig
      <4> QED
        BY <1>0, <2>2, <4>1, <4>2 DEF RowsOK
    <3>3. CASE config' = Deleted(c)
      BY <1>0, <2>2, <3>3 DEF RowsOK, Deleted
    <3> QED
      BY <1>11, <3>1, <3>2, <3>3 DEF Finish
  <2>4. CASE Op(c) = "publish" /\ number[c] = 0
    <3> DEFINE v == Latest(got[c])
    <3>1. v \in 0..(MaxVersions + 1) /\ v \in Versions
      <4>1. FullRow(got[c])
        BY <2>1, <2>4 DEF TargetOK, Stores
      <4> QED
        BY <4>1, LatestOfFull, LatestInRange
    <3>2. number' = [number EXCEPT ![c] = v] /\ pc' = [pc EXCEPT ![c] = "findVersion"] /\ UNCHANGED reply
      BY <1>11, <2>4 DEF Finish
    <3> HIDE DEF v
    <3>3. VarsOK' /\ pc'[c] = "findVersion" /\ number'[c] = v
      BY <1>0, <2>2, <3>1, <3>2 DEF VarsOK, Steps
    <3>4. OpOK(c)' /\ TargetOK(c)'
      BY <2>1, <2>2, <2>4, <3>1, <3>3 DEF OpOK, TargetOK
    <3>5. KnownOK'
      BY <1>11, <2>2, <3>3, StepFrame, RoomKept DEF CallStep
    <3> QED
      BY <1>11, <2>2, <2>3, <3>3, <3>4, <3>5, StepKeepsType DEF CallStep
  <2>5. CASE ~(Op(c) = "publish" /\ number[c] = 0)
    <3>1. UNCHANGED number /\ \E r \in {"done", "not found"} : Return(c, r)
      BY <1>11, <2>5 DEF Finish
    <3>2. VarsOK' /\ pc'[c] = "done"
      <4> PICK r \in {"done", "not found"} : Return(c, r)
        BY <3>1
      <4>1. reply \in [Calls -> {NULL, "done", "failed", "not found"}]
        BY <1>0 DEF VarsOK
      <4>3. /\ pc' = [pc EXCEPT ![c] = "done"] /\ reply' \in [Calls -> {NULL, "done", "failed", "not found"}]
        BY <4>1
      <4>2. pc' \in [Calls -> Steps \cup {"idle", "done"}] /\ pc'[c] = "done"
        BY <1>0, <4>3 DEF VarsOK
      <4> QED
        BY <1>0, <2>2, <3>1, <4>3, <4>2 DEF VarsOK
    <3>3. OpOK(c)' /\ TargetOK(c)'
      BY <2>1, <2>2, <3>1, <3>2 DEF OpOK, TargetOK
    <3>4. KnownOK'
      BY <1>11, <2>2, <3>2, StepFrame, RoomKept DEF CallStep
    <3> QED
      BY <1>11, <2>2, <2>3, <3>2, <3>3, <3>4, StepKeepsType DEF CallStep
  <2> QED
    BY <2>4, <2>5
<1>12. CASE Expire
  <2>1. UNCHANGED <<funnel, faults, pc, request, target, number, got, reply, before, archivedBy, storers>>
    BY <1>12 DEF Expire
  <2>2. RowsOK'
    BY <1>0, <1>12, <2>1 DEF Expire, RowsOK
  <2>3. VarsOK' /\ KnownOK' /\ \A c \in Calls : CallOK(c)'
    BY <1>0, <2>1 DEF VarsOK, KnownOK, Inserting, Known, CallOK, OpOK, TargetOK, Op, TakesLatest, Stores, Row
  <2> QED
    BY <2>2, <2>3 DEF TypeInv, TypeOK, VarsOK, RowsOK, FullRow
<1>13. CASE UNCHANGED vars
  <2>1. UNCHANGED <<funnel, config, faults, pc, request, target, number, got, reply, before, archivedBy, storers>>
    BY <1>13 DEF vars
  <2>2. VarsOK' /\ RowsOK' /\ KnownOK' /\ \A c \in Calls : CallOK(c)'
    BY <1>0, <2>1
       DEF VarsOK, RowsOK, KnownOK, Inserting, Known, CallOK, OpOK, TargetOK, Op, TakesLatest, Stores, Row
  <2> QED
    BY <2>2 DEF TypeInv, TypeOK, VarsOK, RowsOK, FullRow
<1> QED
  BY <1>1, <1>2, <1>3, <1>4, <1>5, <1>7, <1>8, <1>9, <1>10, <1>11, <1>12, <1>13, BeginType, InsertType
     DEF Next, AllReturned

\* Every reachable state of every instance is well typed, and only versions
\* that exist are published.
THEOREM FunnelTypes == Spec => []TypeOK
<1>1. TypeInv => TypeOK
  BY DEF TypeInv
<1> QED
  BY <1>1, InitTypeInv, NextTypeInv, PTL DEF Spec

-----------------------------------------------------------------------------
(* Versions, and changes of archived funnels.                              *)

Makers(row) == {c \in row.by : MakesVersion(c)}

\* The changes of a row come from calls about its funnel that have committed,
\* and as many of them made a version as there are versions.
ByOK(f) ==
    /\ \A c \in funnel[f].by : /\ c \in Calls /\ target[c] = f
                               /\ pc[c] = "done" \/ (pc[c] = "finish" /\ ~TakesLatest(c))
    /\ IsFiniteSet(Makers(funnel[f]))
    /\ Cardinality(Makers(funnel[f])) = Latest(funnel[f])

\* No call that has changed an archived funnel, or is past the check that it
\* is not archived, began after the call that archived it had returned.
ArchivedOK(f) ==
    funnel[f].archived =>
        /\ archivedBy[f] \in Calls
        /\ \A c \in funnel[f].by \ {archivedBy[f]} : archivedBy[f] \notin before[c]
        /\ \A c \in Calls : pc[c] \in {"write", "publish"} /\ target[c] = f
                            => archivedBy[f] \notin before[c]

ChangeInv == \A f \in Known : ByOK(f) /\ ArchivedOK(f)

\* The latest version of a row with the same versions.
LEMMA SameLatest ==
    ASSUME NEW r, NEW s, FullRow(r), FullRow(s), r.versions = s.versions
    PROVE  Latest(r) = Latest(s)
<1>1. 1..Latest(r) = 1..Latest(s) /\ Latest(r) \in Versions /\ Latest(s) \in Versions
  BY LatestOfFull
<1>2. Latest(r) \in Nat \ {0} /\ Latest(s) \in Nat \ {0}
  BY <1>1, FunnelConfigAssumption DEF Versions
<1> QED
  BY <1>1, <1>2, SameTop

\* Whether the calls of a row make versions is settled when they begin.
LEMMA MakersKept ==
    ASSUME TypeInv, NEW f \in Known, ByOK(f),
           \A c \in Calls : pc[c] # "idle" => request'[c] = request[c]
    PROVE  \A c \in funnel[f].by : MakesVersion(c)' = MakesVersion(c)
BY DEF ByOK, MakesVersion, Op

\* A step that commits nothing.
LEMMA NoCommitChange ==
    ASSUME TypeInv, ChangeInv, NEW c \in Calls, Others(c), UNCHANGED <<funnel, archivedBy>>,
           pc[c] # "idle" => UNCHANGED <<request, before>>,
           pc[c] \in {"finish", "done"} /\ (pc[c] = "finish" => ~TakesLatest(c)) =>
               pc'[c] = "done" /\ target'[c] = target[c],
           pc'[c] \in {"write", "publish"} =>
               Open(target[c]) /\ target'[c] = target[c]
    PROVE  ChangeInv'
<1>1. Known' = Known
  BY DEF Known
<1>2. ASSUME NEW f \in Known PROVE ByOK(f)'
  <2>1. ByOK(f)
    BY DEF ChangeInv
  <2>2. \A d \in funnel[f].by : /\ d \in Calls /\ target'[d] = f
                                /\ pc'[d] = "done" \/ (pc'[d] = "finish" /\ ~TakesLatest(d)')
    BY <2>1 DEF ByOK, Others, TakesLatest, Op
  <2>3. Makers(funnel[f])' = Makers(funnel[f])
    BY <2>1, MakersKept DEF Makers, Others
  <2>4. Latest(funnel[f])' = Latest(funnel[f])
    BY DEF Latest
  <2> QED
    BY <2>1, <2>2, <2>3, <2>4 DEF ByOK
<1>3. ASSUME NEW f \in Known PROVE ArchivedOK(f)'
  <2>1. ArchivedOK(f) /\ ByOK(f)
    BY DEF ChangeInv
  <2>2. \A d \in funnel[f].by : before'[d] = before[d]
    BY <2>1 DEF ByOK, Others
  <2>3. \A d \in Calls : funnel[f].archived /\ pc'[d] \in {"write", "publish"} /\ target'[d] = f
                         => pc[d] \in {"write", "publish"} /\ target[d] = f /\ before'[d] = before[d]
    BY DEF Others, Open
  <2> QED
    BY <2>1, <2>2, <2>3 DEF ArchivedOK
<1> QED
  BY <1>1, <1>2, <1>3 DEF ChangeInv

\* A call that has not returned is not among those that another came after.
LEMMA NotBefore ==
    ASSUME TypeInv, NEW c \in Calls, pc[c] # "done", NEW d \in Calls, pc[d] # "idle"
    PROVE  c \notin before[d]
BY DEF TypeInv, CallOK

\* A step that commits a change of its funnel.
LEMMA CommitChange ==
    ASSUME TypeInv, ChangeInv, NEW c \in Calls, CallStep(c), target[c] \in Known,
           pc[c] # "finish", ~TakesLatest(c), UNCHANGED <<config, target, number>>,
           NEW row, FullRow(row), Commit(c, target[c], row), row.by = Row(c).by,
           Row(c).versions \subseteq row.versions,
           Latest(row) = IF MakesVersion(c) THEN Latest(Row(c)) + 1 ELSE Latest(Row(c)),
           row.archived =>
               \/ Row(c).archived /\ UNCHANGED archivedBy /\ pc[c] \in {"write", "publish"}
               \/ archivedBy'[target[c]] = c,
           \A g \in Funnels : g # target[c] => archivedBy'[g] = archivedBy[g]
    PROVE  ChangeInv'
<1> DEFINE f == target[c]
<1>1. f \in Funnels /\ Row(c) # NULL /\ FullRow(Row(c)) /\ Row(c) = funnel[f]
  BY RowOfCall DEF Row
<1>2. Others(c) /\ UNCHANGED <<request, before>> /\ pc[c] \notin {"idle", "done"}
  BY StepFrame
<1>3. /\ funnel'[f] = Changed(row, c) /\ pc'[c] = "finish"
      /\ \A g \in Funnels : g # f => funnel'[g] = funnel[g]
      /\ FullRow(Changed(row, c)) /\ Changed(row, c) # NULL
  BY <1>1, CommitRows
<1>4. Changed(row, c).by = Row(c).by \cup {c} /\ Changed(row, c).archived = row.archived
      /\ Latest(Changed(row, c)) = Latest(row)
  BY <1>3, ChangedRow, SameLatest
<1>5. Known' = Known
  BY <1>1, <1>3 DEF Known
<1>6. c \notin Row(c).by /\ \A g \in Known : c \notin funnel[g].by
  BY <1>1, <1>2 DEF ChangeInv, ByOK
<1>7. \A g \in Known : \A d \in funnel[g].by : MakesVersion(d)' = MakesVersion(d)
  BY <1>2, MakersKept DEF ChangeInv
<1>8. MakesVersion(c)' = MakesVersion(c)
  BY <1>2 DEF MakesVersion, Op
<1> HIDE DEF f
<1>9. ASSUME NEW g \in Known PROVE ByOK(g)'
  <2>1. ByOK(g)
    BY DEF ChangeInv
  <2>2. CASE g # f
    <3>1. funnel'[g] = funnel[g]
      BY <1>3, <2>2 DEF Known
    <3>2. \A d \in funnel[g].by : d # c
      BY <1>6
    <3>3. Makers(funnel[g])' = Makers(funnel[g]) /\ Latest(funnel[g])' = Latest(funnel[g])
      BY <1>7, <3>1 DEF Makers, Latest
    <3> QED
      BY <1>2, <2>1, <3>1, <3>2, <3>3 DEF ByOK, Others, TakesLatest, Op
  <2>3. CASE g = f
    <3>1. funnel'[g].by = funnel[g].by \cup {c} /\ funnel[g] = Row(c)
      BY <1>1, <1>3, <1>4, <2>3
    <3>2. \A d \in funnel'[g].by : /\ d \in Calls /\ target'[d] = g
                                   /\ pc'[d] = "done" \/ (pc'[d] = "finish" /\ ~TakesLatest(d)')
      BY <1>2, <1>3, <2>1, <2>3, <3>1 DEF ByOK, Others, TakesLatest, Op, f
    <3>3. Makers(funnel[g])' = IF MakesVersion(c) THEN Makers(funnel[g]) \cup {c} ELSE Makers(funnel[g])
      BY <1>7, <1>8, <3>1 DEF Makers
    <3>4. c \notin Makers(funnel[g])
      BY <1>6 DEF Makers
    <3>5. Latest(funnel[g])' = Latest(row)
      <4>1. Latest(funnel[g])' = Latest(funnel'[g])
        BY DEF Latest
      <4> QED
        BY <1>3, <1>4, <2>3, <4>1
    <3>6. IsFiniteSet(Makers(funnel[g]) \cup {c})
          /\ Cardinality(Makers(funnel[g]) \cup {c}) = Cardinality(Makers(funnel[g])) + 1
      BY <2>1, <3>4, FS_AddElement DEF ByOK
    <3> QED
      BY <2>1, <3>1, <3>2, <3>3, <3>5, <3>6 DEF ByOK
  <2> QED
    BY <2>2, <2>3
<1>10. ASSUME NEW g \in Known PROVE ArchivedOK(g)'
  <2>1. ArchivedOK(g) /\ ByOK(g)
    BY DEF ChangeInv
  <2>2. \A d \in Calls : pc[d] # "idle" => c \notin before[d]
    BY <1>2, NotBefore
  <2>3. \A d \in Calls : pc'[d] \in {"write", "publish"} => d # c /\ pc[d] = pc'[d] /\ target'[d] = target[d]
    BY <1>2, <1>3 DEF Others
  <2>4. CASE g # f
    <3>1. funnel'[g] = funnel[g] /\ archivedBy'[g] = archivedBy[g]
      BY <1>3, <2>4 DEF Known, f
    <3> QED
      BY <1>2, <2>1, <2>3, <3>1 DEF ArchivedOK
  <2>5. CASE g = f
    <3>1. funnel'[g].by = funnel[g].by \cup {c} /\ funnel'[g].archived = row.archived /\ funnel[g] = Row(c)
      BY <1>1, <1>3, <1>4, <2>5
    <3>2. CASE row.archived /\ archivedBy'[g] = c
      <4>1. \A d \in funnel'[g].by : d = c \/ c \notin before'[d]
        BY <1>2, <2>1, <2>2, <3>1 DEF ByOK
      <4>2. \A d \in Calls : pc'[d] \in {"write", "publish"} => c \notin before'[d]
        BY <1>2, <2>2, <2>3
      <4> QED
        BY <3>2, <4>1, <4>2 DEF ArchivedOK
    <3>3. CASE row.archived /\ Row(c).archived /\ UNCHANGED archivedBy /\ pc[c] \in {"write", "publish"}
      BY <1>2, <2>1, <2>3, <2>5, <3>1, <3>3 DEF ArchivedOK, f
    <3>4. CASE ~row.archived
      BY <3>1, <3>4 DEF ArchivedOK
    <3> QED
      BY <2>5, <3>2, <3>3, <3>4 DEF f
  <2> QED
    BY <2>4, <2>5
<1> QED
  BY <1>5, <1>9, <1>10 DEF ChangeInv

\* createFunnel inserts a funnel that it alone has changed.
LEMMA InsertChange ==
    ASSUME TypeInv, ChangeInv, NEW c \in Calls, Insert(c) PROVE ChangeInv'
<1> DEFINE row == [versions |-> {1}, published |-> {}, latest |-> 0, archived |-> FALSE, by |-> {}]
           f == Cardinality(Known) + 1
<1>1. PICK k \in Nat : Known = 1..k /\ IsFiniteSet(Inserting) /\ k + Cardinality(Inserting) <= MaxFunnels
  BY DEF TypeInv, KnownOK
<1>2. Cardinality(Known) = k
  BY <1>1, FS_Interval
<1>3. c \in Inserting /\ Op(c) = "create" /\ pc[c] = "insert"
  BY DEF Insert, Inserting, At, TypeInv, CallOK, OpOK
<1>4. Inserting # {} /\ Cardinality(Inserting) \in Nat /\ Cardinality(Inserting) # 0
  BY <1>1, <1>3, FS_EmptySet, FS_CardinalityType
<1>5. f \in Funnels /\ f \notin Known
  BY <1>1, <1>2, <1>4, FunnelConfigAssumption DEF Funnels
<1>6. FullRow(row) /\ ~row.archived /\ row.by = {} /\ row.versions = 1..1
  BY FirstRow
<1>7. /\ Commit(c, f, row) /\ target' = [target EXCEPT ![c] = f]
      /\ UNCHANGED <<config, listed, faults, request, number, before, archivedBy>>
  BY DEF Insert, cache, history
<1> HIDE DEF row, f
<1>8. funnel[f] = NULL
  BY <1>5 DEF Known
<1>9. /\ funnel'[f] = Changed(row, c) /\ pc'[c] = "finish"
      /\ \A g \in Funnels : g # f => funnel'[g] = funnel[g]
      /\ FullRow(Changed(row, c)) /\ Changed(row, c) # NULL
  BY <1>5, <1>6, <1>7, <1>8, CommitRows
<1>10. Changed(row, c).by = {c} /\ ~Changed(row, c).archived /\ Changed(row, c).versions = 1..1
  BY <1>6, ChangedRow
<1>11. Known' = Known \cup {f}
  BY <1>5, <1>9 DEF Known
<1>12. Others(c) /\ UNCHANGED <<request, before>> /\ target'[c] = f
  BY <1>7, StepFrame DEF CallStep, TypeInv, TypeOK
<1>13. \A g \in Known : c \notin funnel[g].by
  BY <1>3 DEF ChangeInv, ByOK
<1>14. MakesVersion(c)'
  BY <1>3, <1>12 DEF MakesVersion, Op
<1>15. ASSUME NEW g \in Known' PROVE ByOK(g)'
  <2>1. CASE g # f
    <3>1. g \in Known /\ funnel'[g] = funnel[g] /\ ByOK(g)
      BY <1>9, <1>11, <2>1 DEF Known, ChangeInv
    <3>2. \A d \in funnel[g].by : d # c
      BY <1>13, <3>1
    <3>3. \A d \in funnel[g].by : MakesVersion(d)' = MakesVersion(d)
      BY <1>12, <3>1, MakersKept
    <3>4. Makers(funnel[g])' = Makers(funnel[g]) /\ Latest(funnel[g])' = Latest(funnel[g])
      BY <3>1, <3>3 DEF Makers, Latest
    <3> QED
      BY <1>12, <3>1, <3>2, <3>4 DEF ByOK, Others, TakesLatest, Op
  <2>2. CASE g = f
    <3>1. funnel'[g].by = {c} /\ Makers(funnel[g])' = {c}
      BY <1>9, <1>10, <1>14, <2>2 DEF Makers
    <3>2. IsFiniteSet({c}) /\ Cardinality({c}) = 1
      BY FS_Singleton
    <3>3. Latest(funnel[g])' = 1
      <4>1. Latest(funnel[g])' = Latest(Changed(row, c))
        BY <1>9, <2>2 DEF Latest
      <4>2. 1..1 = 1..Latest(Changed(row, c)) /\ Latest(Changed(row, c)) \in Nat \ {0}
        BY <1>9, <1>10, LatestOfFull, FunnelConfigAssumption DEF Versions
      <4> QED
        BY <4>1, <4>2, SameTop
    <3>4. ~TakesLatest(c)'
      BY <1>3, <1>12 DEF TakesLatest, Op
    <3> QED
      BY <1>9, <1>12, <2>2, <3>1, <3>2, <3>3, <3>4 DEF ByOK
  <2> QED
    BY <2>1, <2>2
<1>16. ASSUME NEW g \in Known' PROVE ArchivedOK(g)'
  <2>1. CASE g # f
    <3>1. g \in Known /\ funnel'[g] = funnel[g] /\ ArchivedOK(g) /\ ByOK(g)
      BY <1>9, <1>11, <2>1 DEF Known, ChangeInv
    <3>2. \A d \in Calls : pc'[d] \in {"write", "publish"} => pc[d] = pc'[d] /\ target'[d] = target[d]
      BY <1>9, <1>12 DEF Others
    <3> QED
      BY <1>7, <3>1, <3>2 DEF ArchivedOK
  <2>2. CASE g = f
    BY <1>9, <1>10, <2>2 DEF ArchivedOK
  <2> QED
    BY <2>1, <2>2
<1> QED
  BY <1>15, <1>16 DEF ChangeInv

\* At first there is no funnel.
LEMMA InitChangeInv == Init => ChangeInv
BY DEF Init, ChangeInv, Known

\* Every step keeps the changes of the funnels in order.
LEMMA NextChangeInv == TypeInv /\ ChangeInv /\ [Next]_vars => ChangeInv'
<1> SUFFICES ASSUME TypeInv, ChangeInv, [Next]_vars PROVE ChangeInv'
  OBVIOUS
<1>0. VarsOK /\ RowsOK /\ KnownOK /\ \A c \in Calls : CallOK(c)
  BY TypeParts
<1> USE DEF At, Goto, Return, cache, locals, history
<1>1. ASSUME NEW c \in Calls, NEW r \in Requests, Begin(c, r) PROVE ChangeInv'
  <2>1. /\ pc[c] = "idle" /\ pc'[c] = FirstStep(r) /\ UNCHANGED <<funnel, archivedBy>> /\ Others(c)
    BY <1>0, <1>1 DEF Begin, Others, VarsOK
  <2>2. pc'[c] \notin {"write", "publish"}
    BY <2>1, FirstStepOK
  <2> QED
    BY <2>1, <2>2, NoCommitChange
<1>2. ASSUME NEW c \in Calls, CallStep(c), UNCHANGED <<funnel, archivedBy, target>>,
             pc[c] = "finish" => TakesLatest(c) \/ pc'[c] = "done",
             pc'[c] \in {"write", "publish"} => Open(target[c])
      PROVE  ChangeInv'
  <2>1. Others(c) /\ UNCHANGED <<request, before>> /\ pc[c] \notin {"idle", "done"}
    BY <1>2, StepFrame
  <2> QED
    BY <1>2, <2>1, NoCommitChange
<1>3. ASSUME NEW c \in Calls, LookUp(c) \/ LookUpList(c) \/ FindMany(c) \/ TooMany(c) \/ DatabaseError(c)
      PROVE  ChangeInv'
  <2>1. CASE LookUp(c)
    BY <1>0, <1>2, <2>1 DEF CallStep, LookUp, Take, VarsOK
  <2>2. CASE LookUpList(c) \/ FindMany(c)
    BY <1>0, <1>2, <2>2 DEF CallStep, LookUpList, FindMany, VarsOK
  <2>3. CASE TooMany(c) \/ DatabaseError(c)
    BY <1>0, <1>2, <2>3 DEF CallStep, TooMany, DatabaseError, VarsOK
  <2> QED
    BY <1>3, <2>1, <2>2, <2>3
<1>4. ASSUME NEW c \in Calls, CallStep(c), NotFound(c), UNCHANGED <<archivedBy, target>>
      PROVE  ChangeInv'
  BY <1>0, <1>2, <1>4 DEF NotFound, VarsOK
<1>5. ASSUME NEW c \in Calls, Find(c) PROVE ChangeInv'
  <2>1. CASE NotFound(c)
    BY <1>4, <1>5, <2>1 DEF CallStep, Find
  <2>2. CASE Open(target[c]) /\ ~NotFound(c)
    BY <1>0, <1>2, <1>5, <2>2 DEF CallStep, Find, VarsOK
  <2> QED
    BY <1>5, <2>1, <2>2 DEF Find
<1>6. ASSUME NEW c \in Calls, ReadVersion(c) PROVE ChangeInv'
  <2>1. CASE NotFound(c)
    BY <1>4, <1>6, <2>1 DEF CallStep, ReadVersion
  <2>2. CASE Open(target[c]) /\ ~NotFound(c)
    BY <1>0, <1>2, <1>6, <2>2 DEF CallStep, ReadVersion, VarsOK, Editable
  <2> QED
    BY <1>6, <2>1, <2>2 DEF ReadVersion, Editable
<1>7. ASSUME NEW c \in Calls, FindVersion(c) PROVE ChangeInv'
  <2>1. CASE NotFound(c)
    BY <1>4, <1>7, <2>1 DEF CallStep, FindVersion
  <2>2. CASE VersionExists(c) /\ ~NotFound(c)
    BY <1>0, <1>2, <1>7, <2>2 DEF CallStep, FindVersion, VarsOK, VersionExists
  <2> QED
    BY <1>7, <2>1, <2>2 DEF FindVersion
<1>8. ASSUME NEW c \in Calls, Write(c) PROVE ChangeInv'
  <2>1. /\ pc[c] = "write" /\ TargetOK(c) /\ Op(c) = "update" /\ target[c] \in Known
        /\ number[c] - 1 \in Row(c).versions /\ number[c] \in 0..(MaxVersions + 1)
        /\ number[c] <= MaxVersions
    BY <1>0, <1>8 DEF Write, CallOK, OpOK, TargetOK, VarsOK
  <2>2. UNCHANGED <<config, listed, faults, request, target, number, before, archivedBy>>
    BY <1>8 DEF Write
  <2>3. FullRow(Row(c)) /\ ~TakesLatest(c)
    BY <2>1, RowOfCall DEF TakesLatest
  <2>4. CASE Return(c, "failed") /\ UNCHANGED <<funnel, got>>
    BY <1>0, <1>2, <1>8, <2>1, <2>2, <2>4 DEF CallStep, VarsOK
  <2>5. CASE request[c].steps /\ ~VersionTaken(c)
             /\ Commit(c, target[c], [Row(c) EXCEPT !.versions = @ \cup {number[c]}])
    <3> DEFINE row == [Row(c) EXCEPT !.versions = @ \cup {number[c]}]
    <3>1. number[c] \in Versions /\ number[c] \notin Row(c).versions
      <4>1. Row(c).versions \subseteq Versions
        BY <2>3 DEF FullRow, RowOK, Rows
      <4> QED
        BY <2>1, <2>5, <4>1, FunnelConfigAssumption DEF VersionTaken, Versions
    <3>2. /\ FullRow(row) /\ row.versions = 1..number[c] /\ Latest(Row(c)) = number[c] - 1
          /\ row.by = Row(c).by /\ row.archived = Row(c).archived
      BY <2>1, <2>3, <3>1, NextVersionRow
    <3>3. Row(c).versions \subseteq row.versions
      <4>1. Row(c).versions = 1..Latest(Row(c))
        BY <2>3, LatestOfFull
      <4> QED
        BY <3>1, <3>2, <4>1 DEF Versions
    <3> HIDE DEF row
    <3>4. Latest(row) = number[c]
      <4>1. 1..Latest(row) = 1..number[c] /\ Latest(row) \in Nat \ {0} /\ number[c] \in Nat \ {0}
        BY <3>1, <3>2, LatestOfFull, FunnelConfigAssumption DEF Versions
      <4> QED
        BY <4>1, SameTop
    <3>5. Latest(row) = Latest(Row(c)) + 1 /\ MakesVersion(c)
      BY <2>1, <2>5, <3>1, <3>2, <3>4 DEF MakesVersion, Versions
    <3>6. Commit(c, target[c], row)
      BY <2>5 DEF row
    <3>7. CallStep(c) /\ pc[c] # "finish"
      BY <1>8, <2>1 DEF CallStep
    <3> QED
      BY <2>1, <2>2, <2>3, <3>2, <3>3, <3>5, <3>6, <3>7, CommitChange
  <2>6. CASE ~request[c].steps /\ Commit(c, target[c], Row(c))
    <3>1. ~MakesVersion(c) /\ CallStep(c) /\ pc[c] # "finish"
      BY <1>8, <2>1, <2>6 DEF MakesVersion, CallStep
    <3> QED
      BY <2>1, <2>2, <2>3, <2>6, <3>1, CommitChange
  <2> QED
    BY <1>8, <2>4, <2>5, <2>6 DEF Write
<1>9. ASSUME NEW c \in Calls, Archive(c) PROVE ChangeInv'
  <2>1. pc[c] = "archive" /\ Op(c) = "archive" /\ target[c] \in Known /\ target[c] \in Funnels
    BY <1>0, <1>9 DEF Archive, CallOK, OpOK, TargetOK, Known
  <2>2. UNCHANGED <<config, listed, faults, request, target, number, before>>
    BY <1>9 DEF Archive
  <2>3. CASE NotFound(c) /\ UNCHANGED archivedBy
    BY <1>4, <1>9, <2>2, <2>3 DEF CallStep
  <2>4. CASE /\ Commit(c, target[c], [Row(c) EXCEPT !.archived = TRUE])
             /\ archivedBy' = [archivedBy EXCEPT ![target[c]] = c]
    <3> DEFINE row == [Row(c) EXCEPT !.archived = TRUE]
    <3>1. FullRow(Row(c))
      BY <2>1, RowOfCall
    <3>2. FullRow(row) /\ row.versions = Row(c).versions /\ row.by = Row(c).by
      BY <3>1, ArchivedRow
    <3>3. Commit(c, target[c], row)
      BY <2>4
    <3> HIDE DEF row
    <3>4. Latest(row) = Latest(Row(c)) /\ ~MakesVersion(c) /\ ~TakesLatest(c)
      BY <2>1, <3>1, <3>2, SameLatest DEF MakesVersion, TakesLatest
    <3>5. archivedBy'[target[c]] = c /\ \A g \in Funnels : g # target[c] => archivedBy'[g] = archivedBy[g]
      BY <1>0, <2>1, <2>4 DEF VarsOK
    <3>6. CallStep(c) /\ pc[c] # "finish"
      BY <1>9, <2>1 DEF CallStep
    <3> QED
      BY <2>1, <2>2, <3>2, <3>3, <3>4, <3>5, <3>6, CommitChange
  <2> QED
    BY <1>9, <2>3, <2>4 DEF Archive
<1>10. ASSUME NEW c \in Calls, Publish(c) PROVE ChangeInv'
  <2> DEFINE row == [Row(c) EXCEPT !.published = @ \cup {number[c]}, !.latest = number[c]]
  <2>1. /\ pc[c] = "publish" /\ Op(c) = "publish" /\ target[c] \in Known
        /\ number[c] \in Row(c).versions /\ number[c] \in Versions
    BY <1>0, <1>10 DEF Publish, CallOK, OpOK, TargetOK
  <2>2. UNCHANGED <<config, listed, faults, request, target, number, before, archivedBy>>
    BY <1>10 DEF Publish
  <2>3. FullRow(Row(c))
    BY <2>1, RowOfCall
  <2>4. FullRow(row) /\ row.versions = Row(c).versions /\ row.by = Row(c).by /\ row.archived = Row(c).archived
    BY <2>1, <2>3, PublishedRow
  <2>5. Commit(c, target[c], row)
    BY <1>10 DEF Publish
  <2> HIDE DEF row
  <2>6. Latest(row) = Latest(Row(c)) /\ ~MakesVersion(c)
    BY <2>1, <2>3, <2>4, SameLatest DEF MakesVersion
  <2>7. ~TakesLatest(c) /\ CallStep(c) /\ pc[c] # "finish"
    BY <1>10, <2>1 DEF TakesLatest, CallStep, Versions
  <2> QED
    BY <2>1, <2>2, <2>4, <2>5, <2>6, <2>7, CommitChange
<1>11. ASSUME NEW c \in Calls, Finish(c) PROVE ChangeInv'
  <2>1. pc[c] = "finish" /\ OpOK(c) /\ UNCHANGED <<funnel, archivedBy, target>>
    BY <1>0, <1>11 DEF Finish, CallOK
  <2>2. CASE Op(c) = "publish" /\ number[c] = 0
    <3>1. TakesLatest(c) /\ pc'[c] = "findVersion"
      BY <1>0, <1>11, <2>1, <2>2 DEF Finish, OpOK, TakesLatest, VarsOK
    <3> QED
      BY <1>2, <1>11, <2>1, <3>1 DEF CallStep
  <2>3. CASE ~(Op(c) = "publish" /\ number[c] = 0)
    <3>1. pc'[c] = "done"
      BY <1>0, <1>11, <2>3 DEF Finish, VarsOK
    <3> QED
      BY <1>2, <1>11, <2>1, <3>1 DEF CallStep
  <2> QED
    BY <2>2, <2>3
<1>12. CASE Expire \/ UNCHANGED vars
  <2>1. UNCHANGED <<funnel, pc, request, target, number, before, archivedBy>>
    BY <1>12 DEF Expire, vars
  <2>2. ASSUME NEW f \in Known PROVE ByOK(f)' /\ ArchivedOK(f)'
    <3>1. ByOK(f) /\ ArchivedOK(f)
      BY DEF ChangeInv
    <3>2. Makers(funnel[f])' = Makers(funnel[f]) /\ Latest(funnel[f])' = Latest(funnel[f])
      BY <2>1 DEF Makers, MakesVersion, Op, Latest
    <3> QED
      BY <2>1, <3>1, <3>2 DEF ByOK, ArchivedOK, TakesLatest, Op
  <2> QED
    BY <2>1, <2>2 DEF ChangeInv, Known
<1> QED
  BY <1>1, <1>3, <1>5, <1>6, <1>7, <1>8, <1>9, <1>10, <1>11, <1>12, InsertChange DEF Next, AllReturned

\* The two invariants together, and both hold at first.
LEMMA ChangeInductive == Spec => [](TypeInv /\ ChangeInv)
<1>1. Init => TypeInv /\ ChangeInv
  BY InitTypeInv, InitChangeInv
<1>2. TypeInv /\ ChangeInv /\ [Next]_vars => (TypeInv /\ ChangeInv)'
  BY NextTypeInv, NextChangeInv
<1> QED
  BY <1>1, <1>2, PTL DEF Spec

\* The versions of a funnel are numbered without a gap, and there is one for
\* the creation and one for every update with steps that got into the
\* database: of the updates that read the same latest version one gets in.
THEOREM VersionsOwn == Spec => []EveryUpdateItsVersion
<1>1. ASSUME TypeInv, ChangeInv PROVE EveryUpdateItsVersion
  <2> SUFFICES ASSUME NEW f \in Known
               PROVE  /\ funnel[f].versions = 1..Cardinality(funnel[f].versions)
                      /\ Cardinality(funnel[f].versions) = Cardinality({c \in funnel[f].by : MakesVersion(c)})
    BY DEF EveryUpdateItsVersion
  <2>1. FullRow(funnel[f]) /\ ByOK(f)
    BY <1>1 DEF TypeInv, Known, ChangeInv
  <2>2. funnel[f].versions = 1..Latest(funnel[f]) /\ Latest(funnel[f]) \in Nat
    BY <2>1, LatestOfFull, FunnelConfigAssumption DEF Versions
  <2>3. Cardinality(1..Latest(funnel[f])) = Latest(funnel[f])
    BY <2>2, FS_Interval
  <2> QED
    BY <2>1, <2>2, <2>3 DEF ByOK, Makers
<1> QED
  BY <1>1, ChangeInductive, PTL

\* A funnel that is archived was changed by calls that had begun before the
\* archiving returned, and by no later one.
THEOREM ArchivedByRace == Spec => []ArchivedChangesByRace
<1>1. ChangeInv => ArchivedChangesByRace
  BY DEF ChangeInv, ArchivedOK, ArchivedChangesByRace
<1> QED
  BY <1>1, ChangeInductive, PTL

-----------------------------------------------------------------------------
(* Stale copies.                                                           *)

\* An update or a publication that was answered.
Answered(d) == Did(d, {"update", "publish"})

\* Another call about the funnel overlapped the change and stored what it had
\* read or created.
Raced(d) == \E q \in storers \ {d} : Overlap(q, d) /\ target[q] = target[d]

Excused(d, row) == d \in row.by \/ Raced(d)

\* A change is in the database before its caller hears of it.
InBy(d) ==
    (pc[d] = "finish" /\ Deletes(d)) \/ Answered(d) =>
        target[d] \in Known /\ d \in funnel[target[d]].by

\* What the cache holds may lack an answered change only by a race.
CacheOK(f) ==
    config[f] # NULL =>
        \A d \in Calls : Answered(d) /\ target[d] = f => Excused(d, config[f])

\* What a call has read from the database and is about to store has every
\* change answered before the call began.
FreshRead(c) ==
    pc[c] = "finish" /\ Stores(c) =>
        \A d \in before[c] : Answered(d) /\ target[d] = target[c] => d \in got[c].by

\* What a call has got may lack such a change only by a race.
HeldRead(c) ==
    HoldsConfig(c) =>
        \A d \in before[c] : Answered(d) /\ target[d] = target[c] => Excused(d, got[c])

\* createFunnel has no funnel yet.
NoTarget(c) == pc[c] = "insert" => target[c] = NULL

StaleInv ==
    /\ \A f \in Funnels : CacheOK(f)
    /\ \A c \in Calls : InBy(c) /\ FreshRead(c) /\ HeldRead(c) /\ NoTarget(c)

\* The changes that a funnel has seen stay.
SeenGrows == \A f \in Known : f \in Known' /\ funnel[f].by \subseteq funnel'[f].by

\* A step of one call keeps copies from being stale without a race, if that
\* call does.
LEMMA StaleStep ==
    ASSUME TypeInv, StaleInv, NEW c \in Calls, Others(c), pc[c] # "done", SeenGrows,
           pc[c] # "idle" => /\ UNCHANGED <<request, before>> /\ pc'[c] # "idle"
                             /\ target[c] # NULL => target'[c] = target[c],
           NoTarget(c)', InBy(c)',
           \A f \in Funnels : config'[f] # NULL =>
               \/ config'[f] = config[f]
               \/ pc[c] = "finish" /\ Stores(c) /\ f = target[c] /\ config'[f] = got[c] /\ c \in storers',
           storers \subseteq storers',
           Answered(c)' => config'[target'[c]] = NULL,
           pc'[c] = "finish" /\ Stores(c)' =>
               pc[c] # "idle" /\ \A d \in before[c] : Answered(d) /\ target[d] = target'[c]
                                                      => d \in got'[c].by,
           HoldsConfig(c)' =>
               pc[c] # "idle" /\ \A d \in before[c] : Answered(d) /\ target[d] = target'[c]
                                                      => Excused(d, got'[c])
    PROVE  StaleInv'
<1>1. ASSUME NEW d \in Calls, Answered(d)
      PROVE  /\ d # c /\ pc[d] = "done" /\ target'[d] = target[d] /\ before'[d] = before[d]
             /\ target[d] \in Known /\ target[d] # NULL
             /\ c \notin before[d]
  <2>1. pc[d] = "done" /\ d # c
    BY <1>1 DEF Answered, Did, Returned
  <2>2. target[d] \in Known /\ target[d] # NULL
    BY <1>1, FunnelConfigAssumption DEF StaleInv, InBy, Known
  <2>3. c \notin before[d]
    BY <2>1, NotBefore
  <2> QED
    BY <2>1, <2>2, <2>3 DEF Others
<1>2. \A d \in Calls : d # c => (Answered(d)' <=> Answered(d))
  BY DEF Others, Answered, Did, Returned, Op
<1>3. ASSUME NEW d \in Calls, Answered(d), Raced(d) PROVE Raced(d)'
  <2>1. PICK q \in storers \ {d} : Overlap(q, d) /\ target[q] = target[d]
    BY <1>3 DEF Raced
  <2>2. q \in Calls /\ pc[q] # "idle" /\ target[q] # NULL /\ q \in storers'
    BY <1>1, <1>3, <2>1 DEF TypeInv, TypeOK, CallOK
  <2>3. request'[q] = request[q] /\ before'[q] = before[q] /\ target'[q] = target[q]
    BY <2>2 DEF Others
  <2> QED
    BY <1>1, <1>3, <2>1, <2>2, <2>3 DEF Raced, Overlap
<1>4. ASSUME NEW d \in Calls, d # c PROVE InBy(d)' /\ NoTarget(d)'
  <2>1. InBy(d) /\ NoTarget(d)
    BY DEF StaleInv
  <2>2. Deletes(d)' = Deletes(d)
    BY <1>4 DEF Others, Deletes, Op
  <2>3. InBy(d)'
    BY <1>2, <1>4, <2>1, <2>2 DEF InBy, Others, SeenGrows
  <2> QED
    BY <1>4, <2>1, <2>3 DEF NoTarget, Others
<1>5. ASSUME NEW f \in Funnels, config'[f] # NULL, NEW d \in Calls, Answered(d)', target'[d] = f
      PROVE  Excused(d, config[f])'
  <2>1. d # c
    BY <1>5
  <2>2. Answered(d) /\ target[d] = f
    BY <1>1, <1>2, <1>5, <2>1
  <2>3. CASE config'[f] = config[f]
    <3>1. Excused(d, config[f])
      BY <1>5, <2>2, <2>3 DEF StaleInv, CacheOK
    <3> QED
      BY <1>3, <2>2, <2>3, <3>1 DEF Excused
  <2>4. CASE pc[c] = "finish" /\ Stores(c) /\ f = target[c] /\ config'[f] = got[c] /\ c \in storers'
    <3>1. CASE d \in before[c]
      <4>1. d \in got[c].by
        BY <2>2, <2>4, <3>1 DEF StaleInv, FreshRead
      <4> QED
        BY <2>4, <4>1 DEF Excused
    <3>2. CASE d \notin before[c]
      <4>1. UNCHANGED <<request, before>> /\ target'[c] = f
        BY <1>1, <2>2, <2>4
      <4>2. c \notin before'[d] /\ d \notin before'[c] /\ c # d
        BY <1>1, <2>2, <3>2, <4>1
      <4> QED
        BY <1>5, <2>4, <4>1, <4>2 DEF Excused, Raced, Overlap
    <3> QED
      BY <3>1, <3>2
  <2> QED
    BY <1>5, <2>3, <2>4
<1>6. ASSUME NEW d \in Calls, d # c PROVE FreshRead(d)' /\ HeldRead(d)'
  <2>1. FreshRead(d) /\ HeldRead(d) /\ before[d] \subseteq Calls
    BY DEF StaleInv, TypeInv, TypeOK
  <2>2. Stores(d)' = Stores(d) /\ HoldsConfig(d)' = HoldsConfig(d)
    BY <1>6 DEF Others, Stores, HoldsConfig, Did, Returned, Op
  <2>3. pc[d] # "idle" => \A e \in before[d] : e # c /\ (Answered(e)' => Answered(e))
    BY <1>2, <2>1 DEF TypeInv, CallOK
  <2>4. pc'[d] = pc[d] /\ target'[d] = target[d] /\ before'[d] = before[d] /\ got'[d] = got[d]
    BY <1>6 DEF Others
  <2>5. FreshRead(d)'
    BY <1>1, <2>1, <2>2, <2>3, <2>4 DEF FreshRead
  <2>6. ASSUME HoldsConfig(d)', NEW e \in before'[d], Answered(e)', target'[e] = target'[d]
        PROVE  Excused(e, got[d])'
    <3>1. pc[d] # "idle"
      BY <2>2, <2>6 DEF HoldsConfig, Did, Returned
    <3>2. e \in before[d] /\ e \in Calls /\ Answered(e) /\ target[e] = target[d]
      BY <1>1, <2>1, <2>3, <2>4, <2>6, <3>1
    <3>3. Excused(e, got[d])
      BY <2>1, <2>2, <2>6, <3>2 DEF HeldRead
    <3> QED
      BY <1>3, <2>4, <3>2, <3>3 DEF Excused
  <2> QED
    BY <2>5, <2>6 DEF HeldRead
<1>7. pc[c] # "idle" => \A e \in before[c] : e \in Calls /\ e # c /\ (Answered(e)' => Answered(e))
  BY <1>2 DEF TypeInv, TypeOK, CallOK
<1>8. FreshRead(c)'
  BY <1>1, <1>7 DEF FreshRead
<1>9. ASSUME HoldsConfig(c)', NEW e \in before'[c], Answered(e)', target'[e] = target'[c]
      PROVE  Excused(e, got[c])'
  <2>1. e \in Calls /\ Answered(e) /\ target[e] = target'[c] /\ e \in before[c]
    BY <1>1, <1>7, <1>9
  <2>2. Excused(e, got'[c])
    BY <1>9, <2>1
  <2> QED
    BY <1>3, <2>1, <2>2 DEF Excused
<1>10. HeldRead(c)'
  BY <1>9 DEF HeldRead
<1>11. \A f \in Funnels : CacheOK(f)'
  BY <1>5 DEF CacheOK
<1> QED
  BY <1>4, <1>6, <1>8, <1>10, <1>11 DEF StaleInv

\* A step after which its call neither stores, nor holds, nor has changed anything.
LEMMA QuietStale ==
    ASSUME TypeInv, StaleInv, NEW c \in Calls, Others(c), pc[c] # "done", SeenGrows,
           storers \subseteq storers', UNCHANGED config,
           pc[c] # "idle" => /\ UNCHANGED <<request, before>> /\ pc'[c] # "idle"
                             /\ target[c] # NULL => target'[c] = target[c],
           NoTarget(c)',
           pc'[c] = "finish" => Op(c)' \in {"list", "archive"},
           pc'[c] = "done" => reply'[c] # "done" \/ Op(c)' = "list",
           pc'[c] \in {"findVersion", "publish"} => request'[c].version # NULL
    PROVE  StaleInv'
<1>1. ~Answered(c)' /\ ~HoldsConfig(c)'
  BY DEF Answered, HoldsConfig, Did, Returned
<1>2. pc'[c] = "finish" => ~Stores(c)' /\ ~Deletes(c)'
  BY DEF Stores, Deletes
<1>3. InBy(c)'
  BY <1>1, <1>2 DEF InBy
<1> QED
  BY <1>1, <1>2, <1>3, StaleStep

\* A step of a call that is under way, but for the creation, keeps its funnel.
LEMMA CallFrame ==
    ASSUME TypeInv, NEW c \in Calls, CallStep(c), UNCHANGED target, pc'[c] # "idle"
    PROVE  /\ Others(c) /\ pc[c] \notin {"idle", "done"}
           /\ pc[c] # "idle" => /\ UNCHANGED <<request, before>> /\ pc'[c] # "idle"
                                /\ target[c] # NULL => target'[c] = target[c]
           /\ request'[c] = request[c] /\ Op(c)' = Op(c) /\ CallOK(c)
BY StepFrame DEF Op, TypeInv

\* What is committed is in the row.
LEMMA CommitSeen ==
    ASSUME TypeInv, NEW c \in Calls, target[c] \in Known,
           NEW row, FullRow(row), row.by = Row(c).by, Commit(c, target[c], row),
           Row(c).versions \subseteq row.versions, UNCHANGED config
    PROVE  SeenGrows /\ target[c] \in Known' /\ c \in funnel'[target[c]].by /\ pc'[c] = "finish"
<1>1. target[c] \in Funnels /\ Row(c) # NULL /\ Row(c) = funnel[target[c]]
  BY RowOfCall DEF Row
<1>2. /\ funnel'[target[c]] = Changed(row, c) /\ pc'[c] = "finish"
      /\ \A g \in Funnels : g # target[c] => funnel'[g] = funnel[g]
      /\ Changed(row, c) # NULL
  BY <1>1, CommitRows
<1>3. Changed(row, c).by = Row(c).by \cup {c}
  BY ChangedRow
<1> QED
  BY <1>1, <1>2, <1>3 DEF SeenGrows, Known

\* The commit of an update or a publication, or of an archiving.
LEMMA CommitStale ==
    ASSUME TypeInv, StaleInv, NEW c \in Calls, CallStep(c), target[c] \in Known,
           NEW row, FullRow(row), row.by = Row(c).by, Commit(c, target[c], row),
           Row(c).versions \subseteq row.versions, UNCHANGED <<config, target, number>>,
           storers \subseteq storers',
           Op(c) \in {"update", "archive"} \/ (Op(c) = "publish" /\ number[c] # 0)
    PROVE  StaleInv'
<1>1. SeenGrows /\ target[c] \in Known' /\ c \in funnel'[target[c]].by /\ pc'[c] = "finish"
  BY CommitSeen
<1>2. /\ Others(c) /\ pc[c] \notin {"idle", "done"}
      /\ pc[c] # "idle" => /\ UNCHANGED <<request, before>> /\ pc'[c] # "idle"
                           /\ target[c] # NULL => target'[c] = target[c]
      /\ Op(c)' = Op(c)
  BY <1>1, CallFrame
<1>3. ~Answered(c)' /\ ~HoldsConfig(c)' /\ ~Stores(c)' /\ NoTarget(c)' /\ InBy(c)'
  BY <1>1, <1>2 DEF Answered, HoldsConfig, Did, Returned, Stores, NoTarget, InBy
<1> QED
  BY <1>1, <1>2, <1>3, StaleStep

\* createFunnel stores what nobody else can have changed yet.
LEMMA InsertStale ==
    ASSUME TypeInv, StaleInv, NEW c \in Calls, Insert(c) PROVE StaleInv'
<1> DEFINE row == [versions |-> {1}, published |-> {}, latest |-> 0, archived |-> FALSE, by |-> {}]
           f == Cardinality(Known) + 1
<1>1. PICK k \in Nat : Known = 1..k /\ IsFiniteSet(Inserting) /\ k + Cardinality(Inserting) <= MaxFunnels
  BY DEF TypeInv, KnownOK
<1>2. Cardinality(Known) = k
  BY <1>1, FS_Interval
<1>3. c \in Inserting /\ Op(c) = "create" /\ pc[c] = "insert"
  BY DEF Insert, Inserting, At, TypeInv, CallOK, OpOK
<1>4. Inserting # {} /\ Cardinality(Inserting) \in Nat /\ Cardinality(Inserting) # 0
  BY <1>1, <1>3, FS_EmptySet, FS_CardinalityType
<1>5. f \in Funnels /\ f \notin Known
  BY <1>1, <1>2, <1>4, FunnelConfigAssumption DEF Funnels
<1>6. FullRow(row)
  BY FirstRow
<1>7. /\ Commit(c, f, row) /\ target' = [target EXCEPT ![c] = f]
      /\ UNCHANGED <<config, listed, faults, request, number, before, archivedBy, storers>>
  BY DEF Insert, cache, history
<1> HIDE DEF row, f
<1>8. funnel[f] = NULL
  BY <1>5 DEF Known
<1>9. /\ pc'[c] = "finish" /\ Changed(row, c) # NULL
      /\ \A g \in Funnels : g # f => funnel'[g] = funnel[g]
  BY <1>5, <1>6, <1>7, <1>8, CommitRows
<1>10. SeenGrows
  BY <1>5, <1>9 DEF SeenGrows, Known
<1>11. Others(c) /\ UNCHANGED <<request, before>> /\ target'[c] = f /\ Op(c)' = "create"
  <2>1. Others(c) /\ UNCHANGED <<request, before>>
    BY StepFrame DEF CallStep
  <2> QED
    BY <1>3, <1>7, <2>1 DEF TypeInv, TypeOK, Op
<1>12. target[c] = NULL
  BY <1>3 DEF StaleInv, NoTarget
<1>13. ~Answered(c)' /\ ~HoldsConfig(c)' /\ ~Deletes(c)' /\ NoTarget(c)'
  BY <1>9, <1>11 DEF Answered, HoldsConfig, Did, Returned, Deletes, NoTarget
<1>14. \A d \in before[c] : Answered(d) => target[d] # f
  <2>1. before[c] \subseteq Calls
    BY DEF TypeInv, TypeOK
  <2> QED
    BY <1>5, <2>1 DEF StaleInv, InBy
<1>15. InBy(c)'
  BY <1>13 DEF InBy
<1> QED
  BY <1>3, <1>7, <1>9, <1>10, <1>11, <1>12, <1>13, <1>14, <1>15, StaleStep

\* At first nothing is cached and nothing called.
LEMMA InitStaleInv == Init => StaleInv
BY DEF Init, StaleInv, CacheOK, InBy, FreshRead, HeldRead, NoTarget, HoldsConfig, Answered, Did, Returned

\* Every step keeps copies from being stale without a race.
LEMMA NextStaleInv == TypeInv /\ StaleInv /\ [Next]_vars => StaleInv'
<1> SUFFICES ASSUME TypeInv, StaleInv, [Next]_vars PROVE StaleInv'
  OBVIOUS
<1>0. VarsOK /\ RowsOK /\ KnownOK /\ \A c \in Calls : CallOK(c)
  BY TypeParts
<1>s. UNCHANGED funnel => SeenGrows
  BY DEF SeenGrows, Known
<1> USE DEF At, Goto, Return, cache, locals, history
<1>g. storers \subseteq storers'
  BY DEF Next, vars, AllReturned, Begin, Insert, LookUp, Find, LookUpList, FindMany, ReadVersion, Write,
         TooMany, Archive, FindVersion, Publish, Finish, StoreConfig, DatabaseError, Expire
<1>1. ASSUME NEW c \in Calls, NEW r \in Requests, Begin(c, r) PROVE StaleInv'
  <2>1. /\ pc[c] = "idle" /\ pc'[c] = FirstStep(r) /\ UNCHANGED <<funnel, config>> /\ Others(c)
        /\ request'[c] = r /\ target'[c] = (IF r.op \in {"create", "list"} THEN NULL ELSE r.funnel)
    BY <1>0, <1>1 DEF Begin, Others, VarsOK
  <2>2. NoTarget(c)'
    BY <2>1, FirstStepOK DEF NoTarget
  <2>3. pc'[c] \notin {"finish", "done", "publish"} /\ (pc'[c] = "findVersion" => request'[c].version # NULL)
    BY <2>1, FirstStepOK, FunnelConfigAssumption DEF Steps
  <2> QED
    BY <1>g, <1>s, <2>1, <2>2, <2>3, QuietStale
<1>2. ASSUME NEW c \in Calls, CallStep(c), UNCHANGED <<funnel, config, target>>,
             \/ pc'[c] \in {"find", "findMany", "write"}
             \/ pc'[c] = "done" /\ reply'[c] # "done"
             \/ pc'[c] \in {"finish", "done"} /\ Op(c) = "list"
      PROVE  StaleInv'
  <2>1. Others(c) /\ pc[c] \notin {"idle", "done"} /\ UNCHANGED <<request, before>> /\ Op(c)' = Op(c)
    BY <1>2, CallFrame
  <2>2. NoTarget(c)'
    BY <1>2 DEF NoTarget
  <2> QED
    BY <1>g, <1>s, <1>2, <2>1, <2>2, QuietStale
<1>3. ASSUME NEW c \in Calls, CallStep(c), NotFound(c), UNCHANGED <<config, target>>
      PROVE  StaleInv'
  <2>1. pc'[c] = "done" /\ reply'[c] # "done" /\ UNCHANGED funnel
    BY <1>0, <1>3 DEF NotFound, VarsOK
  <2> QED
    BY <1>2, <1>3, <2>1
<1>4. ASSUME NEW c \in Calls, LookUp(c) PROVE StaleInv'
  <2>1. /\ pc[c] = "lookUp" /\ UNCHANGED <<funnel, config, request, target>> /\ CallStep(c)
        /\ target[c] \in Known /\ target[c] \in Funnels
        /\ Op(c) = "get" \/ TakesLatest(c)
    BY <1>0, <1>4 DEF LookUp, CallStep, CallOK, OpOK, TargetOK, TakesLatest, Known
  <2>2. CASE config[target[c]] = NULL
    <3>1. pc'[c] = "find"
      BY <1>0, <1>4, <2>2 DEF LookUp, VarsOK
    <3> QED
      BY <1>2, <2>1, <3>1
  <2>3. CASE config[target[c]] # NULL
    <3>1. /\ got'[c] = config[target[c]]
          /\ pc'[c] = (IF Op(c) = "get" THEN "done" ELSE "findVersion")
      BY <1>0, <1>4, <2>3 DEF LookUp, Take, VarsOK
    <3>2. Others(c) /\ pc[c] \notin {"idle", "done"} /\ UNCHANGED <<request, before>> /\ Op(c)' = Op(c)
      BY <2>1, <3>1, CallFrame
    <3>3. \A d \in Calls : Answered(d) /\ target[d] = target[c] => Excused(d, got'[c])
      BY <2>1, <2>3, <3>1 DEF StaleInv, CacheOK
    <3>4. before[c] \subseteq Calls
      BY <1>0 DEF VarsOK
    <3>5. NoTarget(c)' /\ ~Answered(c)' /\ InBy(c)'
      BY <2>1, <3>1, <3>2 DEF NoTarget, InBy, Answered, Did, Returned, TakesLatest
    <3> QED
      BY <1>g, <1>s, <2>1, <3>1, <3>2, <3>3, <3>4, <3>5, StaleStep
  <2> QED
    BY <2>2, <2>3
<1>5. ASSUME NEW c \in Calls, Find(c) PROVE StaleInv'
  <2>1. /\ pc[c] = "find" /\ UNCHANGED <<config, target, number>> /\ CallStep(c)
        /\ target[c] \in Known
        /\ Op(c) = "get" \/ TakesLatest(c)
    BY <1>0, <1>5 DEF Find, CallStep, CallOK, OpOK, TargetOK, TakesLatest
  <2>2. CASE NotFound(c)
    BY <1>3, <2>1, <2>2
  <2>3. CASE Open(target[c]) /\ ~NotFound(c)
    <3>1. got'[c] = Row(c) /\ pc'[c] = "finish" /\ UNCHANGED funnel
      BY <1>0, <1>5, <2>3 DEF Find, VarsOK
    <3>2. Others(c) /\ pc[c] \notin {"idle", "done"} /\ UNCHANGED <<request, before>> /\ Op(c)' = Op(c)
      BY <2>1, <3>1, CallFrame
    <3>3. before[c] \subseteq Calls
      BY <1>0 DEF VarsOK
    <3>4. \A d \in before[c] : Answered(d) /\ target[d] = target[c] => d \in got'[c].by
      BY <3>1, <3>3 DEF StaleInv, InBy, Row
    <3>5. NoTarget(c)' /\ ~Answered(c)' /\ ~HoldsConfig(c)' /\ ~Deletes(c)'
      BY <2>1, <3>1, <3>2 DEF NoTarget, Answered, HoldsConfig, Did, Returned, Deletes, TakesLatest
    <3>6. InBy(c)'
      BY <3>5 DEF InBy
    <3> QED
      BY <1>g, <1>s, <2>1, <3>1, <3>2, <3>4, <3>5, <3>6, StaleStep
  <2> QED
    BY <1>5, <2>2, <2>3 DEF Find
<1>6. ASSUME NEW c \in Calls, LookUpList(c) \/ FindMany(c) PROVE StaleInv'
  <2>1. Op(c) = "list" /\ CallStep(c) /\ UNCHANGED <<funnel, config, target>>
    BY <1>0, <1>6 DEF LookUpList, FindMany, CallStep, CallOK, OpOK
  <2>2. pc'[c] \in {"findMany", "finish", "done"}
    BY <1>0, <1>6 DEF LookUpList, FindMany, VarsOK
  <2> QED
    BY <1>2, <2>1, <2>2
<1>7. ASSUME NEW c \in Calls, ReadVersion(c) PROVE StaleInv'
  <2>1. CallStep(c) /\ UNCHANGED <<config, target>>
    BY <1>7 DEF CallStep, ReadVersion
  <2>2. CASE NotFound(c)
    BY <1>3, <2>1, <2>2
  <2>3. CASE Editable(target[c]) /\ ~NotFound(c)
    <3>1. pc'[c] = "write" /\ UNCHANGED funnel
      BY <1>0, <1>7, <2>3 DEF ReadVersion, VarsOK
    <3> QED
      BY <1>2, <2>1, <3>1
  <2> QED
    BY <1>7, <2>2, <2>3 DEF ReadVersion
<1>8. ASSUME NEW c \in Calls, TooMany(c) \/ DatabaseError(c) PROVE StaleInv'
  <2>1. CallStep(c) /\ UNCHANGED <<funnel, config, target>> /\ pc'[c] = "done" /\ reply'[c] = "failed"
    BY <1>0, <1>8 DEF CallStep, TooMany, DatabaseError, VarsOK
  <2> QED
    BY <1>2, <2>1
<1>9. ASSUME NEW c \in Calls, Write(c) PROVE StaleInv'
  <2>1. /\ pc[c] = "write" /\ TargetOK(c) /\ Op(c) = "update" /\ target[c] \in Known
        /\ number[c] - 1 \in Row(c).versions /\ number[c] \in 0..(MaxVersions + 1)
        /\ number[c] <= MaxVersions /\ CallStep(c)
    BY <1>0, <1>9 DEF Write, CallOK, OpOK, TargetOK, VarsOK, CallStep
  <2>2. UNCHANGED <<config, listed, faults, request, target, number, before, archivedBy, storers>>
    BY <1>9 DEF Write
  <2>3. FullRow(Row(c))
    BY <2>1, RowOfCall
  <2>4. CASE Return(c, "failed") /\ UNCHANGED <<funnel, got>>
    <3>1. pc'[c] = "done" /\ reply'[c] = "failed"
      BY <1>0, <2>4 DEF VarsOK
    <3> QED
      BY <1>2, <2>1, <2>2, <2>4, <3>1
  <2>5. CASE request[c].steps /\ ~VersionTaken(c)
             /\ Commit(c, target[c], [Row(c) EXCEPT !.versions = @ \cup {number[c]}])
    <3> DEFINE row == [Row(c) EXCEPT !.versions = @ \cup {number[c]}]
    <3>1. number[c] \in Versions /\ number[c] \notin Row(c).versions
      <4>1. Row(c).versions \subseteq Versions
        BY <2>3 DEF FullRow, RowOK, Rows
      <4> QED
        BY <2>1, <2>5, <4>1, FunnelConfigAssumption DEF VersionTaken, Versions
    <3>2. FullRow(row) /\ row.versions = 1..number[c] /\ Latest(Row(c)) = number[c] - 1 /\ row.by = Row(c).by
      BY <2>1, <2>3, <3>1, NextVersionRow
    <3>3. Row(c).versions \subseteq row.versions
      <4>1. Row(c).versions = 1..Latest(Row(c))
        BY <2>3, LatestOfFull
      <4> QED
        BY <3>1, <3>2, <4>1 DEF Versions
    <3> HIDE DEF row
    <3>4. Commit(c, target[c], row)
      BY <2>5 DEF row
    <3> QED
      BY <1>g, <2>1, <2>2, <3>2, <3>3, <3>4, CommitStale
  <2>6. CASE ~request[c].steps /\ Commit(c, target[c], Row(c))
    BY <1>g, <2>1, <2>2, <2>3, <2>6, CommitStale
  <2> QED
    BY <1>9, <2>4, <2>5, <2>6 DEF Write
<1>10. ASSUME NEW c \in Calls, Archive(c) PROVE StaleInv'
  <2>1. /\ pc[c] = "archive" /\ Op(c) = "archive" /\ target[c] \in Known /\ CallStep(c)
        /\ UNCHANGED <<config, target, number>>
    BY <1>0, <1>10 DEF Archive, CallOK, OpOK, TargetOK, CallStep
  <2>2. CASE NotFound(c)
    BY <1>3, <2>1, <2>2
  <2>3. CASE Commit(c, target[c], [Row(c) EXCEPT !.archived = TRUE])
    <3> DEFINE row == [Row(c) EXCEPT !.archived = TRUE]
    <3>1. FullRow(Row(c))
      BY <2>1, RowOfCall
    <3>2. FullRow(row) /\ row.versions = Row(c).versions /\ row.by = Row(c).by
      BY <3>1, ArchivedRow
    <3>3. Commit(c, target[c], row)
      BY <2>3
    <3> HIDE DEF row
    <3> QED
      BY <1>g, <2>1, <3>2, <3>3, CommitStale
  <2> QED
    BY <1>10, <2>2, <2>3 DEF Archive
<1>11. ASSUME NEW c \in Calls, FindVersion(c) PROVE StaleInv'
  <2>1. pc[c] = "findVersion" /\ Op(c) = "publish" /\ CallStep(c) /\ UNCHANGED <<config, target>>
    BY <1>0, <1>11 DEF FindVersion, CallOK, OpOK, CallStep
  <2>2. CASE NotFound(c)
    BY <1>3, <2>1, <2>2
  <2>3. CASE VersionExists(c) /\ ~NotFound(c)
    <3>1. pc'[c] = "publish" /\ UNCHANGED <<funnel, got>>
      BY <1>0, <1>11, <2>3 DEF FindVersion, VarsOK
    <3>2. /\ Others(c) /\ pc[c] \notin {"idle", "done"} /\ UNCHANGED <<request, before>> /\ Op(c)' = Op(c)
      BY <2>1, <3>1, CallFrame
    <3>3. NoTarget(c)' /\ ~Answered(c)' /\ InBy(c)'
      BY <3>1 DEF NoTarget, InBy, Answered, Did, Returned
    <3>4. HoldsConfig(c)' => HoldsConfig(c)
      BY <2>1, <3>1, <3>2 DEF HoldsConfig, Did, Returned
    <3>5. HeldRead(c)
      BY DEF StaleInv
    <3> QED
      BY <1>g, <1>s, <2>1, <3>1, <3>2, <3>3, <3>4, <3>5, StaleStep DEF HeldRead
  <2> QED
    BY <1>11, <2>2, <2>3 DEF FindVersion
<1>12. ASSUME NEW c \in Calls, Publish(c) PROVE StaleInv'
  <2> DEFINE row == [Row(c) EXCEPT !.published = @ \cup {number[c]}, !.latest = number[c]]
  <2>1. /\ pc[c] = "publish" /\ Op(c) = "publish" /\ target[c] \in Known /\ CallStep(c)
        /\ number[c] \in Row(c).versions /\ number[c] \in Versions
        /\ UNCHANGED <<config, target, number>>
    BY <1>0, <1>12 DEF Publish, CallOK, OpOK, TargetOK, CallStep
  <2>2. FullRow(Row(c))
    BY <2>1, RowOfCall
  <2>3. FullRow(row) /\ row.versions = Row(c).versions /\ row.by = Row(c).by
    BY <2>1, <2>2, PublishedRow
  <2>4. Commit(c, target[c], row) /\ number[c] # 0
    BY <1>12, <2>1 DEF Publish, Versions
  <2> HIDE DEF row
  <2> QED
    BY <1>g, <2>1, <2>3, <2>4, CommitStale
<1>13. ASSUME NEW c \in Calls, Finish(c) PROVE StaleInv'
  <2>1. /\ pc[c] = "finish" /\ CallStep(c) /\ UNCHANGED <<funnel, got, target>>
        /\ pc'[c] \in {"done", "findVersion"} /\ OpOK(c) /\ TargetOK(c)
        /\ Op(c) # "list" => target[c] \in Known /\ target[c] \in Funnels
    BY <1>0, <1>13 DEF Finish, CallStep, VarsOK, CallOK, TargetOK, Known
  <2>2. Others(c) /\ pc[c] \notin {"idle", "done"} /\ UNCHANGED <<request, before>> /\ Op(c)' = Op(c)
    BY <2>1, CallFrame
  <2>3. NoTarget(c)' /\ pc'[c] # "finish"
    BY <2>1 DEF NoTarget
  <2>4. FreshRead(c) /\ InBy(c)
    BY DEF StaleInv
  <2>5. CASE Stores(c)
    <3>1. config' = [config EXCEPT ![target[c]] = got[c]] /\ c \in storers'
      BY <1>13, <2>5 DEF Finish, StoreConfig, Stores
    <3>2. \A f \in Funnels : f # target[c] => config'[f] = config[f]
      BY <1>0, <3>1 DEF RowsOK
    <3>3. config'[target[c]] = got[c]
      BY <1>0, <2>1, <2>5, <3>1 DEF RowsOK, Stores
    <3>4. ~Answered(c)' /\ InBy(c)'
      <4>1. Op(c) = "publish" => pc'[c] = "findVersion"
        BY <1>0, <1>13, <2>5 DEF Finish, Stores, VarsOK
      <4> QED
        BY <2>2, <2>3, <2>5, <4>1 DEF Answered, Did, Returned, InBy, Stores
    <3> QED
      BY <1>g, <1>s, <2>1, <2>2, <2>3, <2>4, <2>5, <3>1, <3>2, <3>3, <3>4, StaleStep DEF FreshRead, Excused
  <2>6. CASE Deletes(c)
    <3>1. config' = [config EXCEPT ![target[c]] = NULL] /\ pc'[c] = "done"
      BY <1>0, <1>13, <2>6 DEF Finish, Deletes, Deleted, VarsOK
    <3>2. \A f \in Funnels : config'[f] # NULL => config'[f] = config[f]
      BY <1>0, <3>1 DEF RowsOK
    <3>3. config'[target[c]] = NULL
      BY <1>0, <2>1, <2>6, <3>1 DEF RowsOK, Deletes
    <3>4. InBy(c)'
      BY <2>1, <2>4, <2>6 DEF InBy, Known
    <3>5. ~HoldsConfig(c)'
      BY <2>2, <2>6, <3>1 DEF HoldsConfig, Did, Returned, Deletes
    <3> QED
      BY <1>g, <1>s, <2>1, <2>2, <2>3, <3>2, <3>3, <3>4, <3>5, StaleStep
  <2>7. CASE Op(c) = "list"
    <3>1. UNCHANGED config /\ pc'[c] = "done"
      BY <1>0, <1>13, <2>7 DEF Finish, VarsOK
    <3> QED
      BY <1>2, <2>1, <2>7, <3>1
  <2>8. CASE Op(c) = "archive"
    <3>1. UNCHANGED config /\ pc'[c] = "done" /\ reply'[c] = "not found"
      BY <1>0, <1>13, <2>8 DEF Finish, VarsOK
    <3> QED
      BY <1>2, <2>1, <3>1
  <2> QED
    BY <1>13, <2>5, <2>6, <2>7, <2>8 DEF Finish, Stores, Deletes
<1>14. CASE Expire \/ UNCHANGED vars
  <2>1. UNCHANGED <<funnel, pc, request, target, number, got, reply, before, storers>>
    BY <1>14 DEF Expire, vars
  <2>2. \A f \in Funnels : config'[f] # NULL => config'[f] = config[f]
    BY <1>0, <1>14 DEF Expire, vars, RowsOK
  <2>3. \A d \in Calls : /\ Answered(d)' = Answered(d) /\ Raced(d)' = Raced(d)
                         /\ InBy(d)' = InBy(d) /\ NoTarget(d)' = NoTarget(d)
                         /\ Stores(d)' = Stores(d) /\ HoldsConfig(d)' = HoldsConfig(d)
    BY <2>1 DEF Answered, Did, Returned, Op, Raced, Overlap, InBy, Deletes, Known, NoTarget, Stores, HoldsConfig
  <2>4. \A c \in Calls : before[c] \subseteq Calls
    BY <1>0 DEF VarsOK
  <2>5. \A f \in Funnels : CacheOK(f)'
    BY <2>1, <2>2, <2>3 DEF StaleInv, CacheOK, Excused
  <2>6. \A c \in Calls : FreshRead(c)' /\ HeldRead(c)'
    BY <2>1, <2>3, <2>4 DEF StaleInv, FreshRead, HeldRead, Excused
  <2> QED
    BY <2>3, <2>5, <2>6 DEF StaleInv
<1> QED
  BY <1>1, <1>4, <1>5, <1>6, <1>7, <1>8, <1>9, <1>10, <1>11, <1>12, <1>13, <1>14, InsertStale
     DEF Next, AllReturned

\* What a get answers, and a publish takes its version from, lacks a change
\* answered before only if another call about the funnel, that stores what it
\* has read, overlapped that change.
THEOREM StaleByRace == Spec => []ConfigStaleByRace
<1>1. ASSUME StaleInv PROVE ConfigStaleByRace
  BY <1>1 DEF StaleInv, HeldRead, ConfigStaleByRace, Excused, Raced, Answered
<1>2. Init => TypeInv /\ StaleInv
  BY InitTypeInv, InitStaleInv
<1>3. TypeInv /\ StaleInv /\ [Next]_vars => (TypeInv /\ StaleInv)'
  BY NextTypeInv, NextStaleInv
<1> QED
  BY <1>1, <1>2, <1>3, PTL DEF Spec

=============================================================================
