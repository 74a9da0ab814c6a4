--------------------------- MODULE ApiKeyAuthProofs ---------------------------
(***************************************************************************)
(* How stale a verdict on an API key can be, whose name may be taken       *)
(* twice, and what the cache evicts: theorems for every value of the       *)
(* constants.                                                              *)
(***************************************************************************)
EXTENDS ApiKeyAuth, TLAPS

\* What is assumed of the constants.
LEMMA Assumptions ==
    /\ Requests \subseteq AllRequests
    /\ Existing \in [Keys -> Names \cup {NULL}]
    /\ Verdicts \subseteq Values /\ TTLs = {TTL} /\ TTL \in Nat /\ Scopes # {}
    /\ MaxVersion \in Nat \ {0} /\ MaxFaults \in Nat /\ MaxTime \in Nat
    /\ NULL \notin Names \cup Requests \cup Rows \cup Verdicts \cup [version : Versions] \cup Calls
    /\ NULL \notin Values
    /\ NULL \notin [value : Values, expiresAt : Nat, lastAccessAt : Nat]
BY ApiKeyAssumption, CacheAssumption

\* The fields of a request are those of its operation.
LEMMA RequestFields ==
    ASSUME NEW r \in Requests
    PROVE  /\ r.op \in {"validate", "revoke", "update", "create"}
           /\ r.key \in Keys
           /\ r.op = "update" => r.name \in Names \cup {NULL} /\ r.scopes \in Scopes \cup {NULL}
           /\ r.op = "create" => r.name \in Names /\ r.scopes \in Scopes
<1>1. r \in AllRequests
  BY Assumptions
<1>2. CASE r \in [op : {"validate", "revoke"}, key : Keys]
  BY <1>2
<1>3. CASE r \in [op : {"update"}, key : Keys, name : Names \cup {NULL}, scopes : Scopes \cup {NULL}]
  BY <1>3
<1>4. CASE r \in [op : {"create"}, key : Keys, name : Names, scopes : Scopes]
  BY <1>4
<1> QED
  BY <1>1, <1>2, <1>3, <1>4 DEF AllRequests

\* A verdict is no failure.
LEMMA VerdictIsAnswer == \A v \in Verdicts : v \notin {Failure, Refusal}
<1> SUFFICES ASSUME NEW v \in Verdicts PROVE v # Failure /\ v # Refusal
  OBVIOUS
<1>1. DOMAIN v = {"isValid", "scopes", "version"}
  BY DEF Verdicts
<1>2. DOMAIN Failure = {"error"} /\ DOMAIN Refusal = {"error"}
  BY DEF Failure, Refusal
<1> QED
  BY <1>1, <1>2

-----------------------------------------------------------------------------
(* Types, and what each call knows at each await.                          *)

ValidateSteps == {"findKey", "fill"}
RevokeSteps == {"findActive", "revokeRow"}
UpdateSteps == {"findExisting", "findName", "updateRow"}
CreateSteps == {"findDuplicate", "createRow"}

CallOK(c) ==
    /\ pc[c] \in {"idle"} \cup RevokeSteps \cup UpdateSteps \cup CreateSteps => found[c] = NULL
    /\ pc[c] \in ValidateSteps => IsValidation(c)
    /\ pc[c] = "fill" => found[c] \in Verdicts
    /\ pc[c] \in RevokeSteps => request[c].op = "revoke"
    /\ pc[c] \in UpdateSteps => request[c].op = "update"
    /\ pc[c] = "invalidate" => request[c].op \in {"revoke", "update"} /\ found[c] \in [version : Versions]
    /\ pc[c] \in CreateSteps =>
          /\ request[c].op = "create" /\ row[Key(c)] = NULL
          /\ \A d \in Calls : d # c /\ pc[d] \in CreateSteps => Key(d) # Key(c)
    /\ pc[c] \in Steps \ CreateSteps => row[Key(c)] # NULL
    /\ pc[c] = "done" /\ IsValidation(c) => reply[c] \in Verdicts \cup {Failure}

TypeInv ==
    /\ TypeOK
    /\ began \in [Calls -> 0..MaxTime]
    /\ ended \in [Calls -> 0..MaxTime]
    /\ \A k \in Keys : cache[k] # NULL => cache[k].value \in Verdicts /\ row[k] # NULL
    /\ \A c \in Calls : CallOK(c)

\* The tables are well typed before any call.
LEMMA InitTypeInv == Init => TypeInv
<1> SUFFICES ASSUME Init PROVE TypeInv
  OBVIOUS
<1>1. (CHOOSE s \in Scopes : TRUE) \in Scopes
  BY Assumptions
<1>2. row \in [Keys -> Rows \cup {NULL}]
  BY <1>1, Assumptions DEF Init, Rows, Versions
<1>3. CacheOK
  BY Assumptions DEF Init, CacheInit, CacheOK, Held, Keys
<1> QED
  BY <1>2, <1>3, Assumptions DEF Init, CacheInit, TypeInv, TypeOK, CallOK, Steps, ValidateSteps, RevokeSteps,
     UpdateSteps, CreateSteps, Keys

-----------------------------------------------------------------------------
(* The operations of the cache.                                            *)

Entries == [value : Values, expiresAt : Nat, lastAccessAt : 0..MaxTime]

\* The entry of a key goes, or stays with its value and its lifetime.
Keeps(k) ==
    cache'[k] # NULL => /\ cache[k] # NULL
                        /\ cache'[k].value = cache[k].value
                        /\ cache'[k].expiresAt = cache[k].expiresAt

\* An entry is no unset value.
LEMMA EntryNotNull == \A e \in Entries : e # NULL
BY Assumptions DEF Entries

\* get keeps what there is, but for an expired entry of its key.
LEMMA GetKeeps ==
    ASSUME CacheOK, NEW k \in Keys, Get(k), UNCHANGED now
    PROVE  CacheOK' /\ \A j \in Keys : Keeps(j)
<1>1. CASE Fresh(k)
  <2> DEFINE e == [cache[k] EXCEPT !.lastAccessAt = now]
  <2>1. cache[k] \in Entries
    BY <1>1 DEF Fresh, CacheOK, Entries, Keys
  <2>2. e \in Entries /\ e.lastAccessAt = now /\ e.value = cache[k].value /\ e.expiresAt = cache[k].expiresAt
    BY <2>1 DEF Entries, CacheOK
  <2>3. cache' = [cache EXCEPT ![k] = e]
    BY <1>1 DEF Get, Touch
  <2>4. e # NULL /\ cache[k] # NULL
    BY <1>1, <2>2, EntryNotNull DEF Fresh
  <2> HIDE DEF e
  <2> QED
    BY <2>2, <2>3, <2>4 DEF CacheOK, Held, Entries, Keys, Keeps
<1>2. CASE ~Fresh(k)
  BY <1>2 DEF Get, CacheOK, Held, Keys, Keeps
<1> QED
  BY <1>1, <1>2

\* set stores the value for its lifetime and leaves other entries or drops one.
LEMMA SetKeeps ==
    ASSUME CacheOK, NEW k \in Keys, NEW v \in Verdicts, Set(k, v, TTL), UNCHANGED now
    PROVE  /\ CacheOK'
           /\ cache'[k] # NULL /\ cache'[k].value = v /\ cache'[k].expiresAt = now + TTL
           /\ \A j \in Keys \ {k} : Keeps(j)
<1> DEFINE e == [value |-> v, expiresAt |-> now + TTL, lastAccessAt |-> now]
<1>1. e \in Entries /\ e.lastAccessAt = now /\ e.value = v /\ e.expiresAt = now + TTL
  BY Assumptions DEF Entries, CacheOK
<1>2. e # NULL
  BY <1>1, EntryNotNull
<1>3. cache' = [cache EXCEPT ![k] = e]
      \/ \E victim \in LeastRecentlyUsed : cache' = [cache EXCEPT ![victim] = NULL, ![k] = e]
  BY DEF Set
<1> HIDE DEF e
<1>4. CASE cache' = [cache EXCEPT ![k] = e]
  BY <1>1, <1>2, <1>4 DEF CacheOK, Held, Entries, Keys, Keeps
<1>5. ASSUME NEW victim \in LeastRecentlyUsed, cache' = [cache EXCEPT ![victim] = NULL, ![k] = e]
      PROVE  /\ CacheOK'
             /\ cache'[k] = e
             /\ \A j \in Keys \ {k} : Keeps(j)
  BY <1>1, <1>2, <1>5 DEF CacheOK, Held, Entries, Keys, Keeps, LeastRecentlyUsed
<1> QED
  BY <1>1, <1>2, <1>3, <1>4, <1>5 DEF CacheOK, Keys

\* A deletion, a clear and a clean-up only drop entries.
LEMMA DropKeeps ==
    ASSUME CacheOK, UNCHANGED now, Clear \/ CleanupExpired \/ \E k \in Keys : Delete(k)
    PROVE  CacheOK' /\ \A j \in Keys : Keeps(j)
BY DEF CacheOK, Clear, CleanupExpired, Delete, Held, Keys, Keeps

-----------------------------------------------------------------------------
(* Every step keeps the types.                                             *)

\* A step of c leaves the other calls and, to them, the rows.
StepOf(c) ==
    /\ \A d \in Calls : d # c => /\ pc'[d] = pc[d] /\ request'[d] = request[d]
                                 /\ found'[d] = found[d] /\ reply'[d] = reply[d]
    /\ \A k \in Keys : row[k] # NULL => row'[k] # NULL
    /\ \A d \in Calls : d # c /\ pc[d] \in CreateSteps =>
          row'[Key(d)] = NULL /\ (pc'[c] \in CreateSteps => Key(d) # request'[c].key)

\* A call that has begun has a request.
LEMMA Begun ==
    ASSUME TypeOK, NEW c \in Calls, pc[c] # "idle"
    PROVE  request[c] \in Requests /\ Key(c) \in Keys
<1>1. request[c] \in Requests
  BY DEF TypeOK
<1> QED
  BY <1>1, RequestFields DEF Key

\* What the other calls know survives.
LEMMA OtherCalls ==
    ASSUME TypeInv, NEW c \in Calls, StepOf(c), NEW d \in Calls, d # c
    PROVE  CallOK(d)'
<1>1. pc[d] # "idle" => Key(d) \in Keys
  BY Begun DEF TypeInv
<1>2. CallOK(d)
  BY DEF TypeInv
<1> QED
  BY <1>1, <1>2 DEF StepOf, CallOK, IsValidation, Key, Steps, ValidateSteps, RevokeSteps, UpdateSteps, CreateSteps

\* The types of the control after a step that goes on.
LEMMA GotoTypes ==
    ASSUME TypeInv, NEW c \in Calls, NEW step \in Steps, Goto(c, step), pc[c] # "idle" \/ request'[c] # NULL,
           request' \in [Calls -> Requests \cup {NULL}],
           \A d \in Calls : d # c => request'[d] = request[d],
           pc[c] # "idle" => request'[c] = request[c]
    PROVE  /\ pc' \in [Calls -> Steps \cup {"idle", "done"}]
           /\ \A d \in Calls : (pc'[d] = "idle") <=> (request'[d] = NULL)
           /\ reply' = reply /\ ended' = ended
           /\ pc'[c] = step /\ \A d \in Calls : d # c => pc'[d] = pc[d]
<1>1. step # "idle"
  BY DEF Steps
<1> QED
  BY <1>1 DEF Goto, TypeInv, TypeOK

\* The same of a step that returns.
LEMMA ReturnTypes ==
    ASSUME TypeInv, NEW c \in Calls,
           NEW r \in Verdicts \cup [version : Versions] \cup {NULL, Failure, Refusal}, Return(c, r),
           pc[c] # "idle" \/ request'[c] # NULL,
           request' \in [Calls -> Requests \cup {NULL}],
           \A d \in Calls : d # c => request'[d] = request[d],
           pc[c] # "idle" => request'[c] = request[c]
    PROVE  /\ pc' \in [Calls -> Steps \cup {"idle", "done"}]
           /\ \A d \in Calls : (pc'[d] = "idle") <=> (request'[d] = NULL)
           /\ reply' \in [Calls -> Verdicts \cup [version : Versions] \cup {NULL, Failure, Refusal}]
           /\ ended' \in [Calls -> 0..MaxTime]
           /\ pc'[c] = "done" /\ reply'[c] = r /\ ended'[c] = now
           /\ \A d \in Calls : d # c => pc'[d] = pc[d] /\ reply'[d] = reply[d] /\ ended'[d] = ended[d]
BY DEF Return, TypeInv, TypeOK, CacheOK

\* A validation that begins is answered from the cache or goes to the table.
LEMMA BeginValidateTypes ==
    ASSUME TypeInv, NEW c \in Calls, NEW r \in Requests, BeginValidate(c, r)
    PROVE  TypeInv'
<1> USE DEF TypeInv, TypeOK
<1>1. /\ pc[c] = "idle" /\ r.op = "validate" /\ row[r.key] # NULL /\ r.key \in Keys
      /\ request' = [request EXCEPT ![c] = r] /\ UNCHANGED <<now, row, faults, found>>
  BY RequestFields DEF BeginValidate, Record, At
<1>2. /\ before' \in [Calls -> SUBSET Calls] /\ began' \in [Calls -> 0..MaxTime]
      /\ request' \in [Calls -> Requests \cup {NULL}] /\ request'[c] = r /\ request'[c] # NULL
      /\ \A d \in Calls : d # c => request'[d] = request[d]
  BY <1>1, Assumptions DEF BeginValidate, Record, CacheOK
<1>3. CacheOK' /\ \A k \in Keys : Keeps(k)
  BY <1>1, GetKeeps DEF BeginValidate
<1>4. \A k \in Keys : cache'[k] # NULL => cache'[k].value \in Verdicts /\ row'[k] # NULL
  BY <1>1, <1>3 DEF Keeps
<1>5. CASE Return(c, Cached(r.key)) /\ Cached(r.key) # NULL
  <2>1. Cached(r.key) \in Verdicts
    BY <1>1, <1>5 DEF Cached, Fresh
  <2>2. /\ pc' \in [Calls -> Steps \cup {"idle", "done"}]
        /\ \A d \in Calls : (pc'[d] = "idle") <=> (request'[d] = NULL)
        /\ reply' \in [Calls -> Verdicts \cup [version : Versions] \cup {NULL, Failure, Refusal}]
        /\ ended' \in [Calls -> 0..MaxTime]
        /\ pc'[c] = "done" /\ reply'[c] = Cached(r.key)
        /\ \A d \in Calls : d # c => pc'[d] = pc[d] /\ reply'[d] = reply[d]
    BY <1>1, <1>2, <1>5, <2>1, ReturnTypes
  <2>3. StepOf(c)
    BY <1>1, <1>2, <2>2 DEF StepOf, CreateSteps, CallOK
  <2>4. CallOK(c)'
    BY <2>1, <2>2 DEF CallOK, ValidateSteps, RevokeSteps, UpdateSteps, CreateSteps, Steps
  <2> QED
    BY <1>1, <1>2, <1>3, <1>4, <2>2, <2>3, <2>4, OtherCalls
<1>6. CASE Goto(c, "findKey")
  <2>1. /\ pc' \in [Calls -> Steps \cup {"idle", "done"}]
        /\ \A d \in Calls : (pc'[d] = "idle") <=> (request'[d] = NULL)
        /\ reply' = reply /\ ended' = ended
        /\ pc'[c] = "findKey" /\ \A d \in Calls : d # c => pc'[d] = pc[d]
    BY <1>1, <1>2, <1>6, GotoTypes DEF Steps
  <2>2. StepOf(c)
    BY <1>1, <1>2, <2>1 DEF StepOf, CreateSteps, CallOK
  <2>3. CallOK(c)'
    BY <1>1, <1>2, <2>1 DEF CallOK, ValidateSteps, RevokeSteps, UpdateSteps, CreateSteps, Steps, IsValidation, Key
  <2> QED
    BY <1>1, <1>2, <1>3, <1>4, <2>1, <2>2, <2>3, OtherCalls
<1> QED
  BY <1>5, <1>6 DEF BeginValidate

\* A mutation begins on a key that is there, a creation on one that is not.
LEMMA BeginMutationTypes ==
    ASSUME TypeInv, NEW c \in Calls, NEW r \in Requests, BeginMutation(c, r)
    PROVE  TypeInv'
<1> USE DEF TypeInv, TypeOK
<1>1. /\ pc[c] = "idle" /\ r.op # "validate" /\ (r.op = "create" <=> row[r.key] = NULL) /\ r.key \in Keys
      /\ \A d \in Calls : pc[d] \in CreateSteps => Key(d) # r.key
      /\ request' = [request EXCEPT ![c] = r] /\ UNCHANGED <<now, cache, row, faults, found>>
  <2>1. \A d \in Calls : pc[d] \in CreateSteps => InFlight(d) /\ request[d].op = "create"
    BY DEF CallOK, CreateSteps, InFlight, Steps
  <2> QED
    BY <2>1, RequestFields DEF BeginMutation, Record, At, cacheVars
<1>2. /\ before' \in [Calls -> SUBSET Calls] /\ began' \in [Calls -> 0..MaxTime]
      /\ request' \in [Calls -> Requests \cup {NULL}] /\ request'[c] = r /\ request'[c] # NULL
      /\ \A d \in Calls : d # c => request'[d] = request[d]
  BY <1>1, Assumptions DEF BeginMutation, Record, CacheOK
<1>3. PICK step \in {"findActive", "findExisting", "findDuplicate"} :
         /\ Goto(c, step)
         /\ step = "findActive" => r.op = "revoke"
         /\ step = "findExisting" => r.op = "update"
         /\ step = "findDuplicate" => r.op = "create"
  BY <1>1, RequestFields DEF BeginMutation
<1>4. /\ pc' \in [Calls -> Steps \cup {"idle", "done"}]
      /\ \A d \in Calls : (pc'[d] = "idle") <=> (request'[d] = NULL)
      /\ reply' = reply /\ ended' = ended
      /\ pc'[c] = step /\ \A d \in Calls : d # c => pc'[d] = pc[d]
  BY <1>1, <1>2, <1>3, GotoTypes DEF Steps
<1>5. StepOf(c)
  BY <1>1, <1>2, <1>4 DEF StepOf, CallOK
<1>6. CallOK(c)'
  BY <1>1, <1>2, <1>3, <1>4 DEF CallOK, ValidateSteps, RevokeSteps, UpdateSteps, CreateSteps, Steps, IsValidation, Key
<1>7. CacheOK'
  BY <1>1 DEF CacheOK, Held
<1> QED
  BY <1>1, <1>2, <1>4, <1>5, <1>6, <1>7, OtherCalls

\* A step of a call under way that changes neither a row nor the cache.
LEMMA ReadingTypes ==
    ASSUME TypeInv, NEW c \in Calls, InFlight(c), UNCHANGED <<cacheVars, row, request, before, began>>,
           faults' \in 0..MaxFaults,
           found' \in [Calls -> Verdicts \cup [version : Versions] \cup {NULL}],
           \A d \in Calls : d # c => found'[d] = found[d],
           \/ \E step \in Steps : Goto(c, step)
           \/ \E r \in Verdicts \cup [version : Versions] \cup {NULL, Failure, Refusal} : Return(c, r),
           pc'[c] \in CreateSteps => pc[c] \in CreateSteps,
           CallOK(c)'
    PROVE  TypeInv'
<1> USE DEF TypeInv, TypeOK
<1>1. pc[c] # "idle" /\ request' \in [Calls -> Requests \cup {NULL}]
  BY DEF InFlight, Steps
<1>2. /\ pc' \in [Calls -> Steps \cup {"idle", "done"}]
      /\ \A d \in Calls : (pc'[d] = "idle") <=> (request'[d] = NULL)
      /\ reply' \in [Calls -> Verdicts \cup [version : Versions] \cup {NULL, Failure, Refusal}]
      /\ ended' \in [Calls -> 0..MaxTime]
      /\ \A d \in Calls : d # c => pc'[d] = pc[d] /\ reply'[d] = reply[d]
  <2>1. ASSUME NEW step \in Steps, Goto(c, step) PROVE <1>2!:
    BY <1>1, <2>1, GotoTypes
  <2>2. ASSUME NEW r \in Verdicts \cup [version : Versions] \cup {NULL, Failure, Refusal}, Return(c, r)
        PROVE <1>2!:
    BY <1>1, <2>2, ReturnTypes
  <2> QED
    BY <2>1, <2>2
<1>3. \A d \in Calls : d # c /\ pc[d] \in CreateSteps => row[Key(d)] = NULL /\ (pc'[c] \in CreateSteps => Key(d) # Key(c))
  BY DEF CallOK
<1>4. StepOf(c)
  BY <1>2, <1>3 DEF StepOf, Key
<1>5. CacheOK'
  BY DEF cacheVars, CacheOK, Held
<1> QED
  BY <1>2, <1>4, <1>5, OtherCalls DEF cacheVars

\* What a step of a call under way leaves: the fields that only Begin sets.
LEMMA StepTypes ==
    ASSUME TypeInv, NEW c \in Calls, InFlight(c), UNCHANGED <<faults, request, before, began>>,
           CacheOK', row' \in [Keys -> Rows \cup {NULL}],
           found' \in [Calls -> Verdicts \cup [version : Versions] \cup {NULL}],
           \A d \in Calls : d # c => found'[d] = found[d],
           \/ \E step \in Steps \ CreateSteps : Goto(c, step)
           \/ \E r \in Verdicts \cup [version : Versions] : Return(c, r),
           \A k \in Keys : row[k] # NULL => row'[k] # NULL,
           \A k \in Keys : row[k] = NULL /\ row'[k] # NULL => pc[c] \in CreateSteps /\ k = Key(c),
           \A k \in Keys : cache'[k] # NULL => cache'[k].value \in Verdicts /\ row'[k] # NULL,
           CallOK(c)'
    PROVE  TypeInv'
<1> USE DEF TypeInv, TypeOK
<1>1. pc[c] # "idle" /\ request' \in [Calls -> Requests \cup {NULL}]
  BY DEF InFlight, Steps
<1>2. /\ pc' \in [Calls -> Steps \cup {"idle", "done"}]
      /\ \A d \in Calls : (pc'[d] = "idle") <=> (request'[d] = NULL)
      /\ reply' \in [Calls -> Verdicts \cup [version : Versions] \cup {NULL, Failure, Refusal}]
      /\ ended' \in [Calls -> 0..MaxTime]
      /\ pc'[c] \notin CreateSteps
      /\ \A d \in Calls : d # c => pc'[d] = pc[d] /\ reply'[d] = reply[d]
  <2>1. ASSUME NEW step \in Steps \ CreateSteps, Goto(c, step) PROVE <1>2!:
    BY <1>1, <2>1, GotoTypes
  <2>2. ASSUME NEW r \in Verdicts \cup [version : Versions], Return(c, r)
        PROVE <1>2!:
    BY <1>1, <2>2, ReturnTypes DEF CreateSteps
  <2> QED
    BY <2>1, <2>2
<1>3. \A d \in Calls : d # c /\ pc[d] \in CreateSteps => Key(d) \in Keys /\ row[Key(d)] = NULL
                                                        /\ (pc[c] \in CreateSteps => Key(d) # Key(c))
  BY Begun DEF CallOK, CreateSteps
<1>4. StepOf(c)
  BY <1>2, <1>3 DEF StepOf, Key
<1> QED
  BY <1>2, <1>4, OtherCalls

\* What a revocation writes.
LEMMA RevokedRow ==
    ASSUME TypeInv, NEW c \in Calls, RevokeRow(c)
    PROVE  \E new \in Rows :
              /\ row' = [row EXCEPT ![Key(c)] = new]
              /\ new.version = row[Key(c)].version + 1
              /\ new.revoked /\ new.name = row[Key(c)].name /\ new.namedBy = row[Key(c)].namedBy
<1> DEFINE new == [row[Key(c)] EXCEPT !.revoked = TRUE, !.version = @ + 1]
<1>1. row[Key(c)] \in Rows /\ row[Key(c)].version < MaxVersion
  BY Begun DEF RevokeRow, At, TypeInv, TypeOK, CallOK, Steps, CreateSteps
<1>2. row[Key(c)].version + 1 \in Versions
  BY <1>1, Assumptions DEF Rows, Versions
<1>3. /\ new \in Rows /\ new.version = row[Key(c)].version + 1
      /\ new.revoked /\ new.name = row[Key(c)].name /\ new.namedBy = row[Key(c)].namedBy
  BY <1>1, <1>2 DEF Rows
<1>4. row' = [row EXCEPT ![Key(c)] = new]
  BY DEF RevokeRow
<1> QED
  BY <1>3, <1>4

\* What an update writes.
LEMMA UpdatedRow ==
    ASSUME TypeInv, NEW c \in Calls, UpdateRow(c)
    PROVE  \E new \in Rows :
              /\ row' = [row EXCEPT ![Key(c)] = new]
              /\ new.version = row[Key(c)].version + 1
              /\ new.revoked = row[Key(c)].revoked
              /\ \/ new.name = row[Key(c)].name /\ new.namedBy = row[Key(c)].namedBy
                 \/ /\ request[c].name # NULL /\ request[c].name # row[Key(c)].name
                    /\ new.name = request[c].name /\ new.namedBy = c
<1> DEFINE old == row[Key(c)]
           named == request[c].name # NULL
           new == [old EXCEPT !.name = IF named THEN request[c].name ELSE @,
                              !.namedBy = IF named /\ request[c].name # old.name THEN c ELSE @,
                              !.scopes = IF request[c].scopes # NULL THEN request[c].scopes ELSE @,
                              !.version = @ + 1]
<1>1. /\ pc[c] = "updateRow" /\ row[Key(c)] \in Rows /\ row[Key(c)].version < MaxVersion
      /\ request[c].op = "update" /\ request[c] \in Requests
  BY Begun DEF UpdateRow, At, TypeInv, TypeOK, CallOK, Steps, CreateSteps, UpdateSteps
<1>2. request[c].name \in Names \cup {NULL} /\ request[c].scopes \in Scopes \cup {NULL}
  BY <1>1, RequestFields
<1>3. /\ old.version + 1 \in Versions
      /\ (IF named THEN request[c].name ELSE old.name) \in Names
      /\ (IF named /\ request[c].name # old.name THEN c ELSE old.namedBy) \in Calls \cup {NULL}
      /\ (IF request[c].scopes # NULL THEN request[c].scopes ELSE old.scopes) \in Scopes
  BY <1>1, <1>2, Assumptions DEF Rows, Versions
<1>4. /\ new \in Rows /\ new.version = old.version + 1 /\ new.revoked = old.revoked
      /\ new.name = IF named THEN request[c].name ELSE old.name
      /\ new.namedBy = IF named /\ request[c].name # old.name THEN c ELSE old.namedBy
  BY <1>1, <1>3 DEF Rows
<1>5. row' = [row EXCEPT ![Key(c)] = new]
  BY DEF UpdateRow
<1> QED
  BY <1>4, <1>5

\* What a creation writes.
LEMMA CreatedRow ==
    ASSUME TypeInv, NEW c \in Calls, CreateRow(c)
    PROVE  \E new \in Rows :
              /\ row' = [row EXCEPT ![Key(c)] = new]
              /\ new.version = 1 /\ ~new.revoked
              /\ new.name = request[c].name /\ new.namedBy = c
<1> DEFINE new == [name |-> request[c].name, scopes |-> request[c].scopes, revoked |-> FALSE,
                   version |-> 1, namedBy |-> c]
<1>1. request[c].op = "create" /\ request[c] \in Requests
  BY Begun DEF CreateRow, At, TypeInv, TypeOK, CallOK, CreateSteps
<1>2. request[c].name \in Names /\ request[c].scopes \in Scopes
  BY <1>1, RequestFields
<1>3. 1 \in Versions
  BY Assumptions DEF Versions
<1>4. new \in Rows
  BY <1>2, <1>3 DEF Rows
<1>5. row' = [row EXCEPT ![Key(c)] = new]
  BY DEF CreateRow
<1> QED
  BY <1>4, <1>5

\* Every step of the service and of its cache keeps the types.
LEMMA NextTypeInv == TypeInv /\ [Next]_vars => TypeInv'
<1> SUFFICES ASSUME TypeInv, [Next]_vars PROVE TypeInv'
  OBVIOUS
<1> USE DEF TypeInv, TypeOK, At, locals
<1>0. \A c \in Calls : CallOK(c)
  OBVIOUS
<1>a. ASSUME NEW c \in Calls, pc[c] \in Steps
      PROVE  /\ InFlight(c) /\ request[c] \in Requests /\ Key(c) \in Keys
             /\ pc[c] \notin CreateSteps => row[Key(c)] \in Rows
  BY <1>a, Begun DEF InFlight, Steps, CallOK
<1>1. ASSUME NEW c \in Calls, NEW r \in Requests, BeginValidate(c, r) \/ BeginMutation(c, r) PROVE TypeInv'
  BY <1>1, BeginValidateTypes, BeginMutationTypes
<1>2. ASSUME NEW c \in Calls, FindKey(c) PROVE TypeInv'
  <2>1. pc[c] = "findKey" /\ InFlight(c) /\ Key(c) \in Keys /\ row[Key(c)] \in Rows /\ IsValidation(c)
    BY <1>2, <1>a DEF FindKey, Steps, CreateSteps, CallOK, ValidateSteps
  <2>2. Verdict(Key(c)) \in Verdicts
    <3>1. row[Key(c)].scopes \in Scopes /\ row[Key(c)].version \in Versions
      BY <2>1 DEF Rows
    <3>2. IsActive(Key(c)) \in BOOLEAN
      BY Zenon DEF IsActive
    <3> QED
      BY <3>1, <3>2 DEF Verdict, Verdicts
  <2>3. pc'[c] = "fill" /\ found'[c] = Verdict(Key(c)) /\ UNCHANGED <<request, row>>
    BY <1>2 DEF FindKey, Goto
  <2>4. CallOK(c)'
    BY <2>1, <2>2, <2>3, Assumptions DEF CallOK, ValidateSteps, RevokeSteps, UpdateSteps, CreateSteps, IsValidation, Key
  <2> QED
    BY <1>2, <2>1, <2>2, <2>3, <2>4, ReadingTypes DEF FindKey, Steps, CreateSteps
<1>3. ASSUME NEW c \in Calls, Fill(c) PROVE TypeInv'
  <2>1. /\ pc[c] = "fill" /\ InFlight(c) /\ Key(c) \in Keys /\ row[Key(c)] \in Rows /\ found[c] \in Verdicts
        /\ UNCHANGED <<row, request, found, now>>
    BY <1>3, <1>a DEF Fill, Steps, CreateSteps, CallOK
  <2>2. CacheOK' /\ cache'[Key(c)].value = found[c] /\ \A j \in Keys \ {Key(c)} : Keeps(j)
    BY <1>3, <2>1, SetKeeps DEF Fill
  <2>3. \A k \in Keys : cache'[k] # NULL => cache'[k].value \in Verdicts /\ row'[k] # NULL
    BY <2>1, <2>2, Assumptions DEF Keeps
  <2>4. pc'[c] = "done" /\ reply'[c] = found[c]
    BY <1>3 DEF Fill, Return
  <2>5. CallOK(c)'
    BY <2>1, <2>4 DEF CallOK, ValidateSteps, RevokeSteps, UpdateSteps, CreateSteps, Steps
  <2> QED
    BY <1>3, <2>1, <2>2, <2>3, <2>5, StepTypes DEF Fill
<1>4. ASSUME NEW c \in Calls, FindActive(c) \/ FindExisting(c) \/ FindName(c) \/ FindDuplicate(c) PROVE TypeInv'
  <2>1. /\ pc[c] \in {"findActive", "findExisting", "findName", "findDuplicate"} /\ InFlight(c)
        /\ UNCHANGED <<cacheVars, row, faults, request, before, began, found>>
    BY <1>4, <1>a DEF FindActive, FindExisting, FindName, FindDuplicate, Steps
  <2>2. \/ \E step \in Steps : Goto(c, step)
        \/ Return(c, Refusal)
    BY <1>4 DEF FindActive, FindExisting, FindName, FindDuplicate, Steps
  <2>3. /\ pc'[c] \in {"revokeRow", "findName", "updateRow", "createRow", "done"}
        /\ pc'[c] = "revokeRow" => pc[c] = "findActive"
        /\ pc'[c] \in {"findName", "updateRow"} => pc[c] \in UpdateSteps
        /\ pc'[c] = "createRow" => pc[c] = "findDuplicate"
        /\ \A d \in Calls : d # c => pc'[d] = pc[d]
    BY <1>4 DEF FindActive, FindExisting, FindName, FindDuplicate, Goto, Return, UpdateSteps
  <2>4. request[c].op # "validate"
    BY <1>0, <2>1 DEF CallOK, RevokeSteps, UpdateSteps, CreateSteps
  <2>5. CallOK(c)'
    BY <1>0, <2>1, <2>3, <2>4 DEF CallOK, ValidateSteps, RevokeSteps, UpdateSteps, CreateSteps, Steps, IsValidation, Key
  <2> QED
    BY <2>1, <2>2, <2>3, <2>5, ReadingTypes DEF CreateSteps
<1>5. ASSUME NEW c \in Calls, NEW new \in Rows, pc[c] \in {"revokeRow", "updateRow"},
             row' = [row EXCEPT ![Key(c)] = new], new.version = row[Key(c)].version + 1,
             Written(c), Goto(c, "invalidate"), UNCHANGED <<cacheVars, faults, request, before, began>>
      PROVE  TypeInv'
  <2>1. InFlight(c) /\ Key(c) \in Keys /\ row[Key(c)] \in Rows /\ request[c].op \in {"revoke", "update"}
    BY <1>0, <1>5, <1>a DEF Steps, CreateSteps, CallOK, RevokeSteps, UpdateSteps
  <2>2. row' \in [Keys -> Rows \cup {NULL}] /\ new # NULL /\ row[Key(c)] # NULL
    BY <1>5, <2>1, Assumptions
  <2>3. found'[c] \in [version : Versions] /\ found' \in [Calls -> Verdicts \cup [version : Versions] \cup {NULL}]
        /\ \A d \in Calls : d # c => found'[d] = found[d]
    BY <1>5, <2>1 DEF Written, Rows
  <2>4. pc'[c] = "invalidate"
    BY <1>5 DEF Goto
  <2>5. CallOK(c)'
    BY <1>5, <2>1, <2>2, <2>3, <2>4 DEF CallOK, ValidateSteps, RevokeSteps, UpdateSteps, CreateSteps, Key
  <2>6. CacheOK'
    BY <1>5 DEF cacheVars, CacheOK, Held
  <2> QED
    BY <1>5, <2>1, <2>2, <2>3, <2>5, <2>6, StepTypes DEF cacheVars, Steps, CreateSteps
<1>6. ASSUME NEW c \in Calls, RevokeRow(c) PROVE TypeInv'
  <2>1. PICK new \in Rows : new.version = row[Key(c)].version + 1 /\ row' = [row EXCEPT ![Key(c)] = new]
    BY <1>6, RevokedRow
  <2> QED
    BY <1>5, <1>6, <2>1 DEF RevokeRow
<1>7. ASSUME NEW c \in Calls, UpdateRow(c) PROVE TypeInv'
  <2>1. PICK new \in Rows : new.version = row[Key(c)].version + 1 /\ row' = [row EXCEPT ![Key(c)] = new]
    BY <1>7, UpdatedRow
  <2> QED
    BY <1>5, <1>7, <2>1 DEF UpdateRow
<1>8. ASSUME NEW c \in Calls, Invalidate(c) PROVE TypeInv'
  <2>1. /\ pc[c] = "invalidate" /\ InFlight(c) /\ Key(c) \in Keys /\ found[c] \in [version : Versions]
        /\ request[c].op # "validate"
        /\ UNCHANGED <<row, request, found, now>>
    BY <1>0, <1>8, <1>a DEF Invalidate, Steps, CallOK
  <2>2. CacheOK' /\ \A j \in Keys : Keeps(j)
    BY <1>8, <2>1, DropKeeps DEF Invalidate, Invalidated
  <2>3. pc'[c] = "done"
    BY <1>8 DEF Invalidate, Return
  <2>4. CallOK(c)'
    BY <2>1, <2>3 DEF CallOK, ValidateSteps, RevokeSteps, UpdateSteps, CreateSteps, Steps, IsValidation
  <2> QED
    BY <1>8, <2>1, <2>2, <2>4, StepTypes DEF Invalidate, Keeps
<1>9. ASSUME NEW c \in Calls, CreateRow(c) PROVE TypeInv'
  <2>1. /\ pc[c] = "createRow" /\ InFlight(c) /\ Key(c) \in Keys /\ request[c].op = "create"
        /\ UNCHANGED <<cacheVars, request>>
    BY <1>0, <1>9, <1>a DEF CreateRow, Steps, CallOK, CreateSteps
  <2>2. PICK new \in Rows : row' = [row EXCEPT ![Key(c)] = new]
    BY <1>9, CreatedRow
  <2>3. new # NULL
    BY Assumptions
  <2>4. row' \in [Keys -> Rows \cup {NULL}] /\ (\A k \in Keys : row[k] # NULL => row'[k] # NULL)
        /\ (\A k \in Keys : k # Key(c) => row'[k] = row[k])
    BY <2>1, <2>2, <2>3, Assumptions
  <2>5. [version |-> 1] \in [version : Versions] /\ found' = [found EXCEPT ![c] = [version |-> 1]]
        /\ Return(c, [version |-> 1])
    BY <1>9, Assumptions DEF CreateRow, Versions
  <2>6. pc'[c] = "done"
    BY <2>5 DEF Return
  <2>7. CallOK(c)'
    BY <2>1, <2>6 DEF CallOK, ValidateSteps, RevokeSteps, UpdateSteps, CreateSteps, Steps, IsValidation
  <2>8. CacheOK'
    BY <2>1 DEF cacheVars, CacheOK, Held
  <2> QED
    <3>1. UNCHANGED <<faults, request, before, began, now, cache>>
      BY <1>9 DEF CreateRow, cacheVars
    <3>2. found' \in [Calls -> Verdicts \cup [version : Versions] \cup {NULL}]
          /\ \A d \in Calls : d # c => found'[d] = found[d]
      BY <2>5
    <3>3. \A k \in Keys : row[k] = NULL /\ row'[k] # NULL => pc[c] \in CreateSteps /\ k = Key(c)
      BY <2>1, <2>4 DEF CreateSteps
    <3>4. \A k \in Keys : cache'[k] # NULL => cache'[k].value \in Verdicts /\ row'[k] # NULL
      BY <2>4, <3>1
    <3> QED
      BY <2>1, <2>4, <2>5, <2>7, <2>8, <3>1, <3>2, <3>3, <3>4, StepTypes
<1>10. ASSUME NEW c \in Calls, DatabaseError(c) PROVE TypeInv'
  <2>1. InFlight(c) /\ faults' \in 0..MaxFaults /\ Return(c, Failure)
        /\ UNCHANGED <<cacheVars, row, request, before, began, found>>
    BY <1>10, Assumptions DEF DatabaseError
  <2>2. pc'[c] = "done" /\ reply'[c] = Failure /\ pc[c] # "idle"
    BY <2>1 DEF Return, InFlight, Steps
  <2>3. CallOK(c)'
    BY <2>1, <2>2 DEF CallOK, ValidateSteps, RevokeSteps, UpdateSteps, CreateSteps, Steps
  <2> QED
    BY <2>1, <2>2, <2>3, ReadingTypes DEF CreateSteps
<1>11. CASE Housekeeping
  <2>1. CacheOK' /\ (\A j \in Keys : Keeps(j)) /\ UNCHANGED <<now, row, faults, pc, request, before, began, found, reply, ended>>
    BY <1>11, DropKeeps DEF Housekeeping
  <2> QED
    BY <1>0, <2>1 DEF Keeps, CallOK, IsValidation, Key
<1>12. CASE Tick
  <2>1. CacheOK' /\ UNCHANGED <<cache, row, faults, pc, request, before, began, found, reply, ended>>
    BY <1>12, Assumptions DEF Tick, Advance, CacheOK, Held
  <2> QED
    BY <1>0, <2>1 DEF CallOK, IsValidation, Key
<1>13. CASE UNCHANGED vars
  BY <1>0, <1>13 DEF vars, cacheVars, CacheOK, Held, CallOK, IsValidation, Key
<1> QED
  BY <1>1, <1>2, <1>3, <1>4, <1>6, <1>7, <1>8, <1>9, <1>10, <1>11, <1>12, <1>13 DEF Next, Progress, AllReturned

\* Every reachable state of every instance is well typed.
THEOREM TypeCorrect == Spec => []TypeOK
<1>1. Init => TypeInv
  BY InitTypeInv
<1>2. TypeInv /\ [Next]_vars => TypeInv'
  BY NextTypeInv
<1>3. TypeInv => TypeOK
  BY DEF TypeInv
<1> QED
  BY <1>1, <1>2, <1>3, PTL DEF Spec

-----------------------------------------------------------------------------
(* How stale a verdict can be.                                             *)

\* The calls that were done when this one began are done.
History(c) == \A d \in before[c] : pc[d] = "done"

\* A row is at least as new as what any mutation wrote to it.
WrittenSeen(m) ==
    pc[m] # "idle" /\ ~IsValidation(m) /\ found[m] # NULL =>
        row[Key(m)] # NULL /\ found[m].version <= row[Key(m)].version

\* A validation that has read has seen the mutations done before it began.
ReadNew(c) ==
    pc[c] = "fill" => \A m \in before[c] : Wrote(m, Key(c)) => found[m].version <= found[c].version

\* The mutation m need not be seen in what d answered.
Excused(d, m) == Overlap(d, m) \/ reply[m] = Failure

\* Call d answered v and stored it for key k until then.
Source(d, k, v, until) ==
    /\ Answered(d) /\ IsValidation(d) /\ Key(d) = k
    /\ reply[d] = v /\ until <= ended[d] + TTL
    /\ \A m \in Calls : Wrote(m, k) /\ v.version < found[m].version => Excused(d, m)

EntryOK(k) == cache[k] # NULL => \E d \in Calls : Source(d, k, cache[k].value, cache[k].expiresAt)

AnswerFresh(c) ==
    Answered(c) /\ IsValidation(c) =>
        \A m \in before[c] : Wrote(m, Key(c)) /\ reply[c].version < found[m].version =>
            \E d \in Calls \ {c} :
                /\ Answered(d) /\ IsValidation(d) /\ Key(d) = Key(c)
                /\ Excused(d, m)
                /\ reply[d] = reply[c]
                /\ began[c] <= ended[d] + TTL

FreshInv ==
    /\ \A c \in Calls : History(c) /\ WrittenSeen(c) /\ ReadNew(c) /\ AnswerFresh(c)
    /\ \A k \in Keys : EntryOK(k)

\* Before any call nothing was answered or stored.
LEMMA InitFreshInv == Init => FreshInv
BY DEF Init, CacheInit, FreshInv, History, WrittenSeen, ReadNew, AnswerFresh, EntryOK, Answered, Returned, Keys

\* A call that is not done is in no other's past.
LEMMA NotBefore ==
    ASSUME \A d \in Calls : History(d), NEW c \in Calls, pc[c] # "done", NEW d \in Calls
    PROVE  c \notin before[d]
BY DEF History

\* A step of call c, which is not done; rows only get newer.
Frame(c) ==
    /\ pc[c] # "done" /\ pc'[c] # "idle"
    /\ \A d \in Calls : d # c => /\ pc'[d] = pc[d] /\ request'[d] = request[d]
                                 /\ found'[d] = found[d] /\ reply'[d] = reply[d]
                                 /\ before'[d] = before[d] /\ began'[d] = began[d] /\ ended'[d] = ended[d]
    /\ \A k \in Keys : row[k] # NULL => row'[k] # NULL /\ row[k].version <= row'[k].version

\* What the invariant says of the other calls survives.
LEMMA OthersFresh ==
    ASSUME TypeInv, TypeInv', FreshInv, NEW c \in Calls, Frame(c), NEW d \in Calls, d # c
    PROVE  History(d)' /\ WrittenSeen(d)' /\ ReadNew(d)' /\ AnswerFresh(d)'
<1>1. c \notin before[d] /\ before[d] \subseteq Calls /\ before'[d] = before[d]
  BY NotBefore DEF FreshInv, Frame, TypeInv, TypeOK
<1>2. History(d)'
  BY <1>1 DEF FreshInv, Frame, History
<1>3. WrittenSeen(d)'
  <2> SUFFICES ASSUME pc[d] # "idle", ~IsValidation(d), found[d] # NULL
               PROVE  row'[Key(d)] # NULL /\ found[d].version <= row'[Key(d)].version
    BY DEF Frame, WrittenSeen, IsValidation, Key
  <2>1. Key(d) \in Keys /\ row[Key(d)] # NULL /\ found[d].version <= row[Key(d)].version
    BY Begun DEF FreshInv, WrittenSeen, TypeInv
  <2>2. row'[Key(d)] # NULL /\ row[Key(d)].version <= row'[Key(d)].version
    BY <2>1 DEF Frame
  <2>3. found[d].version \in Int /\ row[Key(d)].version \in Int /\ row'[Key(d)].version \in Int
    <3>1. found[d] \in Verdicts \cup [version : Versions] /\ row[Key(d)] \in Rows
      BY <2>1 DEF TypeInv, TypeOK
    <3>2. row'[Key(d)] \in Rows
      BY <2>1, <2>2 DEF TypeInv, TypeOK
    <3> QED
      BY <3>1, <3>2 DEF Verdicts, Rows, Versions
  <2> QED
    BY <2>1, <2>2, <2>3
<1>4. ReadNew(d)'
  BY <1>1 DEF FreshInv, Frame, ReadNew, Wrote, IsValidation, Returned, Key
<1>5. AnswerFresh(d)'
  <2> SUFFICES ASSUME Answered(d), IsValidation(d), NEW m \in before[d], Wrote(m, Key(d)),
                      reply[d].version < found[m].version
               PROVE  \E e \in Calls \ {d} :
                         /\ Answered(e)' /\ IsValidation(e)' /\ Key(e)' = Key(d)
                         /\ Excused(e, m)'
                         /\ reply'[e] = reply[d]
                         /\ began[d] <= ended'[e] + TTL
    BY <1>1 DEF Frame, AnswerFresh, Answered, Returned, IsValidation, Wrote, Key
  <2>1. PICK e \in Calls \ {d} :
           /\ Answered(e) /\ IsValidation(e) /\ Key(e) = Key(d)
           /\ Excused(e, m)
           /\ reply[e] = reply[d]
           /\ began[d] <= ended[e] + TTL
    BY DEF FreshInv, AnswerFresh
  <2>2. e # c /\ m # c
    BY <1>1, <2>1 DEF Frame, Answered, Returned
  <2> QED
    BY <1>1, <2>1, <2>2 DEF Frame, Answered, Returned, IsValidation, Key, Excused, Overlap
<1> QED
  BY <1>2, <1>3, <1>4, <1>5

\* An entry that stays has its source, whatever c does: c drops the entry,
\* fails, or has written nothing newer.
LEMMA EntryStays ==
    ASSUME TypeInv, TypeInv', FreshInv, NEW c \in Calls, Frame(c), NEW k \in Keys, Keeps(k),
           cache'[k] # NULL /\ Wrote(c, k)' => reply'[c] = Failure \/ found'[c].version = 1
    PROVE  EntryOK(k)'
<1> SUFFICES ASSUME cache'[k] # NULL
             PROVE  \E d \in Calls : Source(d, k, cache[k].value, cache[k].expiresAt)'
  BY DEF EntryOK, Keeps, Source
<1>1. PICK d \in Calls : Source(d, k, cache[k].value, cache[k].expiresAt)
  BY DEF FreshInv, EntryOK, Keeps
<1>2. d # c
  BY <1>1 DEF Source, Answered, Returned, Frame
<1>3. /\ Answered(d)' /\ IsValidation(d)' /\ Key(d)' = k
      /\ reply'[d] = cache[k].value /\ cache[k].expiresAt <= ended'[d] + TTL
  BY <1>1, <1>2 DEF Source, Frame, Answered, Returned, IsValidation, Key
<1>4. ASSUME NEW m \in Calls, Wrote(m, k)', cache[k].value.version < found'[m].version
      PROVE  Excused(d, m)'
  <2>1. CASE m # c
    <3>1. Wrote(m, k) /\ cache[k].value.version < found[m].version
      BY <1>4, <2>1 DEF Frame, Wrote, IsValidation, Returned, Key
    <3> QED
      BY <1>1, <1>2, <2>1, <3>1 DEF Source, Frame, Excused, Overlap
  <2>2. CASE m = c
    <3>1. cache[k].value.version \in Int /\ cache[k].value.version >= 1
      BY DEF TypeInv, Keeps, Verdicts, Versions
    <3> QED
      BY <1>4, <2>2, <3>1 DEF Excused
  <2> QED
    BY <2>1, <2>2
<1>5. cache'[k].value = cache[k].value /\ cache'[k].expiresAt = cache[k].expiresAt
  BY DEF Keeps
<1> QED
  BY <1>3, <1>4, <1>5 DEF Source

\* The invariant after a step of c that stores nothing new in the cache.
LEMMA StepFresh ==
    ASSUME TypeInv, TypeInv', FreshInv, NEW c \in Calls, Frame(c), \A k \in Keys : Keeps(k),
           \A k \in Keys : cache'[k] # NULL /\ Wrote(c, k)' => reply'[c] = Failure \/ found'[c].version = 1,
           History(c)', WrittenSeen(c)', ReadNew(c)', AnswerFresh(c)'
    PROVE  FreshInv'
BY OthersFresh, EntryStays DEF FreshInv

\* The past of a call under way.
LEMMA HistoryStays ==
    ASSUME TypeInv, FreshInv, NEW c \in Calls, Frame(c), before'[c] = before[c]
    PROVE  History(c)'
<1>1. c \notin before[c] /\ before[c] \subseteq Calls
  BY NotBefore DEF FreshInv, Frame, TypeInv, TypeOK
<1> QED
  BY <1>1 DEF FreshInv, Frame, History

\* A step of a call under way is a frame.
LEMMA UnderWay ==
    ASSUME TypeInv, NEW c \in Calls, InFlight(c), UNCHANGED <<request, before, began>>,
           (\E step \in Steps : Goto(c, step)) \/ (\E r : Return(c, r)),
           \A d \in Calls : d # c => found'[d] = found[d],
           \A k \in Keys : row[k] # NULL => row'[k] # NULL /\ row[k].version <= row'[k].version
    PROVE  Frame(c) /\ pc'[c] \in Steps \cup {"done"}
BY DEF InFlight, Frame, Goto, Return, Steps, TypeInv, TypeOK

\* A row that is not written is as new as it was.
LEMMA SameRows ==
    ASSUME TypeInv, UNCHANGED row
    PROVE  \A k \in Keys : row[k] # NULL => row'[k] # NULL /\ row[k].version <= row'[k].version
<1> SUFFICES ASSUME NEW k \in Keys, row[k] # NULL PROVE row[k].version <= row[k].version
  OBVIOUS
<1>1. row[k].version \in Int
  BY DEF TypeInv, TypeOK, Rows, Versions
<1> QED
  BY <1>1

\* A mutation that only reads.
LEMMA ReadingFresh ==
    ASSUME TypeInv, TypeInv', FreshInv, NEW c \in Calls, InFlight(c), ~IsValidation(c),
           UNCHANGED <<cacheVars, row, request, before, began, found>>,
           (\E step \in Steps : Goto(c, step)) \/ (\E r : Return(c, r)),
           pc'[c] = "done" => found[c] = NULL \/ reply'[c] = Failure
    PROVE  FreshInv'
<1>1. Frame(c) /\ pc'[c] \in Steps \cup {"done"}
  BY SameRows, UnderWay
<1>2. pc'[c] # "fill"
  BY DEF TypeInv, CallOK, ValidateSteps, IsValidation
<1>3. ReadNew(c)' /\ AnswerFresh(c)'
  BY <1>2 DEF ReadNew, AnswerFresh, IsValidation
<1>4. WrittenSeen(c)'
  BY DEF FreshInv, WrittenSeen, InFlight, Steps, IsValidation, Key
<1>5. \A k \in Keys : Keeps(k)
  BY DEF Keeps, cacheVars
<1>6. \A k \in Keys : Wrote(c, k)' => reply'[c] = Failure
  BY DEF Wrote, Returned
<1> QED
  BY <1>1, <1>3, <1>4, <1>5, <1>6, HistoryStays, StepFresh

\* A hit is the answer of the validation that filled the entry.
LEMMA BeginValidateFresh ==
    ASSUME TypeInv, TypeInv', FreshInv, NEW c \in Calls, NEW r \in Requests, BeginValidate(c, r)
    PROVE  FreshInv'
<1> USE DEF TypeInv, TypeOK
<1>1. /\ pc[c] = "idle" /\ r.op = "validate" /\ r.key \in Keys
      /\ request' = [request EXCEPT ![c] = r] /\ UNCHANGED <<now, row, found>>
      /\ before' = [before EXCEPT ![c] = {d \in Calls : Returned(d)}]
      /\ began' = [began EXCEPT ![c] = now]
      /\ Goto(c, "findKey") \/ Return(c, Cached(r.key))
      /\ Goto(c, "findKey") \/ (Return(c, Cached(r.key)) /\ Cached(r.key) # NULL)
  BY RequestFields DEF BeginValidate, Record, At
<1>2. Key(c)' = r.key /\ IsValidation(c)' /\ before'[c] = {d \in Calls : Returned(d)} /\ began'[c] = now
  BY <1>1 DEF Key, IsValidation
<1>3. Frame(c) /\ pc'[c] \in {"findKey", "done"}
  BY <1>1, SameRows DEF Frame, Goto, Return
<1>4. \A k \in Keys : Keeps(k)
  BY <1>1, GetKeeps DEF BeginValidate
<1>5. \A k \in Keys : ~Wrote(c, k)'
  BY <1>2 DEF Wrote
<1>6. History(c)'
  BY <1>2, <1>3 DEF History, Frame, Returned
<1>7. WrittenSeen(c)' /\ ReadNew(c)'
  BY <1>2, <1>3 DEF WrittenSeen, ReadNew
<1>8. AnswerFresh(c)'
  <2>1. CASE Goto(c, "findKey")
    BY <2>1 DEF Goto, AnswerFresh, Answered, Returned
  <2>2. CASE Return(c, Cached(r.key)) /\ Cached(r.key) # NULL
    <3>1. cache[r.key] # NULL /\ now <= cache[r.key].expiresAt /\ reply'[c] = cache[r.key].value
      BY <2>2 DEF Cached, Fresh, Return
    <3>2. PICK d \in Calls : Source(d, r.key, cache[r.key].value, cache[r.key].expiresAt)
      BY <1>1, <3>1 DEF FreshInv, EntryOK
    <3>3. d # c
      BY <1>1, <3>2 DEF Source, Answered, Returned
    <3>4. /\ Answered(d)' /\ IsValidation(d)' /\ Key(d)' = r.key
          /\ reply'[d] = reply'[c] /\ ended'[d] = ended[d]
      BY <1>3, <3>1, <3>2, <3>3 DEF Source, Frame, Answered, Returned, IsValidation, Key
    <3>5. now <= ended[d] + TTL
      <4>1. now \in Int /\ cache[r.key].expiresAt \in Int /\ ended[d] + TTL \in Int
        BY <1>1, <3>1, Assumptions DEF CacheOK, Keys
      <4> QED
        BY <3>1, <3>2, <4>1 DEF Source
    <3>6. ASSUME NEW m \in before'[c], Wrote(m, r.key)', reply'[c].version < found'[m].version
          PROVE  Excused(d, m)'
      <4>1. m \in Calls /\ m # c
        BY <1>1, <1>2 DEF Returned
      <4>2. Wrote(m, r.key) /\ cache[r.key].value.version < found[m].version
        BY <1>3, <3>1, <3>6, <4>1 DEF Frame, Wrote, IsValidation, Returned, Key
      <4> QED
        BY <1>3, <3>2, <3>3, <4>1, <4>2 DEF Source, Frame, Excused, Overlap
    <3> QED
      BY <1>2, <3>3, <3>4, <3>5, <3>6 DEF AnswerFresh
  <2> QED
    BY <1>1, <2>1, <2>2
<1> QED
  BY <1>3, <1>4, <1>5, <1>6, <1>7, <1>8, StepFresh

\* What a validation stores has seen all that was done before it began.
LEMMA FillFresh ==
    ASSUME TypeInv, TypeInv', FreshInv, NEW c \in Calls, Fill(c)
    PROVE  FreshInv'
<1> USE DEF TypeInv, TypeOK
<1>1. /\ pc[c] = "fill" /\ InFlight(c) /\ IsValidation(c) /\ found[c] \in Verdicts /\ Key(c) \in Keys
      /\ Set(Key(c), found[c], TTL) /\ Return(c, found[c])
      /\ UNCHANGED <<now, row, request, before, began, found>>
  BY Begun DEF Fill, At, InFlight, Steps, CallOK, ValidateSteps, locals
<1>2. pc'[c] = "done" /\ reply'[c] = found[c] /\ ended'[c] = now
  BY <1>1 DEF Return
<1>3. Frame(c)
  BY <1>1, SameRows, UnderWay
<1>4. /\ cache'[Key(c)].value = found[c] /\ cache'[Key(c)].expiresAt = now + TTL
      /\ \A j \in Keys \ {Key(c)} : Keeps(j)
  BY <1>1, SetKeeps
<1>5. Answered(c)' /\ IsValidation(c)' /\ Key(c)' = Key(c)
  BY <1>1, <1>2, VerdictIsAnswer DEF Answered, Returned, IsValidation, Key
<1>6. ASSUME NEW m \in before[c], Wrote(m, Key(c))' PROVE ~(found[c].version < found[m].version)
  <2>1. m \in Calls /\ m # c
    BY <1>1, NotBefore DEF FreshInv
  <2>2. Wrote(m, Key(c))
    BY <1>1, <1>3, <1>6, <2>1 DEF Frame, Wrote, IsValidation, Returned, Key
  <2>3. found[m].version <= found[c].version
    BY <1>1, <2>1, <2>2 DEF FreshInv, ReadNew
  <2>4. found[m].version \in Int /\ found[c].version \in Int
    <3>1. found[m] \in Verdicts \cup [version : Versions] /\ found[c] \in Verdicts
      BY <1>1, <2>1, <2>2 DEF Wrote
    <3> QED
      BY <3>1 DEF Verdicts, Versions
  <2> QED
    BY <2>3, <2>4
<1>7. AnswerFresh(c)'
  BY <1>1, <1>2, <1>5, <1>6 DEF AnswerFresh
<1>8. Source(c, Key(c), found[c], now + TTL)'
  <2>1. ASSUME NEW m \in Calls, Wrote(m, Key(c))', found[c].version < found[m].version
        PROVE  Excused(c, m)'
    <3>1. m \notin before[c]
      BY <1>6, <2>1
    <3>2. c \notin before[m]
      BY <1>1, NotBefore DEF FreshInv
    <3> QED
      BY <1>1, <3>1, <3>2 DEF Excused, Overlap
  <2>2. now + TTL <= now + TTL
    BY Assumptions DEF CacheOK
  <2> QED
    BY <1>1, <1>2, <1>5, <2>1, <2>2 DEF Source
<1>9. ASSUME NEW k \in Keys, k = Key(c) PROVE EntryOK(k)'
  <2>1. k = Key(c)' /\ found'[c] = found[c] /\ cache'[k].value = found[c] /\ cache'[k].expiresAt = now + TTL
        /\ now' = now
    BY <1>1, <1>4, <1>5, <1>9
  <2>2. Source(c, k, cache[k].value, cache[k].expiresAt)'
    BY <1>8, <2>1 DEF Source
  <2> QED
    BY <2>2 DEF EntryOK
<1>10. ASSUME NEW k \in Keys, k # Key(c) PROVE EntryOK(k)'
  <2>1. ~Wrote(c, k)'
    BY <1>5 DEF Wrote
  <2> QED
    BY <1>3, <1>4, <1>10, <2>1, EntryStays
<1>11. History(c)' /\ WrittenSeen(c)' /\ ReadNew(c)'
  BY <1>1, <1>2, <1>3, <1>5, HistoryStays DEF WrittenSeen, ReadNew
<1> QED
  <2>1. \A d \in Calls : History(d)' /\ WrittenSeen(d)' /\ ReadNew(d)' /\ AnswerFresh(d)'
    BY <1>3, <1>7, <1>11, OthersFresh
  <2>2. \A k \in Keys : EntryOK(k)'
    BY <1>9, <1>10
  <2> QED
    BY <2>1, <2>2 DEF FreshInv

\* A mutation that begins has written nothing.
LEMMA BeginMutationFresh ==
    ASSUME TypeInv, TypeInv', FreshInv, NEW c \in Calls, NEW r \in Requests, BeginMutation(c, r)
    PROVE  FreshInv'
<1> USE DEF TypeInv, TypeOK
<1>1. /\ pc[c] = "idle" /\ r.op # "validate" /\ request' = [request EXCEPT ![c] = r]
      /\ UNCHANGED <<now, cache, row, found, reply, ended>> /\ found[c] = NULL
      /\ before' = [before EXCEPT ![c] = {d \in Calls : Returned(d)}]
      /\ began' = [began EXCEPT ![c] = now]
  BY DEF BeginMutation, Record, At, CallOK, Goto, cacheVars
<1>2. pc'[c] \in {"findActive", "findExisting", "findDuplicate"} /\ \A d \in Calls : d # c => pc'[d] = pc[d]
  BY RequestFields DEF BeginMutation, Goto
<1>3. Frame(c)
  BY <1>1, <1>2, SameRows DEF Frame
<1>4. History(c)'
  BY <1>1, <1>2 DEF History, Returned
<1>5. WrittenSeen(c)' /\ ReadNew(c)' /\ AnswerFresh(c)' /\ \A k \in Keys : ~Wrote(c, k)'
  BY <1>1, <1>2 DEF WrittenSeen, ReadNew, AnswerFresh, Answered, Returned, Wrote
<1>6. \A k \in Keys : Keeps(k)
  BY <1>1 DEF Keeps
<1> QED
  BY <1>3, <1>4, <1>5, <1>6, StepFresh

\* What a validation reads is as new as every write to the row.
LEMMA FindKeyFresh ==
    ASSUME TypeInv, TypeInv', FreshInv, NEW c \in Calls, FindKey(c)
    PROVE  FreshInv'
<1> USE DEF TypeInv, TypeOK
<1>1. /\ pc[c] = "findKey" /\ InFlight(c) /\ IsValidation(c) /\ Goto(c, "fill")
      /\ found' = [found EXCEPT ![c] = Verdict(Key(c))]
      /\ UNCHANGED <<now, cache, row, request, before, began>>
  BY DEF FindKey, At, InFlight, Steps, CallOK, ValidateSteps, locals, cacheVars
<1>2. pc'[c] = "fill" /\ IsValidation(c)' /\ Key(c)' = Key(c)
  BY <1>1 DEF Goto, IsValidation, Key
<1>3. Frame(c)
  BY <1>1, SameRows, UnderWay DEF Steps
<1>4. ReadNew(c)'
  <2> SUFFICES ASSUME NEW m \in before[c], Wrote(m, Key(c))' PROVE found'[m].version <= found'[c].version
    BY <1>1, <1>2 DEF ReadNew
  <2>1. m \in Calls /\ m # c
    BY <1>1, NotBefore DEF FreshInv
  <2>2. Wrote(m, Key(c)) /\ pc[m] = "done" /\ found'[m] = found[m]
    BY <1>1, <1>2, <1>3, <2>1 DEF Frame, Wrote, IsValidation, Returned, Key
  <2>3. found[m].version <= row[Key(c)].version
    BY <2>1, <2>2 DEF FreshInv, WrittenSeen, Wrote
  <2> QED
    BY <1>1, <2>2, <2>3 DEF Verdict
<1>5. WrittenSeen(c)' /\ AnswerFresh(c)' /\ \A k \in Keys : ~Wrote(c, k)'
  BY <1>2 DEF WrittenSeen, AnswerFresh, Answered, Returned, Wrote
<1>6. \A k \in Keys : Keeps(k)
  BY <1>1 DEF Keeps
<1> QED
  BY <1>1, <1>3, <1>4, <1>5, <1>6, HistoryStays, StepFresh

\* A revocation and an update make the row newer than all that was written.
LEMMA WriteFresh ==
    ASSUME TypeInv, TypeInv', FreshInv, NEW c \in Calls, RevokeRow(c) \/ UpdateRow(c)
    PROVE  FreshInv'
<1> USE DEF TypeInv, TypeOK
<1>1. /\ pc[c] \in {"revokeRow", "updateRow"} /\ InFlight(c) /\ ~IsValidation(c) /\ Goto(c, "invalidate")
      /\ found' = [found EXCEPT ![c] = [version |-> row[Key(c)].version + 1]]
      /\ UNCHANGED <<now, cache, request, before, began>>
      /\ Key(c) \in Keys /\ row[Key(c)] \in Rows
  BY Begun DEF RevokeRow, UpdateRow, At, InFlight, Steps, CallOK, CreateSteps, RevokeSteps, UpdateSteps, locals,
     cacheVars, Written, IsValidation
<1>2. row[Key(c)].version \in Nat
  BY <1>1 DEF Rows, Versions
<1>3. row'[Key(c)] # NULL /\ row'[Key(c)].version = row[Key(c)].version + 1
      /\ \A k \in Keys : k # Key(c) => row'[k] = row[k]
  <2>1. PICK new \in Rows : new.version = row[Key(c)].version + 1 /\ row' = [row EXCEPT ![Key(c)] = new]
    BY RevokedRow, UpdatedRow
  <2> QED
    BY <1>1, <2>1, Assumptions
<1>4. \A k \in Keys : row[k] # NULL => row'[k] # NULL /\ row[k].version <= row'[k].version
  <2> SUFFICES ASSUME NEW k \in Keys, row[k] # NULL PROVE row'[k] # NULL /\ row[k].version <= row'[k].version
    OBVIOUS
  <2>1. CASE k = Key(c)
    BY <1>2, <1>3, <2>1
  <2>2. row[k].version \in Int
    BY DEF Rows, Versions
  <2> QED
    BY <1>3, <2>1, <2>2
<1>5. Frame(c) /\ pc'[c] = "invalidate"
  BY <1>1, <1>4, UnderWay DEF Steps, Goto
<1>6. WrittenSeen(c)'
  <2>1. Key(c)' = Key(c) /\ found'[c].version = row'[Key(c)].version /\ row'[Key(c)].version \in Int
    BY <1>1, <1>2, <1>3 DEF Key
  <2> QED
    BY <1>3, <2>1 DEF WrittenSeen
<1>7. ReadNew(c)' /\ AnswerFresh(c)' /\ \A k \in Keys : ~Wrote(c, k)'
  BY <1>5 DEF ReadNew, AnswerFresh, Answered, Returned, Wrote
<1>8. \A k \in Keys : Keeps(k)
  BY <1>1 DEF Keeps
<1> QED
  BY <1>1, <1>5, <1>6, <1>7, <1>8, HistoryStays, StepFresh

\* A mutation that returns its version has left no entry of its key.
LEMMA InvalidateFresh ==
    ASSUME TypeInv, TypeInv', FreshInv, NEW c \in Calls, Invalidate(c)
    PROVE  FreshInv'
<1> USE DEF TypeInv, TypeOK
<1>1. /\ pc[c] = "invalidate" /\ InFlight(c) /\ ~IsValidation(c) /\ Key(c) \in Keys
      /\ Return(c, found[c]) /\ cache' = [cache EXCEPT ![Key(c)] = NULL]
      /\ UNCHANGED <<now, row, request, before, began, found>>
  BY Begun DEF Invalidate, Invalidated, Delete, At, InFlight, Steps, CallOK, IsValidation, locals
<1>2. Frame(c) /\ pc'[c] = "done" /\ ~IsValidation(c)' /\ Key(c)' = Key(c)
  BY <1>1, SameRows, UnderWay DEF Return, IsValidation, Key
<1>3. \A k \in Keys : Keeps(k)
  BY <1>1, DropKeeps DEF Delete
<1>4. \A k \in Keys : ~(cache'[k] # NULL /\ Wrote(c, k)')
  BY <1>1, <1>2 DEF Wrote, CacheOK, Keys
<1>5. WrittenSeen(c)' /\ ReadNew(c)' /\ AnswerFresh(c)'
  BY <1>1, <1>2 DEF FreshInv, WrittenSeen, ReadNew, AnswerFresh, IsValidation, Key
<1> QED
  BY <1>1, <1>2, <1>3, <1>4, <1>5, HistoryStays, StepFresh

\* A new row is of the first version, which no verdict precedes.
LEMMA CreateRowFresh ==
    ASSUME TypeInv, TypeInv', FreshInv, NEW c \in Calls, CreateRow(c)
    PROVE  FreshInv'
<1> USE DEF TypeInv, TypeOK
<1>1. /\ pc[c] = "createRow" /\ InFlight(c) /\ ~IsValidation(c) /\ Key(c) \in Keys /\ row[Key(c)] = NULL
      /\ found' = [found EXCEPT ![c] = [version |-> 1]] /\ Return(c, [version |-> 1])
      /\ UNCHANGED <<now, cache, request, before, began>>
  BY Begun DEF CreateRow, At, InFlight, Steps, CallOK, CreateSteps, IsValidation, locals, cacheVars
<1>2. PICK new \in Rows : new.version = 1 /\ row' = [row EXCEPT ![Key(c)] = new]
  BY CreatedRow
<1>3. row'[Key(c)] # NULL /\ row'[Key(c)].version = 1
  BY <1>1, <1>2, Assumptions
<1>4. \A k \in Keys : row[k] # NULL => row'[k] # NULL /\ row[k].version <= row'[k].version
  <2> SUFFICES ASSUME NEW k \in Keys, row[k] # NULL PROVE row'[k] = row[k] /\ row[k].version <= row[k].version
    OBVIOUS
  <2>1. row[k].version \in Int
    BY DEF Rows, Versions
  <2> QED
    BY <1>1, <1>2, <2>1
<1>5. Frame(c) /\ pc'[c] = "done" /\ found'[c].version = 1 /\ Key(c)' = Key(c) /\ ~IsValidation(c)'
  BY <1>1, <1>4, UnderWay DEF Return, Key, IsValidation
<1>6. WrittenSeen(c)' /\ ReadNew(c)' /\ AnswerFresh(c)'
  BY <1>3, <1>5 DEF WrittenSeen, ReadNew, AnswerFresh
<1>7. \A k \in Keys : Keeps(k)
  BY <1>1 DEF Keeps
<1> QED
  BY <1>1, <1>5, <1>6, <1>7, HistoryStays, StepFresh

\* A call that fails stores nothing.
LEMMA ErrorFresh ==
    ASSUME TypeInv, TypeInv', FreshInv, NEW c \in Calls, DatabaseError(c)
    PROVE  FreshInv'
<1> USE DEF TypeInv, TypeOK
<1>1. /\ InFlight(c) /\ Return(c, Failure)
      /\ UNCHANGED <<now, cache, row, request, before, began, found>>
  BY DEF DatabaseError, locals, cacheVars
<1>2. Frame(c) /\ pc'[c] = "done" /\ reply'[c] = Failure
  BY <1>1, SameRows, UnderWay DEF Return
<1>3. ReadNew(c)' /\ AnswerFresh(c)'
  BY <1>2 DEF ReadNew, AnswerFresh, Answered
<1>4. WrittenSeen(c)'
  BY <1>1 DEF FreshInv, WrittenSeen, InFlight, Steps, IsValidation, Key
<1>5. \A k \in Keys : Keeps(k)
  BY <1>1 DEF Keeps
<1> QED
  BY <1>1, <1>2, <1>3, <1>4, <1>5, HistoryStays, StepFresh

\* The clock and the cache's own interval leave the calls alone.
LEMMA RestFresh ==
    ASSUME TypeInv, FreshInv, \A k \in Keys : Keeps(k),
           UNCHANGED <<row, pc, request, before, began, found, reply, ended>>
    PROVE  FreshInv'
<1>1. \A c \in Calls : History(c)' /\ WrittenSeen(c)' /\ ReadNew(c)' /\ AnswerFresh(c)'
  BY DEF FreshInv, History, WrittenSeen, ReadNew, AnswerFresh, IsValidation, Key, Wrote, Answered, Returned,
     Excused, Overlap
<1>2. ASSUME NEW k \in Keys PROVE EntryOK(k)'
  BY DEF FreshInv, EntryOK, Keeps, Source, IsValidation, Key, Wrote, Answered, Returned, Excused, Overlap
<1> QED
  BY <1>1, <1>2 DEF FreshInv

\* Every step keeps the invariant.
LEMMA NextFreshInv == TypeInv /\ TypeInv' /\ FreshInv /\ [Next]_vars => FreshInv'
<1> SUFFICES ASSUME TypeInv, TypeInv', FreshInv, [Next]_vars PROVE FreshInv'
  OBVIOUS
<1>1. ASSUME NEW c \in Calls, NEW r \in Requests, BeginValidate(c, r) \/ BeginMutation(c, r) PROVE FreshInv'
  BY <1>1, BeginValidateFresh, BeginMutationFresh
<1>2. ASSUME NEW c \in Calls, FindActive(c) \/ FindExisting(c) \/ FindName(c) \/ FindDuplicate(c) PROVE FreshInv'
  <2>1. /\ pc[c] \in RevokeSteps \cup UpdateSteps \cup CreateSteps /\ InFlight(c)
        /\ UNCHANGED <<cacheVars, row, request, before, began, found>>
    BY <1>2 DEF FindActive, FindExisting, FindName, FindDuplicate, At, RevokeSteps, UpdateSteps, CreateSteps,
       InFlight, Steps, locals
  <2>2. found[c] = NULL /\ ~IsValidation(c)
    BY <2>1 DEF TypeInv, CallOK, RevokeSteps, UpdateSteps, CreateSteps, IsValidation
  <2>3. (\E step \in Steps : Goto(c, step)) \/ Return(c, Refusal)
    BY <1>2 DEF FindActive, FindExisting, FindName, FindDuplicate, Steps
  <2> QED
    BY <2>1, <2>2, <2>3, ReadingFresh
<1>3. ASSUME NEW c \in Calls, Progress(c) \/ DatabaseError(c) PROVE FreshInv'
  BY <1>2, <1>3, FindKeyFresh, FillFresh, WriteFresh, InvalidateFresh, CreateRowFresh, ErrorFresh DEF Progress
<1>4. CASE Housekeeping
  BY <1>4, DropKeeps, RestFresh DEF Housekeeping, locals, TypeInv, TypeOK
<1>5. CASE Tick
  BY <1>5, RestFresh DEF Tick, locals, Keeps
<1>6. CASE UNCHANGED vars
  BY <1>6, RestFresh DEF vars, cacheVars, locals, Keeps
<1> QED
  BY <1>1, <1>3, <1>4, <1>5, <1>6 DEF Next, AllReturned

\* Whatever the calls, a verdict older than a mutation that was done before is
\* one that a validation under way with the mutation stored, or one that a
\* failed mutation left, and it outlives its validation by no more than a TTL.
THEOREM StaleOnlyByOverlap == Spec => []FreshUnlessOverlapped
<1>1. Init => TypeInv /\ FreshInv
  BY InitTypeInv, InitFreshInv
<1>2. TypeInv /\ FreshInv /\ [Next]_vars => TypeInv' /\ FreshInv'
  BY NextTypeInv, NextFreshInv
<1>3. FreshInv => FreshUnlessOverlapped
  BY DEF FreshInv, AnswerFresh, Excused, FreshUnlessOverlapped
<1> QED
  BY <1>1, <1>2, <1>3, PTL DEF Spec

-----------------------------------------------------------------------------
(* Whose name may be taken twice.                                          *)

\* No call that was done before c began gave another active key c's name.
NoEarlierName(c) ==
    \A l \in Keys : l # Key(c) /\ IsActive(l) /\ row[l].name = request[c].name => row[l].namedBy \notin before[c]

\* What a call that is about to write a name knows of it.
NameKnown(c) ==
    /\ pc[c] = "createRow" => NoEarlierName(c)
    /\ pc[c] = "updateRow" /\ request[c].name # NULL =>
          row[Key(c)].name = request[c].name \/ RenamedMeanwhile(c) \/ NoEarlierName(c)

\* Whoever named a key has begun.
NamerBegun(k) == row[k] # NULL /\ row[k].namedBy # NULL => pc[row[k].namedBy] # "idle"

\* The keys k and l do not share a name, or their namers may have missed each other.
NamesApart(k, l) ==
    /\ k # l /\ IsActive(k) /\ IsActive(l)
    /\ row[k].name = row[l].name
    /\ row[k].namedBy # NULL /\ row[l].namedBy # NULL
    => \/ Overlap(row[k].namedBy, row[l].namedBy)
       \/ request[row[k].namedBy].op = "update" /\ RenamedMeanwhile(row[k].namedBy)
       \/ request[row[l].namedBy].op = "update" /\ RenamedMeanwhile(row[l].namedBy)

NamesInv ==
    /\ \A c \in Calls : NameKnown(c)
    /\ \A k \in Keys : NamerBegun(k)
    /\ \A k, l \in Keys : NamesApart(k, l)

\* Before any call no key was named by one.
LEMMA InitNamesInv == Init => NamesInv
<1> SUFFICES ASSUME Init PROVE NamesInv
  OBVIOUS
<1>1. ASSUME NEW k \in Keys, row[k] # NULL PROVE row[k].namedBy = NULL
  <2>1. row[k] = IF Existing[k] = NULL THEN NULL
                 ELSE [name |-> Existing[k], scopes |-> CHOOSE s \in Scopes : TRUE,
                       revoked |-> FALSE, version |-> 1, namedBy |-> NULL]
    BY DEF Init
  <2> QED
    BY <1>1, <2>1
<1>2. \A c \in Calls : pc[c] = "idle"
  BY DEF Init
<1>3. \A k \in Keys : NamerBegun(k) /\ \A l \in Keys : NamesApart(k, l)
  BY <1>1 DEF NamerBegun, NamesApart, IsActive
<1> QED
  BY <1>2, <1>3 DEF NamesInv, NameKnown

\* A call that has begun keeps its request, its past and what it wrote.
Kept(c) ==
    pc[c] # "idle" => /\ request'[c] = request[c] /\ before'[c] = before[c]
                      /\ found[c] # NULL => found'[c] # NULL

\* A key keeps its name, or is revoked.
SameName(k) ==
    \/ row'[k] = row[k]
    \/ /\ row[k] # NULL /\ row'[k] # NULL
       /\ row'[k].name = row[k].name /\ row'[k].namedBy = row[k].namedBy
       /\ row[k].revoked => row'[k].revoked

\* Calls that overlap, and a call whose key was renamed, stay so.
LEMMA RenamedStays ==
    ASSUME TypeInv, NEW c \in Calls, Frame(c), Kept(c), NEW d \in Calls, pc[d] # "idle"
    PROVE  /\ request'[d] = request[d] /\ before'[d] = before[d] /\ pc'[d] # "idle"
           /\ \A e \in Calls : pc[e] # "idle" /\ Overlap(d, e) => Overlap(d, e)'
           /\ RenamedMeanwhile(d) => RenamedMeanwhile(d)'
<1>1. \A e \in Calls : pc[e] # "idle" => request'[e] = request[e] /\ before'[e] = before[e] /\ pc'[e] # "idle"
                                        /\ (found[e] # NULL => found'[e] # NULL)
  BY DEF Frame, Kept
<1>2. ASSUME RenamedMeanwhile(d) PROVE RenamedMeanwhile(d)'
  <2>1. PICK z \in Calls \ {d} :
           /\ Overlap(d, z) /\ found[z] # NULL
           /\ request[z].op = "update" /\ Key(z) = Key(d)
           /\ request[z].name \notin {NULL, request[d].name}
    BY <1>2 DEF RenamedMeanwhile
  <2>2. pc[z] # "idle"
    BY <2>1 DEF TypeInv, CallOK
  <2>3. /\ Overlap(d, z)' /\ found'[z] # NULL
        /\ request'[z].op = "update" /\ Key(z)' = Key(d)'
        /\ request'[z].name \notin {NULL, request'[d].name}
    BY <1>1, <2>1, <2>2 DEF Overlap, Key
  <2> QED
    BY <2>3 DEF RenamedMeanwhile
<1> QED
  BY <1>1, <1>2 DEF Overlap

\* What is known of two keys that keep their names stays true.
LEMMA ApartStays ==
    ASSUME TypeInv, NamesInv, NEW c \in Calls, Frame(c), Kept(c), NEW k \in Keys, NEW l \in Keys,
           SameName(k), SameName(l)
    PROVE  NamesApart(k, l)' /\ NamerBegun(k)'
<1>1. NamerBegun(k) /\ NamerBegun(l) /\ NamesApart(k, l)
  BY DEF NamesInv
<1>2. /\ row[k] # NULL => row[k].namedBy \in Calls \cup {NULL}
      /\ row[l] # NULL => row[l].namedBy \in Calls \cup {NULL}
  BY DEF TypeInv, TypeOK, Rows
<1>3. NamerBegun(k)'
  BY <1>1, <1>2, RenamedStays DEF NamerBegun, SameName
<1>4. NamesApart(k, l)'
  <2> SUFFICES ASSUME k # l, IsActive(k)', IsActive(l)', row'[k].name = row'[l].name,
                      row'[k].namedBy # NULL, row'[l].namedBy # NULL
               PROVE  \/ Overlap(row[k].namedBy, row[l].namedBy)'
                      \/ request'[row'[k].namedBy].op = "update" /\ RenamedMeanwhile(row[k].namedBy)'
                      \/ request'[row'[l].namedBy].op = "update" /\ RenamedMeanwhile(row[l].namedBy)'
    BY DEF NamesApart
  <2>1. /\ IsActive(k) /\ IsActive(l) /\ row[k].name = row[l].name
        /\ row'[k].namedBy = row[k].namedBy /\ row'[l].namedBy = row[l].namedBy
    BY DEF SameName, IsActive
  <2>2. PICK a \in Calls, b \in Calls : a = row[k].namedBy /\ b = row[l].namedBy
    BY <1>2, <2>1 DEF IsActive
  <2>3. pc[a] # "idle" /\ pc[b] # "idle"
    BY <1>1, <2>1, <2>2, Assumptions DEF NamerBegun, IsActive
  <2>4. \/ Overlap(a, b)
        \/ request[a].op = "update" /\ RenamedMeanwhile(a)
        \/ request[b].op = "update" /\ RenamedMeanwhile(b)
    BY <1>1, <2>1, <2>2, Assumptions DEF NamesApart
  <2>5. \/ Overlap(a, b)'
        \/ request'[a].op = "update" /\ RenamedMeanwhile(a)'
        \/ request'[b].op = "update" /\ RenamedMeanwhile(b)'
    BY <2>3, <2>4, RenamedStays
  <2> QED
    BY <2>1, <2>2, <2>5 DEF Overlap, RenamedMeanwhile, Key
<1> QED
  BY <1>3, <1>4

\* A step that renames no key leaves what the other calls know of their names.
LEMMA QuietNames ==
    ASSUME TypeInv, NamesInv, NEW c \in Calls, Frame(c), Kept(c), \A k \in Keys : SameName(k), NameKnown(c)'
    PROVE  NamesInv'
<1>1. ASSUME NEW d \in Calls, d # c PROVE NameKnown(d)'
  <2>1. CASE pc[d] \in {"createRow", "updateRow"}
    <3>1. Key(d) \in Keys /\ request'[d] = request[d] /\ before'[d] = before[d] /\ pc'[d] = pc[d]
      BY <1>1, <2>1, Begun DEF Frame, TypeInv
    <3>2. NoEarlierName(d) => NoEarlierName(d)'
      BY <3>1 DEF NoEarlierName, SameName, IsActive, Key
    <3>3. RenamedMeanwhile(d) => RenamedMeanwhile(d)'
      BY <2>1, RenamedStays
    <3>4. pc[d] = "updateRow" => row[Key(d)] # NULL /\ row'[Key(d)].name = row[Key(d)].name
      BY <3>1 DEF TypeInv, CallOK, Steps, CreateSteps, SameName
    <3> QED
      BY <3>1, <3>2, <3>3, <3>4 DEF NamesInv, NameKnown, Key
  <2> QED
    BY <1>1, <2>1 DEF Frame, NameKnown
<1> QED
  BY <1>1, ApartStays DEF NamesInv

\* Call c gives its key a name.
Renames(c) ==
    /\ pc[c] \in {"createRow", "updateRow"} /\ pc'[c] \in {"invalidate", "done"}
    /\ request'[c] = request[c] /\ before'[c] = before[c] /\ found'[c] # NULL
    /\ request[c].name # NULL
    /\ row[Key(c)] # NULL => request[c].name # row[Key(c)].name
    /\ \E new \in Rows : /\ row' = [row EXCEPT ![Key(c)] = new]
                         /\ new.name = request[c].name /\ new.namedBy = c

\* A key that gets a name shares it only with keys that were named meanwhile,
\* unless its own was changed meanwhile.
LEMMA RenamingNames ==
    ASSUME TypeInv, FreshInv, NamesInv, NEW c \in Calls, Frame(c), Renames(c)
    PROVE  NamesInv'
<1>1. PICK new \in Rows : row' = [row EXCEPT ![Key(c)] = new] /\ new.name = request[c].name /\ new.namedBy = c
  BY DEF Renames
<1>2. Key(c) \in Keys /\ pc[c] # "done" /\ pc[c] # "idle" /\ Kept(c) /\ new # NULL
  BY Begun, Assumptions DEF Renames, TypeInv, Kept
<1>3. row'[Key(c)] = new /\ \A k \in Keys : k # Key(c) => row'[k] = row[k] /\ SameName(k)
  BY <1>1, <1>2 DEF TypeInv, TypeOK, SameName
<1>4. \A d \in Calls : c \notin before[d]
  BY <1>2, NotBefore DEF FreshInv
<1>5. NameKnown(c)'
  BY DEF Renames, NameKnown
<1>6. ASSUME NEW d \in Calls, d # c PROVE NameKnown(d)'
  <2>1. CASE pc[d] \in {"createRow", "updateRow"}
    <3>1. Key(d) \in Keys /\ request'[d] = request[d] /\ before'[d] = before[d] /\ pc'[d] = pc[d] /\ Key(d)' = Key(d)
      BY <1>6, <2>1, Begun DEF Frame, TypeInv, Key
    <3>2. NoEarlierName(d) => NoEarlierName(d)'
      BY <1>1, <1>3, <1>4, <3>1 DEF NoEarlierName, IsActive
    <3>3. RenamedMeanwhile(d) => RenamedMeanwhile(d)'
      BY <1>2, <2>1, RenamedStays
    <3>4. ASSUME pc[d] = "updateRow", request[d].name # NULL, row[Key(d)].name = request[d].name,
                 row'[Key(d)].name # request[d].name
          PROVE  RenamedMeanwhile(d)'
      <4>1. row[Key(d)] # NULL
        BY <3>4 DEF TypeInv, CallOK, Steps, CreateSteps
      <4>2. Key(d) = Key(c) /\ request[c].name # request[d].name
        BY <1>1, <1>3, <3>1, <3>4
      <4>3. request[c].op = "update"
        BY <4>1, <4>2 DEF Renames, TypeInv, CallOK, UpdateSteps, CreateSteps
      <4>4. d \notin before[c]
        BY <2>1, NotBefore DEF FreshInv
      <4>5. Overlap(d, c)' /\ found'[c] # NULL /\ request'[c].op = "update" /\ Key(c)' = Key(d)'
            /\ request'[c].name \notin {NULL, request'[d].name}
        BY <1>4, <3>1, <4>2, <4>3, <4>4 DEF Renames, Overlap, Key
      <4> QED
        BY <1>6, <4>5 DEF RenamedMeanwhile
    <3> QED
      BY <3>1, <3>2, <3>3, <3>4 DEF NamesInv, NameKnown
  <2> QED
    BY <1>6, <2>1 DEF Frame, NameKnown
<1>7. ASSUME NEW k \in Keys PROVE NamerBegun(k)'
  <2>1. CASE k = Key(c)
    BY <1>1, <1>3, <2>1 DEF NamerBegun, Frame
  <2>2. CASE k # Key(c)
    BY <1>2, <1>3, <2>2, ApartStays
  <2> QED
    BY <2>1, <2>2
<1>8. ASSUME NEW l \in Keys, l # Key(c), IsActive(l)', row'[l].name = new.name, row'[l].namedBy # NULL
      PROVE  Overlap(c, row[l].namedBy)' \/ (request'[c].op = "update" /\ RenamedMeanwhile(c)')
  <2>1. row'[l] = row[l] /\ IsActive(l) /\ row[l].name = request[c].name
    BY <1>1, <1>3, <1>8 DEF IsActive
  <2>2. row[l].namedBy \in Calls /\ pc[row[l].namedBy] # "idle"
    BY <1>8, <2>1 DEF TypeInv, TypeOK, Rows, IsActive, NamesInv, NamerBegun
  <2>3. CASE NoEarlierName(c)
    <3>1. Overlap(c, row[l].namedBy)
      BY <1>4, <1>8, <2>1, <2>2, <2>3 DEF NoEarlierName, Overlap
    <3>2. \A e \in Calls : pc[e] # "idle" /\ Overlap(c, e) => Overlap(c, e)'
      BY <1>2, RenamedStays
    <3> QED
      BY <2>1, <2>2, <3>1, <3>2 DEF Overlap
  <2>4. CASE ~NoEarlierName(c)
    <3>1. pc[c] = "updateRow" /\ row[Key(c)] # NULL /\ request[c].op = "update"
      BY <2>4 DEF Renames, NamesInv, NameKnown, TypeInv, CallOK, Steps, CreateSteps, UpdateSteps
    <3>2. RenamedMeanwhile(c)
      BY <2>4, <3>1 DEF Renames, NamesInv, NameKnown
    <3> QED
      BY <1>2, <3>1, <3>2, RenamedStays
  <2> QED
    BY <2>3, <2>4
<1>9. ASSUME NEW k \in Keys, NEW l \in Keys PROVE NamesApart(k, l)'
  <2>1. CASE k # Key(c) /\ l # Key(c)
    BY <1>2, <1>3, <2>1, ApartStays
  <2>2. CASE k = Key(c)
    BY <1>1, <1>3, <1>8, <2>2 DEF NamesApart, Overlap, RenamedMeanwhile, Key
  <2>3. CASE l = Key(c)
    BY <1>1, <1>3, <1>8, <2>3 DEF NamesApart, Overlap, RenamedMeanwhile, Key
  <2> QED
    BY <2>1, <2>2, <2>3
<1> QED
  BY <1>5, <1>6, <1>7, <1>9 DEF NamesInv

\* What a name check finds: no active key has the name.
LEMMA NameFree ==
    ASSUME NEW c \in Calls, ~NameTaken(request[c].name, Key(c)),
           UNCHANGED <<row, request, before>>
    PROVE  NoEarlierName(c)'
BY DEF NameTaken, NoEarlierName, IsActive, Key

\* Every step keeps what is known of the names.
LEMMA NextNamesInv == TypeInv /\ TypeInv' /\ FreshInv /\ NamesInv /\ [Next]_vars => NamesInv'
<1> SUFFICES ASSUME TypeInv, TypeInv', FreshInv, NamesInv, [Next]_vars PROVE NamesInv'
  OBVIOUS
<1> USE DEF TypeInv, TypeOK, At, locals
<1>1. ASSUME NEW c \in Calls, NEW r \in Requests, BeginValidate(c, r) \/ BeginMutation(c, r) PROVE NamesInv'
  <2>1. pc[c] = "idle" /\ UNCHANGED <<row, found>> /\ request' = [request EXCEPT ![c] = r]
        /\ before' = [before EXCEPT ![c] = {d \in Calls : Returned(d)}]
        /\ began' = [began EXCEPT ![c] = now]
    BY <1>1 DEF BeginValidate, BeginMutation, Record
  <2>2. /\ (\E v : Return(c, v)) \/ \E step \in {"findKey", "findActive", "findExisting", "findDuplicate"} : Goto(c, step)
    BY <1>1, RequestFields DEF BeginValidate, BeginMutation
  <2>3. Frame(c) /\ pc'[c] \in {"done", "findKey", "findActive", "findExisting", "findDuplicate"}
    BY <2>1, <2>2, SameRows DEF Frame, Goto, Return
  <2>4. Kept(c) /\ NameKnown(c)' /\ \A k \in Keys : SameName(k)
    BY <2>1, <2>3 DEF Kept, NameKnown, SameName
  <2> QED
    BY <2>3, <2>4, QuietNames
<1>2. ASSUME NEW c \in Calls, InFlight(c), UNCHANGED <<row, request, before, began>>,
             (\E step \in Steps : Goto(c, step)) \/ (\E v : Return(c, v)),
             \A d \in Calls : d # c => found'[d] = found[d], found[c] # NULL => found'[c] # NULL,
             NameKnown(c)'
      PROVE  NamesInv'
  <2>1. Frame(c)
    BY <1>2, SameRows, UnderWay
  <2>2. Kept(c) /\ \A k \in Keys : SameName(k)
    BY <1>2 DEF Kept, SameName
  <2> QED
    BY <1>2, <2>1, <2>2, QuietNames
<1>3. ASSUME NEW c \in Calls, FindKey(c) PROVE NamesInv'
  <2>1. /\ InFlight(c) /\ Goto(c, "fill") /\ UNCHANGED <<row, request, before, began>>
        /\ \A d \in Calls : d # c => found'[d] = found[d]
    BY <1>3 DEF FindKey, InFlight, Steps
  <2>2. pc'[c] = "fill"
    BY <2>1 DEF Goto, InFlight
  <2>3. found'[c] # NULL /\ NameKnown(c)'
    BY <2>2, Assumptions DEF CallOK, NameKnown
  <2> QED
    BY <1>2, <2>1, <2>3 DEF Steps
<1>4. ASSUME NEW c \in Calls, Fill(c) \/ Invalidate(c) \/ DatabaseError(c) PROVE NamesInv'
  <2>1. /\ InFlight(c) /\ UNCHANGED <<row, request, before, began, found>> /\ \E v : Return(c, v)
    BY <1>4 DEF Fill, Invalidate, DatabaseError, InFlight, Steps
  <2>2. NameKnown(c)'
    BY <2>1 DEF Return, NameKnown
  <2> QED
    BY <1>2, <2>1, <2>2
<1>5. ASSUME NEW c \in Calls, FindActive(c) \/ FindExisting(c) \/ FindName(c) \/ FindDuplicate(c) PROVE NamesInv'
  <2>1. /\ InFlight(c) /\ UNCHANGED <<row, request, before, began, found>>
        /\ (\E step \in Steps : Goto(c, step)) \/ (\E v : Return(c, v))
    BY <1>5 DEF FindActive, FindExisting, FindName, FindDuplicate, InFlight, Steps
  <2>2. pc'[c] = "createRow" => ~NameTaken(request[c].name, Key(c))
    BY <1>5 DEF FindActive, FindExisting, FindName, FindDuplicate, Goto, Return
  <2>3. pc'[c] = "updateRow" => request[c].name \in {NULL, row[Key(c)].name} \/ ~NameTaken(request[c].name, Key(c))
    BY <1>5 DEF FindActive, FindExisting, FindName, FindDuplicate, Goto, Return
  <2>4. NameKnown(c)'
    BY <2>1, <2>2, <2>3, NameFree DEF NameKnown, Key
  <2> QED
    BY <1>2, <2>1, <2>4
<1>6. ASSUME NEW c \in Calls, NEW new \in Rows, InFlight(c), UNCHANGED <<request, before, began>>,
             row' = [row EXCEPT ![Key(c)] = new], Written(c), Goto(c, "invalidate"),
             new.version = row[Key(c)].version + 1, row[Key(c)] # NULL
      PROVE  /\ Frame(c) /\ Kept(c) /\ NameKnown(c)' /\ pc'[c] = "invalidate" /\ found'[c] # NULL
             /\ Key(c) \in Keys /\ new # NULL /\ row'[Key(c)] = new
             /\ \A k \in Keys : k # Key(c) => SameName(k)
  <2>1. Key(c) \in Keys /\ pc'[c] = "invalidate" /\ new # NULL
    BY <1>6, Begun, Assumptions DEF InFlight, Goto, Steps
  <2>2. row'[Key(c)] = new /\ \A k \in Keys : k # Key(c) => row'[k] = row[k]
    BY <1>6, <2>1
  <2>3. \A k \in Keys : row[k] # NULL => row'[k] # NULL /\ row[k].version <= row'[k].version
    <3> SUFFICES ASSUME NEW k \in Keys, row[k] # NULL PROVE row'[k] # NULL /\ row[k].version <= row'[k].version
      OBVIOUS
    <3>1. row[k].version \in Int
      BY DEF Rows, Versions
    <3> QED
      BY <1>6, <2>1, <2>2, <3>1
  <2>4. found'[c] # NULL /\ \A d \in Calls : d # c => found'[d] = found[d]
    <3>1. new.version \in Versions
      BY DEF Rows
    <3>2. found'[c] = [version |-> new.version] /\ \A d \in Calls : d # c => found'[d] = found[d]
      BY <1>6 DEF Written
    <3> QED
      BY <3>1, <3>2, Assumptions
  <2>5. Frame(c)
    BY <1>6, <2>3, <2>4, UnderWay DEF Steps
  <2> QED
    BY <1>6, <2>1, <2>2, <2>4, <2>5 DEF Kept, NameKnown, SameName
<1>7. ASSUME NEW c \in Calls, RevokeRow(c) PROVE NamesInv'
  <2>1. PICK new \in Rows :
           /\ row' = [row EXCEPT ![Key(c)] = new]
           /\ new.version = row[Key(c)].version + 1
           /\ new.revoked /\ new.name = row[Key(c)].name /\ new.namedBy = row[Key(c)].namedBy
    BY <1>7, RevokedRow
  <2>2. InFlight(c) /\ UNCHANGED <<request, before, began>> /\ Written(c) /\ Goto(c, "invalidate") /\ row[Key(c)] # NULL
    BY <1>7 DEF RevokeRow, InFlight, Steps, CallOK, CreateSteps
  <2>3. /\ Frame(c) /\ Kept(c) /\ NameKnown(c)' /\ Key(c) \in Keys /\ new # NULL /\ row'[Key(c)] = new
        /\ \A k \in Keys : k # Key(c) => SameName(k)
    BY <1>6, <2>1, <2>2
  <2>4. SameName(Key(c))
    BY <2>1, <2>2, <2>3 DEF SameName
  <2> QED
    BY <2>3, <2>4, QuietNames
<1>8. ASSUME NEW c \in Calls, UpdateRow(c) PROVE NamesInv'
  <2>1. PICK new \in Rows :
           /\ row' = [row EXCEPT ![Key(c)] = new]
           /\ new.version = row[Key(c)].version + 1
           /\ new.revoked = row[Key(c)].revoked
           /\ \/ new.name = row[Key(c)].name /\ new.namedBy = row[Key(c)].namedBy
              \/ /\ request[c].name # NULL /\ request[c].name # row[Key(c)].name
                 /\ new.name = request[c].name /\ new.namedBy = c
    BY <1>8, UpdatedRow
  <2>2. /\ pc[c] = "updateRow" /\ InFlight(c) /\ UNCHANGED <<request, before, began>> /\ Written(c)
        /\ Goto(c, "invalidate") /\ row[Key(c)] # NULL
    BY <1>8 DEF UpdateRow, InFlight, Steps, CallOK, CreateSteps
  <2>3. /\ Frame(c) /\ Kept(c) /\ NameKnown(c)' /\ pc'[c] = "invalidate" /\ found'[c] # NULL
        /\ Key(c) \in Keys /\ new # NULL /\ row'[Key(c)] = new
        /\ \A k \in Keys : k # Key(c) => SameName(k)
    BY <1>6, <2>1, <2>2
  <2>4. CASE new.name = row[Key(c)].name /\ new.namedBy = row[Key(c)].namedBy
    <3>1. SameName(Key(c))
      BY <2>1, <2>2, <2>3, <2>4 DEF SameName
    <3> QED
      BY <2>3, <3>1, QuietNames
  <2>5. CASE /\ request[c].name # NULL /\ request[c].name # row[Key(c)].name
             /\ new.name = request[c].name /\ new.namedBy = c
    <3>1. Renames(c)
      BY <2>1, <2>2, <2>3, <2>5 DEF Renames
    <3> QED
      BY <2>3, <3>1, RenamingNames
  <2> QED
    BY <2>1, <2>4, <2>5
<1>9. ASSUME NEW c \in Calls, CreateRow(c) PROVE NamesInv'
  <2>1. PICK new \in Rows :
           /\ row' = [row EXCEPT ![Key(c)] = new]
           /\ new.name = request[c].name /\ new.namedBy = c
    BY <1>9, CreatedRow
  <2>2. /\ pc[c] = "createRow" /\ InFlight(c) /\ UNCHANGED <<request, before, began>>
        /\ found' = [found EXCEPT ![c] = [version |-> 1]] /\ Return(c, [version |-> 1])
        /\ row[Key(c)] = NULL /\ request[c] \in Requests /\ Key(c) \in Keys /\ request[c].op = "create"
    BY <1>9, Begun DEF CreateRow, InFlight, Steps, CallOK, CreateSteps
  <2>3. request[c].name # NULL
    <3>1. new.name \in Names /\ new # NULL
      BY Assumptions DEF Rows
    <3> QED
      BY <2>1, <3>1, Assumptions
  <2>4. \A k \in Keys : row[k] # NULL => row'[k] = row[k]
    BY <2>1, <2>2
  <2>5. \A k \in Keys : row[k] # NULL => row'[k] # NULL /\ row[k].version <= row'[k].version
    <3> SUFFICES ASSUME NEW k \in Keys, row[k] # NULL PROVE row[k].version <= row[k].version
      BY <2>4
    <3>1. row[k].version \in Int
      BY DEF Rows, Versions
    <3> QED
      BY <3>1
  <2>6. Frame(c)
    BY <2>2, <2>5, UnderWay
  <2>7. found'[c] # NULL
    BY <2>2, Assumptions DEF Versions
  <2>8. Renames(c)
    BY <2>1, <2>2, <2>3, <2>7 DEF Renames, Return
  <2> QED
    BY <2>6, <2>8, RenamingNames
<1>10. CASE Housekeeping \/ Tick \/ UNCHANGED vars
  <2>1. UNCHANGED <<row, pc, request, before, found>>
    BY <1>10 DEF Housekeeping, Tick, vars
  <2> QED
    BY <2>1 DEF NamesInv, NameKnown, NamerBegun, NamesApart, NoEarlierName, RenamedMeanwhile, Overlap, IsActive, Key
<1> QED
  BY <1>1, <1>3, <1>4, <1>5, <1>7, <1>8, <1>9, <1>10 DEF Next, Progress, AllReturned

\* Whatever the calls, two active keys have one name only if the calls that gave
\* it overlapped or one of them was not checked, its key renamed meanwhile.
THEOREM SharedNamesByOverlap == Spec => []DuplicateNamesOverlap
<1>1. Init => TypeInv /\ FreshInv /\ NamesInv
  BY InitTypeInv, InitFreshInv, InitNamesInv
<1>2. TypeInv /\ FreshInv /\ NamesInv /\ [Next]_vars => TypeInv' /\ FreshInv' /\ NamesInv'
  BY NextTypeInv, NextFreshInv, NextNamesInv
<1>3. NamesInv => DuplicateNamesOverlap
  BY DEF NamesInv, NamesApart, DuplicateNamesOverlap
<1> QED
  BY <1>1, <1>2, <1>3, PTL DEF Spec

-----------------------------------------------------------------------------
(* What the cache evicts.                                                  *)

EvictionInOrder ==
    \A j, k \in CacheKeys :
        cache[j] = NULL /\ cache'[j] # NULL /\ cache[k] # NULL /\ cache'[k] = NULL
        => \A i \in Held \ {k} : cache'[i] # NULL /\ cache[k].lastAccessAt <= cache[i].lastAccessAt

\* A set evicts one of the entries last used first.
LEMMA SetEvictsInOrder ==
    ASSUME CacheOK, NEW key \in CacheKeys, NEW v, Set(key, v, TTL)
    PROVE  EvictionInOrder
<1> DEFINE e == [value |-> v, expiresAt |-> now + TTL, lastAccessAt |-> now]
<1>1. cache' = [cache EXCEPT ![key] = e]
      \/ \E victim \in LeastRecentlyUsed : cache' = [cache EXCEPT ![victim] = NULL, ![key] = e]
  BY DEF Set
<1> HIDE DEF e
<1>2. CASE cache' = [cache EXCEPT ![key] = e]
  BY <1>2 DEF CacheOK, EvictionInOrder
<1>3. ASSUME NEW victim \in LeastRecentlyUsed, cache' = [cache EXCEPT ![victim] = NULL, ![key] = e]
      PROVE  EvictionInOrder
  <2> SUFFICES ASSUME NEW j \in CacheKeys, NEW k \in CacheKeys,
                      cache[j] = NULL, cache'[j] # NULL, cache[k] # NULL, cache'[k] = NULL,
                      NEW i \in Held \ {k}
               PROVE  cache'[i] # NULL /\ cache[k].lastAccessAt <= cache[i].lastAccessAt
    BY DEF EvictionInOrder
  <2>1. victim \in CacheKeys /\ i \in CacheKeys /\ cache[i] # NULL
    BY DEF LeastRecentlyUsed, Held
  <2>2. j = key /\ k = victim /\ i # key
    BY <1>3, <2>1 DEF CacheOK
  <2> QED
    BY <1>3, <2>1, <2>2 DEF CacheOK, LeastRecentlyUsed
<1> QED
  BY <1>1, <1>2, <1>3

\* Whatever the callers, only an entry that was used least recently makes
\* room for a new one, and only one does.
THEOREM EvictionIsLeastRecentlyUsed == Spec => EvictsLeastRecentlyUsed
<1>1. ASSUME TypeInv, [Next]_vars PROVE [EvictionInOrder]_cacheVars
  <2> USE DEF TypeInv, TypeOK, Keys
  <2>1. ASSUME \A j \in CacheKeys : cache[j] = NULL => cache'[j] = NULL PROVE EvictionInOrder
    BY <2>1 DEF EvictionInOrder
  <2>2. ASSUME NEW c \in Calls, NEW r \in Requests, BeginValidate(c, r) PROVE EvictionInOrder
    BY <2>1, <2>2 DEF BeginValidate, Get, Touch, Fresh, CacheOK
  <2>3. ASSUME NEW c \in Calls, Fill(c) PROVE EvictionInOrder
    <3>1. Key(c) \in Keys /\ Set(Key(c), found[c], TTL)
      BY <1>1, <2>3, Begun DEF Fill, At
    <3> QED
      BY <1>1, <3>1, SetEvictsInOrder
  <2>4. ASSUME NEW c \in Calls, Invalidate(c) PROVE EvictionInOrder
    BY <2>1, <2>4 DEF Invalidate, Invalidated, Delete, CacheOK
  <2>5. CASE Housekeeping
    BY <2>1, <2>5 DEF Housekeeping, CleanupExpired, Clear, Fresh, CacheOK
  <2>6. CASE Tick
    BY <2>1, <2>6 DEF Tick
  <2>7. ASSUME NEW c \in Calls,
               \/ \E r \in Requests : BeginMutation(c, r)
               \/ FindKey(c) \/ FindActive(c) \/ RevokeRow(c) \/ FindExisting(c) \/ FindName(c)
               \/ UpdateRow(c) \/ FindDuplicate(c) \/ CreateRow(c) \/ DatabaseError(c)
        PROVE  UNCHANGED cacheVars
    BY <2>7 DEF BeginMutation, FindKey, FindActive, RevokeRow, FindExisting, FindName, UpdateRow, FindDuplicate,
       CreateRow, DatabaseError
  <2>8. CASE UNCHANGED vars
    BY <2>8 DEF vars
  <2> QED
    BY <1>1, <2>2, <2>3, <2>4, <2>5, <2>6, <2>7, <2>8 DEF Next, Progress, AllReturned
<1>2. Init => TypeInv
  BY InitTypeInv
<1>3. TypeInv /\ [Next]_vars => TypeInv'
  BY NextTypeInv
<1> QED
  BY <1>1, <1>2, <1>3, PTL DEF Spec, EvictsLeastRecentlyUsed, EvictionInOrder
=============================================================================
