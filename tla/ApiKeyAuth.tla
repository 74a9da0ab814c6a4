------------------------------ MODULE ApiKeyAuth ------------------------------
(***************************************************************************)
(* ApiKeyService over the api_key table and the cache of verdicts.         *)
(*                                                                         *)
(* validateKey answers from the cache or reads the row and fills the       *)
(* cache; createApiKey, updateApiKey and revokeApiKey read, write the row  *)
(* and delete the cached verdict.  Between its awaits a call interleaves   *)
(* with all the others.  The keys are those of one workspace; the check of *)
(* the caller's role, which precedes every mutation, and lastUsedAt are    *)
(* left out.  A key stands for its hash: a client presents only keys that  *)
(* were created.                                                           *)
(***************************************************************************)
EXTENDS CacheService

CONSTANTS
    Calls,
    Requests,
    Names, Scopes,
    Existing,     \* the keys there are at the start, with their names
    TTL,          \* API_KEY_CACHE_TTL
    MaxVersion,   \* bound: writes of one row
    MaxFaults     \* bound: queries that fail or answers that are lost

Keys == CacheKeys

AllRequests ==
    [op : {"validate", "revoke"}, key : Keys]
    \cup [op : {"update"}, key : Keys, name : Names \cup {NULL}, scopes : Scopes \cup {NULL}]
    \cup [op : {"create"}, key : Keys, name : Names, scopes : Scopes]

Versions == 1..MaxVersion

\* version and namedBy are history: how often the row was written, and by
\* which call it got its name.
Rows == [name : Names, scopes : Scopes, revoked : BOOLEAN, version : Versions,
         namedBy : Calls \cup {NULL}]

\* What a call returns that found nothing to do, and one whose query failed.
Refusal == [error |-> "refused"]
Failure == [error |-> "failed"]

Verdicts == [isValid : BOOLEAN, scopes : Scopes \cup {NULL}, version : Versions]

ASSUME ApiKeyAssumption ==
    /\ Requests \subseteq AllRequests
    /\ Existing \in [Keys -> Names \cup {NULL}]
    /\ Verdicts \subseteq Values
    /\ TTLs = {TTL}
    /\ Scopes # {}
    /\ NULL \notin Names \cup Requests \cup Rows \cup Verdicts \cup [version : Versions] \cup Calls
    /\ MaxVersion \in Nat \ {0}
    /\ MaxFaults \in Nat

VARIABLES
    row,        \* the api_key table
    faults,
    pc,
    request,
    found,      \* local: the verdict on the row that was read
    reply,      \* NULL, Failure, Refusal, a verdict, or the version written
    before,     \* history: the calls that had returned when it began
    began,      \* history: when it began
    ended       \* history: when it returned

locals == <<request, before, began>>
vars == <<cacheVars, row, faults, pc, locals, found, reply, ended>>

Steps == {"findKey", "fill", "findActive", "revokeRow", "findExisting", "findName",
          "updateRow", "invalidate", "findDuplicate", "createRow"}

InFlight(c) == pc[c] \in Steps
Returned(c) == pc[c] = "done"
At(c, step) == pc[c] = step
Key(c) == request[c].key

Goto(c, step) == pc' = [pc EXCEPT ![c] = step] /\ UNCHANGED <<reply, ended>>

Return(c, r) ==
    /\ pc' = [pc EXCEPT ![c] = "done"]
    /\ reply' = [reply EXCEPT ![c] = r]
    /\ ended' = [ended EXCEPT ![c] = now]

Init ==
    /\ CacheInit
    /\ row = [k \in Keys |->
                 IF Existing[k] = NULL THEN NULL
                 ELSE [name |-> Existing[k], scopes |-> CHOOSE s \in Scopes : TRUE,
                       revoked |-> FALSE, version |-> 1, namedBy |-> NULL]]
    /\ faults = 0
    /\ pc = [c \in Calls |-> "idle"]
    /\ request = [c \in Calls |-> NULL]
    /\ found = [c \in Calls |-> NULL]
    /\ reply = [c \in Calls |-> NULL]
    /\ before = [c \in Calls |-> {}]
    /\ began = [c \in Calls |-> 0]
    /\ ended = [c \in Calls |-> 0]

Record(c, r) ==
    /\ At(c, "idle")
    /\ request' = [request EXCEPT ![c] = r]
    /\ before' = [before EXCEPT ![c] = {d \in Calls : Returned(d)}]
    /\ began' = [began EXCEPT ![c] = now]

\* validateKey up to its first await: the cache is asked at once.
BeginValidate(c, r) ==
    /\ r.op = "validate"
    /\ row[r.key] # NULL
    /\ Record(c, r)
    /\ Get(r.key)
    /\ IF Cached(r.key) # NULL THEN Return(c, Cached(r.key)) ELSE Goto(c, "findKey")
    /\ UNCHANGED <<now, row, faults, found>>

\* A new key is random: no two calls create the same one.
BeginMutation(c, r) ==
    /\ r.op # "validate"
    /\ r.op = "create" <=> row[r.key] = NULL
    /\ \A d \in Calls : InFlight(d) /\ request[d].op = "create" => Key(d) # r.key
    /\ Record(c, r)
    /\ Goto(c, CASE r.op = "revoke" -> "findActive"
                 [] r.op = "update" -> "findExisting"
                 [] r.op = "create" -> "findDuplicate")
    /\ UNCHANGED <<cacheVars, row, faults, found>>

IsActive(k) == row[k] # NULL /\ ~row[k].revoked

Verdict(k) ==
    [isValid |-> IsActive(k), scopes |-> IF IsActive(k) THEN row[k].scopes ELSE NULL,
     version |-> row[k].version]

\* apiKey.findFirst({ keyHash, revokedAt: null })
FindKey(c) ==
    /\ At(c, "findKey")
    /\ found' = [found EXCEPT ![c] = Verdict(Key(c))]
    /\ Goto(c, "fill")
    /\ UNCHANGED <<cacheVars, row, faults, locals>>

\* The answer of the query is cached, whatever happened to the row meanwhile.
Fill(c) ==
    /\ At(c, "fill")
    /\ Set(Key(c), found[c], TTL)
    /\ Return(c, found[c])
    /\ UNCHANGED <<now, row, faults, locals, found>>

\* revokeApiKey: only an active key can be revoked.
FindActive(c) ==
    /\ At(c, "findActive")
    /\ IF IsActive(Key(c)) THEN Goto(c, "revokeRow") ELSE Return(c, Refusal)
    /\ UNCHANGED <<cacheVars, row, faults, locals, found>>

\* found keeps the version that a mutation wrote.
Written(c) == found' = [found EXCEPT ![c] = [version |-> row[Key(c)].version + 1]]

\* revokeKey: apiKey.update({ revokedAt })
RevokeRow(c) ==
    /\ At(c, "revokeRow")
    /\ row[Key(c)].version < MaxVersion
    /\ row' = [row EXCEPT ![Key(c)].revoked = TRUE, ![Key(c)].version = @ + 1]
    /\ Written(c)
    /\ Goto(c, "invalidate")
    /\ UNCHANGED <<cacheVars, faults, locals>>

\* Mutant: the cache entry is left to expire.
KeepCached(k) == UNCHANGED cache

Invalidated(k) == Delete(k)

Invalidate(c) ==
    /\ At(c, "invalidate")
    /\ Invalidated(Key(c))
    /\ Return(c, found[c])
    /\ UNCHANGED <<now, row, faults, locals, found>>

\* Mutant: a revoked key keeps its name taken, an active one does not.
NameTakenByRevoked(name, key) ==
    \E k \in Keys \ {key} : row[k] # NULL /\ row[k].name = name /\ row[k].revoked

\* apiKey.findFirst({ name, revokedAt: null, id: { not } })
NameTaken(name, key) == \E k \in Keys \ {key} : IsActive(k) /\ row[k].name = name

\* updateApiKey: the key exists, revoked or not; a new name is looked up.
FindExisting(c) ==
    /\ At(c, "findExisting")
    /\ Goto(c, IF request[c].name \in {NULL, row[Key(c)].name} THEN "updateRow" ELSE "findName")
    /\ UNCHANGED <<cacheVars, row, faults, locals, found>>

FindName(c) ==
    /\ At(c, "findName")
    /\ IF NameTaken(request[c].name, Key(c)) THEN Return(c, Refusal) ELSE Goto(c, "updateRow")
    /\ UNCHANGED <<cacheVars, row, faults, locals, found>>

UpdateRow(c) ==
    LET old == row[Key(c)]
        named == request[c].name # NULL
    IN /\ At(c, "updateRow")
       /\ old.version < MaxVersion
       /\ row' = [row EXCEPT ![Key(c)] =
             [old EXCEPT !.name = IF named THEN request[c].name ELSE @,
                         !.namedBy = IF named /\ request[c].name # old.name THEN c ELSE @,
                         !.scopes = IF request[c].scopes # NULL THEN request[c].scopes ELSE @,
                         !.version = @ + 1]]
       /\ Written(c)
       /\ Goto(c, "invalidate")
       /\ UNCHANGED <<cacheVars, faults, locals>>

\* createApiKey: the name must be free among the active keys.
FindDuplicate(c) ==
    /\ At(c, "findDuplicate")
    /\ IF NameTaken(request[c].name, Key(c)) THEN Return(c, Refusal) ELSE Goto(c, "createRow")
    /\ UNCHANGED <<cacheVars, row, faults, locals, found>>

CreateRow(c) ==
    /\ At(c, "createRow")
    /\ row' = [row EXCEPT ![Key(c)] =
          [name |-> request[c].name, scopes |-> request[c].scopes, revoked |-> FALSE,
           version |-> 1, namedBy |-> c]]
    /\ found' = [found EXCEPT ![c] = [version |-> 1]]
    /\ Return(c, found'[c])
    /\ UNCHANGED <<cacheVars, faults, locals>>

\* A query fails, or its answer is lost: a validation is answered as invalid,
\* without caching that; a mutation throws.
DatabaseError(c) ==
    /\ InFlight(c)
    /\ faults < MaxFaults
    /\ faults' = faults + 1
    /\ Return(c, Failure)
    /\ UNCHANGED <<cacheVars, row, locals, found>>

\* The interval of the cache, and the reset by GET /monitoring/reset.
Housekeeping ==
    /\ CleanupExpired \/ Clear
    /\ UNCHANGED <<now, row, faults, pc, locals, found, reply, ended>>

Tick ==
    /\ Advance
    /\ UNCHANGED <<cache, row, faults, pc, locals, found, reply, ended>>

Progress(c) ==
    \/ FindKey(c) \/ Fill(c) \/ FindActive(c) \/ RevokeRow(c) \/ Invalidate(c)
    \/ FindExisting(c) \/ FindName(c) \/ UpdateRow(c) \/ FindDuplicate(c) \/ CreateRow(c)

AllReturned == (\A c \in Calls : Returned(c)) /\ UNCHANGED vars

Next ==
    \/ \E c \in Calls : \/ \E r \in Requests : BeginValidate(c, r) \/ BeginMutation(c, r)
                        \/ Progress(c) \/ DatabaseError(c)
    \/ Housekeeping
    \/ Tick
    \/ AllReturned

Spec == Init /\ [][Next]_vars

-----------------------------------------------------------------------------
(* Properties.                                                             *)

IsValidation(c) == request[c].op = "validate"
Answered(c) == Returned(c) /\ reply[c] \notin {Failure, Refusal}
Wrote(m, k) == ~IsValidation(m) /\ Returned(m) /\ found[m] # NULL /\ Key(m) = k
Overlap(c, d) == c \notin before[d] /\ d \notin before[c]

\* Every variable has its type.
TypeOK ==
    /\ CacheOK
    /\ row \in [Keys -> Rows \cup {NULL}]
    /\ faults \in 0..MaxFaults
    /\ pc \in [Calls -> Steps \cup {"idle", "done"}]
    /\ request \in [Calls -> Requests \cup {NULL}]
    /\ found \in [Calls -> Verdicts \cup [version : Versions] \cup {NULL}]
    /\ reply \in [Calls -> Verdicts \cup [version : Versions] \cup {NULL, Failure, Refusal}]
    /\ before \in [Calls -> SUBSET Calls]
    /\ \A c \in Calls : (pc[c] = "idle") <=> (request[c] = NULL)

\* A verdict is at least as new as every revocation or update that had
\* returned when its validation began, with two exceptions: a validation that
\* overlapped the mutation cached the row it had read before, or the mutation
\* wrote its row and failed, so that it deleted nothing.  Then it is what some
\* validation had answered, and is served for at most one TTL after that.
FreshUnlessOverlapped ==
    \A c \in Calls : Answered(c) /\ IsValidation(c) =>
        \A m \in before[c] : Wrote(m, Key(c)) /\ reply[c].version < found[m].version =>
            \E d \in Calls \ {c} :
                /\ Answered(d) /\ IsValidation(d) /\ Key(d) = Key(c)
                /\ Overlap(d, m) \/ reply[m] = Failure
                /\ reply[d] = reply[c]
                /\ began[c] <= ended[d] + TTL

\* Another call gave the key of c a different name while c was under way.
RenamedMeanwhile(c) ==
    \E z \in Calls \ {c} :
        /\ Overlap(c, z) /\ found[z] # NULL
        /\ request[z].op = "update" /\ Key(z) = Key(c)
        /\ request[z].name \notin {NULL, request[c].name}

\* Two active keys share a name only if the calls that named them overlapped,
\* for no unique index guards the name; or if one of them, having seen that
\* name on its key and so checked nothing, wrote it back after another call had
\* given the key a different one.
DuplicateNamesOverlap ==
    \A k, l \in Keys :
        /\ k # l /\ IsActive(k) /\ IsActive(l)
        /\ row[k].name = row[l].name
        /\ row[k].namedBy # NULL /\ row[l].namedBy # NULL
        => \/ Overlap(row[k].namedBy, row[l].namedBy)
           \/ \E j \in {k, l} : request[row[j].namedBy].op = "update" /\ RenamedMeanwhile(row[j].namedBy)

(* What the documentation says and the code does not do.                   *)

\* api-key.controller.ts: "Revoked keys become inactive immediately."
RevokedInactive ==
    \A c \in Calls : Answered(c) /\ IsValidation(c) /\ reply[c].isValid =>
        ~ \E m \in before[c] : Answered(m) /\ Wrote(m, Key(c)) /\ request[m].op = "revoke"
=============================================================================
