----------------------------- MODULE TenancyProofs -----------------------------
(***************************************************************************)
(* Who may share a name, and what a deletion may take: theorems about      *)
(* tenants and workspaces for every value of the constants.  The last part *)
(* is about onboarding: who gets two tenants, and who is kept out of his.  *)
(***************************************************************************)
EXTENDS Tenancy, Onboarding, TLAPS

CreateSteps == {"findTenant", "findDuplicate", "insert", "saveProfile", "grant", "commit"}
RenameSteps == {"find", "findOther", "update"}
RemoveSteps == {"remove", "blocked"}
DeleteSteps == {"count"} \cup RemoveSteps
TxSteps == {"saveProfile", "grant", "commit"}
Replies == {"done", "failed", "conflict", "not found"}

\* The fields of a request are those of its operation.
LEMMA RequestFields ==
    ASSUME NEW r \in Requests
    PROVE  /\ r.op \in {"create", "rename", "delete"}
           /\ r.op = "create" => r.user \in Users /\ r.tenant \in TenantIds \cup {NULL} /\ r.name \in Names
           /\ r.op = "rename" => r.id \in Ids /\ r.name \in Names
           /\ r.op = "delete" => r.id \in Ids
BY TenancyAssumption DEF AllRequests

-----------------------------------------------------------------------------
(* Types, and what each call knows at each await.                          *)

NewRow(c) == [tenant |-> request[c].tenant, name |-> request[c].name, namedBy |-> c]

CallOK(c) ==
    /\ pc[c] # "idle" => request[c] \in Requests
    /\ pc[c] # "done" => reply[c] = NULL
    /\ pc[c] \in CreateSteps => request[c].op = "create"
    /\ pc[c] \in RenameSteps => request[c].op = "rename"
    /\ pc[c] \in DeleteSteps => request[c].op = "delete"
    /\ pc[c] \in RenameSteps \cup DeleteSteps => target[c] = request[c].id /\ target[c] \in given
    /\ pc[c] = "grant" => request[c].tenant # NULL
    /\ pc[c] \in TxSteps => target[c] \in given /\ IsTenant(target[c]) = (request[c].tenant = NULL)
    /\ tx[c] # NULL => pc[c] \in TxSteps /\ tx[c] = NewRow(c)

\* Transactions insert rows of their own, which do not exist before they commit.
TxOK ==
    /\ \A c, d \in Calls : pc[c] \in TxSteps /\ pc[d] \in TxSteps /\ target[c] = target[d] => c = d
    /\ \A c \in Calls : tx[c] # NULL => ~Exists(target[c])

\* Tenants have no tenant, workspaces have one, and who named a row has begun.
RowOK(id) ==
    Exists(id) => /\ IsTenant(id) = (row[id].tenant = NULL)
                  /\ row[id].namedBy # NULL => pc[row[id].namedBy] # "idle"

\* A workspace that does not exist holds nothing.
DeadEmpty == \A w \in WorkspaceIds : ~Exists(w) => ActiveData(w) = {}

\* What a deletion found at its start is kept for each call.
HeldOK == held = [c \in Calls |-> held[c]]

TypeInv ==
    /\ TypeOK
    /\ HeldOK
    /\ DeadEmpty
    /\ \A c \in Calls : CallOK(c)
    /\ TxOK
    /\ \A id \in Ids : RowOK(id)

LEMMA InitTypeInv == Init => TypeInv
<1> SUFFICES ASSUME Init PROVE TypeInv
  OBVIOUS
<1> USE TenancyAssumption DEF Init
<1>1. row \in [Ids -> Rows \cup {NULL}] /\ \A id \in Ids : Exists(id) => id \in FirstTenants
  BY DEF Ids, Rows, Exists
<1>2. TypeOK
  BY <1>1 DEF TypeOK, Steps, Ids, Open
<1>3. \A c \in Calls : CallOK(c)
  BY DEF CallOK, CreateSteps, RenameSteps, DeleteSteps, RemoveSteps, TxSteps
<1>4. TxOK
  BY DEF TxOK, TxSteps
<1>5. \A id \in Ids : RowOK(id)
  BY <1>1 DEF RowOK, IsTenant, Exists
<1>6. DeadEmpty
  BY DEF DeadEmpty, ActiveData, IsTenant
<1> QED
  BY <1>2, <1>3, <1>4, <1>5, <1>6 DEF TypeInv, HeldOK

-----------------------------------------------------------------------------
(* What a step does to the calls and to the rows, whatever its action.     *)

OthersStay(c) ==
    \A d \in Calls : d # c =>
        /\ pc'[d] = pc[d] /\ request'[d] = request[d] /\ reply'[d] = reply[d] /\ target'[d] = target[d]
        /\ tx'[d] = tx[d] /\ before'[d] = before[d] /\ held'[d] = held[d]

\* The row that c creates is the one of its transaction.
Creates(c, id) == pc[c] = "commit" /\ tx[c] # NULL /\ id = target[c] /\ row'[id] = NewRow(c)

\* The row that c renames had another name.
Renames(c, id) ==
    /\ pc[c] = "update" /\ id = target[c] /\ Exists(id)
    /\ row[id].name # request[c].name
    /\ row'[id] = [row[id] EXCEPT !.name = request[c].name, !.namedBy = c]
    /\ reply'[c] \in {"done", "failed"}

RowsChange(c) ==
    \A id \in Ids :
        \/ row'[id] = row[id]
        \/ row'[id] = NULL
        \/ Creates(c, id)
        \/ Renames(c, id)

\* What a workspace holds stays as long as its row does.
DataStays ==
    \A w \in WorkspaceIds : Exists(w) /\ Exists(w)' => ActiveData(w) \subseteq ActiveData(w)'

\* What the step that c has taken says of what it found.
Found(c) ==
    /\ pc'[c] \in {"insert", "findOther", "update", "remove", "blocked"} => UNCHANGED <<row, data, members>>
    /\ pc'[c] \notin {"find", "count"}
    /\ pc'[c] = "insert" => ~NameTaken(request[c].tenant, request[c].name, NULL)
    /\ pc'[c] = "findOther" => Exists(target[c])
    /\ pc'[c] = "update" =>
          \/ pc[c] = "find" /\ Exists(target[c]) /\ row[target[c]].name = request[c].name
          \/ /\ pc[c] = "findOther"
             /\ Exists(target[c]) => ~NameTaken(row[target[c]].tenant, request[c].name, target[c])
    /\ pc'[c] = "remove" => pc[c] = "count" /\ Exists(target[c]) /\ ActiveData(target[c]) = {}
    /\ pc'[c] = "blocked" => pc[c] = "remove"

\* The transaction of c goes on, ends, or begins with an id never given before.
TxChange(c) ==
    /\ tx'[c] # NULL => row' = row
    /\ \/ target'[c] = target[c] /\ tx'[c] \in {NULL, tx[c]} /\ (pc'[c] \in TxSteps => pc[c] \in TxSteps)
       \/ pc[c] = "insert" /\ target'[c] \notin given

\* A call under way takes a step.
Works(c) ==
    /\ InFlight(c) /\ OthersStay(c) /\ RowsChange(c) /\ TxChange(c) /\ Found(c)
    /\ UNCHANGED <<request, before, held>>
    /\ pc'[c] # "idle" /\ CallOK(c)' /\ TypeOK' /\ DeadEmpty'
    /\ given \subseteq given' /\ DataStays

\* A call begins.
Starts(c) ==
    /\ pc[c] = "idle" /\ OthersStay(c) /\ UNCHANGED <<row, data, members, given>>
    /\ pc'[c] \in {"findTenant", "findDuplicate", "find", "count"} /\ CallOK(c)' /\ TypeOK'
    /\ tx'[c] = NULL
    /\ before'[c] = {d \in Calls : pc[d] = "done"} /\ HeldOK'
    /\ pc'[c] = "count" => held'[c] = ActiveData(target'[c])

\* Something is stored in a workspace, or nothing happens.
Outside ==
    /\ UNCHANGED <<row, given, pc, request, reply, tx, target, before, held>>
    /\ TypeOK' /\ DeadEmpty' /\ DataStays

\* Where a call goes.
LEMMA PcAfter ==
    ASSUME TypeInv, NEW c \in Calls, InFlight(c)
    PROVE  /\ \A step \in Steps : Goto(c, step) =>
                 /\ pc'[c] = step /\ reply'[c] = NULL /\ pc' \in [Calls -> Steps \cup {"idle", "done"}]
                 /\ reply' \in [Calls -> Replies \cup {NULL}]
                 /\ \A d \in Calls : d # c => pc'[d] = pc[d] /\ reply'[d] = reply[d]
           /\ \A r \in Replies : Return(c, r) =>
                 /\ pc'[c] = "done" /\ reply'[c] = r /\ pc' \in [Calls -> Steps \cup {"idle", "done"}]
                 /\ reply' \in [Calls -> Replies \cup {NULL}]
                 /\ \A d \in Calls : d # c => pc'[d] = pc[d] /\ reply'[d] = reply[d]
<1>1. /\ pc \in [Calls -> Steps \cup {"idle", "done"}] /\ reply \in [Calls -> Replies \cup {NULL}]
      /\ reply[c] = NULL
  BY DEF TypeInv, TypeOK, CallOK, InFlight, Steps, Replies
<1> QED
  BY <1>1 DEF Goto, Return

\* Tables that are not written stay as they are.
LEMMA SameTables ==
    ASSUME TypeInv, UNCHANGED <<row, data, members>>
    PROVE  /\ DeadEmpty' /\ DataStays /\ \A c \in Calls : RowsChange(c)
           /\ \A id \in Ids : Exists(id)' = Exists(id)
BY DEF TypeInv, DeadEmpty, DataStays, RowsChange, ActiveData, Exists, WorkspacesOf

\* Steps that only read and go on, or end the call.
LEMMA ReadShape ==
    ASSUME TypeInv, NEW c \in Calls, InFlight(c), UNCHANGED <<tables, locals, target>>,
           faults' \in 0..MaxFaults, tx' \in {tx, Closed(c)},
           NEW step \in Steps \cup {"done"},
           step \in Steps => Goto(c, step),
           step = "done" => \E r \in Replies : Return(c, r),
           step \in CreateSteps => pc[c] \in CreateSteps,
           step \in RenameSteps => pc[c] \in RenameSteps,
           step \in DeleteSteps => pc[c] \in DeleteSteps,
           step \in TxSteps => pc[c] \in TxSteps,
           step = "grant" => request[c].tenant # NULL,
           step \notin TxSteps => tx' = Closed(c) \/ tx[c] = NULL,
           pc'[c] = step => Found(c)
    PROVE  Works(c)
<1> USE DEF tables, locals
<1>1. /\ pc'[c] = step /\ (step # "done" => reply'[c] = NULL)
      /\ pc' \in [Calls -> Steps \cup {"idle", "done"}] /\ reply' \in [Calls -> Replies \cup {NULL}]
      /\ \A d \in Calls : d # c => pc'[d] = pc[d] /\ reply'[d] = reply[d]
  BY PcAfter DEF Steps
<1>2. /\ tx' \in [Calls -> Rows \cup {NULL}] /\ tx'[c] \in {NULL, tx[c]}
      /\ \A d \in Calls : d # c => tx'[d] = tx[d]
      /\ step \notin TxSteps => tx'[c] = NULL
  BY DEF TypeInv, TypeOK, Closed
<1>3. CallOK(c) /\ pc[c] \in Steps /\ pc[c] # "idle" /\ pc[c] # "done" /\ step # "idle"
  BY DEF TypeInv, InFlight, Steps
<1>4. CallOK(c)'
  BY <1>1, <1>2, <1>3 DEF CallOK, NewRow
<1>5. \A d \in Calls : tx'[d] # NULL => pc'[d] \in TxSteps
  BY <1>1, <1>2 DEF TypeInv, CallOK
<1>6. TypeOK'
  BY <1>1, <1>2, <1>5, SameTables DEF TypeInv, TypeOK, Replies, TxSteps, Open
<1>7. OthersStay(c) /\ TxChange(c)
  BY <1>1, <1>2 DEF OthersStay, TxChange
<1> QED
  BY <1>1, <1>3, <1>4, <1>6, <1>7, SameTables DEF Works

LEMMA LookShape ==
    ASSUME TypeInv, NEW c \in Calls,
           FindTenant(c) \/ FindDuplicate(c) \/ Find(c) \/ FindOther(c) \/ Count(c) \/ Block(c)
    PROVE  Works(c)
<1> USE DEF At, tables, locals
<1>1. /\ InFlight(c) /\ UNCHANGED <<tables, locals, target, tx>> /\ faults' \in 0..MaxFaults
      /\ pc[c] \in {"findTenant", "findDuplicate", "find", "findOther", "count", "remove"} /\ tx[c] = NULL
  BY DEF FindTenant, FindDuplicate, Find, FindOther, Count, Block, InFlight, Steps, TypeInv, TypeOK, CallOK, TxSteps
<1>2. ASSUME pc[c] = "findTenant", Goto(c, "findDuplicate") PROVE Works(c)
  BY <1>1, <1>2, ReadShape DEF Steps, CreateSteps, RenameSteps, DeleteSteps, RemoveSteps, TxSteps, Found
<1>3. ASSUME pc[c] = "findDuplicate", Goto(c, "insert"), ~NameTaken(request[c].tenant, request[c].name, NULL)
      PROVE  Works(c)
  BY <1>1, <1>3, ReadShape DEF Steps, CreateSteps, RenameSteps, DeleteSteps, RemoveSteps, TxSteps, Found
<1>4. ASSUME pc[c] = "find", Exists(target[c]), row[target[c]].name = request[c].name, Goto(c, "update")
      PROVE  Works(c)
  BY <1>1, <1>4, ReadShape DEF Steps, CreateSteps, RenameSteps, DeleteSteps, RemoveSteps, TxSteps, Found
<1>5. ASSUME pc[c] = "find", Exists(target[c]), Goto(c, "findOther") PROVE Works(c)
  BY <1>1, <1>5, ReadShape DEF Steps, CreateSteps, RenameSteps, DeleteSteps, RemoveSteps, TxSteps, Found
<1>6. ASSUME pc[c] = "findOther", Goto(c, "update"),
             Exists(target[c]) => ~NameTaken(row[target[c]].tenant, request[c].name, target[c])
      PROVE  Works(c)
  BY <1>1, <1>6, ReadShape DEF Steps, CreateSteps, RenameSteps, DeleteSteps, RemoveSteps, TxSteps, Found
<1>7. ASSUME pc[c] = "count", Exists(target[c]), ActiveData(target[c]) = {}, Goto(c, "remove") PROVE Works(c)
  BY <1>1, <1>7, ReadShape DEF Steps, CreateSteps, RenameSteps, DeleteSteps, RemoveSteps, TxSteps, Found
<1>9. ASSUME pc[c] = "remove", Goto(c, "blocked") PROVE Works(c)
  BY <1>1, <1>9, ReadShape DEF Steps, CreateSteps, RenameSteps, DeleteSteps, RemoveSteps, TxSteps, Found
<1>8. ASSUME \E r \in {"not found", "conflict"} : Return(c, r) PROVE Works(c)
  <2>1. \E r \in Replies : Return(c, r) /\ r # "done"
    BY <1>8 DEF Replies
  <2>2. pc'[c] = "done" => Found(c)
    BY <1>1 DEF Found
  <2> QED
    BY <1>1, <2>1, <2>2, ReadShape DEF Steps, CreateSteps, RenameSteps, DeleteSteps, RemoveSteps, TxSteps
<1> QED
  BY <1>2, <1>3, <1>4, <1>5, <1>6, <1>7, <1>8, <1>9 DEF FindTenant, FindDuplicate, Find, FindOther, Count, Counted, Block, TenantOf

\* A call ends without having written anything.
LEMMA FailShape ==
    ASSUME TypeInv, NEW c \in Calls, InFlight(c), UNCHANGED <<tables, locals, target>>,
           faults' \in 0..MaxFaults, tx' = Closed(c) \/ (tx' = tx /\ tx[c] = NULL), Return(c, "failed")
    PROVE  Works(c)
<1>1. \E r \in Replies : Return(c, r) /\ r # "done"
  BY DEF Replies
<1>2. reply'[c] = "failed"
  BY PcAfter DEF Replies
<1>3. pc'[c] = "done" => Found(c)
  BY <1>2 DEF Found
<1> QED
  BY <1>1, <1>3, ReadShape DEF Steps, CreateSteps, RenameSteps, DeleteSteps, RemoveSteps, TxSteps, Closed

\* The code of a transaction goes on, whether it is still open or not.
LEMMA TimeoutShape ==
    ASSUME TypeInv, NEW c \in Calls, TransactionTimeout(c)
    PROVE  Works(c)
<1> USE DEF tables, locals
<1>1. /\ pc[c] \in {"saveProfile", "grant"} /\ UNCHANGED <<tables, faults, pc, locals, target, reply>> /\ tx' = Closed(c)
      /\ InFlight(c) /\ CallOK(c)
  BY DEF TransactionTimeout, Expires, InFlight, Steps, TypeInv
<1>2. tx' \in [Calls -> Rows \cup {NULL}] /\ tx'[c] = NULL /\ \A d \in Calls : d # c => tx'[d] = tx[d]
  BY <1>1 DEF TypeInv, TypeOK, Closed
<1>3. CallOK(c)'
  BY <1>1, <1>2 DEF CallOK, CreateSteps, RenameSteps, DeleteSteps, RemoveSteps, TxSteps
<1>4. TypeOK'
  BY <1>1, <1>2 DEF TypeInv, TypeOK, Open, Exists
<1>5. OthersStay(c) /\ TxChange(c) /\ Found(c)
  BY <1>1, <1>2 DEF OthersStay, TxChange, Found
<1> QED
  BY <1>1, <1>3, <1>4, <1>5, SameTables DEF Works

LEMMA ErrorShape == ASSUME TypeInv, NEW c \in Calls, DatabaseError(c) PROVE Works(c)
<1> USE DEF At, tables, locals
<1>1. InFlight(c) /\ UNCHANGED <<tables, locals, target>> /\ faults' \in 0..MaxFaults
  <2>1. faults \in 0..MaxFaults /\ MaxFaults \in Nat
    BY TenancyAssumption DEF TypeInv, TypeOK
  <2> QED
    BY <2>1 DEF DatabaseError
<1>2. CASE pc[c] \in {"saveProfile", "grant"} /\ UNCHANGED tx
  <2>1. PICK step \in {"grant", "commit"} :
           Goto(c, step) /\ (step = "grant" => pc[c] = "saveProfile" /\ request[c].tenant # NULL)
    BY <1>2 DEF DatabaseError
  <2>2. pc'[c] = step => Found(c)
    BY <1>1, <1>2, <2>1 DEF Found
  <2> QED
    BY <1>1, <1>2, <2>1, <2>2, ReadShape DEF Steps, CreateSteps, RenameSteps, DeleteSteps, RemoveSteps, TxSteps
<1>3. CASE Return(c, "failed") /\ tx' = Closed(c)
  BY <1>1, <1>3, FailShape
<1> QED
  BY <1>2, <1>3 DEF DatabaseError

\* What a workspace holds depends on its data and its members.
LEMMA WorkspaceData ==
    ASSUME NEW w \in WorkspaceIds
    PROVE  /\ w \in Ids /\ ~IsTenant(w)
           /\ ActiveData(w) = {<<w, k>> : k \in data[w]} \cup {<<w, u>> : u \in {v \in Users : <<v, w>> \in members}}
           /\ ActiveData(w)' = {<<w, k>> : k \in data'[w]} \cup {<<w, u>> : u \in {v \in Users : <<v, w>> \in members'}}
BY TenancyAssumption DEF Ids, IsTenant, ActiveData

\* A transaction's profile and grant are written beside it.
LEMMA SideShape ==
    ASSUME TypeInv, NEW c \in Calls, SaveProfile(c) \/ Grant(c)
    PROVE  Works(c)
<1> USE DEF At, tables, locals
<1>1. /\ pc[c] \in {"saveProfile", "grant"} /\ InFlight(c) /\ CallOK(c) /\ request[c] \in Requests
      /\ request[c].op = "create" /\ pc[c] # "idle"
      /\ UNCHANGED <<row, given, data, faults, locals, tx, target>>
  BY DEF SaveProfile, Grant, InFlight, Steps, TypeInv, CallOK, CreateSteps
<1>2. PICK step \in {"grant", "commit"} :
         Goto(c, step) /\ (step = "grant" => request[c].tenant # NULL)
  BY DEF SaveProfile, Grant
<1>3. /\ pc'[c] = step /\ reply'[c] = NULL
      /\ pc' \in [Calls -> Steps \cup {"idle", "done"}] /\ reply' \in [Calls -> Replies \cup {NULL}]
      /\ \A d \in Calls : d # c => pc'[d] = pc[d] /\ reply'[d] = reply[d]
  BY <1>1, <1>2, PcAfter DEF Steps
<1>4. /\ profiles' \subseteq Users /\ members' \subseteq Users \X WorkspaceIds
      /\ members \subseteq members' /\ \A u \in Users, w \in WorkspaceIds : <<u, w>> \in members' => <<u, w>> \in members \/ Exists(w)
  <2>1. request[c].user \in Users
    BY <1>1, RequestFields
  <2>2. CASE SaveProfile(c)
    BY <2>1, <2>2 DEF SaveProfile, TypeInv, TypeOK
  <2>3. CASE Grant(c) /\ members' = members \cup {<<request[c].user, target[c]>>} /\ Exists(target[c])
    <3>1. target[c] \in WorkspaceIds
      BY <1>1, <2>3 DEF Grant, CallOK, TxSteps, IsTenant, TypeInv, TypeOK, Ids
    <3>2. <<request[c].user, target[c]>> \in Users \X WorkspaceIds
      BY <2>1, <3>1
    <3>3. members' \subseteq Users \X WorkspaceIds /\ members \subseteq members'
      BY <2>3, <3>2 DEF TypeInv, TypeOK
    <3>4. ASSUME NEW u \in Users, NEW w \in WorkspaceIds, <<u, w>> \in members', <<u, w>> \notin members
          PROVE  Exists(w)
      <4>1. w = target[c]
        BY <2>3, <3>4
      <4> QED
        BY <2>3, <4>1
    <3>5. profiles' = profiles
      BY <2>3 DEF Grant
    <3> QED
      BY <3>3, <3>4, <3>5 DEF TypeInv, TypeOK
  <2>4. CASE Grant(c) /\ members' = members
    BY <2>4 DEF Grant, TypeInv, TypeOK
  <2> QED
    BY <2>2, <2>3, <2>4 DEF Grant
<1>5. \A id \in Ids : Exists(id)' = Exists(id)
  BY <1>1 DEF Exists
<1>6. CallOK(c)'
  BY <1>1, <1>2, <1>3 DEF CallOK, CreateSteps, RenameSteps, DeleteSteps, RemoveSteps, TxSteps, NewRow
<1>7. TypeOK'
  <2>1. \A d \in Calls : tx[d] # NULL => pc'[d] \in TxSteps
    BY <1>3 DEF TypeInv, CallOK, TxSteps
  <2> QED
    BY <1>1, <1>3, <1>4, <1>5, <2>1 DEF TypeInv, TypeOK, Replies, TxSteps, Open
<1>8. DeadEmpty' /\ DataStays
  <2>1. ASSUME NEW w \in WorkspaceIds
        PROVE  /\ ActiveData(w) \subseteq ActiveData(w)'
               /\ ~Exists(w) => ActiveData(w)' \subseteq ActiveData(w)
    <3>1. /\ ActiveData(w) = {<<w, k>> : k \in data[w]} \cup {<<w, u>> : u \in {v \in Users : <<v, w>> \in members}}
          /\ ActiveData(w)' = {<<w, k>> : k \in data'[w]} \cup {<<w, u>> : u \in {v \in Users : <<v, w>> \in members'}}
      BY WorkspaceData
    <3> QED
      BY <1>1, <1>4, <3>1
  <2> QED
    BY <1>5, <2>1, WorkspaceData DEF TypeInv, DeadEmpty, DataStays
<1>9. RowsChange(c) /\ OthersStay(c) /\ TxChange(c) /\ Found(c)
  BY <1>1, <1>2, <1>3 DEF RowsChange, OthersStay, TxChange, Found, TxSteps
<1> QED
  BY <1>1, <1>3, <1>6, <1>7, <1>8, <1>9 DEF Works

LEMMA InsertShape == ASSUME TypeInv, NEW c \in Calls, Insert(c) PROVE Works(c)
<1> USE DEF At, tables, locals
<1>1. /\ pc[c] = "insert" /\ InFlight(c) /\ CallOK(c) /\ request[c] \in Requests
      /\ request[c].op = "create" /\ UNCHANGED <<row, data, profiles, members, faults, locals>>
      /\ tx[c] = NULL /\ NULL \notin Calls
  BY TenancyAssumption DEF Insert, InFlight, Steps, TypeInv, CallOK, CreateSteps, TxSteps
<1>2. CASE Return(c, "failed") /\ UNCHANGED <<given, tx, target>>
  BY <1>1, <1>2, FailShape DEF TypeInv, TypeOK
<1>3. CASE \E id \in (IF request[c].tenant = NULL THEN TenantIds ELSE WorkspaceIds) \ given :
              /\ given' = given \cup {id}
              /\ target' = [target EXCEPT ![c] = id]
              /\ tx' = [tx EXCEPT ![c] = NewRow(c)]
              /\ Goto(c, "saveProfile")
  <2>1. PICK id \in (IF request[c].tenant = NULL THEN TenantIds ELSE WorkspaceIds) \ given :
              /\ given' = given \cup {id}
              /\ target' = [target EXCEPT ![c] = id]
              /\ tx' = [tx EXCEPT ![c] = NewRow(c)]
              /\ Goto(c, "saveProfile")
    BY <1>3
  <2>2. id \in Ids /\ id \notin given /\ IsTenant(id) = (request[c].tenant = NULL)
    BY <2>1, TenancyAssumption DEF Ids, IsTenant
  <2>3. NewRow(c) \in Rows
    BY <1>1, RequestFields DEF NewRow, Rows
  <2>4. /\ pc'[c] = "saveProfile" /\ reply'[c] = NULL
        /\ pc' \in [Calls -> Steps \cup {"idle", "done"}] /\ reply' \in [Calls -> Replies \cup {NULL}]
        /\ \A d \in Calls : d # c => pc'[d] = pc[d] /\ reply'[d] = reply[d]
    BY <1>1, <2>1, PcAfter DEF Steps
  <2>5. /\ target'[c] = id /\ tx'[c] = NewRow(c) /\ \A d \in Calls : d # c => tx'[d] = tx[d] /\ target'[d] = target[d]
        /\ tx' \in [Calls -> Rows \cup {NULL}] /\ target' \in [Calls -> Ids \cup {NULL}]
    BY <2>1, <2>2, <2>3 DEF TypeInv, TypeOK
  <2>6. CallOK(c)'
    BY <1>1, <2>1, <2>2, <2>4, <2>5 DEF CallOK, CreateSteps, RenameSteps, DeleteSteps, RemoveSteps, TxSteps, NewRow, IsTenant
  <2>7. TypeOK'
    <3>1. \A d \in Calls : tx'[d] # NULL => pc'[d] \in TxSteps
      BY <2>4, <2>5 DEF TypeInv, CallOK, TxSteps
    <3>2. {x \in Ids : Exists(x)}' \subseteq given' /\ given' \subseteq Ids
      BY <1>1, <2>1, <2>2 DEF TypeInv, TypeOK, Exists
    <3>3. \A d \in Open' : pc'[d] \in {"saveProfile", "grant", "commit"}
      BY <3>1 DEF Open, TxSteps
    <3>4. /\ row' \in [Ids -> Rows \cup {NULL}] /\ data' \in [WorkspaceIds -> SUBSET Kinds]
          /\ profiles' \subseteq Users /\ members' \subseteq Users \X WorkspaceIds /\ faults' \in 0..MaxFaults
          /\ request' \in [Calls -> Requests \cup {NULL}] /\ before' \in [Calls -> SUBSET Calls]
      BY <1>1 DEF TypeInv, TypeOK
    <3> QED
      BY <2>4, <2>5, <3>2, <3>3, <3>4 DEF TypeOK, Replies
  <2>8. OthersStay(c) /\ TxChange(c) /\ Found(c)
    BY <1>1, <2>2, <2>4, <2>5 DEF OthersStay, TxChange, Found
  <2>9. given \subseteq given'
    BY <2>1
  <2> QED
    BY <1>1, <2>4, <2>6, <2>7, <2>8, <2>9, SameTables DEF Works
<1> QED
  BY <1>1, <1>2, <1>3 DEF Insert, NewRow

\* A call that writes the tables ends with it.
LEMMA WriteShape ==
    ASSUME TypeInv, NEW c \in Calls, InFlight(c), UNCHANGED <<given, profiles, locals, target>>,
           faults' \in 0..MaxFaults, tx' = Closed(c) \/ (tx' = tx /\ tx[c] = NULL),
           NEW r \in Replies, Return(c, r),
           row' \in [Ids -> Rows \cup {NULL}], \A id \in Ids : Exists(id)' => id \in given,
           data' \in [WorkspaceIds -> SUBSET Kinds], members' \subseteq Users \X WorkspaceIds,
           RowsChange(c), DeadEmpty', DataStays
    PROVE  Works(c)
<1> USE DEF locals
<1>1. /\ pc'[c] = "done" /\ reply'[c] = r
      /\ pc' \in [Calls -> Steps \cup {"idle", "done"}] /\ reply' \in [Calls -> Replies \cup {NULL}]
      /\ \A d \in Calls : d # c => pc'[d] = pc[d] /\ reply'[d] = reply[d]
  BY PcAfter
<1>2. tx' \in [Calls -> Rows \cup {NULL}] /\ tx'[c] = NULL /\ \A d \in Calls : d # c => tx'[d] = tx[d]
  BY DEF TypeInv, TypeOK, Closed
<1>3. CallOK(c) /\ pc[c] # "idle"
  BY DEF TypeInv, InFlight, Steps
<1>4. CallOK(c)'
  BY <1>1, <1>2, <1>3 DEF CallOK, CreateSteps, RenameSteps, DeleteSteps, RemoveSteps, TxSteps
<1>5. TypeOK'
  <2>1. {x \in Ids : Exists(x)}' \subseteq given' /\ given' \subseteq Ids
    BY DEF TypeInv, TypeOK
  <2>2. \A d \in Open' : pc'[d] \in {"saveProfile", "grant", "commit"}
    BY <1>1, <1>2 DEF Open, TypeInv, CallOK, TxSteps
  <2>3. /\ profiles' \subseteq Users /\ request' \in [Calls -> Requests \cup {NULL}]
        /\ target' \in [Calls -> Ids \cup {NULL}] /\ before' \in [Calls -> SUBSET Calls]
    BY DEF TypeInv, TypeOK
  <2> QED
    BY <1>1, <1>2, <2>1, <2>2, <2>3 DEF TypeOK, Replies
<1>6. OthersStay(c) /\ TxChange(c) /\ Found(c)
  BY <1>1, <1>2 DEF OthersStay, TxChange, Found, TxSteps
<1> QED
  BY <1>1, <1>4, <1>5, <1>6 DEF Works

\* The row of a transaction is stored when it commits.
LEMMA CommitShape ==
    ASSUME TypeInv, NEW c \in Calls, Commit(c) \/ (LostAnswer(c) /\ At(c, "commit"))
    PROVE  Works(c)
<1> USE DEF At, tables, locals
<1>1. /\ pc[c] = "commit" /\ InFlight(c) /\ CallOK(c) /\ tx' = Closed(c)
      /\ UNCHANGED <<given, data, profiles, members, locals, target>>
  BY DEF Commit, LostAnswer, MayRemove, InFlight, Steps, TypeInv
<1>2. faults' \in 0..MaxFaults
  <2>1. faults \in 0..MaxFaults /\ MaxFaults \in Nat
    BY TenancyAssumption DEF TypeInv, TypeOK
  <2> QED
    BY <2>1 DEF Commit, LostAnswer
<1>3. CASE UNCHANGED row /\ Return(c, "failed")
  BY <1>1, <1>2, <1>3, FailShape
<1>4. CASE tx[c] # NULL /\ row' = [row EXCEPT ![target[c]] = tx[c]] /\ \E r \in {"done", "failed"} : Return(c, r)
  <2>1. PICK r \in {"done", "failed"} : Return(c, r)
    BY <1>4
  <2>2. /\ target[c] \in given /\ target[c] \in Ids /\ ~Exists(target[c])
        /\ tx[c] = NewRow(c) /\ tx[c] \in Rows
    BY <1>1, <1>4 DEF CallOK, TxSteps, TypeInv, TypeOK, TxOK
  <2>3. /\ row' \in [Ids -> Rows \cup {NULL}]
        /\ row'[target[c]] = NewRow(c) /\ \A id \in Ids : id # target[c] => row'[id] = row[id]
    BY <1>4, <2>2 DEF TypeInv, TypeOK
  <2>4. Exists(target[c])'
    BY <1>1, <1>4, <2>2, <2>3 DEF Exists
  <2>5. /\ \A id \in Ids : Exists(id)' => id \in given
        /\ \A id \in Ids : Exists(id)' => Exists(id) \/ id = target[c]
    BY <2>2, <2>3 DEF Exists, TypeInv, TypeOK
  <2>6. RowsChange(c)
    BY <1>1, <1>4, <2>3 DEF RowsChange, Creates
  <2>7. DeadEmpty' /\ DataStays
    <3>1. ASSUME NEW w \in WorkspaceIds
          PROVE  ActiveData(w)' = ActiveData(w)
      BY <1>1, WorkspaceData
    <3>2. \A w \in WorkspaceIds : w \in Ids /\ (~Exists(w)' => ~Exists(w))
      BY <1>1, <2>2, <2>3, <2>4 DEF Exists, Ids
    <3> QED
      BY <3>1, <3>2 DEF DeadEmpty, DataStays, TypeInv
  <2>8. data' \in [WorkspaceIds -> SUBSET Kinds] /\ members' \subseteq Users \X WorkspaceIds
    BY <1>1 DEF TypeInv, TypeOK
  <2> QED
    BY <1>1, <1>2, <2>1, <2>3, <2>5, <2>6, <2>7, <2>8, WriteShape DEF Replies
<1> QED
  BY <1>1, <1>3, <1>4 DEF Commit, LostAnswer, MayRemove

\* A rename changes the row's name, or writes the one it has.
LEMMA UpdateShape ==
    ASSUME TypeInv, NEW c \in Calls, Update(c) \/ (LostAnswer(c) /\ At(c, "update"))
    PROVE  Works(c)
<1> USE DEF At, tables, locals
<1>1. /\ pc[c] = "update" /\ InFlight(c) /\ CallOK(c) /\ tx[c] = NULL
      /\ tx' = Closed(c) \/ tx' = tx
      /\ UNCHANGED <<given, data, profiles, members, locals, target>>
  BY DEF Update, LostAnswer, MayRemove, InFlight, Steps, TypeInv, CallOK, TxSteps
<1>2. faults' \in 0..MaxFaults
  <2>1. faults \in 0..MaxFaults /\ MaxFaults \in Nat
    BY TenancyAssumption DEF TypeInv, TypeOK
  <2> QED
    BY <2>1 DEF Update, LostAnswer
<1>3. CASE UNCHANGED row /\ Return(c, "failed")
  BY <1>1, <1>2, <1>3, FailShape
<1>4. CASE Exists(target[c]) /\ row' = Renamed(c) /\ \E r \in {"done", "failed"} : Return(c, r)
  <2>1. PICK r \in {"done", "failed"} : Return(c, r)
    BY <1>4
  <2>2. /\ target[c] \in given /\ target[c] \in Ids /\ row[target[c]] \in Rows
        /\ request[c] \in Requests /\ request[c].op = "rename" /\ request[c].name \in Names
    BY <1>1, <1>4, RequestFields DEF CallOK, RenameSteps, TypeInv, TypeOK, Exists
  <2>3. /\ \A id \in Ids : id # target[c] => row'[id] = row[id]
        /\ row'[target[c]] = IF row[target[c]].name = request[c].name THEN row[target[c]]
                             ELSE [row[target[c]] EXCEPT !.name = request[c].name, !.namedBy = c]
    BY <1>4, <2>2 DEF Renamed, TypeInv, TypeOK
  <2>4. row'[target[c]] \in Rows
    BY <2>2, <2>3 DEF Rows
  <2>5. row' \in [Ids -> Rows \cup {NULL}]
    BY <1>4, <2>2, <2>3, <2>4 DEF Renamed, TypeInv, TypeOK
  <2>6. \A id \in Ids : Exists(id)' = Exists(id)
    <3>1. row'[target[c]] # NULL
      BY <2>4, TenancyAssumption
    <3> QED
      BY <1>1, <1>4, <2>3, <3>1 DEF Exists
  <2>7. \A id \in Ids : Exists(id)' => id \in given
    BY <2>6 DEF TypeInv, TypeOK
  <2>8. reply'[c] = r
    BY <1>1, <2>1, PcAfter DEF Replies
  <2>9. RowsChange(c)
    BY <1>1, <1>4, <2>1, <2>3, <2>8 DEF RowsChange, Renames
  <2>10. DeadEmpty' /\ DataStays
    <3>1. \A w \in WorkspaceIds : ActiveData(w)' = ActiveData(w) /\ Exists(w)' = Exists(w)
      BY <1>1, <2>6, WorkspaceData
    <3> QED
      BY <3>1 DEF DeadEmpty, DataStays, TypeInv
  <2>11. data' \in [WorkspaceIds -> SUBSET Kinds] /\ members' \subseteq Users \X WorkspaceIds
    BY <1>1 DEF TypeInv, TypeOK
  <2> QED
    BY <1>1, <1>2, <2>1, <2>5, <2>7, <2>9, <2>10, <2>11, WriteShape DEF Replies
<1> QED
  BY <1>1, <1>3, <1>4 DEF Update, LostAnswer, MayRemove

\* A row goes with what it holds.
LEMMA RemoveShape ==
    ASSUME TypeInv, NEW c \in Calls, Remove(c) \/ (LostAnswer(c) /\ pc[c] \in RemoveSteps)
    PROVE  Works(c)
<1> USE DEF At, tables, locals
<1> DEFINE id == target[c]
           gone == {id} \cup (IF IsTenant(id) THEN WorkspacesOf(id) ELSE {})
<1>1. /\ pc[c] \in RemoveSteps /\ InFlight(c) /\ CallOK(c) /\ tx[c] = NULL
      /\ UNCHANGED <<given, profiles, locals, target>> /\ (tx' = Closed(c) \/ tx' = tx)
  BY DEF Remove, MayRemove, LostAnswer, InFlight, Steps, TypeInv, CallOK, TxSteps, RemoveSteps
<1>2. faults' \in 0..MaxFaults
  <2>1. faults \in 0..MaxFaults /\ MaxFaults \in Nat
    BY TenancyAssumption DEF TypeInv, TypeOK
  <2> QED
    BY <2>1 DEF Remove, LostAnswer
<1>3. CASE Return(c, "failed") /\ UNCHANGED <<row, data, members>>
  BY <1>1, <1>2, <1>3, FailShape
<1>4. CASE /\ Exists(id) /\ \E r \in {"done", "failed"} : Return(c, r)
           /\ row' = [x \in Ids |-> IF x \in gone THEN NULL ELSE row[x]]
           /\ data' = [w \in WorkspaceIds |-> IF w \in gone THEN {} ELSE data[w]]
           /\ members' = {m \in members : m[2] \notin gone}
  <2> HIDE DEF gone
  <2>1. row' \in [Ids -> Rows \cup {NULL}] /\ data' \in [WorkspaceIds -> SUBSET Kinds]
    BY <1>4 DEF TypeInv, TypeOK
  <2>2. members' \subseteq Users \X WorkspaceIds
    BY <1>4 DEF TypeInv, TypeOK
  <2>3. \A x \in Ids : row'[x] = IF x \in gone THEN NULL ELSE row[x]
    BY <1>4
  <2>4. \A x \in Ids : Exists(x)' => x \in given /\ Exists(x) /\ x \notin gone
    BY <2>3 DEF Exists, TypeInv, TypeOK
  <2>5. RowsChange(c)
    BY <2>3 DEF RowsChange
  <2>6. ASSUME NEW w \in WorkspaceIds
        PROVE  /\ w \in gone => ActiveData(w)' = {}
               /\ w \notin gone => ActiveData(w)' = ActiveData(w)
    <3>1. \A u \in Users : <<u, w>> \in members' <=> <<u, w>> \in members /\ w \notin gone
      BY <1>4
    <3>2. data'[w] = IF w \in gone THEN {} ELSE data[w]
      BY <1>4
    <3> QED
      BY <3>1, <3>2, WorkspaceData
  <2>7. DeadEmpty'
    <3>1. ASSUME NEW w \in WorkspaceIds, ~Exists(w)' PROVE ActiveData(w)' = {}
      <4>1. w \in gone \/ ~Exists(w)
        BY <2>3, <3>1, WorkspaceData DEF Exists
      <4> QED
        BY <4>1, <2>6 DEF TypeInv, DeadEmpty
    <3> QED
      BY <3>1 DEF DeadEmpty
  <2>8. DataStays
    BY <2>4, <2>6, WorkspaceData DEF DataStays
  <2>9. PICK r \in {"done", "failed"} : Return(c, r)
    BY <1>4
  <2> QED
    BY <1>1, <1>2, <2>1, <2>2, <2>4, <2>5, <2>7, <2>8, <2>9, WriteShape DEF Replies
<1> QED
  BY <1>1, <1>3, <1>4 DEF Remove, LostAnswer, Cascade, RemoveSteps

-----------------------------------------------------------------------------
(* Every step has one of the three shapes, and keeps the types.            *)

LEMMA StartsShape ==
    ASSUME TypeInv, NEW c \in Calls, NEW r \in Requests, Begin(c, r)
    PROVE  Starts(c)
<1> USE DEF At, tables
<1>1. /\ pc[c] = "idle" /\ UNCHANGED <<tables, faults, tx, reply>> /\ CallOK(c) /\ tx[c] = NULL /\ reply[c] = NULL
      /\ r.op # "create" => r.id \in given
  BY DEF Begin, Goto, TypeInv, CallOK, TxSteps
<1>2. /\ request' = [request EXCEPT ![c] = r]
      /\ before' = [before EXCEPT ![c] = {d \in Calls : Returned(d)}]
      /\ held' = [held EXCEPT ![c] = IF r.op = "delete" THEN ActiveData(r.id) ELSE {}]
      /\ target' = [target EXCEPT ![c] = IF r.op = "create" THEN NULL ELSE r.id]
  BY DEF Begin
<1>3. PICK step \in {"findTenant", "findDuplicate", "find", "count"} :
         /\ pc' = [pc EXCEPT ![c] = step]
         /\ step \in {"findTenant", "findDuplicate"} <=> r.op = "create"
         /\ step = "find" <=> r.op = "rename"
         /\ step = "count" <=> r.op = "delete"
  <2>1. CASE r.op = "create" /\ r.tenant # NULL
    BY <2>1 DEF Begin, Goto
  <2>2. CASE r.op = "create" /\ r.tenant = NULL
    BY <2>2 DEF Begin, Goto
  <2>3. CASE r.op = "rename"
    BY <2>3 DEF Begin, Goto
  <2>4. CASE r.op = "delete"
    BY <2>4 DEF Begin, Goto
  <2> QED
    BY <2>1, <2>2, <2>3, <2>4, RequestFields
<1>4. /\ pc' \in [Calls -> Steps \cup {"idle", "done"}] /\ pc'[c] = step /\ \A d \in Calls : d # c => pc'[d] = pc[d]
  BY <1>3 DEF TypeInv, TypeOK, Steps
<1>5. /\ request' \in [Calls -> Requests \cup {NULL}] /\ request'[c] = r
      /\ before' \in [Calls -> SUBSET Calls] /\ before'[c] = {d \in Calls : pc[d] = "done"}
      /\ target' \in [Calls -> Ids \cup {NULL}] /\ target'[c] = (IF r.op = "create" THEN NULL ELSE r.id)
      /\ \A d \in Calls : d # c => request'[d] = request[d] /\ before'[d] = before[d] /\ target'[d] = target[d]
  BY <1>2, RequestFields DEF TypeInv, TypeOK, Returned
<1>6. CallOK(c)'
  BY <1>1, <1>3, <1>4, <1>5 DEF CallOK, CreateSteps, RenameSteps, DeleteSteps, RemoveSteps, TxSteps
<1>7. TypeOK'
  <2>1. {x \in Ids : Exists(x)}' \subseteq given' /\ given' \subseteq Ids
    BY <1>1 DEF TypeInv, TypeOK, Exists
  <2>2. \A d \in Open' : pc'[d] \in {"saveProfile", "grant", "commit"}
    BY <1>1, <1>4 DEF Open, TypeInv, CallOK, TxSteps
  <2>3. /\ row' \in [Ids -> Rows \cup {NULL}] /\ data' \in [WorkspaceIds -> SUBSET Kinds]
        /\ profiles' \subseteq Users /\ members' \subseteq Users \X WorkspaceIds /\ faults' \in 0..MaxFaults
        /\ tx' \in [Calls -> Rows \cup {NULL}] /\ reply' \in [Calls -> {NULL, "done", "failed", "conflict", "not found"}]
    BY <1>1 DEF TypeInv, TypeOK
  <2> QED
    BY <1>4, <1>5, <2>1, <2>2, <2>3 DEF TypeOK
<1>8. /\ held'[c] = (IF r.op = "delete" THEN ActiveData(r.id) ELSE {})
      /\ \A d \in Calls : d # c => held'[d] = held[d]
      /\ HeldOK'
  BY <1>2 DEF TypeInv, HeldOK
<1>9. OthersStay(c)
  BY <1>1, <1>4, <1>5, <1>8 DEF OthersStay
<1> QED
  BY <1>1, <1>3, <1>4, <1>5, <1>6, <1>7, <1>8, <1>9 DEF Starts

LEMMA OutsideShape ==
    ASSUME TypeInv, UNCHANGED vars \/ \E w \in WorkspaceIds, kind \in Kinds : AddData(w, kind)
    PROVE  Outside
<1> USE DEF vars, tables, locals
<1>1. CASE UNCHANGED vars
  BY <1>1, SameTables DEF Outside, TypeInv, TypeOK, Exists, Open
<1>2. ASSUME NEW w \in WorkspaceIds, NEW kind \in Kinds, AddData(w, kind) PROVE Outside
  <2>1. /\ Exists(w) /\ UNCHANGED <<row, given, profiles, members, faults, pc, locals, tx, target, reply>>
        /\ data' = [data EXCEPT ![w] = @ \cup {kind}]
    BY <1>2 DEF AddData
  <2>2. data' \in [WorkspaceIds -> SUBSET Kinds] /\ \A x \in WorkspaceIds : data[x] \subseteq data'[x] /\ (x # w => data'[x] = data[x])
    BY <2>1 DEF TypeInv, TypeOK
  <2>3. TypeOK'
    BY <2>1, <2>2 DEF TypeInv, TypeOK, Exists, Open
  <2>4. ASSUME NEW x \in WorkspaceIds
        PROVE  ActiveData(x) \subseteq ActiveData(x)' /\ (x # w => ActiveData(x)' = ActiveData(x)) /\ Exists(x)' = Exists(x)
    <3>1. Exists(x)' = Exists(x)
      BY <2>1 DEF Exists
    <3>2. members' = members
      BY <2>1
    <3>3. ActiveData(x) \subseteq ActiveData(x)' /\ (x # w => ActiveData(x)' = ActiveData(x))
      BY <2>2, <3>2, WorkspaceData
    <3> QED
      BY <3>1, <3>3
  <2>5. DataStays /\ DeadEmpty'
    BY <2>1, <2>4 DEF DataStays, DeadEmpty, TypeInv
  <2> QED
    BY <2>1, <2>3, <2>5 DEF Outside
<1> QED
  BY <1>1, <1>2

LEMMA StepShape ==
    ASSUME TypeInv, [Next]_vars
    PROVE  Outside \/ \E c \in Calls : Starts(c) \/ Works(c)
<1>1. ASSUME NEW c \in Calls, NEW r \in Requests, Begin(c, r) PROVE Starts(c)
  BY <1>1, StartsShape
<1>2. ASSUME NEW c \in Calls, Progress(c) PROVE Works(c)
  BY <1>2, LookShape, SideShape, InsertShape, CommitShape, UpdateShape, RemoveShape DEF Progress
<1>3. ASSUME NEW c \in Calls, TransactionTimeout(c) \/ DatabaseError(c) \/ LostAnswer(c) PROVE Works(c)
  <2>1. LostAnswer(c) => At(c, "commit") \/ At(c, "update") \/ pc[c] \in RemoveSteps
    BY DEF LostAnswer, MayRemove, At, RemoveSteps
  <2> QED
    BY <1>3, <2>1, TimeoutShape, ErrorShape, CommitShape, UpdateShape, RemoveShape
<1>4. CASE \E w \in WorkspaceIds, kind \in Kinds : AddData(w, kind)
  BY <1>4, OutsideShape
<1>5. CASE AllReturned \/ UNCHANGED vars
  BY <1>5, OutsideShape DEF AllReturned
<1> QED
  BY <1>1, <1>2, <1>3, <1>4, <1>5 DEF Next

\* The fields of a row that exists.
LEMMA RowFields ==
    ASSUME TypeInv, NEW id \in Ids, Exists(id)
    PROVE  /\ row[id] \in Rows /\ row[id].namedBy \in Calls \cup {NULL}
           /\ row[id].tenant \in TenantIds \cup {NULL} /\ row[id].name \in Names
           /\ IsTenant(id) = (row[id].tenant = NULL)
           /\ row[id].namedBy # NULL => row[id].namedBy \in Calls /\ pc[row[id].namedBy] # "idle"
BY DEF TypeInv, TypeOK, RowOK, Exists, Rows

\* Who is under way after a step was under way before, or is the call that took it.
LEMMA NextTypeInv == ASSUME TypeInv, [Next]_vars PROVE TypeInv'
<1>1. CASE Outside
  <2>1. \A c \in Calls : CallOK(c)'
    BY <1>1 DEF Outside, TypeInv, CallOK, NewRow
  <2>2. TxOK' /\ \A id \in Ids : RowOK(id)'
    BY <1>1 DEF Outside, TypeInv, TxOK, RowOK, Exists
  <2> QED
    BY <1>1, <2>1, <2>2 DEF Outside, TypeInv, HeldOK
<1>2. ASSUME NEW c \in Calls, Starts(c) PROVE TypeInv'
  <2>1. ASSUME NEW d \in Calls PROVE CallOK(d)'
    <3>1. CASE d # c
      BY <1>2, <3>1 DEF Starts, OthersStay, TypeInv, CallOK, NewRow
    <3> QED
      BY <1>2, <3>1 DEF Starts
  <2>2. TxOK'
    BY <1>2 DEF Starts, OthersStay, TypeInv, TxOK, Exists, TxSteps
  <2>3. \A id \in Ids : RowOK(id)'
    <3>1. /\ row' = row /\ \A d \in Calls : pc[d] # "idle" => pc'[d] # "idle"
          /\ \A id \in Ids : Exists(id)' = Exists(id)
      BY <1>2 DEF Starts, OthersStay, Exists
    <3> QED
      BY <3>1, RowFields DEF RowOK
  <2>4. DeadEmpty'
    BY <1>2, SameTables DEF Starts
  <2> QED
    BY <1>2, <2>1, <2>2, <2>3, <2>4 DEF Starts, TypeInv
<1>3. ASSUME NEW c \in Calls, Works(c) PROVE TypeInv'
  <2>1. ASSUME NEW d \in Calls PROVE CallOK(d)'
    <3>1. CASE d # c
      BY <1>3, <3>1 DEF Works, OthersStay, TypeInv, CallOK, NewRow
    <3> QED
      BY <1>3, <3>1 DEF Works
  <2>2. TxOK'
    <3>1. ASSUME NEW a \in Calls, NEW b \in Calls, pc'[a] \in TxSteps, pc'[b] \in TxSteps, target'[a] = target'[b]
          PROVE  a = b
      BY <1>3, <3>1 DEF Works, OthersStay, TxChange, TypeInv, TxOK, CallOK
    <3>2. ASSUME NEW a \in Calls, tx'[a] # NULL PROVE row'[target'[a]] = NULL
      <4>1. CASE a # c
        <5>1. /\ tx[a] # NULL /\ target'[a] = target[a] /\ target[a] \in Ids /\ row[target[a]] = NULL
              /\ pc[a] \in TxSteps
          <6>1. tx[a] # NULL /\ target'[a] = target[a]
            BY <1>3, <3>2, <4>1 DEF Works, OthersStay
          <6>2. CallOK(a) /\ ~Exists(target[a]) /\ given \subseteq Ids
            BY <6>1 DEF TypeInv, TypeOK, TxOK
          <6> QED
            BY <6>1, <6>2 DEF CallOK, Exists
        <5>2. ~Creates(c, target[a])
          BY <4>1, <5>1 DEF Creates, TypeInv, TxOK, TxSteps
        <5>3. ~Renames(c, target[a])
          BY <5>1 DEF Renames, Exists
        <5> QED
          BY <1>3, <5>1, <5>2, <5>3 DEF Works, RowsChange
      <4>2. CASE a = c
        <5>1. row' = row /\ target'[a] \in Ids
          BY <1>3, <3>2, <4>2 DEF Works, TxChange, CallOK, TypeOK
        <5>2. CASE target'[c] = target[c] /\ tx'[c] \in {NULL, tx[c]}
          BY <3>2, <4>2, <5>1, <5>2 DEF TypeInv, TxOK, Exists
        <5>3. CASE target'[c] \notin given
          BY <4>2, <5>1, <5>3 DEF TypeInv, TypeOK, Exists
        <5> QED
          BY <1>3, <5>2, <5>3 DEF Works, TxChange
      <4> QED
        BY <4>1, <4>2
    <3> QED
      BY <3>1, <3>2 DEF TxOK, Exists
  <2>3. ASSUME NEW id \in Ids PROVE RowOK(id)'
    <3>1. CASE row'[id] = row[id]
      <4>1. \A d \in Calls : pc[d] # "idle" => pc'[d] # "idle"
        BY <1>3 DEF Works, OthersStay
      <4>2. Exists(id)' = Exists(id)
        BY <3>1 DEF Exists
      <4> QED
        BY <3>1, <4>1, <4>2, RowFields DEF RowOK
    <3>2. CASE row'[id] = NULL
      BY <3>2 DEF RowOK, Exists
    <3>3. CASE Creates(c, id)
      BY <1>3, <3>3 DEF Works, Creates, NewRow, RowOK, TypeInv, CallOK, TxSteps
    <3>4. CASE Renames(c, id)
      <4>1. Exists(id) /\ row[id] \in Rows /\ IsTenant(id) = (row[id].tenant = NULL)
        BY <3>4, RowFields DEF Renames
      <4>2. row'[id].tenant = row[id].tenant /\ row'[id].namedBy = c
        BY <3>4, <4>1 DEF Renames, Rows
      <4> QED
        BY <1>3, <4>1, <4>2 DEF Works, RowOK
    <3> QED
      BY <1>3, <3>1, <3>2, <3>3, <3>4 DEF Works, RowsChange
  <2> QED
    BY <1>3, <2>1, <2>2, <2>3 DEF Works, TypeInv, HeldOK
<1> QED
  BY <1>1, <1>2, <1>3, StepShape

\* Every variable has its type, each call knows what its step says it knows,
\* and an open transaction holds a row that is not there yet.
THEOREM TypeCorrect == Spec => []TypeInv
<1>1. Init => TypeInv
  BY InitTypeInv
<1>2. TypeInv /\ [Next]_vars => TypeInv'
  BY NextTypeInv
<1> QED
  BY <1>1, <1>2, PTL DEF Spec

-----------------------------------------------------------------------------
(* What stays true of ids, rows and calls.                                 *)

Step == Outside \/ \E c \in Calls : Starts(c) \/ Works(c)

\* No transaction that is still open inserts the row.
Settled(id) == id \in given /\ \A d \in Calls : tx[d] # NULL => target[d] # id

LEMMA ExistingSettled == ASSUME TypeInv, NEW id \in Ids, Exists(id) PROVE Settled(id)
BY DEF TypeInv, TypeOK, TxOK, Settled

\* A row that is gone does not come back, and one that stays keeps its tenant.
LEMMA SettledStays ==
    ASSUME TypeInv, Step, NEW id \in Ids, Settled(id)
    PROVE  Settled(id)' /\ (Exists(id)' => Exists(id) /\ row'[id].tenant = row[id].tenant)
<1>1. CASE Outside
  BY <1>1 DEF Outside, Settled, Exists
<1>2. ASSUME NEW c \in Calls, Starts(c) PROVE Settled(id)' /\ (Exists(id)' => Exists(id) /\ row'[id] = row[id])
  BY <1>2 DEF Starts, OthersStay, Settled, Exists
<1>3. ASSUME NEW c \in Calls, Works(c)
      PROVE  Settled(id)' /\ (Exists(id)' => Exists(id) /\ row'[id].tenant = row[id].tenant)
  <2>1. Settled(id)'
    BY <1>3 DEF Works, OthersStay, TxChange, Settled
  <2>2. ~Creates(c, id)
    BY DEF Creates, Settled
  <2>3. ASSUME Renames(c, id) PROVE Exists(id) /\ row'[id].tenant = row[id].tenant
    <3>1. Exists(id) /\ row[id] \in Rows
      BY <2>3, RowFields DEF Renames
    <3> QED
      BY <2>3, <3>1 DEF Renames, Rows
  <2> QED
    BY <1>3, <2>1, <2>2, <2>3 DEF Works, RowsChange, Exists
<1> QED
  BY <1>1, <1>2, <1>3 DEF Step

\* A row that is there after a step was there and is as it was, or the call
\* that took the step has named it.
LEMMA RowStep ==
    ASSUME TypeInv, NEW c \in Calls, Works(c), NEW id \in Ids, Exists(id)'
    PROVE  \/ row'[id] = row[id] /\ Exists(id)
           \/ Creates(c, id) /\ row'[id].namedBy = c
           \/ /\ Renames(c, id) /\ row'[id].namedBy = c
              /\ row'[id].tenant = row[id].tenant /\ row'[id].name = request[c].name
<1>1. CASE Renames(c, id)
  <2>1. row[id] \in Rows
    BY <1>1, RowFields DEF Renames
  <2> QED
    BY <1>1, <2>1 DEF Renames, Rows
<1>2. CASE Creates(c, id)
  BY <1>2 DEF Creates, NewRow
<1> QED
  BY <1>1, <1>2 DEF Works, RowsChange, Exists

\* The calls that had returned when another began have returned, and it is
\* none of them.
History(c) == \A d \in before[c] : pc[d] = "done" /\ d # c

LEMMA HistoryStays ==
    ASSUME TypeInv, Step, \A c \in Calls : History(c)
    PROVE  \A c \in Calls : History(c)'
<1>1. CASE Outside
  BY <1>1 DEF Outside, History
<1>2. ASSUME NEW c \in Calls, Starts(c), NEW d \in Calls, NEW e \in before'[d] PROVE pc'[e] = "done" /\ e # d
  <2>1. before[d] \subseteq Calls
    BY DEF TypeInv, TypeOK
  <2>2. e \in Calls /\ pc[e] = "done" /\ e # d
    BY <1>2, <2>1 DEF Starts, OthersStay, History
  <2> QED
    BY <1>2, <2>2 DEF Starts, OthersStay
<1>3. ASSUME NEW c \in Calls, Works(c), NEW d \in Calls, NEW e \in before'[d] PROVE pc'[e] = "done" /\ e # d
  <2>1. before'[d] = before[d] /\ before[d] \subseteq Calls
    BY <1>3 DEF Works, TypeInv, TypeOK
  <2>2. e \in Calls /\ pc[e] = "done" /\ e # d /\ e # c
    BY <1>3, <2>1 DEF Works, InFlight, Steps, History
  <2> QED
    BY <1>3, <2>2 DEF Works, OthersStay
<1> QED
  BY <1>1, <1>2, <1>3 DEF Step, History

\* A rename that another call undid stays undone.
LEMMA RenamedStays ==
    ASSUME TypeInv, Step, NEW c \in Calls, pc[c] # "idle", request[c].op = "rename", RenamedMeanwhile(c)
    PROVE  RenamedMeanwhile(c)'
<1>1. PICK z \in Calls : /\ Overlap(c, z) /\ reply[z] \in {"done", "failed"}
                         /\ request[z].op = "rename" /\ target[z] = target[c]
                         /\ request[z].name # request[c].name
  BY DEF RenamedMeanwhile
<1>2. pc[z] = "done"
  <2>1. reply[z] # NULL
    BY <1>1, TenancyAssumption
  <2> QED
    BY <2>1 DEF TypeInv, CallOK
<1> DEFINE same ==
             /\ request'[z] = request[z] /\ target'[z] = target[z]
             /\ reply'[z] = reply[z] /\ before'[z] = before[z]
             /\ request'[c] = request[c] /\ target'[c] = target[c] /\ before'[c] = before[c]
<1>3. same
  <2>1. CASE Outside
    BY <2>1 DEF Outside
  <2>2. ASSUME NEW d \in Calls, Starts(d) PROVE same
    BY <1>2, <2>2 DEF Starts, OthersStay
  <2>3. ASSUME NEW d \in Calls, Works(d) PROVE same
    <3>1. pc[c] # "insert"
      BY DEF TypeInv, CallOK, CreateSteps
    <3>2. d # z
      BY <1>2, <2>3 DEF Works, InFlight, Steps
    <3> QED
      BY <2>3, <3>1, <3>2 DEF Works, OthersStay, TxChange
  <2> QED
    BY <2>1, <2>2, <2>3 DEF Step
<1> QED
  BY <1>1, <1>3 DEF RenamedMeanwhile, Overlap

-----------------------------------------------------------------------------
(* Names: what a call that is about to write one knows of the others.      *)

\* A rename that has found its row, and a deletion that has, found it committed.
TargetOK(c) == pc[c] \in {"findOther", "update", "remove"} => Settled(target[c])

\* The row id, another than one's own, has the name and was named by a call.
Bears(id, tenant, name) ==
    /\ Exists(id) /\ IsTenant(id) = (tenant = NULL)
    /\ row[id].tenant = tenant /\ row[id].name = name /\ row[id].namedBy # NULL

\* Since the search, only calls that had not returned then have given the name.
CreateKnows(c) ==
    pc[c] \in {"insert"} \cup TxSteps =>
        \A id \in Ids : Bears(id, request[c].tenant, request[c].name) => row[id].namedBy \notin before[c]

\* The same of a rename that searched; one that did not has found the name on
\* its row, where it still is unless another rename has replaced it.
RenameKnows(c) ==
    pc[c] = "update" /\ Exists(target[c]) =>
        \/ row[target[c]].name = request[c].name
        \/ RenamedMeanwhile(c)
        \/ \A id \in Ids \ {target[c]} :
              Bears(id, row[target[c]].tenant, request[c].name) => row[id].namedBy \notin before[c]

NameInv ==
    /\ TypeInv
    /\ \A c \in Calls : History(c) /\ TargetOK(c) /\ CreateKnows(c) /\ RenameKnows(c)

\* A row that a step has named was named by a call that is under way.
LEMMA NamedNow ==
    ASSUME NameInv, NEW c \in Calls, Works(c), NEW id \in Ids, Exists(id)', NEW d \in Calls
    PROVE  \/ Exists(id) /\ row'[id] = row[id]
           \/ row'[id].namedBy = c /\ c \notin before[d]
<1>1. c \notin before[d]
  BY DEF NameInv, History, Works, InFlight, Steps
<1> QED
  BY <1>1, RowStep DEF NameInv

LEMMA TargetStays == ASSUME NameInv, Step, NEW c \in Calls PROVE TargetOK(c)'
<1> SUFFICES ASSUME pc'[c] \in {"findOther", "update", "remove"}
             PROVE  \E id \in Ids : target'[c] = id /\ Settled(id)
  BY SettledStays DEF NameInv, TargetOK, Settled
<1>1. ASSUME pc[c] \in {"findOther", "update", "remove"} PROVE target[c] \in Ids /\ Settled(target[c])
  BY <1>1 DEF NameInv, TargetOK, Settled, TypeInv, TypeOK
<1>2. CASE Outside
  BY <1>1, <1>2 DEF Outside
<1>3. ASSUME NEW d \in Calls, Starts(d) PROVE \E id \in Ids : target'[c] = id /\ Settled(id)
  BY <1>1, <1>3 DEF Starts, OthersStay
<1>4. ASSUME NEW d \in Calls, Works(d) PROVE \E id \in Ids : target'[c] = id /\ Settled(id)
  <2>1. CASE d # c
    BY <1>1, <1>4, <2>1 DEF Works, OthersStay
  <2>2. CASE d = c
    <3>1. /\ pc[c] \in {"findOther", "update", "remove"} \/ Exists(target[c])
          /\ pc[c] # "insert"
      BY <1>4, <2>2 DEF Works, Found, CallOK, NameInv, TypeInv, CreateSteps, RenameSteps, DeleteSteps, RemoveSteps
    <3>2. target'[c] = target[c] /\ target[c] \in given /\ given \subseteq Ids
      BY <1>4, <2>2, <3>1 DEF Works, TxChange, Found, CallOK, NameInv, TypeInv, TypeOK, RenameSteps, DeleteSteps, RemoveSteps, InFlight, Steps
    <3> QED
      BY <1>1, <3>1, <3>2, ExistingSettled DEF NameInv
  <2> QED
    BY <2>1, <2>2
<1> QED
  BY <1>2, <1>3, <1>4 DEF Step

LEMMA CreateKnowsStays == ASSUME NameInv, Step, NEW c \in Calls PROVE CreateKnows(c)'
<1>1. CASE Outside
  BY <1>1 DEF Outside, NameInv, CreateKnows, Bears, Exists
<1>2. ASSUME NEW d \in Calls, Starts(d) PROVE CreateKnows(c)'
  BY <1>2 DEF Starts, OthersStay, NameInv, CreateKnows, Bears, Exists, TxSteps
<1>3. ASSUME NEW d \in Calls, Works(d) PROVE CreateKnows(c)'
  <2> SUFFICES ASSUME pc'[c] \in {"insert"} \cup TxSteps,
                      NEW id \in Ids, Exists(id)', row'[id].namedBy # NULL,
                      IsTenant(id) = (request[c].tenant = NULL),
                      row'[id].tenant = request[c].tenant, row'[id].name = request[c].name
               PROVE  row'[id].namedBy \notin before[c]
    BY <1>3 DEF Works, CreateKnows, Bears
  <2>1. CASE pc[c] \in {"insert"} \cup TxSteps /\ Exists(id) /\ row'[id] = row[id]
    BY <2>1 DEF NameInv, CreateKnows, Bears
  <2>2. CASE d = c /\ pc'[c] = "insert"
    <3>1. ~NameTaken(request[c].tenant, request[c].name, NULL) /\ row' = row /\ id # NULL
      BY <1>3, <2>2, TenancyAssumption DEF Works, Found
    <3>2. Exists(id)
      BY <3>1 DEF Exists
    <3> QED
      BY <3>1, <3>2 DEF NameTaken
  <2>3. CASE pc[c] \in {"insert"} \cup TxSteps
    BY <1>3, <2>1, <2>3, NamedNow
  <2> QED
    BY <1>3, <2>2, <2>3 DEF Works, OthersStay, TxChange
<1> QED
  BY <1>1, <1>2, <1>3 DEF Step

LEMMA RenameKnowsStays == ASSUME NameInv, Step, NEW c \in Calls PROVE RenameKnows(c)'
<1>1. CASE pc'[c] # "update" \/ ~Exists(target[c])'
  BY <1>1 DEF RenameKnows
<1>2. CASE Outside
  <2>1. RenamedMeanwhile(c) => RenamedMeanwhile(c)'
    BY <1>2 DEF Outside, RenamedMeanwhile, Overlap
  <2> QED
    BY <1>2, <2>1 DEF Outside, NameInv, RenameKnows, Bears, Exists
<1>3. ASSUME NEW d \in Calls, Starts(d), pc'[c] = "update" PROVE RenameKnows(c)'
  <2>1. d # c /\ pc[c] = "update" /\ request[c].op = "rename" /\ pc[c] # "idle"
    BY <1>3 DEF Starts, OthersStay, NameInv, TypeInv, CallOK, RenameSteps
  <2>2. RenamedMeanwhile(c) => RenamedMeanwhile(c)'
    BY <2>1, RenamedStays DEF NameInv
  <2> QED
    BY <1>3, <2>1, <2>2 DEF Starts, OthersStay, NameInv, RenameKnows, Bears, Exists
<1>4. ASSUME NEW d \in Calls, Works(d), d = c, pc'[c] = "update" PROVE RenameKnows(c)'
  <2>1. UNCHANGED <<row, request, before>> /\ target'[c] = target[c]
    BY <1>4 DEF Works, Found, TxChange
  <2>2. Exists(target[c]) => \/ row[target[c]].name = request[c].name
                             \/ ~NameTaken(row[target[c]].tenant, request[c].name, target[c])
    BY <1>4 DEF Works, Found
  <2>3. ~NameTaken(row[target[c]].tenant, request[c].name, target[c])
        => \A id \in Ids \ {target[c]} : ~Bears(id, row[target[c]].tenant, request[c].name)
    BY DEF NameTaken, Bears
  <2> QED
    BY <2>1, <2>2, <2>3 DEF RenameKnows, Bears, Exists
<1>5. ASSUME NEW d \in Calls, Works(d), d # c, pc'[c] = "update", Exists(target[c])' PROVE RenameKnows(c)'
  <2>1. /\ pc[c] = "update" /\ request[c].op = "rename" /\ target[c] \in Ids /\ Settled(target[c])
        /\ UNCHANGED <<request, before>> /\ target'[c] = target[c]
    <3>1. pc[c] = "update" /\ UNCHANGED <<request, before>> /\ target'[c] = target[c]
      BY <1>5 DEF Works, OthersStay
    <3>2. CallOK(c) /\ TargetOK(c) /\ given \subseteq Ids
      BY DEF NameInv, TypeInv, TypeOK
    <3> QED
      BY <3>1, <3>2 DEF CallOK, TargetOK, RenameSteps, Settled
  <2>2. RenamedMeanwhile(c) => RenamedMeanwhile(c)'
    BY <2>1, RenamedStays DEF NameInv
  <2>3. PICK id \in Ids : id = target[c]
    BY <2>1
  <2>4. Exists(id)' /\ Exists(id) /\ row'[id].tenant = row[id].tenant
    BY <1>5, <2>1, <2>3, SettledStays DEF NameInv, Exists
  <2>5. CASE row'[id] = row[id]
    <3>1. ASSUME NEW x \in Ids \ {id}, Exists(x)', row'[x].namedBy # NULL,
                 IsTenant(x) = (row[id].tenant = NULL),
                 row'[x].tenant = row[id].tenant, row'[x].name = request[c].name,
                 ~Bears(x, row[id].tenant, request[c].name) \/ row[x].namedBy \notin before[c]
          PROVE  row'[x].namedBy \notin before[c]
      BY <1>5, <3>1, NamedNow DEF Bears
    <3> QED
      BY <2>1, <2>2, <2>3, <2>4, <2>5, <3>1 DEF NameInv, RenameKnows, Bears
  <2>6. CASE Renames(d, id) /\ row'[id].name = request[d].name
    <3>1. row'[id].name # request[c].name => RenamedMeanwhile(c)'
      <4>1. ~(c \in before[d]) /\ ~(d \in before[c])
        BY <1>5, <2>1 DEF NameInv, History, Works, InFlight, Steps
      <4>2. reply'[d] \in {"done", "failed"} /\ request[d].op = "rename" /\ target'[d] = id
        BY <1>5, <2>6 DEF Renames, Works, TxChange, NameInv, TypeInv, CallOK, RenameSteps
      <4> QED
        BY <2>1, <2>3, <2>6, <4>1, <4>2 DEF RenamedMeanwhile, Overlap
    <3> QED
      BY <2>1, <2>3, <3>1 DEF RenameKnows
  <2>7. ~Creates(d, id)
    BY <2>4 DEF NameInv, TypeInv, TxOK, Creates
  <2> QED
    BY <1>5, <2>4, <2>5, <2>6, <2>7, RowStep DEF NameInv
<1> QED
  BY <1>1, <1>2, <1>3, <1>4, <1>5 DEF Step

\* The condition of DuplicateNamesOverlap for one pair of rows.
Shared(id, other) ==
    /\ Exists(id) /\ Exists(other)
    /\ id # other /\ IsTenant(id) = IsTenant(other)
    /\ row[id].tenant = row[other].tenant /\ row[id].name = row[other].name
    /\ row[id].namedBy # NULL /\ row[other].namedBy # NULL

WroteBack(id) == request[row[id].namedBy].op = "rename" /\ RenamedMeanwhile(row[id].namedBy)

PairOK(id, other) ==
    Shared(id, other) => Overlap(row[id].namedBy, row[other].namedBy) \/ WroteBack(id) \/ WroteBack(other)

LEMMA PairMeaning == DuplicateNamesOverlap <=> \A id, other \in Ids : PairOK(id, other)
BY DEF DuplicateNamesOverlap, PairOK, Shared, WroteBack

\* A row that keeps its name stays written back, and two that keep theirs
\* stay named at the same time.
LEMMA KeptPair ==
    ASSUME NameInv, Step, NEW id \in Ids, NEW other \in Ids, PairOK(id, other),
           row'[id] = row[id], row'[other] = row[other]
    PROVE  PairOK(id, other)'
<1> SUFFICES ASSUME Shared(id, other)
             PROVE  \/ Overlap(row[id].namedBy, row[other].namedBy)'
                    \/ WroteBack(id)' \/ WroteBack(other)'
  BY DEF PairOK, Shared, Exists
<1>1. PICK a \in Calls, b \in Calls : /\ a = row[id].namedBy /\ b = row[other].namedBy
                                      /\ pc[a] # "idle" /\ pc[b] # "idle"
  BY RowFields DEF Shared, NameInv
<1>2. \A x \in Calls : pc[x] # "idle" => before'[x] = before[x] /\ request'[x] = request[x]
  <2>1. CASE Outside
    BY <2>1 DEF Outside
  <2>2. ASSUME NEW d \in Calls, Starts(d) PROVE \A x \in Calls : pc[x] # "idle" => before'[x] = before[x] /\ request'[x] = request[x]
    BY <2>2 DEF Starts, OthersStay
  <2>3. ASSUME NEW d \in Calls, Works(d) PROVE \A x \in Calls : pc[x] # "idle" => before'[x] = before[x] /\ request'[x] = request[x]
    BY <2>3 DEF Works
  <2> QED
    BY <2>1, <2>2, <2>3 DEF Step
<1>3. ASSUME NEW x \in Calls, pc[x] # "idle", request[x].op = "rename", RenamedMeanwhile(x)
      PROVE  RenamedMeanwhile(x)'
  BY <1>3, RenamedStays DEF NameInv
<1>4. CASE Overlap(a, b)
  BY <1>1, <1>2, <1>4 DEF Overlap
<1>5. CASE request[a].op = "rename" /\ RenamedMeanwhile(a)
  BY <1>1, <1>2, <1>3, <1>5 DEF WroteBack
<1>6. CASE request[b].op = "rename" /\ RenamedMeanwhile(b)
  BY <1>1, <1>2, <1>3, <1>6 DEF WroteBack
<1> QED
  BY <1>1, <1>4, <1>5, <1>6 DEF PairOK, WroteBack

\* A row that a step names shares its name with none that the call could have seen.
LEMMA NamedPair ==
    ASSUME NameInv, NEW c \in Calls, Works(c), NEW id \in Ids, NEW other \in Ids, Shared(id, other)',
           Creates(c, id) \/ Renames(c, id), row'[id].namedBy = c, row'[other] = row[other]
    PROVE  Overlap(c, row[other].namedBy)' \/ (request'[c].op = "rename" /\ RenamedMeanwhile(c)')
<1>1. Exists(other) /\ row[other].namedBy \in Calls /\ row[other].namedBy # NULL /\ IsTenant(other) = (row[other].tenant = NULL)
  BY RowFields DEF Shared, Exists, NameInv
<1>2. c \notin before[row[other].namedBy] /\ UNCHANGED <<before, request>>
  BY <1>1 DEF NameInv, History, Works, InFlight, Steps
<1>3. CASE Creates(c, id)
  <2>1. Bears(other, request[c].tenant, request[c].name)
    BY <1>1, <1>3 DEF Shared, Bears, Creates, NewRow
  <2>2. row[other].namedBy \notin before[c]
    BY <1>3, <2>1 DEF NameInv, CreateKnows, Creates, TxSteps
  <2> QED
    BY <1>1, <1>2, <2>2 DEF Overlap
<1>4. CASE Renames(c, id)
  <2>1. row'[id].tenant = row[id].tenant /\ row'[id].name = request[c].name
    <3>1. row[id] \in Rows
      BY <1>4, RowFields DEF Renames, NameInv
    <3> QED
      BY <1>4, <3>1 DEF Renames, Rows
  <2>2. Bears(other, row[id].tenant, request[c].name) /\ other # id
    BY <1>1, <2>1 DEF Shared, Bears
  <2>3. CASE RenamedMeanwhile(c)
    <3>1. pc[c] # "idle" /\ request[c].op = "rename"
      BY <1>4 DEF Renames, NameInv, TypeInv, CallOK, RenameSteps
    <3> QED
      BY <1>2, <2>3, <3>1, RenamedStays DEF NameInv, Step
  <2>4. CASE row[other].namedBy \notin before[c]
    BY <1>1, <1>2, <2>4 DEF Overlap
  <2> QED
    BY <1>4, <2>2, <2>3, <2>4 DEF NameInv, RenameKnows, Renames
<1> QED
  BY <1>3, <1>4

LEMMA PairStays ==
    ASSUME NameInv, Step, \A x, y \in Ids : PairOK(x, y), NEW id \in Ids, NEW other \in Ids
    PROVE  PairOK(id, other)'
<1> SUFFICES ASSUME Shared(id, other)' PROVE PairOK(id, other)'
  BY DEF PairOK
<1>1. CASE Outside \/ \E c \in Calls : Starts(c)
  BY <1>1, KeptPair DEF Outside, Starts
<1>2. ASSUME NEW c \in Calls, Works(c) PROVE PairOK(id, other)'
  <2>1. /\ Exists(id)' /\ Exists(other)' /\ id # other
        /\ Shared(other, id)'
    BY DEF Shared
  <2>2. CASE row'[id] = row[id] /\ row'[other] = row[other]
    BY <2>2, KeptPair
  <2>3. CASE (Creates(c, id) \/ Renames(c, id)) /\ row'[id].namedBy = c /\ row'[other] = row[other]
    BY <1>2, <2>3, NamedPair DEF PairOK, WroteBack, Overlap
  <2>4. CASE (Creates(c, other) \/ Renames(c, other)) /\ row'[other].namedBy = c /\ row'[id] = row[id]
    BY <1>2, <2>1, <2>4, NamedPair DEF PairOK, WroteBack, Overlap
  <2>5. ~((Creates(c, id) \/ Renames(c, id)) /\ (Creates(c, other) \/ Renames(c, other)))
    BY <2>1 DEF Creates, Renames
  <2> QED
    BY <1>2, <2>1, <2>2, <2>3, <2>4, <2>5, RowStep DEF NameInv
<1> QED
  BY <1>1, <1>2 DEF Step

LEMMA InitNames == Init => NameInv /\ DuplicateNamesOverlap
<1> SUFFICES ASSUME Init PROVE NameInv /\ DuplicateNamesOverlap
  OBVIOUS
<1>1. TypeInv
  BY InitTypeInv
<1>2. \A c \in Calls : History(c) /\ TargetOK(c) /\ CreateKnows(c) /\ RenameKnows(c)
  BY DEF Init, History, TargetOK, CreateKnows, RenameKnows, TxSteps
<1>3. \A id \in Ids : Exists(id) => row[id].namedBy = NULL
  BY DEF Init, Exists
<1>4. DuplicateNamesOverlap
  BY <1>3 DEF DuplicateNamesOverlap
<1> QED
  BY <1>1, <1>2, <1>4 DEF NameInv

LEMMA NextNames ==
    ASSUME NameInv, DuplicateNamesOverlap, [Next]_vars
    PROVE  NameInv' /\ DuplicateNamesOverlap'
<1>1. TypeInv' /\ Step
  BY NextTypeInv, StepShape DEF NameInv, Step
<1>2. \A c \in Calls : History(c)'
  BY <1>1, HistoryStays DEF NameInv
<1>3. \A c \in Calls : TargetOK(c)' /\ CreateKnows(c)' /\ RenameKnows(c)'
  BY <1>1, TargetStays, CreateKnowsStays, RenameKnowsStays
<1>4. \A id, other \in Ids : PairOK(id, other)'
  BY <1>1, PairStays, PairMeaning
<1>5. DuplicateNamesOverlap'
  BY <1>4 DEF DuplicateNamesOverlap, PairOK, Shared, WroteBack
<1> QED
  BY <1>1, <1>2, <1>3, <1>5 DEF NameInv

\* Two tenants, or two workspaces of one tenant, share a name only if the
\* calls that named them overlapped, or one wrote back a name that another
\* call had meanwhile replaced: for any number of calls, tenants and workspaces.
THEOREM SharedNames == Spec => []DuplicateNamesOverlap
<1>1. Init => NameInv /\ DuplicateNamesOverlap
  BY InitNames
<1>2. NameInv /\ DuplicateNamesOverlap /\ [Next]_vars => NameInv' /\ DuplicateNamesOverlap'
  BY NextNames
<1> QED
  BY <1>1, <1>2, PTL DEF Spec

-----------------------------------------------------------------------------
(* Deletions: what was there at the start is not there at the end.         *)

\* A deletion of a workspace holds what the workspace still has, if it is
\* still there, until the count; of a tenant, the workspaces that are still
\* its own.  When it has counted, nothing of it is left.
HeldKnows(c) ==
    /\ pc[c] = "count" /\ target[c] \in WorkspaceIds =>
          held[c] = {} \/ (Settled(target[c]) /\ (Exists(target[c]) => held[c] \subseteq ActiveData(target[c])))
    /\ pc[c] \in RemoveSteps /\ target[c] \in WorkspaceIds => held[c] = {}
    /\ pc[c] = "count" /\ IsTenant(target[c]) =>
          \A w \in WorkspaceIds : <<w, "workspace">> \in held[c] =>
              Settled(w) /\ (Exists(w) => row[w].tenant = target[c])
    /\ pc[c] \in RemoveSteps /\ IsTenant(target[c]) =>
          \A w \in WorkspaceIds : <<w, "workspace">> \in held[c] => Settled(w) /\ ~Exists(w)

LEMMA TenantData ==
    ASSUME NEW t \in TenantIds
    PROVE  ActiveData(t) = {<<w, "workspace">> : w \in WorkspacesOf(t)} /\ IsTenant(t) /\ t \notin WorkspaceIds
BY TenancyAssumption DEF ActiveData, IsTenant

LEMMA HeldStart ==
    ASSUME TypeInv, NEW c \in Calls, Starts(c)
    PROVE  HeldKnows(c)'
<1>1. pc'[c] \notin RemoveSteps /\ row' = row /\ data' = data /\ members' = members
  BY DEF Starts, RemoveSteps
<1> SUFFICES ASSUME pc'[c] = "count"
             PROVE  /\ target'[c] \in WorkspaceIds =>
                          held'[c] = {} \/ (Settled(target[c])' /\ (Exists(target[c])' => held'[c] \subseteq ActiveData(target[c])'))
                    /\ IsTenant(target[c])' =>
                          \A w \in WorkspaceIds : <<w, "workspace">> \in held'[c] =>
                              Settled(w)' /\ (Exists(w)' => row'[w].tenant = target'[c])
  BY <1>1 DEF HeldKnows
<1>2. PICK id \in Ids : id = target'[c] /\ held'[c] = ActiveData(id)
  <2>1. target'[c] \in Ids
    BY DEF Starts, CallOK, TypeOK, DeleteSteps, RemoveSteps
  <2>2. held'[c] = ActiveData(target'[c])
    BY DEF Starts
  <2> QED
    BY <2>1, <2>2
<1>3. Step
  BY DEF Step
<1>4. CASE id \in WorkspaceIds
  <2>1. CASE ~Exists(id)
    BY <1>2, <1>4, <2>1, WorkspaceData DEF TypeInv, DeadEmpty, IsTenant
  <2>2. CASE Exists(id)
    <3>1. Settled(id)'
      BY <1>3, <2>2, ExistingSettled, SettledStays
    <3>2. ActiveData(id)' = ActiveData(id)
      BY <1>1, <1>4, WorkspaceData
    <3> QED
      BY <1>2, <1>4, <3>1, <3>2, WorkspaceData DEF IsTenant, Settled, Exists
  <2> QED
    BY <2>1, <2>2
<1>5. CASE id \in TenantIds
  <2>1. ASSUME NEW w \in WorkspaceIds, <<w, "workspace">> \in ActiveData(id)
        PROVE  Settled(w)' /\ row[w].tenant = id
    <3>1. Exists(w) /\ row[w].tenant = id /\ w \in Ids
      BY <1>5, <2>1, TenantData DEF WorkspacesOf, Ids
    <3> QED
      BY <1>3, <3>1, ExistingSettled, SettledStays
  <2> QED
    BY <1>1, <1>2, <1>5, <2>1, TenantData
<1> QED
  BY <1>4, <1>5 DEF Ids

LEMMA HeldStays ==
    ASSUME TypeInv, Step, NEW c \in Calls, HeldKnows(c)
    PROVE  HeldKnows(c)'
<1>1. ASSUME NEW d \in Calls, Starts(d), d = c PROVE HeldKnows(c)'
  BY <1>1, HeldStart
<1>2. ASSUME pc'[c] \in DeleteSteps, pc'[c] = pc[c] \/ (pc[c] = "remove" /\ pc'[c] = "blocked"), target'[c] = target[c], held'[c] = held[c], DataStays
      PROVE  HeldKnows(c)'
  <2>1. PICK id \in Ids : id = target[c]
    BY <1>2 DEF TypeInv, TypeOK, CallOK, DeleteSteps, RemoveSteps
  <2>2. ASSUME NEW x \in Ids, Settled(x) PROVE Settled(x)' /\ (Exists(x)' => Exists(x) /\ row'[x].tenant = row[x].tenant)
    BY <2>2, SettledStays
  <2>3. id \in WorkspaceIds /\ Exists(id) /\ Exists(id)' => ActiveData(id) \subseteq ActiveData(id)'
    BY <1>2 DEF DataStays
  <2>4. ASSUME pc[c] = "count", id \in WorkspaceIds
        PROVE  held[c] = {} \/ (Settled(id)' /\ (Exists(id)' => held[c] \subseteq ActiveData(id)'))
    BY <2>1, <2>2, <2>3, <2>4 DEF HeldKnows
  <2>5. ASSUME pc[c] = "count", IsTenant(id), NEW w \in WorkspaceIds, <<w, "workspace">> \in held[c]
        PROVE  Settled(w)' /\ (Exists(w)' => row'[w].tenant = id)
    BY <2>1, <2>2, <2>5, WorkspaceData DEF HeldKnows
  <2>6. ASSUME pc[c] \in RemoveSteps, IsTenant(id), NEW w \in WorkspaceIds, <<w, "workspace">> \in held[c]
        PROVE  Settled(w)' /\ ~Exists(w)'
    BY <2>1, <2>2, <2>6, WorkspaceData DEF HeldKnows
  <2>7. pc[c] \in RemoveSteps /\ id \in WorkspaceIds => held[c] = {}
    BY <2>1 DEF HeldKnows
  <2>8. target'[c] = id
    BY <1>2, <2>1
  <2> QED
    BY <1>2, <2>4, <2>5, <2>6, <2>7, <2>8 DEF HeldKnows, Settled, Exists, IsTenant, DeleteSteps, RemoveSteps
<1>3. ASSUME NEW d \in Calls, Works(d), d = c, pc'[c] = "remove" PROVE HeldKnows(c)'
  <2>1. /\ pc[c] = "count" /\ Exists(target[c]) /\ ActiveData(target[c]) = {}
        /\ UNCHANGED <<row, held>> /\ target'[c] = target[c]
    BY <1>3 DEF Works, Found, TxChange
  <2>2. target[c] \in WorkspaceIds => held[c] = {}
    BY <2>1 DEF HeldKnows
  <2>3. ASSUME IsTenant(target[c]), NEW w \in WorkspaceIds, <<w, "workspace">> \in held[c]
        PROVE  Settled(w)' /\ ~Exists(w)'
    <3>1. Settled(w) /\ (Exists(w) => row[w].tenant = target[c]) /\ w \in Ids
      BY <2>1, <2>3, WorkspaceData DEF HeldKnows
    <3>2. ActiveData(target[c]) = {<<x, "workspace">> : x \in WorkspacesOf(target[c])}
      BY <2>3 DEF ActiveData
    <3>3. ~Exists(w)
      BY <2>1, <3>1, <3>2 DEF WorkspacesOf
    <3> QED
      BY <2>1, <3>1, <3>3, SettledStays DEF Exists
  <2> QED
    BY <1>3, <2>1, <2>2, <2>3 DEF HeldKnows, IsTenant, RemoveSteps
<1>4. CASE pc'[c] \notin DeleteSteps
  BY <1>4 DEF HeldKnows, DeleteSteps, RemoveSteps
<1>5. CASE Outside
  BY <1>2, <1>4, <1>5 DEF Outside
<1>6. ASSUME NEW d \in Calls, Starts(d), d # c PROVE HeldKnows(c)'
  BY <1>2, <1>4, <1>6, SameTables DEF Starts, OthersStay
<1>7. ASSUME NEW d \in Calls, Works(d) PROVE HeldKnows(c)'
  BY <1>2, <1>3, <1>4, <1>7 DEF Works, OthersStay, Found, TxChange, DeleteSteps, RemoveSteps
<1> QED
  BY <1>1, <1>5, <1>6, <1>7 DEF Step

\* What a tenant or a workspace held when its deletion was asked for is not
\* deleted by it, whatever else is created, stored or deleted meanwhile.
THEOREM DeletionTakesNoOldData == Spec => DataAtStartSurvives
<1> DEFINE Inv == TypeInv /\ \A c \in Calls : HeldKnows(c)
<1>1. Init => Inv
  <2>1. Init => \A c \in Calls : HeldKnows(c)
    BY DEF Init, HeldKnows, RemoveSteps
  <2> QED
    BY <2>1, InitTypeInv
<1>2. Inv /\ [Next]_vars => Inv'
  <2> SUFFICES ASSUME Inv, [Next]_vars PROVE Inv'
    OBVIOUS
  <2>1. Step
    BY StepShape DEF Step
  <2>2. \A c \in Calls : HeldKnows(c)'
    BY <2>1, HeldStays
  <2> QED
    BY <2>2, NextTypeInv
<1>3. Inv /\ [Next]_vars =>
         [\A c \in Calls :
             pc[c] \in {"remove", "blocked"} /\ Exists(target[c]) /\ row'[target[c]] = NULL
             => held[c] \cap ActiveData(target[c]) = {}]_vars
  <2> SUFFICES ASSUME Inv, NEW c \in Calls, pc[c] \in RemoveSteps
               PROVE  held[c] \cap ActiveData(target[c]) = {}
    BY DEF RemoveSteps
  <2>1. target[c] \in Ids /\ HeldKnows(c)
    BY DEF TypeInv, TypeOK, CallOK, DeleteSteps, RemoveSteps
  <2>2. CASE target[c] \in WorkspaceIds
    BY <2>1, <2>2 DEF HeldKnows
  <2>3. CASE target[c] \in TenantIds
    <3>1. ActiveData(target[c]) = {<<w, "workspace">> : w \in WorkspacesOf(target[c])}
      BY <2>3 DEF ActiveData, IsTenant
    <3>2. \A w \in WorkspacesOf(target[c]) : w \in WorkspaceIds /\ Exists(w)
      BY DEF WorkspacesOf
    <3>3. \A w \in WorkspaceIds : <<w, "workspace">> \in held[c] => ~Exists(w)
      BY <2>1, <2>3 DEF HeldKnows, IsTenant
    <3> QED
      BY <3>1, <3>2, <3>3
  <2> QED
    BY <2>1, <2>2, <2>3 DEF Ids
<1> QED
  BY <1>1, <1>2, <1>3, PTL DEF Spec, DataAtStartSurvives

-----------------------------------------------------------------------------
(* The other way to a tenant: OnboardingService, proved about by itself.   *)

-----------------------------------------------------------------------------
(* Types, and what each call knows.                                        *)

Asking == {"lookUp", "read", "fill"}

\* What a call is, holds and knows.
OnboardCallOK(c) ==
    /\ pc[c] # "idle" => request[c] \in Onboardings
    /\ pc[c] \in Queries \cup {"answer"} => request[c].op = "onboard"
    /\ pc[c] \in Asking => request[c].op = "enter"
    /\ pc[c] = "fill" => found[c] \in {"none", "some"}
    /\ tenants[c] # NULL => pc[c] \in {"answer", "done"} /\ tenants[c] = request[c].name
    /\ pc[c] = "done" /\ reply[c] = "created" => tenants[c] # NULL
    /\ pc[c] = "done" /\ reply[c] = "none" => request[c].op = "enter"
    /\ \A d \in before[c] : pc[d] = "done"

OnboardTypeInv == OnboardTypeOK /\ \A c \in Calls : OnboardCallOK(c)

-----------------------------------------------------------------------------
(* Who is onboarded twice.                                                 *)

\* None of the calls that had returned made a tenant for the user.
NoAccessBefore(c) ==
    c \in blind \/ \A d \in before[c] : tenants[d] # NULL => request[d].user # request[c].user

\* None of them made one of that name.
NameFreeBefore(c) == \A d \in before[c] : tenants[d] # NULL => tenants[d] # request[c].name

SecondOK(c) ==
    /\ pc[c] \in {"findName", "transaction"} \/ tenants[c] # NULL => NoAccessBefore(c)
    /\ pc[c] = "transaction" \/ tenants[c] # NULL => NameFreeBefore(c)

SecondInv == \A c \in Calls : SecondOK(c)

-----------------------------------------------------------------------------
(* Who is kept out.                                                        *)

\* A request of the user looked his grants up while d was under way.
LookedUp(u, d) == \E q \in Calls : pc[q] # "idle" /\ request[q] = [op |-> "enter", user |-> u] /\ Overlap(q, d)

\* The cache says that the user has no grants although he was onboarded.
MappingOK(u) ==
    mapping[u] = "none" =>
        \A d \in Calls : pc[d] = "done" /\ reply[d] = "created" /\ request[d].user = u => LookedUp(u, d)

\* A request that read no grants came before all that onboarded its user.
KeptOutOK(c) ==
    /\ pc[c] = "fill" /\ found[c] = "none" =>
          \A d \in before[c] : tenants[d] # NULL => request[d].user # request[c].user
    /\ pc[c] = "done" /\ reply[c] = "none" /\ faults = 0 =>
          \A d \in before[c] : reply[d] = "created" /\ request[d].user = request[c].user
                               => LookedUp(request[c].user, d)

KeptOutInv == (\A u \in Users : MappingOK(u)) /\ \A c \in Calls : KeptOutOK(c)

-----------------------------------------------------------------------------
(* The kinds of steps.                                                     *)

\* The queries of some calls fail, and nothing else happens.
Fails(S, e) ==
    /\ S \subseteq AtDatabase /\ e \in Errors
    /\ FailAll(S, e)
    /\ faults < MaxFaults /\ faults' = faults + 1
    /\ UNCHANGED <<stores, request, found, before>>

\* A query is tried again.
Retries(c) ==
    /\ pc[c] \in Queries /\ attempt' = [attempt EXCEPT ![c] = 2]
    /\ faults < MaxFaults /\ faults' = faults + 1
    /\ UNCHANGED <<stores, pc, request, found, error, reply, before, blind>>

\* A call goes on by itself.
Advances(c) ==
    \/ CheckAccess(c) \/ FindName(c) \/ Transaction(c) \/ Answer(c) \/ LostCommit(c)
    \/ LookUp(c) \/ ReadGrants(c) \/ FillMapping(c)

\* A step is one of six kinds.
LEMMA StepOf ==
    ASSUME OnboardNext
    PROVE  \/ \E c \in Calls : \/ \E r \in Onboardings : BeginRequest(c, r)
                               \/ Advances(c) \/ Retries(c)
           \/ \E S \in SUBSET Calls : \E e \in Errors : Fails(S, e)
           \/ \E u \in Users : ExpireMapping(u)
           \/ UNCHANGED onboardVars
<1>1. ASSUME NEW c \in Calls, PreparedStatementError(c)
      PROVE  Retries(c) \/ \E e \in Errors : Fails({c}, e)
  BY <1>1 DEF PreparedStatementError, Retries, Fails, AtDatabase, Errors
<1>2. ASSUME NEW c \in Calls, QueryError(c)
      PROVE  \E e \in Errors : Fails({c}, e)
  BY <1>2 DEF QueryError, Fails, AtDatabase, Errors
<1>3. ASSUME NEW c \in Calls, NEW S \in SUBSET Calls, ResetHits(c, S)
      PROVE  Fails(S, "other")
  BY <1>3 DEF ResetHits, Fails, Errors
<1>4. "other" \in Errors /\ \A c \in Calls : {c} \in SUBSET Calls
  BY DEF Errors
<1> QED
  BY <1>1, <1>2, <1>3, <1>4 DEF OnboardNext, Advances, AllAnswered

\* What a call did and was told stays.
Grows ==
    /\ faults \in Nat => faults' \in Nat /\ faults <= faults'
    /\ blind \subseteq blind'
    /\ \A d \in Calls :
          /\ pc[d] # "idle" => pc'[d] # "idle" /\ request'[d] = request[d] /\ before'[d] = before[d]
          /\ pc[d] = "done" => pc'[d] = "done" /\ reply'[d] = reply[d] /\ tenants'[d] = tenants[d]

\* It does in every step.
LEMMA NextGrows ==
    ASSUME OnboardTypeInv, OnboardNext
    PROVE  Grows
<1>1. /\ pc \in [Calls -> OnboardSteps \cup {"idle", "done"}] /\ request \in [Calls -> Onboardings \cup {NULL}]
      /\ tenants \in [Calls -> Names \cup {NULL}] /\ before \in [Calls -> SUBSET Calls]
      /\ reply \in [Calls -> {NULL, "created", "conflict", "bad request", "internal error", "none", "some"}]
  BY DEF OnboardTypeInv, OnboardTypeOK
<1>2. ASSUME NEW c \in Calls, NEW r \in Onboardings, BeginRequest(c, r) PROVE Grows
  <2>1. /\ pc[c] = "idle" /\ UNCHANGED <<tenants, faults, blind, reply>>
        /\ \A d \in Calls \ {c} : pc'[d] = pc[d] /\ request'[d] = request[d] /\ before'[d] = before[d]
    BY <1>1, <1>2 DEF BeginRequest, Goto, At, stores
  <2> QED
    BY <2>1 DEF Grows
<1>3. ASSUME NEW c \in Calls, Advances(c) PROVE Grows
  <2>1. /\ pc[c] \in OnboardSteps /\ pc'[c] # "idle" /\ UNCHANGED <<request, before, blind>>
        /\ \A d \in Calls \ {c} : pc'[d] = pc[d] /\ reply'[d] = reply[d] /\ tenants'[d] = tenants[d]
    BY <1>1, <1>3 DEF Advances, CheckAccess, FindName, Transaction, Answer, LostCommit, LookUp, ReadGrants,
                      FillMapping,
                      At, Goto, Return, Throw, Proceed, stores, OnboardSteps, Queries
  <2>2. faults' = faults \/ faults' = faults + 1
    BY <1>3 DEF Advances, CheckAccess, FindName, Transaction, Answer, LostCommit, LookUp, ReadGrants, FillMapping,
                stores
  <2> QED
    BY <2>1, <2>2 DEF Grows, OnboardSteps, Queries
<1>4. ASSUME NEW c \in Calls, Retries(c) PROVE Grows
  BY <1>4 DEF Retries, Grows, stores
<1>5. ASSUME NEW S \in SUBSET Calls, NEW e \in Errors, Fails(S, e) PROVE Grows
  <2>1. \A d \in S : pc[d] \in Queries \cup {"read"}
    BY <1>5 DEF Fails, AtDatabase
  <2>2. \A d \in Calls : pc'[d] \in IF d \in S THEN {"findName", "answer", "done"} ELSE {pc[d]}
    BY <1>5 DEF Fails, FailAll, AfterFailure
  <2>3. \A d \in Calls : reply'[d] = IF d \in S /\ pc[d] = "read" THEN "none" ELSE reply[d]
    BY <1>5 DEF Fails, FailAll, At
  <2>4. blind \subseteq blind'
    BY <1>5 DEF Fails, FailAll
  <2> QED
    <3>1. faults' = faults + 1 /\ UNCHANGED <<tenants, request, before>>
      BY <1>5 DEF Fails, stores
    <3>2. faults \in Nat => faults' \in Nat /\ faults <= faults'
      BY <3>1
    <3>3. \A d \in Calls : /\ pc[d] # "idle" => pc'[d] # "idle"
                           /\ pc[d] = "done" => pc'[d] = "done" /\ reply'[d] = reply[d]
      BY <2>1, <2>2, <2>3 DEF Queries
    <3> QED
      BY <2>4, <3>1, <3>2, <3>3 DEF Grows
<1>6. ASSUME NEW u \in Users, ExpireMapping(u) PROVE Grows
  BY <1>6 DEF ExpireMapping, Grows
<1>7. CASE UNCHANGED onboardVars
  BY <1>7 DEF onboardVars, stores, Grows
<1> QED
  BY <1>2, <1>3, <1>4, <1>5, <1>6, <1>7, StepOf

-----------------------------------------------------------------------------
(* Types.                                                                  *)

\* The fields of a request are those of its operation.
LEMMA OnboardFields ==
    ASSUME NEW r \in Onboardings
    PROVE  /\ r.op \in {"onboard", "enter"} /\ r.user \in Users
           /\ r.op = "onboard" => r.name \in Names /\ r.name # NULL
           /\ r.op = "enter" => r = [op |-> "enter", user |-> r.user]
BY OnboardingAssumption DEF AllOnboardings

\* At the start nobody has called.
LEMMA InitTypes == OnboardInit => OnboardTypeInv
BY OnboardingAssumption DEF OnboardInit, OnboardTypeInv, OnboardTypeOK, OnboardCallOK, At, Queries, Asking

\* A fault is counted.
LEMMA OneMoreFault ==
    ASSUME OnboardTypeInv, faults < MaxFaults, faults' = faults + 1
    PROVE  faults' \in 0..MaxFaults
<1>1. faults \in 0..MaxFaults /\ MaxFaults \in Nat
  BY OnboardingAssumption DEF OnboardTypeInv, OnboardTypeOK
<1> QED
  BY <1>1

\* The calls that a step leaves alone know what they knew.
LEMMA OthersKnow ==
    ASSUME OnboardTypeInv, Grows, NEW d \in Calls,
           pc'[d] = pc[d] /\ request'[d] = request[d] /\ found'[d] = found[d]
           /\ tenants'[d] = tenants[d] /\ reply'[d] = reply[d] /\ before'[d] = before[d]
    PROVE  OnboardCallOK(d)'
<1>1. OnboardCallOK(d) /\ before[d] \subseteq Calls
  BY DEF OnboardTypeInv, OnboardTypeOK
<1>2. \A b \in before'[d] : pc'[b] = "done"
  BY <1>1 DEF OnboardCallOK, Grows
<1> QED
  BY <1>1, <1>2 DEF OnboardCallOK

\* A request arrives.
LEMMA BeginTypes ==
    ASSUME OnboardTypeInv, Grows, NEW c \in Calls, NEW r \in Onboardings, BeginRequest(c, r)
    PROVE  OnboardTypeInv'
<1> DEFINE step == IF r.op = "onboard" THEN "checkAccess" ELSE "lookUp"
<1>1. /\ pc[c] = "idle" /\ pc' = [pc EXCEPT ![c] = step]
      /\ request' = [request EXCEPT ![c] = r]
      /\ before' = [before EXCEPT ![c] = {d \in Calls : pc[d] = "done"}]
      /\ UNCHANGED <<tenants, mapping, faults, attempt, found, error, blind, reply>>
  BY DEF BeginRequest, At, Goto, Returned, stores
<1>2. OnboardTypeOK
  BY DEF OnboardTypeInv
<1>3. step \in OnboardSteps /\ step # "answer" /\ step # "fill"
  BY DEF OnboardSteps, Queries
<1>4. OnboardTypeOK'
  <2>1. \A d \in Calls : (pc'[d] = "answer" => error'[d] # NULL) /\ (attempt'[d] = 2 => pc'[d] \in Queries)
    <3>1. attempt[c] # 2
      BY <1>1, <1>2 DEF OnboardTypeOK, Queries
    <3> QED
      BY <1>1, <1>2, <1>3, <3>1 DEF OnboardTypeOK, At
  <2> QED
    BY <1>1, <1>2, <1>3, <2>1 DEF OnboardTypeOK, At
<1>5. OnboardCallOK(c)'
  <2>1. tenants'[c] = NULL
    BY <1>1 DEF OnboardTypeInv, OnboardCallOK
  <2>2. pc'[c] = step /\ request'[c] = r /\ before'[c] = {d \in Calls : pc[d] = "done"}
    BY <1>1, <1>2 DEF OnboardTypeOK
  <2>3. \A d \in before'[c] : pc'[d] = "done"
    BY <1>1, <2>2 DEF Grows
  <2> QED
    BY <2>1, <2>2, <2>3, OnboardFields DEF OnboardCallOK, Queries, Asking
<1>6. \A d \in Calls \ {c} : OnboardCallOK(d)'
  BY <1>1, <1>2, OthersKnow DEF OnboardTypeOK
<1> QED
  BY <1>4, <1>5, <1>6 DEF OnboardTypeInv

\* What a call may come to by itself: the step it goes to, its tenant, what it
\* read, threw and answers.
WorkOK(c, s, n, f, e, r) ==
    /\ s \in OnboardSteps \cup {"done"} /\ n \in Names \cup {NULL} /\ f \in {NULL, "none", "some"}
    /\ e \in Errors \cup {NULL}
    /\ r \in {NULL, "created", "conflict", "bad request", "internal error", "none", "some"}
    /\ s \in Queries \cup {"answer"} => request[c].op = "onboard"
    /\ s \in Asking => request[c].op = "enter"
    /\ s = "fill" => f \in {"none", "some"}
    /\ s = "answer" => e # NULL
    /\ n # NULL => s \in {"answer", "done"} /\ n = request[c].name
    /\ s = "done" /\ r = "created" => n # NULL
    /\ s = "done" /\ r = "none" => request[c].op = "enter"

\* A step of a call that comes to that.
OnboardWorks(c, s, n, f, e, r) ==
    /\ WorkOK(c, s, n, f, e, r)
    /\ pc' = [pc EXCEPT ![c] = s] /\ tenants' = [tenants EXCEPT ![c] = n]
    /\ found' = [found EXCEPT ![c] = f] /\ error' = [error EXCEPT ![c] = e]
    /\ reply' = [reply EXCEPT ![c] = r]
    /\ attempt' = [attempt EXCEPT ![c] = 1]
    /\ mapping' \in [Users -> {"absent", "none", "some"}] /\ faults' \in 0..MaxFaults
    /\ UNCHANGED <<request, before, blind>>

\* Whoever goes on by himself takes such a step.
LEMMA AdvanceWorks ==
    ASSUME OnboardTypeInv, NEW c \in Calls, Advances(c)
    PROVE  /\ request[c] \in Onboardings /\ pc[c] \in OnboardSteps
           /\ \E s, n, f, e, r : OnboardWorks(c, s, n, f, e, r)
<1> DEFINE q == request[c]
<1>1. /\ pc \in [Calls -> OnboardSteps \cup {"idle", "done"}] /\ request \in [Calls -> Onboardings \cup {NULL}]
      /\ tenants \in [Calls -> Names \cup {NULL}] /\ before \in [Calls -> SUBSET Calls]
      /\ reply \in [Calls -> {NULL, "created", "conflict", "bad request", "internal error", "none", "some"}]
      /\ found \in [Calls -> {NULL, "none", "some"}] /\ error \in [Calls -> Errors \cup {NULL}]
      /\ mapping \in [Users -> {"absent", "none", "some"}] /\ attempt \in [Calls -> 1..2]
      /\ faults \in 0..MaxFaults /\ MaxFaults \in Nat
      /\ pc[c] = "answer" => error[c] # NULL
      /\ attempt[c] = 2 => pc[c] \in Queries
      /\ NULL \notin Errors /\ {"has access", "name exists", "other"} \subseteq Errors
  BY OnboardingAssumption DEF OnboardTypeInv, OnboardTypeOK, Errors, At
<1>2. /\ pc[c] # "idle" => q \in Onboardings
      /\ pc[c] \in Queries \cup {"answer"} => q.op = "onboard"
      /\ pc[c] \in Asking => q.op = "enter"
      /\ pc[c] = "fill" => found[c] \in {"none", "some"}
      /\ tenants[c] # NULL => pc[c] \in {"answer", "done"} /\ tenants[c] = q.name
      /\ q \in Onboardings => q.user \in Users /\ (q.op = "onboard" => q.name \in Names /\ q.name # NULL)
  BY OnboardFields DEF OnboardTypeInv, OnboardCallOK
<1>3. pc[c] \in OnboardSteps /\ q \in Onboardings
  <2>1. pc[c] \in OnboardSteps /\ pc[c] # "idle"
    BY DEF Advances, CheckAccess, FindName, Transaction, Answer, LostCommit, LookUp, ReadGrants, FillMapping, At,
           OnboardSteps, Queries
  <2> QED
    BY <1>2, <2>1
<1>4. ASSUME attempt' = attempt, pc[c] \notin Queries PROVE attempt' = [attempt EXCEPT ![c] = 1]
  <2>1. attempt[c] \in 1..2 /\ attempt[c] # 2
    BY <1>1, <1>4
  <2>2. attempt[c] = 1
    BY <2>1
  <2> QED
    BY <1>1, <1>4, <2>2
<1> HIDE DEF q
<1>5. CASE CheckAccess(c)
  <2>1. CASE HasAccess(q.user)
    <3>1. OnboardWorks(c, "answer", tenants[c], found[c], "has access", reply[c])
      BY <1>1, <1>2, <1>5, <2>1 DEF CheckAccess, At, Throw, Goto, FirstAttempt, stores, OnboardWorks, WorkOK,
                                    OnboardSteps, Queries, Asking, Errors, q
    <3> QED
      BY <1>3, <3>1 DEF q
  <2>2. CASE ~HasAccess(q.user)
    <3>1. OnboardWorks(c, "findName", tenants[c], found[c], error[c], reply[c])
      BY <1>1, <1>2, <1>5, <2>2 DEF CheckAccess, At, Proceed, Goto, FirstAttempt, stores, OnboardWorks, WorkOK,
                                    OnboardSteps, Queries, Asking, q
    <3> QED
      BY <1>3, <3>1 DEF q
  <2> QED
    BY <2>1, <2>2
<1>6. CASE FindName(c)
  <2>1. CASE Duplicate(q.name)
    <3>1. OnboardWorks(c, "answer", tenants[c], found[c], "name exists", reply[c])
      BY <1>1, <1>2, <1>6, <2>1 DEF FindName, At, Throw, Goto, FirstAttempt, stores, OnboardWorks, WorkOK,
                                    OnboardSteps, Queries, Asking, Errors, q
    <3> QED
      BY <1>3, <3>1 DEF q
  <2>2. CASE ~Duplicate(q.name)
    <3>1. OnboardWorks(c, "transaction", tenants[c], found[c], error[c], reply[c])
      BY <1>1, <1>2, <1>6, <2>2 DEF FindName, At, Proceed, Goto, FirstAttempt, stores, OnboardWorks, WorkOK,
                                    OnboardSteps, Queries, Asking, q
    <3> QED
      BY <1>3, <3>1 DEF q
  <2> QED
    BY <2>1, <2>2
<1>7. CASE Transaction(c)
  <2>1. OnboardWorks(c, "done", q.name, found[c], error[c], "created")
    BY <1>1, <1>2, <1>3, <1>7 DEF Transaction, At, Return, FirstAttempt, Invalidated, OnboardWorks, WorkOK, Queries,
                                  Asking, q
  <2> QED
    BY <1>3, <2>1 DEF q
<1>8. CASE Answer(c)
  <2>1. pc[c] \notin Queries /\ error[c] # NULL
    BY <1>1, <1>8 DEF Answer, At, Queries
  <2>2. Status(error[c]) \in {"conflict", "bad request", "internal error"}
    BY <1>1, <2>1 DEF Status, Errors
  <2>3. OnboardWorks(c, "done", tenants[c], found[c], error[c], Status(error[c]))
    <3> HIDE DEF Status
    <3> QED
      BY <1>1, <1>2, <1>4, <1>8, <2>1, <2>2 DEF Answer, At, Return, stores, OnboardWorks, WorkOK, Queries, Asking, q
  <2> QED
    BY <1>3, <2>3 DEF q
<1>9. CASE LostCommit(c)
  <2>0. faults' \in 0..MaxFaults
    BY <1>9, OneMoreFault DEF LostCommit
  <2>1. OnboardWorks(c, "answer", q.name, found[c], "other", reply[c])
    BY <2>0, <1>1, <1>2, <1>3, <1>9 DEF LostCommit, At, Throw, Goto, FirstAttempt, OnboardWorks, WorkOK,
                                        OnboardSteps, Queries, Asking, Errors, q
  <2> QED
    BY <1>3, <2>1 DEF q
<1>10. CASE LookUp(c)
  <2>1. pc[c] \notin Queries /\ q.op = "enter" /\ mapping[q.user] \in {"absent", "none", "some"} /\ tenants[c] = NULL
    BY <1>1, <1>2, <1>3, <1>10 DEF LookUp, At, Queries, Asking
  <2>2. CASE mapping[q.user] = "absent"
    <3>1. OnboardWorks(c, "read", tenants[c], found[c], error[c], reply[c])
      <4>1. WorkOK(c, "read", tenants[c], found[c], error[c], reply[c])
        BY <1>1, <2>1 DEF WorkOK, OnboardSteps, Queries, Asking, q
      <4>2. /\ pc' = [pc EXCEPT ![c] = "read"]
            /\ UNCHANGED <<reply, tenants, mapping, faults, request, attempt, found, error, before, blind>>
        BY <1>10, <2>2 DEF LookUp, Goto, stores, q
      <4> QED
        BY <1>1, <1>4, <2>1, <4>1, <4>2 DEF OnboardWorks, q
    <3> QED
      BY <1>3, <3>1 DEF q
  <2>3. CASE mapping[q.user] # "absent"
    <3>1. OnboardWorks(c, "done", tenants[c], found[c], error[c], mapping[q.user])
      BY <1>1, <1>4, <1>10, <2>1, <2>3 DEF LookUp, At, Return, stores, OnboardWorks, WorkOK, Queries, Asking, q
    <3> QED
      BY <1>3, <3>1 DEF q
  <2> QED
    BY <2>2, <2>3
<1>11. CASE ReadGrants(c)
  <2> DEFINE g == IF HasAccess(q.user) THEN "some" ELSE "none"
  <2>1. pc[c] \notin Queries /\ q.op = "enter" /\ tenants[c] = NULL /\ g \in {"none", "some"}
    BY <1>1, <1>2, <1>11 DEF ReadGrants, At, Queries, Asking
  <2>2. found' = [found EXCEPT ![c] = g]
    BY <1>11 DEF ReadGrants, q
  <2> HIDE DEF g
  <2>3. OnboardWorks(c, "fill", tenants[c], g, error[c], reply[c])
    BY <1>1, <1>4, <1>11, <2>1, <2>2 DEF ReadGrants, At, Goto, stores, OnboardWorks, WorkOK, OnboardSteps, Queries,
                                         Asking, q
  <2> QED
    BY <1>3, <2>3 DEF q
<1>12. CASE FillMapping(c)
  <2>1. pc[c] \notin Queries /\ q.op = "enter" /\ tenants[c] = NULL /\ found[c] \in {"none", "some"}
    BY <1>1, <1>2, <1>12 DEF FillMapping, At, Queries, Asking
  <2>2. OnboardWorks(c, "done", tenants[c], found[c], error[c], found[c])
    BY <1>1, <1>4, <1>12, <2>1 DEF FillMapping, At, Return, OnboardWorks, WorkOK, Queries, Asking, q
  <2> QED
    BY <1>3, <2>2 DEF q
<1> QED
  BY <1>5, <1>6, <1>7, <1>8, <1>9, <1>10, <1>11, <1>12 DEF Advances

\* Such a step keeps the types.
LEMMA AdvanceTypes ==
    ASSUME OnboardTypeInv, Grows, NEW c \in Calls, Advances(c)
    PROVE  OnboardTypeInv'
<1>1. request[c] \in Onboardings /\ pc[c] \in OnboardSteps
  BY AdvanceWorks
<1> PICK s, n, f, e, r : OnboardWorks(c, s, n, f, e, r)
  BY AdvanceWorks
<1>2. OnboardTypeOK /\ OnboardCallOK(c)
  BY DEF OnboardTypeInv
<1>3. OnboardTypeOK'
  <2>1. \A d \in Calls : (pc'[d] = "answer" => error'[d] # NULL) /\ (attempt'[d] = 2 => pc'[d] \in Queries)
    <3>1. ASSUME NEW d \in Calls, d # c
          PROVE  pc'[d] = pc[d] /\ error'[d] = error[d] /\ attempt'[d] = attempt[d]
      BY <1>2, <3>1 DEF OnboardWorks, OnboardTypeOK
    <3>2. pc'[c] = s /\ error'[c] = e /\ attempt'[c] = 1 /\ (s = "answer" => e # NULL)
      BY <1>2 DEF OnboardWorks, WorkOK, OnboardTypeOK
    <3>3. attempt'[c] # 2
      BY <3>2
    <3> QED
      BY <1>2, <3>1, <3>2, <3>3 DEF OnboardTypeOK, At
  <2>2. attempt' \in [Calls -> 1..2]
    <3>1. attempt \in [Calls -> 1..2] /\ attempt' = [attempt EXCEPT ![c] = 1]
      BY <1>2 DEF OnboardWorks, OnboardTypeOK
    <3>2. 1 \in 1..2
      OBVIOUS
    <3> QED
      BY <3>1, <3>2
  <2>3. /\ tenants' \in [Calls -> Names \cup {NULL}] /\ pc' \in [Calls -> OnboardSteps \cup {"idle", "done"}]
        /\ found' \in [Calls -> {NULL, "none", "some"}] /\ error' \in [Calls -> Errors \cup {NULL}]
        /\ reply' \in [Calls -> {NULL, "created", "conflict", "bad request", "internal error", "none", "some"}]
    BY <1>2 DEF OnboardWorks, WorkOK, OnboardTypeOK
  <2> QED
    BY <1>2, <2>1, <2>2, <2>3 DEF OnboardWorks, OnboardTypeOK, At
<1>4. OnboardCallOK(c)'
  <2>1. pc'[c] = s /\ tenants'[c] = n /\ found'[c] = f /\ reply'[c] = r /\ request'[c] = request[c] /\ before'[c] = before[c]
    BY <1>2 DEF OnboardWorks, OnboardTypeOK
  <2>2. \A b \in before'[c] : pc'[b] = "done"
    BY <1>2, <2>1 DEF OnboardCallOK, Grows, OnboardTypeOK
  <2> QED
    BY <1>1, <2>1, <2>2 DEF OnboardWorks, WorkOK, OnboardCallOK
<1>5. \A d \in Calls \ {c} : OnboardCallOK(d)'
  BY <1>2, OthersKnow DEF OnboardWorks, OnboardTypeOK
<1> QED
  BY <1>3, <1>4, <1>5 DEF OnboardTypeInv

\* A query fails, and those that the reset hits with it.
LEMMA FailTypes ==
    ASSUME OnboardTypeInv, Grows, NEW S \in SUBSET Calls, NEW e \in Errors, Fails(S, e)
    PROVE  OnboardTypeInv'
<1>1. OnboardTypeOK
  BY DEF OnboardTypeInv
<1>2. \A d \in S : pc[d] \in Queries \cup {"read"}
  BY DEF Fails, AtDatabase
<1>3. /\ pc' = [d \in Calls |-> pc'[d]] /\ reply' = [d \in Calls |-> reply'[d]]
      /\ error' = [d \in Calls |-> error'[d]] /\ attempt' = [d \in Calls |-> attempt'[d]]
      /\ blind' \subseteq Calls
      /\ UNCHANGED <<tenants, mapping, request, found, before>>
  BY <1>1 DEF Fails, FailAll, stores, OnboardTypeOK
<1>4. faults' \in 0..MaxFaults
  BY OneMoreFault DEF Fails
<1>5. ASSUME NEW d \in Calls, d \notin S
      PROVE  pc'[d] = pc[d] /\ reply'[d] = reply[d] /\ error'[d] = error[d] /\ attempt'[d] = attempt[d]
  BY <1>5 DEF Fails, FailAll
<1>6. ASSUME NEW d \in S
      PROVE  /\ attempt'[d] = 1
             /\ \/ pc[d] = "checkAccess" /\ pc'[d] = "findName" /\ error'[d] = error[d] /\ reply'[d] = reply[d]
                \/ pc[d] \in Queries /\ pc'[d] = "answer" /\ error'[d] = e /\ reply'[d] = reply[d]
                \/ pc[d] = "read" /\ pc'[d] = "done" /\ error'[d] = NULL /\ reply'[d] = "none"
  BY <1>2 DEF Fails, FailAll, AfterFailure, At, Queries
<1>7. NULL \notin Errors
  BY OnboardingAssumption
<1>8. \A d \in Calls :
         /\ pc'[d] \in OnboardSteps \cup {"idle", "done"} /\ attempt'[d] \in 1..2
         /\ error'[d] \in Errors \cup {NULL}
         /\ reply'[d] \in {NULL, "created", "conflict", "bad request", "internal error", "none", "some"}
         /\ (pc'[d] = "answer" => error'[d] # NULL) /\ (attempt'[d] = 2 => pc'[d] \in Queries)
  <2> SUFFICES ASSUME NEW d \in Calls
               PROVE  /\ pc'[d] \in OnboardSteps \cup {"idle", "done"} /\ attempt'[d] \in 1..2
                      /\ error'[d] \in Errors \cup {NULL}
                      /\ reply'[d] \in {NULL, "created", "conflict", "bad request", "internal error", "none", "some"}
                      /\ (pc'[d] = "answer" => error'[d] # NULL) /\ (attempt'[d] = 2 => pc'[d] \in Queries)
    OBVIOUS
  <2>1. /\ pc[d] \in OnboardSteps \cup {"idle", "done"} /\ attempt[d] \in 1..2 /\ error[d] \in Errors \cup {NULL}
        /\ reply[d] \in {NULL, "created", "conflict", "bad request", "internal error", "none", "some"}
        /\ (pc[d] = "answer" => error[d] # NULL) /\ (attempt[d] = 2 => pc[d] \in Queries)
    BY <1>1 DEF OnboardTypeOK, At
  <2>2. CASE d \in S
    <3>1. pc'[d] \in {"findName", "answer", "done"} /\ error'[d] \in {error[d], e, NULL} /\ reply'[d] \in {reply[d], "none"}
      BY <1>6, <2>2
    <3>2. pc'[d] = "answer" => error'[d] = e
      BY <1>6, <2>2
    <3>3. attempt'[d] = 1
      BY <1>6, <2>2
    <3>4. attempt'[d] \in 1..2 /\ attempt'[d] # 2
      BY <3>3
    <3>5. {"findName", "answer", "done"} \subseteq OnboardSteps \cup {"idle", "done"}
      BY DEF OnboardSteps, Queries
    <3> QED
      BY <1>7, <2>1, <3>1, <3>2, <3>4, <3>5
  <2>3. CASE d \notin S
    BY <1>5, <2>1, <2>3
  <2> QED
    BY <2>2, <2>3
<1>9. OnboardTypeOK'
  BY <1>1, <1>3, <1>4, <1>8 DEF OnboardTypeOK, At
<1>10. ASSUME NEW d \in Calls PROVE OnboardCallOK(d)'
  <2>1. CASE d \notin S
    <3>1. pc'[d] = pc[d] /\ request'[d] = request[d] /\ found'[d] = found[d]
           /\ tenants'[d] = tenants[d] /\ reply'[d] = reply[d] /\ before'[d] = before[d]
      BY <1>3, <1>5, <2>1
    <3> QED
      BY <3>1, OthersKnow
  <2>2. CASE d \in S
    <3>1. OnboardCallOK(d)
      BY DEF OnboardTypeInv
    <3>2. \A b \in before'[d] : pc'[b] = "done"
      BY <1>1, <1>3, <3>1 DEF OnboardCallOK, Grows, OnboardTypeOK
    <3>3. request'[d] = request[d] /\ tenants'[d] = tenants[d] /\ found'[d] = found[d]
      BY <1>3
    <3>4. pc[d] # "idle" /\ tenants'[d] = NULL
      BY <1>2, <2>2, <3>1, <3>3 DEF OnboardCallOK, Queries
    <3> QED
      BY <1>6, <2>2, <3>1, <3>2, <3>3, <3>4 DEF OnboardCallOK, Queries, Asking
  <2> QED
    BY <2>1, <2>2
<1> QED
  BY <1>9, <1>10 DEF OnboardTypeInv

\* Every step keeps the types.
LEMMA NextTypes ==
    ASSUME OnboardTypeInv, [OnboardNext]_onboardVars
    PROVE  OnboardTypeInv'
<1>1. CASE UNCHANGED onboardVars
  BY <1>1 DEF onboardVars, stores, OnboardTypeInv, OnboardTypeOK, OnboardCallOK, At
<1>2. CASE OnboardNext
  <2>1. Grows
    BY <1>2, NextGrows
  <2>2. ASSUME NEW c \in Calls, Retries(c) PROVE OnboardTypeInv'
    <3>1. OnboardTypeOK'
      <4>1. faults' \in 0..MaxFaults
        BY <2>2, OneMoreFault DEF Retries
      <4>2. attempt' \in [Calls -> 1..2]
        <5>1. attempt \in [Calls -> 1..2] /\ attempt' = [attempt EXCEPT ![c] = 2]
          BY <2>2 DEF Retries, OnboardTypeInv, OnboardTypeOK
        <5>2. 2 \in 1..2
          OBVIOUS
        <5> QED
          BY <5>1, <5>2
      <4>3. \A d \in Calls : attempt'[d] = 2 => pc[d] \in Queries
        BY <2>2 DEF Retries, OnboardTypeInv, OnboardTypeOK, At
      <4> QED
        BY <2>2, <4>1, <4>2, <4>3 DEF Retries, OnboardTypeInv, OnboardTypeOK, At, stores
    <3>2. \A d \in Calls : OnboardCallOK(d)'
      BY <2>1, <2>2, OthersKnow DEF Retries, stores
    <3> QED
      BY <3>1, <3>2 DEF OnboardTypeInv
  <2>3. ASSUME NEW u \in Users, ExpireMapping(u) PROVE OnboardTypeInv'
    <3>1. OnboardTypeOK'
      BY <2>3 DEF ExpireMapping, OnboardTypeInv, OnboardTypeOK, At
    <3>2. \A d \in Calls : OnboardCallOK(d)'
      BY <2>1, <2>3, OthersKnow DEF ExpireMapping
    <3> QED
      BY <3>1, <3>2 DEF OnboardTypeInv
  <2> QED
    BY <1>1, <1>2, <2>1, <2>2, <2>3, StepOf, BeginTypes, AdvanceTypes, FailTypes
<1> QED
  BY <1>1, <1>2

\* Every variable of OnboardingService and its requests keeps its type.
THEOREM OnboardTypes == OnboardSpec => []OnboardTypeOK
<1>1. OnboardTypeInv => OnboardTypeOK
  BY DEF OnboardTypeInv
<1> QED
  BY <1>1, InitTypes, NextTypes, PTL DEF OnboardSpec

-----------------------------------------------------------------------------
(* Second tenants.                                                         *)

\* It holds at the start.
LEMMA InitSecond == OnboardInit => SecondInv
BY DEF OnboardInit, SecondInv, SecondOK

\* What returned calls have made stays, so what a call knows of it does.
LEMMA StillSecond ==
    ASSUME OnboardTypeInv, Grows, NEW c \in Calls, pc[c] # "idle"
    PROVE  /\ before'[c] = before[c] /\ request'[c] = request[c]
           /\ NoAccessBefore(c) => NoAccessBefore(c)'
           /\ NameFreeBefore(c) => NameFreeBefore(c)'
<1>1. before[c] \subseteq Calls /\ \A d \in before[c] : pc[d] = "done"
  BY DEF OnboardTypeInv, OnboardTypeOK, OnboardCallOK
<1>2. before'[c] = before[c] /\ request'[c] = request[c] /\ blind \subseteq blind'
  BY DEF Grows
<1>3. \A d \in before[c] : tenants'[d] = tenants[d] /\ request'[d] = request[d]
  BY <1>1 DEF Grows
<1> QED
  BY <1>1, <1>2, <1>3 DEF NoAccessBefore, NameFreeBefore

\* A call that goes on, or has a tenant, knew what it has to or has found it out.
LEMMA SecondStays ==
    ASSUME OnboardTypeInv, Grows, NEW c \in Calls, SecondOK(c),
           pc'[c] \in {"findName", "transaction"} \/ tenants'[c] # NULL =>
              \/ pc[c] \in {"findName", "transaction"} \/ tenants[c] # NULL
              \/ NoAccessBefore(c)',
           pc'[c] = "transaction" \/ tenants'[c] # NULL =>
              \/ pc[c] = "transaction" \/ tenants[c] # NULL
              \/ NameFreeBefore(c)'
    PROVE  SecondOK(c)'
<1>1. tenants[c] # NULL => pc[c] # "idle"
  BY DEF OnboardTypeInv, OnboardCallOK
<1> QED
  BY <1>1, StillSecond DEF SecondOK

\* Who goes on by himself has looked before.
LEMMA AdvanceSecond ==
    ASSUME OnboardTypeInv, Grows, NEW c \in Calls, Advances(c), SecondOK(c)
    PROVE  SecondOK(c)'
<1>1. /\ pc \in [Calls -> OnboardSteps \cup {"idle", "done"}] /\ tenants \in [Calls -> Names \cup {NULL}]
      /\ before[c] \subseteq Calls
  BY DEF OnboardTypeInv, OnboardTypeOK
<1>2. CASE CheckAccess(c)
  <2>1. pc'[c] \in {"answer", "findName"} /\ tenants' = tenants /\ pc[c] # "idle"
    BY <1>1, <1>2 DEF CheckAccess, At, Throw, Proceed, Goto, stores
  <2>2. pc'[c] = "findName" => NoAccessBefore(c)
    BY <1>1, <1>2 DEF CheckAccess, Throw, Goto, HasAccess, Made, NoAccessBefore
  <2> QED
    BY <2>1, <2>2, StillSecond, SecondStays
<1>3. CASE FindName(c)
  <2>1. pc'[c] \in {"answer", "transaction"} /\ tenants' = tenants /\ pc[c] = "findName"
    BY <1>1, <1>3 DEF FindName, At, Throw, Proceed, Goto, stores
  <2>2. pc'[c] = "transaction" => NameFreeBefore(c)
    BY <1>1, <1>3 DEF FindName, Throw, Goto, Duplicate, TenantNamed, NameFreeBefore
  <2> QED
    BY <2>1, <2>2, StillSecond, SecondStays
<1>4. CASE Transaction(c) \/ LostCommit(c)
  <2>1. pc[c] = "transaction"
    BY <1>4 DEF Transaction, LostCommit, At
  <2> QED
    BY <2>1, SecondStays
<1>5. CASE Answer(c) \/ LookUp(c) \/ ReadGrants(c) \/ FillMapping(c)
  <2>1. pc'[c] \in {"done", "read", "fill"} /\ tenants' = tenants
    BY <1>1, <1>5 DEF Answer, LookUp, ReadGrants, FillMapping, Goto, Return, stores
  <2> QED
    BY <2>1, SecondStays
<1> QED
  BY <1>2, <1>3, <1>4, <1>5 DEF Advances

\* What the steps of others leave alone.
LEMMA SameSecond ==
    ASSUME OnboardTypeInv, Grows, NEW c \in Calls, SecondOK(c), pc'[c] = pc[c], tenants'[c] = tenants[c]
    PROVE  SecondOK(c)'
BY SecondStays

\* Every step keeps it.
LEMMA NextSecond ==
    ASSUME OnboardTypeInv, SecondInv, [OnboardNext]_onboardVars
    PROVE  SecondInv'
<1>1. CASE UNCHANGED onboardVars
  BY <1>1 DEF onboardVars, stores, SecondInv, SecondOK, NoAccessBefore, NameFreeBefore
<1>2. CASE OnboardNext
  <2> SUFFICES ASSUME NEW d \in Calls PROVE SecondOK(d)'
    BY DEF SecondInv
  <2>1. Grows /\ SecondOK(d)
    BY <1>2, NextGrows DEF SecondInv
  <2>2. pc \in [Calls -> OnboardSteps \cup {"idle", "done"}] /\ tenants \in [Calls -> Names \cup {NULL}]
    BY DEF OnboardTypeInv, OnboardTypeOK
  <2>3. ASSUME NEW c \in Calls, NEW r \in Onboardings, BeginRequest(c, r) PROVE SecondOK(d)'
    <3>1. tenants' = tenants /\ pc'[d] \in {pc[d], "checkAccess", "lookUp"}
      BY <2>2, <2>3 DEF BeginRequest, Goto, stores
    <3> QED
      BY <2>1, <3>1, SecondStays
  <2>4. ASSUME NEW c \in Calls, Advances(c) PROVE SecondOK(d)'
    <3>1. d # c => pc'[d] = pc[d] /\ tenants'[d] = tenants[d]
      BY <2>2, <2>4 DEF Advances, CheckAccess, FindName, Transaction, Answer, LostCommit, LookUp, ReadGrants,
                        FillMapping,
                        Goto, Return, Throw, Proceed, stores
    <3> QED
      BY <2>1, <2>4, <3>1, SameSecond, AdvanceSecond
  <2>5. ASSUME NEW S \in SUBSET Calls, NEW e \in Errors, Fails(S, e) PROVE SecondOK(d)'
    <3>1. tenants' = tenants /\ (d \notin S => pc'[d] = pc[d])
      BY <2>5 DEF Fails, FailAll, stores
    <3>2. ASSUME d \in S, pc'[d] \in {"findName", "transaction"} PROVE pc'[d] = "findName" /\ d \in blind'
      BY <2>5, <3>2 DEF Fails, FailAll, AfterFailure, At
    <3> QED
      BY <2>1, <3>1, <3>2, SecondStays DEF NoAccessBefore
  <2>6. ASSUME UNCHANGED <<pc, tenants>> PROVE SecondOK(d)'
    BY <2>1, <2>6, SameSecond
  <2>7. ASSUME NEW c \in Calls, Retries(c) PROVE UNCHANGED <<pc, tenants>>
    BY <2>7 DEF Retries, stores
  <2>8. ASSUME NEW u \in Users, ExpireMapping(u) PROVE UNCHANGED <<pc, tenants>>
    BY <2>8 DEF ExpireMapping
  <2> QED
    BY <1>2, <2>3, <2>4, <2>5, <2>6, <2>7, <2>8, StepOf DEF onboardVars, stores
<1> QED
  BY <1>1, <1>2

\* However many users are onboarded, and however often createTenantAndWorkspace
\* is tried again after a failure, a user gets a second tenant only if the calls
\* overlapped or hasExistingAccess failed, and a name only if they overlapped.
THEOREM SecondTenants == OnboardSpec => []SecondTenantByRace
<1>1. ASSUME OnboardTypeInv, SecondInv PROVE SecondTenantByRace
  <2> SUFFICES ASSUME NEW c \in Calls, NEW d \in Calls, tenants[c] # NULL, tenants[d] # NULL, c # d
               PROVE  /\ request[c].user = request[d].user
                         => Overlap(c, d) \/ (c \in before[d] /\ d \in blind) \/ (d \in before[c] /\ c \in blind)
                      /\ tenants[c] = tenants[d] => Overlap(c, d)
    BY DEF SecondTenantByRace
  <2>1. NoAccessBefore(c) /\ NoAccessBefore(d) /\ NameFreeBefore(c) /\ NameFreeBefore(d)
    BY <1>1 DEF SecondInv, SecondOK
  <2>2. tenants[c] = request[c].name /\ tenants[d] = request[d].name
    BY <1>1 DEF OnboardTypeInv, OnboardCallOK
  <2> QED
    BY <2>1, <2>2 DEF NoAccessBefore, NameFreeBefore, Overlap
<1> QED
  BY <1>1, InitTypes, NextTypes, InitSecond, NextSecond, PTL DEF OnboardSpec

-----------------------------------------------------------------------------
(* Users who are kept out.                                                 *)

\* It holds at the start.
LEMMA InitKeptOut == OnboardInit => KeptOutInv
BY DEF OnboardInit, KeptOutInv, MappingOK, KeptOutOK

\* Who looked up goes on having done so.
LEMMA StillLookedUp ==
    ASSUME Grows, NEW u \in Users, NEW d \in Calls, pc[d] # "idle", LookedUp(u, d)
    PROVE  LookedUp(u, d)'
<1> PICK q \in Calls : pc[q] # "idle" /\ request[q] = [op |-> "enter", user |-> u] /\ Overlap(q, d)
  BY DEF LookedUp
<1>1. pc'[q] # "idle" /\ request'[q] = request[q] /\ before'[q] = before[q] /\ before'[d] = before[d]
  BY DEF Grows
<1> QED
  BY <1>1 DEF LookedUp, Overlap

\* A created tenant is that of a call whose transaction answers now, or did.
NewlyCreated(d) == pc'[d] = "done" /\ reply'[d] = "created" => (pc[d] = "done" /\ reply[d] = "created") \/ Transaction(d)

\* The steps after which this holds.
LEMMA Creations ==
    ASSUME OnboardTypeInv, OnboardNext, NEW d \in Calls
    PROVE  NewlyCreated(d)
<1>1. /\ pc \in [Calls -> OnboardSteps \cup {"idle", "done"}] /\ mapping \in [Users -> {"absent", "none", "some"}]
      /\ reply \in [Calls -> {NULL, "created", "conflict", "bad request", "internal error", "none", "some"}]
  BY DEF OnboardTypeInv, OnboardTypeOK
<1>2. ASSUME NEW c \in Calls, NEW r \in Onboardings, BeginRequest(c, r) PROVE NewlyCreated(d)
  BY <1>1, <1>2 DEF BeginRequest, Goto, NewlyCreated
<1>3. ASSUME NEW c \in Calls, Advances(c) PROVE NewlyCreated(d)
  <2>1. CASE d # c
    BY <1>1, <1>3, <2>1 DEF Advances, CheckAccess, FindName, Transaction, Answer, LostCommit, LookUp, ReadGrants,
                            FillMapping,
                      Goto, Return, Throw, Proceed, NewlyCreated
  <2>2. CASE d = c /\ Transaction(c)
    BY <2>2 DEF NewlyCreated
  <2>3. CASE d = c /\ (CheckAccess(c) \/ FindName(c) \/ LostCommit(c) \/ ReadGrants(c))
    BY <1>1, <2>3 DEF CheckAccess, FindName, LostCommit, ReadGrants, Throw, Proceed, Goto, NewlyCreated
  <2>4. CASE d = c /\ Answer(c)
    <3>1. reply'[c] = Status(error[c]) /\ error[c] \in Errors
      BY <1>1, <2>4 DEF Answer, Return, OnboardTypeInv, OnboardTypeOK, At
    <3>2. Status(error[c]) # "created"
      BY <3>1 DEF Status, Errors
    <3> QED
      BY <2>4, <3>1, <3>2 DEF NewlyCreated
  <2>5. CASE d = c /\ (LookUp(c) \/ FillMapping(c))
    <3>1. pc[c] \in Asking /\ request[c] \in Onboardings /\ (pc[c] = "fill" => found[c] \in {"none", "some"})
      BY <1>1, <2>5 DEF LookUp, FillMapping, At, OnboardTypeInv, OnboardCallOK, Asking
    <3>2. mapping[request[c].user] \in {"absent", "none", "some"}
      BY <1>1, <3>1, OnboardFields
    <3> QED
      BY <1>1, <2>5, <3>1, <3>2 DEF LookUp, FillMapping, At, Return, Goto, NewlyCreated
  <2> QED
    BY <1>3, <2>1, <2>2, <2>3, <2>4, <2>5 DEF Advances
<1>4. ASSUME NEW S \in SUBSET Calls, NEW e \in Errors, Fails(S, e) PROVE NewlyCreated(d)
  <2>1. d \in S => pc[d] \in Queries \cup {"read"}
    BY <1>4 DEF Fails, AtDatabase
  <2>2. CASE d \in S
    BY <1>4, <2>1, <2>2 DEF Fails, FailAll, AfterFailure, At, NewlyCreated, Queries
  <2>3. CASE d \notin S
    BY <1>4, <2>3 DEF Fails, FailAll, NewlyCreated
  <2> QED
    BY <2>2, <2>3
<1>5. ASSUME UNCHANGED <<pc, reply>> PROVE NewlyCreated(d)
  BY <1>5 DEF NewlyCreated
<1>6. ASSUME NEW c \in Calls, Retries(c) PROVE UNCHANGED <<pc, reply>>
  BY <1>6 DEF Retries
<1>7. ASSUME NEW u \in Users, ExpireMapping(u) PROVE UNCHANGED <<pc, reply>>
  BY <1>7 DEF ExpireMapping
<1> QED
  BY <1>2, <1>3, <1>4, <1>5, <1>6, <1>7, StepOf DEF onboardVars

\* What is cached, but for what a call fills in, stays right: onboarding deletes it.
LEMMA MappingStays ==
    ASSUME OnboardTypeInv, Grows, OnboardNext, NEW u \in Users, MappingOK(u),
           mapping'[u] \in {mapping[u], "absent"},
           \A d \in Calls : Transaction(d) /\ request[d].user = u => mapping'[u] = "absent"
    PROVE  MappingOK(u)'
<1> SUFFICES ASSUME mapping'[u] = "none", NEW d \in Calls, pc'[d] = "done", reply'[d] = "created", request'[d].user = u
             PROVE  LookedUp(u, d)'
  BY DEF MappingOK
<1>1. mapping[u] = "none"
  OBVIOUS
<1>2. ~Transaction(d)
  BY DEF Transaction
<1>3. pc[d] = "done" /\ reply[d] = "created"
  BY <1>2, Creations DEF NewlyCreated
<1>4. request[d].user = u
  BY <1>3 DEF Grows
<1> QED
  BY <1>1, <1>3, <1>4, StillLookedUp DEF MappingOK

\* What a call knows of the calls before it.
Unmet(c) == \A d \in before[c] : tenants[d] # NULL => request[d].user # request[c].user
Explained(c) ==
    \A d \in before[c] : reply[d] = "created" /\ request[d].user = request[c].user => LookedUp(request[c].user, d)

\* A call that reads no grants, or learns of none, knew why, or finds it out.
LEMMA KeptOutStays ==
    ASSUME OnboardTypeInv, Grows, NEW c \in Calls, KeptOutOK(c),
           pc'[c] = "fill" /\ found'[c] = "none" =>
              (pc[c] = "fill" /\ found[c] = "none") \/ (pc[c] # "idle" /\ Unmet(c)),
           pc'[c] = "done" /\ reply'[c] = "none" /\ faults' = 0 =>
              (pc[c] = "done" /\ reply[c] = "none" /\ faults = 0) \/ (pc[c] # "idle" /\ Explained(c))
    PROVE  KeptOutOK(c)'
<1>1. /\ before[c] \subseteq Calls /\ \A d \in before[c] : pc[d] = "done"
      /\ pc[c] # "idle" => request[c].user \in Users
  BY OnboardFields DEF OnboardTypeInv, OnboardTypeOK, OnboardCallOK
<1>2. pc[c] # "idle" => before'[c] = before[c] /\ request'[c] = request[c]
  BY DEF Grows
<1>3. \A d \in before[c] : tenants'[d] = tenants[d] /\ request'[d] = request[d] /\ reply'[d] = reply[d]
  BY <1>1 DEF Grows
<1>4. pc[c] # "idle" /\ Unmet(c) => Unmet(c)'
  BY <1>1, <1>2, <1>3 DEF Unmet
<1>5. pc[c] # "idle" /\ Explained(c) => Explained(c)'
  BY <1>1, <1>2, <1>3, StillLookedUp DEF Explained
<1>6. /\ pc[c] = "fill" /\ found[c] = "none" => Unmet(c)
      /\ pc[c] = "done" /\ reply[c] = "none" /\ faults = 0 => Explained(c)
  BY DEF KeptOutOK, Unmet, Explained
<1>7. /\ pc'[c] = "fill" /\ found'[c] = "none" => Unmet(c)'
      /\ pc'[c] = "done" /\ reply'[c] = "none" /\ faults' = 0 => Explained(c)'
  BY <1>4, <1>5, <1>6
<1> QED
  BY <1>7 DEF KeptOutOK, Unmet, Explained

\* Who goes on by himself keeps the cache right, and knows why he is kept out.
LEMMA AdvanceKeptOut ==
    ASSUME OnboardTypeInv, Grows, OnboardNext, KeptOutInv, NEW c \in Calls, Advances(c)
    PROVE  (\A u \in Users : MappingOK(u)') /\ KeptOutOK(c)'
<1>1. /\ pc \in [Calls -> OnboardSteps \cup {"idle", "done"}] /\ mapping \in [Users -> {"absent", "none", "some"}]
      /\ reply \in [Calls -> {NULL, "created", "conflict", "bad request", "internal error", "none", "some"}]
      /\ found \in [Calls -> {NULL, "none", "some"}] /\ request \in [Calls -> Onboardings \cup {NULL}]
      /\ tenants \in [Calls -> Names \cup {NULL}]
      /\ before[c] \subseteq Calls /\ (\A d \in before[c] : pc[d] = "done")
      /\ \A d \in Calls : pc[d] = "done" /\ reply[d] = "created" => tenants[d] # NULL
  BY DEF OnboardTypeInv, OnboardTypeOK, OnboardCallOK
<1>2. KeptOutOK(c) /\ \A u \in Users : MappingOK(u)
  BY DEF KeptOutInv
<1>3. pc[c] # "idle" /\ pc[c] \in OnboardSteps /\ request[c] \in Onboardings /\ request[c].user \in Users
  BY AdvanceWorks, OnboardFields DEF OnboardSteps, Queries
<1>4. (pc[c] \in {"lookUp", "read", "fill"} => request[c].op = "enter" /\ request[c] = [op |-> "enter", user |-> request[c].user])
  BY <1>3, OnboardFields DEF OnboardTypeInv, OnboardCallOK, Asking
<1>5. CASE Transaction(c)
  <2>1. /\ pc'[c] = "done" /\ reply'[c] = "created" /\ pc[c] = "transaction"
        /\ mapping' = [mapping EXCEPT ![request[c].user] = "absent"]
        /\ \A d \in Calls : d # c => pc'[d] = pc[d]
    BY <1>1, <1>5 DEF Transaction, At, Return, Invalidated
  <2>2. KeptOutOK(c)'
    BY <1>2, <2>1, KeptOutStays
  <2>3. ASSUME NEW d \in Calls, Transaction(d) PROVE d = c
    <3>1. pc[d] = "transaction" /\ pc'[d] = "done"
      BY <1>1, <2>3 DEF Transaction, At, Return
    <3> QED
      BY <2>1, <3>1
  <2>4. \A u \in Users : MappingOK(u)'
    BY <1>1, <1>2, <2>1, <2>3, MappingStays
  <2> QED
    BY <2>2, <2>4
<1>6. CASE FillMapping(c)
  <2>1. /\ pc[c] = "fill" /\ pc'[c] = "done" /\ reply'[c] = found[c] /\ tenants' = tenants /\ request' = request /\ before' = before
        /\ mapping' = [mapping EXCEPT ![request[c].user] = found[c]]
        /\ \A d \in Calls : d # c => pc'[d] = pc[d] /\ reply'[d] = reply[d]
    BY <1>1, <1>6 DEF FillMapping, At, Return
  <2>2. found[c] = "none" => Unmet(c)
    BY <1>2, <2>1 DEF KeptOutOK, Unmet
  <2>3. found[c] = "none" => Explained(c)
    BY <1>1, <2>2 DEF Unmet, Explained
  <2>4. KeptOutOK(c)'
    BY <1>2, <1>3, <2>1, <2>3, KeptOutStays
  <2>5. \A d \in Calls : ~Transaction(d)
    <3> SUFFICES ASSUME NEW d \in Calls, Transaction(d) PROVE FALSE
      OBVIOUS
    <3>1. pc[d] = "transaction" /\ pc'[d] = "done"
      BY <1>1 DEF Transaction, At, Return
    <3> QED
      BY <2>1, <3>1
  <2>6. ASSUME NEW u \in Users, u # request[c].user PROVE MappingOK(u)'
    <3>1. mapping'[u] = mapping[u]
      BY <1>1, <2>1, <2>6
    <3> QED
      BY <1>2, <2>5, <3>1, MappingStays
  <2>7. ASSUME NEW u \in Users, u = request[c].user PROVE MappingOK(u)'
    <3> SUFFICES ASSUME mapping'[u] = "none", NEW d \in Calls,
                        pc'[d] = "done", reply'[d] = "created", request'[d].user = u
                 PROVE  LookedUp(u, d)'
      BY DEF MappingOK
    <3>1. found[c] = "none" /\ d # c
      BY <1>1, <1>3, <2>1, <2>7
    <3>2. pc[d] = "done" /\ reply[d] = "created" /\ request[d].user = request[c].user
      BY <2>1, <2>7, <3>1
    <3>3. d \notin before[c]
      BY <1>1, <2>2, <3>1, <3>2 DEF Unmet
    <3>4. c \notin before[d]
      BY <2>1 DEF OnboardTypeInv, OnboardCallOK
    <3>5. pc'[c] # "idle" /\ request'[c] = [op |-> "enter", user |-> u] /\ Overlap(c, d)'
      BY <1>4, <2>1, <2>7, <3>3, <3>4 DEF Overlap
    <3> QED
      BY <3>5 DEF LookedUp
  <2> QED
    BY <2>4, <2>6, <2>7
<1>7. CASE LookUp(c)
  <2>1. /\ pc[c] = "lookUp" /\ mapping' = mapping /\ pc'[c] \in {"done", "read"}
        /\ pc'[c] = "done" => reply'[c] = mapping[request[c].user]
    BY <1>1, <1>7 DEF LookUp, At, Goto, Return, stores
  <2>2. mapping[request[c].user] = "none" => Explained(c)
    BY <1>1, <1>2, <1>3 DEF MappingOK, Explained
  <2>3. KeptOutOK(c)'
    BY <1>2, <1>3, <2>1, <2>2, KeptOutStays
  <2>4. ASSUME NEW d \in Calls, Transaction(d) PROVE FALSE
    <3>1. pc[d] = "transaction" /\ pc'[d] = "done"
      BY <1>1, <2>4 DEF Transaction, At, Return
    <3>2. \A b \in Calls : b # c => pc'[b] = pc[b]
      BY <1>1, <1>7 DEF LookUp, Goto, Return
    <3> QED
      BY <2>1, <3>1, <3>2
  <2> QED
    BY <1>2, <2>1, <2>3, <2>4, MappingStays
<1>8. CASE ReadGrants(c)
  <2>1. /\ pc[c] = "read" /\ mapping' = mapping /\ pc'[c] = "fill"
        /\ found'[c] = "none" => ~HasAccess(request[c].user)
        /\ \A b \in Calls : b # c => pc'[b] = pc[b]
    BY <1>1, <1>8 DEF ReadGrants, At, Goto, stores
  <2>2. found'[c] = "none" => Unmet(c)
    BY <1>1, <2>1 DEF HasAccess, Made, Unmet
  <2>3. KeptOutOK(c)'
    BY <1>2, <1>3, <2>1, <2>2, KeptOutStays
  <2>4. ASSUME NEW d \in Calls, Transaction(d) PROVE FALSE
    <3>1. pc[d] = "transaction" /\ pc'[d] = "done"
      BY <1>1, <2>4 DEF Transaction, At, Return
    <3> QED
      BY <2>1, <3>1
  <2> QED
    BY <1>2, <2>1, <2>3, <2>4, MappingStays
<1>9. CASE CheckAccess(c) \/ FindName(c) \/ LostCommit(c) \/ Answer(c)
  <2>1. /\ pc[c] \in Queries \cup {"answer"} /\ mapping' = mapping
        /\ pc'[c] \in {"answer", "findName", "transaction", "done"}
        /\ \A b \in Calls : b # c => pc'[b] = pc[b]
    BY <1>1, <1>9 DEF CheckAccess, FindName, LostCommit, Answer, At, Throw, Proceed, Goto, Return, Queries, stores
  <2>2. pc'[c] = "done" => Answer(c)
    BY <1>1, <1>9 DEF CheckAccess, FindName, LostCommit, Throw, Proceed, Goto
  <2>3. Answer(c) => reply'[c] # "none"
    <3> SUFFICES ASSUME Answer(c) PROVE reply'[c] # "none"
      OBVIOUS
    <3>1. reply'[c] = Status(error[c]) /\ error[c] \in Errors
      BY <1>1 DEF Answer, Return, OnboardTypeInv, OnboardTypeOK, At
    <3>2. Status(error[c]) # "none"
      BY <3>1 DEF Status, Errors
    <3> QED
      BY <3>1, <3>2
  <2>4. KeptOutOK(c)'
    BY <1>2, <2>1, <2>2, <2>3, KeptOutStays
  <2>5. ASSUME NEW d \in Calls, Transaction(d) PROVE FALSE
    <3>1. pc[d] = "transaction" /\ pc'[d] = "done" /\ reply'[d] = "created"
      BY <1>1, <2>5 DEF Transaction, At, Return
    <3>2. d = c
      BY <2>1, <3>1
    <3>3. Answer(c)
      BY <2>2, <3>1, <3>2
    <3> QED
      BY <3>1, <3>2, <3>3 DEF Answer, At
  <2> QED
    BY <1>2, <2>1, <2>4, <2>5, MappingStays
<1> QED
  BY <1>5, <1>6, <1>7, <1>8, <1>9 DEF Advances

\* A step in which nobody is onboarded or filled in.
LEMMA QuietKeptOut ==
    ASSUME OnboardTypeInv, Grows, OnboardNext, KeptOutInv, \A d \in Calls : ~Transaction(d),
           \A u \in Users : mapping'[u] \in {mapping[u], "absent"},
           \A d \in Calls : /\ pc'[d] = "fill" => pc[d] = "fill" /\ found'[d] = found[d]
                            /\ pc'[d] = "done" /\ faults' = 0 => pc[d] = "done" /\ reply'[d] = reply[d] /\ faults = 0
    PROVE  KeptOutInv'
BY MappingStays, KeptOutStays DEF KeptOutInv

\* Every step keeps it.
LEMMA NextKeptOut ==
    ASSUME OnboardTypeInv, KeptOutInv, [OnboardNext]_onboardVars
    PROVE  KeptOutInv'
<1>1. CASE UNCHANGED onboardVars
  BY <1>1 DEF onboardVars, stores, KeptOutInv, MappingOK, KeptOutOK, LookedUp, Overlap
<1>2. CASE OnboardNext
  <2>1. Grows
    BY <1>2, NextGrows
  <2>2. /\ pc \in [Calls -> OnboardSteps \cup {"idle", "done"}] /\ mapping \in [Users -> {"absent", "none", "some"}]
        /\ faults \in 0..MaxFaults
    BY DEF OnboardTypeInv, OnboardTypeOK
  <2>0. faults \in Nat
    BY <2>2, OnboardingAssumption
  <2>3. ASSUME NEW d \in Calls, Transaction(d)
        PROVE  pc[d] = "transaction" /\ pc'[d] = "done" /\ faults' = faults
    BY <2>2, <2>3 DEF Transaction, At, Return
  <2>4. ASSUME NEW c \in Calls, NEW r \in Onboardings, BeginRequest(c, r) PROVE KeptOutInv'
    <3>1. /\ \A d \in Calls : pc'[d] \in {pc[d], "checkAccess", "lookUp"}
          /\ UNCHANGED <<mapping, faults, found, reply>>
      BY <2>2, <2>4 DEF BeginRequest, Goto, stores
    <3>2. \A d \in Calls : ~Transaction(d)
      BY <2>3, <3>1
    <3> QED
      BY <1>2, <2>1, <3>1, <3>2, QuietKeptOut
  <2>5. ASSUME NEW c \in Calls, Advances(c) PROVE KeptOutInv'
    <3>1. ASSUME NEW d \in Calls, d # c
          PROVE  pc'[d] = pc[d] /\ found'[d] = found[d] /\ reply'[d] = reply[d]
      BY <2>5, <3>1 DEF Advances, CheckAccess, FindName, Transaction, Answer, LostCommit, LookUp, ReadGrants,
                        FillMapping,
                        Goto, Return, Throw, Proceed, OnboardTypeInv, OnboardTypeOK
    <3>2. faults' = 0 => faults = 0
      BY <2>0, <2>1 DEF Grows
    <3>3. ASSUME NEW d \in Calls, d # c PROVE KeptOutOK(d)'
      <4>1. pc'[d] = pc[d] /\ found'[d] = found[d] /\ reply'[d] = reply[d] /\ KeptOutOK(d)
        BY <3>1, <3>3 DEF KeptOutInv
      <4> QED
        BY <2>1, <3>2, <4>1, KeptOutStays
    <3> QED
      BY <1>2, <2>1, <2>5, <3>3, AdvanceKeptOut DEF KeptOutInv
  <2>6. ASSUME NEW S \in SUBSET Calls, NEW e \in Errors, Fails(S, e) PROVE KeptOutInv'
    <3>1. /\ \A d \in Calls : pc'[d] \in {pc[d], "findName", "answer", "done"}
          /\ UNCHANGED <<mapping, found>> /\ faults' = faults + 1
      BY <2>6 DEF Fails, FailAll, AfterFailure, stores
    <3>2. faults' # 0 /\ faults' # faults
      BY <2>0, <3>1
    <3>3. \A d \in Calls : ~Transaction(d)
      BY <2>3, <3>2
    <3> QED
      BY <1>2, <2>1, <3>1, <3>2, <3>3, QuietKeptOut
  <2>7. ASSUME NEW c \in Calls, Retries(c) PROVE KeptOutInv'
    <3>1. UNCHANGED <<pc, mapping, found, reply>> /\ faults' = faults + 1
      BY <2>7 DEF Retries, stores
    <3>2. faults' # 0 /\ faults' # faults
      BY <2>0, <3>1
    <3>3. \A d \in Calls : ~Transaction(d)
      BY <2>3, <3>2
    <3> QED
      BY <1>2, <2>1, <3>1, <3>2, <3>3, QuietKeptOut
  <2>8. ASSUME NEW u \in Users, ExpireMapping(u) PROVE KeptOutInv'
    <3>1. UNCHANGED <<pc, found, reply, faults>> /\ \A v \in Users : mapping'[v] \in {mapping[v], "absent"}
      BY <2>2, <2>8 DEF ExpireMapping
    <3>2. \A d \in Calls : ~Transaction(d)
      BY <2>3, <3>1
    <3> QED
      BY <1>2, <2>1, <3>1, <3>2, QuietKeptOut
  <2> QED
    BY <1>1, <1>2, <2>4, <2>5, <2>6, <2>7, <2>8, StepOf
<1> QED
  BY <1>1, <1>2

\* However the cached grants of UserMappingService are filled and expire, a user
\* whom createTenantAndWorkspace has given a workspace is kept out afterwards only
\* if one of his requests looked up his grants meanwhile, or something failed.
THEOREM KeptOut == OnboardSpec => []KeptOutByRace
<1>1. ASSUME OnboardTypeInv, KeptOutInv PROVE KeptOutByRace
  <2> SUFFICES ASSUME NEW c \in Calls, NEW d \in Calls, pc[c] = "done", reply[c] = "none", faults = 0,
                      d \in before[c], reply[d] = "created", request[c].user = request[d].user
               PROVE  \E q \in Calls : request[q] = request[c] /\ Overlap(q, d)
    BY DEF KeptOutByRace, Returned
  <2>1. LookedUp(request[c].user, d)
    BY <1>1 DEF KeptOutInv, KeptOutOK
  <2>2. request[c] \in Onboardings /\ request[c].op = "enter"
    BY <1>1 DEF OnboardTypeInv, OnboardCallOK
  <2>3. request[c] = [op |-> "enter", user |-> request[c].user]
    BY <2>2, OnboardFields
  <2> QED
    BY <2>1, <2>3 DEF LookedUp
<1> QED
  BY <1>1, InitTypes, NextTypes, InitKeptOut, NextKeptOut, PTL DEF OnboardSpec
=============================================================================
