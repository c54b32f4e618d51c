----------------------------- MODULE AccessProofs -----------------------------
(***************************************************************************)
(* Proofs about Accounts and about Access, which extends it, for any number *)
(* of accounts, names, keys and requests, any limit and any role of remote  *)
(* users.                                                                   *)
(***************************************************************************)
EXTENDS Access, FiniteSetTheorems, TLAPS

-----------------------------------------------------------------------------
(* Accounts *)

\* What a call in progress carries.
CallType ==
    call \in [Calls -> [at : {"idle", "create_limit", "insert", "update_name", "update_admins",
                              "update_limit", "update", "delete"},
                        id : Ids \union {None}, name : Names \union {None},
                        role : Roles, was : Roles]]

UserType ==
    users \in [Ids -> [role : Roles \union {"unused", "deleted"}, name : Names \union {None}]]

Types == UserType /\ CallType /\ ops \in 0 .. MaxOps

\* A check only moves its call on.
LEMMA ChecksType ==
    ASSUME Types, NEW c \in Calls, NEW step, NEW ok \in BOOLEAN,
           NEW next \in {"insert", "update_admins", "update_limit", "update"},
           Checks(c, step, ok, next)
    PROVE  Types'
<1>1. CallType'
  <2>1. CASE ok
    BY <2>1 DEF Checks, Types, CallType
  <2>2. CASE ~ok
    BY <2>2 DEF Checks, Types, CallType, Idle, Roles
  <2> QED
    BY <2>1, <2>2
<1>2. UserType' /\ (ops \in 0 .. MaxOps)'
  BY DEF Checks, Types, UserType
<1> QED
  BY <1>1, <1>2 DEF Types

\* A statement writes well-typed rows and ends its call.
LEMMA WritesType ==
    ASSUME Types, NEW c \in Calls, NEW step, NEW ok \in BOOLEAN, NEW new,
           ok => new \in [Ids -> [role : Roles \union {"unused", "deleted"}, name : Names \union {None}]],
           Writes(c, step, ok, new)
    PROVE  Types'
<1>1. CallType'
  BY DEF Writes, Types, CallType, Idle, Roles
<1>2. UserType'
  <2>1. CASE ok
    BY <2>1 DEF Writes, UserType
  <2>2. CASE ~ok
    BY <2>2 DEF Writes, UserType, Types
  <2> QED
    BY <2>1, <2>2
<1>3. (ops \in 0 .. MaxOps)'
  BY DEF Writes, Types
<1> QED
  BY <1>1, <1>2, <1>3 DEF Types

\* A request that comes in writes nothing yet.
LEMMA BeginsType ==
    ASSUME Types, NEW c \in Calls,
           NEW rec \in [at : {"create_limit", "update_name", "delete"},
                        id : Ids \union {None}, name : Names \union {None}, role : Roles, was : Roles],
           Begins(c, rec)
    PROVE  Types'
<1>1. CallType'
  BY DEF Begins, Types, CallType
<1>2. UserType' /\ (ops \in 0 .. MaxOps)'
  BY AccountsAssumption DEF Begins, Types, UserType
<1> QED
  BY <1>1, <1>2 DEF Types

\* Every request, check and statement keeps the types.
LEMMA TypesNext == Types /\ [Next]_vars => Types'
<1> SUFFICES ASSUME Types, [Next]_vars PROVE Types'
  OBVIOUS
<1>1. ASSUME NEW c \in Calls, NEW n \in Names, NEW r \in Roles, CreateBegin(c, n, r) PROVE Types'
  <2>1. [Idle EXCEPT !.at = "create_limit", !.name = n, !.role = r]
           \in [at : {"create_limit", "update_name", "delete"},
                id : Ids \union {None}, name : Names \union {None}, role : Roles, was : Roles]
    BY DEF Idle, Roles
  <2> QED
    BY <1>1, <2>1, BeginsType DEF CreateBegin
<1>2. ASSUME NEW c \in Calls, NEW i \in Ids, NEW n \in Names, NEW r \in Roles, UpdateBegin(c, i, n, r)
      PROVE  Types'
  <2>1. users[i].role \in Roles
    BY <1>2 DEF UpdateBegin, Present
  <2> QED
    BY <1>2, <2>1, BeginsType DEF UpdateBegin
<1>3. ASSUME NEW c \in Calls, NEW i \in Ids, DeleteBegin(c, i) PROVE Types'
  <2>1. [Idle EXCEPT !.at = "delete", !.id = i]
           \in [at : {"create_limit", "update_name", "delete"},
                id : Ids \union {None}, name : Names \union {None}, role : Roles, was : Roles]
    BY DEF Idle, Roles
  <2> QED
    BY <1>3, <2>1, BeginsType DEF DeleteBegin
<1>4. ASSUME NEW c \in Calls, NEW i \in Ids, Insert(c, i) PROVE Types'
  <2>1. call[c].role \in Roles /\ call[c].name \in Names \union {None}
    BY DEF Types, CallType
  <2>2. [users EXCEPT ![i] = [role |-> call[c].role, name |-> call[c].name]]
           \in [Ids -> [role : Roles \union {"unused", "deleted"}, name : Names \union {None}]]
    BY <2>1 DEF Types, UserType
  <2> QED
    BY <1>4, <2>2, WritesType DEF Insert, Unique
<1>5. ASSUME NEW c \in Calls, CreateLimit(c) PROVE Types'
  BY <1>5, ChecksType DEF CreateLimit, UnderLimit
<1>6. ASSUME NEW c \in Calls, UpdateName(c) PROVE Types'
  BY <1>6, ChecksType DEF UpdateName, Unique
<1>7. ASSUME NEW c \in Calls, UpdateAdmins(c) PROVE Types'
  BY <1>7, ChecksType DEF UpdateAdmins
<1>8. ASSUME NEW c \in Calls, UpdateLimit(c) PROVE Types'
  BY <1>8, ChecksType DEF UpdateLimit
<1>9. ASSUME NEW c \in Calls, Update(c) PROVE Types'
  <2>1. call[c].role \in Roles /\ call[c].name \in Names \union {None}
    BY DEF Types, CallType
  <2>2. [users EXCEPT ![call[c].id] = [role |-> call[c].role, name |-> call[c].name]]
           \in [Ids -> [role : Roles \union {"unused", "deleted"}, name : Names \union {None}]]
    BY <2>1 DEF Types, UserType
  <2> QED
    BY <1>9, <2>2, WritesType DEF Update, Updatable, Unique
<1>10. ASSUME NEW c \in Calls, Delete(c) PROVE Types'
  <2>1. [users EXCEPT ![call[c].id] = [role |-> "deleted", name |-> None]]
           \in [Ids -> [role : Roles \union {"unused", "deleted"}, name : Names \union {None}]]
    BY DEF Types, UserType
  <2>2. UserType'
    BY <1>10, <2>1 DEF Delete, Writes, UserType, Types
  <2>3. CallType' /\ (ops \in 0 .. MaxOps)'
    BY <1>10 DEF Delete, Writes, CallType, Types, Idle, Roles
  <2> QED
    BY <2>2, <2>3 DEF Types
<1>11. CASE UNCHANGED vars
  BY <1>11 DEF vars, Types, UserType, CallType
<1> QED
  BY <1>1, <1>2, <1>3, <1>4, <1>5, <1>6, <1>7, <1>8, <1>9, <1>10, <1>11 DEF Next

\* What any step may do to the rows: insert or change one whose name is free and
\* whose guard holds, or delete one.
RowStepped ==
    \/ UNCHANGED users
    \/ \E i \in Ids, row \in [role : Roles, name : Names \union {None}] :
         /\ users' = [users EXCEPT ![i] = row]
         /\ Unique(row.name, i)
         /\ users[i].role = "unused" \/ Updatable(i, row.role)
    \/ \E i \in Present : users' = [users EXCEPT ![i] = [role |-> "deleted", name |-> None]]

LEMMA RowStep ==
    ASSUME Types, [Next]_vars
    PROVE  RowStepped
<1> SUFFICES ASSUME ~UNCHANGED users
             PROVE  \/ \E i \in Ids, row \in [role : Roles, name : Names \union {None}] :
                         /\ users' = [users EXCEPT ![i] = row]
                         /\ Unique(row.name, i)
                         /\ users[i].role = "unused" \/ Updatable(i, row.role)
                    \/ \E i \in Present : users' = [users EXCEPT ![i] = [role |-> "deleted", name |-> None]]
  BY DEF RowStepped
<1>1. ASSUME NEW c \in Calls
      PROVE  [role |-> call[c].role, name |-> call[c].name] \in [role : Roles, name : Names \union {None}]
  BY DEF Types, CallType
<1>2. ASSUME NEW c \in Calls, NEW i \in Ids, Insert(c, i)
      PROVE  \E row \in [role : Roles, name : Names \union {None}] :
                         /\ users' = [users EXCEPT ![i] = row]
                         /\ Unique(row.name, i)
                         /\ users[i].role = "unused" \/ Updatable(i, row.role)
  BY <1>1, <1>2 DEF Insert, Writes
<1>3. ASSUME NEW c \in Calls, Update(c)
      PROVE  \E i \in Ids, row \in [role : Roles, name : Names \union {None}] :
                         /\ users' = [users EXCEPT ![i] = row]
                         /\ Unique(row.name, i)
                         /\ users[i].role = "unused" \/ Updatable(i, row.role)
  <2>1. Updatable(call[c].id, call[c].role) /\ Unique(call[c].name, call[c].id)
        /\ users' = [users EXCEPT ![call[c].id] = [role |-> call[c].role, name |-> call[c].name]]
    BY <1>3 DEF Update, Writes
  <2>2. call[c].id \in Ids
    BY <2>1 DEF Updatable, Present
  <2> QED
    BY <1>1, <2>1, <2>2
<1>4. ASSUME NEW c \in Calls, Delete(c)
      PROVE  \E i \in Present : users' = [users EXCEPT ![i] = [role |-> "deleted", name |-> None]]
  BY <1>4 DEF Delete, Writes
<1>5. \E c \in Calls : (\E i \in Ids : Insert(c, i)) \/ Update(c) \/ Delete(c)
  BY DEF Next, vars, CreateBegin, UpdateBegin, DeleteBegin, Begins, CreateLimit, UpdateName,
     UpdateAdmins, UpdateLimit, Checks
<1> QED
  BY <1>2, <1>3, <1>4, <1>5

\* Such a step gives no name twice.
LEMMA NamesKept == Types /\ NamesUnique /\ RowStepped => NamesUnique'
<1> SUFFICES ASSUME Types, NamesUnique, RowStepped PROVE NamesUnique'
  OBVIOUS
<1>1. CASE UNCHANGED users
  BY <1>1 DEF NamesUnique, Present
<1>2. ASSUME NEW i \in Ids, NEW row \in [role : Roles, name : Names \union {None}],
             users' = [users EXCEPT ![i] = row], Unique(row.name, i)
      PROVE  NamesUnique'
  <2>1. \A j \in Ids \ {i} : users'[j] = users[j]
    BY <1>2 DEF Types, UserType
  <2>2. \A j \in Present' \ {i} : j \in Present /\ users'[j].name # row.name
    BY <1>2, <2>1 DEF Present, Unique, Named
  <2>3. users'[i] = row
    BY <1>2 DEF Types, UserType
  <2> QED
    BY <2>1, <2>2, <2>3 DEF NamesUnique, Present
<1>3. ASSUME NEW i \in Present, users' = [users EXCEPT ![i] = [role |-> "deleted", name |-> None]]
      PROVE  NamesUnique'
  <2>1. Present' \subseteq Present \ {i} /\ \A j \in Present' : users'[j] = users[j]
    BY <1>3 DEF Present, Types, UserType, Roles
  <2> QED
    BY <2>1 DEF NamesUnique
<1> QED
  BY <1>1, <1>2, <1>3 DEF RowStepped

\* Such a step that takes an admin's role leaves another admin.
LEMMA AdminKept ==
    Types /\ RowStepped => ((\E i \in Admins : users'[i].role \in Roles \ {"admin"}) => Admins' # {})
<1> SUFFICES ASSUME Types, RowStepped, NEW k \in Admins, users'[k].role \in Roles \ {"admin"}
             PROVE  Admins' # {}
  OBVIOUS
<1>1. k \in Ids /\ users[k].role = "admin"
  BY DEF Admins
<1>2. PICK i \in Ids, row \in [role : Roles, name : Names \union {None}] :
             /\ users' = [users EXCEPT ![i] = row]
             /\ users[i].role = "unused" \/ Updatable(i, row.role)
  <2>1. ASSUME NEW i \in Present PROVE users' # [users EXCEPT ![i] = [role |-> "deleted", name |-> None]]
    BY <1>1, <2>1 DEF Types, UserType, Roles
  <2>2. ~UNCHANGED users
    BY <1>1
  <2> QED
    BY <2>1, <2>2 DEF RowStepped
<1>3. k = i /\ row.role # "admin"
  BY <1>1, <1>2 DEF Types, UserType
<1>4. ~(Cardinality(Admins) <= 1)
  BY <1>1, <1>2, <1>3 DEF Updatable
<1>5. Admins # {k}
  <2>1. Cardinality({k}) = 1
    BY FS_Singleton
  <2> QED
    BY <1>4, <2>1
<1>6. PICK j \in Admins : j # k
  BY <1>5
<1>7. j \in Admins'
  BY <1>2, <1>3, <1>6 DEF Admins, Types, UserType
<1> QED
  BY <1>7

LEMMA TypesInit == Init => Types
  BY AccountsAssumption DEF Init, Types, UserType, CallType, Idle, Roles

LEMMA NamesInit == Init => NamesUnique
  BY DEF Init, NamesUnique, Present, Roles

-----------------------------------------------------------------------------

\* The rows and the calls keep their types.
THEOREM TypeSafe == Spec => []TypeOK
<1>1. Types => TypeOK
  BY DEF Types, UserType, CallType, TypeOK
<1> QED
  BY <1>1, TypesInit, TypesNext, PTL DEF Spec

\* However the checks of two calls interleave with their statements, no two
\* accounts get the same name (UserService.CreateUser, UpdateUser).
THEOREM NoNameTwice == Spec => []NamesUnique
  BY TypesInit, NamesInit, TypesNext, RowStep, NamesKept, PTL DEF Spec

\* A change of role leaves an admin, whatever the calls counted before
\* (the guard in UserStore.UpdateUser's statement).
THEOREM AnAdminRemains == Spec => DemotionLeavesAdmin
<1>1. Types /\ [Next]_vars => [(\E i \in Admins : users'[i].role \in Roles \ {"admin"}) => Admins' # {}]_vars
  BY RowStep, AdminKept
<1> QED
  BY <1>1, TypesInit, TypesNext, PTL DEF Spec, DemotionLeavesAdmin

-----------------------------------------------------------------------------
(* Access *)

Listings == [Ids -> Names \union {None, Unknown}]

\* What a request carries beside its call on the accounts.
ReqRecs ==
    [at : {"rest", "in", "reload", "swap", "keys", "label", "blank", "remote_name", "remote_limit",
           "remote_insert", "remote_again", "key", "owner"},
     id : Ids \union {None}, name : Names \union {None}, role : Roles, key : Keys \union {None},
     rows : Listings \union {<<>>}, n : Nat]
ReqType == req \in [Calls -> ReqRecs]
KeyType == keys \in [Keys -> [owner : Ids \union {None}, role : Roles,
                              state : {"none", "active", "ended", "deleted"}]]
LabelType == labels \in Listings /\ reads \in Nat /\ shown \in 0 .. reads
AccessTypes == Types /\ ReqType /\ KeyType /\ LabelType

-----------------------------------------------------------------------------
(* The invariants *)

\* A request on the accounts is nothing else meanwhile.
OneThing == \A c \in Calls : call[c].at # "idle" => req[c].at = "rest"

\* What a key allows, from the moment it is resolved: the key was issued, its
\* role is the one read or it is gone, and the owner's roles since are noted.
HasOwner ==
    /\ \A k \in Keys : keys[k].state \in {"active", "ended"} => keys[k].owner \in Ids
    /\ \A c \in Calls : req[c].at = "key" => req[c].id \in Ids
KeyInv ==
    \A c \in Calls :
        LET k == req[c].key IN
        k # None /\ req[c].at \in {"owner", "in"} =>
            /\ k \in Keys /\ keys[k].state # "none" /\ req[c].id \in Ids
            /\ req[c].at = "owner" => /\ users[req[c].id].role \in owned[c]
                                      /\ keys[k].owner = req[c].id => req[c].role = keys[k].role
            /\ req[c].at = "in" => /\ \E r \in owned[c] \intersect Roles : Rank(req[c].role) <= Rank(r)
                                   /\ keys[k].owner = req[c].id => Rank(req[c].role) <= Rank(keys[k].role)

\* The newest list that was read is in the hands of its reload or is shown.
Fresh(list) == \A i \in Present : list[i] \in {users[i].name, Unknown}
FreshShown == \A i \in Present \ blank : labels[i] \in {users[i].name, Unknown}
Newest(c) == req[c].at = "swap" /\ req[c].n = reads

\* No label for an id that is still to be given.
LabelInv ==
    /\ \A i \in Ids : users[i].role = "unused" =>
          labels[i] = Unknown /\ \A c \in Calls : req[c].at = "swap" => req[c].rows[i] = Unknown
    /\ \A c \in Calls : /\ req[c].at \in {"label", "blank"} => req[c].id \in Ids /\ users[req[c].id].role # "unused"
                        /\ req[c].at = "swap" => req[c].rows \in Listings /\ req[c].n <= reads

\* When no reload is due, the newest list is true, and a label on its way is
\* true or finds the id known.
ListInv ==
    (\A c \in Calls : req[c].at # "reload") =>
        /\ \A c \in Calls : Newest(c) => Fresh(req[c].rows)
        /\ shown = reads => FreshShown
        /\ \A c \in Calls : LET i == req[c].id IN
              req[c].at = "label" /\ i \in Present =>
                 \/ req[c].name = users[i].name
                 \/ /\ \A d \in Calls : Newest(d) => req[d].rows[i] # Unknown
                    /\ shown = reads => labels[i] # Unknown

IInv == AccessTypes /\ NamesUnique /\ OneThing /\ HasOwner /\ KeyInv /\ LabelInv /\ ListInv

-----------------------------------------------------------------------------
(* What a step does to the accounts and to who takes it *)

\* The other requests stay where they are.
Only(c) == \A d \in Calls \ {c} : req'[d] = req[d]

LEMMA BecomesOnly ==
    ASSUME ReqType, NEW c \in Calls, NEW r, Becomes(c, r)
    PROVE  Only(c) /\ req'[c] = r
  BY DEF ReqType, Only, Becomes

LEMMA NewOnly ==
    ASSUME ReqType, NEW c \in Calls, NEW r, NewRequest(c, r)
    PROVE  /\ Only(c) /\ req'[c] = r /\ req[c].at \in {"rest", "in"} /\ call[c].at = "idle"
           /\ UNCHANGED <<users, call, keys, labels, blank, reads, shown>> /\ ops < MaxOps /\ ops' = ops + 1
  BY BecomesOnly DEF NewRequest, Free, Idle

\* A call on the accounts begins, and is all this request is.
LEMMA Began ==
    ASSUME ReqType, NEW c \in Calls, Manage(c)
    PROVE  /\ Only(c) /\ req'[c] = Rest /\ req[c].at \in {"rest", "in"} /\ [Next]_vars
           /\ UNCHANGED <<users, keys, labels, blank, reads, shown>>
           /\ \A d \in Calls \ {c} : call'[d] = call[d]
<1>1. Only(c) /\ req'[c] = Rest /\ req[c].at \in {"rest", "in"} /\ UNCHANGED <<keys, labels, blank, reads, shown>>
  BY BecomesOnly DEF Manage, Free
<1>2. [Next]_vars
  BY DEF Manage, Next
<1>3. UNCHANGED users /\ \E rec : call' = [call EXCEPT ![c] = rec]
  BY DEF Manage, CreateBegin, UpdateBegin, DeleteBegin, Begins
<1> QED
  BY <1>1, <1>2, <1>3

\* A call on the accounts moves on: it has written and goes on with the reload,
\* has ended, or is still only that.
LEMMA Stepped ==
    ASSUME AccessTypes, OneThing, NEW c \in Calls, AccountsStep(c)
    PROVE  /\ Only(c) /\ req'[c] \in {Rest, AfterWrite(call[c].at, call[c].id)}
           /\ req[c].at = "rest" /\ [Next]_vars
           /\ UNCHANGED <<keys, labels, blank, reads, shown>>
           /\ \A d \in Calls \ {c} : call'[d] = call[d]
           /\ users' # users => req'[c].at = "reload"
           /\ call'[c].at # "idle" => req'[c] = Rest
<1>1. /\ Only(c) /\ UNCHANGED <<keys, labels, blank, reads, shown>>
      /\ req'[c] = IF Wrote(c) THEN AfterWrite(call[c].at, call[c].id) ELSE Rest
  BY BecomesOnly DEF AccountsStep, AccessTypes
<1>2. [Next]_vars
  BY DEF AccountsStep, Next
<1>3. CASE CreateLimit(c) \/ UpdateName(c) \/ UpdateAdmins(c) \/ UpdateLimit(c)
  <2>1. UNCHANGED users /\ call[c].at \notin {"idle", "update"}
        /\ \A d \in Calls \ {c} : call'[d] = call[d]
    BY <1>3 DEF CreateLimit, UpdateName, UpdateAdmins, UpdateLimit, Checks, AccessTypes, Types, CallType
  <2>2. ~Wrote(c)
    BY <2>1 DEF Wrote
  <2> QED
    BY <1>1, <1>2, <2>1, <2>2 DEF OneThing
<1>4. CASE Update(c) \/ Delete(c) \/ \E i \in Ids : Insert(c, i)
  <2>1. call[c].at # "idle" /\ call'[c] = Idle /\ \A d \in Calls \ {c} : call'[d] = call[d]
    BY <1>4 DEF Update, Delete, Insert, Writes, AccessTypes, Types, CallType
  <2>2. users' # users => Wrote(c)
    BY DEF Wrote
  <2>3. AfterWrite(call[c].at, call[c].id).at = "reload"
    BY DEF AfterWrite, Rest
  <2> QED
    BY <1>1, <1>2, <2>1, <2>2, <2>3 DEF OneThing, Idle
<1> QED
  BY <1>3, <1>4 DEF AccountsStep

\* The account of a remote user, when its name is still free.
LEMMA Inserted ==
    ASSUME AccessTypes, NEW c \in Calls, NEW i \in Ids, RemoteInsert(c, i)
    PROVE  /\ Only(c) /\ req[c].at = "remote_insert" /\ users[i].role = "unused"
           /\ req'[c].at \in {"in", "remote_again"} /\ (req'[c].at = "in" => req'[c].key = None)
           /\ UNCHANGED <<call, ops, keys, labels, blank, reads, shown>>
           /\ \/ UNCHANGED users
              \/ \E row \in [role : Roles, name : Names \union {None}] :
                    users' = [users EXCEPT ![i] = row] /\ Unique(row.name, i)
<1>1. [role |-> DefaultRole, name |-> req[c].name] \in [role : Roles, name : Names \union {None}]
  BY AccessAssumption DEF AccessTypes, ReqType, ReqRecs
<1>2. CASE Unique(req[c].name, i)
  <2>1. /\ users' = [users EXCEPT ![i] = [role |-> DefaultRole, name |-> req[c].name]]
        /\ Becomes(c, [Rest EXCEPT !.at = "in", !.id = i, !.role = DefaultRole])
    BY <1>2 DEF RemoteInsert
  <2>2. Only(c) /\ req'[c] = [Rest EXCEPT !.at = "in", !.id = i, !.role = DefaultRole]
    BY <2>1, BecomesOnly DEF AccessTypes
  <2>3. req'[c].at = "in" /\ req'[c].key = None
    BY <2>2 DEF Rest
  <2> QED
    BY <1>1, <1>2, <2>1, <2>2, <2>3 DEF RemoteInsert
<1>3. CASE ~Unique(req[c].name, i)
  <2>1. Becomes(c, [req[c] EXCEPT !.at = "remote_again"]) /\ UNCHANGED users
    BY <1>3 DEF RemoteInsert
  <2>2. Only(c) /\ req'[c].at = "remote_again"
    BY <2>1, BecomesOnly DEF AccessTypes, ReqType, ReqRecs
  <2> QED
    BY <1>3, <2>1, <2>2 DEF RemoteInsert
<1> QED
  BY <1>2, <1>3

\* Every step of requests, keys and accounts together changes the rows as one of the accounts may.
LEMMA AccessRowStep ==
    ASSUME AccessTypes, OneThing, [AccessNext]_<<vars, access>>
    PROVE  RowStepped
<1>1. ASSUME NEW c \in Calls, Manage(c) \/ AccountsStep(c) PROVE RowStepped
  BY <1>1, Began, Stepped, RowStep DEF AccessTypes
<1>2. ASSUME NEW c \in Calls, NEW i \in Ids, RemoteInsert(c, i) PROVE RowStepped
  BY <1>2, Inserted DEF RowStepped
<1>3. ASSUME UNCHANGED users PROVE RowStepped
  BY <1>3 DEF RowStepped
<1> QED
  BY <1>1, <1>2, <1>3 DEF AccessNext, ReloadRead, ReloadSwap, ReloadFails, DeleteKeys, StoreLabel, RemoteBegin, RemoteName,
     RemoteLimit, RemoteAgain, ResolveBegin, ResolveOwner, FetchLabel, CreateKeyBegin, CreateKey, EndKey, NewRequest, vars

-----------------------------------------------------------------------------
(* Types *)

LEMMA ReqStep ==
    ASSUME ReqType, NEW c \in Calls, NEW r \in ReqRecs, Becomes(c, r)
    PROVE  ReqType'
  BY DEF ReqType, Becomes

\* A new request writes nothing.
LEMMA NewTypes ==
    ASSUME AccessTypes, NEW c \in Calls, NEW r \in ReqRecs, NewRequest(c, r)
    PROVE  AccessTypes'
<1>1. ReqType'
  BY ReqStep DEF AccessTypes, NewRequest
<1>2. Types'
  BY AccountsAssumption DEF AccessTypes, NewRequest, Types, UserType, CallType
<1> QED
  BY <1>1, <1>2 DEF AccessTypes, NewRequest, KeyType, LabelType

\* A step on none of the tables.
LEMMA QuietTypes ==
    ASSUME AccessTypes, NEW c \in Calls, NEW r \in ReqRecs, Becomes(c, r), UNCHANGED <<vars, keys, labels, blank, reads, shown>>
    PROVE  AccessTypes'
<1>1. ReqType'
  BY ReqStep DEF AccessTypes
<1> QED
  BY <1>1 DEF AccessTypes, Types, UserType, CallType, vars, KeyType, LabelType

LEMMA RestRec == Rest \in ReqRecs
  BY DEF Rest, ReqRecs, Roles

\* What a reload reads, as labels.
LEMMA ListedType == Types => Listed \in Listings
  BY DEF Types, UserType, Listed, Listings

\* What the sign-in of a remote user becomes.
LEMMA LookupRec ==
    ASSUME Types, NEW c \in Calls, NEW n \in Names \union {None}, NEW otherwise \in {"remote_name", "rest"}
    PROVE  Lookup(c, n, otherwise) \in ReqRecs
<1>1. ASSUME NEW i \in Named(n) PROVE SignedIn(i) \in ReqRecs
  BY <1>1, RestRec DEF SignedIn, Named, Present, Types, UserType, ReqRecs
<1>2. [Rest EXCEPT !.at = otherwise, !.name = n] \in ReqRecs
  BY RestRec DEF ReqRecs
<1> QED
  BY <1>1, <1>2 DEF Lookup

\* Every step keeps the types.
LEMMA AccessTypesNext ==
    AccessTypes /\ OneThing /\ LabelInv /\ [AccessNext]_<<vars, access>> => AccessTypes'
<1> SUFFICES ASSUME AccessTypes, OneThing, LabelInv, [AccessNext]_<<vars, access>> PROVE AccessTypes'
  OBVIOUS
<1>0. ReqType /\ Types /\ \A c \in Calls : req[c] \in ReqRecs
  BY DEF AccessTypes, ReqType
<1>1. ASSUME NEW c \in Calls, Manage(c) PROVE AccessTypes'
  <2>1. Types'
    BY <1>0, <1>1, Began, TypesNext
  <2>2. ReqType'
    BY <1>0, <1>1, RestRec, ReqStep DEF Manage
  <2> QED
    BY <1>1, <2>1, <2>2 DEF Manage, AccessTypes, KeyType, LabelType
<1>2. ASSUME NEW c \in Calls, AccountsStep(c) PROVE AccessTypes'
  <2>1. Types'
    BY <1>0, <1>2, Stepped, TypesNext
  <2>2. AfterWrite(call[c].at, call[c].id) \in ReqRecs
    <3>1. call[c].id \in Ids \union {None}
      BY <1>0 DEF Types, CallType
    <3> QED
      BY <3>1, RestRec DEF AfterWrite, ReqRecs
  <2>3. ReqType'
    BY <1>0, <1>2, <2>2, RestRec, ReqStep DEF AccountsStep
  <2> QED
    BY <1>2, <2>1, <2>3 DEF AccountsStep, AccessTypes, KeyType, LabelType
<1>3. ASSUME NEW c \in Calls, ReloadRead(c) PROVE AccessTypes'
  <2>1. [req[c] EXCEPT !.at = "swap", !.rows = Listed, !.n = reads + 1] \in ReqRecs
    <3>1. Listed \in Listings /\ reads + 1 \in Nat /\ req[c] \in ReqRecs
      BY <1>0, ListedType DEF AccessTypes, LabelType
    <3> QED
      BY <3>1 DEF ReqRecs
  <2>2. ReqType'
    BY <1>0, <1>3, <2>1, ReqStep DEF ReloadRead
  <2>3. LabelType'
    BY <1>3 DEF ReloadRead, AccessTypes, LabelType
  <2> QED
    BY <1>0, <1>3, <2>2, <2>3 DEF ReloadRead, AccessTypes, vars, Types, UserType, CallType, KeyType
<1>4. ASSUME NEW c \in Calls, ReloadSwap(c) PROVE AccessTypes'
  <2>1. AfterReload(c) \in ReqRecs
    BY <1>0, RestRec DEF AfterReload, ReqRecs
  <2>2. ReqType'
    BY <1>0, <1>4, <2>1, ReqStep DEF ReloadSwap
  <2>3. LabelType'
    BY <1>0, <1>4 DEF ReloadSwap, AccessTypes, LabelType, LabelInv, ReqRecs
  <2> QED
    BY <1>0, <1>4, <2>2, <2>3 DEF ReloadSwap, AccessTypes, vars, Types, UserType, CallType, KeyType
<1>4a. ASSUME NEW c \in Calls, ReloadFails(c) PROVE AccessTypes'
  <2>1. AfterReload(c) \in ReqRecs
    BY <1>0, RestRec DEF AfterReload, ReqRecs
  <2>2. ReqType'
    BY <1>0, <1>4a, <2>1, ReqStep DEF ReloadFails
  <2>3. LabelType'
    BY <1>4a DEF ReloadFails, AccessTypes, LabelType
  <2> QED
    BY <1>0, <1>4a, <2>2, <2>3 DEF ReloadFails, AccessTypes, vars, Types, UserType, CallType, KeyType
<1>5. ASSUME NEW c \in Calls, DeleteKeys(c) PROVE AccessTypes'
  <2>1. ReqType'
    BY <1>0, <1>5, RestRec, ReqStep DEF DeleteKeys
  <2>2. KeyType'
    BY <1>5 DEF DeleteKeys, NoKey, AccessTypes, KeyType, Roles
  <2> QED
    BY <1>0, <1>5, <2>1, <2>2 DEF DeleteKeys, AccessTypes, vars, Types, UserType, CallType, LabelType
<1>6. ASSUME NEW c \in Calls, NEW i \in Ids, FetchLabel(c, i) PROVE AccessTypes'
  <2>1. /\ [Rest EXCEPT !.at = "label", !.id = i, !.name = Label(i)] \in ReqRecs
        /\ [Rest EXCEPT !.at = "blank", !.id = i] \in ReqRecs
    BY <1>0, RestRec DEF ReqRecs, Label, Types, UserType
  <2> QED
    BY <1>6, <2>1, NewTypes DEF FetchLabel
<1>7. ASSUME NEW c \in Calls, StoreLabel(c) PROVE AccessTypes'
  <2>1. ReqType'
    BY <1>0, <1>7, RestRec, ReqStep DEF StoreLabel
  <2>2. LabelType'
    BY <1>0, <1>7 DEF StoreLabel, AccessTypes, LabelType, Listings, ReqRecs
  <2> QED
    BY <1>0, <1>7, <2>1, <2>2 DEF StoreLabel, AccessTypes, vars, Types, UserType, CallType, KeyType
<1>8. ASSUME NEW c \in Calls, NEW n \in Names, RemoteBegin(c, n) PROVE AccessTypes'
  BY <1>0, <1>8, LookupRec, NewTypes DEF RemoteBegin
<1>9. ASSUME NEW c \in Calls, RemoteName(c) PROVE AccessTypes'
  <2>1. [req[c] EXCEPT !.at = IF Named(req[c].name) = {} THEN "remote_limit" ELSE "remote_again"] \in ReqRecs
    BY <1>0 DEF ReqRecs
  <2> QED
    BY <1>9, <2>1, QuietTypes DEF RemoteName
<1>10. ASSUME NEW c \in Calls, RemoteLimit(c) PROVE AccessTypes'
  <2>1. [req[c] EXCEPT !.at = "remote_insert"] \in ReqRecs
    BY <1>0 DEF ReqRecs
  <2> QED
    BY <1>10, <2>1, RestRec, QuietTypes DEF RemoteLimit
<1>11. ASSUME NEW c \in Calls, NEW i \in Ids, RemoteInsert(c, i) PROVE AccessTypes'
  <2>1. [req[c] EXCEPT !.at = "remote_again"] \in ReqRecs
    BY <1>0 DEF ReqRecs
  <2>2. [Rest EXCEPT !.at = "in", !.id = i, !.role = DefaultRole] \in ReqRecs
    BY RestRec, AccessAssumption DEF ReqRecs
  <2>3. ReqType'
    BY <1>0, <1>11, <2>1, <2>2, ReqStep DEF RemoteInsert
  <2>4. Types'
    BY <1>0, <1>11, Inserted DEF Types, UserType, CallType
  <2> QED
    BY <1>11, <2>3, <2>4 DEF RemoteInsert, AccessTypes, KeyType, LabelType
<1>12. ASSUME NEW c \in Calls, RemoteAgain(c) PROVE AccessTypes'
  <2>1. Lookup(c, req[c].name, "rest") \in ReqRecs
    BY <1>0, LookupRec DEF ReqRecs
  <2> QED
    BY <1>12, <2>1, QuietTypes DEF RemoteAgain
<1>13. ASSUME NEW c \in Calls, NEW i \in Ids, NEW r \in Roles, CreateKeyBegin(c, i, r) PROVE AccessTypes'
  <2>1. [Rest EXCEPT !.at = "key", !.id = i, !.role = r] \in ReqRecs
    BY RestRec DEF ReqRecs
  <2> QED
    BY <1>13, <2>1, NewTypes DEF CreateKeyBegin
<1>14. ASSUME NEW c \in Calls, NEW k \in Keys, CreateKey(c, k) PROVE AccessTypes'
  <2>1. ReqType'
    BY <1>0, <1>14, RestRec, ReqStep DEF CreateKey
  <2>2. KeyType'
    BY <1>0, <1>14 DEF CreateKey, AccessTypes, KeyType, ReqRecs
  <2> QED
    BY <1>0, <1>14, <2>1, <2>2 DEF CreateKey, AccessTypes, vars, Types, UserType, CallType, LabelType
<1>15. ASSUME NEW k \in Keys, EndKey(k) PROVE AccessTypes'
  BY <1>0, <1>15 DEF EndKey, AccessTypes, vars, Types, UserType, CallType, KeyType, LabelType, ReqType
<1>16. ASSUME NEW c \in Calls, NEW k \in Keys, ResolveBegin(c, k) PROVE AccessTypes'
  <2>1. [Rest EXCEPT !.at = "owner", !.id = keys[k].owner, !.role = keys[k].role, !.key = k] \in ReqRecs
    BY RestRec DEF ReqRecs, AccessTypes, KeyType
  <2> QED
    BY <1>16, <2>1, NewTypes DEF ResolveBegin
<1>17. ASSUME NEW c \in Calls, ResolveOwner(c) PROVE AccessTypes'
  <2>1. ASSUME req[c].id \in Present
        PROVE  [req[c] EXCEPT !.at = "in", !.role = Narrowed(users[req[c].id].role, @)] \in ReqRecs
    <3>1. Narrowed(users[req[c].id].role, req[c].role) \in Roles
      BY <1>0, <2>1 DEF Narrowed, Present, ReqRecs
    <3> QED
      BY <1>0, <3>1 DEF ReqRecs
  <2> QED
    BY <1>17, <2>1, RestRec, QuietTypes DEF ResolveOwner
<1>18. CASE UNCHANGED <<vars, access>>
  BY <1>0, <1>18 DEF access, AccessTypes, vars, Types, UserType, CallType, KeyType, LabelType, ReqType
<1> QED
  BY <1>1, <1>2, <1>3, <1>4, <1>4a, <1>5, <1>6, <1>7, <1>8, <1>9, <1>10, <1>11, <1>12, <1>13, <1>14, <1>15,
     <1>16, <1>17, <1>18 DEF AccessNext

-----------------------------------------------------------------------------
(* One thing at a time, and what a key allows *)

\* A step of a request that is not on the accounts.
LEMMA OneThingKept ==
    ASSUME OneThing, NEW c \in Calls, Only(c), UNCHANGED call,
           call[c].at = "idle" \/ req[c].at # "rest"
    PROVE  OneThing'
  BY DEF OneThing, Only

LEMMA OneThingNext == AccessTypes /\ OneThing /\ [AccessNext]_<<vars, access>> => OneThing'
<1> SUFFICES ASSUME AccessTypes, OneThing, [AccessNext]_<<vars, access>> PROVE OneThing'
  OBVIOUS
<1>0. ReqType
  BY DEF AccessTypes
<1>1. ASSUME NEW c \in Calls, Manage(c) \/ AccountsStep(c) PROVE OneThing'
  <2>1. CASE Manage(c)
    BY <1>0, <2>1, Began DEF OneThing, Only, Rest
  <2>2. CASE AccountsStep(c)
    BY <2>2, Stepped DEF OneThing, Only, Rest
  <2> QED
    BY <1>1, <2>1, <2>2
<1>2. ASSUME NEW c \in Calls, NEW r, NewRequest(c, r) PROVE OneThing'
  BY <1>0, <1>2, NewOnly, OneThingKept
<1>3. ASSUME NEW c \in Calls, NEW r, Becomes(c, r), req[c].at # "rest", UNCHANGED vars PROVE OneThing'
  BY <1>0, <1>3, BecomesOnly, OneThingKept DEF vars
<1>4. ASSUME NEW c \in Calls, NEW i \in Ids, RemoteInsert(c, i) PROVE OneThing'
  BY <1>4, Inserted, OneThingKept
<1>5. ASSUME NEW k \in Keys, EndKey(k) PROVE OneThing'
  BY <1>5 DEF EndKey, vars, OneThing
<1>6. CASE UNCHANGED <<vars, access>>
  BY <1>6 DEF vars, access, OneThing
<1>7. ASSUME NEW c \in Calls, \/ ReloadRead(c) \/ ReloadSwap(c) \/ ReloadFails(c) \/ DeleteKeys(c)
                              \/ StoreLabel(c) \/ RemoteName(c)
                              \/ RemoteLimit(c) \/ RemoteAgain(c) \/ ResolveOwner(c) \/ \E k \in Keys : CreateKey(c, k)
      PROVE  OneThing'
  BY <1>3, <1>7 DEF ReloadRead, ReloadSwap, ReloadFails, DeleteKeys, StoreLabel, RemoteName, RemoteLimit, RemoteAgain,
     ResolveOwner, CreateKey
<1>8. ASSUME NEW c \in Calls, \/ \E i \in Ids : FetchLabel(c, i) \/ \E r \in Roles : CreateKeyBegin(c, i, r)
                              \/ \E n \in Names : RemoteBegin(c, n)
                              \/ \E k \in Keys : ResolveBegin(c, k)
      PROVE  OneThing'
  BY <1>2, <1>8 DEF FetchLabel, CreateKeyBegin, RemoteBegin, ResolveBegin
<1> QED
  BY <1>1, <1>4, <1>5, <1>6, <1>7, <1>8 DEF AccessNext

\* A key that was issued keeps its owner and its role, or loses both.
KeysMove ==
    \A k \in Keys :
        /\ keys[k].state # "none" =>
              /\ keys'[k].state # "none"
              /\ keys'[k].owner \in Ids => keys'[k].owner = keys[k].owner /\ keys'[k].role = keys[k].role
        /\ keys'[k].state \in {"active", "ended"} => keys'[k].owner \in Ids

\* A step of a request that resolves no key leaves what keys allow.
LEMMA KeyKept ==
    ASSUME HasOwner, KeyInv, KeysMove, Notes, NEW c \in Calls, Only(c),
           req'[c].key = None \/ req'[c].at \notin {"owner", "in"}, req'[c].at = "key" => req'[c].id \in Ids
    PROVE  HasOwner' /\ KeyInv'
<1>0. HasOwner'
  BY DEF HasOwner, KeysMove, Only
<1> SUFFICES ASSUME NEW d \in Calls, req'[d].key # None, req'[d].at \in {"owner", "in"}
             PROVE  /\ req'[d].key \in Keys /\ keys'[req'[d].key].state # "none" /\ req'[d].id \in Ids
                    /\ req'[d].at = "owner" =>
                          /\ users'[req'[d].id].role \in owned'[d]
                          /\ keys'[req'[d].key].owner = req'[d].id => req'[d].role = keys'[req'[d].key].role
                    /\ req'[d].at = "in" =>
                          /\ \E r \in owned'[d] \intersect Roles : Rank(req'[d].role) <= Rank(r)
                          /\ keys'[req'[d].key].owner = req'[d].id => Rank(req'[d].role) <= Rank(keys'[req'[d].key].role)
  BY <1>0 DEF KeyInv
<1>1. d # c /\ req'[d] = req[d]
  BY DEF Only
<1>2. owned'[d] = IF req'[d].at = "owner" THEN owned[d] \union {users'[req'[d].id].role} ELSE owned[d]
  BY DEF Notes
<1>3. /\ req[d].key \in Keys /\ keys[req[d].key].state # "none" /\ req[d].id \in Ids
      /\ req[d].at = "owner" => (keys[req[d].key].owner = req[d].id => req[d].role = keys[req[d].key].role)
      /\ req[d].at = "in" => /\ \E r \in owned[d] \intersect Roles : Rank(req[d].role) <= Rank(r)
                             /\ keys[req[d].key].owner = req[d].id => Rank(req[d].role) <= Rank(keys[req[d].key].role)
  BY <1>1 DEF KeyInv
<1> QED
  BY <1>1, <1>2, <1>3 DEF KeysMove

\* Narrowed is at most both.
LEMMA NarrowedBoth ==
    ASSUME NEW o \in Roles, NEW k \in Roles
    PROVE  Rank(Narrowed(o, k)) <= Rank(o) /\ Rank(Narrowed(o, k)) <= Rank(k)
  BY DEF Narrowed, Rank, Roles

LEMMA AfterWriteIs ==
    ASSUME NEW at, NEW i
    PROVE  AfterWrite(at, i).key = None /\ AfterWrite(at, i).at = "reload" /\ Rest.key = None /\ Rest.at = "rest"
  BY DEF AfterWrite, Rest

LEMMA KeyNext ==
    AccessTypes /\ OneThing /\ HasOwner /\ KeyInv /\ [AccessNext]_<<vars, access>> => HasOwner' /\ KeyInv'
<1> SUFFICES ASSUME AccessTypes, OneThing, HasOwner, KeyInv, [AccessNext]_<<vars, access>> PROVE HasOwner' /\ KeyInv'
  OBVIOUS
<1>0. ReqType /\ \A c \in Calls : req[c] \in ReqRecs
  BY DEF AccessTypes, ReqType
<1>a. UNCHANGED keys => KeysMove
  BY DEF KeysMove, HasOwner
<1>1. ASSUME NEW c \in Calls, Manage(c) \/ AccountsStep(c), Notes PROVE HasOwner' /\ KeyInv'
  <2>1. Only(c) /\ req'[c] \in {Rest, AfterWrite(call[c].at, call[c].id)} /\ UNCHANGED keys
    BY <1>0, <1>1, Began, Stepped
  <2>2. req'[c].key = None /\ req'[c].at \in {"rest", "reload"}
    BY <2>1, AfterWriteIs
  <2> QED
    BY <1>1, <1>a, <2>1, <2>2, KeyKept
<1>2. ASSUME NEW c \in Calls, NEW r, Becomes(c, r), r.key = None \/ r.at \notin {"owner", "in"}, r.at = "key" => r.id \in Ids,
             KeysMove, Notes
      PROVE  HasOwner' /\ KeyInv'
  BY <1>0, <1>2, BecomesOnly, KeyKept
<1>3. ASSUME NEW c \in Calls, ReloadRead(c), Notes PROVE HasOwner' /\ KeyInv'
  <2>1. [req[c] EXCEPT !.at = "swap", !.rows = Listed, !.n = reads + 1].at = "swap"
    BY <1>0 DEF ReqRecs
  <2> QED
    BY <1>2, <1>3, <1>a, <2>1 DEF ReloadRead
<1>4. ASSUME NEW c \in Calls, ReloadSwap(c), Notes PROVE HasOwner' /\ KeyInv'
  BY <1>2, <1>4, <1>a DEF ReloadSwap, AfterReload, Rest
<1>4a. ASSUME NEW c \in Calls, ReloadFails(c), Notes PROVE HasOwner' /\ KeyInv'
  BY <1>2, <1>4a, <1>a DEF ReloadFails, AfterReload, Rest
<1>5. ASSUME NEW c \in Calls, DeleteKeys(c), Notes PROVE HasOwner' /\ KeyInv'
  <2>1. KeysMove
    BY <1>5, AccountsAssumption DEF DeleteKeys, KeysMove, HasOwner, NoKey
  <2> QED
    BY <1>2, <1>5, <2>1 DEF DeleteKeys, Rest
<1>6. ASSUME NEW c \in Calls, NEW i \in Ids, FetchLabel(c, i), Notes PROVE HasOwner' /\ KeyInv'
  BY <1>2, <1>6, <1>a DEF FetchLabel, NewRequest, Rest
<1>7. ASSUME NEW c \in Calls, StoreLabel(c), Notes PROVE HasOwner' /\ KeyInv'
  BY <1>2, <1>7, <1>a DEF StoreLabel, Rest
<1>8. ASSUME NEW c \in Calls, NEW n, NEW o \in {"remote_name", "rest"}, Becomes(c, Lookup(c, n, o)), UNCHANGED keys, Notes PROVE HasOwner' /\ KeyInv'
  <2>1. Lookup(c, n, o).key = None /\ Lookup(c, n, o).at # "key"
    BY <1>8 DEF Lookup, SignedIn, Rest
  <2> QED
    BY <1>2, <1>8, <1>a, <2>1
<1>9. ASSUME NEW c \in Calls, RemoteName(c), Notes PROVE HasOwner' /\ KeyInv'
  <2> DEFINE r == [req[c] EXCEPT !.at = IF Named(req[c].name) = {} THEN "remote_limit" ELSE "remote_again"]
  <2>1. r.at \notin {"owner", "in", "key"}
    BY <1>0 DEF ReqRecs
  <2>2. Becomes(c, r) /\ UNCHANGED keys
    BY <1>9 DEF RemoteName
  <2> HIDE DEF r
  <2> QED
    BY <1>2, <1>9, <1>a, <2>1, <2>2
<1>10. ASSUME NEW c \in Calls, RemoteLimit(c), Notes PROVE HasOwner' /\ KeyInv'
  <2>1. [req[c] EXCEPT !.at = "remote_insert"].at = "remote_insert"
    BY <1>0 DEF ReqRecs
  <2> QED
    BY <1>2, <1>10, <1>a, <2>1 DEF RemoteLimit, Rest
<1>11. ASSUME NEW c \in Calls, NEW i \in Ids, RemoteInsert(c, i), Notes PROVE HasOwner' /\ KeyInv'
  BY <1>11, <1>a, Inserted, KeyKept
<1>13. ASSUME NEW c \in Calls, NEW i \in Ids, NEW r \in Roles, CreateKeyBegin(c, i, r), Notes PROVE HasOwner' /\ KeyInv'
  BY <1>2, <1>13, <1>a DEF CreateKeyBegin, NewRequest, Rest
<1>14. ASSUME NEW c \in Calls, NEW k \in Keys, CreateKey(c, k), Notes PROVE HasOwner' /\ KeyInv'
  <2>1. KeysMove
    BY <1>14 DEF CreateKey, KeysMove, HasOwner, AccessTypes, KeyType
  <2> QED
    BY <1>2, <1>14, <2>1 DEF CreateKey, Rest
<1>15. ASSUME NEW k \in Keys, EndKey(k), Notes PROVE HasOwner' /\ KeyInv'
  <2>1. KeysMove /\ UNCHANGED req
    BY <1>15 DEF EndKey, KeysMove, HasOwner, AccessTypes, KeyType
  <2>2. \A d \in Calls : owned'[d] = IF req[d].key = None THEN {}
                                    ELSE IF req[d].at = "owner" THEN owned[d] \union {users'[req[d].id].role} ELSE owned[d]
    BY <1>15, <2>1 DEF Notes
  <2> QED
    BY <2>1, <2>2 DEF HasOwner, KeyInv, KeysMove
<1>16. ASSUME NEW c \in Calls, NEW k \in Keys, ResolveBegin(c, k), Notes PROVE HasOwner' /\ KeyInv'
  <2> DEFINE r == [Rest EXCEPT !.at = "owner", !.id = keys[k].owner, !.role = keys[k].role, !.key = k]
  <2>1. r.at = "owner" /\ r.id = keys[k].owner /\ r.role = keys[k].role /\ r.key = k
    BY DEF Rest
  <2>2. Only(c) /\ req'[c] = r /\ keys[k].state = "active" /\ UNCHANGED <<users, keys>>
    BY <1>0, <1>16, NewOnly DEF ResolveBegin
  <2>3. keys[k].owner \in Ids
    BY <2>2 DEF HasOwner
  <2> HIDE DEF r
  <2>4. \A d \in Calls \ {c} : req'[d] = req[d] /\ (req[d].key # None /\ req[d].at \in {"owner", "in"} => owned[d] \subseteq owned'[d])
    BY <1>16, <2>2 DEF Only, Notes
  <2>5. users'[keys[k].owner].role \in owned'[c] \/ k = None
    BY <1>16, <2>1, <2>2 DEF Notes
  <2>6. HasOwner'
    BY <2>1, <2>2, <2>4 DEF HasOwner
  <2>7. KeyInv'
    BY <2>1, <2>2, <2>3, <2>4, <2>5 DEF KeyInv
  <2> QED
    BY <2>6, <2>7
<1>17. ASSUME NEW c \in Calls, ResolveOwner(c), Notes PROVE HasOwner' /\ KeyInv'
  <2>1. CASE req[c].id \notin Present
    BY <1>2, <1>17, <1>a, <2>1 DEF ResolveOwner, Rest
  <2>2. CASE req[c].id \in Present
    <3> DEFINE o == users[req[c].id].role
               r == [req[c] EXCEPT !.at = "in", !.role = Narrowed(o, @)]
    <3>1. r.at = "in" /\ r.id = req[c].id /\ r.role = Narrowed(o, req[c].role) /\ r.key = req[c].key
      BY <1>0 DEF ReqRecs
    <3>2. Only(c) /\ req'[c] = r /\ req[c].at = "owner" /\ UNCHANGED <<users, keys>>
      BY <1>0, <1>17, <2>2, BecomesOnly DEF ResolveOwner, vars
    <3>3. o \in Roles /\ req[c].role \in Roles
      BY <1>0, <2>2 DEF Present, ReqRecs
    <3>4. Rank(r.role) <= Rank(o) /\ Rank(r.role) <= Rank(req[c].role)
      BY <3>1, <3>3, NarrowedBoth
    <3>5. \A d \in Calls : req'[d].key # None => owned[d] \subseteq owned'[d]
      BY <1>17 DEF Notes
    <3> HIDE DEF r
    <3>6. HasOwner'
      BY <3>1, <3>2 DEF HasOwner, Only
    <3>7. r.key # None => /\ r.key \in Keys /\ keys[r.key].state # "none" /\ r.id \in Ids /\ o \in owned'[c]
                          /\ keys[r.key].owner = r.id => Rank(r.role) <= Rank(keys[r.key].role)
      BY <3>1, <3>2, <3>4, <3>5 DEF KeyInv
    <3>8. KeyInv'
      BY <3>1, <3>2, <3>3, <3>4, <3>5, <3>7 DEF KeyInv, Only
    <3> QED
      BY <3>6, <3>8
  <2> QED
    BY <2>1, <2>2
<1>18. CASE UNCHANGED <<vars, access>>
  BY <1>18 DEF vars, access, HasOwner, KeyInv
<1> QED
  BY <1>1, <1>3, <1>4, <1>4a, <1>5, <1>6, <1>7, <1>8, <1>9, <1>10, <1>11, <1>13, <1>14, <1>15,
     <1>16, <1>17, <1>18 DEF AccessNext, RemoteBegin, RemoteAgain, NewRequest

-----------------------------------------------------------------------------
(* The labels *)

\* A step that touches no list keeps what is known of them, unless it begins a
\* lookup or ends a reload.
LEMMA LabelsKept ==
    ASSUME LabelInv, ListInv, NEW c \in Calls, Only(c), UNCHANGED <<users, labels, blank, reads, shown>>,
           req[c].at # "reload", req'[c].at \notin {"swap", "label", "blank"}
    PROVE  LabelInv' /\ ListInv'
<1>1. LabelInv'
  BY DEF LabelInv, Only
<1>2. Present' = Present /\ (\A list : Fresh(list)' = Fresh(list)) /\ FreshShown' = FreshShown
  BY DEF Present, Fresh, FreshShown
<1>3. ListInv'
  <2>1. SUFFICES ASSUME \A d \in Calls : req'[d].at # "reload"
                 PROVE  /\ \A d \in Calls : Newest(d)' => Fresh(req'[d].rows)
                        /\ shown = reads => FreshShown
                        /\ \A d \in Calls : LET i == req'[d].id IN
                              req'[d].at = "label" /\ i \in Present =>
                                 \/ req'[d].name = users[i].name
                                 \/ /\ \A e \in Calls : Newest(e)' => req'[e].rows[i] # Unknown
                                    /\ shown = reads => labels[i] # Unknown
    BY <1>2 DEF ListInv, Fresh
  <2>2. \A d \in Calls : req[d].at # "reload"
    BY <2>1 DEF Only
  <2>3. \A d \in Calls : Newest(d)' => Newest(d) /\ req'[d] = req[d]
    BY DEF Newest, Only
  <2>4. \A d \in Calls : req'[d].at = "label" => req'[d] = req[d]
    BY DEF Only
  <2> QED
    BY <2>2, <2>3, <2>4 DEF ListInv
<1> QED
  BY <1>1, <1>3

\* An id once given is never given again.
LEMMA UsedStays ==
    ASSUME Types, RowStepped, NEW i \in Ids, users[i].role # "unused"
    PROVE  users'[i].role # "unused"
  BY DEF RowStepped, Types, UserType, Roles

\* Every step keeps the lists true that count.
LEMMA ListNext ==
    AccessTypes /\ OneThing /\ LabelInv /\ ListInv /\ [AccessNext]_<<vars, access>> => LabelInv' /\ ListInv'
<1> SUFFICES ASSUME AccessTypes, OneThing, LabelInv, ListInv, [AccessNext]_<<vars, access>> PROVE LabelInv' /\ ListInv'
  OBVIOUS
<1>0. ReqType /\ Types /\ (\A c \in Calls : req[c] \in ReqRecs) /\ reads \in Nat /\ shown \in 0 .. reads
  BY DEF AccessTypes, ReqType, LabelType
<1>1. ASSUME NEW c \in Calls, Manage(c) PROVE LabelInv' /\ ListInv'
  BY <1>0, <1>1, Began, LabelsKept DEF Rest
<1>2. ASSUME NEW c \in Calls, AccountsStep(c) PROVE LabelInv' /\ ListInv'
  <2>1. /\ Only(c) /\ req[c].at = "rest" /\ req'[c].at \in {"rest", "reload"} /\ UNCHANGED <<keys, labels, blank, reads, shown>>
        /\ users' # users => req'[c].at = "reload"
    BY <1>2, Stepped, AfterWriteIs
  <2>2. CASE UNCHANGED users
    BY <2>1, <2>2, LabelsKept
  <2>3. CASE users' # users
    <3>1. \A i \in Ids : users[i].role # "unused" => users'[i].role # "unused"
      BY <1>0, <1>2, Stepped, RowStep, UsedStays
    <3>2. LabelInv'
      BY <2>1, <2>3, <3>1 DEF LabelInv, Only
    <3>3. ListInv'
      BY <2>1, <2>3 DEF ListInv
    <3> QED
      BY <3>2, <3>3
  <2> QED
    BY <2>2, <2>3
<1>3. ASSUME NEW c \in Calls, ReloadRead(c) PROVE LabelInv' /\ ListInv'
  <2>1. [req[c] EXCEPT !.at = "swap", !.rows = Listed, !.n = reads + 1].at = "swap"
        /\ [req[c] EXCEPT !.at = "swap", !.rows = Listed, !.n = reads + 1].rows = Listed
        /\ [req[c] EXCEPT !.at = "swap", !.rows = Listed, !.n = reads + 1].n = reads + 1
    BY <1>0 DEF ReqRecs
  <2>2. Only(c) /\ req'[c].at = "swap" /\ req'[c].rows = Listed /\ req'[c].n = reads + 1 /\ reads' = reads + 1
        /\ UNCHANGED <<users, labels, blank, shown>>
    BY <1>0, <1>3, <2>1, BecomesOnly DEF ReloadRead, vars
  <2>3. Present' = Present
    BY <2>2 DEF Present
  <2>4. (\A i \in Ids : users[i].role = "unused" => Listed[i] = Unknown)
        /\ (\A i \in Present : Listed[i] = users[i].name /\ Listed[i] # Unknown)
    BY <1>0, AccessAssumption DEF Listed, Present, Roles, Types, UserType
  <2>5. LabelInv'
    <3>1. Listed \in Listings /\ \A d \in Calls : req[d].n \in Nat
      BY <1>0, ListedType DEF ReqRecs
    <3>2. \A d \in Calls \ {c} : req'[d] = req[d]
      BY <2>2 DEF Only
    <3>3. \A d \in Calls : req'[d].at = "swap" => req'[d].rows \in Listings /\ req'[d].n <= reads'
      BY <1>0, <2>2, <3>1, <3>2 DEF LabelInv
    <3> QED
      BY <2>2, <2>4, <3>2, <3>3 DEF LabelInv
  <2>6. \A d \in Calls : Newest(d)' => d = c
    BY <1>0, <2>2 DEF Newest, LabelInv, Only, ReqRecs
  <2>7. Fresh(req[c].rows)' /\ \A i \in Present : req'[c].rows[i] # Unknown
    BY <2>2, <2>3, <2>4 DEF Fresh
  <2>8. shown' # reads'
    BY <1>0, <2>2
  <2>9. ListInv'
    BY <2>3, <2>6, <2>7, <2>8 DEF ListInv
  <2> QED
    BY <2>5, <2>9
<1>4. ASSUME NEW c \in Calls, ReloadSwap(c) PROVE LabelInv' /\ ListInv'
  <2>1. /\ req[c].at = "swap" /\ labels' = req[c].rows /\ blank' = {} /\ shown' = req[c].n
        /\ UNCHANGED <<users, reads>>
        /\ Only(c) /\ req'[c].at \in {"rest", "keys"}
    <3>1. [Rest EXCEPT !.at = "keys", !.id = req[c].id].at = "keys" /\ Rest.at = "rest"
      BY DEF Rest
    <3> QED
      BY <1>0, <1>4, <3>1, BecomesOnly DEF ReloadSwap, AfterReload, vars
  <2>2. Present' = Present
    BY <2>1 DEF Present
  <2>3. LabelInv'
    BY <2>1 DEF LabelInv, Only
  <2>4. \A d \in Calls : Newest(d)' => Newest(d) /\ req'[d] = req[d]
    BY <2>1 DEF Newest, Only
  <2>5. shown' = reads' => Newest(c)
    BY <2>1 DEF Newest
  <2>6. ListInv'
    <3>1. SUFFICES ASSUME \A d \in Calls : req'[d].at # "reload" PROVE ListInv'
      BY DEF ListInv
    <3>2. \A d \in Calls : req[d].at # "reload"
      BY <2>1, <3>1 DEF Only
    <3>3. \A d \in Calls : Newest(d)' => Fresh(req[d].rows)'
      BY <2>1, <2>2, <2>4, <3>2 DEF ListInv, Fresh
    <3>4. shown' = reads' => FreshShown'
      BY <2>1, <2>2, <2>5, <3>2 DEF ListInv, Fresh, FreshShown
    <3>5. \A d \in Calls : req'[d].at = "label" => req'[d] = req[d]
      BY <2>1 DEF Only
    <3>6. \A d \in Calls : req[d].at = "label" /\ req[d].id \in Present =>
              \/ req[d].name = users[req[d].id].name
              \/ /\ \A e \in Calls : Newest(e) => req[e].rows[req[d].id] # Unknown
      BY <3>2 DEF ListInv
    <3> QED
      BY <2>1, <2>2, <2>4, <2>5, <3>3, <3>4, <3>5, <3>6 DEF ListInv
  <2> QED
    BY <2>3, <2>6
<1>4a. ASSUME NEW c \in Calls, ReloadFails(c) PROVE LabelInv' /\ ListInv'
  <2>1. Only(c) /\ req'[c].at \in {"rest", "keys"} /\ reads' = reads + 1 /\ UNCHANGED <<users, labels, blank, shown>>
    <3>1. AfterReload(c).at \in {"rest", "keys"}
      BY DEF AfterReload, Rest
    <3> QED
      BY <1>0, <1>4a, <3>1, BecomesOnly DEF ReloadFails, vars
  <2>2. \A d \in Calls : req'[d].at \in {"swap", "label", "blank"} => req'[d] = req[d]
    BY <2>1 DEF Only
  <2>3. LabelInv'
    <3>1. \A d \in Calls : req[d].n \in Nat
      BY <1>0 DEF ReqRecs
    <3>2. \A d \in Calls : req'[d].at = "swap" => req'[d].rows \in Listings /\ req'[d].n <= reads'
      BY <1>0, <2>1, <2>2, <3>1 DEF LabelInv
    <3> QED
      BY <2>1, <2>2, <3>2 DEF LabelInv
  <2>4. \A d \in Calls : ~Newest(d)'
    BY <1>0, <2>1, <2>2 DEF Newest, LabelInv, ReqRecs
  <2>5. shown' # reads'
    BY <1>0, <2>1
  <2> QED
    BY <2>3, <2>4, <2>5 DEF ListInv
<1>5. ASSUME NEW c \in Calls, DeleteKeys(c) PROVE LabelInv' /\ ListInv'
  BY <1>0, <1>5, BecomesOnly, LabelsKept DEF DeleteKeys, Rest, vars
<1>6. ASSUME NEW c \in Calls, NEW i \in Ids, FetchLabel(c, i) PROVE LabelInv' /\ ListInv'
  <2>0. PICK r \in {[Rest EXCEPT !.at = "label", !.id = i, !.name = Label(i)], [Rest EXCEPT !.at = "blank", !.id = i]} :
           NewRequest(c, r)
    BY <1>6 DEF FetchLabel
  <2>1. r.at \in {"label", "blank"} /\ r.id = i /\ (r.at = "label" => r.name = Label(i))
    BY DEF Rest
  <2>2. Only(c) /\ req'[c] = r /\ req[c].at # "reload" /\ users[i].role # "unused"
        /\ UNCHANGED <<users, labels, blank, reads, shown>>
    BY <1>0, <1>6, <2>0, NewOnly DEF FetchLabel
  <2>3. LabelInv'
    BY <2>1, <2>2 DEF LabelInv, Only
  <2>4. Present' = Present /\ (r.at = "label" /\ i \in Present => r.name = users[i].name)
    BY <2>1, <2>2 DEF Present, Label
  <2>5. \A d \in Calls : Newest(d)' => Newest(d) /\ req'[d] = req[d]
    BY <2>1, <2>2 DEF Newest, Only
  <2>6. ListInv'
    BY <2>1, <2>2, <2>4, <2>5 DEF ListInv, Only, Fresh, FreshShown
  <2> QED
    BY <2>3, <2>6
<1>7. ASSUME NEW c \in Calls, StoreLabel(c) PROVE LabelInv' /\ ListInv'
  <2> DEFINE i == req[c].id
  <2>1. req[c].at \in {"label", "blank"} /\ Only(c) /\ req'[c].at = "rest" /\ UNCHANGED <<users, reads, shown>>
        /\ labels' = (IF labels[i] = Unknown THEN [labels EXCEPT ![i] = req[c].name] ELSE labels)
        /\ blank \subseteq blank' /\ (labels[i] = Unknown /\ req[c].at = "blank" => i \in blank')
    BY <1>0, <1>7, BecomesOnly DEF StoreLabel, StillUnknown, Rest, vars
  <2>2. i \in Ids /\ users[i].role # "unused"
    BY <2>1 DEF LabelInv
  <2>3. \A j \in Ids : labels'[j] = labels[j] \/ (j = i /\ labels[j] = Unknown /\ labels'[j] = req[c].name)
    BY <2>1, <2>2 DEF AccessTypes, LabelType, Listings
  <2>4. req[c].name # Unknown
    BY <1>0, AccessAssumption DEF ReqRecs
  <2>5. Present' = Present /\ Present \subseteq Ids
    BY <2>1 DEF Present
  <2>6. LabelInv'
    BY <2>1, <2>2, <2>3 DEF LabelInv, Only
  <2>7. \A d \in Calls : Newest(d)' => Newest(d) /\ req'[d] = req[d]
    BY <2>1 DEF Newest, Only
  <2>8. ListInv'
    <3>1. SUFFICES ASSUME \A d \in Calls : req'[d].at # "reload" PROVE ListInv'
      BY DEF ListInv
    <3>2. \A d \in Calls : req[d].at # "reload"
      BY <2>1, <3>1 DEF Only
    <3>3. \A d \in Calls : Newest(d)' => Fresh(req[d].rows)'
      BY <2>1, <2>5, <2>7, <3>2 DEF ListInv, Fresh
    <3>4. shown' = reads' => FreshShown'
      <4> SUFFICES ASSUME shown = reads, NEW j \in Present, j \notin blank' PROVE labels'[j] \in {users[j].name, Unknown}
        BY <2>1, <2>5 DEF FreshShown
      <4>1. labels[j] \in {users[j].name, Unknown}
        BY <2>1, <3>2 DEF ListInv, FreshShown
      <4>2. CASE labels'[j] = labels[j]
        BY <4>1, <4>2
      <4>3. CASE j = i /\ labels[j] = Unknown /\ labels'[j] = req[c].name
        BY <2>1, <3>2, <4>3 DEF ListInv
      <4> QED
        BY <2>3, <2>5, <4>2, <4>3
    <3>5. \A d \in Calls : req'[d].at = "label" => req'[d] = req[d]
      BY <2>1 DEF Only
    <3>6. \A j \in Ids : labels[j] # Unknown => labels'[j] # Unknown
      BY <2>3, <2>4
    <3> QED
      BY <2>1, <2>5, <2>7, <3>2, <3>3, <3>4, <3>5, <3>6 DEF ListInv
  <2> QED
    BY <2>6, <2>8
<1>8. ASSUME NEW c \in Calls, NEW r, NewRequest(c, r), r.at \notin {"swap", "label", "blank"} PROVE LabelInv' /\ ListInv'
  BY <1>0, <1>8, NewOnly, LabelsKept
<1>9. ASSUME NEW c \in Calls, NEW r, Becomes(c, r), req[c].at # "reload", r.at \notin {"swap", "label", "blank"},
             UNCHANGED <<vars, labels, blank, reads, shown>>
      PROVE  LabelInv' /\ ListInv'
  BY <1>0, <1>9, BecomesOnly, LabelsKept DEF vars
<1>10. ASSUME NEW n, NEW o \in {"remote_name", "rest"} PROVE Lookup(n, n, o).at \notin {"swap", "label", "blank"}
  BY <1>10 DEF Lookup, SignedIn, Rest
<1>11. ASSUME NEW c \in Calls, NEW n \in Names, RemoteBegin(c, n) PROVE LabelInv' /\ ListInv'
  <2>1. Lookup(c, n, "remote_name") = Lookup(n, n, "remote_name")
    BY DEF Lookup
  <2> QED
    BY <1>8, <1>10, <1>11, <2>1 DEF RemoteBegin
<1>12. ASSUME NEW c \in Calls, RemoteAgain(c) PROVE LabelInv' /\ ListInv'
  <2>1. Lookup(c, req[c].name, "rest") = Lookup(req[c].name, req[c].name, "rest")
    BY DEF Lookup
  <2> QED
    BY <1>9, <1>10, <1>12, <2>1 DEF RemoteAgain
<1>13. ASSUME NEW c \in Calls, RemoteName(c) PROVE LabelInv' /\ ListInv'
  <2> DEFINE r == [req[c] EXCEPT !.at = IF Named(req[c].name) = {} THEN "remote_limit" ELSE "remote_again"]
  <2>1. r.at \notin {"swap", "label", "blank"}
    BY <1>0 DEF ReqRecs
  <2>2. Becomes(c, r) /\ req[c].at # "reload" /\ UNCHANGED <<vars, labels, blank, reads, shown>>
    BY <1>13 DEF RemoteName
  <2> HIDE DEF r
  <2> QED
    BY <1>9, <2>1, <2>2
<1>14. ASSUME NEW c \in Calls, RemoteLimit(c) PROVE LabelInv' /\ ListInv'
  <2>1. [req[c] EXCEPT !.at = "remote_insert"].at = "remote_insert"
    BY <1>0 DEF ReqRecs
  <2> QED
    BY <1>9, <1>14, <2>1 DEF RemoteLimit, Rest
<1>15. ASSUME NEW c \in Calls, NEW i \in Ids, RemoteInsert(c, i) PROVE LabelInv' /\ ListInv'
  <2>1. Only(c) /\ req[c].at = "remote_insert" /\ users[i].role = "unused" /\ req'[c].at \in {"in", "remote_again"}
        /\ UNCHANGED <<labels, blank, reads, shown>>
    BY <1>15, Inserted
  <2>2. CASE UNCHANGED users
    BY <2>1, <2>2, LabelsKept
  <2>3. ASSUME NEW row \in [role : Roles, name : Names \union {None}], users' = [users EXCEPT ![i] = row]
        PROVE  LabelInv' /\ ListInv'
    <3>1. (\A j \in Ids \ {i} : users'[j] = users[j]) /\ users'[i].role \in Roles
      BY <1>0, <2>3 DEF Types, UserType
    <3>2. LabelInv'
      BY <2>1, <3>1 DEF LabelInv, Only, Roles
    <3>3. Present' = Present \union {i} /\ Present \subseteq Ids \ {i}
      BY <2>1, <3>1 DEF Present, Roles
    <3>4. labels[i] = Unknown /\ \A d \in Calls : Newest(d) => req[d].rows[i] = Unknown
      BY <2>1 DEF LabelInv, Newest
    <3>5. \A d \in Calls : Newest(d)' => Newest(d) /\ req'[d] = req[d]
      BY <2>1 DEF Newest, Only
    <3>6. ListInv'
      <4>1. SUFFICES ASSUME \A d \in Calls : req'[d].at # "reload" PROVE ListInv'
        BY DEF ListInv
      <4>2. \A d \in Calls : req[d].at # "reload"
        BY <2>1, <4>1 DEF Only
      <4>3. \A d \in Calls : Newest(d)' => Fresh(req[d].rows)'
        BY <3>1, <3>3, <3>4, <3>5, <4>2 DEF ListInv, Fresh
      <4>4. shown' = reads' => FreshShown'
        BY <2>1, <3>1, <3>3, <3>4, <4>2 DEF ListInv, FreshShown
      <4>5. \A d \in Calls : req'[d].at = "label" => req'[d] = req[d] /\ req[d].id # i
        BY <2>1 DEF Only, LabelInv
      <4> QED
        BY <2>1, <3>1, <3>3, <3>5, <4>2, <4>3, <4>4, <4>5 DEF ListInv
    <3> QED
      BY <3>2, <3>6
  <2> QED
    BY <1>15, <2>2, <2>3, Inserted
<1>16. ASSUME NEW c \in Calls, NEW i \in Ids, NEW r \in Roles, CreateKeyBegin(c, i, r) PROVE LabelInv' /\ ListInv'
  BY <1>8, <1>16 DEF CreateKeyBegin, Rest
<1>17. ASSUME NEW c \in Calls, NEW k \in Keys, CreateKey(c, k) PROVE LabelInv' /\ ListInv'
  BY <1>9, <1>17 DEF CreateKey, Rest
<1>18. ASSUME NEW k \in Keys, EndKey(k) PROVE LabelInv' /\ ListInv'
  BY <1>18 DEF EndKey, vars, LabelInv, ListInv, Newest, Fresh, FreshShown, Present
<1>19. ASSUME NEW c \in Calls, NEW k \in Keys, ResolveBegin(c, k) PROVE LabelInv' /\ ListInv'
  BY <1>8, <1>19 DEF ResolveBegin, Rest
<1>20. ASSUME NEW c \in Calls, ResolveOwner(c) PROVE LabelInv' /\ ListInv'
  <2>1. [req[c] EXCEPT !.at = "in", !.role = Narrowed(users[req[c].id].role, @)].at = "in"
    BY <1>0 DEF ReqRecs
  <2> QED
    BY <1>9, <1>20, <2>1 DEF ResolveOwner, Rest
<1>21. CASE UNCHANGED <<vars, access>>
  BY <1>21 DEF access, vars, LabelInv, ListInv, Newest, Fresh, FreshShown, Present
<1> QED
  BY <1>1, <1>2, <1>3, <1>4, <1>4a, <1>5, <1>6, <1>7, <1>11, <1>12, <1>13, <1>14, <1>15, <1>16, <1>17, <1>18,
     <1>19, <1>20, <1>21 DEF AccessNext

-----------------------------------------------------------------------------

LEMMA AccessInvInit == AccessInit => IInv
<1> SUFFICES ASSUME AccessInit PROVE IInv
  OBVIOUS
<1>1. Types /\ NamesUnique
  BY TypesInit, NamesInit DEF AccessInit
<1>2. AccessTypes
  <2>1. ReqType
    BY RestRec DEF AccessInit, ReqType
  <2>2. KeyType
    BY DEF AccessInit, KeyType, NoKey, Present, Roles
  <2>3. LabelType
    BY <1>1, ListedType DEF AccessInit, LabelType
  <2> QED
    BY <1>1, <2>1, <2>2, <2>3 DEF AccessTypes
<1>3. OneThing
  BY DEF AccessInit, Init, OneThing, Idle
<1>4. HasOwner /\ KeyInv
  BY DEF AccessInit, HasOwner, KeyInv, Rest, NoKey, Present
<1>5. LabelInv
  BY DEF AccessInit, LabelInv, Rest, Listed, Present, Roles
<1>6. ListInv
  BY DEF AccessInit, ListInv, Newest, FreshShown, Rest, Listed, Present
<1> QED
  BY <1>1, <1>2, <1>3, <1>4, <1>5, <1>6 DEF IInv

LEMMA AccessInvNext == IInv /\ [AccessNext]_<<vars, access>> => IInv'
<1>1. IInv /\ [AccessNext]_<<vars, access>> => NamesUnique'
  BY AccessRowStep, NamesKept DEF IInv, AccessTypes
<1> QED
  BY <1>1, AccessTypesNext, OneThingNext, KeyNext, ListNext DEF IInv

\* Neither the statements of two calls nor the account made for a proxy's user
\* give a name twice (UserStore's UNIQUE; GetOrCreateRemoteUser).
THEOREM NoNameTwiceWithRemotes == AccessSpec => []NamesUnique
<1>1. IInv => NamesUnique
  BY DEF IInv
<1> QED
  BY AccessInvInit, AccessInvNext, <1>1, PTL DEF AccessSpec

\* A change of role leaves an admin, with the requests of keys, proxies and
\* reloads beside it (the guard in UserStore.UpdateUser's statement).
THEOREM AnAdminRemainsInAccess == AccessSpec => DemotionLeavesAdmin
<1>1. IInv /\ [AccessNext]_<<vars, access>> =>
          [(\E i \in Admins : users'[i].role \in Roles \ {"admin"}) => Admins' # {}]_vars
  BY AccessRowStep, AdminKept DEF IInv, AccessTypes
<1> QED
  BY AccessInvInit, AccessInvNext, <1>1, PTL DEF AccessSpec, DemotionLeavesAdmin

\* A request with a key has at most the role of its key, as long as that is its
\* owner's, and a role the owner had while it was looked at, whatever demotions
\* and deletions fall in between (APIKeyService.Resolve).
THEOREM KeysNeverWiden == AccessSpec => []KeysNarrow
<1>1. IInv => KeysNarrow
  BY DEF IInv, KeyInv, KeysNarrow
<1> QED
  BY AccessInvInit, AccessInvNext, <1>1, PTL DEF AccessSpec

\* Once no reload is due and the newest list is shown every label is the name
\* of its account or unknown, but where a lookup that could not read the account
\* cached that there is none; for any number of lookups and of reloads that
\* failed or overtook each other (UserResolver.Reload, ResolveUserLabel).
THEOREM LabelsCatchUp == AccessSpec => []LabelsFollow
<1>1. IInv => LabelsFollow
  BY DEF IInv, ListInv, FreshShown, LabelsFollow
<1> QED
  BY AccessInvInit, AccessInvNext, <1>1, PTL DEF AccessSpec

=============================================================================
