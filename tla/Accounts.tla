------------------------------- MODULE Accounts -------------------------------
(***************************************************************************)
(* The table of accounts: who exists, under which name, with which role.    *)
(* UserService checks what it is about to write with queries of its own and *)
(* then writes; UserStore's statements (internal/core/auth) carry the       *)
(* constraints that hold whatever was written in between.                   *)
(*                                                                          *)
(* A name stands for the username and the e-mail address: both are UNIQUE   *)
(* and checked alike.  Passwords and TOTP are in Sessions.                  *)
(***************************************************************************)
EXTENDS Naturals, FiniteSets

CONSTANTS
    Ids,         \* account ids, each given once
    Names,       \* names up to what the database compares
    None,        \* no id, no name
    EditorLimit, \* editorLimit, 0 for none
    Calls,       \* requests that may be in progress at once
    MaxOps       \* bound: calls started

ASSUME AccountsAssumption ==
    /\ None \notin Ids \union Names
    /\ EditorLimit \in Nat /\ MaxOps \in Nat

VARIABLES
    users,  \* the rows: "unused" before an id is given, "deleted" after
    call,   \* the requests in progress
    ops     \* calls started

vars == <<users, call, ops>>

Roles == {"admin", "editor", "viewer"}
Present == {i \in Ids : users[i].role \in Roles}
Admins == {i \in Ids : users[i].role = "admin"}     \* CountAdminUsers
Editors == {i \in Ids : users[i].role \in {"admin", "editor"}}     \* CountEditorUsers
Named(n) == {i \in Present : users[i].name = n}

Idle == [at |-> "idle", id |-> None, name |-> None, role |-> "viewer", was |-> "viewer"]

\* InitDefaultAdmin has made an admin, who may have made a second account.
Init ==
    /\ \E a, b \in Ids, m, n \in Names, r \in Roles \union {"unused"} :
         /\ a # b /\ m # n /\ (EditorLimit = 1 => r \in {"viewer", "unused"})
         /\ users = [i \in Ids |-> IF i = a THEN [role |-> "admin", name |-> m]
                                   ELSE IF i = b /\ r # "unused" THEN [role |-> r, name |-> n]
                                   ELSE [role |-> "unused", name |-> None]]
    /\ call = [c \in Calls |-> Idle] /\ ops = 0

Begins(c, rec) ==
    /\ call[c] = Idle /\ ops < MaxOps /\ ops' = ops + 1
    /\ call' = [call EXCEPT ![c] = rec]
    /\ UNCHANGED users

\* A check passes and the call goes on, or the call returns its error.
Checks(c, step, ok, next) ==
    /\ call[c].at = step
    /\ call' = [call EXCEPT ![c] = IF ok THEN [@ EXCEPT !.at = next] ELSE Idle]
    /\ UNCHANGED <<users, ops>>

\* A statement that writes the rows new if ok, and ends the call.
Writes(c, step, ok, new) ==
    /\ call[c].at = step
    /\ users' = IF ok THEN new ELSE users
    /\ call' = [call EXCEPT ![c] = Idle]
    /\ UNCHANGED ops

\* checkEditorLimit
UnderLimit(role) == EditorLimit = 0 \/ role = "viewer" \/ Cardinality(Editors) < EditorLimit

Mutant_NotUnique(n, i) == TRUE

\* The UNIQUE constraint, for a row of id i.
Unique(n, i) == Named(n) \subseteq {i}

-----------------------------------------------------------------------------
(* CreateUser, for an admin, an invite and a remote user alike *)

CreateBegin(c, n, r) ==
    /\ Named(n) = {}
    /\ Begins(c, [Idle EXCEPT !.at = "create_limit", !.name = n, !.role = r])

CreateLimit(c) == Checks(c, "create_limit", UnderLimit(call[c].role), "insert")

Insert(c, i) ==
    /\ users[i].role = "unused"
    /\ Writes(c, "insert", Unique(call[c].name, i),
              [users EXCEPT ![i] = [role |-> call[c].role, name |-> call[c].name]])

-----------------------------------------------------------------------------
(* UpdateUser *)

\* GetUserByID; a request without a role asks for the one it read.
UpdateBegin(c, i, n, r) ==
    /\ i \in Present
    /\ Begins(c, [at |-> "update_name", id |-> i, name |-> n, role |-> r, was |-> users[i].role])

UpdateName(c) == Checks(c, "update_name", Unique(call[c].name, call[c].id), "update_admins")

UpdateAdmins(c) ==
    Checks(c, "update_admins",
           call[c].was = "admin" /\ call[c].role # "admin" => Cardinality(Admins) > 1, "update_limit")

\* Only a viewer takes a new place under the limit.
UpdateLimit(c) ==
    Checks(c, "update_limit", call[c].was = "viewer" => UnderLimit(call[c].role), "update")

Mutant_NoGuard(i, r) == i \in Present

\* The statement's own guard: the last admin is not demoted.
Updatable(i, r) ==
    /\ i \in Present
    /\ ~(users[i].role = "admin" /\ r # "admin" /\ Cardinality(Admins) <= 1)

Update(c) ==
    LET i == call[c].id IN
    Writes(c, "update", Updatable(i, call[c].role) /\ Unique(call[c].name, i),
           [users EXCEPT ![i] = [role |-> call[c].role, name |-> call[c].name]])

-----------------------------------------------------------------------------
(* DeleteUser *)

DeleteBegin(c, i) ==
    /\ i \in Present \ Admins
    /\ Begins(c, [Idle EXCEPT !.at = "delete", !.id = i])

Delete(c) ==
    LET i == call[c].id IN
    Writes(c, "delete", i \in Present, [users EXCEPT ![i] = [role |-> "deleted", name |-> None]])

-----------------------------------------------------------------------------

Next ==
    \E c \in Calls :
        \/ \E n \in Names, r \in Roles : CreateBegin(c, n, r)
        \/ \E i \in Ids, n \in Names, r \in Roles : UpdateBegin(c, i, n, r)
        \/ \E i \in Ids : DeleteBegin(c, i) \/ Insert(c, i)
        \/ CreateLimit(c) \/ UpdateName(c) \/ UpdateAdmins(c) \/ UpdateLimit(c) \/ Update(c)
        \/ Delete(c)

Spec == Init /\ [][Next]_vars

(***************************************************************************)
(* Properties                                                              *)
(***************************************************************************)

\* The type of every variable.
TypeOK ==
    /\ users \in [Ids -> [role : Roles \union {"unused", "deleted"}, name : Names \union {None}]]
    /\ \A c \in Calls : call[c].at = "idle" \/ call[c].role \in Roles
    /\ ops \in 0 .. MaxOps

\* Two accounts never have the same name, although both calls found it free
\* (UNIQUE in UserStore.ensureSchema; GetOrCreateRemoteUser relies on it).
NamesUnique == \A i, j \in Present : users[i].name = users[j].name => i = j

\* Two admins who demote each other at the same time do not leave none: a
\* change of role never takes the last admin's (UserStore.UpdateUser's guard).
DemotionLeavesAdmin ==
    [][(\E i \in Admins : users'[i].role \in Roles \ {"admin"}) => Admins' # {}]_vars

=============================================================================
