------------------------------- MODULE Access -------------------------------
(***************************************************************************)
(* Who a request acts as, on top of the accounts (internal/http/middleware/ *)
(* auth, internal/core/auth): by a session, by the header of a trusted      *)
(* proxy, which may make the account, or by an API key, which acts as its   *)
(* owner with a role of its own.  With it go the keys (internal/wiki/       *)
(* apikeys), what follows a change of the accounts (internal/wiki/auth),    *)
(* and the cache of the names shown for account ids (UserResolver).         *)
(*                                                                          *)
(* The secret of a key and the tokens of a session are checked against what *)
(* was issued; only those that match are requests here.  The swap of the    *)
(* stores by a restore is in Restore, the refresh of sessions in Sessions.  *)
(***************************************************************************)
EXTENDS Accounts

CONSTANTS
    Keys,        \* API keys, each issued once
    Unknown,     \* no label cached
    DefaultRole  \* of an account made for a proxy's user

ASSUME AccessAssumption ==
    /\ Unknown \notin Names \union {None}
    /\ DefaultRole \in Roles

VARIABLES
    keys,     \* api_keys.db
    labels,   \* UserResolver.resolved: a name, None for "no such user"
    blank,    \* history: the accounts taken for no such user as the read failed
    req,      \* the request each of Calls is, beside its call on the accounts
    reads,    \* reloads that have read the accounts, or failed to
    shown,    \* the reload the labels come from
    owned     \* history: the roles a key's owner had while its request ran

access == <<keys, labels, blank, req, reads, shown, owned>>

\* rows and n: what a reload read, and the how-manieth it is.
Rest == [at |-> "rest", id |-> None, name |-> None, role |-> "viewer", key |-> None, rows |-> <<>>, n |-> 0]
NoKey == [owner |-> None, role |-> "viewer", state |-> "none"]

\* roleRank
Rank(role) == CASE role = "viewer" -> 1 [] role = "editor" -> 2 [] role = "admin" -> 3

\* GetUsers, as labels.
Label(i) == IF i \in Present THEN users[i].name ELSE None
Listed == [i \in Ids |-> IF i \in Present THEN users[i].name ELSE Unknown]

AccessInit ==
    /\ Init
    /\ keys \in [Keys -> {NoKey} \union [owner : Present, role : {"editor"}, state : {"active"}]]
    /\ labels = Listed /\ blank = {}
    /\ req = [c \in Calls |-> Rest]
    /\ reads = 0 /\ shown = 0 /\ owned = [c \in Calls |-> {}]

\* A call that is neither on the accounts nor a request takes the next one.
Free(c) == call[c] = Idle /\ req[c].at \in {"rest", "in"}
Becomes(c, r) == req' = [req EXCEPT ![c] = r]
NewRequest(c, r) ==
    /\ Free(c) /\ ops < MaxOps /\ ops' = ops + 1
    /\ Becomes(c, r)
    /\ UNCHANGED <<users, call, keys, labels, blank, reads, shown>>

-----------------------------------------------------------------------------
(* Accounts are managed by the session of an admin, never by a key *)

RequireAdmin == Admins # {}

Manage(c) ==
    /\ Free(c) /\ RequireAdmin
    /\ \/ \E n \in Names, r \in Roles : CreateBegin(c, n, r)
       \/ \E i \in Ids, n \in Names, r \in Roles : UpdateBegin(c, i, n, r)
       \/ \E i \in Ids : DeleteBegin(c, i)
    /\ Becomes(c, Rest)
    /\ UNCHANGED <<keys, labels, blank, reads, shown>>

\* What the use case does when the accounts are written.
AfterWrite(at, i) == [Rest EXCEPT !.at = "reload", !.id = IF at = "delete" THEN i ELSE None]

Wrote(c) ==
    \/ users' # users
    \/ call[c].at = "update" /\ Updatable(call[c].id, call[c].role) /\ Unique(call[c].name, call[c].id)

AccountsStep(c) ==
    /\ \/ CreateLimit(c) \/ UpdateName(c) \/ UpdateAdmins(c) \/ UpdateLimit(c) \/ Update(c) \/ Delete(c)
       \/ \E i \in Ids : Insert(c, i)
    /\ Becomes(c, IF Wrote(c) THEN AfterWrite(call[c].at, call[c].id) ELSE Rest)
    /\ UNCHANGED <<keys, labels, blank, reads, shown>>

\* UserResolver.Reload: the accounts are listed, then the map is replaced.
ReloadRead(c) ==
    /\ req[c].at = "reload"
    /\ reads' = reads + 1
    /\ Becomes(c, [req[c] EXCEPT !.at = "swap", !.rows = Listed, !.n = reads + 1])
    /\ UNCHANGED <<vars, keys, labels, blank, shown>>

AfterReload(c) == IF req[c].id = None THEN Rest ELSE [Rest EXCEPT !.at = "keys", !.id = req[c].id]

ReloadSwap(c) ==
    /\ req[c].at = "swap"
    /\ labels' = req[c].rows /\ blank' = {} /\ shown' = req[c].n
    /\ Becomes(c, AfterReload(c))
    /\ UNCHANGED <<vars, keys, reads>>

\* The accounts cannot be listed: a warning, and the labels stay.
ReloadFails(c) ==
    /\ req[c].at = "reload"
    /\ reads' = reads + 1
    /\ Becomes(c, AfterReload(c))
    /\ UNCHANGED <<vars, keys, labels, blank, shown>>

\* DeleteAllForUser
DeleteKeys(c) ==
    /\ req[c].at = "keys"
    /\ keys' = [k \in Keys |-> IF keys[k].owner = req[c].id THEN [NoKey EXCEPT !.state = "deleted"] ELSE keys[k]]
    /\ Becomes(c, Rest)
    /\ UNCHANGED <<vars, labels, blank, reads, shown>>

\* ResolveUserLabel: of an id some page names as its author.  A read that fails
\* is "no such user" to mapUserLookupErr; only the error of a store suspended
\* for a restore is not, and then nothing is cached.
FetchLabel(c, i) ==
    /\ labels[i] = Unknown /\ users[i].role # "unused"
    /\ \/ NewRequest(c, [Rest EXCEPT !.at = "label", !.id = i, !.name = Label(i)])
       \/ NewRequest(c, [Rest EXCEPT !.at = "blank", !.id = i])

Mutant_Overwrites(i) == TRUE
StillUnknown(i) == labels[i] = Unknown

StoreLabel(c) ==
    LET i == req[c].id IN
    /\ req[c].at \in {"label", "blank"}
    /\ IF StillUnknown(i)
       THEN /\ labels' = [labels EXCEPT ![i] = req[c].name]
            /\ blank' = IF req[c].at = "blank" THEN blank \union {i} ELSE blank
       ELSE UNCHANGED <<labels, blank>>
    /\ Becomes(c, Rest)
    /\ UNCHANGED <<vars, keys, reads, shown>>

-----------------------------------------------------------------------------
(* GetOrCreateRemoteUser, for a name a trusted proxy asserts *)

SignedIn(i) == [Rest EXCEPT !.at = "in", !.id = i, !.role = users[i].role]

\* The account of the name, if there is one, or the next step.
Lookup(c, n, otherwise) ==
    IF Named(n) # {} THEN SignedIn(CHOOSE i \in Named(n) : TRUE) ELSE [Rest EXCEPT !.at = otherwise, !.name = n]

RemoteBegin(c, n) == NewRequest(c, Lookup(c, n, "remote_name"))

\* CreateUser for it: a name taken meanwhile is looked up once more.
RemoteName(c) ==
    /\ req[c].at = "remote_name"
    /\ Becomes(c, [req[c] EXCEPT !.at = IF Named(req[c].name) = {} THEN "remote_limit" ELSE "remote_again"])
    /\ UNCHANGED <<vars, keys, labels, blank, reads, shown>>

RemoteLimit(c) ==
    /\ req[c].at = "remote_limit"
    /\ Becomes(c, IF UnderLimit(DefaultRole) THEN [req[c] EXCEPT !.at = "remote_insert"] ELSE Rest)
    /\ UNCHANGED <<vars, keys, labels, blank, reads, shown>>

RemoteInsert(c, i) ==
    /\ req[c].at = "remote_insert" /\ users[i].role = "unused"
    /\ IF Unique(req[c].name, i)
       THEN /\ users' = [users EXCEPT ![i] = [role |-> DefaultRole, name |-> req[c].name]]
            /\ Becomes(c, [Rest EXCEPT !.at = "in", !.id = i, !.role = DefaultRole])
       ELSE Becomes(c, [req[c] EXCEPT !.at = "remote_again"]) /\ UNCHANGED users
    /\ UNCHANGED <<call, ops, keys, labels, blank, reads, shown>>

RemoteAgain(c) ==
    /\ req[c].at = "remote_again"
    /\ Becomes(c, Lookup(c, req[c].name, "rest"))
    /\ UNCHANGED <<vars, keys, labels, blank, reads, shown>>

-----------------------------------------------------------------------------
(* API keys *)

\* CreateAPIKey: the owner is looked up, then the row is written.
CreateKeyBegin(c, i, r) ==
    /\ RequireAdmin /\ i \in Present
    /\ NewRequest(c, [Rest EXCEPT !.at = "key", !.id = i, !.role = r])

CreateKey(c, k) ==
    /\ req[c].at = "key" /\ keys[k].state = "none"
    /\ keys' = [keys EXCEPT ![k] = [owner |-> req[c].id, role |-> req[c].role, state |-> "active"]]
    /\ Becomes(c, Rest)
    /\ UNCHANGED <<vars, labels, blank, reads, shown>>

\* Revoke, or the expiry passes.
EndKey(k) ==
    /\ keys[k].state = "active"
    /\ keys' = [keys EXCEPT ![k].state = "ended"]
    /\ UNCHANGED <<vars, labels, blank, req, reads, shown>>

\* Resolve: the key, then its owner.
ResolveBegin(c, k) ==
    /\ keys[k].state = "active"
    /\ NewRequest(c, [Rest EXCEPT !.at = "owner", !.id = keys[k].owner, !.role = keys[k].role, !.key = k])

\* intersectRole
Mutant_KeysOwn(ownersRole, keysRole) == keysRole
Narrowed(ownersRole, keysRole) == IF Rank(ownersRole) < Rank(keysRole) THEN ownersRole ELSE keysRole

ResolveOwner(c) ==
    /\ req[c].at = "owner"
    /\ Becomes(c, IF req[c].id \in Present
                  THEN [req[c] EXCEPT !.at = "in", !.role = Narrowed(users[req[c].id].role, @)] ELSE Rest)
    /\ UNCHANGED <<vars, keys, labels, blank, reads, shown>>

-----------------------------------------------------------------------------
\* What the owner of a key was while the request with it ran.
Notes ==
    owned' = [c \in Calls |-> IF req'[c].key = None THEN {}
                              ELSE IF req'[c].at = "owner" THEN owned[c] \union {users'[req'[c].id].role} ELSE owned[c]]

AccessNext ==
    /\ \/ \E c \in Calls :
            \/ Manage(c) \/ AccountsStep(c) \/ ReloadRead(c) \/ ReloadSwap(c) \/ ReloadFails(c) \/ DeleteKeys(c) \/ StoreLabel(c)
            \/ RemoteName(c) \/ RemoteLimit(c) \/ RemoteAgain(c) \/ ResolveOwner(c)
            \/ \E i \in Ids : FetchLabel(c, i) \/ RemoteInsert(c, i) \/ \E r \in Roles : CreateKeyBegin(c, i, r)
            \/ \E n \in Names : RemoteBegin(c, n)
            \/ \E k \in Keys : CreateKey(c, k) \/ ResolveBegin(c, k)
       \/ \E k \in Keys : EndKey(k)
    /\ Notes

AccessSpec == AccessInit /\ [][AccessNext]_<<vars, access>>

(***************************************************************************)
(* Properties, with NamesUnique and DemotionLeavesAdmin, which now hold for *)
(* the accounts of remote users too                                         *)
(***************************************************************************)

\* A request with a key has at most the role of the key and a role its owner
\* had while the request was looked at: a demotion, or a deletion that leaves
\* the row of the key behind, is never passed by (APIKeyService.Resolve).
KeysNarrow ==
    \A c \in Calls :
        req[c].key # None /\ req[c].at = "in" =>
            /\ \E r \in owned[c] \intersect Roles : Rank(req[c].role) <= Rank(r)
            /\ keys[req[c].key].owner = req[c].id => Rank(req[c].role) <= Rank(keys[req[c].key].role)

\* When nothing is left to follow, the name shown for an account is its name or
\* still to be looked up, whatever lookups the reloads overtook.  It is not when
\* the newest reload failed, or an older one replaced its list, and then until
\* the next; nor where a lookup's failed read was cached as "no such user", until
\* the next reload (UserResolver.ResolveUserLabel, Reload).
LabelsFollow ==
    (\A c \in Calls : req[c].at \notin {"reload", "swap"}) /\ shown = reads =>
        \A i \in Present \ blank : labels[i] \in {users[i].name, Unknown}
=============================================================================
