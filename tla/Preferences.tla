---------------------------- MODULE Preferences -----------------------------
(***************************************************************************)
(* What users and administrators choose beside the pages: favourites        *)
(* (internal/favorites), each user's settings (internal/usersettings), the  *)
(* branding with its image files (internal/branding) and the instance flags *)
(* (internal/publicaccess, internal/tocdisplay) over the JSON store of      *)
(* internal/core/settings.  Pages and accounts are deleted meanwhile, any   *)
(* write may fail and the process may stop.                                 *)
(*                                                                          *)
(* Validation of names, sizes and types, and the store swaps of a restore,  *)
(* are left out.                                                            *)
(***************************************************************************)
EXTENDS Naturals, FiniteSets

CONSTANTS
    Calls,
    Users, Pages,
    Fields,      \* of a user's settings
    Values,      \* of a field, a site name or a flag, without the default 0
    Slots,       \* "logo" and "favicon"
    Exts,        \* the extensions an image may have
    EnvManaged,  \* the public access flag is pinned by the environment
    None,
    MaxOps,      \* bound: requests
    MaxFaults    \* bound: failing writes and crashes

Rows == [Fields -> Values \cup {0}]
Confs == [name : Values \cup {0}, flag : Values \cup {0}, images : [Slots -> Exts \cup {None}]]

ASSUME PreferencesAssumption ==
    /\ 0 \notin Values /\ EnvManaged \in BOOLEAN /\ {MaxOps, MaxFaults} \subseteq Nat
    /\ None \notin Calls \cup Exts \cup Rows \cup Confs

VARIABLES
    pages, users,  \* what exists
    above,         \* of each page, the pages it is under
    spare,         \* page ids still to be given
    favs,          \* favorites: a set of rows; the order of created_at is left out
    rows,          \* user_settings: None or the values of the fields
    rowLock,       \* UserSettingsStore.mu across a read and its write
    files,         \* the images in branding/, by slot: a set of extensions
    conf, json,    \* the settings in memory, and in their files
    brandLock,     \* BrandingService.mu
    call,          \* the requests
    ops, faults,   \* bounded counters
    want, named,   \* history: what the answered updates ask of each user's row, and of the site name
    liked,         \* history: the favourites that are to be there
    late,          \* history: rows that were added when their page or user was gone
    missed,        \* history: pages and users of which a clean-up did not happen
    strayed,       \* history: pages that left the subtree while it was being deleted
    hurt           \* history: slots where a removal or the save failed, or a crash fell between

tree == <<pages, above, spare>>
cleanup == <<late, missed, strayed>>
owners == <<tree, users, favs, liked>>
branding == <<files, conf, json, brandLock, hurt, named>>
settings == <<rows, rowLock, want>>
preferencesVars == <<owners, settings, branding, call, ops, faults, cleanup>>

Idle == [at |-> "idle"]
Default == [f \in Fields |-> 0]
DefaultConf == [name |-> 0, flag |-> 0, images |-> [s \in Slots |-> None]]

\* The pages a page is under are under one another.
IsTree(up) ==
    \A p \in Pages : /\ p \notin up[p] /\ \A q \in up[p] : up[q] \subseteq up[p]
                     /\ \A q, r \in up[p] : q = r \/ q \in up[r] \/ r \in up[q]

PreferencesInit ==
    /\ \E some \in SUBSET Pages :
          /\ pages = some /\ spare = Pages \ some
          /\ above \in {up \in [Pages -> SUBSET some] : IsTree(up) /\ \A p \in spare : up[p] = {}}
    /\ users = Users
    /\ favs = {} /\ liked = {}
    /\ rows = [u \in Users |-> None] /\ rowLock = None
    /\ files = [s \in Slots |-> {}]
    /\ conf = DefaultConf /\ json = None /\ brandLock = None
    /\ call = [c \in Calls |-> Idle]
    /\ ops = 0 /\ faults = 0
    /\ want = [u \in Users |-> Default] /\ named = 0
    /\ late = {} /\ missed = {} /\ strayed = {} /\ hurt = {}

Request(c, r) ==
    /\ call[c] = Idle /\ call' = [call EXCEPT ![c] = r]
    /\ ops < MaxOps /\ ops' = ops + 1
\* A request of one step
Answered(c) == Request(c, Idle)
At(c, at) == call[c].at = at /\ UNCHANGED ops
To(c, at) == call' = [call EXCEPT ![c] = IF at = "idle" THEN Idle ELSE [@ EXCEPT !.at = at]]
Works == UNCHANGED faults
\* A write fails; the error is logged, or ends the request
Faults == faults < MaxFaults /\ faults' = faults + 1

-----------------------------------------------------------------------------
(* Favourites *)

\* GetPage, and the insert after it
AddFavorite(c, u, p) ==
    /\ u \in users /\ p \in pages
    /\ Request(c, [at |-> "insert", row |-> <<u, p>>])
    /\ UNCHANGED <<faults, owners, settings, branding, cleanup>>
Insert(c) ==
    /\ At(c, "insert") /\ To(c, "idle") /\ Works
    /\ LET r == call[c].row
           owned == r[1] \in users /\ r[2] \in pages
       IN /\ favs' = favs \cup {r}
          /\ liked' = IF owned THEN liked \cup {r} ELSE liked
          /\ late' = IF owned THEN late ELSE late \cup {r}
    /\ UNCHANGED <<tree, users, settings, branding, missed, strayed>>

RemoveFavorite(c, u, p) ==
    /\ u \in users
    /\ Answered(c)
    /\ favs' = favs \ {<<u, p>>} /\ liked' = liked \ {<<u, p>>}
    /\ UNCHANGED <<faults, tree, users, settings, branding, cleanup>>

-----------------------------------------------------------------------------
(* Pages and users come and go *)

Subtree(p) == {q \in pages : q = p \/ p \in above[q]}
Path(q) == IF q = None THEN {} ELSE above[q] \cup {q}

CreatePage(c, p, q) ==
    /\ p \in spare /\ q \in pages \cup {None}
    /\ Answered(c)
    /\ pages' = pages \cup {p} /\ spare' = spare \ {p}
    /\ above' = [above EXCEPT ![p] = Path(q)]
    /\ UNCHANGED <<faults, users, favs, liked, settings, branding, cleanup>>

MovePage(c, p, q) ==
    /\ p \in pages /\ q \in (pages \ Subtree(p)) \cup {None}
    /\ Answered(c)
    /\ above' = [r \in Pages |-> IF r \in Subtree(p) THEN (above[r] \ above[p]) \cup Path(q) ELSE above[r]]
    /\ UNCHANGED <<faults, pages, spare, users, favs, liked, settings, branding, cleanup>>

\* One clean-up of a deletion: if it fails that is logged, and it is not tried again
Cleans(c, write, who) ==
    \/ write /\ Works /\ UNCHANGED missed
    \/ Faults /\ missed' = missed \cup {who} /\ UNCHANGED <<favs, rows, want>>

\* collectSubtreeIDs
Mutant_Itself(p) == {p}
Collected(p) == Subtree(p)

\* The page alone, or a recursive deletion, which reads the subtree first.
\* History: what the subtree was, and the pages that could not be read.
DeletePage(c, p) ==
    /\ p \in pages
    /\ \/ Request(c, [at |-> "delete", page |-> p, list |-> {p}, was |-> {p}, blind |-> {}, deep |-> FALSE])
       \/ Request(c, [at |-> "read", page |-> p, list |-> Collected(p), was |-> Subtree(p), blind |-> {}, deep |-> TRUE])
    /\ UNCHANGED <<faults, owners, settings, branding, cleanup>>
\* GetPages: who cannot be read is logged and left out
ReadPages(c) ==
    /\ At(c, "read")
    /\ LET k == call[c] IN
       \E blind \in SUBSET (k.list \cap pages) :
          /\ IF blind = {} THEN Works ELSE Faults
          /\ call' = [call EXCEPT ![c] =
                [k EXCEPT !.at = "delete", !.list = (k.list \cap pages) \ blind, !.blind = blind]]
    /\ UNCHANGED <<owners, settings, branding, cleanup>>
\* DeleteNode: what is below the page by now goes with it, or nothing does; if
\* then the order file cannot be written the request ends all the same
DeleteNode(c) ==
    /\ At(c, "delete")
    /\ LET gone == Subtree(call[c].page)
           list == call[c].list
       IN \/ /\ call[c].page \in pages /\ (call[c].deep \/ gone = {call[c].page})
             /\ pages' = pages \ gone
             /\ liked' = {r \in liked : r[2] \notin gone}
             /\ \/ /\ Works
                   /\ call' = [call EXCEPT ![c] = IF list = {} THEN Idle ELSE [at |-> "unfavorite", list |-> list]]
                   /\ missed' = missed \cup call[c].blind \cup (gone \ call[c].was)
                   /\ strayed' = strayed \cup ((list \cap pages) \ gone)
                \/ Faults /\ To(c, "idle") /\ missed' = missed \cup gone /\ UNCHANGED strayed
          \/ Works /\ To(c, "idle") /\ UNCHANGED <<pages, liked, missed, strayed>>
    /\ UNCHANGED <<above, spare, users, favs, settings, branding, late>>
DeleteAllForPage(c) ==
    /\ At(c, "unfavorite")
    /\ LET k == call[c] IN
       \E p \in k.list :
          /\ Cleans(c, favs' = {r \in favs : r[2] # p} /\ UNCHANGED <<rows, want>>, p)
          /\ call' = [call EXCEPT ![c] = IF k.list = {p} THEN Idle ELSE [k EXCEPT !.list = k.list \ {p}]]
    /\ UNCHANGED <<tree, users, liked, rowLock, branding, late, strayed>>

DeleteUser(c, u) ==
    /\ u \in users
    /\ Request(c, [at |-> "forget", user |-> u])
    /\ users' = users \ {u} /\ liked' = {r \in liked : r[1] # u}
    /\ UNCHANGED <<faults, tree, favs, settings, branding, cleanup>>
DeleteAllForUser(c) ==
    /\ At(c, "forget") /\ To(c, "reset")
    /\ LET u == call[c].user IN
       Cleans(c, favs' = {r \in favs : r[1] # u} /\ UNCHANGED <<rows, want>>, u)
    /\ UNCHANGED <<tree, users, liked, rowLock, branding, late, strayed>>
DeleteSettings(c) ==
    /\ At(c, "reset") /\ To(c, "idle") /\ rowLock = None
    /\ LET u == call[c].user IN
       Cleans(c, rows' = [rows EXCEPT ![u] = None] /\ want' = [want EXCEPT ![u] = Default] /\ UNCHANGED favs, u)
    /\ UNCHANGED <<tree, users, liked, rowLock, branding, late, strayed>>

-----------------------------------------------------------------------------
(* User settings: UpdateAtomic *)

Current(u) == IF rows[u] = None THEN Default ELSE rows[u]

UpdateSettings(c, u, f, v) ==
    /\ u \in users
    /\ Request(c, [at |-> "lock", user |-> u, field |-> f, value |-> v])
    /\ UNCHANGED <<faults, owners, settings, branding, cleanup>>
Mutant_AnyTime == TRUE
RowFree == rowLock = None
GetLocked(c) ==
    /\ At(c, "lock") /\ Works /\ RowFree
    /\ rowLock' = c
    /\ LET k == call[c]
           row == [Current(k.user) EXCEPT ![k.field] = k.value]
       IN call' = [call EXCEPT ![c] = [at |-> "upsert", user |-> k.user, field |-> k.field, row |-> row]]
    /\ UNCHANGED <<owners, rows, want, branding, cleanup>>
UpsertLocked(c) ==
    /\ At(c, "upsert") /\ To(c, "idle")
    /\ rowLock' = None
    /\ LET u == call[c].user
           f == call[c].field
           row == call[c].row
       IN \/ /\ Works
             /\ rows' = [rows EXCEPT ![u] = row]
             /\ want' = [want EXCEPT ![u][f] = row[f]]
             /\ late' = IF u \in users THEN late ELSE late \cup {u}
          \/ Faults /\ UNCHANGED <<rows, want, late>>
    /\ UNCHANGED <<owners, branding, missed, strayed>>

-----------------------------------------------------------------------------
(* The settings files, and the branding *)

\* Store.Put: the value in memory changes after the file has
Put(new) ==
    \/ Works /\ json' = new /\ conf' = new
    \/ Faults /\ UNCHANGED <<json, conf>>

BrandFree == brandLock = None
\* UpdateBranding
SetName(c, n) ==
    /\ Answered(c)
    /\ BrandFree
    /\ Put([conf EXCEPT !.name = n])
    /\ named' = conf'.name
    /\ UNCHANGED <<owners, settings, files, brandLock, hurt, cleanup>>
\* SetAlwaysShow; SetEnabled, which a pinned flag refuses
SetFlag(c, v) ==
    /\ Answered(c)
    /\ ~EnvManaged
    /\ Put([conf EXCEPT !.flag = v])
    /\ UNCHANGED <<owners, settings, files, brandLock, hurt, named, cleanup>>

\* UploadLogo, UploadFavicon: the configuration is read first
UploadImage(c, s, e) ==
    /\ BrandFree /\ brandLock' = c
    /\ Request(c, [at |-> "image", slot |-> s, ext |-> e, cfg |-> conf])
    /\ UNCHANGED <<faults, owners, settings, files, conf, json, hurt, named, cleanup>>
\* WriteStreamAtomic
WriteImage(c) ==
    /\ At(c, "image")
    /\ LET s == call[c].slot IN
       \/ /\ Works /\ To(c, "others")
          /\ files' = [files EXCEPT ![s] = @ \cup {call[c].ext}]
          /\ UNCHANGED brandLock
       \/ Faults /\ To(c, "idle") /\ brandLock' = None /\ UNCHANGED files
    /\ UNCHANGED <<owners, settings, conf, json, hurt, named, cleanup>>
\* removeOtherMatches: what cannot be removed is left
Others(c) == files[call[c].slot] \ {call[c].ext}
RemoveOthers(c) ==
    /\ At(c, "others") /\ To(c, "save")
    /\ \E gone \in SUBSET Others(c) :
          /\ files' = [files EXCEPT ![call[c].slot] = @ \ gone]
          /\ \/ gone = Others(c) /\ Works /\ hurt' = hurt \ {call[c].slot}
             \/ gone # Others(c) /\ Faults /\ hurt' = hurt \cup {call[c].slot}
    /\ UNCHANGED <<owners, settings, conf, json, brandLock, named, cleanup>>

\* DeleteLogo, DeleteFavicon; an image that cannot be removed changes nothing
DeleteImage(c, s) ==
    /\ BrandFree /\ brandLock' = c
    /\ conf.images[s] # None
    /\ Request(c, [at |-> "save", slot |-> s, ext |-> None, cfg |-> conf])
    /\ files' = [files EXCEPT ![s] = @ \ {conf.images[s]}]
    /\ UNCHANGED <<faults, owners, settings, conf, json, hurt, named, cleanup>>

SaveImage(c) ==
    /\ At(c, "save") /\ To(c, "idle") /\ brandLock' = None
    /\ LET s == call[c].slot
           e == call[c].ext
           cfg == call[c].cfg
       IN /\ Put([conf EXCEPT !.name = cfg.name, !.images = [cfg.images EXCEPT ![s] = e]])
          /\ hurt' = IF conf'.images[s] = e THEN hurt ELSE hurt \cup {s}
    /\ UNCHANGED <<owners, settings, files, named, cleanup>>

-----------------------------------------------------------------------------

\* A crash, and the start after it
Loaded == IF json = None THEN DefaultConf ELSE json
Crash ==
    /\ Faults
    /\ conf' = Loaded
    /\ rowLock' = None /\ brandLock' = None
    /\ call' = [c \in Calls |-> Idle]
    /\ missed' = missed \cup (UNION {call[c].list : c \in {d \in Calls : call[d].at = "unfavorite"}})
                       \cup {call[c].user : c \in {d \in Calls : call[d].at \in {"forget", "reset"}}}
    /\ hurt' = hurt \cup {call[c].slot : c \in {d \in Calls : call[d].at \in {"others", "save"}}}
    /\ UNCHANGED <<owners, rows, want, files, json, named, ops, late, strayed>>

PreferencesNext ==
    \/ \E c \in Calls :
          \/ \E u \in Users, p \in Pages : AddFavorite(c, u, p) \/ RemoveFavorite(c, u, p)
          \/ Insert(c)
          \/ \E p \in Pages : \/ DeletePage(c, p)
                             \/ \E q \in Pages \cup {None} : CreatePage(c, p, q) \/ MovePage(c, p, q)
          \/ ReadPages(c) \/ DeleteNode(c) \/ DeleteAllForPage(c)
          \/ \E u \in Users : DeleteUser(c, u)
          \/ DeleteAllForUser(c) \/ DeleteSettings(c)
          \/ \E u \in Users, f \in Fields, v \in Values : UpdateSettings(c, u, f, v)
          \/ GetLocked(c) \/ UpsertLocked(c)
          \/ \E v \in Values : SetName(c, v) \/ SetFlag(c, v)
          \/ \E s \in Slots, e \in Exts : UploadImage(c, s, e)
          \/ WriteImage(c) \/ RemoveOthers(c)
          \/ \E s \in Slots : DeleteImage(c, s)
          \/ SaveImage(c)
    \/ Crash

PreferencesSpec == PreferencesInit /\ [][PreferencesNext]_preferencesVars

-----------------------------------------------------------------------------

Deleting(c) == call[c].at \in {"unfavorite", "forget", "reset"}

\* Once no deletion is cleaning up, the favourites and settings of a page or
\* user that is gone are those that a request added after the deletion (it had
\* found the page, or was authenticated, before), those whose clean-up failed,
\* was cut short by a crash or was never begun as the order file could not be
\* written, and those of pages a recursive deletion took without having them on
\* its list: they could not be read, or were created or moved under the page
\* after its subtree was collected.
OnlyRacesOrphan ==
    (\A c \in Calls : ~Deleting(c)) =>
        /\ \A r \in favs : r[1] \in users \/ r \in late \/ r[1] \in missed
        /\ \A r \in favs : r[2] \in pages \/ r \in late \/ r[2] \in missed
        /\ \A u \in Users : rows[u] = None \/ u \in users \/ u \in late \/ u \in missed

\* No answered change is lost to another one made from an older reading: a
\* user's row holds the last value given to each field, and the branding the
\* last site name, whatever uploads and updates overlapped and whatever failed.
UpdatesKept ==
    /\ \A u \in Users : Current(u) = want[u]
    /\ conf.name = named

\* What is served after a failed save or a crash is what is on disk, and between
\* requests the image the branding names is in its directory with no other
\* beside it, except in a slot where, since its images were last cleared, one
\* could not be removed, the save failed or the process stopped before it.
BrandingStands ==
    /\ conf = Loaded
    /\ brandLock = None => \A s \in Slots : s \in hurt \/ files[s] = {conf.images[s]} \ {None}

\* A favourite stays as long as its page and its user unless it is removed; only
\* a recursive deletion also clears those of a page moved out of its subtree
\* between the reading and the deletion.
FavouritesStay == \A r \in liked : r \in favs \/ r[2] \in strayed

\* What was chosen stays chosen, in memory, in the files and in the rows.
ChoicesStand == UpdatesKept /\ BrandingStands /\ FavouritesStay
=============================================================================
