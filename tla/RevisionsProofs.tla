--------------------------- MODULE RevisionsProofs ---------------------------
(***************************************************************************)
(* What Revisions promises, for every number of requests, contents, names,  *)
(* failures and crashes: the history stays complete and follows the page,   *)
(* no answered upload is lost, and a restore alone is all or nothing.       *)
(***************************************************************************)
EXTENDS Revisions, FiniteSetTheorems, TLAPS

Making == {"blob", "manifest", "persist", "revise", "tidy"}
Recording == {"lock"} \union Making
Changing == {"r_write", "r_clear", "r_copy", "r_record", "undo", "u_clear", "u_copy"}
Holding == Making \union Changing
Reading == {"read", "unavailable"}
Deleting == {"d_assets", "d_revs"}
Steps == {"idle", "write", "effect", "content", "upload", "r_lock"}
            \union Recording \union Changing \union Reading \union Deleting

-----------------------------------------------------------------------------
(* The invariant *)

CallT == [at : Steps, kind : {"none", "content", "structure", "asset"}, file : Files \union {None},
          id : Nat \union {None}, rev : RevT \union {None}, old : States \union {None},
          body : Bodies \union {None}, extra : Extras \union {None}, title : Titles \union {None},
          assets : Manifests \union {None}, coalesce : BOOLEAN]

\* A caller has in hand what the step it is at uses.
Formed(k) ==
    /\ k.at = "idle" => k = Idle
    /\ k.kind # "none" <=> k.at \in Recording
    /\ k.at = "manifest" => k.kind # "asset"
    /\ k.at = "upload" => k.file \in Files
    /\ k.at \in {"write", "effect"} \union Changing => k.old \in States
    /\ k.at \in {"write"} \union Making => k.body \in Bodies /\ k.extra \in Extras /\ k.title \in Titles
    /\ k.at = "lock" /\ k.kind = "content" => k.body \in Bodies
    /\ k.at = "blob" /\ k.kind = "asset" => k.assets \in Manifests
    /\ k.at \in {"persist", "revise", "tidy"} \union Changing => k.assets \in Manifests
    /\ k.at \in Making /\ k.coalesce => k.rev # None
    /\ k.at \in Changing \union Reading => k.rev \in RevT
    /\ k.at \in Deleting => page = None

Shapes ==
    /\ page \in States \union {None} /\ live \in Manifests
    /\ revs \in Seq(RevT) /\ blobs \subseteq Bodies /\ files \subseteq Files
    /\ manifests \subseteq Manifests /\ cache \in Manifests \union {None}
    /\ lock \in Callers \union {None} /\ acked \subseteq Files
    /\ disturbed \in BOOLEAN /\ crashed \in BOOLEAN /\ restored \in BOOLEAN
Types ==
    /\ Shapes /\ call \in [Callers -> CallT]
    /\ \A c \in Callers : Formed(call[c])

\* The lock is held by the one caller that is past it.
Locking == \A c \in Callers : call[c].at \in Holding <=> lock = c

\* What a recording refers to is stored before the revision is.
Held(m) == m \in manifests /\ BlobsOf(m) \subseteq files
Equipped(k) ==
    /\ k.at \in {"manifest", "persist", "revise"} => k.body \in blobs
    /\ k.at \in Making /\ k.rev # None => Held(k.rev.assets)
    /\ k.at = "revise" => Held(k.assets)
Stocked ==
    /\ Intact
    /\ cache # None => Held(cache)
    /\ \A c \in Callers : Equipped(call[c])

\* The newest revision has this body and, before a crash, this title and these
\* assets; the cache is about these assets and they are stored.
Follows(b, t, m) ==
    /\ revs # <<>> /\ Newest.body = b
    /\ crashed \/ (Newest.title = t /\ (restored \/ Newest.assets = m))
Backed(m) == crashed \/ (cache # None /\ (restored \/ cache = m) /\ BlobsOf(m) \subseteq files)
Settled == Follows(page.body, page.title, live) /\ Backed(live)
Differs == crashed \/ (revs # <<>> /\ Newest.body # page.body)

\* How far the history is from the page at each step of a caller that is alone.
InStep(k) ==
    /\ k.at \in {"idle", "write", "upload", "tidy", "r_lock", "r_write"} \union Reading => Settled
    /\ k.at \in {"write", "r_write"} => k.old = page
    /\ k.at = "effect" => Follows(k.old.body, k.old.title, live) /\ Backed(live)
    /\ k.at = "content" => Differs /\ Backed(live)
    /\ k.at = "lock" /\ k.kind = "content" => k.body = page.body /\ Differs /\ Backed(live)
    /\ k.at = "lock" /\ k.kind = "structure" => revs # <<>> /\ Newest.body = page.body /\ Backed(live)
    /\ k.at = "lock" /\ k.kind = "asset" => Follows(page.body, page.title, cache) /\ (crashed \/ cache # None)
    /\ k.at \in Making \ {"tidy"} => k.body = page.body /\ k.title = page.title /\ k.rev = Latest
    /\ k.at \in {"blob", "manifest"} /\ k.kind # "asset" => Backed(live)
    /\ k.at = "persist" \/ (k.at = "blob" /\ k.kind = "asset") => k.assets = live
    /\ k.at = "revise" => Backed(live) /\ (crashed \/ restored \/ k.assets = live)
    /\ k.at = "r_write" => k.assets = live
    /\ k.at \in Changing \ {"r_write"} => Follows(k.old.body, k.old.title, k.assets) /\ Backed(k.assets)
    /\ k.at \in {"r_clear", "r_copy", "r_record"} => page.body = k.rev.body /\ page.title = k.rev.title
    /\ k.at \in {"u_clear", "u_copy"} => page.body = k.old.body /\ page.title = k.old.title
    /\ k.at \in {"r_copy", "u_copy"} => live = <<>>
    /\ k.at = "r_record" => live = k.rev.assets

\* And what is left of a page that is gone.
Leaving(k) ==
    /\ k.at \in {"idle"} \union Deleting
    /\ ~crashed /\ k.at # "d_assets" => live = <<>>
    /\ ~crashed /\ k.at = "idle" => revs = <<>>

AtStep(k) == IF page = None THEN Leaving(k) ELSE InStep(k)
Only(c) == \A d \in Callers : d # c => call[d].at = "idle"
Alone == ~disturbed => \E c \in Callers : Only(c) /\ AtStep(call[c])

\* A file in hand is on its way from the directory to the store; one that was
\* answered and is not stored yet waits for a recording that will store it.
Carries(k) ==
    k.file # None =>
        /\ k.at \in {"lock", "blob", "manifest", "persist"} => k.kind = "asset" /\ k.file \in BlobsOf(live)
        /\ k.at \in {"blob", "persist"} => k.file \in BlobsOf(k.assets)
        /\ k.at \in {"revise", "tidy"} => k.file \in files
Waits(k) == k.at = "lock" /\ k.kind = "asset"
Scanned(k) == k.at \in {"blob", "persist"} /\ k.kind = "asset"
Same(m) == \A n \in DOMAIN m : n \in DOMAIN live /\ live[n] = m[n]
Stores(k, f) == Waits(k) \/ (Scanned(k) /\ f \in BlobsOf(k.assets))
Uploads ==
    /\ \A c \in Callers : Carries(call[c])
    /\ ~crashed /\ page # None =>
         /\ \A c \in Callers : Scanned(call[c]) =>
              Same(call[c].assets) \/ \E d \in Callers : Waits(call[d])
         /\ \A f \in acked \ files : f \in BlobsOf(live) /\ \E d \in Callers : Stores(call[d], f)

Inv == Types /\ Locking /\ Stocked /\ Alone /\ Uploads

-----------------------------------------------------------------------------
(* Directories *)

LEMMA NothingIsAManifest == <<>> \in Manifests /\ BlobsOf(<<>>) = {} /\ DOMAIN <<>> = {}
<1>1. DOMAIN <<>> = {} OBVIOUS
<1>2. <<>> \in [{} -> Files] BY <1>1
<1> QED BY <1>1, <1>2 DEF Manifests, BlobsOf

LEMMA ManifestIsFunction ==
    ASSUME NEW m \in Manifests
    PROVE  /\ DOMAIN m \subseteq Names /\ m = [n \in DOMAIN m |-> m[n]]
           /\ \A n \in DOMAIN m : m[n] \in Files
           /\ BlobsOf(m) \subseteq Files
BY DEF Manifests, BlobsOf

LEMMA FunctionIsManifest ==
    ASSUME NEW D \in SUBSET Names, NEW g, g = [n \in D |-> g[n]], \A n \in D : g[n] \in Files
    PROVE  g \in Manifests
BY DEF Manifests

LEMMA WrittenIsManifest ==
    ASSUME NEW m \in Manifests, NEW dir \in Manifests
    PROVE  Written(m, dir) \in Manifests
<1>1. DOMAIN m \union DOMAIN dir \in SUBSET Names BY ManifestIsFunction
<1>2. \A n \in DOMAIN m \union DOMAIN dir : (IF n \in DOMAIN m THEN m[n] ELSE dir[n]) \in Files
    BY ManifestIsFunction
<1> DEFINE D == DOMAIN m \union DOMAIN dir
           g == [n \in D |-> IF n \in DOMAIN m THEN m[n] ELSE dir[n]]
<1>3. \A n \in D : g[n] \in Files BY <1>2
<1>4. g = [n \in D |-> g[n]] OBVIOUS
<1> HIDE DEF g, D
<1>5. g \in Manifests BY <1>1, <1>3, <1>4, FunctionIsManifest DEF D
<1> QED BY <1>5 DEF g, D, Written

LEMMA WithoutIsManifest ==
    ASSUME NEW dir \in Manifests, NEW n
    PROVE  Without(n, dir) \in Manifests
<1>1. DOMAIN dir \ {n} \in SUBSET Names BY ManifestIsFunction
<1>2. \A m \in DOMAIN dir \ {n} : dir[m] \in Files BY ManifestIsFunction
<1> DEFINE D == DOMAIN dir \ {n}
           g == [m \in D |-> dir[m]]
<1>3. \A m \in D : g[m] \in Files BY <1>2
<1>4. g = [m \in D |-> g[m]] OBVIOUS
<1> HIDE DEF g, D
<1>5. g \in Manifests BY <1>1, <1>3, <1>4, FunctionIsManifest DEF D
<1> QED BY <1>5 DEF g, D, Without

LEMMA NamedIsManifest ==
    ASSUME NEW n \in Names, NEW f \in Files
    PROVE  Named(n, f) \in Manifests /\ BlobsOf(Named(n, f)) = {f}
<1>1. Named(n, f) \in [{n} -> Files] BY DEF Named
<1>2. Named(n, f) \in Manifests BY <1>1 DEF Manifests
<1>3. BlobsOf(Named(n, f)) = {f} BY DEF BlobsOf, Named
<1> QED BY <1>2, <1>3

LEMMA PartIsManifest ==
    ASSUME NEW m \in Manifests, NEW S \in SUBSET DOMAIN m
    PROVE  [n \in S |-> m[n]] \in Manifests
<1>1. S \in SUBSET Names BY ManifestIsFunction
<1>2. \A n \in S : m[n] \in Files BY ManifestIsFunction
<1> QED BY <1>1, <1>2 DEF Manifests

\* Every file written is there, and every one that was there and not replaced.
LEMMA WrittenHas ==
    ASSUME NEW m, NEW dir
    PROVE  /\ BlobsOf(m) \subseteq BlobsOf(Written(m, dir))
           /\ BlobsOf(Written(m, dir)) \subseteq BlobsOf(m) \union BlobsOf(dir)
           /\ \A f \in BlobsOf(dir) :
                f \notin BlobsOf([n \in DOMAIN m \intersect DOMAIN dir |-> dir[n]])
                    => f \in BlobsOf(Written(m, dir))
BY DEF Written, BlobsOf

LEMMA WrittenKeepsOthers ==
    ASSUME NEW m, NEW dir, DOMAIN m \intersect DOMAIN dir = {}
    PROVE  /\ BlobsOf(Written(m, dir)) = BlobsOf(m) \union BlobsOf(dir)
           /\ \A n \in DOMAIN dir : n \in DOMAIN Written(m, dir) /\ Written(m, dir)[n] = dir[n]
BY DEF Written, BlobsOf

LEMMA WrittenToNothing ==
    ASSUME NEW m \in Manifests
    PROVE  Written(m, <<>>) = m
<1>1. DOMAIN <<>> = {} OBVIOUS
<1>2. m = [n \in DOMAIN m |-> m[n]] BY ManifestIsFunction
<1> QED BY <1>1, <1>2 DEF Written

LEMMA WithoutHas ==
    ASSUME NEW dir, NEW n
    PROVE  \A f \in BlobsOf(dir) : f # dir[n] => f \in BlobsOf(Without(n, dir))
BY DEF Without, BlobsOf

LEMMA RenamedHas ==
    ASSUME NEW dir, NEW n \in DOMAIN dir, NEW new
    PROVE  new \notin DOMAIN dir => BlobsOf(Written(Named(new, dir[n]), Without(n, dir))) = BlobsOf(dir)
<1> SUFFICES ASSUME new \notin DOMAIN dir
             PROVE  BlobsOf(Written(Named(new, dir[n]), Without(n, dir))) = BlobsOf(dir)
    OBVIOUS
<1> DEFINE w == Written(Named(new, dir[n]), Without(n, dir))
<1>1. DOMAIN w = {new} \union (DOMAIN dir \ {n}) BY DEF Written, Named, Without
<1>2. w[new] = dir[n] /\ \A x \in DOMAIN dir \ {n} : w[x] = dir[x]
    BY DEF Written, Named, Without
<1> HIDE DEF w
<1>3. BlobsOf(w) \subseteq BlobsOf(dir) BY <1>1, <1>2 DEF BlobsOf
<1>4. ASSUME NEW x \in DOMAIN dir PROVE dir[x] \in BlobsOf(w)
    <2>1. CASE x = n BY <2>1, <1>1, <1>2 DEF BlobsOf
    <2>2. CASE x # n BY <2>2, <1>1, <1>2 DEF BlobsOf
    <2> QED BY <2>1, <2>2
<1> QED BY <1>3, <1>4 DEF BlobsOf, w

-----------------------------------------------------------------------------
(* Revisions *)

LEMMA RevisionIn ==
    ASSUME revs \in Seq(RevT)
    PROVE  /\ \A i \in DOMAIN revs : revs[i] \in RevT
           /\ \A id \in Ids : \E i \in DOMAIN revs : Rev(id) = revs[i]
           /\ revs # <<>> => Len(revs) \in DOMAIN revs /\ Len(revs) \in Nat \ {0}
<1>1. \A id \in Ids : \E i \in DOMAIN revs : Rev(id) = revs[i]
    <2> SUFFICES ASSUME NEW id \in Ids PROVE \E i \in DOMAIN revs : Rev(id) = revs[i] OBVIOUS
    <2>1. \E i \in DOMAIN revs : revs[i].id = id BY DEF Ids
    <2> QED BY <2>1 DEF Rev
<1> QED BY <1>1

LEMMA ImageIsFinite ==
    ASSUME NEW S, IsFiniteSet(S), NEW f, f = [x \in S |-> f[x]]
    PROVE  IsFiniteSet({f[x] : x \in S})
<1> DEFINE T == {f[x] : x \in S}
<1>1. f \in Surjection(S, T) BY DEF Surjection
<1> QED BY <1>1, FS_Surjection

\* GenerateUniqueID finds an id.
LEMMA FreshIdIsFresh ==
    ASSUME revs \in Seq(RevT)
    PROVE  FreshId \in Nat /\ FreshId \notin InUse
<1>1. IsFiniteSet(Callers)
    BY RevisionsAssumption, FS_AddElement DEF Callers
<1>2. IsFiniteSet({call[c].id : c \in Callers})
    <2> DEFINE g == [c \in Callers |-> call[c].id]
    <2>1. g = [c \in Callers |-> g[c]] OBVIOUS
    <2>2. {g[c] : c \in Callers} = {call[c].id : c \in Callers} OBVIOUS
    <2> HIDE DEF g
    <2>3. IsFiniteSet({g[c] : c \in Callers}) BY <2>1, <1>1, ImageIsFinite
    <2> QED BY <2>2, <2>3
<1>3. IsFiniteSet({call[c].rev.id : c \in {d \in Callers : call[d].rev # None}})
    <2>1. IsFiniteSet({d \in Callers : call[d].rev # None}) BY <1>1, FS_Subset
    <2> DEFINE D == {d \in Callers : call[d].rev # None}
               g == [c \in D |-> call[c].rev.id]
    <2>2. g = [c \in D |-> g[c]] OBVIOUS
    <2>3. {g[c] : c \in D} = {call[c].rev.id : c \in D} OBVIOUS
    <2> HIDE DEF g
    <2>4. IsFiniteSet({g[c] : c \in D}) BY <2>1, <2>2, ImageIsFinite
    <2> QED BY <2>3, <2>4
<1>4. IsFiniteSet(Ids)
    <2>1. IsFiniteSet(DOMAIN revs)
        <3>1. DOMAIN revs = 1 .. Len(revs) /\ Len(revs) \in Nat OBVIOUS
        <3> QED BY <3>1, FS_Interval
    <2> DEFINE g == [i \in DOMAIN revs |-> revs[i].id]
    <2>2. g = [i \in DOMAIN revs |-> g[i]] OBVIOUS
    <2>3. {g[i] : i \in DOMAIN revs} = Ids BY DEF Ids
    <2> HIDE DEF g
    <2>4. IsFiniteSet({g[i] : i \in DOMAIN revs}) BY <2>1, <2>2, ImageIsFinite
    <2> QED BY <2>3, <2>4
<1>5. IsFiniteSet(InUse) BY <1>2, <1>3, <1>4, FS_Union DEF InUse
<1> DEFINE k == Cardinality(InUse)
<1>6. k \in Nat BY <1>5, FS_CardinalityType
<1>7. Cardinality(0 .. k) = k + 1 /\ IsFiniteSet(0 .. k) BY <1>6, FS_Interval
<1>8. \E n \in 0 .. k : n \notin InUse
    <2> SUFFICES ASSUME 0 .. k \subseteq InUse PROVE FALSE OBVIOUS
    <2>1. Cardinality(0 .. k) <= k BY <1>5, FS_Subset
    <2> QED BY <2>1, <1>6, <1>7
<1>9. FreshId \in 0 .. k /\ FreshId \notin InUse BY <1>8 DEF FreshId
<1> QED BY <1>9, <1>6

LEMMA NewRevIsRevision ==
    ASSUME revs \in Seq(RevT), NEW c \in Callers, NEW k \in CallT,
           k.kind \in {"content", "structure", "asset"}, k.body \in Bodies, k.extra \in Extras,
           k.title \in Titles, k.assets \in Manifests
    PROVE  NewRev(c, k) \in RevT
BY FreshIdIsFresh DEF NewRev, RevT

LEMMA AppendIsHistory ==
    ASSUME NEW s \in Seq(RevT), NEW r \in RevT
    PROVE  /\ Append(s, r) \in Seq(RevT) /\ Append(s, r) # <<>>
           /\ Append(s, r)[Len(Append(s, r))] = r
           /\ \A i \in DOMAIN Append(s, r) : Append(s, r)[i] = r \/ \E j \in DOMAIN s : Append(s, r)[i] = s[j]
<1>1. Append(s, r) \in Seq(RevT) /\ Len(Append(s, r)) = Len(s) + 1 /\ Append(s, r)[Len(s) + 1] = r
    OBVIOUS
<1>2. \A i \in 1 .. Len(s) : Append(s, r)[i] = s[i] OBVIOUS
<1>3. DOMAIN Append(s, r) = 1 .. Len(s) + 1 /\ DOMAIN s = 1 .. Len(s) /\ Len(s) \in Nat BY <1>1
<1>4. Append(s, r) # <<>> BY <1>1
<1>5. \A i \in DOMAIN Append(s, r) : Append(s, r)[i] = r \/ \E j \in DOMAIN s : Append(s, r)[i] = s[j]
    <2> TAKE i \in DOMAIN Append(s, r)
    <2>1. i = Len(s) + 1 \/ i \in 1 .. Len(s) BY <1>3
    <2> QED BY <2>1, <1>1, <1>2, <1>3
<1> QED BY <1>1, <1>4, <1>5

LEMMA ReplaceIsHistory ==
    ASSUME NEW s \in Seq(RevT), s # <<>>, NEW r \in RevT
    PROVE  LET t == [s EXCEPT ![Len(s)] = r]
           IN  /\ t \in Seq(RevT) /\ t # <<>> /\ t[Len(t)] = r
               /\ \A i \in DOMAIN t : t[i] = r \/ \E j \in DOMAIN s : t[i] = s[j]
<1> DEFINE t == [s EXCEPT ![Len(s)] = r]
<1>1. Len(s) \in Nat \ {0} /\ DOMAIN s = 1 .. Len(s) OBVIOUS
<1>2. t \in Seq(RevT) /\ Len(t) = Len(s) /\ t[Len(s)] = r BY <1>1
<1>3. \A i \in DOMAIN s : i # Len(s) => t[i] = s[i] BY <1>1
<1>4. DOMAIN t = DOMAIN s OBVIOUS
<1>5. t # <<>> BY <1>2, <1>1
<1> HIDE DEF t
<1>6. \A i \in DOMAIN t : t[i] = r \/ \E j \in DOMAIN s : t[i] = s[j] BY <1>2, <1>3, <1>4
<1>7. t[Len(t)] = r BY <1>2
<1> QED BY <1>2, <1>5, <1>6, <1>7 DEF t

\* Pruning keeps revisions as they are, and the newest one.
LEMMA PruneIsHistory ==
    ASSUME NEW s \in Seq(RevT), NEW n \in Nat, n # 0, Len(s) > n
    PROVE  LET t == SubSeq(s, Len(s) - n + 1, Len(s))
           IN  /\ t \in Seq(RevT) /\ t # <<>> /\ t[Len(t)] = s[Len(s)]
               /\ \A i \in DOMAIN t : \E j \in DOMAIN s : t[i] = s[j]
<1> DEFINE a == Len(s) - n + 1
           t == SubSeq(s, a, Len(s))
<1>1. Len(s) \in Nat /\ DOMAIN s = 1 .. Len(s) OBVIOUS
<1>2. a \in 1 .. Len(s) BY <1>1
<1>3. t \in Seq(RevT) /\ Len(t) = n /\ DOMAIN t = 1 .. n
    <2>1. t = [i \in 1 .. n |-> s[i + a - 1]] BY <1>1, <1>2
    <2>2. \A i \in 1 .. n : i + a - 1 \in DOMAIN s BY <1>1
    <2>3. \A i \in 1 .. n : s[i + a - 1] \in RevT BY <2>2
    <2> QED BY <2>1, <2>3
<1>4. \A i \in 1 .. n : t[i] = s[i + a - 1] /\ i + a - 1 \in DOMAIN s BY <1>1, <1>2
<1>5. t[n] = s[Len(s)]
    <2>1. n + a - 1 = Len(s) BY <1>1
    <2> QED BY <2>1, <1>4
<1>6. t # <<>> BY <1>3
<1> HIDE DEF t, a
<1> QED BY <1>3, <1>4, <1>5, <1>6 DEF t, a

-----------------------------------------------------------------------------
(* Calls *)

LEMMA Given ==
    /\ None \notin Callers /\ System \in Callers /\ None \notin Files
    /\ None \notin Manifests /\ None \notin States /\ NoExtra \in Extras /\ MaxRevs \in Nat
BY RevisionsAssumption DEF Callers, Manifests, States

LEMMA CallIn ==
    ASSUME NEW k \in CallT
    PROVE  /\ k.at \in Steps /\ k.kind \in {"none", "content", "structure", "asset"}
           /\ k.file \in Files \union {None} /\ k.id \in Nat \union {None} /\ k.rev \in RevT \union {None}
           /\ k.old \in States \union {None} /\ k.body \in Bodies \union {None}
           /\ k.extra \in Extras \union {None} /\ k.title \in Titles \union {None}
           /\ k.assets \in Manifests \union {None} /\ k.coalesce \in BOOLEAN
BY DEF CallT

LEMMA IdleIn ==
    /\ Idle \in CallT /\ Idle.at = "idle" /\ Idle.kind = "none" /\ Idle.file = None
    /\ Idle.id = None /\ Idle.rev = None /\ Idle.old = None
    /\ Idle.body = None /\ Idle.extra = None /\ Idle.title = None /\ Idle.assets = None
    /\ Idle.coalesce = FALSE
BY DEF Idle, CallT, Steps

\* All that the sweep of another caller can change is the file in hand.
Like(k, l) ==
    /\ l.at = k.at /\ l.kind = k.kind /\ l.id = k.id /\ l.rev = k.rev /\ l.old = k.old
    /\ l.body = k.body /\ l.extra = k.extra /\ l.title = k.title /\ l.assets = k.assets
    /\ l.coalesce <=> k.coalesce
    /\ l.file = k.file \/ l.file = None
    /\ k.kind # "asset" => l = k
Others(c) == \A d \in Callers : d # c => Like(call[d], call'[d])
StillOthers(c) == \A d \in Callers : d # c => call'[d] = call[d]
Moves(c) == call' \in [Callers -> CallT] /\ Others(c)

\* A call that has found a manifest goes on with it.
Taking(k, step, m) == [k EXCEPT !.at = step, !.assets = m]

LEMMA TakesManifest ==
    ASSUME NEW k \in CallT, NEW step \in Steps, NEW m \in Manifests
    PROVE  /\ Taking(k, step, m) \in CallT
           /\ Taking(k, step, m).coalesce <=> k.coalesce
<1>1. Taking(k, step, m) \in CallT BY Zenon DEF CallT, Taking
<1>2. Taking(k, step, m).coalesce <=> k.coalesce BY DEF CallT, Taking
<1> QED BY <1>1, <1>2, Zenon

LEMMA GotoMoves ==
    ASSUME Types, NEW c \in Callers, NEW rec \in CallT, Goto(c, rec)
    PROVE  Moves(c) /\ StillOthers(c) /\ call'[c] = rec
<1>1. call \in [Callers -> CallT] /\ call' = [call EXCEPT ![c] = rec] BY DEF Types, Goto
<1>2. call' \in [Callers -> CallT] /\ call'[c] = rec /\ StillOthers(c) BY <1>1 DEF StillOthers
<1> QED BY <1>2 DEF Moves, Others, StillOthers, Like

LEMMA SweepMoves ==
    ASSUME Types, NEW c \in Callers, NEW rec \in CallT, NEW S, None \notin S, Sweep(c, S, rec)
    PROVE  /\ Moves(c) /\ call'[c] = rec
           /\ \A d \in Callers : d # c /\ call[d].kind = "asset" => call'[d].file \notin S
           /\ acked' \subseteq acked
           /\ (\E d \in Callers : d # c /\ call[d].kind = "asset") => acked' = acked \ S
<1>1. call \in [Callers -> CallT] BY DEF Types
<1> DEFINE to(d) == IF d = c THEN rec
                    ELSE IF Records(d) /\ call[d].file \in S
                    THEN [call[d] EXCEPT !.file = None] ELSE call[d]
<1>2. call' = [d \in Callers |-> to(d)] BY DEF Sweep
<1>3. ASSUME NEW d \in Callers PROVE to(d) \in CallT
    BY <1>1, CallIn DEF CallT
<1>4. ASSUME NEW d \in Callers, d # c
      PROVE  Like(call[d], to(d)) /\ (call[d].kind = "asset" => to(d).file \notin S)
    <2>1. call[d] \in CallT BY <1>1
    <2>2. CASE Records(d) /\ call[d].file \in S
        <3>1. to(d) = [call[d] EXCEPT !.file = None] BY <1>4, <2>2
        <3> QED BY <2>1, <2>2, <3>1 DEF CallT, Like, Records
    <2>3. CASE ~(Records(d) /\ call[d].file \in S)
        <3>1. to(d) = call[d] BY <1>4, <2>3
        <3> QED BY <2>3, <3>1 DEF Like, Records
    <2> QED BY <2>2, <2>3
<1>5. to(c) = rec OBVIOUS
<1> HIDE DEF to
<1>6. call' \in [Callers -> CallT] /\ call'[c] = rec /\ \A d \in Callers : call'[d] = to(d)
    BY <1>2, <1>3, <1>5
<1>7. acked' = IF \E d \in Callers \ {c} : Records(d) THEN acked \ S ELSE acked BY DEF Sweep
<1>8. acked' \subseteq acked BY <1>7
<1>9. (\E d \in Callers : d # c /\ call[d].kind = "asset") => acked' = acked \ S
    BY <1>7 DEF Records
<1> QED BY <1>4, <1>6, <1>8, <1>9 DEF Moves, Others

LEMMA BeginMoves ==
    ASSUME Types, NEW c \in Callers, NEW rec \in CallT, Begin(c, rec)
    PROVE  /\ Moves(c) /\ StillOthers(c) /\ call'[c] = rec
           /\ call[c] = Idle /\ page # None
           /\ disturbed' \in BOOLEAN
           /\ ~disturbed' => ~disturbed /\ \A d \in Callers : call[d] = Idle
           /\ UNCHANGED <<revs, blobs, files, manifests, cache, lock, crashed, restored, acked>>
<1>1. Moves(c) /\ StillOthers(c) /\ call'[c] = rec
    BY GotoMoves DEF Begin, Goto
<1>2. disturbed' \in BOOLEAN BY DEF Begin, Types, Shapes
<1>3. ~disturbed' => ~disturbed /\ \A d \in Callers : call[d] = Idle BY DEF Begin, Up, Callers
<1> QED BY <1>1, <1>2, <1>3 DEF Begin, store

\* What the state is made of stays so.
LEMMA TypesKept ==
    ASSUME Types, NEW c \in Callers, Moves(c), Formed(call[c])', Shapes', page = None => page' = None
    PROVE  Types'
<1>1. ASSUME NEW d \in Callers PROVE Formed(call[d])'
    <2>1. CASE d = c BY <2>1
    <2>2. CASE d # c
        <3>1. Like(call[d], call'[d]) /\ Formed(call[d]) BY <2>2 DEF Moves, Others, Types
        <3>2. call[d].at = "idle" => call'[d] = Idle
            <4>1. call[d].at = "idle" => call[d].kind # "asset"
                BY <3>1 DEF Formed, Recording, Making
            <4>2. call[d].at = "idle" => call[d] = Idle BY <3>1 DEF Formed
            <4>3. call[d].kind # "asset" => call'[d] = call[d] BY <3>1 DEF Like
            <4> QED BY <4>1, <4>2, <4>3, Zenon
        <3>3. /\ call'[d].at = call[d].at /\ call'[d].kind = call[d].kind /\ call'[d].rev = call[d].rev
              /\ call'[d].old = call[d].old /\ call'[d].body = call[d].body
              /\ call'[d].extra = call[d].extra /\ call'[d].title = call[d].title
              /\ call'[d].assets = call[d].assets /\ (call'[d].coalesce <=> call[d].coalesce)
            BY <3>1 DEF Like
        <3>4. call'[d].at = "upload" => call'[d].file \in Files
            <4>1. call[d].at = "upload" => call[d].kind # "asset" /\ call[d].file \in Files
                BY <3>1 DEF Formed, Recording, Making
            <4> QED BY <4>1, <3>1, <3>3 DEF Like
        <3> QED BY <3>1, <3>2, <3>3, <3>4 DEF Formed
    <2> QED BY <2>1, <2>2
<1> QED BY <1>1 DEF Types, Moves

\* The lock is taken, held, released or left alone.
Shift(c) ==
    \/ lock' = lock /\ (call[c].at \in Holding <=> call'[c].at \in Holding)
    \/ lock = None /\ lock' = c /\ call'[c].at \in Holding
    \/ lock = c /\ lock' = None /\ call'[c].at \notin Holding

LEMMA LockingKept ==
    ASSUME Locking, NEW c \in Callers, Others(c), Shift(c)
    PROVE  Locking'
<1> SUFFICES ASSUME NEW d \in Callers PROVE call'[d].at \in Holding <=> lock' = d BY DEF Locking
<1>1. call[d].at \in Holding <=> lock = d BY DEF Locking
<1>2. call[c].at \in Holding <=> lock = c BY DEF Locking
<1>3. CASE d = c BY <1>1, <1>3, Given DEF Shift
<1>4. CASE d # c
    <2>1. call'[d].at = call[d].at BY <1>4 DEF Others, Like
    <2> QED BY <1>1, <1>2, <1>4, <2>1, Given DEF Shift
<1> QED BY <1>3, <1>4

\* A caller that is past the lock holds it, and no other is.
LEMMA HolderIs ==
    ASSUME Locking, NEW c \in Callers, call[c].at \in Holding
    PROVE  lock = c /\ \A d \in Callers : d # c => call[d].at \notin Holding
BY DEF Locking

-----------------------------------------------------------------------------
(* What each operation does to the shape of the state *)

Shaped(c) ==
    /\ Moves(c) /\ Formed(call[c])' /\ Shapes'
    /\ page = None => page' = None
    /\ Shift(c)

\* A request begins.
Starts(c) ==
    /\ Shaped(c) /\ StillOthers(c) /\ call[c] = Idle /\ page # None
    /\ ~disturbed' => ~disturbed /\ \A d \in Callers : call[d] = Idle
    /\ UNCHANGED <<revs, blobs, files, manifests, cache, lock, crashed, restored, acked>>

LEMMA StartsShape ==
    ASSUME Types, NEW c \in Callers, NEW rec \in CallT, Begin(c, rec), Formed(call[c])',
           rec.at \notin Holding, page' \in {page, None}, live' = live
    PROVE  Starts(c) /\ call'[c] = rec
<1>1. /\ Moves(c) /\ StillOthers(c) /\ call'[c] = rec
      /\ call[c] = Idle /\ page # None
      /\ disturbed' \in BOOLEAN
      /\ ~disturbed' => ~disturbed /\ \A d \in Callers : call[d] = Idle
      /\ UNCHANGED <<revs, blobs, files, manifests, cache, lock, crashed, restored, acked>>
    BY BeginMoves
<1>2. Shapes' BY <1>1 DEF Types, Shapes
<1>4. call[c].at \notin Holding BY <1>1, IdleIn DEF Holding, Making, Changing
<1> QED BY <1>1, <1>2, <1>4 DEF Starts, Shaped, Shift

LEMMA SaveBeginShape ==
    ASSUME Types, NEW c \in Callers, NEW b \in Bodies, NEW x \in Extras, NEW t \in Titles,
           SaveBegin(c, b, x, t)
    PROVE  /\ Starts(c) /\ UNCHANGED <<page, live>>
           /\ call'[c].at = "write" /\ call'[c].old = page /\ call'[c].kind = "none" /\ call'[c].file = None
<1> DEFINE rec == [Idle EXCEPT !.at = "write", !.old = page, !.body = b, !.extra = x, !.title = t]
<1>1. Begin(c, rec) /\ UNCHANGED <<page, live>> BY DEF SaveBegin
<1>2. page # None /\ page \in States BY <1>1 DEF Begin, Types, Shapes
<1>3. rec \in CallT BY <1>2 DEF Idle, CallT, Steps
<1>4. /\ rec.at = "write" /\ rec.old = page /\ rec.kind = "none" /\ rec.file = None
      /\ rec.body = b /\ rec.extra = x /\ rec.title = t
    BY DEF Idle
<1> HIDE DEF rec
<1>7. call'[c] = rec BY <1>1, <1>3, BeginMoves
<1>5. Formed(call[c])' BY <1>7, <1>2, <1>4 DEF Formed, Recording, Making, Changing, Reading, Deleting
<1>6. rec.at \notin Holding BY <1>4 DEF Holding, Making, Changing
<1> QED BY <1>1, <1>3, <1>4, <1>5, <1>6, StartsShape

LEMMA UploadBeginShape ==
    ASSUME Types, NEW c \in Callers, NEW f \in Files, UploadBegin(c, f)
    PROVE  /\ Starts(c) /\ UNCHANGED <<page, live>>
           /\ call'[c].at = "upload" /\ call'[c].kind = "none" /\ call'[c].file = f
<1> DEFINE rec == [Idle EXCEPT !.at = "upload", !.file = f]
<1>1. Begin(c, rec) /\ UNCHANGED <<page, live>> BY DEF UploadBegin
<1>3. rec \in CallT BY DEF Idle, CallT, Steps
<1>4. rec.at = "upload" /\ rec.kind = "none" /\ rec.file = f BY DEF Idle
<1> HIDE DEF rec
<1>7. call'[c] = rec BY <1>1, <1>3, BeginMoves
<1>5. Formed(call[c])' BY <1>7, <1>4 DEF Formed, Recording, Making, Changing, Reading, Deleting
<1>6. rec.at \notin Holding BY <1>4 DEF Holding, Making, Changing
<1> QED BY <1>1, <1>3, <1>4, <1>5, <1>6, StartsShape

LEMMA RestoreBeginShape ==
    ASSUME Types, NEW c \in Callers, NEW id, RestoreBegin(c, id)
    PROVE  /\ Starts(c) /\ UNCHANGED <<page, live>>
           /\ call'[c].at = "r_lock" /\ call'[c].kind = "none" /\ call'[c].file = None
<1> DEFINE rec == [Idle EXCEPT !.at = "r_lock", !.id = id]
<1>1. Begin(c, rec) /\ UNCHANGED <<page, live>> /\ id \in Ids BY DEF RestoreBegin
<1>2. id \in Nat BY <1>1, RevisionIn DEF Ids, RevT, Types, Shapes
<1>3. rec \in CallT BY <1>2 DEF Idle, CallT, Steps
<1>4. rec.at = "r_lock" /\ rec.kind = "none" /\ rec.file = None BY DEF Idle
<1> HIDE DEF rec
<1>7. call'[c] = rec BY <1>1, <1>3, BeginMoves
<1>5. Formed(call[c])' BY <1>7, <1>4 DEF Formed, Recording, Making, Changing, Reading, Deleting
<1>6. rec.at \notin Holding BY <1>4 DEF Holding, Making, Changing
<1> QED BY <1>1, <1>3, <1>4, <1>5, <1>6, StartsShape

LEMMA ReadBeginShape ==
    ASSUME Types, NEW c \in Callers, NEW id, ReadBegin(c, id)
    PROVE  /\ Starts(c) /\ UNCHANGED <<page, live>>
           /\ call'[c].at = "read" /\ call'[c].kind = "none" /\ call'[c].file = None
<1> DEFINE rec == [Idle EXCEPT !.at = "read", !.rev = Rev(id)]
<1>1. Begin(c, rec) /\ UNCHANGED <<page, live>> /\ id \in Ids BY DEF ReadBegin
<1>2. Rev(id) \in RevT BY <1>1, RevisionIn DEF Types, Shapes
<1>3. rec \in CallT BY <1>2 DEF Idle, CallT, Steps, Reading
<1>4. rec.at = "read" /\ rec.kind = "none" /\ rec.file = None /\ rec.rev = Rev(id) BY DEF Idle
<1> HIDE DEF rec
<1>7. call'[c] = rec BY <1>1, <1>3, BeginMoves
<1>5. Formed(call[c])' BY <1>7, <1>2, <1>4 DEF Formed, Recording, Making, Changing, Reading, Deleting
<1>6. rec.at \notin Holding BY <1>4 DEF Holding, Making, Changing
<1> QED BY <1>1, <1>3, <1>4, <1>5, <1>6, StartsShape

LEMMA DeleteTreeShape ==
    ASSUME Types, NEW c \in Callers, DeleteTree(c)
    PROVE  /\ Starts(c) /\ page' = None /\ live' = live
           /\ call'[c].at = "d_assets" /\ call'[c].kind = "none" /\ call'[c].file = None
<1> DEFINE rec == [Idle EXCEPT !.at = "d_assets"]
<1>1. Begin(c, rec) /\ page' = None /\ live' = live BY DEF DeleteTree
<1>3. rec \in CallT BY DEF Idle, CallT, Steps, Deleting
<1>4. rec.at = "d_assets" /\ rec.kind = "none" /\ rec.file = None BY DEF Idle
<1> HIDE DEF rec
<1>7. call'[c] = rec BY <1>1, <1>3, BeginMoves
<1>5. Formed(call[c])' BY <1>7, <1>1, <1>4 DEF Formed, Recording, Making, Changing, Reading, Deleting
<1>6. rec.at \notin Holding BY <1>4 DEF Holding, Making, Changing
<1> QED BY <1>1, <1>3, <1>4, <1>5, <1>6, StartsShape

\* The same for the requests that change the assets as they begin.
LEMMA AssetCallMoves ==
    ASSUME Types, NEW c \in Callers, AssetCall(c)
    PROVE  /\ call[c] = Idle /\ page # None
           /\ disturbed' \in BOOLEAN
           /\ ~disturbed' => ~disturbed /\ \A d \in Callers : call[d] = Idle
           /\ UNCHANGED <<page, revs, blobs, files, manifests, cache, lock, crashed, restored>>
<1>1. disturbed' \in BOOLEAN BY DEF AssetCall, Types, Shapes
<1>2. ~disturbed' => ~disturbed /\ \A d \in Callers : call[d] = Idle BY DEF AssetCall, Up, Callers
<1> QED BY <1>1, <1>2 DEF AssetCall, store

LEMMA ToTheLock ==
    LET rec == [Idle EXCEPT !.at = "lock", !.kind = "asset"]
    IN  rec \in CallT /\ rec.at = "lock" /\ rec.kind = "asset" /\ rec.file = None /\ Formed(rec)'
<1> DEFINE rec == [Idle EXCEPT !.at = "lock", !.kind = "asset"]
<1>1. rec \in CallT BY DEF Idle, CallT, Steps, Recording
<1>2. rec.at = "lock" /\ rec.kind = "asset" /\ rec.file = None BY DEF Idle
<1> HIDE DEF rec
<1>3. Formed(rec)' BY <1>2 DEF Formed, Recording, Making, Changing, Reading, Deleting
<1> QED BY <1>1, <1>2, <1>3 DEF rec

LEMMA DeleteAssetShape ==
    ASSUME Types, NEW c \in Callers, NEW n \in Names, DeleteAsset(c, n)
    PROVE  /\ Shaped(c) /\ call[c] = Idle /\ page # None
           /\ ~disturbed' => ~disturbed /\ \A d \in Callers : call[d] = Idle
           /\ UNCHANGED <<page, revs, blobs, files, manifests, cache, lock, crashed, restored>>
           /\ call'[c].at = "lock" /\ call'[c].kind = "asset" /\ call'[c].file = None
           /\ n \in DOMAIN live /\ live' = Without(n, live)
           /\ \A d \in Callers : d # c /\ call[d].kind = "asset" => call'[d].file # live[n]
           /\ acked' \subseteq acked
           /\ (\E d \in Callers : d # c /\ call[d].kind = "asset") => acked' = acked \ {live[n]}
<1> DEFINE rec == [Idle EXCEPT !.at = "lock", !.kind = "asset"]
<1>1. /\ AssetCall(c) /\ n \in DOMAIN live /\ live' = Without(n, live) /\ Sweep(c, {live[n]}, rec)
    BY DEF DeleteAsset
<1>2. rec \in CallT /\ rec.at = "lock" /\ rec.kind = "asset" /\ rec.file = None /\ Formed(rec)' BY ToTheLock
<1> HIDE DEF rec
<1>3. live \in Manifests BY DEF Types, Shapes
<1>4. None \notin {live[n]} BY <1>1, <1>3, ManifestIsFunction, Given
<1>5. /\ Moves(c) /\ call'[c] = rec
      /\ \A d \in Callers : d # c /\ call[d].kind = "asset" => call'[d].file \notin {live[n]}
      /\ acked' \subseteq acked
      /\ (\E d \in Callers : d # c /\ call[d].kind = "asset") => acked' = acked \ {live[n]}
    BY <1>1, <1>2, <1>4, SweepMoves
<1>6. /\ call[c] = Idle /\ page # None
      /\ disturbed' \in BOOLEAN
      /\ ~disturbed' => ~disturbed /\ \A d \in Callers : call[d] = Idle
      /\ UNCHANGED <<page, revs, blobs, files, manifests, cache, lock, crashed, restored>>
    BY <1>1, AssetCallMoves
<1>7. live' \in Manifests BY <1>1, <1>3, WithoutIsManifest
<1>8. Shapes' BY <1>5, <1>6, <1>7 DEF Types, Shapes
<1>9. Shift(c) BY <1>2, <1>5, <1>6, IdleIn DEF Shift, Holding, Making, Changing
<1>10. Formed(call[c])' BY <1>2, <1>5
<1> QED BY <1>1, <1>2, <1>5, <1>6, <1>8, <1>9, <1>10 DEF Shaped

LEMMA RenameAssetShape ==
    ASSUME Types, NEW c \in Callers, NEW n \in Names, NEW m \in Names, RenameAsset(c, n, m)
    PROVE  /\ Shaped(c) /\ StillOthers(c) /\ call[c] = Idle /\ page # None
           /\ ~disturbed' => ~disturbed /\ \A d \in Callers : call[d] = Idle
           /\ UNCHANGED <<page, revs, blobs, files, manifests, cache, lock, crashed, restored, acked>>
           /\ call'[c].at = "lock" /\ call'[c].kind = "asset" /\ call'[c].file = None
           /\ BlobsOf(live') = BlobsOf(live)
<1> DEFINE rec == [Idle EXCEPT !.at = "lock", !.kind = "asset"]
<1>1. /\ AssetCall(c) /\ n \in DOMAIN live /\ m \notin DOMAIN live
      /\ live' = Written(Named(m, live[n]), Without(n, live))
      /\ Goto(c, rec) /\ acked' = acked
    BY DEF RenameAsset
<1>2. rec \in CallT /\ rec.at = "lock" /\ rec.kind = "asset" /\ rec.file = None /\ Formed(rec)' BY ToTheLock
<1> HIDE DEF rec
<1>3. live \in Manifests BY DEF Types, Shapes
<1>5. Moves(c) /\ StillOthers(c) /\ call'[c] = rec BY <1>1, <1>2, GotoMoves
<1>6. /\ call[c] = Idle /\ page # None
      /\ disturbed' \in BOOLEAN
      /\ ~disturbed' => ~disturbed /\ \A d \in Callers : call[d] = Idle
      /\ UNCHANGED <<page, revs, blobs, files, manifests, cache, lock, crashed, restored>>
    BY <1>1, AssetCallMoves
<1>7. live' \in Manifests
    <2>1. live[n] \in Files BY <1>1, <1>3, ManifestIsFunction
    <2> QED BY <2>1, <1>1, <1>3, NamedIsManifest, WithoutIsManifest, WrittenIsManifest
<1>8. Shapes' BY <1>1, <1>6, <1>7 DEF Types, Shapes
<1>9. Shift(c) BY <1>2, <1>5, <1>6, IdleIn DEF Shift, Holding, Making, Changing
<1>10. Formed(call[c])' BY <1>2, <1>5
<1>11. BlobsOf(live') = BlobsOf(live) BY <1>1, RenamedHas
<1> QED BY <1>1, <1>2, <1>5, <1>6, <1>8, <1>9, <1>10, <1>11 DEF Shaped

LEMMA StepMoves ==
    ASSUME Types, NEW c \in Callers, NEW rec \in CallT, Goto(c, rec)
    PROVE  Moves(c) /\ StillOthers(c) /\ call'[c] = rec /\ call[c] \in CallT /\ Formed(call[c])
BY GotoMoves DEF Types

LEMMA IdleFormed == Formed(Idle) /\ Idle.at \notin Holding
BY IdleIn DEF Formed, Recording, Making, Changing, Reading, Deleting, Holding

\* A request that ends.
Ends(c) == call'[c] = Idle

LEMMA EndsShape ==
    ASSUME Types, NEW c \in Callers, Ends(c)
    PROVE  Formed(call[c])' /\ call'[c].at = "idle" /\ call'[c].at \notin Holding
              /\ call'[c].kind = "none" /\ call'[c].file = None
BY IdleIn DEF Ends, Formed, Recording, Making, Changing, Reading, Deleting, Holding

LEMMA SaveWriteShape ==
    ASSUME Types, NEW c \in Callers, SaveWrite(c)
    PROVE  /\ Shaped(c) /\ StillOthers(c) /\ call[c].at = "write"
           /\ UNCHANGED <<live, revs, blobs, files, manifests, cache, lock, disturbed, crashed, restored, acked>>
           /\ \/ Ends(c) /\ page' = page
              \/ /\ page # None /\ page' # None
                 /\ call'[c].at = "effect" /\ call'[c].kind = "none" /\ call'[c].file = None
                 /\ call'[c].old = call[c].old
<1>1. call[c].at = "write" /\ call[c] \in CallT /\ Formed(call[c]) BY DEF SaveWrite, Types
<1>2. UNCHANGED <<live, revs, blobs, files, manifests, cache, lock, disturbed, crashed, restored, acked>>
    BY DEF SaveWrite, store, history
<1>3. call[c].at \notin Holding BY <1>1 DEF Holding, Making, Changing
<1>4. CASE page # None /\ page.ver = call[c].old.ver
    <2> DEFINE rec == [Idle EXCEPT !.at = "effect", !.old = call[c].old]
    <2>1. /\ Goto(c, rec)
          /\ page' = [body |-> call[c].body, extra |-> call[c].extra,
                      title |-> call[c].title, ver |-> page.ver + 1]
        BY <1>4 DEF SaveWrite
    <2>2. /\ call[c].body \in Bodies /\ call[c].extra \in Extras /\ call[c].title \in Titles
          /\ call[c].old \in States
        BY <1>1 DEF Formed
    <2>3. page.ver \in Nat BY <1>4 DEF Types, Shapes, States
    <2>4. page' \in States /\ page' # None BY <2>1, <2>2, <2>3, Given DEF States
    <2>5. rec \in CallT BY <2>2 DEF Idle, CallT, Steps
    <2>6. rec.at = "effect" /\ rec.old = call[c].old /\ rec.kind = "none" /\ rec.file = None BY DEF Idle
    <2> HIDE DEF rec
    <2>7. Moves(c) /\ StillOthers(c) /\ call'[c] = rec BY <2>1, <2>5, StepMoves
    <2>8. Formed(call[c])'
        BY <2>2, <2>6, <2>7 DEF Formed, Recording, Making, Changing, Reading, Deleting
    <2>9. Shapes' BY <1>2, <2>4 DEF Types, Shapes
    <2>10. call'[c].at \notin Holding BY <2>6, <2>7 DEF Holding, Making, Changing
    <2> QED BY <1>1, <1>2, <1>3, <1>4, <2>4, <2>6, <2>7, <2>8, <2>9, <2>10 DEF Shaped, Shift
<1>5. CASE ~(page # None /\ page.ver = call[c].old.ver)
    <2>1. Goto(c, Idle) /\ page' = page BY <1>5 DEF SaveWrite, Return
    <2>2. Moves(c) /\ StillOthers(c) /\ Ends(c) BY <2>1, IdleIn, StepMoves DEF Ends
    <2>3. Shapes' BY <1>2, <2>1 DEF Types, Shapes
    <2> QED BY <1>1, <1>2, <1>3, <2>1, <2>2, <2>3, EndsShape DEF Shaped, Shift
<1> QED BY <1>4, <1>5

LEMMA SaveEffectShape ==
    ASSUME Types, NEW c \in Callers, SaveEffect(c)
    PROVE  /\ Shaped(c) /\ StillOthers(c) /\ call[c].at = "effect"
           /\ UNCHANGED <<page, live, revs, blobs, files, manifests, cache, lock, disturbed, crashed, restored, acked>>
           /\ \/ Ends(c) /\ (page = None \/ (call[c].old.body = page.body /\ call[c].old.title = page.title))
              \/ /\ page # None /\ call[c].old.body # page.body
                 /\ call'[c].at = "content" /\ call'[c].kind = "none" /\ call'[c].file = None
              \/ /\ page # None /\ call[c].old.body = page.body
                 /\ call'[c].at = "lock" /\ call'[c].kind = "structure" /\ call'[c].file = None
<1>1. call[c].at = "effect" /\ call[c] \in CallT /\ Formed(call[c]) BY DEF SaveEffect, Types
<1>2. UNCHANGED <<page, live, revs, blobs, files, manifests, cache, lock, disturbed, crashed, restored, acked>>
    BY DEF SaveEffect, store, history
<1>3. call[c].at \notin Holding BY <1>1 DEF Holding, Making, Changing
<1>4. Shapes' BY <1>2 DEF Types, Shapes
<1>5. CASE page = None \/ (~ContentChanged(call[c].old) /\ call[c].old.title = page.title)
    <2>1. Goto(c, Idle) BY <1>5 DEF SaveEffect, Return
    <2>2. Moves(c) /\ StillOthers(c) /\ Ends(c) BY <2>1, IdleIn, StepMoves DEF Ends
    <2> QED BY <1>1, <1>2, <1>3, <1>4, <1>5, <2>2, EndsShape DEF Shaped, Shift, ContentChanged
<1>6. CASE page # None /\ ContentChanged(call[c].old)
    <2> DEFINE rec == [Idle EXCEPT !.at = "content"]
    <2>1. Goto(c, rec) BY <1>6 DEF SaveEffect
    <2>2. rec \in CallT BY DEF Idle, CallT, Steps
    <2>3. rec.at = "content" /\ rec.kind = "none" /\ rec.file = None BY DEF Idle
    <2> HIDE DEF rec
    <2>4. Moves(c) /\ StillOthers(c) /\ call'[c] = rec BY <2>1, <2>2, StepMoves
    <2>5. Formed(call[c])' BY <2>3, <2>4 DEF Formed, Recording, Making, Changing, Reading, Deleting
    <2>6. call'[c].at \notin Holding BY <2>3, <2>4 DEF Holding, Making, Changing
    <2> QED BY <1>1, <1>2, <1>3, <1>4, <1>6, <2>3, <2>4, <2>5, <2>6 DEF Shaped, Shift, ContentChanged
<1>7. CASE page # None /\ ~ContentChanged(call[c].old) /\ call[c].old.title # page.title
    <2> DEFINE rec == [Idle EXCEPT !.at = "lock", !.kind = "structure"]
    <2>1. Goto(c, rec) BY <1>7 DEF SaveEffect
    <2>2. rec \in CallT BY DEF Idle, CallT, Steps, Recording
    <2>3. rec.at = "lock" /\ rec.kind = "structure" /\ rec.file = None BY DEF Idle
    <2> HIDE DEF rec
    <2>4. Moves(c) /\ StillOthers(c) /\ call'[c] = rec BY <2>1, <2>2, StepMoves
    <2>5. Formed(call[c])' BY <2>3, <2>4 DEF Formed, Recording, Making, Changing, Reading, Deleting
    <2>6. call'[c].at \notin Holding BY <2>3, <2>4 DEF Holding, Making, Changing
    <2> QED BY <1>1, <1>2, <1>3, <1>4, <1>7, <2>3, <2>4, <2>5, <2>6 DEF Shaped, Shift, ContentChanged
<1> QED BY <1>5, <1>6, <1>7

LEMMA ContentReadShape ==
    ASSUME Types, NEW c \in Callers, ContentRead(c)
    PROVE  /\ Shaped(c) /\ StillOthers(c) /\ call[c].at = "content"
           /\ UNCHANGED <<page, live, revs, blobs, files, manifests, cache, lock, disturbed, crashed, restored, acked>>
           /\ \/ Ends(c) /\ page = None
              \/ /\ page # None /\ call'[c].body = page.body
                 /\ call'[c].at = "lock" /\ call'[c].kind = "content" /\ call'[c].file = None
<1>1. call[c].at = "content" /\ call[c] \in CallT /\ Formed(call[c]) BY DEF ContentRead, Types
<1>2. UNCHANGED <<page, live, revs, blobs, files, manifests, cache, lock, disturbed, crashed, restored, acked>>
    BY DEF ContentRead, store, history
<1>3. call[c].at \notin Holding BY <1>1 DEF Holding, Making, Changing
<1>4. Shapes' BY <1>2 DEF Types, Shapes
<1>5. CASE page = None
    <2>1. Goto(c, Idle) BY <1>5 DEF ContentRead, Return
    <2>2. Moves(c) /\ StillOthers(c) /\ Ends(c) BY <2>1, IdleIn, StepMoves DEF Ends
    <2> QED BY <1>1, <1>2, <1>3, <1>4, <1>5, <2>2, EndsShape DEF Shaped, Shift
<1>6. CASE page # None
    <2> DEFINE rec == [Idle EXCEPT !.at = "lock", !.kind = "content", !.body = page.body]
    <2>1. Goto(c, rec) BY <1>6 DEF ContentRead
    <2>a. page.body \in Bodies BY <1>6 DEF Types, Shapes, States
    <2>2. rec \in CallT BY <2>a DEF Idle, CallT, Steps, Recording
    <2>3. rec.at = "lock" /\ rec.kind = "content" /\ rec.file = None /\ rec.body = page.body BY DEF Idle
    <2> HIDE DEF rec
    <2>4. Moves(c) /\ StillOthers(c) /\ call'[c] = rec BY <2>1, <2>2, StepMoves
    <2>5. Formed(call[c])' BY <2>a, <2>3, <2>4 DEF Formed, Recording, Making, Changing, Reading, Deleting
    <2>6. call'[c].at \notin Holding BY <2>3, <2>4 DEF Holding, Making, Changing
    <2> QED BY <1>1, <1>2, <1>3, <1>4, <1>6, <2>3, <2>4, <2>5, <2>6 DEF Shaped, Shift
<1> QED BY <1>5, <1>6

LEMMA AcksShape ==
    ASSUME Types, NEW c \in Callers, Acks(c)
    PROVE  acked' \subseteq Files /\ acked' = acked \union ({call[c].file} \ {None})
<1>1. call[c].file \in Files \union {None} BY CallIn DEF Types
<1> QED BY <1>1 DEF Acks, Types, Shapes

LEMMA AcquireShape ==
    ASSUME Types, NEW c \in Callers, Acquire(c)
    PROVE  /\ Shaped(c) /\ StillOthers(c) /\ call[c].at = "lock" /\ lock = None
           /\ UNCHANGED <<page, live, revs, blobs, files, manifests, cache, disturbed, crashed, restored>>
           /\ \/ /\ Ends(c) /\ acked' = acked \union ({call[c].file} \ {None})
                 /\ \/ page = None
                    \/ /\ page # None /\ call[c].kind # "structure" /\ revs # <<>>
                       /\ Newest.body = IF call[c].kind = "content" THEN call[c].body ELSE page.body
                       /\ call[c].kind = "asset" => Newest.assets = live
              \/ /\ acked' = acked /\ page # None
                 /\ call'[c].at = "blob" /\ call'[c].kind = call[c].kind /\ call'[c].file = call[c].file
                 /\ call'[c].rev = Latest /\ call'[c].title = page.title
                 /\ call'[c].body = IF call[c].kind = "content" THEN call[c].body ELSE page.body
                 /\ call'[c].kind = "asset" => call'[c].assets = live
<1> DEFINE s == Captured(c)
<1>1. call[c].at = "lock" /\ lock = None /\ call[c] \in CallT /\ Formed(call[c]) BY DEF Acquire, Types
<1>2. UNCHANGED <<page, live, revs, blobs, files, manifests, cache, disturbed, crashed, restored>>
    BY DEF Acquire, store
<1>3. call[c].at \notin Holding BY <1>1 DEF Holding, Making, Changing
<1>4. call[c].kind \in {"content", "structure", "asset"} BY <1>1, CallIn DEF Formed, Recording
<1>5. /\ s.at = "blob" /\ s.kind = call[c].kind /\ s.file = call[c].file /\ s.rev = Latest
      /\ s.extra = page.extra /\ s.title = page.title
      /\ s.body = IF call[c].kind = "content" THEN call[c].body ELSE page.body
      /\ s.assets = IF call[c].kind = "asset" THEN live ELSE None
    BY <1>1 DEF Captured, CallT
<1>6. Latest \in RevT \union {None} BY RevisionIn DEF Latest, Newest, Types, Shapes
<1>7. CASE page = None \/ Unchanged(s)
    <2>1. Goto(c, Idle) /\ Acks(c) /\ lock' = lock BY <1>7 DEF Acquire, Return
    <2>2. Moves(c) /\ StillOthers(c) /\ Ends(c) BY <2>1, IdleIn, StepMoves DEF Ends
    <2>3. acked' \subseteq Files /\ acked' = acked \union ({call[c].file} \ {None}) BY <2>1, AcksShape
    <2>4. Shapes' BY <1>2, <2>1, <2>3 DEF Types, Shapes
    <2>5. CASE page = None
        BY <1>1, <1>2, <1>3, <2>1, <2>2, <2>3, <2>4, <2>5, EndsShape DEF Shaped, Shift
    <2>6. CASE page # None
        <3> HIDE DEF s
        <3>1. Unchanged(s) BY <1>7, <2>6
        <3>2. s.rev # None /\ s.rev = Latest BY <3>1, <1>5 DEF Unchanged
        <3>3. revs # <<>> /\ s.rev = Newest BY <3>2 DEF Latest
        <3>4. /\ call[c].kind # "structure" /\ Newest.body = s.body
              /\ call[c].kind = "asset" => Newest.assets = live
            BY <3>1, <3>3, <1>4, <1>5 DEF Unchanged
        <3> QED BY <1>1, <1>2, <1>3, <1>5, <2>1, <2>2, <2>3, <2>4, <2>6, <3>3, <3>4, EndsShape DEF Shaped, Shift
    <2> QED BY <2>5, <2>6
<1>8. CASE page # None /\ ~Unchanged(s)
    <2>1. PICK k \in BOOLEAN : (k => MayCoalesce(c, s)) /\ Goto(c, [s EXCEPT !.coalesce = k])
        BY <1>8 DEF Acquire
    <2>2. lock' = c /\ acked' = acked BY <1>8 DEF Acquire
    <2> DEFINE rec == [s EXCEPT !.coalesce = k]
    <2>3. page.body \in Bodies /\ page.extra \in Extras /\ page.title \in Titles /\ live \in Manifests
        BY <1>8 DEF Types, Shapes, States
    <2>4. s \in CallT
        <3>1. call[c].kind = "content" => call[c].body \in Bodies BY <1>1 DEF Formed
        <3> DEFINE b == IF call[c].kind = "content" THEN call[c].body ELSE page.body
                   a == IF call[c].kind = "asset" THEN live ELSE None
        <3>2. b \in Bodies \union {None} /\ a \in Manifests \union {None} BY <2>3, <3>1
        <3>3. "blob" \in Steps BY DEF Steps, Recording, Making
        <3>4. s = [call[c] EXCEPT !.at = "blob", !.rev = Latest, !.extra = page.extra,
                                  !.title = page.title, !.body = b, !.assets = a]
            BY <1>1 DEF Captured, CallT
        <3> HIDE DEF a, b, s
        <3> QED BY <1>1, <1>6, <2>3, <3>2, <3>3, <3>4 DEF CallT
    <2>5. rec \in CallT BY <2>4 DEF CallT
    <2>6. /\ rec.at = "blob" /\ rec.kind = call[c].kind /\ rec.file = call[c].file /\ rec.rev = Latest
          /\ rec.extra = page.extra /\ rec.title = page.title
          /\ rec.body = IF call[c].kind = "content" THEN call[c].body ELSE page.body
          /\ rec.assets = IF call[c].kind = "asset" THEN live ELSE None
          /\ rec.coalesce = k
        BY <1>5, <2>4 DEF CallT
    <2>7. rec.coalesce => rec.rev # None
        <3> HIDE DEF s
        <3>1. k => s.rev # None BY <2>1 DEF MayCoalesce
        <3> QED BY <3>1, <2>6, <1>5
    <2> HIDE DEF rec, s
    <2>8. Moves(c) /\ StillOthers(c) /\ call'[c] = rec BY <2>1, <2>5, StepMoves DEF rec
    <2>9. rec.body \in Bodies
        <3>1. call[c].kind = "content" => call[c].body \in Bodies BY <1>1 DEF Formed
        <3> QED BY <3>1, <2>3, <2>6
    <2>10. Formed(call[c])'
        BY <1>4, <2>3, <2>6, <2>7, <2>8, <2>9 DEF Formed, Recording, Making, Changing, Reading, Deleting
    <2>11. Shapes' BY <1>2, <2>2 DEF Types, Shapes
    <2>12. call'[c].at \in Holding BY <2>6, <2>8 DEF Holding, Making
    <2>13. Shaped(c) BY <1>1, <1>2, <2>2, <2>8, <2>10, <2>11, <2>12 DEF Shaped, Shift
    <2> QED BY <1>1, <1>2, <1>8, <2>2, <2>6, <2>8, <2>13
<1> QED BY <1>7, <1>8

\* A call that only moves to its next step.
Steady(c, a) ==
    /\ call'[c].at = a /\ call'[c].kind = call[c].kind /\ call'[c].file = call[c].file
    /\ call'[c].rev = call[c].rev /\ call'[c].old = call[c].old /\ call'[c].body = call[c].body
    /\ call'[c].extra = call[c].extra /\ call'[c].title = call[c].title
    /\ call'[c].coalesce <=> call[c].coalesce

LEMMA SteadyMoves ==
    ASSUME Types, NEW c \in Callers, NEW a \in Steps, Goto(c, [call[c] EXCEPT !.at = a])
    PROVE  Moves(c) /\ StillOthers(c) /\ Steady(c, a) /\ call'[c].assets = call[c].assets
<1> DEFINE rec == [call[c] EXCEPT !.at = a]
<1>1. call[c] \in CallT BY DEF Types
<1>2. /\ rec \in CallT /\ rec.at = a /\ rec.kind = call[c].kind /\ rec.file = call[c].file
      /\ rec.rev = call[c].rev /\ rec.old = call[c].old /\ rec.body = call[c].body
      /\ rec.extra = call[c].extra /\ rec.title = call[c].title /\ rec.assets = call[c].assets
      /\ rec.coalesce <=> call[c].coalesce
    BY <1>1 DEF CallT
<1> HIDE DEF rec
<1>3. Moves(c) /\ StillOthers(c) /\ call'[c] = rec BY <1>2, GotoMoves DEF rec
<1> QED BY <1>2, <1>3 DEF Steady

LEMMA SaveBlobShape ==
    ASSUME Types, NEW c \in Callers, SaveBlob(c)
    PROVE  /\ Shaped(c) /\ StillOthers(c) /\ call[c].at = "blob"
           /\ Steady(c, IF call[c].kind = "asset" THEN "persist" ELSE "manifest")
           /\ call'[c].assets = call[c].assets
           /\ blobs' = blobs \union {call[c].body}
           /\ UNCHANGED <<page, live, revs, files, manifests, cache, lock, disturbed, crashed, restored, acked>>
<1> DEFINE a == IF call[c].kind = "asset" THEN "persist" ELSE "manifest"
<1>1. call[c].at = "blob" /\ call[c] \in CallT /\ Formed(call[c]) BY DEF SaveBlob, Types
<1>2. /\ UNCHANGED <<page, live, revs, files, manifests, cache, lock, disturbed, crashed, restored, acked>>
      /\ blobs' = blobs \union {call[c].body}
    BY DEF SaveBlob, history
<1>3. a \in Steps /\ a \in Making BY DEF Steps, Recording, Making
<1>4. Goto(c, [call[c] EXCEPT !.at = a]) BY DEF SaveBlob
<1>5. Moves(c) /\ StillOthers(c) /\ Steady(c, a) /\ call'[c].assets = call[c].assets
    BY <1>3, <1>4, SteadyMoves
<1>6. call[c].body \in Bodies BY <1>1 DEF Formed, Making
<1>7. Shapes' BY <1>2, <1>6 DEF Types, Shapes
<1>8. call[c].at \in Holding /\ call'[c].at \in Holding BY <1>1, <1>5 DEF Steady, Holding, Making
<1>9. Formed(call[c])'
    <2>1. CASE call[c].kind = "asset"
        BY <1>1, <1>5, <2>1 DEF Steady, Formed, Recording, Making, Changing, Reading, Deleting
    <2>2. CASE call[c].kind # "asset"
        BY <1>1, <1>5, <2>2 DEF Steady, Formed, Recording, Making, Changing, Reading, Deleting
    <2> QED BY <2>1, <2>2
<1> QED BY <1>1, <1>2, <1>5, <1>7, <1>8, <1>9 DEF Shaped, Shift

LEMMA ResolveManifestShape ==
    ASSUME Types, NEW c \in Callers, ResolveManifest(c)
    PROVE  /\ Shaped(c) /\ StillOthers(c) /\ call[c].at = "manifest" /\ call[c].kind # "asset"
           /\ UNCHANGED <<page, live, revs, blobs, files, manifests, lock, disturbed, crashed, restored, acked>>
           /\ \/ /\ cache' \in Manifests /\ Steady(c, "revise") /\ call'[c].assets = cache'
                 /\ \/ cache # None /\ cache' = cache
                    \/ cache = None /\ call[c].rev # None /\ cache' = call[c].rev.assets
              \/ cache' = cache /\ cache = None /\ Steady(c, "persist") /\ call'[c].assets = live
<1>1. call[c].at = "manifest" /\ call[c] \in CallT /\ Formed(call[c]) /\ call[c].kind # "asset"
    BY DEF ResolveManifest, Types, Formed
<1>2. UNCHANGED <<page, live, revs, blobs, files, manifests, lock, disturbed, crashed, restored, acked>>
    BY DEF ResolveManifest, history
<1> DEFINE m == IF cache # None THEN cache ELSE IF call[c].rev # None THEN call[c].rev.assets ELSE None
<1>3. m \in Manifests \union {None}
    <2>1. call[c].rev # None => call[c].rev \in RevT BY <1>1, CallIn
    <2> QED BY <2>1 DEF RevT, Types, Shapes
<1>4. call[c].at \in Holding BY <1>1 DEF Holding, Making
<1>7. "revise" \in Steps /\ "persist" \in Steps BY DEF Steps, Recording, Making
<1>5. CASE m # None
    <2> DEFINE rec == [call[c] EXCEPT !.at = "revise", !.assets = m]
    <2>1. cache' = m /\ Goto(c, rec) BY <1>5 DEF ResolveManifest
    <2>2. m \in Manifests BY <1>3, <1>5
    <2>3. cache' \in Manifests /\ (\/ cache # None /\ cache' = cache
                                   \/ cache = None /\ call[c].rev # None /\ cache' = call[c].rev.assets)
        BY <1>5, <2>1, <2>2
    <2>a. m = cache' BY <2>1
    <2> HIDE DEF m
    <2>b. rec = Taking(call[c], "revise", m) BY DEF Taking
    <2> HIDE DEF rec
    <2>4. /\ rec \in CallT /\ rec.at = "revise" /\ rec.kind = call[c].kind /\ rec.file = call[c].file
          /\ rec.rev = call[c].rev /\ rec.old = call[c].old /\ rec.body = call[c].body
          /\ rec.extra = call[c].extra /\ rec.title = call[c].title /\ rec.assets = m
          /\ rec.coalesce <=> call[c].coalesce
        <3>1. call[c] \in CallT /\ "revise" \in Steps /\ m \in Manifests BY <1>1, <1>7, <2>2
        <3>2. rec \in CallT /\ (rec.coalesce <=> call[c].coalesce) BY <3>1, <2>b, TakesManifest, Zenon
        <3>3. /\ rec.at = "revise" /\ rec.kind = call[c].kind /\ rec.file = call[c].file /\ rec.rev = call[c].rev
              /\ rec.old = call[c].old /\ rec.body = call[c].body /\ rec.extra = call[c].extra
              /\ rec.title = call[c].title /\ rec.assets = m
          BY ONLY <3>1, <2>b DEF CallT, Taking
        <3> QED BY <3>2, <3>3, Zenon
    <2>5. Moves(c) /\ StillOthers(c) /\ call'[c] = rec BY <2>1, <2>4, GotoMoves
    <2>6. Steady(c, "revise") /\ call'[c].assets = cache' BY <2>4, <2>5, <2>a DEF Steady
    <2>7. Formed(call[c])'
        BY <1>1, <2>3, <2>6 DEF Steady, Formed, Recording, Making, Changing, Reading, Deleting
    <2>8. Shapes' BY <1>2, <2>3 DEF Types, Shapes
    <2>9. call'[c].at \in Holding BY <2>6 DEF Steady, Holding, Making
    <2> QED BY <1>1, <1>2, <1>4, <2>3, <2>5, <2>6, <2>7, <2>8, <2>9 DEF Shaped, Shift
<1>6. CASE m = None
    <2> DEFINE rec == [call[c] EXCEPT !.at = "persist", !.assets = live]
    <2>1. cache' = cache /\ Goto(c, rec) BY <1>6 DEF ResolveManifest
    <2>2. cache = None BY <1>6
    <2> HIDE DEF m
    <2>3. live \in Manifests BY DEF Types, Shapes
    <2>b. rec = Taking(call[c], "persist", live) BY DEF Taking
    <2> HIDE DEF rec
    <2>4. /\ rec \in CallT /\ rec.at = "persist" /\ rec.kind = call[c].kind /\ rec.file = call[c].file
          /\ rec.rev = call[c].rev /\ rec.old = call[c].old /\ rec.body = call[c].body
          /\ rec.extra = call[c].extra /\ rec.title = call[c].title /\ rec.assets = live
          /\ rec.coalesce <=> call[c].coalesce
        <3>1. call[c] \in CallT /\ "persist" \in Steps /\ live \in Manifests BY <1>1, <1>7, <2>3
        <3>2. rec \in CallT /\ (rec.coalesce <=> call[c].coalesce) BY <3>1, <2>b, TakesManifest, Zenon
        <3>3. /\ rec.at = "persist" /\ rec.kind = call[c].kind /\ rec.file = call[c].file /\ rec.rev = call[c].rev
              /\ rec.old = call[c].old /\ rec.body = call[c].body /\ rec.extra = call[c].extra
              /\ rec.title = call[c].title /\ rec.assets = live
          BY ONLY <3>1, <2>b DEF CallT, Taking
        <3> QED BY <3>2, <3>3, Zenon
    <2>5. Moves(c) /\ StillOthers(c) /\ call'[c] = rec BY <2>1, <2>4, GotoMoves
    <2>6. Steady(c, "persist") /\ call'[c].assets = live BY <2>4, <2>5 DEF Steady
    <2>7. Formed(call[c])'
        BY <1>1, <2>3, <2>6 DEF Steady, Formed, Recording, Making, Changing, Reading, Deleting
    <2>8. Shapes' BY <1>2, <2>1 DEF Types, Shapes
    <2>9. call'[c].at \in Holding BY <2>6 DEF Steady, Holding, Making
    <2> QED BY <1>1, <1>2, <1>4, <2>1, <2>2, <2>5, <2>6, <2>7, <2>8, <2>9 DEF Shaped, Shift
<1> QED BY <1>5, <1>6

LEMMA PersistShape ==
    ASSUME Types, Locking, NEW c \in Callers, Persist(c)
    PROVE  /\ Shaped(c) /\ StillOthers(c) /\ call[c].at = "persist" /\ call[c].assets \in Manifests
           /\ UNCHANGED <<page, live, revs, blobs, disturbed, crashed>>
           /\ \/ /\ Same(call[c].assets)
                 /\ files' = files \union BlobsOf(call[c].assets)
                 /\ manifests' = manifests \union {call[c].assets}
                 /\ cache' = call[c].assets /\ restored' = FALSE
                 /\ Steady(c, "revise") /\ call'[c].assets = call[c].assets
                 /\ acked' = acked
              \/ /\ ~Same(call[c].assets) /\ Ends(c)
                 /\ UNCHANGED <<files, manifests, cache, restored>>
                 /\ acked' = acked \union ({call[c].file} \ {None})
<1>1. /\ call[c].at = "persist" /\ call[c] \in CallT /\ Formed(call[c])
      /\ call[c].assets \in Manifests /\ call[c].at \in Holding
    BY DEF Persist, Types, Formed, Holding, Making
<1>2. UNCHANGED <<page, live, revs, blobs, disturbed, crashed>> BY DEF Persist
<1>3. lock = c BY <1>1 DEF Locking
<1>4. CASE Same(call[c].assets)
    <2>1. /\ files' = files \union BlobsOf(call[c].assets) /\ manifests' = manifests \union {call[c].assets}
          /\ cache' = call[c].assets /\ restored' = FALSE
          /\ Goto(c, [call[c] EXCEPT !.at = "revise"]) /\ lock' = lock /\ acked' = acked
        BY <1>4 DEF Persist, Same
    <2>2. Moves(c) /\ StillOthers(c) /\ Steady(c, "revise") /\ call'[c].assets = call[c].assets
        BY <2>1, SteadyMoves DEF Steps, Recording, Making
    <2>3. Formed(call[c])'
        BY <1>1, <2>2 DEF Steady, Formed, Recording, Making, Changing, Reading, Deleting
    <2>4. Shapes' BY <1>1, <1>2, <2>1, ManifestIsFunction DEF Types, Shapes
    <2>5. call'[c].at \in Holding BY <2>2 DEF Steady, Holding, Making
    <2> QED BY <1>1, <1>2, <1>4, <2>1, <2>2, <2>3, <2>4, <2>5 DEF Shaped, Shift
<1>5. CASE ~Same(call[c].assets)
    <2>1. Goto(c, Idle) /\ lock' = None /\ Acks(c) /\ UNCHANGED <<files, manifests, cache, restored>>
        BY <1>5 DEF Persist, Same, Release, Return
    <2>2. Moves(c) /\ StillOthers(c) /\ Ends(c) BY <2>1, IdleIn, StepMoves DEF Ends
    <2>3. acked' \subseteq Files /\ acked' = acked \union ({call[c].file} \ {None}) BY <2>1, AcksShape
    <2>4. Shapes' BY <1>2, <2>1, <2>3 DEF Types, Shapes
    <2> QED BY <1>1, <1>2, <1>3, <1>5, <2>1, <2>2, <2>3, <2>4, EndsShape DEF Shaped, Shift
<1> QED BY <1>4, <1>5

LEMMA ReviseShape ==
    ASSUME Types, Locking, NEW c \in Callers, Revise(c)
    PROVE  /\ Shaped(c) /\ StillOthers(c) /\ call[c].at = "revise"
           /\ UNCHANGED <<page, live, blobs, files, manifests, cache, disturbed, crashed, restored, acked>>
           /\ \/ /\ Steady(c, "tidy") /\ revs' # <<>>
                 /\ Newest'.body = call[c].body /\ Newest'.title = call[c].title
                 /\ Newest'.assets = call[c].assets
                 /\ \A i \in DOMAIN revs' : \/ /\ revs'[i].body = call[c].body
                                               /\ revs'[i].assets = call[c].assets
                                            \/ \E j \in DOMAIN revs : revs'[i] = revs[j]
              \/ Ends(c) /\ revs' = revs /\ call[c].coalesce /\ call[c].rev.id \notin Ids
<1> DEFINE k == call[c]
<1>1. /\ k.at = "revise" /\ k \in CallT /\ Formed(k)
      /\ k.assets \in Manifests /\ k.at \in Holding
      /\ k.body \in Bodies /\ k.extra \in Extras /\ k.title \in Titles
    BY DEF Revise, Types, Formed, Holding, Making
<1>2. UNCHANGED <<page, live, blobs, files, manifests, cache, disturbed, crashed, restored, acked>>
    BY DEF Revise, history
<1>3. lock = c /\ revs \in Seq(RevT) BY <1>1 DEF Locking, Types, Shapes
<1>4. k.kind \in {"content", "structure", "asset"} BY <1>1, CallIn DEF Formed, Recording, Making
<1> DEFINE r == NewRev(c, k)
<1>5. r \in RevT BY <1>1, <1>3, <1>4, NewRevIsRevision
<1>6. r.body = k.body /\ r.title = k.title /\ r.assets = k.assets BY DEF NewRev
<1>7. ASSUME Goto(c, [k EXCEPT !.at = "tidy"]), lock' = lock, revs' \in Seq(RevT)
      PROVE  Shaped(c) /\ StillOthers(c) /\ Steady(c, "tidy")
    <2>1. Moves(c) /\ StillOthers(c) /\ Steady(c, "tidy") /\ call'[c].assets = k.assets
        BY <1>7, SteadyMoves DEF Steps, Recording, Making
    <2>2. Formed(call[c])'
        BY <1>1, <2>1 DEF Steady, Formed, Recording, Making, Changing, Reading, Deleting
    <2>3. Shapes' BY <1>2, <1>7 DEF Types, Shapes
    <2>4. call'[c].at \in Holding BY <2>1 DEF Steady, Holding, Making
    <2> QED BY <1>1, <1>2, <1>7, <2>1, <2>2, <2>3, <2>4 DEF Shaped, Shift
<1>8. CASE ~k.coalesce
    <2>1. revs' = Append(revs, r) /\ Goto(c, [k EXCEPT !.at = "tidy"]) /\ lock' = lock
        BY <1>8 DEF Revise
    <2> HIDE DEF r
    <2>2. /\ revs' \in Seq(RevT) /\ revs' # <<>> /\ revs'[Len(revs')] = r
          /\ \A i \in DOMAIN revs' : revs'[i] = r \/ \E j \in DOMAIN revs : revs'[i] = revs[j]
        BY <1>3, <1>5, <2>1, AppendIsHistory
    <2>3. Shaped(c) /\ StillOthers(c) /\ Steady(c, "tidy") BY <1>7, <2>1, <2>2
    <2> QED BY <1>1, <1>2, <1>6, <2>2, <2>3 DEF Newest
<1>9. CASE k.coalesce /\ k.rev.id \in Ids
    <2> DEFINE q == [r EXCEPT !.id = k.rev.id]
    <2>1. revs' = [revs EXCEPT ![Len(revs)] = q] /\ Goto(c, [k EXCEPT !.at = "tidy"]) /\ lock' = lock
        BY <1>9 DEF Revise
    <2>2. revs # <<>> BY <1>9 DEF Ids
    <2>3. k.rev.id \in Nat BY <1>3, <1>9, RevisionIn DEF Ids, RevT
    <2> HIDE DEF r
    <2>4. q \in RevT /\ q.body = k.body /\ q.title = k.title /\ q.assets = k.assets
        BY <1>5, <1>6, <2>3 DEF RevT
    <2> HIDE DEF q
    <2>5. /\ revs' \in Seq(RevT) /\ revs' # <<>> /\ revs'[Len(revs')] = q
          /\ \A i \in DOMAIN revs' : revs'[i] = q \/ \E j \in DOMAIN revs : revs'[i] = revs[j]
        BY <1>3, <2>1, <2>2, <2>4, ReplaceIsHistory
    <2>6. Shaped(c) /\ StillOthers(c) /\ Steady(c, "tidy") BY <1>7, <2>1, <2>5
    <2> QED BY <1>1, <1>2, <2>4, <2>5, <2>6 DEF Newest
<1>10. CASE k.coalesce /\ k.rev.id \notin Ids
    <2>1. Goto(c, Idle) /\ lock' = None /\ revs' = revs BY <1>10 DEF Revise, Release, Return
    <2>2. Moves(c) /\ StillOthers(c) /\ Ends(c) BY <2>1, IdleIn, StepMoves DEF Ends
    <2>3. Shapes' BY <1>2, <2>1 DEF Types, Shapes
    <2> QED BY <1>1, <1>2, <1>3, <1>10, <2>1, <2>2, <2>3, EndsShape DEF Shaped, Shift
<1> QED BY <1>8, <1>9, <1>10

LEMMA TidyShape ==
    ASSUME Types, Locking, NEW c \in Callers, Tidy(c)
    PROVE  /\ Shaped(c) /\ StillOthers(c) /\ call[c].at = "tidy" /\ Ends(c)
           /\ UNCHANGED <<page, live, files, manifests, cache, disturbed, crashed, restored>>
           /\ acked' = acked \union ({call[c].file} \ {None})
           /\ revs # <<>> => revs' # <<>> /\ Newest' = Newest
           /\ \A i \in DOMAIN revs' : \E j \in DOMAIN revs : revs'[i] = revs[j]
           /\ \A i \in DOMAIN revs' : revs'[i].body \in blobs => revs'[i].body \in blobs'
<1>1. call[c].at = "tidy" /\ call[c].at \in Holding BY DEF Tidy, Holding, Making
<1>2. UNCHANGED <<page, live, files, manifests, cache, disturbed, crashed, restored>> BY DEF Tidy
<1>3. lock = c /\ revs \in Seq(RevT) BY <1>1 DEF Locking, Types, Shapes
<1>4. Goto(c, Idle) /\ lock' = None /\ Acks(c) BY DEF Tidy, Release, Return
<1>5. Moves(c) /\ StillOthers(c) /\ Ends(c) BY <1>4, IdleIn, StepMoves DEF Ends
<1>6. acked' \subseteq Files /\ acked' = acked \union ({call[c].file} \ {None}) BY <1>4, AcksShape
<1>7. ASSUME revs' \in Seq(RevT), blobs' \subseteq blobs PROVE Shaped(c)
    <2>1. Shapes' BY <1>2, <1>4, <1>6, <1>7, Given DEF Types, Shapes
    <2> QED BY <1>1, <1>2, <1>3, <1>4, <1>5, <2>1, EndsShape DEF Shaped, Shift
<1>8. CASE call[c].coalesce
    <2>1. revs' = revs /\ blobs' \subseteq blobs BY <1>8 DEF Tidy
    <2>2. \A b \in {revs[i].body : i \in DOMAIN revs} : b \in blobs => b \in blobs'
        BY <1>8 DEF Tidy, Unreferenced
    <2> QED BY <1>1, <1>2, <1>3, <1>5, <1>6, <1>7, <2>1, <2>2 DEF Newest
<1>9. CASE ~call[c].coalesce /\ (MaxRevs = 0 \/ Len(revs) <= MaxRevs)
    <2>1. revs' = revs /\ blobs' = blobs BY <1>9 DEF Tidy
    <2> QED BY <1>1, <1>2, <1>3, <1>5, <1>6, <1>7, <2>1 DEF Newest
<1>10. CASE ~call[c].coalesce /\ ~(MaxRevs = 0 \/ Len(revs) <= MaxRevs)
    <2>1. revs' = SubSeq(revs, Len(revs) - MaxRevs + 1, Len(revs)) /\ blobs' = blobs
        BY <1>10 DEF Tidy
    <2>2. MaxRevs \in Nat /\ MaxRevs # 0 /\ Len(revs) > MaxRevs BY <1>3, <1>10, Given
    <2>3. /\ revs' \in Seq(RevT) /\ revs' # <<>> /\ revs'[Len(revs')] = revs[Len(revs)]
          /\ \A i \in DOMAIN revs' : \E j \in DOMAIN revs : revs'[i] = revs[j]
        BY <1>3, <2>1, <2>2, PruneIsHistory
    <2> QED BY <1>1, <1>2, <1>3, <1>5, <1>6, <1>7, <2>1, <2>3 DEF Newest
<1> QED BY <1>8, <1>9, <1>10

LEMMA UploadWriteShape ==
    ASSUME Types, NEW c \in Callers, NEW n \in Names, UploadWrite(c, n)
    PROVE  /\ Shaped(c) /\ StillOthers(c) /\ call[c].at = "upload" /\ call[c].file \in Files
           /\ UNCHANGED <<page, revs, blobs, files, manifests, cache, lock, disturbed, crashed, restored, acked>>
           /\ call'[c].at = "lock" /\ call'[c].kind = "asset" /\ call'[c].file = call[c].file
           /\ BlobsOf(live') = BlobsOf(live) \union {call[c].file}
           /\ \A m \in DOMAIN live : m \in DOMAIN live' /\ live'[m] = live[m]
<1>1. /\ call[c].at = "upload" /\ call[c] \in CallT /\ Formed(call[c]) /\ n \notin DOMAIN live
      /\ live' = Written(Named(n, call[c].file), live)
    BY DEF UploadWrite, Types
<1>2. UNCHANGED <<page, revs, blobs, files, manifests, cache, lock, disturbed, crashed, restored, acked>>
    BY DEF UploadWrite, store, history
<1>3. call[c].file \in Files /\ live \in Manifests BY <1>1 DEF Formed, Types, Shapes
<1> DEFINE rec == [call[c] EXCEPT !.at = "lock", !.kind = "asset"]
<1>4. Goto(c, rec) BY DEF UploadWrite
<1>5. "lock" \in Steps BY DEF Steps, Recording
<1>6. rec \in CallT /\ rec.at = "lock" /\ rec.kind = "asset" /\ rec.file = call[c].file
  <2>1. rec \in CallT BY <1>1, <1>5, Zenon DEF CallT
  <2>2. rec.at = "lock" /\ rec.kind = "asset" /\ rec.file = call[c].file BY <1>1 DEF CallT
  <2> QED BY <2>1, <2>2, Zenon
<1> HIDE DEF rec
<1>7. Moves(c) /\ StillOthers(c) /\ call'[c] = rec BY <1>4, <1>6, GotoMoves
<1>8. Formed(call[c])' BY <1>6, <1>7 DEF Formed, Recording, Making, Changing, Reading, Deleting
<1>9. /\ Named(n, call[c].file) \in Manifests /\ BlobsOf(Named(n, call[c].file)) = {call[c].file}
    BY <1>3, NamedIsManifest
<1>10. live' \in Manifests BY <1>1, <1>3, <1>9, WrittenIsManifest
<1>11. DOMAIN Named(n, call[c].file) \intersect DOMAIN live = {} BY <1>1 DEF Named
<1>12. /\ BlobsOf(live') = BlobsOf(live) \union {call[c].file}
       /\ \A m \in DOMAIN live : m \in DOMAIN live' /\ live'[m] = live[m]
    BY <1>1, <1>9, <1>11, WrittenKeepsOthers
<1>13. Shapes' BY <1>2, <1>10 DEF Types, Shapes
<1>14. call[c].at \notin Holding /\ call'[c].at \notin Holding
    BY <1>1, <1>6, <1>7 DEF Holding, Making, Changing
<1> QED BY <1>1, <1>2, <1>3, <1>6, <1>7, <1>8, <1>12, <1>13, <1>14 DEF Shaped, Shift

LEMMA RestoreReadShape ==
    ASSUME Types, NEW c \in Callers, RestoreRead(c)
    PROVE  /\ Shaped(c) /\ StillOthers(c) /\ call[c].at = "r_lock"
           /\ UNCHANGED <<page, live, revs, blobs, files, manifests, cache, disturbed, crashed, restored, acked>>
           /\ \/ Ends(c)
              \/ /\ page # None /\ call'[c].old = page /\ call'[c].assets = live
                 /\ call'[c].at = "r_write" /\ call'[c].kind = "none" /\ call'[c].file = None
<1>1. call[c].at = "r_lock" /\ lock = None /\ call[c] \in CallT /\ Formed(call[c]) BY DEF RestoreRead, Types
<1>2. UNCHANGED <<page, live, revs, blobs, files, manifests, cache, disturbed, crashed, restored, acked>>
    BY DEF RestoreRead, store, history
<1>3. call[c].at \notin Holding BY <1>1 DEF Holding, Making, Changing
<1> DEFINE found == /\ call[c].id \in Ids /\ Rev(call[c].id).body \in blobs
                    /\ Rev(call[c].id).assets \in manifests /\ page # None
<1>4. CASE found
    <2> DEFINE rec == [Idle EXCEPT !.at = "r_write", !.rev = Rev(call[c].id), !.old = page, !.assets = live]
    <2>1. lock' = c /\ Goto(c, rec) BY <1>4 DEF RestoreRead
    <2>2. /\ Rev(call[c].id) \in RevT /\ page \in States /\ page # None /\ live \in Manifests
        BY <1>4, RevisionIn DEF Types, Shapes
    <2>3. "r_write" \in Steps BY DEF Steps, Changing
    <2>4. rec \in CallT BY <2>2, <2>3 DEF Idle, CallT
    <2>5. /\ rec.at = "r_write" /\ rec.kind = "none" /\ rec.file = None
          /\ rec.rev = Rev(call[c].id) /\ rec.old = page /\ rec.assets = live
        BY DEF Idle
    <2> HIDE DEF rec
    <2>6. Moves(c) /\ StillOthers(c) /\ call'[c] = rec BY <2>1, <2>4, StepMoves
    <2>7. Formed(call[c])'
        BY <2>2, <2>5, <2>6 DEF Formed, Recording, Making, Changing, Reading, Deleting
    <2>8. Shapes' BY <1>2, <2>1 DEF Types, Shapes
    <2>9. call'[c].at \in Holding BY <2>5, <2>6 DEF Holding, Changing
    <2> QED BY <1>1, <1>2, <2>1, <2>2, <2>5, <2>6, <2>7, <2>8, <2>9 DEF Shaped, Shift
<1>5. CASE ~found
    <2>1. Goto(c, Idle) /\ lock' = lock BY <1>5 DEF RestoreRead, Return
    <2>2. Moves(c) /\ StillOthers(c) /\ Ends(c) BY <2>1, IdleIn, StepMoves DEF Ends
    <2>3. Shapes' BY <1>2, <2>1 DEF Types, Shapes
    <2> QED BY <1>1, <1>2, <1>3, <2>1, <2>2, <2>3, EndsShape DEF Shaped, Shift
<1> QED BY <1>4, <1>5

LEMMA RewrittenIsPage ==
    ASSUME page \in States, NEW s, s.body \in Bodies, s.title \in Titles, s.extra \in Extras
    PROVE  /\ Rewritten(s) \in States /\ Rewritten(s) # None
           /\ Rewritten(s).body = s.body /\ Rewritten(s).title = s.title
<1> DEFINE x == IF s.extra = NoExtra THEN page.extra ELSE s.extra
<1>2. x \in Extras /\ page.ver + 1 \in Nat BY DEF States
<1>3. Rewritten(s) = [page EXCEPT !.body = s.body, !.title = s.title, !.ver = page.ver + 1, !.extra = x]
    BY DEF Rewritten, States
<1> HIDE DEF x
<1>1. /\ Rewritten(s) \in States /\ Rewritten(s).body = s.body /\ Rewritten(s).title = s.title
    BY <1>2, <1>3 DEF States
<1> QED BY <1>1, Given

\* A restore that goes to its next step while it holds the lock.
LEMMA ChangingGoes ==
    ASSUME Types, NEW c \in Callers, call[c].at \in Changing, call'[c].at \in Changing,
           Steady(c, call'[c].at), call'[c].assets = call[c].assets, lock' = lock
    PROVE  Formed(call[c])' /\ Shift(c)
<1>1. /\ call[c].old \in States /\ call[c].assets \in Manifests /\ call[c].rev \in RevT
      /\ call[c].kind = "none"
    BY DEF Types, Formed, Changing, Recording, Making
<1>2. Formed(call[c])'
    BY <1>1 DEF Steady, Formed, Changing, Recording, Making, Reading, Deleting
<1> QED BY <1>2 DEF Shift, Holding

LEMMA RestoreWriteShape ==
    ASSUME Types, Locking, NEW c \in Callers, RestoreWrite(c)
    PROVE  /\ Shaped(c) /\ StillOthers(c) /\ call[c].at = "r_write"
           /\ UNCHANGED <<live, revs, blobs, files, manifests, cache, disturbed, crashed, restored, acked>>
           /\ \/ Ends(c) /\ page = None /\ page' = None
              \/ /\ page # None /\ page' # None
                 /\ page'.body = call[c].rev.body /\ page'.title = call[c].rev.title
                 /\ Steady(c, "r_clear") /\ call'[c].assets = call[c].assets
<1>1. /\ call[c].at = "r_write" /\ call[c].at \in Changing /\ call[c].at \in Holding
      /\ call[c] \in CallT /\ Formed(call[c])
    BY DEF RestoreWrite, Types, Changing, Holding
<1>2. UNCHANGED <<live, revs, blobs, files, manifests, cache, disturbed, crashed, restored, acked>>
    BY DEF RestoreWrite, store, history
<1>3. lock = c BY <1>1 DEF Locking
<1>4. CASE page = None
    <2>1. Goto(c, Idle) /\ lock' = None /\ page' = page BY <1>4 DEF RestoreWrite, Release, Return
    <2>2. Moves(c) /\ StillOthers(c) /\ Ends(c) BY <2>1, IdleIn, StepMoves DEF Ends
    <2>3. Shapes' BY <1>2, <2>1 DEF Types, Shapes
    <2> QED BY <1>1, <1>2, <1>3, <1>4, <2>1, <2>2, <2>3, EndsShape DEF Shaped, Shift
<1>5. CASE page # None
    <2>1. /\ page' = Rewritten(call[c].rev) /\ Goto(c, [call[c] EXCEPT !.at = "r_clear"]) /\ lock' = lock
        BY <1>5 DEF RestoreWrite
    <2>2. call[c].rev \in RevT /\ page \in States BY <1>1, <1>5 DEF Formed, Types, Shapes
    <2>3. /\ page' \in States /\ page' # None
          /\ page'.body = call[c].rev.body /\ page'.title = call[c].rev.title
        BY <2>1, <2>2, RewrittenIsPage DEF RevT
    <2>4. "r_clear" \in Steps /\ "r_clear" \in Changing BY DEF Steps, Changing
    <2>5. Moves(c) /\ StillOthers(c) /\ Steady(c, "r_clear") /\ call'[c].assets = call[c].assets
        BY <2>1, <2>4, SteadyMoves
    <2>6. call'[c].at = "r_clear" BY <2>5 DEF Steady
    <2>7. Formed(call[c])' /\ Shift(c) BY <1>1, <2>1, <2>4, <2>5, <2>6, ChangingGoes
    <2>8. Shapes' BY <1>2, <2>1, <2>3 DEF Types, Shapes
    <2> QED BY <1>1, <1>2, <1>5, <2>3, <2>5, <2>7, <2>8 DEF Shaped
<1> QED BY <1>4, <1>5

\* What is left in hand and answered when the files of S are swept.
Swept(c, S) ==
    /\ \A d \in Callers : d # c /\ call[d].kind = "asset" => call'[d].file \notin S
    /\ acked' \subseteq acked
    /\ (\E d \in Callers : d # c /\ call[d].kind = "asset") => acked' = acked \ S

LEMMA ClearShape ==
    ASSUME Types, NEW c \in Callers, NEW next \in Changing, call[c].at \in Changing, Clear(c, next)
    PROVE  /\ Shaped(c) /\ live' = <<>> /\ Swept(c, BlobsOf(live))
           /\ UNCHANGED <<page, revs, blobs, files, manifests, cache, lock, disturbed, crashed, restored>>
           /\ Steady(c, next) /\ call'[c].assets = call[c].assets
<1> DEFINE rec == [call[c] EXCEPT !.at = next]
<1>1. /\ live' = <<>> /\ Sweep(c, BlobsOf(live), rec)
      /\ UNCHANGED <<page, revs, blobs, files, manifests, cache, lock, disturbed, crashed, restored>>
    BY DEF Clear, store
<1>2. call[c] \in CallT /\ next \in Steps BY DEF Types, Steps
<1>3. /\ rec \in CallT /\ rec.at = next /\ rec.kind = call[c].kind /\ rec.file = call[c].file
      /\ rec.rev = call[c].rev /\ rec.old = call[c].old /\ rec.body = call[c].body
      /\ rec.extra = call[c].extra /\ rec.title = call[c].title /\ rec.assets = call[c].assets
      /\ rec.coalesce <=> call[c].coalesce
    BY <1>2 DEF CallT
<1> HIDE DEF rec
<1>4. live \in Manifests BY DEF Types, Shapes
<1>5. None \notin BlobsOf(live) BY <1>4, ManifestIsFunction, Given
<1>6. Moves(c) /\ call'[c] = rec /\ Swept(c, BlobsOf(live))
    BY <1>1, <1>3, <1>5, SweepMoves DEF Swept
<1>7. Steady(c, next) /\ call'[c].assets = call[c].assets BY <1>3, <1>6 DEF Steady
<1>8. call'[c].at = next BY <1>3, <1>6
<1>9. Formed(call[c])' /\ Shift(c) BY <1>1, <1>7, <1>8, ChangingGoes
<1>10. Shapes' BY <1>1, <1>6, NothingIsAManifest DEF Types, Shapes, Swept
<1> QED BY <1>1, <1>6, <1>7, <1>9, <1>10 DEF Shaped

\* The error that sends a restore to its rollback.
LEMMA FailsShape ==
    ASSUME Types, NEW c \in Callers, call[c].at \in Changing, Goto(c, [call[c] EXCEPT !.at = "undo"]),
           lock' = lock
    PROVE  /\ Moves(c) /\ StillOthers(c) /\ Formed(call[c])' /\ Shift(c)
           /\ Steady(c, "undo") /\ call'[c].assets = call[c].assets
<1>1. "undo" \in Steps /\ "undo" \in Changing BY DEF Steps, Changing
<1>2. Moves(c) /\ StillOthers(c) /\ Steady(c, "undo") /\ call'[c].assets = call[c].assets
    BY <1>1, SteadyMoves
<1>3. call'[c].at = "undo" BY <1>2 DEF Steady
<1> QED BY <1>1, <1>2, <1>3, ChangingGoes

LEMMA RestoreCopyShape ==
    ASSUME Types, NEW c \in Callers, RestoreCopy(c)
    PROVE  /\ Shaped(c) /\ call[c].at = "r_copy" /\ call[c].rev.assets \in Manifests
           /\ UNCHANGED <<page, revs, blobs, files, manifests, cache, lock, disturbed, crashed, restored>>
           /\ \/ /\ Steady(c, "r_record") /\ call'[c].assets = call[c].assets
                 /\ live' = Written(call[c].rev.assets, live)
                 /\ Swept(c, BlobsOf([n \in DOMAIN call[c].rev.assets \intersect DOMAIN live |-> live[n]]))
              \/ /\ Steady(c, "undo") /\ call'[c].assets = call[c].assets
                 /\ StillOthers(c) /\ live' = live /\ acked' = acked
<1> DEFINE m == call[c].rev.assets
           S == BlobsOf([n \in DOMAIN m \intersect DOMAIN live |-> live[n]])
           rec == [call[c] EXCEPT !.at = "r_record"]
<1>1. /\ call[c].at = "r_copy" /\ call[c].at \in Changing /\ call[c] \in CallT /\ Formed(call[c])
    BY DEF RestoreCopy, Types, Changing
<1>2. UNCHANGED <<page, revs, blobs, files, manifests, cache, lock, disturbed, crashed, restored>>
    BY DEF RestoreCopy, store
<1>3. m \in Manifests /\ live \in Manifests BY <1>1 DEF Formed, RevT, Types, Shapes
<1>4. CASE live' = Written(m, live) /\ Sweep(c, S, rec)
    <2>1. "r_record" \in Steps /\ "r_record" \in Changing BY DEF Steps, Changing
    <2>2. /\ rec \in CallT /\ rec.at = "r_record" /\ rec.kind = call[c].kind /\ rec.file = call[c].file
          /\ rec.rev = call[c].rev /\ rec.old = call[c].old /\ rec.body = call[c].body
          /\ rec.extra = call[c].extra /\ rec.title = call[c].title /\ rec.assets = call[c].assets
          /\ rec.coalesce <=> call[c].coalesce
        BY <1>1, <2>1 DEF CallT
    <2>3. None \notin S
        <3>1. [n \in DOMAIN m \intersect DOMAIN live |-> live[n]] \in Manifests
            BY <1>3, PartIsManifest
        <3> QED BY <3>1, ManifestIsFunction, Given
    <2>4. live' \in Manifests BY <1>3, <1>4, WrittenIsManifest
    <2> HIDE DEF rec, S, m
    <2>5. Moves(c) /\ call'[c] = rec /\ Swept(c, S) BY <1>4, <2>2, <2>3, SweepMoves DEF Swept
    <2>6. Steady(c, "r_record") /\ call'[c].assets = call[c].assets BY <2>2, <2>5 DEF Steady
    <2>7. call'[c].at = "r_record" BY <2>2, <2>5
    <2>8. Formed(call[c])' /\ Shift(c) BY <1>1, <1>2, <2>1, <2>6, <2>7, ChangingGoes
    <2>9. Shapes' BY <1>2, <2>4, <2>5 DEF Types, Shapes, Swept
    <2> QED BY <1>1, <1>2, <1>3, <1>4, <2>5, <2>6, <2>8, <2>9 DEF Shaped, m, S
<1>5. CASE Goto(c, [call[c] EXCEPT !.at = "undo"]) /\ live' = live /\ acked' = acked
    <2>1. /\ Moves(c) /\ StillOthers(c) /\ Formed(call[c])' /\ Shift(c)
          /\ Steady(c, "undo") /\ call'[c].assets = call[c].assets
        BY <1>1, <1>2, <1>5, FailsShape
    <2>2. Shapes' BY <1>2, <1>5 DEF Types, Shapes
    <2> QED BY <1>1, <1>2, <1>3, <1>5, <2>1, <2>2 DEF Shaped
<1> QED BY <1>4, <1>5 DEF RestoreCopy, Fails

LEMMA RestoreRecordShape ==
    ASSUME Types, Locking, NEW c \in Callers, RestoreRecord(c)
    PROVE  /\ Shaped(c) /\ StillOthers(c) /\ call[c].at = "r_record"
           /\ UNCHANGED <<page, live, cache, disturbed, crashed, acked>>
           /\ \/ /\ page # None /\ Ends(c) /\ lock = c /\ lock' = None /\ restored' = TRUE
                 /\ blobs' = blobs \union {page.body} /\ files' = files \union BlobsOf(live)
                 /\ manifests' = manifests \union {live} /\ revs' # <<>>
                 /\ Newest'.body = page.body /\ Newest'.title = page.title /\ Newest'.assets = live
                 /\ \A i \in DOMAIN revs' : \/ revs'[i].body = page.body /\ revs'[i].assets = live
                                            \/ \E j \in DOMAIN revs : revs'[i] = revs[j]
              \/ /\ Steady(c, "undo") /\ call'[c].assets = call[c].assets
                 /\ UNCHANGED <<blobs, files, manifests, revs, lock, restored>>
<1>1. /\ call[c].at = "r_record" /\ call[c].at \in Changing /\ call[c].at \in Holding
      /\ call[c] \in CallT /\ Formed(call[c])
    BY DEF RestoreRecord, Types, Changing, Holding
<1>2. UNCHANGED <<page, live, cache, disturbed, crashed, acked>> BY DEF RestoreRecord
<1>3. lock = c BY <1>1 DEF Locking
<1> DEFINE r == [id |-> FreshId, type |-> "restore", author |-> c, body |-> page.body,
                 extra |-> page.extra, title |-> page.title, assets |-> live]
<1>4. CASE /\ page # None
           /\ blobs' = blobs \union {page.body} /\ files' = files \union BlobsOf(live)
           /\ manifests' = manifests \union {live} /\ revs' = Append(revs, r)
           /\ restored' = TRUE /\ Release(c)
    <2>1. Goto(c, Idle) /\ lock' = None BY <1>4 DEF Release, Return
    <2>2. Moves(c) /\ StillOthers(c) /\ Ends(c) BY <2>1, IdleIn, StepMoves DEF Ends
    <2>3. page \in States /\ live \in Manifests /\ revs \in Seq(RevT) BY <1>4 DEF Types, Shapes
    <2>4. r \in RevT BY <2>3, FreshIdIsFresh DEF RevT, States
    <2>5. r.body = page.body /\ r.title = page.title /\ r.assets = live OBVIOUS
    <2>6. page.body \in Bodies BY <2>3 DEF States
    <2> HIDE DEF r
    <2>7. /\ revs' \in Seq(RevT) /\ revs' # <<>> /\ revs'[Len(revs')] = r
          /\ \A i \in DOMAIN revs' : revs'[i] = r \/ \E j \in DOMAIN revs : revs'[i] = revs[j]
        BY <1>4, <2>3, <2>4, AppendIsHistory
    <2>8. Shapes' BY <1>2, <1>4, <2>1, <2>3, <2>6, <2>7, ManifestIsFunction DEF Types, Shapes
    <2>9. Shaped(c) BY <1>1, <1>2, <1>3, <2>1, <2>2, <2>8, EndsShape DEF Shaped, Shift
    <2> QED BY <1>1, <1>2, <1>3, <1>4, <2>1, <2>2, <2>5, <2>7, <2>9 DEF Newest
<1>5. CASE /\ Goto(c, [call[c] EXCEPT !.at = "undo"])
           /\ UNCHANGED <<blobs, files, manifests, revs, lock, restored>>
    <2>1. /\ Moves(c) /\ StillOthers(c) /\ Formed(call[c])' /\ Shift(c)
          /\ Steady(c, "undo") /\ call'[c].assets = call[c].assets
        BY <1>1, <1>5, FailsShape
    <2>2. Shapes' BY <1>2, <1>5 DEF Types, Shapes
    <2> QED BY <1>1, <1>2, <1>5, <2>1, <2>2 DEF Shaped
<1> QED BY <1>4, <1>5 DEF RestoreRecord, Fails

\* A rollback changes nothing of the history but what it says of itself.
LEMMA RollbackDisturbs ==
    ASSUME Types, UNCHANGED <<faults, disturbed>> \/ RollbackFails
    PROVE  disturbed' \in BOOLEAN /\ (~disturbed' => disturbed' = disturbed)
BY DEF RollbackFails, Types, Shapes

LEMMA UndoShape ==
    ASSUME Types, NEW c \in Callers, Undo(c)
    PROVE  /\ Shaped(c) /\ StillOthers(c) /\ call[c].at = "undo"
           /\ UNCHANGED <<live, revs, blobs, files, manifests, cache, lock, crashed, restored, acked>>
           /\ ~disturbed' => disturbed' = disturbed
           /\ Steady(c, "u_clear") /\ call'[c].assets = call[c].assets
           /\ page = None => page' = None
           /\ page # None => page' # None
           /\ page # None /\ ~disturbed' => /\ page'.body = call[c].old.body
                                            /\ page'.title = call[c].old.title
<1>1. /\ call[c].at = "undo" /\ call[c].at \in Changing /\ call[c] \in CallT /\ Formed(call[c])
      /\ page' = UndoTo(call[c].old) \/ (disturbed' = TRUE /\ page' = page)
      /\ Goto(c, [call[c] EXCEPT !.at = "u_clear"])
    BY DEF Undo, RollbackFails, Types, Changing
<1>2. UNCHANGED <<live, revs, blobs, files, manifests, cache, lock, crashed, restored, acked>>
    BY DEF Undo, store
<1>10. disturbed' \in BOOLEAN /\ (~disturbed' => disturbed' = disturbed)
    BY RollbackDisturbs DEF Undo
<1>3. "u_clear" \in Steps /\ "u_clear" \in Changing BY DEF Steps, Changing
<1>4. Moves(c) /\ StillOthers(c) /\ Steady(c, "u_clear") /\ call'[c].assets = call[c].assets
    BY <1>1, <1>3, SteadyMoves
<1>5. call'[c].at = "u_clear" BY <1>4 DEF Steady
<1>6. Formed(call[c])' /\ Shift(c) BY <1>1, <1>2, <1>3, <1>4, <1>5, ChangingGoes
<1>7. page = None => page' = None BY <1>1 DEF UndoTo
<1>8. page # None => /\ page' \in States /\ page' # None
                     /\ ~disturbed' => /\ page'.body = call[c].old.body
                                       /\ page'.title = call[c].old.title
    <2> SUFFICES ASSUME page # None
                 PROVE  /\ page' \in States /\ page' # None
                        /\ ~disturbed' => /\ page'.body = call[c].old.body
                                          /\ page'.title = call[c].old.title
        OBVIOUS
    <2>1. call[c].old \in States /\ page \in States BY <1>1 DEF Formed, Types, Shapes
    <2>2. CASE page' = UndoTo(call[c].old)
        <3>1. page' = Rewritten(call[c].old) BY <2>2 DEF UndoTo
        <3> QED BY <2>1, <3>1, RewrittenIsPage DEF States
    <2>3. CASE disturbed' = TRUE /\ page' = page BY <2>1, <2>3
    <2> QED BY <1>1, <2>2, <2>3
<1>9. Shapes' BY <1>2, <1>7, <1>8, <1>10 DEF Types, Shapes
<1> QED BY <1>1, <1>2, <1>4, <1>6, <1>7, <1>8, <1>9, <1>10 DEF Shaped

LEMMA UndoCopyShape ==
    ASSUME Types, Locking, NEW c \in Callers, UndoCopy(c)
    PROVE  /\ Shaped(c) /\ call[c].at = "u_copy" /\ Ends(c) /\ call[c].assets \in Manifests
           /\ UNCHANGED <<page, revs, blobs, files, manifests, cache, crashed, restored>>
           /\ ~disturbed' => disturbed' = disturbed
           /\ \E S \in SUBSET DOMAIN call[c].assets :
                /\ ~disturbed' /\ BlobsOf(call[c].assets) \subseteq files => S = DOMAIN call[c].assets
                /\ live' = Written([n \in S |-> call[c].assets[n]], live)
                /\ Swept(c, BlobsOf([n \in S \intersect DOMAIN live |-> live[n]]))
<1> DEFINE m == call[c].assets
<1>1. /\ call[c].at = "u_copy" /\ call[c].at \in Holding /\ call[c] \in CallT /\ Formed(call[c])
      /\ m \in Manifests /\ live \in Manifests /\ lock = c
    BY DEF UndoCopy, Types, Shapes, Formed, Changing, Holding, Locking
<1>2. UNCHANGED <<page, revs, blobs, files, manifests, cache, crashed, restored>> /\ lock' = None
    BY DEF UndoCopy, store
<1>10. disturbed' \in BOOLEAN /\ (~disturbed' => disturbed' = disturbed)
    BY RollbackDisturbs DEF UndoCopy
<1>3. PICK S \in SUBSET DOMAIN m :
          /\ ~disturbed' /\ BlobsOf(m) \subseteq files => S = DOMAIN m
          /\ live' = Written([n \in S |-> m[n]], live)
          /\ Sweep(c, BlobsOf([n \in S \intersect DOMAIN live |-> live[n]]), Idle)
    BY DEF UndoCopy, RollbackFails
<1> DEFINE w == [n \in S |-> m[n]]
           over == BlobsOf([n \in S \intersect DOMAIN live |-> live[n]])
<1>4. w \in Manifests BY <1>1, PartIsManifest
<1>5. None \notin over
    <2>1. [n \in S \intersect DOMAIN live |-> live[n]] \in Manifests BY <1>1, PartIsManifest
    <2> QED BY <2>1, ManifestIsFunction, Given
<1>6. live' \in Manifests BY <1>1, <1>3, <1>4, WrittenIsManifest
<1>7. Moves(c) /\ Ends(c) /\ Swept(c, over)
    <2> HIDE DEF over, w, m
    <2>1. Sweep(c, over, Idle) BY <1>3 DEF over, m
    <2> QED BY <2>1, <1>5, IdleIn, SweepMoves DEF Swept, Ends
<1>8. Shapes' BY <1>2, <1>6, <1>7, <1>10 DEF Types, Shapes, Swept
<1>9. Shaped(c) BY <1>1, <1>2, <1>7, <1>8, EndsShape DEF Shaped, Shift
<1> QED BY <1>1, <1>2, <1>3, <1>7, <1>9, <1>10

LEMMA ReadShape ==
    ASSUME Types, NEW c \in Callers, Read(c)
    PROVE  /\ Shaped(c) /\ StillOthers(c) /\ call[c].at = "read" /\ call[c].rev \in RevT
           /\ UNCHANGED <<page, live, revs, blobs, files, manifests, cache, lock, disturbed, crashed, restored, acked>>
           /\ \/ Ends(c)
              \/ /\ ~Available(call[c].rev)
                 /\ Steady(c, "unavailable") /\ call'[c].assets = call[c].assets
<1>1. /\ call[c].at = "read" /\ call[c] \in CallT /\ Formed(call[c]) /\ call[c].rev \in RevT
      /\ call[c].at \notin Holding
    BY DEF Read, Types, Formed, Reading, Holding, Making, Changing
<1>2. UNCHANGED <<page, live, revs, blobs, files, manifests, cache, lock, disturbed, crashed, restored, acked>>
    BY DEF Read, store, history
<1>3. Shapes' BY <1>2 DEF Types, Shapes
<1>4. CASE Available(call[c].rev)
    <2>1. Goto(c, Idle) BY <1>4 DEF Read, Return
    <2>2. Moves(c) /\ StillOthers(c) /\ Ends(c) BY <2>1, IdleIn, StepMoves DEF Ends
    <2> QED BY <1>1, <1>2, <1>3, <2>2, EndsShape DEF Shaped, Shift
<1>5. CASE ~Available(call[c].rev)
    <2>1. Goto(c, [call[c] EXCEPT !.at = "unavailable"]) BY <1>5 DEF Read
    <2>2. Moves(c) /\ StillOthers(c) /\ Steady(c, "unavailable") /\ call'[c].assets = call[c].assets
        BY <2>1, SteadyMoves DEF Steps, Reading
    <2>3. Formed(call[c])'
        BY <1>1, <2>2 DEF Steady, Formed, Recording, Making, Changing, Reading, Deleting
    <2>4. call'[c].at \notin Holding BY <2>2 DEF Steady, Holding, Making, Changing
    <2> QED BY <1>1, <1>2, <1>3, <1>5, <2>2, <2>3, <2>4 DEF Shaped, Shift
<1> QED BY <1>4, <1>5

LEMMA ReadFailsShape ==
    ASSUME Types, NEW c \in Callers, ReadFails(c)
    PROVE  /\ Shaped(c) /\ StillOthers(c) /\ call[c].at = "unavailable" /\ Ends(c)
           /\ UNCHANGED <<page, live, revs, blobs, files, manifests, cache, lock, disturbed, crashed, restored, acked>>
<1>1. call[c].at = "unavailable" /\ call[c].at \notin Holding
    BY DEF ReadFails, Holding, Making, Changing
<1>2. UNCHANGED <<page, live, revs, blobs, files, manifests, cache, lock, disturbed, crashed, restored, acked>>
    BY DEF ReadFails, store, history
<1>3. Shapes' BY <1>2 DEF Types, Shapes
<1>4. Goto(c, Idle) BY DEF ReadFails, Return
<1>5. Moves(c) /\ StillOthers(c) /\ Ends(c) BY <1>4, IdleIn, StepMoves DEF Ends
<1> QED BY <1>1, <1>2, <1>3, <1>5, EndsShape DEF Shaped, Shift

LEMMA DeleteAssetsShape ==
    ASSUME Types, NEW c \in Callers, DeleteAssets(c)
    PROVE  /\ Shaped(c) /\ call[c].at = "d_assets" /\ page = None
           /\ UNCHANGED <<page, revs, blobs, files, manifests, cache, lock, disturbed, crashed, restored>>
           /\ call'[c].at = "d_revs" /\ call'[c].kind = "none" /\ call'[c].file = None
           /\ live' = <<>> /\ Swept(c, BlobsOf(live))
<1> DEFINE rec == [Idle EXCEPT !.at = "d_revs"]
<1>1. /\ call[c].at = "d_assets" /\ page = None /\ call[c].at \notin Holding
    BY DEF DeleteAssets, Types, Formed, Deleting, Holding, Making, Changing
<1>2. /\ UNCHANGED <<page, revs, blobs, files, manifests, cache, lock, disturbed, crashed, restored>>
      /\ live' = <<>> /\ Sweep(c, BlobsOf(live), rec)
    BY DEF DeleteAssets, store
<1>3. rec \in CallT BY DEF Idle, CallT, Steps, Deleting
<1>4. rec.at = "d_revs" /\ rec.kind = "none" /\ rec.file = None BY DEF Idle
<1> HIDE DEF rec
<1>5. live \in Manifests BY DEF Types, Shapes
<1>6. None \notin BlobsOf(live) BY <1>5, ManifestIsFunction, Given
<1>7. Moves(c) /\ call'[c] = rec /\ Swept(c, BlobsOf(live)) BY <1>2, <1>3, <1>6, SweepMoves DEF Swept
<1>8. Formed(call[c])' BY <1>1, <1>2, <1>4, <1>7 DEF Formed, Recording, Making, Changing, Reading, Deleting
<1>9. Shapes' BY <1>2, <1>7, NothingIsAManifest DEF Types, Shapes, Swept
<1>10. call'[c].at \notin Holding BY <1>4, <1>7 DEF Holding, Making, Changing
<1> QED BY <1>1, <1>2, <1>4, <1>7, <1>8, <1>9, <1>10 DEF Shaped, Shift

LEMMA DeleteRevisionsShape ==
    ASSUME Types, NEW c \in Callers, DeleteRevisions(c)
    PROVE  /\ Shaped(c) /\ StillOthers(c) /\ call[c].at = "d_revs" /\ page = None /\ Ends(c)
           /\ UNCHANGED <<page, live, blobs, files, manifests, lock, disturbed, crashed, restored, acked>>
           /\ revs' = <<>> /\ cache' = None
<1>1. /\ call[c].at = "d_revs" /\ page = None /\ call[c].at \notin Holding
    BY DEF DeleteRevisions, Types, Formed, Deleting, Holding, Making, Changing
<1>2. /\ UNCHANGED <<page, live, blobs, files, manifests, lock, disturbed, crashed, restored, acked>>
      /\ revs' = <<>> /\ cache' = None
    BY DEF DeleteRevisions, Emptied, history
<1>3. <<>> \in Seq(RevT) OBVIOUS
<1>4. Shapes' BY <1>2, <1>3 DEF Types, Shapes
<1>5. Goto(c, Idle) BY DEF DeleteRevisions, Return
<1>6. Moves(c) /\ StillOthers(c) /\ Ends(c) BY <1>5, IdleIn, StepMoves DEF Ends
<1> QED BY <1>1, <1>2, <1>4, <1>6, EndsShape DEF Shaped, Shift

LEMMA RestartShape ==
    ASSUME Types, Restart
    PROVE  /\ Types' /\ Locking'
           /\ UNCHANGED <<page, live, revs, blobs, files, manifests, restored, acked>>
           /\ crashed' = TRUE /\ cache' = None
           /\ \A d \in Callers : /\ call'[d].kind = "none" /\ call'[d].file = None
                                 /\ d # System => call'[d].at = "idle"
           /\ call'[System].at = IF page = None THEN "idle" ELSE "content"
<1>1. /\ UNCHANGED <<page, live, revs, blobs, files, manifests, restored, acked>>
      /\ lock' = None /\ cache' = None /\ disturbed' = FALSE /\ crashed' = TRUE
      /\ call' = [c \in Callers |-> IF c = System THEN Baseline ELSE Idle]
    BY DEF Restart
<1>2. /\ Baseline \in CallT /\ Baseline.kind = "none" /\ Baseline.file = None
      /\ Baseline.at = (IF page = None THEN "idle" ELSE "content")
      /\ page = None => Baseline = Idle
    BY DEF Baseline, Idle, CallT, Steps
<1>3. /\ call' \in [Callers -> CallT] /\ call'[System] = Baseline
      /\ \A d \in Callers : d # System => call'[d] = Idle
    <2> HIDE DEF Baseline
    <2> QED BY <1>1, <1>2, IdleIn, Given
<1>4. ASSUME NEW d \in Callers
      PROVE  Formed(call[d])' /\ call'[d].at \notin Holding /\ call'[d].kind = "none" /\ call'[d].file = None
    <2>1. \/ call'[d] = Idle
          \/ call'[d].at = "content" /\ call'[d].kind = "none" /\ call'[d].file = None
        BY <1>2, <1>3
    <2>2. CASE call'[d] = Idle
        BY <2>2, IdleIn DEF Formed, Recording, Making, Changing, Reading, Deleting, Holding
    <2>3. CASE call'[d].at = "content" /\ call'[d].kind = "none" /\ call'[d].file = None
        BY <2>3 DEF Formed, Recording, Making, Changing, Reading, Deleting, Holding
    <2> QED BY <2>1, <2>2, <2>3
<1>5. Shapes' BY <1>1 DEF Types, Shapes
<1>6. Types' BY <1>3, <1>4, <1>5 DEF Types
<1>7. Locking' BY <1>1, <1>4, Given DEF Locking
<1> QED BY <1>1, <1>2, <1>3, <1>4, <1>6, <1>7, IdleIn

-----------------------------------------------------------------------------
(* Every step *)

LEMMA StepShape ==
    ASSUME Types, Locking, NEW c \in Callers, Step(c)
    PROVE  Shaped(c)
<1>1. CASE SaveWrite(c) \/ SaveEffect(c) \/ ContentRead(c)
    BY <1>1, SaveWriteShape, SaveEffectShape, ContentReadShape
<1>2. CASE Acquire(c) \/ SaveBlob(c) \/ ResolveManifest(c)
    BY <1>2, AcquireShape, SaveBlobShape, ResolveManifestShape
<1>3. CASE Persist(c) \/ Revise(c) \/ Tidy(c)
    BY <1>3, PersistShape, ReviseShape, TidyShape
<1>4. CASE \E n \in Names : UploadWrite(c, n)
    BY <1>4, UploadWriteShape
<1>5. CASE RestoreRead(c) \/ RestoreWrite(c) \/ RestoreCopy(c) \/ RestoreRecord(c)
    BY <1>5, RestoreReadShape, RestoreWriteShape, RestoreCopyShape, RestoreRecordShape
<1>6. CASE RestoreClear(c)
    BY <1>6, ClearShape DEF RestoreClear, Changing
<1>7. CASE UndoClear(c)
    BY <1>7, ClearShape DEF UndoClear, Changing
<1>8. CASE Undo(c) \/ UndoCopy(c) \/ Read(c) \/ ReadFails(c)
    BY <1>8, UndoShape, UndoCopyShape, ReadShape, ReadFailsShape
<1>9. CASE DeleteAssets(c) \/ DeleteRevisions(c)
    BY <1>9, DeleteAssetsShape, DeleteRevisionsShape
<1> QED BY <1>1, <1>2, <1>3, <1>4, <1>5, <1>6, <1>7, <1>8, <1>9 DEF Step

LEMMA RequestShape ==
    ASSUME Types, NEW c \in Callers, Request(c)
    PROVE  Shaped(c)
<1>1. CASE \E b \in Bodies, x \in Extras, t \in Titles : SaveBegin(c, b, x, t)
    BY <1>1, SaveBeginShape DEF Starts
<1>2. CASE \E f \in Files : UploadBegin(c, f) BY <1>2, UploadBeginShape DEF Starts
<1>3. CASE \E n \in Names : DeleteAsset(c, n) BY <1>3, DeleteAssetShape
<1>4. CASE \E n, m \in Names : RenameAsset(c, n, m) BY <1>4, RenameAssetShape
<1>5. CASE \E id \in Ids : RestoreBegin(c, id) \/ ReadBegin(c, id)
    BY <1>5, RestoreBeginShape, ReadBeginShape DEF Starts
<1>6. CASE DeleteTree(c) BY <1>6, DeleteTreeShape DEF Starts
<1> QED BY <1>1, <1>2, <1>3, <1>4, <1>5, <1>6 DEF Request

LEMMA ShapesHold ==
    ASSUME Types, Locking, NEW c \in Callers, Shaped(c)
    PROVE  Types' /\ Locking'
BY TypesKept, LockingKept DEF Shaped, Moves

-----------------------------------------------------------------------------
(* What is recorded is stored *)

LEMMA StockedKept ==
    ASSUME Types, Locking, Stocked, NEW c \in Callers, Others(c), Intact',
           files \subseteq files', manifests \subseteq manifests',
           blobs \subseteq blobs' \/ call[c].at \in Holding,
           cache' # None => Held(cache)', Equipped(call[c])'
    PROVE  Stocked'
<1>1. ASSUME NEW d \in Callers PROVE Equipped(call[d])'
    <2>1. CASE d = c BY <2>1
    <2>2. CASE d # c
        <3>1. Like(call[d], call'[d]) /\ Equipped(call[d]) BY <2>2 DEF Others, Stocked
        <3>2. call[d].at \in {"manifest", "persist", "revise"} => blobs \subseteq blobs'
            <4>1. call[d].at \in {"manifest", "persist", "revise"} => call[d].at \in Holding
                BY DEF Holding, Making
            <4> QED BY <4>1, <2>2, HolderIs
        <3>3. ASSUME NEW m, Held(m) PROVE Held(m)' BY <3>3 DEF Held
        <3> QED BY <3>1, <3>2, <3>3 DEF Equipped, Like
    <2> QED BY <2>1, <2>2
<1> QED BY <1>1 DEF Stocked

LEMMA LatestHeld ==
    ASSUME Types, Stocked
    PROVE  Latest # None => Held(Latest.assets)
BY RevisionIn DEF Latest, Newest, Types, Shapes, Stocked, Intact, Available, Held

\* A step that leaves the store alone and records nothing, or captures a state.
LEMMA StockedStays ==
    ASSUME Types, Locking, Stocked, NEW c \in Callers, Others(c),
           UNCHANGED <<revs, blobs, files, manifests, cache>>,
           call'[c].at \notin Making \/ (call'[c].at = "blob" /\ call'[c].rev = Latest)
    PROVE  Stocked'
<1>1. Intact' BY DEF Stocked, Intact, Available
<1>2. cache' # None => Held(cache)' BY DEF Stocked, Held
<1>3. Equipped(call[c])'
    <2>1. CASE call'[c].at \notin Making BY <2>1 DEF Equipped, Making
    <2>2. CASE call'[c].at = "blob" /\ call'[c].rev = Latest
        BY <2>2, LatestHeld DEF Equipped, Held
    <2> QED BY <2>1, <2>2
<1> QED BY <1>1, <1>2, <1>3, StockedKept

LEMMA SaveBlobStocked ==
    ASSUME Types, Locking, Stocked, NEW c \in Callers, SaveBlob(c)
    PROVE  Stocked'
<1> DEFINE a == IF call[c].kind = "asset" THEN "persist" ELSE "manifest"
<1>1. /\ Others(c) /\ call[c].at = "blob" /\ Steady(c, a) /\ blobs' = blobs \union {call[c].body}
      /\ UNCHANGED <<revs, files, manifests, cache>>
    BY SaveBlobShape DEF Shaped, Moves
<1>2. Intact' BY <1>1 DEF Stocked, Intact, Available
<1>3. cache' # None => Held(cache)' BY <1>1 DEF Stocked, Held
<1>4. Equipped(call[c]) /\ call[c].at \in Making BY <1>1 DEF Stocked, Making
<1>5. Equipped(call[c])'
    <2>1. call'[c].rev # None => Held(call[c].rev.assets)' BY <1>1, <1>4 DEF Equipped, Held, Steady
    <2>2. call'[c].at # "revise" BY <1>1 DEF Steady
    <2>3. call'[c].body \in blobs' BY <1>1 DEF Steady
    <2> QED BY <2>1, <2>2, <2>3 DEF Equipped
<1> QED BY <1>1, <1>2, <1>3, <1>5, StockedKept

LEMMA ResolveManifestStocked ==
    ASSUME Types, Locking, Stocked, NEW c \in Callers, ResolveManifest(c)
    PROVE  Stocked'
<1>1. /\ Others(c) /\ call[c].at = "manifest" /\ UNCHANGED <<revs, blobs, files, manifests>>
      /\ \/ /\ Steady(c, "revise") /\ call'[c].assets = cache'
            /\ \/ cache # None /\ cache' = cache
               \/ call[c].rev # None /\ cache' = call[c].rev.assets
         \/ cache' = cache /\ Steady(c, "persist")
    BY ResolveManifestShape DEF Shaped, Moves
<1>2. Intact' BY <1>1 DEF Stocked, Intact, Available
<1>3. Equipped(call[c]) /\ call[c].at \in Making BY <1>1 DEF Stocked, Making
<1>4. /\ call[c].body \in blobs /\ (call[c].rev # None => Held(call[c].rev.assets))
      /\ cache # None => Held(cache)
    BY <1>1, <1>3 DEF Equipped, Stocked
<1>5. \A m : Held(m) => Held(m)' BY <1>1 DEF Held
<1>6. (cache' # None => Held(cache)') /\ (Steady(c, "revise") => Held(cache'))
    <2>1. Held(cache') \/ (cache' = cache /\ Steady(c, "persist")) BY <1>1, <1>4
    <2>2. ~(Steady(c, "persist") /\ Steady(c, "revise")) BY DEF Steady
    <2>3. Held(cache') => Held(cache)' BY <1>1 DEF Held
    <2> QED BY <2>1, <2>2, <2>3, <1>4, <1>5
<1>7. Equipped(call[c])'
    <2>1. CASE Steady(c, "revise") /\ call'[c].assets = cache'
        <3>1. Held(call[c].assets)' BY <2>1, <1>1, <1>6 DEF Held
        <3> QED BY <1>1, <1>4, <1>5, <2>1, <3>1 DEF Equipped, Steady
    <2>2. CASE Steady(c, "persist") BY <1>1, <1>4, <1>5, <2>2 DEF Equipped, Steady
    <2> QED BY <2>1, <2>2, <1>1
<1> QED BY <1>1, <1>2, <1>6, <1>7, StockedKept

LEMMA PersistStocked ==
    ASSUME Types, Locking, Stocked, NEW c \in Callers, Persist(c)
    PROVE  Stocked'
<1>1. /\ Others(c) /\ call[c].at = "persist" /\ UNCHANGED <<revs, blobs>>
      /\ \/ /\ files' = files \union BlobsOf(call[c].assets)
            /\ manifests' = manifests \union {call[c].assets}
            /\ cache' = call[c].assets
            /\ Steady(c, "revise") /\ call'[c].assets = call[c].assets
         \/ Ends(c) /\ UNCHANGED <<files, manifests, cache>>
    BY PersistShape DEF Shaped, Moves
<1>2. Equipped(call[c]) /\ call[c].at \in Making BY <1>1 DEF Stocked, Making
<1>3. CASE Ends(c) /\ UNCHANGED <<files, manifests, cache>>
    <2>1. call'[c].at \notin Making BY <1>3, EndsShape DEF Making
    <2> QED BY <1>1, <1>3, <2>1, StockedStays
<1>4. CASE /\ files' = files \union BlobsOf(call[c].assets)
           /\ manifests' = manifests \union {call[c].assets}
           /\ cache' = call[c].assets
           /\ Steady(c, "revise") /\ call'[c].assets = call[c].assets
    <2>1. Intact' BY <1>1, <1>4 DEF Stocked, Intact, Available
    <2>2. Held(cache)' BY <1>4 DEF Held
    <2>3. Held(call[c].assets)' BY <1>4 DEF Held
    <2>4. call'[c].rev # None => Held(call[c].rev.assets)' BY <1>2, <1>4 DEF Equipped, Held, Steady
    <2>5. call[c].body \in blobs BY <1>1, <1>2 DEF Equipped
    <2>6. Equipped(call[c])' BY <1>1, <1>4, <2>3, <2>4, <2>5 DEF Equipped, Steady, Held
    <2> QED BY <1>1, <1>4, <2>1, <2>2, <2>6, StockedKept
<1> QED BY <1>1, <1>3, <1>4

LEMMA ReviseStocked ==
    ASSUME Types, Locking, Stocked, NEW c \in Callers, Revise(c)
    PROVE  Stocked'
<1>1. /\ Others(c) /\ call[c].at = "revise" /\ UNCHANGED <<blobs, files, manifests, cache>>
      /\ \/ /\ Steady(c, "tidy")
            /\ \A i \in DOMAIN revs' : \/ /\ revs'[i].body = call[c].body
                                          /\ revs'[i].assets = call[c].assets
                                       \/ \E j \in DOMAIN revs : revs'[i] = revs[j]
         \/ Ends(c) /\ revs' = revs
    BY ReviseShape DEF Shaped, Moves
<1>2. Equipped(call[c]) /\ call[c].at \in Making BY <1>1 DEF Stocked, Making
<1>3. call[c].body \in blobs /\ Held(call[c].assets) BY <1>1, <1>2 DEF Equipped
<1>4. CASE Ends(c) /\ revs' = revs
    <2>1. call'[c].at \notin Making BY <1>4, EndsShape DEF Making
    <2> QED BY <1>1, <1>4, <2>1, StockedStays
<1>5. CASE /\ Steady(c, "tidy")
           /\ \A i \in DOMAIN revs' : \/ /\ revs'[i].body = call[c].body
                                         /\ revs'[i].assets = call[c].assets
                                      \/ \E j \in DOMAIN revs : revs'[i] = revs[j]
    <2>1. Intact'
        <3> SUFFICES ASSUME NEW i \in DOMAIN revs' PROVE Available(revs[i])' BY DEF Intact
        <3>1. CASE revs'[i].body = call[c].body /\ revs'[i].assets = call[c].assets
            BY <1>1, <1>3, <3>1 DEF Available, Held
        <3>2. CASE \E j \in DOMAIN revs : revs'[i] = revs[j]
            BY <1>1, <3>2 DEF Stocked, Intact, Available
        <3> QED BY <1>5, <3>1, <3>2
    <2>2. cache' # None => Held(cache)' BY <1>1 DEF Stocked, Held
    <2>3. Equipped(call[c])' BY <1>1, <1>2, <1>5 DEF Equipped, Steady, Held
    <2> QED BY <1>1, <2>1, <2>2, <2>3, StockedKept
<1> QED BY <1>1, <1>4, <1>5

LEMMA TidyStocked ==
    ASSUME Types, Locking, Stocked, NEW c \in Callers, Tidy(c)
    PROVE  Stocked'
<1>1. /\ Others(c) /\ call[c].at = "tidy" /\ Ends(c) /\ UNCHANGED <<files, manifests, cache>>
      /\ \A i \in DOMAIN revs' : \E j \in DOMAIN revs : revs'[i] = revs[j]
      /\ \A i \in DOMAIN revs' : revs'[i].body \in blobs => revs'[i].body \in blobs'
    BY TidyShape DEF Shaped, Moves
<1>2. Intact' BY <1>1 DEF Stocked, Intact, Available
<1>3. cache' # None => Held(cache)' BY <1>1 DEF Stocked, Held
<1>4. call'[c].at \notin Making BY <1>1, EndsShape DEF Making
<1>5. Equipped(call[c])' BY <1>4 DEF Equipped, Making
<1>6. call[c].at \in Holding BY <1>1 DEF Holding, Making
<1> QED BY <1>1, <1>2, <1>3, <1>5, <1>6, StockedKept

LEMMA RestoreRecordStocked ==
    ASSUME Types, Locking, Stocked, NEW c \in Callers, RestoreRecord(c)
    PROVE  Stocked'
<1>1. /\ Others(c) /\ cache' = cache
      /\ \/ /\ Ends(c)
            /\ blobs' = blobs \union {page.body} /\ files' = files \union BlobsOf(live)
            /\ manifests' = manifests \union {live}
            /\ \A i \in DOMAIN revs' : \/ revs'[i].body = page.body /\ revs'[i].assets = live
                                       \/ \E j \in DOMAIN revs : revs'[i] = revs[j]
         \/ Steady(c, "undo") /\ UNCHANGED <<blobs, files, manifests, revs>>
    BY RestoreRecordShape DEF Shaped, Moves
<1>2. CASE Steady(c, "undo") /\ UNCHANGED <<blobs, files, manifests, revs>>
    <2>1. call'[c].at \notin Making BY <1>2 DEF Steady, Making
    <2> QED BY <1>1, <1>2, <2>1, StockedStays
<1>3. CASE /\ Ends(c)
           /\ blobs' = blobs \union {page.body} /\ files' = files \union BlobsOf(live)
           /\ manifests' = manifests \union {live}
           /\ \A i \in DOMAIN revs' : \/ revs'[i].body = page.body /\ revs'[i].assets = live
                                      \/ \E j \in DOMAIN revs : revs'[i] = revs[j]
    <2>1. Intact'
        <3> SUFFICES ASSUME NEW i \in DOMAIN revs' PROVE Available(revs[i])' BY DEF Intact
        <3>1. CASE revs'[i].body = page.body /\ revs'[i].assets = live
            BY <1>3, <3>1 DEF Available
        <3>2. CASE \E j \in DOMAIN revs : revs'[i] = revs[j]
            BY <1>3, <3>2 DEF Stocked, Intact, Available
        <3> QED BY <1>3, <3>1, <3>2
    <2>2. cache' # None => Held(cache)' BY <1>1, <1>3 DEF Stocked, Held
    <2>3. call'[c].at \notin Making BY <1>3, EndsShape DEF Making
    <2>4. Equipped(call[c])' BY <2>3 DEF Equipped, Making
    <2> QED BY <1>1, <1>3, <2>1, <2>2, <2>4, StockedKept
<1> QED BY <1>1, <1>2, <1>3

LEMMA StepStocked ==
    ASSUME Types, Locking, Stocked, NEW c \in Callers, Step(c)
    PROVE  Stocked'
<1>1. ASSUME Shaped(c), UNCHANGED <<revs, blobs, files, manifests, cache>>, call'[c].at \notin Making
      PROVE  Stocked'
    BY <1>1, StockedStays DEF Shaped, Moves
<1>2. Ends(c) => call'[c].at \notin Making BY EndsShape DEF Making
<1>3. \A a : a \notin Making /\ Steady(c, a) => call'[c].at \notin Making BY DEF Steady
<1>4. /\ \A a \in {"effect", "content", "lock", "r_write", "r_clear", "r_copy", "r_record",
                   "undo", "u_clear", "u_copy", "unavailable", "d_revs"} : a \notin Making
    BY DEF Making
<1>5. CASE SaveWrite(c) BY <1>1, <1>2, <1>4, <1>5, SaveWriteShape
<1>6. CASE SaveEffect(c) BY <1>1, <1>2, <1>4, <1>6, SaveEffectShape
<1>7. CASE ContentRead(c) BY <1>1, <1>2, <1>4, <1>7, ContentReadShape
<1>8. CASE Acquire(c)
    <2>1. /\ Shaped(c) /\ UNCHANGED <<revs, blobs, files, manifests, cache>>
          /\ Ends(c) \/ (call'[c].at = "blob" /\ call'[c].rev = Latest)
        BY <1>8, AcquireShape
    <2> QED BY <1>2, <2>1, StockedStays DEF Shaped, Moves
<1>9. CASE SaveBlob(c) BY <1>9, SaveBlobStocked
<1>10. CASE ResolveManifest(c) BY <1>10, ResolveManifestStocked
<1>11. CASE Persist(c) BY <1>11, PersistStocked
<1>12. CASE Revise(c) BY <1>12, ReviseStocked
<1>13. CASE Tidy(c) BY <1>13, TidyStocked
<1>14. CASE \E n \in Names : UploadWrite(c, n) BY <1>1, <1>4, <1>14, UploadWriteShape
<1>15. CASE RestoreRead(c) BY <1>1, <1>2, <1>4, <1>15, RestoreReadShape
<1>16. CASE RestoreWrite(c) BY <1>1, <1>2, <1>3, <1>4, <1>16, RestoreWriteShape
<1>17. CASE RestoreClear(c)
    BY <1>1, <1>3, <1>4, <1>17, ClearShape DEF RestoreClear, Changing
<1>18. CASE RestoreCopy(c) BY <1>1, <1>3, <1>4, <1>18, RestoreCopyShape
<1>19. CASE RestoreRecord(c) BY <1>19, RestoreRecordStocked
<1>20. CASE Undo(c) BY <1>1, <1>3, <1>4, <1>20, UndoShape
<1>21. CASE UndoClear(c)
    BY <1>1, <1>3, <1>4, <1>21, ClearShape DEF UndoClear, Changing
<1>22. CASE UndoCopy(c) BY <1>1, <1>2, <1>22, UndoCopyShape
<1>23. CASE Read(c) BY <1>1, <1>2, <1>3, <1>4, <1>23, ReadShape
<1>24. CASE ReadFails(c) BY <1>1, <1>2, <1>24, ReadFailsShape
<1>25. CASE DeleteAssets(c) BY <1>1, <1>4, <1>25, DeleteAssetsShape
<1>26. CASE DeleteRevisions(c)
    <2>1. /\ Shaped(c) /\ Ends(c) /\ UNCHANGED <<blobs, files, manifests>>
          /\ revs' = <<>> /\ cache' = None
        BY <1>26, DeleteRevisionsShape
    <2>2. Intact' BY <2>1 DEF Intact
    <2>3. Equipped(call[c])' BY <1>2, <2>1 DEF Equipped, Making
    <2> QED BY <2>1, <2>2, <2>3, StockedKept DEF Shaped, Moves
<1> QED BY <1>5, <1>6, <1>7, <1>8, <1>9, <1>10, <1>11, <1>12, <1>13, <1>14, <1>15, <1>16, <1>17, <1>18,
            <1>19, <1>20, <1>21, <1>22, <1>23, <1>24, <1>25, <1>26 DEF Step

LEMMA RequestStocked ==
    ASSUME Types, Locking, Stocked, NEW c \in Callers, Request(c)
    PROVE  Stocked'
<1>1. ASSUME Shaped(c), UNCHANGED <<revs, blobs, files, manifests, cache>>, call'[c].at \notin Making
      PROVE  Stocked'
    BY <1>1, StockedStays DEF Shaped, Moves
<1>2. \A a \in {"write", "upload", "lock", "r_lock", "read", "d_assets"} : a \notin Making
    BY DEF Making
<1>3. CASE \E b \in Bodies, x \in Extras, t \in Titles : SaveBegin(c, b, x, t)
    BY <1>1, <1>2, <1>3, SaveBeginShape DEF Starts
<1>4. CASE \E f \in Files : UploadBegin(c, f) BY <1>1, <1>2, <1>4, UploadBeginShape DEF Starts
<1>5. CASE \E n \in Names : DeleteAsset(c, n) BY <1>1, <1>2, <1>5, DeleteAssetShape
<1>6. CASE \E n, m \in Names : RenameAsset(c, n, m) BY <1>1, <1>2, <1>6, RenameAssetShape
<1>7. CASE \E id \in Ids : RestoreBegin(c, id) BY <1>1, <1>2, <1>7, RestoreBeginShape DEF Starts
<1>8. CASE \E id \in Ids : ReadBegin(c, id) BY <1>1, <1>2, <1>8, ReadBeginShape DEF Starts
<1>9. CASE DeleteTree(c) BY <1>1, <1>2, <1>9, DeleteTreeShape DEF Starts
<1> QED BY <1>3, <1>4, <1>5, <1>6, <1>7, <1>8, <1>9 DEF Request

LEMMA RestartStocked ==
    ASSUME Types, Stocked, Restart
    PROVE  Stocked'
<1>1. /\ UNCHANGED <<revs, blobs, files, manifests>> /\ cache' = None
      /\ \A d \in Callers : call'[d].at \in {"idle", "content"}
    BY RestartShape
<1>2. Intact' BY <1>1 DEF Stocked, Intact, Available
<1>3. ASSUME NEW d \in Callers PROVE Equipped(call[d])' BY <1>1 DEF Equipped, Making
<1> QED BY <1>1, <1>2, <1>3 DEF Stocked

-----------------------------------------------------------------------------
(* A caller that is alone *)

LEMMA AloneKept ==
    ASSUME Types, Alone, NEW c \in Callers, Others(c), ~disturbed' => disturbed' = disturbed, call[c].at # "idle",
           AtStep(call[c]) /\ ~disturbed' => AtStep(call[c])'
    PROVE  Alone'
<1> SUFFICES ASSUME ~disturbed' PROVE \E e \in Callers : Only(e)' /\ AtStep(call[e])' BY DEF Alone
<1>1. PICK e \in Callers : Only(e) /\ AtStep(call[e]) BY DEF Alone
<1>2. e = c BY <1>1 DEF Only
<1>3. Only(c)' BY <1>1, <1>2 DEF Only, Others, Like
<1> QED BY <1>1, <1>2, <1>3

LEMMA AloneBegins ==
    ASSUME Types, Alone, NEW c \in Callers, Others(c), page # None,
           ~disturbed' => ~disturbed /\ \A d \in Callers : call[d] = Idle,
           Settled => AtStep(call[c])'
    PROVE  Alone'
<1> SUFFICES ASSUME ~disturbed' PROVE \E e \in Callers : Only(e)' /\ AtStep(call[e])' BY DEF Alone
<1>1. PICK e \in Callers : Only(e) /\ AtStep(call[e]) BY DEF Alone
<1>2. \A d \in Callers : call[d].at = "idle" BY IdleIn
<1>3. Settled BY <1>1, <1>2 DEF AtStep, InStep
<1>4. Only(c)' BY <1>2 DEF Only, Others, Like
<1> QED BY <1>3, <1>4

LEMMA AtWork ==
    ASSUME NEW k, AtStep(k), k.at \notin {"idle"} \union Deleting
    PROVE  page # None /\ InStep(k)
BY DEF AtStep, Leaving

\* A request that ends with the page and its history in step.
LEMMA EndsAlone ==
    ASSUME Types, NEW c \in Callers, Ends(c), page' # None, Settled'
    PROVE  AtStep(call[c])'
<1>1. call'[c].at = "idle" /\ call'[c].kind = "none" BY EndsShape
<1> QED BY <1>1 DEF AtStep, InStep, Making, Changing, Reading

LEMMA SaveWriteAlone ==
    ASSUME Types, NEW c \in Callers, AtStep(call[c]), SaveWrite(c)
    PROVE  AtStep(call[c])'
<1>1. /\ call[c].at = "write" /\ UNCHANGED <<live, revs, files, cache, crashed, restored>>
      /\ \/ Ends(c) /\ page' = page
         \/ /\ page' # None /\ call'[c].at = "effect" /\ call'[c].old = call[c].old
    BY SaveWriteShape
<1>2. page # None /\ InStep(call[c]) BY <1>1, AtWork DEF Deleting
<1>3. Settled /\ call[c].old = page BY <1>1, <1>2 DEF InStep
<1>4. CASE Ends(c) /\ page' = page
    <2>1. Settled' BY <1>1, <1>3, <1>4 DEF Settled, Follows, Backed, Newest
    <2> QED BY <1>2, <1>4, <2>1, EndsAlone
<1>5. CASE page' # None /\ call'[c].at = "effect" /\ call'[c].old = call[c].old
    <2>1. Follows(call[c].old.body, call[c].old.title, live)' /\ Backed(live)'
        BY <1>1, <1>3, <1>5 DEF Settled, Follows, Backed, Newest
    <2> QED BY <1>5, <2>1 DEF AtStep, InStep, Making, Changing, Reading
<1> QED BY <1>1, <1>4, <1>5

LEMMA SaveEffectAlone ==
    ASSUME Types, NEW c \in Callers, AtStep(call[c]), SaveEffect(c)
    PROVE  AtStep(call[c])'
<1>1. /\ call[c].at = "effect" /\ UNCHANGED <<page, live, revs, files, cache, crashed, restored>>
      /\ \/ Ends(c) /\ (page = None \/ (call[c].old.body = page.body /\ call[c].old.title = page.title))
         \/ call[c].old.body # page.body /\ call'[c].at = "content"
         \/ /\ call[c].old.body = page.body
            /\ call'[c].at = "lock" /\ call'[c].kind = "structure"
    BY SaveEffectShape
<1>2. page # None /\ InStep(call[c]) BY <1>1, AtWork DEF Deleting
<1>3. Follows(call[c].old.body, call[c].old.title, live) /\ Backed(live) BY <1>1, <1>2 DEF InStep
<1>4. Backed(live)' BY <1>1, <1>3 DEF Backed
<1>5. CASE Ends(c) /\ call[c].old.body = page.body /\ call[c].old.title = page.title
    <2>1. Settled' BY <1>1, <1>3, <1>4, <1>5 DEF Settled, Follows, Newest
    <2> QED BY <1>1, <1>2, <1>5, <2>1, EndsAlone
<1>6. CASE call[c].old.body # page.body /\ call'[c].at = "content"
    <2>1. Differs' BY <1>1, <1>3, <1>6 DEF Differs, Follows, Newest
    <2> QED BY <1>1, <1>2, <1>4, <1>6, <2>1 DEF AtStep, InStep, Making, Changing, Reading
<1>7. CASE /\ call[c].old.body = page.body
           /\ call'[c].at = "lock" /\ call'[c].kind = "structure"
    <2>1. (revs # <<>> /\ Newest.body = page.body)' BY <1>1, <1>3, <1>7 DEF Follows, Newest
    <2> QED BY <1>1, <1>2, <1>4, <1>7, <2>1 DEF AtStep, InStep, Making, Changing, Reading
<1> QED BY <1>1, <1>2, <1>5, <1>6, <1>7

LEMMA ContentReadAlone ==
    ASSUME Types, NEW c \in Callers, AtStep(call[c]), ContentRead(c)
    PROVE  AtStep(call[c])'
<1>1. /\ call[c].at = "content" /\ UNCHANGED <<page, live, revs, files, cache, crashed, restored>>
      /\ page # None => /\ call'[c].body = page.body
                        /\ call'[c].at = "lock" /\ call'[c].kind = "content"
    BY ContentReadShape
<1>2. page # None /\ InStep(call[c]) BY <1>1, AtWork DEF Deleting
<1>3. Differs /\ Backed(live) BY <1>1, <1>2 DEF InStep
<1>4. Differs' /\ Backed(live)' BY <1>1, <1>3 DEF Differs, Backed, Newest
<1> QED BY <1>1, <1>2, <1>4 DEF AtStep, InStep, Making, Changing, Reading

LEMMA AcquireAlone ==
    ASSUME Types, Stocked, NEW c \in Callers, AtStep(call[c]), Acquire(c)
    PROVE  AtStep(call[c])'
<1>1. /\ call[c].at = "lock" /\ UNCHANGED <<page, live, revs, files, cache, crashed, restored>>
      /\ \/ /\ Ends(c)
            /\ \/ page = None
               \/ /\ page # None /\ call[c].kind # "structure" /\ revs # <<>>
                  /\ Newest.body = IF call[c].kind = "content" THEN call[c].body ELSE page.body
                  /\ call[c].kind = "asset" => Newest.assets = live
         \/ /\ call'[c].at = "blob" /\ call'[c].kind = call[c].kind
            /\ call'[c].rev = Latest /\ call'[c].title = page.title
            /\ call'[c].body = IF call[c].kind = "content" THEN call[c].body ELSE page.body
            /\ call'[c].kind = "asset" => call'[c].assets = live
    BY AcquireShape
<1>2. page # None /\ InStep(call[c]) BY <1>1, AtWork DEF Deleting
<1>3. call[c].kind \in {"content", "structure", "asset"}
    BY <1>1, CallIn DEF Types, Formed, Recording
<1>4. /\ call[c].kind = "content" => call[c].body = page.body /\ Differs /\ Backed(live)
      /\ call[c].kind = "structure" => Backed(live)
      /\ call[c].kind = "asset" => Follows(page.body, page.title, cache) /\ (crashed \/ cache # None)
    BY <1>1, <1>2 DEF InStep
<1>5. CASE /\ Ends(c) /\ call[c].kind # "structure" /\ revs # <<>>
           /\ Newest.body = IF call[c].kind = "content" THEN call[c].body ELSE page.body
           /\ call[c].kind = "asset" => Newest.assets = live
    <2>1. Newest.body = page.body BY <1>4, <1>5
    <2>2. CASE call[c].kind = "content"
        <3>1. crashed BY <1>4, <2>1, <2>2 DEF Differs
        <3>2. Settled' BY <1>1, <1>5, <2>1, <3>1 DEF Settled, Follows, Backed, Newest
        <3> QED BY <1>1, <1>2, <1>5, <3>2, EndsAlone
    <2>3. CASE call[c].kind = "asset"
        <3>1. Newest.assets = live BY <1>5, <2>3
        <3>2. BlobsOf(live) \subseteq files
            BY <1>5, <3>1, RevisionIn DEF Types, Shapes, Stocked, Intact, Available, Newest
        <3>3. Follows(page.body, page.title, live) BY <1>4, <2>3, <3>1 DEF Follows
        <3>4. Backed(live) BY <1>4, <2>3, <3>1, <3>2 DEF Backed, Follows
        <3>5. Settled' BY <1>1, <3>3, <3>4 DEF Settled, Follows, Backed, Newest
        <3> QED BY <1>1, <1>2, <1>5, <3>5, EndsAlone
    <2> QED BY <1>3, <1>5, <2>2, <2>3
<1>6. CASE /\ call'[c].at = "blob" /\ call'[c].kind = call[c].kind
           /\ call'[c].rev = Latest /\ call'[c].title = page.title
           /\ call'[c].body = IF call[c].kind = "content" THEN call[c].body ELSE page.body
           /\ call'[c].kind = "asset" => call'[c].assets = live
    <2>1. call'[c].body = page'.body /\ call'[c].title = page'.title BY <1>1, <1>4, <1>6
    <2>2. call'[c].rev = Latest' BY <1>1, <1>6 DEF Latest, Newest
    <2>3. call'[c].kind # "asset" => Backed(live)' BY <1>1, <1>3, <1>4, <1>6 DEF Backed
    <2>4. call'[c].kind = "asset" => call'[c].assets = live' BY <1>1, <1>6
    <2> QED BY <1>1, <1>2, <1>6, <2>1, <2>2, <2>3, <2>4 DEF AtStep, InStep, Making, Changing, Reading
<1> QED BY <1>1, <1>2, <1>5, <1>6

LEMMA SaveBlobAlone ==
    ASSUME Types, NEW c \in Callers, AtStep(call[c]), SaveBlob(c)
    PROVE  AtStep(call[c])'
<1> DEFINE a == IF call[c].kind = "asset" THEN "persist" ELSE "manifest"
<1>1. /\ call[c].at = "blob" /\ UNCHANGED <<page, live, revs, files, cache, crashed, restored>>
      /\ Steady(c, a) /\ call'[c].assets = call[c].assets
    BY SaveBlobShape
<1>2. page # None /\ InStep(call[c]) BY <1>1, AtWork DEF Deleting
<1>3. /\ call[c].body = page.body /\ call[c].title = page.title /\ call[c].rev = Latest
      /\ call[c].kind # "asset" => Backed(live)
      /\ call[c].kind = "asset" => call[c].assets = live
    BY <1>1, <1>2 DEF InStep, Making
<1>4. /\ call'[c].body = page'.body /\ call'[c].title = page'.title /\ call'[c].rev = Latest'
      /\ call'[c].kind # "asset" => Backed(live)'
      /\ call'[c].kind = "asset" => call'[c].assets = live'
      /\ call'[c].at = a /\ call'[c].kind = call[c].kind
    BY <1>1, <1>3 DEF Steady, Latest, Newest, Backed
<1>5. CASE call[c].kind = "asset"
    BY <1>1, <1>2, <1>4, <1>5 DEF AtStep, InStep, Making, Changing, Reading
<1>6. CASE call[c].kind # "asset"
    BY <1>1, <1>2, <1>4, <1>6 DEF AtStep, InStep, Making, Changing, Reading
<1> QED BY <1>5, <1>6

LEMMA ResolveManifestAlone ==
    ASSUME Types, NEW c \in Callers, AtStep(call[c]), ResolveManifest(c)
    PROVE  AtStep(call[c])'
<1>1. /\ call[c].at = "manifest" /\ UNCHANGED <<page, live, revs, files, crashed, restored>>
      /\ call[c].kind # "asset"
      /\ \/ Steady(c, "revise") /\ call'[c].assets = cache' /\ (cache # None => cache' = cache)
         \/ cache' = cache /\ Steady(c, "persist") /\ call'[c].assets = live
    BY ResolveManifestShape
<1>2. page # None /\ InStep(call[c]) BY <1>1, AtWork DEF Deleting
<1>3. call[c].body = page.body /\ call[c].title = page.title /\ call[c].rev = Latest /\ Backed(live)
    BY <1>1, <1>2 DEF InStep, Making
<1>4. /\ call'[c].body = page'.body /\ call'[c].title = page'.title /\ call'[c].rev = Latest'
    BY <1>1, <1>3 DEF Steady, Latest, Newest
<1>5. CASE Steady(c, "revise") /\ call'[c].assets = cache' /\ (cache # None => cache' = cache)
    <2>1. Backed(live)' /\ (crashed' \/ restored' \/ call'[c].assets = live')
        BY <1>1, <1>3, <1>5 DEF Backed
    <2>2. call'[c].at = "revise" BY <1>5 DEF Steady
    <2> QED BY <1>1, <1>2, <1>4, <2>1, <2>2 DEF AtStep, InStep, Making, Changing, Reading
<1>6. CASE cache' = cache /\ Steady(c, "persist") /\ call'[c].assets = live
    <2>1. call'[c].at = "persist" BY <1>6 DEF Steady
    <2> QED BY <1>1, <1>2, <1>4, <1>6, <2>1 DEF AtStep, InStep, Making, Changing, Reading
<1> QED BY <1>1, <1>5, <1>6

LEMMA PersistAlone ==
    ASSUME Types, Locking, NEW c \in Callers, AtStep(call[c]), Persist(c)
    PROVE  AtStep(call[c])'
<1>1. /\ call[c].at = "persist" /\ UNCHANGED <<page, live, revs, crashed>>
      /\ Same(call[c].assets) => /\ files' = files \union BlobsOf(call[c].assets)
                                 /\ cache' = call[c].assets /\ restored' = FALSE
                                 /\ Steady(c, "revise") /\ call'[c].assets = call[c].assets
    BY PersistShape
<1>2. page # None /\ InStep(call[c]) BY <1>1, AtWork DEF Deleting
<1>3. /\ call[c].body = page.body /\ call[c].title = page.title /\ call[c].rev = Latest
      /\ call[c].assets = live
    BY <1>1, <1>2 DEF InStep, Making
<1>4. Same(call[c].assets) BY <1>3 DEF Same
<1>5. /\ call'[c].body = page'.body /\ call'[c].title = page'.title /\ call'[c].rev = Latest'
      /\ call'[c].assets = live' /\ call'[c].at = "revise"
    BY <1>1, <1>3, <1>4 DEF Steady, Latest, Newest
<1>6. live # None BY Given DEF Types, Shapes
<1>7. Backed(live)' BY <1>1, <1>3, <1>4, <1>6 DEF Backed
<1> QED BY <1>1, <1>2, <1>5, <1>7 DEF AtStep, InStep, Making, Changing, Reading

LEMMA ReviseAlone ==
    ASSUME Types, Locking, NEW c \in Callers, AtStep(call[c]), Revise(c)
    PROVE  AtStep(call[c])'
<1>1. /\ call[c].at = "revise" /\ UNCHANGED <<page, live, files, cache, crashed, restored>>
      /\ \/ /\ Steady(c, "tidy") /\ revs' # <<>>
            /\ Newest'.body = call[c].body /\ Newest'.title = call[c].title
            /\ Newest'.assets = call[c].assets
         \/ call[c].coalesce /\ call[c].rev.id \notin Ids
    BY ReviseShape
<1>2. page # None /\ InStep(call[c]) BY <1>1, AtWork DEF Deleting
<1>3. /\ call[c].body = page.body /\ call[c].title = page.title /\ call[c].rev = Latest
      /\ Backed(live) /\ (crashed \/ restored \/ call[c].assets = live)
    BY <1>1, <1>2 DEF InStep, Making
<1>4. ~(call[c].coalesce /\ call[c].rev.id \notin Ids)
    <2> SUFFICES ASSUME call[c].coalesce PROVE call[c].rev.id \in Ids OBVIOUS
    <2>1. call[c].rev # None BY <1>1 DEF Types, Formed, Making
    <2>2. revs # <<>> /\ call[c].rev = Newest BY <1>3, <2>1 DEF Latest
    <2> QED BY <2>2, RevisionIn DEF Newest, Ids, Types, Shapes
<1>5. call'[c].at = "tidy" BY <1>1, <1>4 DEF Steady
<1>6. Settled' BY <1>1, <1>3, <1>4 DEF Settled, Follows, Backed
<1> QED BY <1>1, <1>2, <1>5, <1>6 DEF AtStep, InStep, Making, Changing, Reading

LEMMA TidyAlone ==
    ASSUME Types, Locking, NEW c \in Callers, AtStep(call[c]), Tidy(c)
    PROVE  AtStep(call[c])'
<1>1. /\ call[c].at = "tidy" /\ Ends(c) /\ UNCHANGED <<page, live, files, cache, crashed, restored>>
      /\ revs # <<>> => revs' # <<>> /\ Newest' = Newest
    BY TidyShape
<1>2. page # None /\ InStep(call[c]) BY <1>1, AtWork DEF Deleting
<1>3. Settled BY <1>1, <1>2 DEF InStep
<1>4. Settled' BY <1>1, <1>3 DEF Settled, Follows, Backed
<1> QED BY <1>1, <1>2, <1>4, EndsAlone

\* The directory changes before its record is made.
LEMMA ToTheLockAlone ==
    ASSUME NEW c \in Callers, Settled, page # None, UNCHANGED <<page, revs, cache, crashed, restored>>,
           call'[c].at = "lock", call'[c].kind = "asset"
    PROVE  AtStep(call[c])'
<1>1. Follows(page.body, page.title, cache)' /\ (crashed \/ cache # None)'
    BY DEF Settled, Follows, Backed, Newest
<1> QED BY <1>1 DEF AtStep, InStep, Making, Changing, Reading

LEMMA UploadWriteAlone ==
    ASSUME Types, NEW c \in Callers, NEW n \in Names, AtStep(call[c]), UploadWrite(c, n)
    PROVE  AtStep(call[c])'
<1>1. /\ call[c].at = "upload" /\ UNCHANGED <<page, revs, cache, crashed, restored>>
      /\ call'[c].at = "lock" /\ call'[c].kind = "asset"
    BY UploadWriteShape
<1>2. page # None /\ InStep(call[c]) BY <1>1, AtWork DEF Deleting
<1>3. Settled BY <1>1, <1>2 DEF InStep
<1> QED BY <1>1, <1>2, <1>3, ToTheLockAlone

LEMMA RestoreReadAlone ==
    ASSUME Types, NEW c \in Callers, AtStep(call[c]), RestoreRead(c)
    PROVE  AtStep(call[c])'
<1>1. /\ call[c].at = "r_lock" /\ UNCHANGED <<page, live, revs, files, cache, crashed, restored>>
      /\ \/ Ends(c)
         \/ /\ call'[c].old = page /\ call'[c].assets = live
            /\ call'[c].at = "r_write" /\ call'[c].kind = "none"
    BY RestoreReadShape
<1>2. page # None /\ InStep(call[c]) BY <1>1, AtWork DEF Deleting
<1>3. Settled BY <1>1, <1>2 DEF InStep
<1>4. Settled' BY <1>1, <1>3 DEF Settled, Follows, Backed, Newest
<1>5. CASE Ends(c) BY <1>1, <1>2, <1>4, <1>5, EndsAlone
<1>6. CASE /\ call'[c].old = page /\ call'[c].assets = live
           /\ call'[c].at = "r_write" /\ call'[c].kind = "none"
    BY <1>1, <1>2, <1>4, <1>6 DEF AtStep, InStep, Making, Changing, Reading
<1> QED BY <1>1, <1>5, <1>6

\* What a restore goes back to stays what the history is about.
LEMMA WayBackKept ==
    ASSUME NEW c \in Callers, NEW a, Steady(c, a), call'[c].assets = call[c].assets,
           UNCHANGED <<revs, files, cache, crashed, restored>>,
           Follows(call[c].old.body, call[c].old.title, call[c].assets), Backed(call[c].assets)
    PROVE  /\ Follows(call[c].old.body, call[c].old.title, call[c].assets)'
           /\ Backed(call[c].assets)'
           /\ call'[c].at = a /\ call'[c].rev = call[c].rev /\ call'[c].old = call[c].old
BY DEF Steady, Follows, Backed, Newest

LEMMA RestoreWriteAlone ==
    ASSUME Types, Locking, NEW c \in Callers, AtStep(call[c]), RestoreWrite(c)
    PROVE  AtStep(call[c])'
<1>1. /\ call[c].at = "r_write" /\ UNCHANGED <<live, revs, files, cache, crashed, restored>>
      /\ \/ page = None
         \/ /\ page' # None /\ page'.body = call[c].rev.body /\ page'.title = call[c].rev.title
            /\ Steady(c, "r_clear") /\ call'[c].assets = call[c].assets
    BY RestoreWriteShape
<1>2. page # None /\ InStep(call[c]) BY <1>1, AtWork DEF Deleting
<1>3. Settled /\ call[c].old = page /\ call[c].assets = live BY <1>1, <1>2 DEF InStep
<1>4. Follows(call[c].old.body, call[c].old.title, call[c].assets) /\ Backed(call[c].assets)
    BY <1>3 DEF Settled
<1>5. /\ Follows(call[c].old.body, call[c].old.title, call[c].assets)' /\ Backed(call[c].assets)'
      /\ call'[c].at = "r_clear" /\ call'[c].rev = call[c].rev
    BY <1>1, <1>2, <1>4, WayBackKept
<1>6. page'.body = call'[c].rev.body /\ page'.title = call'[c].rev.title BY <1>1, <1>2, <1>5
<1> QED BY <1>1, <1>2, <1>5, <1>6 DEF AtStep, InStep, Making, Changing, Reading

LEMMA RestoreClearAlone ==
    ASSUME Types, NEW c \in Callers, AtStep(call[c]), RestoreClear(c)
    PROVE  AtStep(call[c])'
<1>1. call[c].at = "r_clear" /\ Clear(c, "r_copy") BY DEF RestoreClear
<1>2. /\ live' = <<>> /\ UNCHANGED <<page, revs, files, cache, crashed, restored>>
      /\ Steady(c, "r_copy") /\ call'[c].assets = call[c].assets
    BY <1>1, ClearShape DEF Changing
<1>3. page # None /\ InStep(call[c]) BY <1>1, AtWork DEF Deleting
<1>4. /\ Follows(call[c].old.body, call[c].old.title, call[c].assets) /\ Backed(call[c].assets)
      /\ page.body = call[c].rev.body /\ page.title = call[c].rev.title
    BY <1>1, <1>3 DEF InStep, Changing
<1>5. /\ Follows(call[c].old.body, call[c].old.title, call[c].assets)' /\ Backed(call[c].assets)'
      /\ call'[c].at = "r_copy" /\ call'[c].rev = call[c].rev
    BY <1>2, <1>4, WayBackKept
<1>6. page'.body = call'[c].rev.body /\ page'.title = call'[c].rev.title BY <1>2, <1>4, <1>5
<1> QED BY <1>2, <1>3, <1>5, <1>6 DEF AtStep, InStep, Making, Changing, Reading

LEMMA RestoreCopyAlone ==
    ASSUME Types, NEW c \in Callers, AtStep(call[c]), RestoreCopy(c)
    PROVE  AtStep(call[c])'
<1>1. /\ call[c].at = "r_copy" /\ call[c].rev.assets \in Manifests
      /\ UNCHANGED <<page, revs, files, cache, crashed, restored>>
      /\ \/ /\ Steady(c, "r_record") /\ call'[c].assets = call[c].assets
            /\ live' = Written(call[c].rev.assets, live)
         \/ Steady(c, "undo") /\ call'[c].assets = call[c].assets
    BY RestoreCopyShape
<1>2. page # None /\ InStep(call[c]) BY <1>1, AtWork DEF Deleting
<1>3. /\ Follows(call[c].old.body, call[c].old.title, call[c].assets) /\ Backed(call[c].assets)
      /\ page.body = call[c].rev.body /\ page.title = call[c].rev.title /\ live = <<>>
    BY <1>1, <1>2 DEF InStep, Changing
<1>4. CASE Steady(c, "r_record") /\ live' = Written(call[c].rev.assets, live)
    <2>1. /\ Follows(call[c].old.body, call[c].old.title, call[c].assets)' /\ Backed(call[c].assets)'
          /\ call'[c].at = "r_record" /\ call'[c].rev = call[c].rev
        BY <1>1, <1>3, <1>4, WayBackKept
    <2>2. live' = call'[c].rev.assets BY <1>1, <1>3, <1>4, <2>1, WrittenToNothing
    <2>3. page'.body = call'[c].rev.body /\ page'.title = call'[c].rev.title BY <1>1, <1>3, <2>1
    <2> QED BY <1>1, <1>2, <2>1, <2>2, <2>3 DEF AtStep, InStep, Making, Changing, Reading
<1>5. CASE Steady(c, "undo")
    <2>1. /\ Follows(call[c].old.body, call[c].old.title, call[c].assets)' /\ Backed(call[c].assets)'
          /\ call'[c].at = "undo"
        BY <1>1, <1>3, <1>5, WayBackKept
    <2> QED BY <1>1, <1>2, <2>1 DEF AtStep, InStep, Making, Changing, Reading
<1> QED BY <1>1, <1>4, <1>5

LEMMA RestoreRecordAlone ==
    ASSUME Types, Locking, NEW c \in Callers, AtStep(call[c]), RestoreRecord(c)
    PROVE  AtStep(call[c])'
<1>1. /\ call[c].at = "r_record" /\ UNCHANGED <<page, live, cache, crashed>>
      /\ \/ /\ Ends(c) /\ restored' = TRUE /\ files' = files \union BlobsOf(live) /\ revs' # <<>>
            /\ Newest'.body = page.body /\ Newest'.title = page.title
         \/ /\ Steady(c, "undo") /\ call'[c].assets = call[c].assets
            /\ UNCHANGED <<files, revs, restored>>
    BY RestoreRecordShape
<1>2. page # None /\ InStep(call[c]) BY <1>1, AtWork DEF Deleting
<1>3. Follows(call[c].old.body, call[c].old.title, call[c].assets) /\ Backed(call[c].assets)
    BY <1>1, <1>2 DEF InStep, Changing
<1>4. CASE /\ Ends(c) /\ restored' = TRUE /\ files' = files \union BlobsOf(live) /\ revs' # <<>>
           /\ Newest'.body = page.body /\ Newest'.title = page.title
    <2>1. Follows(page.body, page.title, live)' BY <1>1, <1>4 DEF Follows
    <2>2. Backed(live)' BY <1>1, <1>3, <1>4 DEF Backed
    <2>3. Settled' BY <2>1, <2>2 DEF Settled
    <2> QED BY <1>1, <1>2, <1>4, <2>3, EndsAlone
<1>5. CASE /\ Steady(c, "undo") /\ call'[c].assets = call[c].assets
           /\ UNCHANGED <<files, revs, restored>>
    <2>1. /\ Follows(call[c].old.body, call[c].old.title, call[c].assets)' /\ Backed(call[c].assets)'
          /\ call'[c].at = "undo"
        BY <1>1, <1>3, <1>5, WayBackKept
    <2> QED BY <1>1, <1>2, <2>1 DEF AtStep, InStep, Making, Changing, Reading
<1> QED BY <1>1, <1>4, <1>5

LEMMA UndoAlone ==
    ASSUME Types, NEW c \in Callers, AtStep(call[c]), Undo(c), ~disturbed'
    PROVE  AtStep(call[c])'
<1>1. /\ call[c].at = "undo" /\ UNCHANGED <<live, revs, files, cache, crashed, restored>>
      /\ Steady(c, "u_clear") /\ call'[c].assets = call[c].assets
      /\ page # None => /\ page' # None /\ page'.body = call[c].old.body
                        /\ page'.title = call[c].old.title
    BY UndoShape
<1>2. page # None /\ InStep(call[c]) BY <1>1, AtWork DEF Deleting
<1>3. Follows(call[c].old.body, call[c].old.title, call[c].assets) /\ Backed(call[c].assets)
    BY <1>1, <1>2 DEF InStep, Changing
<1>4. /\ Follows(call[c].old.body, call[c].old.title, call[c].assets)' /\ Backed(call[c].assets)'
      /\ call'[c].at = "u_clear" /\ call'[c].old = call[c].old
    BY <1>1, <1>3, WayBackKept
<1>5. page' # None /\ page'.body = call'[c].old.body /\ page'.title = call'[c].old.title
    BY <1>1, <1>2, <1>4
<1> QED BY <1>4, <1>5 DEF AtStep, InStep, Making, Changing, Reading

LEMMA UndoClearAlone ==
    ASSUME Types, NEW c \in Callers, AtStep(call[c]), UndoClear(c)
    PROVE  AtStep(call[c])'
<1>1. call[c].at = "u_clear" /\ Clear(c, "u_copy") BY DEF UndoClear
<1>2. /\ live' = <<>> /\ UNCHANGED <<page, revs, files, cache, crashed, restored>>
      /\ Steady(c, "u_copy") /\ call'[c].assets = call[c].assets
    BY <1>1, ClearShape DEF Changing
<1>3. page # None /\ InStep(call[c]) BY <1>1, AtWork DEF Deleting
<1>4. /\ Follows(call[c].old.body, call[c].old.title, call[c].assets) /\ Backed(call[c].assets)
      /\ page.body = call[c].old.body /\ page.title = call[c].old.title
    BY <1>1, <1>3 DEF InStep, Changing
<1>5. /\ Follows(call[c].old.body, call[c].old.title, call[c].assets)' /\ Backed(call[c].assets)'
      /\ call'[c].at = "u_copy" /\ call'[c].old = call[c].old
    BY <1>2, <1>4, WayBackKept
<1>6. page'.body = call'[c].old.body /\ page'.title = call'[c].old.title BY <1>2, <1>4, <1>5
<1> QED BY <1>2, <1>3, <1>5, <1>6 DEF AtStep, InStep, Making, Changing, Reading

\* Before a crash every file the rollback copies back was stored.
LEMMA UndoCopyReturns ==
    ASSUME Types, Locking, NEW c \in Callers, AtStep(call[c]), UndoCopy(c), ~crashed, ~disturbed'
    PROVE  live' = call[c].assets
<1>1. /\ call[c].at = "u_copy" /\ call[c].assets \in Manifests
      /\ \E S \in SUBSET DOMAIN call[c].assets :
            /\ ~disturbed' /\ BlobsOf(call[c].assets) \subseteq files => S = DOMAIN call[c].assets
            /\ live' = Written([n \in S |-> call[c].assets[n]], live)
    BY UndoCopyShape
<1>2. InStep(call[c]) BY <1>1, AtWork DEF Deleting
<1>3. Backed(call[c].assets) /\ live = <<>> BY <1>1, <1>2 DEF InStep, Changing
<1>4. BlobsOf(call[c].assets) \subseteq files BY <1>3 DEF Backed
<1>5. live' = Written([n \in DOMAIN call[c].assets |-> call[c].assets[n]], <<>>) BY <1>1, <1>3, <1>4
<1>6. [n \in DOMAIN call[c].assets |-> call[c].assets[n]] = call[c].assets BY <1>1, ManifestIsFunction
<1> QED BY <1>1, <1>5, <1>6, WrittenToNothing

LEMMA UndoCopyAlone ==
    ASSUME Types, Locking, NEW c \in Callers, AtStep(call[c]), UndoCopy(c), ~disturbed'
    PROVE  AtStep(call[c])'
<1>1. call[c].at = "u_copy" /\ Ends(c) /\ UNCHANGED <<page, revs, files, cache, crashed, restored>>
    BY UndoCopyShape
<1>2. page # None /\ InStep(call[c]) BY <1>1, AtWork DEF Deleting
<1>3. /\ Follows(call[c].old.body, call[c].old.title, call[c].assets) /\ Backed(call[c].assets)
      /\ page.body = call[c].old.body /\ page.title = call[c].old.title
    BY <1>1, <1>2 DEF InStep, Changing
<1>4. crashed \/ live' = call[c].assets BY UndoCopyReturns
<1>5. Settled' BY <1>1, <1>3, <1>4 DEF Settled, Follows, Backed, Newest
<1> QED BY <1>1, <1>2, <1>5, EndsAlone

LEMMA ReadAlone ==
    ASSUME Types, NEW c \in Callers, AtStep(call[c]), Read(c) \/ ReadFails(c)
    PROVE  AtStep(call[c])'
<1>1. /\ call[c].at \in Reading /\ UNCHANGED <<page, live, revs, files, cache, crashed, restored>>
      /\ Ends(c) \/ Steady(c, "unavailable")
    BY ReadShape, ReadFailsShape DEF Reading
<1>2. page # None /\ InStep(call[c]) BY <1>1, AtWork DEF Deleting, Reading
<1>3. Settled BY <1>1, <1>2 DEF InStep
<1>4. Settled' BY <1>1, <1>3 DEF Settled, Follows, Backed, Newest
<1>5. CASE Ends(c) BY <1>1, <1>2, <1>4, <1>5, EndsAlone
<1>6. CASE Steady(c, "unavailable")
    <2>1. call'[c].at = "unavailable" BY <1>6 DEF Steady
    <2> QED BY <1>1, <1>2, <1>4, <2>1 DEF AtStep, InStep, Making, Changing, Reading
<1> QED BY <1>1, <1>5, <1>6

LEMMA DeleteAlone ==
    ASSUME Types, NEW c \in Callers, AtStep(call[c]), DeleteAssets(c) \/ DeleteRevisions(c)
    PROVE  AtStep(call[c])'
<1>1. CASE DeleteAssets(c)
    <2>1. page' = None /\ call'[c].at = "d_revs" /\ live' = <<>> BY <1>1, DeleteAssetsShape
    <2> QED BY <2>1 DEF AtStep, Leaving, Deleting
<1>2. CASE DeleteRevisions(c)
    <2>1. /\ call[c].at = "d_revs" /\ page = None /\ Ends(c) /\ revs' = <<>>
          /\ UNCHANGED <<page, live, crashed>>
        BY <1>2, DeleteRevisionsShape
    <2>2. call'[c].at = "idle" BY <2>1, EndsShape
    <2> QED BY <2>1, <2>2 DEF AtStep, Leaving, Deleting
<1> QED BY <1>1, <1>2

LEMMA StepAtStep ==
    ASSUME Types, Locking, Stocked, NEW c \in Callers, AtStep(call[c]), Step(c), ~disturbed'
    PROVE  AtStep(call[c])'
BY SaveWriteAlone, SaveEffectAlone, ContentReadAlone, AcquireAlone, SaveBlobAlone, ResolveManifestAlone,
   PersistAlone, ReviseAlone, TidyAlone, UploadWriteAlone, RestoreReadAlone, RestoreWriteAlone,
   RestoreClearAlone, RestoreCopyAlone, RestoreRecordAlone, UndoAlone, UndoClearAlone, UndoCopyAlone,
   ReadAlone, DeleteAlone
   DEF Step

LEMMA StepGoes ==
    ASSUME Types, Locking, NEW c \in Callers, Step(c)
    PROVE  call[c].at # "idle" /\ crashed' = crashed /\ (~disturbed' => disturbed' = disturbed)
<1>1. CASE SaveWrite(c) \/ SaveEffect(c) \/ ContentRead(c) \/ Acquire(c)
    BY <1>1, SaveWriteShape, SaveEffectShape, ContentReadShape, AcquireShape
<1>2. CASE SaveBlob(c) \/ ResolveManifest(c) \/ Persist(c) \/ Revise(c) \/ Tidy(c)
    BY <1>2, SaveBlobShape, ResolveManifestShape, PersistShape, ReviseShape, TidyShape
<1>3. CASE \E n \in Names : UploadWrite(c, n)
    BY <1>3, UploadWriteShape
<1>4. CASE RestoreRead(c) \/ RestoreWrite(c) \/ RestoreCopy(c) \/ RestoreRecord(c)
    BY <1>4, RestoreReadShape, RestoreWriteShape, RestoreCopyShape, RestoreRecordShape
<1>5. CASE RestoreClear(c) \/ UndoClear(c)
    BY <1>5, ClearShape DEF RestoreClear, UndoClear, Changing
<1>6. CASE Undo(c) \/ UndoCopy(c) \/ Read(c) \/ ReadFails(c)
    BY <1>6, UndoShape, UndoCopyShape, ReadShape, ReadFailsShape
<1>7. CASE DeleteAssets(c) \/ DeleteRevisions(c)
    BY <1>7, DeleteAssetsShape, DeleteRevisionsShape
<1> QED BY <1>1, <1>2, <1>3, <1>4, <1>5, <1>6, <1>7 DEF Step

LEMMA StepAlone ==
    ASSUME Types, Locking, Stocked, Alone, NEW c \in Callers, Step(c)
    PROVE  Alone'
<1>1. Others(c) BY StepShape DEF Shaped, Moves
<1>2. call[c].at # "idle" /\ (~disturbed' => disturbed' = disturbed) BY StepGoes
<1>3. AtStep(call[c]) /\ ~disturbed' => AtStep(call[c])' BY StepAtStep
<1> QED BY <1>1, <1>2, <1>3, AloneKept

\* A request that begins and has changed nothing yet.
LEMMA BeginsAlone ==
    ASSUME Types, Alone, NEW c \in Callers, Starts(c), UNCHANGED <<page, live>>,
           \/ call'[c].at \in {"upload", "r_lock"} \union Reading
           \/ call'[c].at = "write" /\ call'[c].old = page
    PROVE  Alone'
<1>1. /\ Others(c) /\ page # None /\ UNCHANGED <<revs, files, cache, crashed, restored>>
      /\ ~disturbed' => ~disturbed /\ \A d \in Callers : call[d] = Idle
    BY DEF Starts, Shaped, Moves
<1>2. ASSUME Settled PROVE AtStep(call[c])'
    <2>1. Settled' BY <1>1, <1>2 DEF Settled, Follows, Backed, Newest
    <2> QED BY <1>1, <2>1 DEF AtStep, InStep, Making, Changing, Reading
<1> QED BY <1>1, <1>2, AloneBegins

LEMMA RequestAlone ==
    ASSUME Types, Alone, NEW c \in Callers, Request(c)
    PROVE  Alone'
<1>1. CASE \E b \in Bodies, x \in Extras, t \in Titles : SaveBegin(c, b, x, t)
    BY <1>1, SaveBeginShape, BeginsAlone
<1>2. CASE \E f \in Files : UploadBegin(c, f) BY <1>2, UploadBeginShape, BeginsAlone
<1>3. CASE \E n \in Names : DeleteAsset(c, n)
    <2>1. /\ Others(c) /\ page # None /\ UNCHANGED <<page, revs, cache, crashed, restored>>
          /\ ~disturbed' => ~disturbed /\ \A d \in Callers : call[d] = Idle
          /\ call'[c].at = "lock" /\ call'[c].kind = "asset"
        BY <1>3, DeleteAssetShape DEF Shaped, Moves
    <2> QED BY <2>1, AloneBegins, ToTheLockAlone
<1>4. CASE \E n, m \in Names : RenameAsset(c, n, m)
    <2>1. /\ Others(c) /\ page # None /\ UNCHANGED <<page, revs, cache, crashed, restored>>
          /\ ~disturbed' => ~disturbed /\ \A d \in Callers : call[d] = Idle
          /\ call'[c].at = "lock" /\ call'[c].kind = "asset"
        BY <1>4, RenameAssetShape DEF Shaped, Moves
    <2> QED BY <2>1, AloneBegins, ToTheLockAlone
<1>5. CASE \E id \in Ids : RestoreBegin(c, id) BY <1>5, RestoreBeginShape, BeginsAlone
<1>6. CASE \E id \in Ids : ReadBegin(c, id) BY <1>6, ReadBeginShape, BeginsAlone DEF Reading
<1>7. CASE DeleteTree(c)
    <2>1. /\ Others(c) /\ page # None /\ page' = None /\ call'[c].at = "d_assets"
          /\ ~disturbed' => ~disturbed /\ \A d \in Callers : call[d] = Idle
        BY <1>7, DeleteTreeShape DEF Starts, Shaped, Moves
    <2>2. AtStep(call[c])' BY <2>1 DEF AtStep, Leaving, Deleting
    <2> QED BY <2>1, <2>2, AloneBegins
<1> QED BY <1>1, <1>2, <1>3, <1>4, <1>5, <1>6, <1>7 DEF Request

LEMMA RestartAlone ==
    ASSUME Types, Restart
    PROVE  Alone'
<1>1. /\ crashed' = TRUE /\ page' = page
      /\ \A d \in Callers : d # System => call'[d].at = "idle"
      /\ call'[System].at = IF page = None THEN "idle" ELSE "content"
    BY RestartShape
<1>2. Only(System)' BY <1>1 DEF Only
<1>3. AtStep(call[System])'
    <2>1. CASE page = None BY <1>1, <2>1 DEF AtStep, Leaving
    <2>2. CASE page # None
        BY <1>1, <2>2 DEF AtStep, InStep, Differs, Backed, Making, Changing, Reading
    <2> QED BY <2>1, <2>2
<1> QED BY <1>2, <1>3, Given DEF Alone

-----------------------------------------------------------------------------
(* Uploads *)

\* A file that leaves the directory leaves the hands of the others, and is no
\* longer owed when one of them is to record the directory.
Spares(c) == \A f \in BlobsOf(live) :
    \/ f \in BlobsOf(live')
    \/ /\ \A d \in Callers : d # c /\ call[d].kind = "asset" => call'[d].file # f
       /\ (\E d \in Callers : d # c /\ call[d].kind = "asset") => f \notin acked'

LEMMA SweptSpares ==
    ASSUME NEW c \in Callers, NEW S, Swept(c, S), \A f \in BlobsOf(live) : f \in S \/ f \in BlobsOf(live')
    PROVE  Spares(c)
BY DEF Swept, Spares

LEMMA SparesWhenKept ==
    ASSUME NEW c \in Callers, BlobsOf(live) \subseteq BlobsOf(live')
    PROVE  Spares(c)
BY DEF Spares

LEMMA SparesWhenSame ==
    ASSUME NEW c \in Callers, live' = live
    PROVE  Spares(c)
BY DEF Spares

LEMMA CarriesKept ==
    ASSUME \A d \in Callers : Carries(call[d]), NEW c \in Callers, Others(c), files \subseteq files',
           Spares(c), Carries(call[c])'
    PROVE  \A d \in Callers : Carries(call[d])'
<1> SUFFICES ASSUME NEW d \in Callers, d # c PROVE Carries(call[d])' OBVIOUS
<1> SUFFICES ASSUME call'[d].file # None
             PROVE  /\ call'[d].at \in {"lock", "blob", "manifest", "persist"} =>
                         call'[d].kind = "asset" /\ call'[d].file \in BlobsOf(live')
                    /\ call'[d].at \in {"blob", "persist"} => call'[d].file \in BlobsOf(call'[d].assets)
                    /\ call'[d].at \in {"revise", "tidy"} => call'[d].file \in files'
    BY DEF Carries
<1>1. /\ call'[d].file = call[d].file /\ call'[d].at = call[d].at /\ call'[d].kind = call[d].kind
      /\ call'[d].assets = call[d].assets
    BY DEF Others, Like
<1>2. /\ call[d].at \in {"lock", "blob", "manifest", "persist"} =>
             call[d].kind = "asset" /\ call[d].file \in BlobsOf(live)
      /\ call[d].at \in {"blob", "persist"} => call[d].file \in BlobsOf(call[d].assets)
      /\ call[d].at \in {"revise", "tidy"} => call[d].file \in files
    BY <1>1 DEF Carries
<1>3. call[d].kind = "asset" /\ call[d].file \in BlobsOf(live) => call[d].file \in BlobsOf(live')
    BY <1>1 DEF Spares
<1> QED BY <1>1, <1>2, <1>3

\* A call that records nothing, or has nothing in hand.
LEMMA CarriesNothing ==
    ASSUME NEW c \in Callers, call'[c].file = None \/ call'[c].at \notin Recording
    PROVE  Carries(call[c])'
BY DEF Carries, Recording, Making

LEMMA ScannedKept ==
    ASSUME Locking, NEW c \in Callers, Others(c),
           \A d \in Callers : Scanned(call[d]) =>
              Same(call[d].assets) \/ \E e \in Callers : Waits(call[e]),
           live' = live \/ Waits(call'[c]) \/ call[c].at \in Holding,
           ~Waits(call[c]) \/ lock = None,
           Scanned(call'[c]) => \/ Same(call[c].assets)'
                                \/ Scanned(call[c]) /\ call'[c].assets = call[c].assets /\ live' = live
    PROVE  \A d \in Callers : Scanned(call'[d]) =>
              Same(call[d].assets)' \/ \E e \in Callers : Waits(call'[e])
<1>1. ASSUME NEW e \in Callers, e # c, Waits(call[e]) PROVE Waits(call'[e])
    BY <1>1 DEF Others, Like, Waits
<1>2. ASSUME NEW d \in Callers, Same(call[d].assets), call'[d].assets = call[d].assets, live' = live
      PROVE  Same(call[d].assets)'
    BY <1>2 DEF Same
<1> SUFFICES ASSUME NEW d \in Callers, Scanned(call'[d])
             PROVE  Same(call[d].assets)' \/ \E e \in Callers : Waits(call'[e])
    OBVIOUS
<1>3. CASE d = c
    <2>1. CASE Same(call[c].assets)' BY <1>3, <2>1
    <2>2. CASE Scanned(call[c]) /\ call'[c].assets = call[c].assets /\ live' = live
        <3>1. ~Waits(call[c]) BY <2>2 DEF Scanned, Waits
        <3>2. Same(call[c].assets) \/ \E e \in Callers : e # c /\ Waits(call[e]) BY <2>2, <3>1
        <3> QED BY <1>1, <1>2, <1>3, <2>2, <3>2
    <2> QED BY <1>3, <2>1, <2>2
<1>4. CASE d # c
    <2>1. Scanned(call[d]) /\ call'[d].assets = call[d].assets BY <1>4 DEF Others, Like, Scanned
    <2>2. call[d].at \in Holding BY <2>1 DEF Scanned, Holding, Making
    <2>3. lock = d /\ call[c].at \notin Holding BY <1>4, <2>2, HolderIs
    <2>4. ~Waits(call[c]) BY <2>3, Given
    <2>5. Same(call[d].assets) \/ \E e \in Callers : e # c /\ Waits(call[e]) BY <2>1, <2>4
    <2> QED BY <1>1, <1>2, <2>1, <2>3, <2>5
<1> QED BY <1>3, <1>4

LEMMA StoresKept ==
    ASSUME NEW c \in Callers, Others(c), files \subseteq files', Spares(c),
           \A f \in acked \ files : f \in BlobsOf(live) /\ \E d \in Callers : Stores(call[d], f),
           \A f \in acked' \ files' : f \in acked \/ \E d \in Callers : Stores(call'[d], f) /\ f \in BlobsOf(live'),
           \A f \in acked \ files' : Stores(call[c], f) /\ f \in BlobsOf(live) =>
              f \in BlobsOf(live') /\ \E d \in Callers : Stores(call'[d], f)
    PROVE  \A f \in acked' \ files' : f \in BlobsOf(live') /\ \E d \in Callers : Stores(call'[d], f)
<1> SUFFICES ASSUME NEW f \in acked' \ files', f \in acked
             PROVE  f \in BlobsOf(live') /\ \E d \in Callers : Stores(call'[d], f)
    OBVIOUS
<1>1. f \in acked \ files /\ f \in acked \ files' OBVIOUS
<1>2. f \in BlobsOf(live) BY <1>1
<1>3. PICK d \in Callers : Stores(call[d], f) BY <1>1
<1>4. CASE d = c BY <1>1, <1>2, <1>3, <1>4
<1>5. CASE d # c
    <2>1. Stores(call'[d], f) BY <1>3, <1>5 DEF Others, Like, Stores, Waits, Scanned
    <2>2. call[d].kind = "asset" BY <1>3 DEF Stores, Waits, Scanned
    <2>3. f \in BlobsOf(live') BY <1>2, <1>5, <2>2 DEF Spares
    <2> QED BY <2>1, <2>3
<1> QED BY <1>4, <1>5

\* A step that captures no directory and records none.
LEMMA UploadsStay ==
    ASSUME Locking, Uploads, NEW c \in Callers, Others(c), files \subseteq files', Spares(c),
           Carries(call[c])', page = None => page' = None, crashed' = crashed,
           acked' \subseteq acked \union files',
           call[c].at \notin {"lock", "blob", "persist"}, ~Scanned(call'[c]),
           live' = live \/ Waits(call'[c]) \/ call[c].at \in Holding \/ page' = None
    PROVE  Uploads'
<1>1. \A d \in Callers : Carries(call[d])' BY CarriesKept DEF Uploads
<1>2. ~Waits(call[c]) /\ \A f : ~Stores(call[c], f) BY DEF Waits, Scanned, Stores
<1>3. ASSUME ~crashed', page' # None
      PROVE  /\ \A d \in Callers : Scanned(call'[d]) =>
                   Same(call[d].assets)' \/ \E e \in Callers : Waits(call'[e])
             /\ \A f \in acked' \ files' : f \in BlobsOf(live') /\ \E d \in Callers : Stores(call'[d], f)
    <2>1. /\ \A d \in Callers : Scanned(call[d]) =>
                Same(call[d].assets) \/ \E e \in Callers : Waits(call[e])
          /\ \A f \in acked \ files : f \in BlobsOf(live) /\ \E d \in Callers : Stores(call[d], f)
        BY <1>3 DEF Uploads
    <2>2. live' = live \/ Waits(call'[c]) \/ call[c].at \in Holding BY <1>3
    <2>3. \A d \in Callers : Scanned(call'[d]) =>
             Same(call[d].assets)' \/ \E e \in Callers : Waits(call'[e])
        BY <1>2, <2>1, <2>2, ScannedKept
    <2>4. \A f \in acked' \ files' : f \in BlobsOf(live') /\ \E d \in Callers : Stores(call'[d], f)
        BY <1>2, <2>1, StoresKept
    <2> QED BY <2>3, <2>4
<1> QED BY <1>1, <1>3 DEF Uploads

LEMMA AcquireUploads ==
    ASSUME Types, Locking, Stocked, Uploads, NEW c \in Callers, Acquire(c)
    PROVE  Uploads'
<1>1. /\ Others(c) /\ call[c].at = "lock" /\ lock = None
      /\ UNCHANGED <<page, live, files, crashed>>
      /\ \/ /\ Ends(c) /\ acked' = acked \union ({call[c].file} \ {None})
            /\ \/ page = None
               \/ page # None /\ revs # <<>> /\ (call[c].kind = "asset" => Newest.assets = live)
         \/ /\ acked' = acked
            /\ call'[c].at = "blob" /\ call'[c].kind = call[c].kind /\ call'[c].file = call[c].file
            /\ call'[c].kind = "asset" => call'[c].assets = live
    BY AcquireShape DEF Shaped, Moves
<1>2. Spares(c) BY <1>1, SparesWhenSame
<1>3. Carries(call[c]) BY DEF Uploads
<1>4. call[c].file # None => call[c].kind = "asset" /\ call[c].file \in BlobsOf(live)
    BY <1>1, <1>3 DEF Carries
<1>5. \A f : Stores(call[c], f) => call[c].kind = "asset" BY DEF Stores, Waits, Scanned
<1>6. ASSUME ~crashed', page' # None
      PROVE  /\ \A d \in Callers : Scanned(call[d]) =>
                   Same(call[d].assets) \/ \E e \in Callers : Waits(call[e])
             /\ \A f \in acked \ files : f \in BlobsOf(live) /\ \E d \in Callers : Stores(call[d], f)
    BY <1>1, <1>6 DEF Uploads
<1>7. CASE /\ Ends(c) /\ acked' = acked \union ({call[c].file} \ {None})
           /\ \/ page = None
              \/ page # None /\ revs # <<>> /\ (call[c].kind = "asset" => Newest.assets = live)
    <2>1. call'[c].file = None /\ call'[c].at = "idle" BY <1>7, EndsShape
    <2>2. \A d \in Callers : Carries(call[d])'
        BY <1>1, <1>2, <2>1, CarriesNothing, CarriesKept DEF Uploads
    <2>3. ~Scanned(call'[c]) BY <2>1 DEF Scanned
    <2>4. page # None /\ call[c].kind = "asset" => BlobsOf(live) \subseteq files
        BY <1>7, RevisionIn DEF Types, Shapes, Stocked, Intact, Available, Newest
    <2>5. ASSUME ~crashed', page' # None
          PROVE  /\ \A d \in Callers : Scanned(call'[d]) =>
                       Same(call[d].assets)' \/ \E e \in Callers : Waits(call'[e])
                 /\ \A f \in acked' \ files' : f \in BlobsOf(live') /\ \E d \in Callers : Stores(call'[d], f)
        <3>1. \A d \in Callers : Scanned(call'[d]) =>
                 Same(call[d].assets)' \/ \E e \in Callers : Waits(call'[e])
            BY <1>1, <1>6, <2>3, <2>5, ScannedKept
        <3>2. page # None BY <1>1, <2>5
        <3>3. \A f \in acked' \ files' : f \in acked
            BY <1>1, <1>4, <1>7, <2>4, <3>2
        <3>4. \A f \in acked \ files' : ~(Stores(call[c], f) /\ f \in BlobsOf(live))
            BY <1>1, <1>5, <2>4, <3>2
        <3>5. \A f \in acked' \ files' : f \in BlobsOf(live') /\ \E d \in Callers : Stores(call'[d], f)
            BY <1>1, <1>2, <1>6, <2>5, <3>3, <3>4, StoresKept
        <3> QED BY <3>1, <3>5
    <2> QED BY <2>2, <2>5 DEF Uploads
<1>8. CASE /\ acked' = acked
           /\ call'[c].at = "blob" /\ call'[c].kind = call[c].kind /\ call'[c].file = call[c].file
           /\ call'[c].kind = "asset" => call'[c].assets = live
    <2>1. Carries(call[c])' BY <1>1, <1>4, <1>8 DEF Carries
    <2>2. \A d \in Callers : Carries(call[d])' BY <1>1, <1>2, <2>1, CarriesKept DEF Uploads
    <2>3. Scanned(call'[c]) => Same(call[c].assets)'
        <3>1. Scanned(call'[c]) => call'[c].assets = live' BY <1>1, <1>8 DEF Scanned
        <3> QED BY <3>1 DEF Same
    <2>4. \A f : Stores(call[c], f) /\ f \in BlobsOf(live) => Stores(call'[c], f)
        BY <1>5, <1>8 DEF Stores, Scanned
    <2>5. ASSUME ~crashed', page' # None
          PROVE  /\ \A d \in Callers : Scanned(call'[d]) =>
                       Same(call[d].assets)' \/ \E e \in Callers : Waits(call'[e])
                 /\ \A f \in acked' \ files' : f \in BlobsOf(live') /\ \E d \in Callers : Stores(call'[d], f)
        <3>1. \A d \in Callers : Scanned(call'[d]) =>
                 Same(call[d].assets)' \/ \E e \in Callers : Waits(call'[e])
            BY <1>1, <1>6, <2>3, <2>5, ScannedKept
        <3>2. \A f \in acked' \ files' : f \in BlobsOf(live') /\ \E d \in Callers : Stores(call'[d], f)
            BY <1>1, <1>2, <1>6, <1>8, <2>4, <2>5, StoresKept
        <3> QED BY <3>1, <3>2
    <2> QED BY <2>2, <2>5 DEF Uploads
<1> QED BY <1>1, <1>7, <1>8

LEMMA SaveBlobUploads ==
    ASSUME Types, Locking, Uploads, NEW c \in Callers, SaveBlob(c)
    PROVE  Uploads'
<1> DEFINE a == IF call[c].kind = "asset" THEN "persist" ELSE "manifest"
<1>1. /\ Others(c) /\ call[c].at = "blob" /\ Steady(c, a) /\ call'[c].assets = call[c].assets
      /\ UNCHANGED <<page, live, files, crashed, acked>>
    BY SaveBlobShape DEF Shaped, Moves
<1>2. Spares(c) BY <1>1, SparesWhenSame
<1>3. Carries(call[c]) BY DEF Uploads
<1>4. Carries(call[c])' BY <1>1, <1>3 DEF Carries, Steady
<1>5. \A d \in Callers : Carries(call[d])' BY <1>1, <1>2, <1>4, CarriesKept DEF Uploads
<1>6. Scanned(call'[c]) => Scanned(call[c]) BY <1>1 DEF Scanned, Steady
<1>7. ~Waits(call[c]) BY <1>1 DEF Waits
<1>8. \A f : Stores(call[c], f) => Stores(call'[c], f) BY <1>1 DEF Stores, Waits, Scanned, Steady
<1>9. ASSUME ~crashed', page' # None
      PROVE  /\ \A d \in Callers : Scanned(call'[d]) =>
                   Same(call[d].assets)' \/ \E e \in Callers : Waits(call'[e])
             /\ \A f \in acked' \ files' : f \in BlobsOf(live') /\ \E d \in Callers : Stores(call'[d], f)
    <2>1. /\ \A d \in Callers : Scanned(call[d]) =>
                Same(call[d].assets) \/ \E e \in Callers : Waits(call[e])
          /\ \A f \in acked \ files : f \in BlobsOf(live) /\ \E d \in Callers : Stores(call[d], f)
        BY <1>1, <1>9 DEF Uploads
    <2>2. \A d \in Callers : Scanned(call'[d]) =>
             Same(call[d].assets)' \/ \E e \in Callers : Waits(call'[e])
        BY <1>1, <1>6, <1>7, <2>1, ScannedKept
    <2>3. \A f \in acked' \ files' : f \in BlobsOf(live') /\ \E d \in Callers : Stores(call'[d], f)
        BY <1>1, <1>2, <1>8, <2>1, StoresKept
    <2> QED BY <2>2, <2>3
<1> QED BY <1>5, <1>9 DEF Uploads

LEMMA PersistUploads ==
    ASSUME Types, Locking, Uploads, NEW c \in Callers, Persist(c)
    PROVE  Uploads'
<1>1. /\ Others(c) /\ call[c].at = "persist" /\ UNCHANGED <<page, live, crashed>>
      /\ \/ /\ files' = files \union BlobsOf(call[c].assets) /\ acked' = acked
            /\ Steady(c, "revise") /\ call'[c].assets = call[c].assets
         \/ /\ ~Same(call[c].assets) /\ Ends(c) /\ files' = files
            /\ acked' = acked \union ({call[c].file} \ {None})
    BY PersistShape DEF Shaped, Moves
<1>2. Spares(c) BY <1>1, SparesWhenSame
<1>3. Carries(call[c]) BY DEF Uploads
<1>4. call[c].file # None =>
        call[c].kind = "asset" /\ call[c].file \in BlobsOf(live) /\ call[c].file \in BlobsOf(call[c].assets)
    BY <1>1, <1>3 DEF Carries
<1>5. ~Waits(call[c]) BY <1>1 DEF Waits
<1>6. ASSUME ~crashed', page' # None
      PROVE  /\ \A d \in Callers : Scanned(call[d]) =>
                   Same(call[d].assets) \/ \E e \in Callers : Waits(call[e])
             /\ \A f \in acked \ files : f \in BlobsOf(live) /\ \E d \in Callers : Stores(call[d], f)
    BY <1>1, <1>6 DEF Uploads
<1>7. CASE /\ files' = files \union BlobsOf(call[c].assets) /\ acked' = acked
           /\ Steady(c, "revise") /\ call'[c].assets = call[c].assets
    <2>1. call'[c].at = "revise" /\ call'[c].file = call[c].file BY <1>7 DEF Steady
    <2>2. Carries(call[c])' BY <1>4, <1>7, <2>1 DEF Carries
    <2>3. \A d \in Callers : Carries(call[d])' BY <1>1, <1>2, <1>7, <2>2, CarriesKept DEF Uploads
    <2>4. ~Scanned(call'[c]) BY <2>1 DEF Scanned
    <2>5. \A f : Stores(call[c], f) => f \in files' BY <1>5, <1>7 DEF Stores
    <2>6. ASSUME ~crashed', page' # None
          PROVE  /\ \A d \in Callers : Scanned(call'[d]) =>
                       Same(call[d].assets)' \/ \E e \in Callers : Waits(call'[e])
                 /\ \A f \in acked' \ files' : f \in BlobsOf(live') /\ \E d \in Callers : Stores(call'[d], f)
        <3>1. \A d \in Callers : Scanned(call'[d]) =>
                 Same(call[d].assets)' \/ \E e \in Callers : Waits(call'[e])
            BY <1>1, <1>5, <1>6, <2>4, <2>6, ScannedKept
        <3>2. \A f \in acked' \ files' : f \in BlobsOf(live') /\ \E d \in Callers : Stores(call'[d], f)
            BY <1>1, <1>2, <1>6, <1>7, <2>5, <2>6, StoresKept
        <3> QED BY <3>1, <3>2
    <2> QED BY <2>3, <2>6 DEF Uploads
<1>8. CASE /\ ~Same(call[c].assets) /\ Ends(c) /\ files' = files
           /\ acked' = acked \union ({call[c].file} \ {None})
    <2>1. call'[c].file = None /\ call'[c].at = "idle" BY <1>8, EndsShape
    <2>2. \A d \in Callers : Carries(call[d])'
        BY <1>1, <1>2, <1>8, <2>1, CarriesNothing, CarriesKept DEF Uploads
    <2>3. ~Scanned(call'[c]) BY <2>1 DEF Scanned
    <2>4. ASSUME ~crashed', page' # None
          PROVE  /\ \A d \in Callers : Scanned(call'[d]) =>
                       Same(call[d].assets)' \/ \E e \in Callers : Waits(call'[e])
                 /\ \A f \in acked' \ files' : f \in BlobsOf(live') /\ \E d \in Callers : Stores(call'[d], f)
        <3>1. \A d \in Callers : Scanned(call'[d]) =>
                 Same(call[d].assets)' \/ \E e \in Callers : Waits(call'[e])
            BY <1>1, <1>5, <1>6, <2>3, <2>4, ScannedKept
        <3>2. Scanned(call[c]) => \E e \in Callers : Waits(call'[e])
            <4>1. Scanned(call[c]) => \E e \in Callers : e # c /\ Waits(call[e])
                BY <1>5, <1>6, <1>8, <2>4
            <4> QED BY <4>1, <1>1 DEF Others, Like, Waits
        <3>3. \A f : Scanned(call[c]) => \E e \in Callers : Stores(call'[e], f) BY <3>2 DEF Stores
        <3>4. \A f : Stores(call[c], f) => Scanned(call[c]) BY <1>5 DEF Stores
        <3>5. call[c].file # None => Scanned(call[c]) /\ call[c].file \in BlobsOf(live')
            BY <1>1, <1>4 DEF Scanned
        <3>6. \A f \in acked' \ files' : f \in acked \/ (f = call[c].file /\ f # None) BY <1>8
        <3>7. \A f \in acked' \ files' : f \in acked \/ \E d \in Callers : Stores(call'[d], f) /\ f \in BlobsOf(live')
            BY <3>3, <3>5, <3>6
        <3>8. \A f \in acked \ files' : Stores(call[c], f) /\ f \in BlobsOf(live) =>
                 f \in BlobsOf(live') /\ \E d \in Callers : Stores(call'[d], f)
            BY <1>1, <3>3, <3>4
        <3>9. \A f \in acked' \ files' : f \in BlobsOf(live') /\ \E d \in Callers : Stores(call'[d], f)
            BY <1>1, <1>2, <1>6, <1>8, <2>4, <3>7, <3>8, StoresKept
        <3> QED BY <3>1, <3>9
    <2> QED BY <2>2, <2>4 DEF Uploads
<1> QED BY <1>1, <1>7, <1>8

LEMMA ClearUploads ==
    ASSUME Types, Locking, Uploads, NEW c \in Callers, NEW next \in Changing, call[c].at \in Changing,
           Clear(c, next)
    PROVE  Uploads'
<1>1. /\ Others(c) /\ live' = <<>> /\ Swept(c, BlobsOf(live)) /\ UNCHANGED <<page, files, crashed>>
      /\ call'[c].at = next
    BY ClearShape DEF Shaped, Moves, Steady
<1>2. Spares(c) BY <1>1, SweptSpares
<1>3. call'[c].at \notin Recording /\ call[c].at \in Holding BY <1>1 DEF Changing, Recording, Making, Holding
<1>4. Carries(call[c])' BY <1>3, CarriesNothing
<1>5. call[c].at \notin {"lock", "blob", "persist"} BY DEF Changing
<1>6. ~Scanned(call'[c]) BY <1>3 DEF Scanned, Recording, Making
<1>7. acked' \subseteq acked BY <1>1 DEF Swept
<1> QED BY <1>1, <1>2, <1>3, <1>4, <1>5, <1>6, <1>7, UploadsStay

\* A copy into the directory sweeps only what it replaces.
LEMMA CopyUploads ==
    ASSUME Locking, Uploads, NEW c \in Callers, Others(c), NEW m,
           live' = Written(m, live), Swept(c, BlobsOf([n \in DOMAIN m \intersect DOMAIN live |-> live[n]])),
           UNCHANGED <<page, files, crashed>>, call[c].at \in Changing, call'[c].at \notin Recording
    PROVE  Uploads'
<1>1. Spares(c) BY WrittenHas, SweptSpares
<1>2. Carries(call[c])' BY CarriesNothing
<1>3. call[c].at \notin {"lock", "blob", "persist"} /\ call[c].at \in Holding BY DEF Changing, Holding
<1>4. ~Scanned(call'[c]) BY DEF Scanned, Recording, Making
<1>5. acked' \subseteq acked BY DEF Swept
<1> QED BY <1>1, <1>2, <1>3, <1>4, <1>5, UploadsStay

LEMMA RestoreCopyUploads ==
    ASSUME Types, Locking, Uploads, NEW c \in Callers, RestoreCopy(c)
    PROVE  Uploads'
<1>1. /\ Others(c) /\ call[c].at = "r_copy" /\ UNCHANGED <<page, files, crashed>>
      /\ \/ /\ Steady(c, "r_record") /\ live' = Written(call[c].rev.assets, live)
            /\ Swept(c, BlobsOf([n \in DOMAIN call[c].rev.assets \intersect DOMAIN live |-> live[n]]))
         \/ Steady(c, "undo") /\ live' = live /\ acked' = acked
    BY RestoreCopyShape DEF Shaped, Moves
<1>2. call'[c].at \in {"r_record", "undo"} BY <1>1 DEF Steady
<1>3. call'[c].at \notin Recording /\ call[c].at \in Changing BY <1>1, <1>2 DEF Recording, Making, Changing
<1>4. CASE /\ live' = Written(call[c].rev.assets, live)
           /\ Swept(c, BlobsOf([n \in DOMAIN call[c].rev.assets \intersect DOMAIN live |-> live[n]]))
    BY <1>1, <1>3, <1>4, CopyUploads
<1>5. CASE live' = live /\ acked' = acked
    <2>1. Spares(c) BY <1>5, SparesWhenSame
    <2>2. Carries(call[c])' BY <1>3, CarriesNothing
    <2>3. ~Scanned(call'[c]) BY <1>2 DEF Scanned
    <2> QED BY <1>1, <1>5, <2>1, <2>2, <2>3, UploadsStay
<1> QED BY <1>1, <1>4, <1>5

LEMMA UndoCopyUploads ==
    ASSUME Types, Locking, Uploads, NEW c \in Callers, UndoCopy(c)
    PROVE  Uploads'
<1>1. /\ Others(c) /\ call[c].at = "u_copy" /\ Ends(c) /\ UNCHANGED <<page, files, crashed>>
      /\ \E S \in SUBSET DOMAIN call[c].assets :
            /\ live' = Written([n \in S |-> call[c].assets[n]], live)
            /\ Swept(c, BlobsOf([n \in S \intersect DOMAIN live |-> live[n]]))
    BY UndoCopyShape DEF Shaped, Moves
<1>2. PICK S \in SUBSET DOMAIN call[c].assets :
            /\ live' = Written([n \in S |-> call[c].assets[n]], live)
            /\ Swept(c, BlobsOf([n \in S \intersect DOMAIN live |-> live[n]]))
    BY <1>1
<1> DEFINE m == [n \in S |-> call[c].assets[n]]
<1>3. DOMAIN m = S OBVIOUS
<1>4. call'[c].at = "idle" BY <1>1, EndsShape
<1>5. call'[c].at \notin Recording /\ call[c].at \in Changing BY <1>1, <1>4 DEF Recording, Making, Changing
<1>6. /\ live' = Written(m, live)
      /\ Swept(c, BlobsOf([n \in DOMAIN m \intersect DOMAIN live |-> live[n]]))
    BY <1>2, <1>3
<1> HIDE DEF m
<1> QED BY <1>1, <1>5, <1>6, CopyUploads

LEMMA DeleteAssetsUploads ==
    ASSUME Types, Locking, Uploads, NEW c \in Callers, DeleteAssets(c)
    PROVE  Uploads'
<1>1. /\ Others(c) /\ call[c].at = "d_assets" /\ page = None /\ page' = None
      /\ UNCHANGED <<files, crashed>> /\ call'[c].at = "d_revs" /\ call'[c].file = None
      /\ live' = <<>> /\ Swept(c, BlobsOf(live))
    BY DeleteAssetsShape DEF Shaped, Moves
<1>2. Spares(c) BY <1>1, SweptSpares
<1>3. Carries(call[c])' BY <1>1, CarriesNothing
<1>4. ~Scanned(call'[c]) BY <1>1 DEF Scanned
<1>5. acked' \subseteq acked BY <1>1 DEF Swept
<1> QED BY <1>1, <1>2, <1>3, <1>4, <1>5, UploadsStay

LEMMA UploadWriteUploads ==
    ASSUME Types, Locking, Uploads, NEW c \in Callers, NEW n \in Names, UploadWrite(c, n)
    PROVE  Uploads'
<1>1. /\ Others(c) /\ call[c].at = "upload" /\ UNCHANGED <<page, files, crashed, acked>>
      /\ call'[c].at = "lock" /\ call'[c].kind = "asset" /\ call'[c].file = call[c].file
      /\ BlobsOf(live') = BlobsOf(live) \union {call[c].file}
    BY UploadWriteShape DEF Shaped, Moves
<1>2. Spares(c) BY <1>1, SparesWhenKept
<1>3. Carries(call[c])' BY <1>1 DEF Carries
<1>4. ~Scanned(call'[c]) /\ Waits(call'[c]) BY <1>1 DEF Scanned, Waits
<1> QED BY <1>1, <1>2, <1>3, <1>4, UploadsStay

LEMMA TidyUploads ==
    ASSUME Types, Locking, Uploads, NEW c \in Callers, Tidy(c)
    PROVE  Uploads'
<1>1. /\ Others(c) /\ call[c].at = "tidy" /\ Ends(c) /\ UNCHANGED <<page, live, files, crashed>>
      /\ acked' = acked \union ({call[c].file} \ {None})
    BY TidyShape DEF Shaped, Moves
<1>2. Carries(call[c]) BY DEF Uploads
<1>3. acked' \subseteq acked \union files' BY <1>1, <1>2 DEF Carries
<1>4. call'[c].file = None /\ call'[c].at = "idle" BY <1>1, EndsShape
<1>5. Carries(call[c])' BY <1>4, CarriesNothing
<1>6. ~Scanned(call'[c]) BY <1>4 DEF Scanned
<1>7. Spares(c) BY <1>1, SparesWhenSame
<1> QED BY <1>1, <1>3, <1>5, <1>6, <1>7, UploadsStay

\* A step that leaves the directory alone, with nothing to record in hand.
LEMMA UploadsIdle ==
    ASSUME Locking, Uploads, NEW c \in Callers, Others(c), files \subseteq files', live' = live,
           page = None => page' = None, UNCHANGED <<crashed, acked>>,
           call[c].at \notin {"lock", "blob", "persist"}, call'[c].kind # "asset",
           call'[c].file = None \/ call'[c].at \notin Recording
    PROVE  Uploads'
<1>1. Carries(call[c])' BY CarriesNothing
<1>2. ~Scanned(call'[c]) BY DEF Scanned
<1>3. Spares(c) BY SparesWhenSame
<1> QED BY <1>1, <1>2, <1>3, UploadsStay

LEMMA ResolveManifestUploads ==
    ASSUME Types, Locking, Uploads, NEW c \in Callers, ResolveManifest(c)
    PROVE  Uploads'
<1>1. /\ Others(c) /\ call[c].at = "manifest" /\ call[c].kind # "asset"
      /\ UNCHANGED <<page, live, files, crashed, acked>>
      /\ Steady(c, "revise") \/ Steady(c, "persist")
    BY ResolveManifestShape DEF Shaped, Moves
<1>2. call[c].file = None BY <1>1 DEF Uploads, Carries
<1>3. call'[c].file = None /\ call'[c].kind # "asset" BY <1>1, <1>2 DEF Steady
<1> QED BY <1>1, <1>3, UploadsIdle

LEMMA ReviseUploads ==
    ASSUME Types, Locking, Uploads, NEW c \in Callers, Revise(c)
    PROVE  Uploads'
<1>1. /\ Others(c) /\ call[c].at = "revise" /\ UNCHANGED <<page, live, files, crashed, acked>>
      /\ Steady(c, "tidy") \/ Ends(c)
    BY ReviseShape DEF Shaped, Moves
<1>2. Carries(call[c]) BY DEF Uploads
<1>3. CASE Steady(c, "tidy")
    <2>1. call'[c].at = "tidy" /\ call'[c].file = call[c].file BY <1>3 DEF Steady
    <2>2. Carries(call[c])' BY <1>1, <1>2, <2>1 DEF Carries
    <2>3. ~Scanned(call'[c]) BY <2>1 DEF Scanned
    <2>4. Spares(c) BY <1>1, SparesWhenSame
    <2> QED BY <1>1, <2>2, <2>3, <2>4, UploadsStay
<1>4. CASE Ends(c)
    <2>1. call'[c].kind = "none" /\ call'[c].file = None BY <1>4, EndsShape
    <2> QED BY <1>1, <2>1, UploadsIdle
<1> QED BY <1>1, <1>3, <1>4

\* The same for a call that holds the lock to restore, or only reads.
LEMMA UploadsSteady ==
    ASSUME Types, Locking, Uploads, NEW c \in Callers, Others(c), files \subseteq files', live' = live,
           page = None => page' = None, UNCHANGED <<crashed, acked>>,
           call[c].at \in Changing \union Reading,
           Ends(c) \/ \E a \in Changing \union Reading : Steady(c, a)
    PROVE  Uploads'
<1>1. call[c].at \notin {"lock", "blob", "persist"} BY DEF Changing, Reading
<1>2. call[c].kind = "none" BY DEF Types, Formed, Recording, Making, Changing, Reading
<1>3. call'[c].kind # "asset" /\ (call'[c].file = None \/ call'[c].at \notin Recording)
    <2>1. CASE Ends(c) BY <2>1, EndsShape
    <2>2. CASE \E a \in Changing \union Reading : Steady(c, a)
        BY <1>2, <2>2 DEF Steady, Recording, Making, Changing, Reading
    <2> QED BY <2>1, <2>2
<1> QED BY <1>1, <1>3, UploadsIdle

LEMMA StepUploads ==
    ASSUME Types, Locking, Stocked, Uploads, NEW c \in Callers, Step(c)
    PROVE  Uploads'
<1>1. /\ \A a \in {"write", "effect", "content", "r_lock", "d_revs"} : a \notin {"lock", "blob", "persist"}
      /\ Ends(c) => call'[c].kind = "none" /\ call'[c].file = None
    BY EndsShape
<1>2. CASE SaveWrite(c)
    <2>1. /\ Others(c) /\ call[c].at = "write" /\ UNCHANGED <<live, files, crashed, acked>>
          /\ (page = None => page' = None)
          /\ (Ends(c) \/ (call'[c].kind = "none" /\ call'[c].file = None))
        BY <1>2, SaveWriteShape DEF Shaped, Moves
    <2> QED BY <1>1, <2>1, UploadsIdle
<1>3. CASE SaveEffect(c)
    <2>1. /\ Others(c) /\ call[c].at = "effect" /\ UNCHANGED <<page, live, files, crashed, acked>>
          /\ (Ends(c) \/ (call'[c].kind \in {"none", "structure"} /\ call'[c].file = None))
        BY <1>3, SaveEffectShape DEF Shaped, Moves
    <2> QED BY <1>1, <2>1, UploadsIdle
<1>4. CASE ContentRead(c)
    <2>1. /\ Others(c) /\ call[c].at = "content" /\ UNCHANGED <<page, live, files, crashed, acked>>
          /\ (Ends(c) \/ (call'[c].kind = "content" /\ call'[c].file = None))
        BY <1>4, ContentReadShape DEF Shaped, Moves
    <2> QED BY <1>1, <2>1, UploadsIdle
<1>5. CASE Acquire(c) \/ SaveBlob(c) \/ ResolveManifest(c)
    BY <1>5, AcquireUploads, SaveBlobUploads, ResolveManifestUploads
<1>6. CASE Persist(c) \/ Revise(c) \/ Tidy(c)
    BY <1>6, PersistUploads, ReviseUploads, TidyUploads
<1>7. CASE \E n \in Names : UploadWrite(c, n) BY <1>7, UploadWriteUploads
<1>8. CASE RestoreRead(c)
    <2>1. /\ Others(c) /\ call[c].at = "r_lock" /\ UNCHANGED <<page, live, files, crashed, acked>>
          /\ (Ends(c) \/ (call'[c].kind = "none" /\ call'[c].file = None))
        BY <1>8, RestoreReadShape DEF Shaped, Moves
    <2> QED BY <1>1, <2>1, UploadsIdle
<1>9. CASE RestoreWrite(c)
    <2>1. /\ Others(c) /\ call[c].at = "r_write" /\ UNCHANGED <<live, files, crashed, acked>>
          /\ (page = None => page' = None) /\ (Ends(c) \/ Steady(c, "r_clear"))
        BY <1>9, RestoreWriteShape DEF Shaped, Moves
    <2> QED BY <2>1, UploadsSteady DEF Changing
<1>10. CASE RestoreClear(c) BY <1>10, ClearUploads DEF RestoreClear, Changing
<1>11. CASE UndoClear(c) BY <1>11, ClearUploads DEF UndoClear, Changing
<1>12. CASE RestoreCopy(c) \/ UndoCopy(c) BY <1>12, RestoreCopyUploads, UndoCopyUploads
<1>13. CASE RestoreRecord(c)
    <2>1. /\ Others(c) /\ call[c].at = "r_record" /\ UNCHANGED <<page, live, crashed, acked>>
          /\ files \subseteq files' /\ (Ends(c) \/ Steady(c, "undo"))
        BY <1>13, RestoreRecordShape DEF Shaped, Moves
    <2> QED BY <2>1, UploadsSteady DEF Changing
<1>14. CASE Undo(c)
    <2>1. /\ Others(c) /\ call[c].at = "undo" /\ UNCHANGED <<live, files, crashed, acked>>
          /\ (page = None => page' = None) /\ Steady(c, "u_clear")
        BY <1>14, UndoShape DEF Shaped, Moves
    <2> QED BY <2>1, UploadsSteady DEF Changing
<1>15. CASE Read(c) \/ ReadFails(c)
    <2>1. /\ Others(c) /\ call[c].at \in Reading /\ UNCHANGED <<page, live, files, crashed, acked>>
          /\ (Ends(c) \/ Steady(c, "unavailable"))
        BY <1>15, ReadShape, ReadFailsShape DEF Shaped, Moves, Reading
    <2> QED BY <2>1, UploadsSteady DEF Reading
<1>16. CASE DeleteAssets(c) BY <1>16, DeleteAssetsUploads
<1>17. CASE DeleteRevisions(c)
    <2>1. /\ Others(c) /\ call[c].at = "d_revs" /\ UNCHANGED <<page, live, files, crashed, acked>> /\ Ends(c)
        BY <1>17, DeleteRevisionsShape DEF Shaped, Moves
    <2> QED BY <1>1, <2>1, UploadsIdle
<1> QED BY <1>2, <1>3, <1>4, <1>5, <1>6, <1>7, <1>8, <1>9, <1>10, <1>11, <1>12, <1>13, <1>14, <1>15,
           <1>16, <1>17 DEF Step

\* A request that begins and records nothing yet.
LEMMA BeginsUploads ==
    ASSUME Locking, Uploads, NEW c \in Callers, Starts(c), live' = live, call'[c].kind = "none",
           call'[c].at \notin Recording
    PROVE  Uploads'
<1>1. /\ Others(c) /\ UNCHANGED <<files, crashed, acked>> /\ (page = None => page' = None)
      /\ call[c].at = "idle"
    BY IdleIn DEF Starts, Shaped, Moves
<1> QED BY <1>1, UploadsIdle

LEMMA RequestUploads ==
    ASSUME Types, Locking, Uploads, NEW c \in Callers, Request(c)
    PROVE  Uploads'
<1>1. \A a \in {"write", "upload", "r_lock", "read", "d_assets"} : a \notin Recording BY DEF Recording, Making
<1>2. CASE \E b \in Bodies, x \in Extras, t \in Titles : SaveBegin(c, b, x, t)
    BY <1>1, <1>2, SaveBeginShape, BeginsUploads
<1>3. CASE \E f \in Files : UploadBegin(c, f) BY <1>1, <1>3, UploadBeginShape, BeginsUploads
<1>4. CASE \E id \in Ids : RestoreBegin(c, id) BY <1>1, <1>4, RestoreBeginShape, BeginsUploads
<1>5. CASE \E id \in Ids : ReadBegin(c, id) BY <1>1, <1>5, ReadBeginShape, BeginsUploads
<1>6. CASE DeleteTree(c) BY <1>1, <1>6, DeleteTreeShape, BeginsUploads
<1>7. ASSUME Others(c), call[c] = Idle, UNCHANGED <<page, files, crashed>>, Spares(c), acked' \subseteq acked,
             call'[c].at = "lock", call'[c].kind = "asset", call'[c].file = None
      PROVE  Uploads'
    <2>1. call[c].at = "idle" BY <1>7, IdleIn
    <2>2. Carries(call[c])' BY <1>7, CarriesNothing
    <2>3. ~Scanned(call'[c]) /\ Waits(call'[c]) BY <1>7 DEF Scanned, Waits
    <2> QED BY <1>7, <2>1, <2>2, <2>3, UploadsStay
<1>8. CASE \E n \in Names : DeleteAsset(c, n)
    <2>1. PICK n \in Names : DeleteAsset(c, n) BY <1>8
    <2>2. /\ Others(c) /\ call[c] = Idle /\ UNCHANGED <<page, files, crashed>>
          /\ call'[c].at = "lock" /\ call'[c].kind = "asset" /\ call'[c].file = None
          /\ live' = Without(n, live)
          /\ \A d \in Callers : d # c /\ call[d].kind = "asset" => call'[d].file # live[n]
          /\ acked' \subseteq acked
          /\ (\E d \in Callers : d # c /\ call[d].kind = "asset") => acked' = acked \ {live[n]}
        BY <2>1, DeleteAssetShape DEF Shaped, Moves
    <2>3. Swept(c, {live[n]}) BY <2>2 DEF Swept
    <2>4. Spares(c) BY <2>2, <2>3, WithoutHas, SweptSpares
    <2> QED BY <1>7, <2>2, <2>4
<1>9. CASE \E n, m \in Names : RenameAsset(c, n, m)
    <2>1. /\ Others(c) /\ call[c] = Idle /\ UNCHANGED <<page, files, crashed, acked>>
          /\ call'[c].at = "lock" /\ call'[c].kind = "asset" /\ call'[c].file = None
          /\ BlobsOf(live') = BlobsOf(live)
        BY <1>9, RenameAssetShape DEF Shaped, Moves
    <2>2. Spares(c) BY <2>1, SparesWhenKept
    <2> QED BY <1>7, <2>1, <2>2
<1> QED BY <1>2, <1>3, <1>4, <1>5, <1>6, <1>8, <1>9 DEF Request

LEMMA RestartUploads ==
    ASSUME Types, Restart
    PROVE  Uploads'
<1>1. crashed' = TRUE /\ \A d \in Callers : call'[d].file = None BY RestartShape
<1>2. \A d \in Callers : Carries(call[d])' BY <1>1, CarriesNothing
<1> QED BY <1>1, <1>2 DEF Uploads

-----------------------------------------------------------------------------
(* The invariant *)

\* The page with its baseline revision is as every later step leaves it.
LEMMA InitInv == Init => Inv
<1> SUFFICES ASSUME Init PROVE Inv OBVIOUS
<1>1. PICK b \in Bodies, t \in Titles :
         /\ page = [body |-> b, extra |-> NoExtra, title |-> t, ver |-> 0]
         /\ revs = <<[id |-> 0, type |-> "content", author |-> System, body |-> b,
                      extra |-> NoExtra, title |-> t, assets |-> <<>>]>>
         /\ blobs = {b}
    BY DEF Init
<1>2. /\ live = <<>> /\ files = {} /\ manifests = {<<>>} /\ cache = <<>>
      /\ lock = None /\ call = [c \in Callers |-> Idle]
      /\ disturbed = FALSE /\ crashed = FALSE /\ restored = FALSE /\ acked = {}
    BY DEF Init
<1>3. page \in States /\ page # None /\ page.body = b /\ page.title = t BY <1>1, Given DEF States
<1> DEFINE r == [id |-> 0, type |-> "content", author |-> System, body |-> b,
                 extra |-> NoExtra, title |-> t, assets |-> <<>>]
<1>4. r \in RevT BY Given, NothingIsAManifest DEF RevT
<1>5. r.body = b /\ r.title = t /\ r.assets = <<>> OBVIOUS
<1> HIDE DEF r
<1>6. /\ revs = <<r>> /\ revs \in Seq(RevT) /\ revs # <<>> /\ Newest = r
      /\ \A i \in DOMAIN revs : revs[i] = r
    BY <1>1, <1>4 DEF r, Newest
<1>7. \A c \in Callers : call[c] = Idle BY <1>2
<1>8. <<>> \in Manifests /\ <<>> # None BY NothingIsAManifest, Given
<1>9. Types
    <2>1. Shapes BY <1>1, <1>2, <1>3, <1>6, <1>8 DEF Shapes
    <2>2. call \in [Callers -> CallT] BY <1>2, IdleIn
    <2> QED BY <2>1, <2>2, <1>7, IdleFormed DEF Types
<1>10. Locking BY <1>2, <1>7, IdleFormed, Given DEF Locking
<1>11. Stocked
    <2>1. Held(<<>>) BY <1>2, NothingIsAManifest DEF Held
    <2>2. Intact BY <1>1, <1>2, <1>5, <1>6, <2>1 DEF Intact, Available, Held
    <2>3. \A c \in Callers : Equipped(call[c]) BY <1>7, IdleIn DEF Equipped, Making
    <2> QED BY <1>2, <2>1, <2>2, <2>3 DEF Stocked
<1>12. Alone
    <2>1. Follows(page.body, page.title, live) BY <1>2, <1>3, <1>5, <1>6 DEF Follows
    <2>2. Backed(live) BY <1>2, <1>8, NothingIsAManifest DEF Backed
    <2>3. AtStep(Idle)
        BY <1>3, <2>1, <2>2, IdleIn DEF AtStep, InStep, Settled, Making, Changing, Reading
    <2> QED BY <1>7, <2>3, IdleIn, Given DEF Alone, Only
<1>13. Uploads
    <2>1. \A c \in Callers : Carries(call[c]) /\ ~Scanned(call[c])
        BY <1>7, IdleIn DEF Carries, Scanned
    <2> QED BY <1>2, <2>1 DEF Uploads
<1> QED BY <1>9, <1>10, <1>11, <1>12, <1>13 DEF Inv

LEMMA StutterInv ==
    ASSUME Inv, UNCHANGED vars
    PROVE  Inv'
<1>1. /\ UNCHANGED <<page, live, revs, blobs, files, manifests, cache, lock, call>>
      /\ UNCHANGED <<disturbed, crashed, restored, acked>>
    BY DEF vars, store, history
<1>2. Types' BY <1>1 DEF Inv, Types, Shapes, Formed
<1>3. Locking' BY <1>1 DEF Inv, Locking
<1>4. Stocked' BY <1>1 DEF Inv, Stocked, Intact, Available, Held, Equipped
<1>5. Alone'
    BY <1>1 DEF Inv, Alone, Only, AtStep, Leaving, InStep, Settled, Differs, Follows, Backed, Newest, Latest
<1>6. Uploads' BY <1>1 DEF Inv, Uploads, Carries, Scanned, Same, Waits, Stores
<1> QED BY <1>2, <1>3, <1>4, <1>5, <1>6 DEF Inv

LEMMA NextInv == Inv /\ [Next]_vars => Inv'
<1> SUFFICES ASSUME Inv, [Next]_vars PROVE Inv' OBVIOUS
<1>1. Types /\ Locking /\ Stocked /\ Alone /\ Uploads BY DEF Inv
<1>2. ASSUME NEW c \in Callers, Step(c) PROVE Inv'
    <2>1. Types' /\ Locking' BY <1>1, <1>2, StepShape, ShapesHold
    <2>2. Stocked' BY <1>1, <1>2, StepStocked
    <2>3. Alone' BY <1>1, <1>2, StepAlone
    <2>4. Uploads' BY <1>1, <1>2, StepUploads
    <2> QED BY <2>1, <2>2, <2>3, <2>4 DEF Inv
<1>3. ASSUME NEW c \in Callers, Request(c) PROVE Inv'
    <2>1. Types' /\ Locking' BY <1>1, <1>3, RequestShape, ShapesHold
    <2>2. Stocked' BY <1>1, <1>3, RequestStocked
    <2>3. Alone' BY <1>1, <1>3, RequestAlone
    <2>4. Uploads' BY <1>1, <1>3, RequestUploads
    <2> QED BY <2>1, <2>2, <2>3, <2>4 DEF Inv
<1>4. CASE Restart BY <1>1, <1>4, RestartShape, RestartStocked, RestartAlone, RestartUploads DEF Inv
<1>5. CASE UNCHANGED vars BY <1>5, StutterInv
<1> QED BY <1>2, <1>3, <1>4, <1>5 DEF Next

LEMMA InvHolds == Spec => []Inv
BY InitInv, NextInv, PTL DEF Spec

-----------------------------------------------------------------------------
(* What the history promises *)

LEMMA InvIsSound == Inv => HistorySound
<1> SUFFICES ASSUME Inv PROVE HistorySound OBVIOUS
<1>1. Types /\ Locking /\ Stocked /\ Alone BY DEF Inv
<1>2. TypeOK
    <2>1. lock # None => call[lock] # Idle
        BY <1>1, IdleFormed DEF Types, Shapes, Locking
    <2> QED BY <1>1, <2>1 DEF Types, Shapes, TypeOK
<1>3. Intact BY <1>1 DEF Stocked
<1>4. Quiet /\ ~disturbed => AtStep(Idle) BY <1>1 DEF Quiet, Alone
<1>5. Quiet /\ ~disturbed /\ page # None => Settled BY <1>4, IdleIn DEF AtStep, InStep
<1>6. LatestHasBody BY <1>5 DEF LatestHasBody, Settled, Follows
<1>7. LatestHasRest BY <1>5 DEF LatestHasRest, Settled, Follows
<1>8. DeletedLeavesNothing BY <1>4, IdleIn DEF DeletedLeavesNothing, AtStep, Leaving
<1> QED BY <1>2, <1>3, <1>6, <1>7, <1>8 DEF HistorySound

\* A read that fails found a revision that is not there any more: every one that
\* is can be read whole.
LEMMA MissedIsReplaced == Inv => MissesOnlyReplaced
<1> SUFFICES ASSUME Inv, NEW c \in Calls, Read(c), call'[c] # Idle, NEW i \in DOMAIN revs
             PROVE  revs[i] # call[c].rev
    BY DEF MissesOnlyReplaced
<1>1. Types /\ Intact BY DEF Inv, Stocked
<1>2. c \in Callers BY DEF Callers
<1>3. ~Available(call[c].rev) BY <1>1, <1>2, ReadShape DEF Ends
<1> QED BY <1>1, <1>3 DEF Intact

\* TheHistoryIsKept: for every number of requests, contents, failures and
\* crashes, each step leads to a state in which every revision can be read
\* whole, the newest one holds the page when nothing is in progress, no two
\* requests met and no rollback failed, and a page deleted alone has left
\* nothing; and a reader is refused only a revision that has been replaced, pruned or deleted
\* (RecordContentUpdate, RecordAssetChange, RestoreRevision, DeletePageData).
THEOREM TheHistoryIsKept == Spec => HistoryKept
BY MissedIsReplaced, InvHolds, InvIsSound, PTL DEF HistoryKept

\* UploadsAreKept: without a crash, a file whose upload was answered is in the
\* page's directory or in the asset store, whatever saves, uploads, renamings,
\* restores and deletions of assets run beside it (UploadAsset and
\* RecordAssetChange, whose failure is not reported to the client).
THEOREM UploadsAreKept == Spec => []UploadsKept
<1>1. Inv => UploadsKept
    <2> SUFFICES ASSUME Inv, ~crashed, page # None PROVE acked \subseteq files \union BlobsOf(live)
        BY DEF UploadsKept
    <2> QED BY DEF Inv, Uploads
<1> QED BY <1>1, InvHolds, PTL

\* Only the caller that holds the lock gives it back, at the end of its restore.
LEMMA EndsARestore ==
    ASSUME Inv, Next, NEW c \in Calls, RestoreEnds(c)
    PROVE  (RestoreRecord(c) \/ UndoCopy(c)) /\ crashed' = crashed /\ ~disturbed
<1>1. Types /\ Locking BY DEF Inv
<1>2. c \in Callers /\ c # None /\ lock = c /\ lock' = None /\ call[c].at \in {"r_record", "u_copy"}
    BY Given DEF RestoreEnds, Callers
<1>3. ~Restart BY RestartShape, <1>1 DEF RestoreEnds
<1>4. ASSUME NEW d \in Callers, Shaped(d) PROVE d = c BY <1>2, <1>4, Given DEF Shaped, Shift
<1>5. ~\E d \in Callers : Request(d)
    <2> SUFFICES ASSUME NEW d \in Callers, Request(d) PROVE FALSE OBVIOUS
    <2>1. d = c BY <1>1, <1>4, RequestShape
    <2>2. call[d] = Idle
        BY DEF Request, SaveBegin, UploadBegin, DeleteAsset, RenameAsset, RestoreBegin, ReadBegin,
               DeleteTree, Begin, AssetCall
    <2> QED BY <1>2, <2>1, <2>2, IdleIn
<1>6. Step(c) BY <1>1, <1>3, <1>4, <1>5, StepShape DEF Next
<1>7. RestoreRecord(c) \/ UndoCopy(c)
    BY <1>2, <1>6 DEF Step, SaveWrite, SaveEffect, ContentRead, Acquire, SaveBlob, ResolveManifest, Persist,
        Revise, Tidy, UploadWrite, RestoreRead, RestoreWrite, RestoreClear, RestoreCopy, Undo, UndoClear,
        Read, ReadFails, DeleteAssets, DeleteRevisions
<1>8. crashed' = crashed /\ ~disturbed BY <1>1, <1>2, <1>6, StepGoes DEF RestoreEnds
<1> QED BY <1>7, <1>8

\* RestoresAllOrNothing: a restore that met no other request since the last boot
\* ends with the body, the title and the assets of the revision, or with those
\* the page had: a failure at any step of it, of the disk or of a lost blob, is
\* taken back whole unless the rollback fails too (RestoreRevision).
THEOREM RestoresAllOrNothing == Spec => RestoreAllOrNothing
<1> DEFINE Whole(c) ==
    \/ /\ call[c].at = "r_record" /\ page'.body = call[c].rev.body /\ page'.title = call[c].rev.title
       /\ live' = call[c].rev.assets
    \/ /\ call[c].at = "u_copy" /\ page'.body = call[c].old.body /\ page'.title = call[c].old.title
       /\ live' = call[c].assets
<1>1. Inv /\ Next => \A c \in Calls : RestoreEnds(c) => Whole(c)
    <2> SUFFICES ASSUME Inv, Next, NEW c \in Calls, RestoreEnds(c) PROVE Whole(c) OBVIOUS
    <2>1. Types /\ Locking /\ Alone /\ c \in Callers BY DEF Inv, Callers
    <2>2. /\ lock = c /\ lock' = None /\ ~disturbed' /\ ~crashed'
          /\ call[c].at \in {"r_record", "u_copy"} /\ c # None
        BY <2>1, Given DEF RestoreEnds
    <2>3. (RestoreRecord(c) \/ UndoCopy(c)) /\ ~crashed /\ ~disturbed BY <2>2, EndsARestore
    <2>4. AtStep(call[c]) BY <2>1, <2>2, <2>3 DEF Alone, Only
    <2>5. page # None /\ InStep(call[c]) BY <2>2, <2>4, AtWork DEF Deleting
    <2>6. CASE RestoreRecord(c)
        <3>1. call[c].at = "r_record" /\ page' = page /\ live' = live BY <2>1, <2>6, RestoreRecordShape
        <3>2. page.body = call[c].rev.body /\ page.title = call[c].rev.title /\ live = call[c].rev.assets
            BY <2>5, <3>1 DEF InStep
        <3> QED BY <3>1, <3>2
    <2>7. CASE UndoCopy(c)
        <3>1. call[c].at = "u_copy" /\ page' = page BY <2>1, <2>7, UndoCopyShape
        <3>2. page.body = call[c].old.body /\ page.title = call[c].old.title BY <2>5, <3>1 DEF InStep
        <3>3. live' = call[c].assets BY <2>1, <2>2, <2>3, <2>4, <2>7, UndoCopyReturns
        <3> QED BY <3>1, <3>2, <3>3
    <2> QED BY <2>3, <2>6, <2>7
<1>2. Inv /\ [Next]_vars => [\A c \in Calls : RestoreEnds(c) => Whole(c)]_vars BY <1>1
<1> QED BY <1>2, InvHolds, PTL DEF Spec, RestoreAllOrNothing
=============================================================================
