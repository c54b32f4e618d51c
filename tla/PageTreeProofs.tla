--------------------------- MODULE PageTreeProofs ---------------------------
(***************************************************************************)
(* The page tree stays a tree, for every number of pages and slugs.  First  *)
(* what PageTree promises: each of its operations keeps TreeOK.  Then that  *)
(* TreeService with its files keeps the promise: whatever file operations   *)
(* fail, a step of PageTreeDisk is one of PageTree or changes no tree.      *)
(***************************************************************************)
EXTENDS PageTreeDisk, FiniteSetTheorems, SequenceTheorems, TLAPS

-----------------------------------------------------------------------------
(* Child slices *)

\* No element stands twice in a slice.
Once(seq) == \A i, j \in DOMAIN seq : seq[i] = seq[j] => i = j

LEMMA Positions ==
    ASSUME NEW S, NEW seq \in Seq(S)
    PROVE  /\ Len(seq) \in Nat /\ DOMAIN seq = 1 .. Len(seq)
           /\ \A i \in DOMAIN seq : seq[i] \in S
           /\ ToSet(seq) = {seq[i] : i \in 1 .. Len(seq)}
BY LenProperties, ElementOfSeq DEF ToSet

LEMMA AppendedOnce ==
    ASSUME NEW S, NEW seq \in Seq(S), NEW n \in S, Once(seq), n \notin ToSet(seq)
    PROVE  Append(seq, n) \in Seq(S) /\ Once(Append(seq, n)) /\ ToSet(Append(seq, n)) = ToSet(seq) \union {n}
<1> DEFINE new == Append(seq, n)
<1>1. /\ new \in Seq(S) /\ Len(new) = Len(seq) + 1
      /\ \A i \in 1 .. Len(seq) : new[i] = seq[i]
      /\ new[Len(seq) + 1] = n
    BY AppendProperties
<1>2. Len(seq) \in Nat /\ DOMAIN seq = 1 .. Len(seq) /\ DOMAIN new = 1 .. Len(seq) + 1
    BY <1>1, LenProperties
<1>3. ToSet(seq) = {seq[i] : i \in 1 .. Len(seq)} /\ ToSet(new) = {new[i] : i \in 1 .. Len(seq) + 1}
    BY <1>2 DEF ToSet
<1> HIDE DEF new
<1>4. ToSet(new) = ToSet(seq) \union {n} BY <1>1, <1>2, <1>3
<1>5. Once(new) BY <1>1, <1>2, <1>3 DEF Once
<1> QED BY <1>1, <1>4, <1>5 DEF new

LEMMA RemovedOnce ==
    ASSUME NEW S, NEW seq \in Seq(S), NEW n \in ToSet(seq), Once(seq)
    PROVE  Without(seq, n) \in Seq(S) /\ Once(Without(seq, n)) /\ ToSet(Without(seq, n)) = ToSet(seq) \ {n}
<1> DEFINE k == CHOOSE i \in DOMAIN seq : seq[i] = n
           a == SubSeq(seq, 1, k - 1)
           b == SubSeq(seq, k + 1, Len(seq))
           new == a \o b
<1>1. Len(seq) \in Nat /\ DOMAIN seq = 1 .. Len(seq) /\ \A i \in DOMAIN seq : seq[i] \in S
    BY Positions
<1>2. k \in DOMAIN seq /\ seq[k] = n BY DEF ToSet
<1>3. new = Without(seq, n) BY DEF Without, RemoveAt
<1> HIDE DEF k
<1>4. k \in 1 .. Len(seq) BY <1>1, <1>2
<1>5. /\ a \in Seq(S) /\ Len(a) = k - 1 /\ \A i \in 1 .. k - 1 : a[i] = seq[i]
  <2>1. 1 \in Int /\ k - 1 \in Int /\ \A i \in 1 .. k - 1 : seq[i] \in S BY <1>1, <1>4
  <2>2. /\ a \in Seq(S) /\ Len(a) = IF 1 <= k - 1 THEN (k - 1) - 1 + 1 ELSE 0
        /\ \A i \in 1 .. (k - 1) - 1 + 1 : a[i] = seq[1 + i - 1]
      BY <2>1, SubSeqProperties
  <2> HIDE DEF a
  <2> QED BY <1>4, <2>2
<1>6. /\ b \in Seq(S) /\ Len(b) = Len(seq) - k /\ \A i \in 1 .. Len(seq) - k : b[i] = seq[k + i]
  <2>1. k + 1 \in Int /\ Len(seq) \in Int /\ \A i \in k + 1 .. Len(seq) : seq[i] \in S BY <1>1, <1>4
  <2>2. /\ b \in Seq(S) /\ Len(b) = IF k + 1 <= Len(seq) THEN Len(seq) - (k + 1) + 1 ELSE 0
        /\ \A i \in 1 .. Len(seq) - (k + 1) + 1 : b[i] = seq[(k + 1) + i - 1]
      BY <2>1, SubSeqProperties
  <2>3. /\ Len(seq) - (k + 1) + 1 = Len(seq) - k
        /\ k + 1 <= Len(seq) \/ (~(k + 1 <= Len(seq)) /\ Len(seq) - k = 0)
        /\ \A i \in 1 .. Len(seq) - k : (k + 1) + i - 1 = k + i
    <3>1. Len(seq) \in Nat /\ k \in Nat /\ k <= Len(seq) BY <1>1, <1>4
    <3>2. \A l, m \in Nat : m <= l => /\ l - (m + 1) + 1 = l - m
                                      /\ m + 1 <= l \/ (~(m + 1 <= l) /\ l - m = 0)
                                      /\ \A i \in 1 .. l - m : (m + 1) + i - 1 = m + i
        OBVIOUS
    <3> QED BY <3>1, <3>2
  <2> HIDE DEF b
  <2>4. b \in Seq(S) /\ Len(b) = Len(seq) - k BY <2>2, <2>3
  <2>5. \A i \in 1 .. Len(seq) - k : b[i] = seq[(k + 1) + i - 1] BY <2>2, <2>3
  <2>6. \A i \in 1 .. Len(seq) - k : b[i] = seq[k + i] BY <1>1, <1>4, <2>3, <2>5
  <2> QED BY <2>4, <2>6
<1> HIDE DEF a, b
<1>7. /\ new \in Seq(S) /\ Len(new) = Len(a) + Len(b)
      /\ \A i \in 1 .. Len(a) + Len(b) : new[i] = IF i <= Len(a) THEN a[i] ELSE b[i - Len(a)]
    BY <1>5, <1>6, ConcatProperties
<1> HIDE DEF new
<1>8. DOMAIN new = 1 .. Len(seq) - 1 /\ \A i \in DOMAIN new : new[i] = IF i < k THEN seq[i] ELSE seq[i + 1]
  <2>1. DOMAIN new = 1 .. Len(seq) - 1 BY <1>1, <1>4, <1>5, <1>6, <1>7, LenProperties
  <2>2. ASSUME NEW i \in 1 .. Len(seq) - 1 PROVE new[i] = IF i < k THEN seq[i] ELSE seq[i + 1]
    <3> HIDE DEF new
    <3>0. Len(a) + Len(b) = Len(seq) - 1 BY <1>1, <1>4, <1>5, <1>6
    <3>1. CASE i < k
      <4>1. i \in 1 .. k - 1 /\ i <= Len(a) /\ i \in 1 .. Len(a) + Len(b) BY <1>1, <1>4, <1>5, <3>0, <3>1
      <4>2. new[i] = a[i] BY <1>7, <4>1
      <4>3. a[i] = seq[i] BY <1>5, <4>1
      <4> QED BY <3>1, <4>2, <4>3
    <3>2. CASE i >= k
      <4>1. i - (k - 1) \in 1 .. Len(seq) - k /\ ~(i <= k - 1) BY <1>1, <1>4, <3>2
      <4>5. Len(a) = k - 1 /\ ~(i <= Len(a)) /\ i \in 1 .. Len(a) + Len(b) BY <1>1, <1>4, <1>5, <3>0, <4>1
      <4>6. new[i] = b[i - Len(a)] BY <1>7, <4>5
      <4>2. new[i] = b[i - (k - 1)] BY <4>5, <4>6
      <4>3. b[i - (k - 1)] = seq[k + (i - (k - 1))] BY <1>6, <4>1
      <4>4. k + (i - (k - 1)) = i + 1 BY <1>1, <1>4
      <4> QED BY <1>4, <3>2, <4>2, <4>3, <4>4
    <3> QED BY <1>1, <1>4, <3>1, <3>2
  <2> QED BY <2>1, <2>2
<1>9. Once(new) BY <1>1, <1>4, <1>8 DEF Once
<1>10. ToSet(new) = ToSet(seq) \ {n}
  <2>1. ASSUME NEW i \in DOMAIN new PROVE new[i] \in ToSet(seq) \ {n}
      BY <1>1, <1>2, <1>4, <1>8, <2>1 DEF ToSet, Once
  <2>2. ASSUME NEW x \in ToSet(seq) \ {n} PROVE \E i \in DOMAIN new : new[i] = x
    <3>1. PICK j \in 1 .. Len(seq) : seq[j] = x BY <1>1, <2>2 DEF ToSet
    <3>2. j # k BY <1>2, <2>2, <3>1
    <3>3. CASE j < k
      <4>1. j \in DOMAIN new BY <1>1, <1>4, <1>8, <3>3
      <4>2. new[j] = seq[j] BY <1>8, <3>3, <4>1
      <4> QED BY <3>1, <4>1, <4>2
    <3>4. CASE j > k
      <4>1. j - 1 \in DOMAIN new /\ ~(j - 1 < k) /\ (j - 1) + 1 = j BY <1>1, <1>4, <1>8, <3>4
      <4>2. new[j - 1] = seq[(j - 1) + 1] BY <1>8, <4>1
      <4>3. new[j - 1] = seq[j] BY <4>1, <4>2
      <4> QED BY <3>1, <4>1, <4>3
    <3> QED BY <1>4, <3>2, <3>3, <3>4
  <2> QED BY <2>1, <2>2 DEF ToSet
<1> QED BY <1>3, <1>7, <1>9, <1>10

LEMMA InsertedOnce ==
    ASSUME NEW S, NEW seq \in Seq(S), NEW n \in S, Once(seq), n \notin ToSet(seq), NEW k \in 1 .. Len(seq) + 1
    PROVE  InsertAt(seq, k, n) \in Seq(S) /\ Once(InsertAt(seq, k, n)) /\ ToSet(InsertAt(seq, k, n)) = ToSet(seq) \union {n}
<1> DEFINE a == SubSeq(seq, 1, k - 1)
           b == SubSeq(seq, k, Len(seq))
           c == a \o <<n>>
           new == c \o b
<1>1. Len(seq) \in Nat /\ DOMAIN seq = 1 .. Len(seq) /\ \A i \in DOMAIN seq : seq[i] \in S
    BY Positions
<1>2. new = InsertAt(seq, k, n) BY DEF InsertAt
<1>3. /\ a \in Seq(S) /\ Len(a) = k - 1 /\ \A i \in 1 .. k - 1 : a[i] = seq[i]
  <2>1. 1 \in Int /\ k - 1 \in Int /\ \A i \in 1 .. k - 1 : seq[i] \in S BY <1>1
  <2>2. /\ a \in Seq(S) /\ Len(a) = IF 1 <= k - 1 THEN (k - 1) - 1 + 1 ELSE 0
        /\ \A i \in 1 .. (k - 1) - 1 + 1 : a[i] = seq[1 + i - 1]
      BY <2>1, SubSeqProperties
  <2> HIDE DEF a
  <2> QED BY <1>1, <2>2
<1>4. /\ b \in Seq(S) /\ Len(b) = Len(seq) - k + 1 /\ \A i \in 1 .. Len(seq) - k + 1 : b[i] = seq[k + i - 1]
  <2>1. k \in Int /\ Len(seq) \in Int /\ \A i \in k .. Len(seq) : seq[i] \in S BY <1>1
  <2>2. /\ b \in Seq(S) /\ Len(b) = IF k <= Len(seq) THEN Len(seq) - k + 1 ELSE 0
        /\ \A i \in 1 .. Len(seq) - k + 1 : b[i] = seq[k + i - 1]
      BY <2>1, SubSeqProperties
  <2> HIDE DEF b
  <2> QED BY <1>1, <2>2
<1> HIDE DEF a, b
<1>5. /\ c \in Seq(S) /\ Len(c) = k /\ \A i \in 1 .. k - 1 : c[i] = seq[i]
      /\ c[k] = n
  <2>1. c = Append(a, n) BY <1>3, AppendIsConcat
  <2> HIDE DEF c
  <2>2. /\ Append(a, n) \in Seq(S) /\ Len(Append(a, n)) = Len(a) + 1
        /\ \A i \in 1 .. Len(a) : Append(a, n)[i] = a[i]
        /\ Append(a, n)[Len(a) + 1] = n
      BY <1>3, AppendProperties
  <2> QED BY <1>1, <1>3, <2>1, <2>2
<1> HIDE DEF c
<1>6. /\ new \in Seq(S) /\ Len(new) = Len(c) + Len(b)
      /\ \A i \in 1 .. Len(c) + Len(b) : new[i] = IF i <= Len(c) THEN c[i] ELSE b[i - Len(c)]
    BY <1>4, <1>5, ConcatProperties
<1> HIDE DEF new
<1>7. /\ DOMAIN new = 1 .. Len(seq) + 1
      /\ \A i \in DOMAIN new : new[i] = IF i < k THEN seq[i] ELSE IF i = k THEN n ELSE seq[i - 1]
  <2>1. DOMAIN new = 1 .. Len(seq) + 1 BY <1>1, <1>4, <1>5, <1>6, LenProperties
  <2>2. ASSUME NEW i \in 1 .. Len(seq) + 1 PROVE new[i] = IF i < k THEN seq[i] ELSE IF i = k THEN n ELSE seq[i - 1]
    <3>1. CASE i <= k BY <1>1, <1>4, <1>5, <1>6, <3>1
    <3>2. CASE i > k
      <4>1. i - k \in 1 .. Len(seq) - k + 1 /\ ~(i <= k) BY <1>1, <3>2
      <4>2. new[i] = b[i - k] BY <1>1, <1>4, <1>5, <1>6, <4>1, SMTT(30)
      <4>3. b[i - k] = seq[k + (i - k) - 1] /\ k + (i - k) - 1 = i - 1 BY <1>1, <1>4, <4>1
      <4> QED BY <3>2, <4>2, <4>3
    <3> QED BY <1>1, <3>1, <3>2
  <2> QED BY <2>1, <2>2
<1>8. Once(new)
  <2>1. \A i \in DOMAIN seq : seq[i] # n BY DEF ToSet
  <2>2. SUFFICES ASSUME NEW i \in DOMAIN new, NEW j \in DOMAIN new, new[i] = new[j] PROVE i = j BY DEF Once
  <2>3. CASE i = k BY <1>1, <1>7, <2>1, <2>2, <2>3
  <2>4. CASE j = k BY <1>1, <1>7, <2>1, <2>2, <2>4
  <2>5. CASE i # k /\ j # k BY <1>1, <1>7, <2>2, <2>5 DEF Once
  <2> QED BY <2>3, <2>4, <2>5
<1>9. ToSet(new) = ToSet(seq) \union {n}
  <2>1. ASSUME NEW i \in DOMAIN new PROVE new[i] \in ToSet(seq) \union {n}
      BY <1>1, <1>7, <2>1 DEF ToSet
  <2>2. ASSUME NEW x \in ToSet(seq) \union {n} PROVE \E i \in DOMAIN new : new[i] = x
    <3>1. CASE x = n BY <1>1, <1>7, <3>1
    <3>2. CASE x \in ToSet(seq)
      <4>1. PICK j \in 1 .. Len(seq) : seq[j] = x BY <1>1, <3>2 DEF ToSet
      <4>2. CASE j < k
        <5>1. j \in DOMAIN new BY <1>1, <1>7, <4>1
        <5>2. new[j] = seq[j] BY <1>7, <4>2, <5>1
        <5> QED BY <4>1, <5>1, <5>2
      <4>3. CASE j >= k
        <5>1. j + 1 \in DOMAIN new /\ ~(j + 1 < k) /\ j + 1 # k /\ (j + 1) - 1 = j BY <1>1, <1>7, <4>3
        <5>2. new[j + 1] = seq[(j + 1) - 1] BY <1>7, <5>1
        <5>3. new[j + 1] = seq[j] BY <5>1, <5>2
        <5> QED BY <4>1, <5>1, <5>3
      <4> QED BY <1>1, <4>2, <4>3
    <3> QED BY <2>2, <3>1, <3>2
  <2> QED BY <2>1, <2>2 DEF ToSet
<1> QED BY <1>2, <1>6, <1>8, <1>9

-----------------------------------------------------------------------------
(* Trees *)

Children(t, p) == {n \in t.nodes : t.parent[n] = p}

\* The fields of a tree are those of a record.
Record(t) ==
    t = [nodes |-> t.nodes, parent |-> t.parent, kids |-> t.kids, slug |-> t.slug,
         kind |-> t.kind, index |-> t.index, ver |-> t.ver, pinned |-> t.pinned]

LEMMA ReindexedFields ==
    ASSUME NEW t, Record(t), NEW P
    PROVE  LET u == Reindexed(t, P) IN
           /\ Record(u) /\ u.nodes = t.nodes /\ u.parent = t.parent /\ u.kids = t.kids /\ u.slug = t.slug
           /\ u.kind = t.kind /\ u.ver = t.ver /\ u.pinned = t.pinned
           /\ u.index = [p \in Places |-> IF p \in P THEN SlugPairs(t, p) ELSE t.index[p]]
<1> DEFINE new == [p \in Places |-> IF p \in P THEN SlugPairs(t, p) ELSE t.index[p]]
           v == [nodes |-> t.nodes, parent |-> t.parent, kids |-> t.kids, slug |-> t.slug,
                 kind |-> t.kind, index |-> new, ver |-> t.ver, pinned |-> t.pinned]
<1>1. Reindexed(t, P) = [t EXCEPT !.index = new] BY DEF Reindexed
<1> HIDE DEF new
<1>2. [t EXCEPT !.index = new] = v BY DEF Record
<1> QED BY <1>1, <1>2 DEF Record, new

LEMMA PairsOf ==
    ASSUME NEW t, NEW p
    PROVE  SlugPairs(t, p) = {<<t.slug[m], m>> : m \in ToSet(t.kids[p])}
BY DEF SlugPairs, ToSet

\* A slice holds the children of its place, each once.
Sliced(t) == \A p \in Places : Once(t.kids[p]) /\ ToSet(t.kids[p]) = Children(t, p)
Named(t) == \A n \in t.nodes : t.parent[n] \in Live(t) /\ t.slug[n] \in Slugs

LEMMA LinkedIsSliced ==
    ASSUME NEW t, TreeType(t)
    PROVE  Linked(t) <=> Named(t) /\ Sliced(t)
<1>1. ASSUME Linked(t) PROVE Sliced(t)
  <2>1. SUFFICES ASSUME NEW p \in Places PROVE Once(t.kids[p]) /\ ToSet(t.kids[p]) = Children(t, p) BY DEF Sliced
  <2>2. Once(t.kids[p]) BY <1>1 DEF Linked, Once
  <2>3. ToSet(t.kids[p]) \subseteq Children(t, p) BY <1>1 DEF Linked, ToSet, Children
  <2>4. Children(t, p) \subseteq ToSet(t.kids[p]) BY <1>1 DEF Linked, ToSet, Children
  <2> QED BY <2>2, <2>3, <2>4
<1>2. ASSUME Named(t), Sliced(t) PROVE Linked(t)
  <2>1. ASSUME NEW n \in t.nodes PROVE \E i \in DOMAIN t.kids[t.parent[n]] : t.kids[t.parent[n]][i] = n
    <3>1. t.parent[n] \in Places BY DEF TreeType
    <3>2. n \in ToSet(t.kids[t.parent[n]]) BY <1>2, <3>1 DEF Sliced, Children
    <3> QED BY <3>2 DEF ToSet
  <2>2. ASSUME NEW p \in Places, NEW i \in DOMAIN t.kids[p]
        PROVE  /\ p \in Live(t) /\ t.kids[p][i] \in t.nodes /\ t.parent[t.kids[p][i]] = p
               /\ \A j \in DOMAIN t.kids[p] : t.kids[p][i] = t.kids[p][j] => i = j
    <3>1. t.kids[p][i] \in Children(t, p) BY <1>2 DEF Sliced, ToSet
    <3> QED BY <1>2, <3>1 DEF Sliced, Children, Named, Once
  <2> QED BY <1>2, <2>1, <2>2 DEF Linked, Named
<1> QED BY <1>1, <1>2 DEF Linked, Named

\* What is said of a tree with the set of children instead of the slice.
LEMMA Branches ==
    ASSUME NEW t, WellFormed(t)
    PROVE  /\ TreeType(t) /\ Record(t) /\ Named(t) /\ Sliced(t)
           /\ SlugsUnique(t) /\ PagesAreLeaves(t) /\ Rooted(t)
           /\ \A p \in Live(t) : t.index[p] = {<<t.slug[m], m>> : m \in Children(t, p)}
           /\ \A p \in Live(t) : \A s : Find(t, p, s) = {m \in Children(t, p) : t.slug[m] = s}
<1>1. TreeType(t) /\ Record(t) /\ Named(t) /\ Sliced(t) BY LinkedIsSliced DEF WellFormed, TreeType, Record
<1>2. ASSUME NEW p \in Live(t) PROVE t.index[p] = {<<t.slug[m], m>> : m \in Children(t, p)}
  <2>1. p \in Places BY <1>1 DEF Live, TreeType, Places
  <2> QED BY <1>1, <2>1, PairsOf DEF WellFormed, IndexFresh, Sliced
<1>3. ASSUME NEW p \in Live(t), NEW s PROVE Find(t, p, s) = {m \in Children(t, p) : t.slug[m] = s}
    BY <1>2 DEF Find, Children
<1> QED BY <1>1, <1>2, <1>3 DEF WellFormed

LEMMA Assembled ==
    ASSUME NEW t, TreeType(t), Named(t), Sliced(t), SlugsUnique(t), PagesAreLeaves(t), Rooted(t),
           \A p \in Live(t) : t.index[p] = SlugPairs(t, p)
    PROVE  WellFormed(t)
BY LinkedIsSliced DEF WellFormed, IndexFresh

\* A node is below its parent and nothing is below itself.
LEMMA Descendants ==
    ASSUME NEW t, TreeType(t), Rooted(t), NEW n \in t.nodes
    PROVE  /\ n \in Subtree(t, n) /\ Subtree(t, n) \subseteq t.nodes
           /\ \A m \in t.nodes : t.parent[m] \in Subtree(t, n) => m \in Subtree(t, n)
           /\ \A m \in Subtree(t, n) \ {n} : t.parent[m] \in Subtree(t, n)
           /\ t.parent[n] \notin Subtree(t, n)
<1> DEFINE D == Subtree(t, n)
<1>1. n \in D /\ D \subseteq t.nodes BY DEF Subtree
<1>2. \A m \in t.nodes : t.parent[m] \in D => m \in D BY DEF Subtree, Closed
<1>3. ASSUME NEW m \in D \ {n} PROVE t.parent[m] \in D
  <2>1. SUFFICES ASSUME t.parent[m] \notin D PROVE FALSE OBVIOUS
  <2> DEFINE S == D \ {m}
  <2>2. S \in SUBSET t.nodes /\ n \in S BY <1>1, <1>3
  <2>3. Closed(t, S) BY <1>2, <2>1 DEF Closed
  <2> HIDE DEF S
  <2>4. D \subseteq S BY <2>2, <2>3 DEF Subtree
  <2> QED BY <1>3, <2>4 DEF S
<1>4. t.parent[n] \notin D
  <2>1. SUFFICES ASSUME t.parent[n] \in D PROVE FALSE OBVIOUS
  <2>2. \A m \in D : t.parent[m] \in D BY <1>3, <2>1
  <2> QED BY <1>1, <2>2 DEF Rooted
<1> QED BY <1>1, <1>2, <1>3, <1>4

-----------------------------------------------------------------------------
(* The operations *)

LEMMA EmptyIsWellFormed == WellFormed(EmptyTree)
<1> DEFINE t == EmptyTree
<1>1. /\ t.nodes = {} /\ t.parent = [n \in Nodes |-> Root] /\ t.kids = [p \in Places |-> <<>>]
      /\ t.slug = [n \in Nodes |-> NoSlug] /\ t.kind = [n \in Nodes |-> "page"]
      /\ t.index = [p \in Places |-> {}] /\ t.ver = [n \in Nodes |-> 0] /\ t.pinned = {}
    BY DEF EmptyTree
<1>2. Record(t) BY <1>1 DEF EmptyTree, Record
<1>3. <<>> \in Seq(Nodes) /\ DOMAIN <<>> = {} BY EmptySeq
<1> HIDE DEF t
<1>4. TreeType(t) BY <1>1, <1>2, <1>3 DEF TreeType, Record, Places, Kinds
<1>5. Named(t) /\ SlugsUnique(t) /\ PagesAreLeaves(t) /\ Rooted(t)
    BY <1>1 DEF Named, SlugsUnique, PagesAreLeaves, Rooted
<1>6. \A p \in Places : ToSet(t.kids[p]) = {} BY <1>1, <1>3 DEF ToSet
<1>7. Sliced(t) BY <1>1, <1>3, <1>6 DEF Sliced, Once, Children
<1>8. \A p \in Live(t) : p \in Places BY <1>1 DEF Live, Places
<1>9. \A p \in Live(t) : t.index[p] = SlugPairs(t, p) BY <1>1, <1>6, <1>8, PairsOf
<1> QED BY <1>4, <1>5, <1>7, <1>9, Assembled DEF t

LEMMA SectionFields ==
    ASSUME NEW t, TreeType(t), NEW p \in Live(t)
    PROVE  LET u == AsSection(t, p) IN
           /\ Record(u) /\ u.nodes = t.nodes /\ u.parent = t.parent /\ u.kids = t.kids /\ u.slug = t.slug
           /\ u.ver = t.ver /\ u.pinned = t.pinned /\ u.index = t.index
           /\ u.kind = [n \in Nodes |-> IF n = p THEN "section" ELSE t.kind[n]]
<1>1. Record(t) /\ t.kind \in [Nodes -> Kinds] BY DEF TreeType, Record
<1>2. CASE p = Root
  <2>1. AsSection(t, p) = t BY <1>2 DEF AsSection
  <2>2. t.kind = [n \in Nodes |-> IF n = p THEN "section" ELSE t.kind[n]] BY <1>1, <1>2, NodesAssumption
  <2> QED BY <1>1, <2>1, <2>2
<1>3. CASE p # Root
  <2> DEFINE new == [n \in Nodes |-> IF n = p THEN "section" ELSE t.kind[n]]
             v == [nodes |-> t.nodes, parent |-> t.parent, kids |-> t.kids, slug |-> t.slug,
                   kind |-> new, index |-> t.index, ver |-> t.ver, pinned |-> t.pinned]
  <2>1. [t.kind EXCEPT ![p] = "section"] = new BY <1>1
  <2>2. AsSection(t, p) = [t EXCEPT !.kind = [t.kind EXCEPT ![p] = "section"]] BY <1>3 DEF AsSection
  <2> HIDE DEF new
  <2>3. AsSection(t, p) = v BY <1>1, <2>1, <2>2 DEF Record
  <2> QED BY <2>3 DEF Record, new
<1> QED BY <1>2, <1>3

\* CreateNode: the auto-convert alone, when the rest of it fails.
LEMMA SectionKeeps ==
    ASSUME NEW t, WellFormed(t), NEW p \in Live(t)
    PROVE  WellFormed(AsSection(t, p))
<1> DEFINE u == AsSection(t, p)
<1>1. TreeType(t) /\ Named(t) /\ Sliced(t) /\ SlugsUnique(t) /\ PagesAreLeaves(t) /\ Rooted(t)
    BY Branches
<1>2. /\ Record(u) /\ u.nodes = t.nodes /\ u.parent = t.parent /\ u.kids = t.kids /\ u.slug = t.slug
      /\ u.ver = t.ver /\ u.pinned = t.pinned /\ u.index = t.index
      /\ u.kind = [n \in Nodes |-> IF n = p THEN "section" ELSE t.kind[n]]
    BY <1>1, SectionFields
<1> HIDE DEF u
<1>3. TreeType(u) BY <1>1, <1>2 DEF TreeType, Record, Kinds
<1>4. Named(u) /\ Sliced(u) BY <1>1, <1>2 DEF Named, Sliced, Live, Children
<1>5. SlugsUnique(u) /\ Rooted(u) BY <1>1, <1>2 DEF SlugsUnique, Rooted
<1>6. PagesAreLeaves(u)
  <2>1. \A n \in t.nodes : t.parent[n] = Root \/ t.parent[n] \in Nodes BY <1>1 DEF Named, Live, TreeType
  <2> QED BY <1>1, <1>2, <2>1 DEF PagesAreLeaves
<1>7. \A q \in Live(u) : u.index[q] = SlugPairs(u, q) BY <1>2 DEF WellFormed, IndexFresh, Live, SlugPairs
<1> QED BY <1>3, <1>4, <1>5, <1>6, <1>7, Assembled DEF u

\* u is t with n under p.
IsCreated(u, t, n, p, s, k, v) ==
    /\ Record(u) /\ u.nodes = t.nodes \union {n} /\ u.pinned = t.pinned
    /\ u.parent = [m \in Nodes |-> IF m = n THEN p ELSE t.parent[m]]
    /\ u.kids = [q \in Places |-> IF q = p THEN Append(t.kids[p], n) ELSE t.kids[q]]
    /\ u.slug = [m \in Nodes |-> IF m = n THEN s ELSE t.slug[m]]
    /\ u.kind = [m \in Nodes |-> IF m = n THEN k ELSE t.kind[m]]
    /\ u.ver = [m \in Nodes |-> IF m = n THEN v ELSE t.ver[m]]
    /\ u.index = [q \in Places |-> IF q \in {n, p} THEN SlugPairs(u, q) ELSE t.index[q]]

LEMMA CreatedFields ==
    ASSUME NEW t, TreeType(t), NEW n \in Nodes, NEW p \in Places, NEW s, NEW k, NEW v
    PROVE  IsCreated(Created(t, n, p, s, k, v), t, n, p, s, k, v)
<1> DEFINE r == [t EXCEPT !.nodes = @ \union {n}, !.parent[n] = p, !.kids[p] = Append(@, n),
                          !.slug[n] = s, !.kind[n] = k, !.ver[n] = v]
           u == Reindexed(r, {n, p})
<1>1. /\ Record(t) /\ t.parent \in [Nodes -> Places] /\ t.kids \in [Places -> Seq(Nodes)]
      /\ t.slug \in [Nodes -> Slugs \union {NoSlug}] /\ t.kind \in [Nodes -> Kinds] /\ t.ver \in [Nodes -> Nat]
    BY DEF TreeType, Record
<1> DEFINE parent == [t.parent EXCEPT ![n] = p]
           kids == [t.kids EXCEPT ![p] = Append(t.kids[p], n)]
           slug == [t.slug EXCEPT ![n] = s]
           kind == [t.kind EXCEPT ![n] = k]
           ver == [t.ver EXCEPT ![n] = v]
           w == [nodes |-> t.nodes \union {n}, parent |-> parent, kids |-> kids, slug |-> slug,
                 kind |-> kind, index |-> t.index, ver |-> ver, pinned |-> t.pinned]
<1>2. r = [t EXCEPT !.nodes = t.nodes \union {n}, !.parent = parent, !.kids = kids, !.slug = slug,
                    !.kind = kind, !.ver = ver]
    OBVIOUS
<1>3. /\ parent = [m \in Nodes |-> IF m = n THEN p ELSE t.parent[m]]
      /\ kids = [q \in Places |-> IF q = p THEN Append(t.kids[p], n) ELSE t.kids[q]]
      /\ slug = [m \in Nodes |-> IF m = n THEN s ELSE t.slug[m]]
      /\ kind = [m \in Nodes |-> IF m = n THEN k ELSE t.kind[m]]
      /\ ver = [m \in Nodes |-> IF m = n THEN v ELSE t.ver[m]]
    BY <1>1
<1> HIDE DEF parent, kids, slug, kind, ver, r
<1>4. r = w BY <1>1, <1>2 DEF Record
<1>5. Record(r) /\ r.nodes = w.nodes /\ r.parent = parent /\ r.kids = kids /\ r.slug = slug
      /\ r.kind = kind /\ r.index = t.index /\ r.ver = ver /\ r.pinned = t.pinned
    BY <1>4 DEF Record
<1>6. /\ Record(u) /\ u.nodes = r.nodes /\ u.parent = r.parent /\ u.kids = r.kids /\ u.slug = r.slug
      /\ u.kind = r.kind /\ u.ver = r.ver /\ u.pinned = r.pinned
      /\ u.index = [q \in Places |-> IF q \in {n, p} THEN SlugPairs(r, q) ELSE r.index[q]]
    BY <1>5, ReindexedFields
<1> HIDE DEF u
<1>7. \A q : SlugPairs(u, q) = SlugPairs(r, q) BY <1>6 DEF SlugPairs
<1>8. u.index = [q \in Places |-> IF q \in {n, p} THEN SlugPairs(u, q) ELSE t.index[q]]
    BY <1>5, <1>6, <1>7
<1>9. Created(t, n, p, s, k, v) = u BY DEF Created, r, u
<1>10. IsCreated(u, t, n, p, s, k, v) BY <1>3, <1>5, <1>6, <1>8 DEF IsCreated
<1> QED BY <1>9, <1>10

LEMMA CreatedKeeps ==
    ASSUME NEW t, WellFormed(t), NEW n \in Nodes \ t.nodes, NEW p \in Live(t), NEW s \in Slugs, NEW k \in Kinds,
           NEW v \in Nat, Find(t, p, s) = {}, p = Root \/ t.kind[p] = "section"
    PROVE  WellFormed(Created(t, n, p, s, k, v))
<1> DEFINE u == Created(t, n, p, s, k, v)
<1>1. /\ TreeType(t) /\ Named(t) /\ Sliced(t) /\ SlugsUnique(t) /\ PagesAreLeaves(t) /\ Rooted(t)
      /\ \A q \in Live(t) : t.index[q] = {<<t.slug[m], m>> : m \in Children(t, q)}
      /\ \A m \in Children(t, p) : t.slug[m] # s
    BY Branches
<1>2. p \in Places /\ Live(t) \subseteq Places /\ t.nodes \subseteq Nodes /\ n \in Nodes /\ Root \notin Nodes /\ p # n
    BY <1>1, NodesAssumption DEF Live, TreeType, Places
<1>3. IsCreated(u, t, n, p, s, k, v) BY <1>1, <1>2, CreatedFields
<1> HIDE DEF u
<1> USE DEF IsCreated
<1>4. /\ t.kids[p] \in Seq(Nodes) /\ Once(t.kids[p]) /\ n \notin ToSet(t.kids[p])
      /\ ToSet(t.kids[p]) = Children(t, p)
    BY <1>1, <1>2 DEF TreeType, Sliced, Children
<1>5. /\ Append(t.kids[p], n) \in Seq(Nodes) /\ Once(Append(t.kids[p], n))
      /\ ToSet(Append(t.kids[p], n)) = Children(t, p) \union {n}
    BY <1>4, AppendedOnce
<1>6. \A q \in Places : Children(u, q) = IF q = p THEN Children(t, p) \union {n} ELSE Children(t, q)
    BY <1>1, <1>2, <1>3 DEF Children, TreeType
<1>7. TreeType(u)
  <2>1. u.nodes \subseteq Nodes /\ u.pinned \subseteq u.nodes /\ DOMAIN u.index = Places BY <1>1, <1>3 DEF TreeType
  <2>2. u.parent \in [Nodes -> Places] /\ u.kids \in [Places -> Seq(Nodes)] BY <1>1, <1>2, <1>3, <1>5 DEF TreeType
  <2>3. u.slug \in [Nodes -> Slugs \union {NoSlug}] BY <1>1, <1>3 DEF TreeType
  <2>4. u.kind \in [Nodes -> Kinds] /\ u.ver \in [Nodes -> Nat] BY <1>1, <1>3 DEF TreeType
  <2> QED BY <1>3, <2>1, <2>2, <2>3, <2>4 DEF TreeType, Record
<1>8. Named(u) BY <1>1, <1>2, <1>3 DEF Named, Live
<1>9. Sliced(u)
  <2>1. SUFFICES ASSUME NEW q \in Places PROVE Once(u.kids[q]) /\ ToSet(u.kids[q]) = Children(u, q) BY DEF Sliced
  <2>2. CASE q = p BY <1>3, <1>5, <1>6, <2>2
  <2>3. CASE q # p BY <1>1, <1>3, <1>6, <2>3 DEF Sliced
  <2> QED BY <2>2, <2>3
<1>10. SlugsUnique(u)
  <2>1. \A m \in t.nodes : t.parent[m] = p => t.slug[m] # s BY <1>1 DEF Children
  <2> QED BY <1>1, <1>2, <1>3, <2>1 DEF SlugsUnique
<1>11. PagesAreLeaves(u)
  <2>1. \A m \in t.nodes : t.parent[m] # n BY <1>1, <1>2 DEF Named, Live
  <2>2. \A m \in t.nodes : t.parent[m] = Root \/ t.parent[m] \in Nodes BY <1>1, <1>2 DEF Named, Live
  <2>3. p = Root \/ p \in Nodes BY <1>2 DEF Live
  <2> QED BY <1>1, <1>2, <1>3, <2>1, <2>2, <2>3 DEF PagesAreLeaves
<1>12. Rooted(u)
  <2>1. SUFFICES ASSUME NEW S \in SUBSET u.nodes, S # {}, \A m \in S : u.parent[m] \in S PROVE FALSE
      BY DEF Rooted
  <2>2. n \notin S \/ p \in S
    <3>1. u.parent[n] = p BY <1>2, <1>3
    <3> QED BY <2>1, <3>1
  <2>3. \A m \in S : m \in Nodes BY <1>2, <1>3
  <2>4. \A m \in S \ {n} : t.parent[m] \in S \ {n}
    <3>1. \A m \in t.nodes : t.parent[m] # n BY <1>1, <1>2 DEF Named, Live
    <3> QED BY <1>3, <2>1, <2>3, <3>1
  <2>5. S \ {n} \in SUBSET t.nodes /\ S \ {n} # {} BY <1>2, <1>3, <2>1, <2>2
  <2> QED BY <1>1, <2>4, <2>5 DEF Rooted
<1>13. \A q \in Live(u) : u.index[q] = SlugPairs(u, q)
  <2>1. SUFFICES ASSUME NEW q \in Live(u) PROVE u.index[q] = SlugPairs(u, q) OBVIOUS
  <2>2. q \in Places BY <1>2, <1>3 DEF Live, Places
  <2>3. CASE q \in {n, p} BY <1>3, <2>2, <2>3
  <2>4. CASE q \notin {n, p}
    <3>1. q \in Live(t) BY <1>3, <2>4 DEF Live
    <3>2. u.index[q] = {<<t.slug[m], m>> : m \in Children(t, q)} BY <1>1, <1>3, <2>2, <2>4, <3>1
    <3>3. Children(u, q) = Children(t, q) BY <1>6, <2>2, <2>4
    <3>4. \A m \in Children(t, q) : u.slug[m] = t.slug[m] BY <1>2, <1>3 DEF Children
    <3>5. SlugPairs(u, q) = {<<u.slug[m], m>> : m \in Children(u, q)} BY <1>9, <2>2, PairsOf DEF Sliced
    <3> QED BY <3>2, <3>3, <3>4, <3>5
  <2> QED BY <2>3, <2>4
<1> QED BY <1>7, <1>8, <1>9, <1>10, <1>11, <1>12, <1>13, Assembled DEF u

\* A change of versions alone.
LEMMA VersionsFree ==
    ASSUME NEW t, WellFormed(t), NEW f \in [Nodes -> Nat]
    PROVE  WellFormed([t EXCEPT !.ver = f])
<1> DEFINE u == [t EXCEPT !.ver = f]
<1>1. /\ TreeType(t) /\ Record(t) /\ Named(t) /\ Sliced(t) /\ SlugsUnique(t) /\ PagesAreLeaves(t) /\ Rooted(t)
    BY Branches
<1>2. u = [nodes |-> t.nodes, parent |-> t.parent, kids |-> t.kids, slug |-> t.slug,
           kind |-> t.kind, index |-> t.index, ver |-> f, pinned |-> t.pinned]
    BY <1>1 DEF Record
<1> HIDE DEF u
<1>3. /\ Record(u) /\ u.nodes = t.nodes /\ u.parent = t.parent /\ u.kids = t.kids /\ u.slug = t.slug
      /\ u.kind = t.kind /\ u.index = t.index /\ u.ver = f /\ u.pinned = t.pinned
    BY <1>2 DEF Record
<1>4. TreeType(u) BY <1>1, <1>3 DEF TreeType, Record
<1>5. Named(u) /\ Sliced(u) BY <1>1, <1>3 DEF Named, Sliced, Live, Children
<1>6. SlugsUnique(u) /\ PagesAreLeaves(u) /\ Rooted(u) BY <1>1, <1>3 DEF SlugsUnique, PagesAreLeaves, Rooted
<1>7. \A q \in Live(u) : u.index[q] = SlugPairs(u, q) BY <1>3 DEF WellFormed, IndexFresh, Live, SlugPairs
<1> QED BY <1>4, <1>5, <1>6, <1>7, Assembled DEF u

LEMMA StampedKeeps ==
    ASSUME NEW t, WellFormed(t), NEW S, NEW v \in Nat
    PROVE  WellFormed(Stamped(t, S, v))
<1>1. t.ver \in [Nodes -> Nat] BY Branches DEF TreeType
<1>2. [n \in Nodes |-> IF n \in S THEN v ELSE t.ver[n]] \in [Nodes -> Nat] BY <1>1
<1> QED BY <1>2, VersionsFree DEF Stamped

\* DeleteNode: u is t without what is at or below n.
IsDeleted(u, t, n) ==
    LET D == Subtree(t, n)
        p == t.parent[n]
    IN  /\ Record(u) /\ u.nodes = t.nodes \ D /\ u.pinned = t.pinned \ D
        /\ u.parent = [m \in Nodes |-> IF m \in D THEN Root ELSE t.parent[m]]
        /\ u.kids = [q \in Places |-> IF q \in D THEN <<>> ELSE IF q = p THEN Without(t.kids[p], n) ELSE t.kids[q]]
        /\ u.slug = [m \in Nodes |-> IF m \in D THEN NoSlug ELSE t.slug[m]]
        /\ u.kind = [m \in Nodes |-> IF m \in D THEN "page" ELSE t.kind[m]]
        /\ u.ver = [m \in Nodes |-> IF m \in D THEN 0 ELSE t.ver[m]]
        /\ u.index = [q \in Places |-> IF q = p THEN SlugPairs(u, q) ELSE IF q \in D THEN {} ELSE t.index[q]]

LEMMA DeletedFields ==
    ASSUME NEW t, TreeType(t), NEW n \in t.nodes
    PROVE  IsDeleted(Deleted(t, n), t, n)
<1> DEFINE D == Subtree(t, n)
           p == t.parent[n]
           parent == [m \in DOMAIN t.parent |-> IF m \in D THEN Root ELSE t.parent[m]]
           cut == [t.kids EXCEPT ![p] = Without(t.kids[p], n)]
           kids == [q \in DOMAIN cut |-> IF q \in D THEN <<>> ELSE cut[q]]
           slug == [m \in DOMAIN t.slug |-> IF m \in D THEN NoSlug ELSE t.slug[m]]
           kind == [m \in DOMAIN t.kind |-> IF m \in D THEN "page" ELSE t.kind[m]]
           index == [q \in DOMAIN t.index |-> IF q \in D THEN {} ELSE t.index[q]]
           ver == [m \in DOMAIN t.ver |-> IF m \in D THEN 0 ELSE t.ver[m]]
           r == [nodes |-> t.nodes \ D, parent |-> parent, kids |-> kids, slug |-> slug,
                 kind |-> kind, index |-> index, ver |-> ver, pinned |-> t.pinned \ D]
           u == Reindexed(r, {p})
<1>1. /\ t.parent \in [Nodes -> Places] /\ t.kids \in [Places -> Seq(Nodes)]
      /\ t.slug \in [Nodes -> Slugs \union {NoSlug}] /\ t.kind \in [Nodes -> Kinds] /\ t.ver \in [Nodes -> Nat]
      /\ DOMAIN t.index = Places /\ t.nodes \subseteq Nodes
    BY DEF TreeType
<1>2. p \in Places BY <1>1
<1>3. Deleted(t, n) = u BY DEF Deleted
<1> HIDE DEF D, p
<1>4. /\ parent = [m \in Nodes |-> IF m \in D THEN Root ELSE t.parent[m]]
      /\ slug = [m \in Nodes |-> IF m \in D THEN NoSlug ELSE t.slug[m]]
      /\ kind = [m \in Nodes |-> IF m \in D THEN "page" ELSE t.kind[m]]
      /\ ver = [m \in Nodes |-> IF m \in D THEN 0 ELSE t.ver[m]]
      /\ index = [q \in Places |-> IF q \in D THEN {} ELSE t.index[q]]
    BY <1>1
<1>5. kids = [q \in Places |-> IF q \in D THEN <<>> ELSE IF q = p THEN Without(t.kids[p], n) ELSE t.kids[q]]
    BY <1>1, <1>2
<1> HIDE DEF parent, kids, slug, kind, index, ver, cut
<1>6. Record(r) BY DEF Record
<1>7. /\ Record(u) /\ u.nodes = r.nodes /\ u.parent = r.parent /\ u.kids = r.kids /\ u.slug = r.slug
      /\ u.kind = r.kind /\ u.ver = r.ver /\ u.pinned = r.pinned
      /\ u.index = [q \in Places |-> IF q \in {p} THEN SlugPairs(r, q) ELSE r.index[q]]
  <2> HIDE DEF r
  <2> QED BY <1>6, ReindexedFields
<1>8. /\ r.nodes = t.nodes \ D /\ r.parent = parent /\ r.kids = kids /\ r.slug = slug /\ r.kind = kind
      /\ r.index = index /\ r.ver = ver /\ r.pinned = t.pinned \ D
    OBVIOUS
<1> HIDE DEF r, u
<1>9. \A q : SlugPairs(u, q) = SlugPairs(r, q) BY <1>7 DEF SlugPairs
<1>10. u.index = [q \in Places |-> IF q = p THEN SlugPairs(u, q) ELSE IF q \in D THEN {} ELSE t.index[q]]
    BY <1>4, <1>7, <1>8, <1>9
<1>11. IsDeleted(u, t, n) BY <1>4, <1>5, <1>7, <1>8, <1>10 DEF IsDeleted, D, p
<1> QED BY <1>3, <1>11 DEF u, r, parent, kids, cut, slug, kind, index, ver, D, p

LEMMA DeletedKeeps ==
    ASSUME NEW t, WellFormed(t), NEW n \in t.nodes
    PROVE  WellFormed(Deleted(t, n))
<1> DEFINE u == Deleted(t, n)
           D == Subtree(t, n)
           p == t.parent[n]
<1>1. /\ TreeType(t) /\ Named(t) /\ Sliced(t) /\ SlugsUnique(t) /\ PagesAreLeaves(t) /\ Rooted(t)
      /\ \A q \in Live(t) : t.index[q] = {<<t.slug[m], m>> : m \in Children(t, q)}
    BY Branches
<1>2. /\ n \in D /\ D \subseteq t.nodes /\ p \notin D
      /\ \A m \in t.nodes : t.parent[m] \in D => m \in D
      /\ \A m \in D \ {n} : t.parent[m] \in D
    BY <1>1, Descendants
<1>3. /\ p \in Places /\ p \in Live(t) /\ t.nodes \subseteq Nodes /\ Root \notin Nodes /\ n \in Nodes
    BY <1>1, NodesAssumption DEF Named, Live, TreeType, Places
<1>4. IsDeleted(u, t, n) BY <1>1, DeletedFields
<1>5. /\ Record(u) /\ u.nodes = t.nodes \ D /\ u.pinned = t.pinned \ D
      /\ u.parent = [m \in Nodes |-> IF m \in D THEN Root ELSE t.parent[m]]
      /\ u.kids = [q \in Places |-> IF q \in D THEN <<>> ELSE IF q = p THEN Without(t.kids[p], n) ELSE t.kids[q]]
      /\ u.slug = [m \in Nodes |-> IF m \in D THEN NoSlug ELSE t.slug[m]]
      /\ u.kind = [m \in Nodes |-> IF m \in D THEN "page" ELSE t.kind[m]]
      /\ u.ver = [m \in Nodes |-> IF m \in D THEN 0 ELSE t.ver[m]]
      /\ u.index = [q \in Places |-> IF q = p THEN SlugPairs(u, q) ELSE IF q \in D THEN {} ELSE t.index[q]]
    BY <1>4 DEF IsDeleted
<1> HIDE DEF u, D, p
<1>6. /\ t.kids[p] \in Seq(Nodes) /\ Once(t.kids[p]) /\ n \in ToSet(t.kids[p])
      /\ ToSet(t.kids[p]) = Children(t, p)
    BY <1>1, <1>3 DEF TreeType, Sliced, Children, p
<1>7. /\ Without(t.kids[p], n) \in Seq(Nodes) /\ Once(Without(t.kids[p], n))
      /\ ToSet(Without(t.kids[p], n)) = Children(t, p) \ {n}
    BY <1>6, RemovedOnce
<1>8. \A q \in Places : Children(u, q) = IF q \in D THEN {} ELSE IF q = p THEN Children(t, p) \ {n} ELSE Children(t, q)
  <2>1. SUFFICES ASSUME NEW q \in Places
        PROVE Children(u, q) = IF q \in D THEN {} ELSE IF q = p THEN Children(t, p) \ {n} ELSE Children(t, q)
      OBVIOUS
  <2>2. \A m : m \in Children(u, q) <=> m \in t.nodes \ D /\ t.parent[m] = q BY <1>3, <1>5 DEF Children
  <2>3. CASE q \in D BY <1>2, <2>2, <2>3
  <2>4. CASE q \notin D /\ q = p BY <1>2, <2>2, <2>4 DEF Children
  <2>5. CASE q \notin D /\ q # p BY <1>2, <2>2, <2>5 DEF Children, p
  <2> QED BY <2>3, <2>4, <2>5
<1>9. TreeType(u)
  <2>1. u.nodes \subseteq Nodes /\ u.pinned \subseteq u.nodes /\ DOMAIN u.index = Places BY <1>1, <1>5 DEF TreeType
  <2>2. u.parent \in [Nodes -> Places] BY <1>1, <1>5 DEF TreeType, Places
  <2>3. u.kids \in [Places -> Seq(Nodes)] BY <1>1, <1>5, <1>7, EmptySeq DEF TreeType
  <2>4. u.slug \in [Nodes -> Slugs \union {NoSlug}] BY <1>1, <1>5 DEF TreeType
  <2>5. u.kind \in [Nodes -> Kinds] /\ u.ver \in [Nodes -> Nat] BY <1>1, <1>5 DEF TreeType, Kinds
  <2> QED BY <1>5, <2>1, <2>2, <2>3, <2>4, <2>5 DEF TreeType, Record
<1>10. Named(u) BY <1>1, <1>2, <1>3, <1>5 DEF Named, Live
<1>11. Sliced(u)
  <2>1. SUFFICES ASSUME NEW q \in Places PROVE Once(u.kids[q]) /\ ToSet(u.kids[q]) = Children(u, q) BY DEF Sliced
  <2>2. CASE q \in D
    <3>1. u.kids[q] = <<>> /\ DOMAIN <<>> = {} BY <1>5, <2>2
    <3> QED BY <1>8, <2>2, <3>1 DEF Once, ToSet
  <2>3. CASE q \notin D /\ q = p BY <1>5, <1>7, <1>8, <2>3
  <2>4. CASE q \notin D /\ q # p BY <1>1, <1>5, <1>8, <2>4 DEF Sliced
  <2> QED BY <2>2, <2>3, <2>4
<1>12. SlugsUnique(u) BY <1>1, <1>3, <1>5 DEF SlugsUnique
<1>13. PagesAreLeaves(u)
  <2>1. \A m \in t.nodes \ D : t.parent[m] \notin D BY <1>2
  <2>2. \A m \in t.nodes : t.parent[m] = Root \/ t.parent[m] \in Nodes BY <1>1, <1>3 DEF Named, Live
  <2> QED BY <1>1, <1>3, <1>5, <2>1, <2>2 DEF PagesAreLeaves
<1>14. Rooted(u)
  <2>1. SUFFICES ASSUME NEW S \in SUBSET u.nodes, S # {} PROVE \E m \in S : u.parent[m] \notin S BY DEF Rooted
  <2>2. S \in SUBSET t.nodes /\ \A m \in S : m \in Nodes /\ m \notin D BY <1>3, <1>5, <2>1
  <2>3. PICK m \in S : t.parent[m] \notin S BY <1>1, <2>1, <2>2 DEF Rooted
  <2> QED BY <1>5, <2>2, <2>3
<1>15. \A q \in Live(u) : u.index[q] = SlugPairs(u, q)
  <2>1. SUFFICES ASSUME NEW q \in Live(u) PROVE u.index[q] = SlugPairs(u, q) OBVIOUS
  <2>2. q \in Places /\ q \in Live(t) /\ q \notin D BY <1>2, <1>3, <1>5 DEF Live, Places
  <2>3. CASE q = p BY <1>5, <2>2, <2>3
  <2>4. CASE q # p
    <3>1. u.index[q] = {<<t.slug[m], m>> : m \in Children(t, q)} BY <1>1, <1>5, <2>2, <2>4
    <3>2. Children(u, q) = Children(t, q) BY <1>8, <2>2, <2>4
    <3>3. \A m \in Children(u, q) : u.slug[m] = t.slug[m] BY <1>3, <1>5 DEF Children
    <3>4. SlugPairs(u, q) = {<<u.slug[m], m>> : m \in Children(u, q)} BY <1>11, <2>2, PairsOf DEF Sliced
    <3> QED BY <3>1, <3>2, <3>3, <3>4
  <2> QED BY <2>3, <2>4
<1> QED BY <1>9, <1>10, <1>11, <1>12, <1>13, <1>14, <1>15, Assembled DEF u

\* UpdateNode: u is t with another slug for n.
IsRenamed(u, t, n, s) ==
    /\ Record(u) /\ u.nodes = t.nodes /\ u.parent = t.parent /\ u.kids = t.kids
    /\ u.kind = t.kind /\ u.ver = t.ver /\ u.pinned = t.pinned
    /\ u.slug = [m \in Nodes |-> IF m = n THEN s ELSE t.slug[m]]
    /\ u.index = [q \in Places |-> IF q = t.parent[n] THEN SlugPairs(u, q) ELSE t.index[q]]

LEMMA RenamedFields ==
    ASSUME NEW t, TreeType(t), NEW n \in t.nodes, NEW s
    PROVE  IsRenamed(Renamed(t, n, s), t, n, s)
<1> DEFINE slug == [t.slug EXCEPT ![n] = s]
           r == [t EXCEPT !.slug = slug]
           w == [nodes |-> t.nodes, parent |-> t.parent, kids |-> t.kids, slug |-> slug,
                 kind |-> t.kind, index |-> t.index, ver |-> t.ver, pinned |-> t.pinned]
           u == Reindexed(r, {t.parent[n]})
<1>1. Record(t) /\ t.slug \in [Nodes -> Slugs \union {NoSlug}] BY DEF TreeType, Record
<1>2. slug = [m \in Nodes |-> IF m = n THEN s ELSE t.slug[m]] BY <1>1
<1>3. Renamed(t, n, s) = u BY DEF Renamed
<1> HIDE DEF slug
<1>4. r = w BY <1>1 DEF Record
<1> HIDE DEF r
<1>5. /\ Record(r) /\ r.nodes = t.nodes /\ r.parent = t.parent /\ r.kids = t.kids /\ r.slug = slug
      /\ r.kind = t.kind /\ r.index = t.index /\ r.ver = t.ver /\ r.pinned = t.pinned
    BY <1>4 DEF Record
<1>6. /\ Record(u) /\ u.nodes = r.nodes /\ u.parent = r.parent /\ u.kids = r.kids /\ u.slug = r.slug
      /\ u.kind = r.kind /\ u.ver = r.ver /\ u.pinned = r.pinned
      /\ u.index = [q \in Places |-> IF q \in {t.parent[n]} THEN SlugPairs(r, q) ELSE r.index[q]]
    BY <1>5, ReindexedFields
<1> HIDE DEF u
<1>7. \A q : SlugPairs(u, q) = SlugPairs(r, q) BY <1>6 DEF SlugPairs
<1>8. u.index = [q \in Places |-> IF q = t.parent[n] THEN SlugPairs(u, q) ELSE t.index[q]]
    BY <1>5, <1>6, <1>7
<1>9. IsRenamed(u, t, n, s) BY <1>2, <1>5, <1>6, <1>8 DEF IsRenamed
<1> QED BY <1>3, <1>9

LEMMA RenamedKeeps ==
    ASSUME NEW t, WellFormed(t), NEW n \in t.nodes, NEW s \in Slugs, MayRename(t, n, s)
    PROVE  WellFormed(Renamed(t, n, s))
<1> DEFINE u == Renamed(t, n, s)
           p == t.parent[n]
<1>1. /\ TreeType(t) /\ Named(t) /\ Sliced(t) /\ SlugsUnique(t) /\ PagesAreLeaves(t) /\ Rooted(t)
      /\ \A q \in Live(t) : t.index[q] = {<<t.slug[m], m>> : m \in Children(t, q)}
    BY Branches
<1>2. p \in Places /\ p \in Live(t) /\ t.nodes \subseteq Nodes /\ n \in Nodes
    BY <1>1 DEF Named, TreeType
<1>3. \A m \in t.nodes : t.parent[m] = p /\ t.slug[m] = s => m = n
  <2>1. CASE s = t.slug[n] BY <1>1, <2>1 DEF SlugsUnique
  <2>2. CASE Find(t, p, s) \subseteq {n} BY <1>2, <2>2, Branches DEF Children
  <2> QED BY <2>1, <2>2 DEF MayRename
<1>4. IsRenamed(u, t, n, s) BY <1>1, RenamedFields
<1>5. /\ Record(u) /\ u.nodes = t.nodes /\ u.parent = t.parent /\ u.kids = t.kids
      /\ u.kind = t.kind /\ u.ver = t.ver /\ u.pinned = t.pinned
      /\ u.slug = [m \in Nodes |-> IF m = n THEN s ELSE t.slug[m]]
      /\ u.index = [q \in Places |-> IF q = p THEN SlugPairs(u, q) ELSE t.index[q]]
    BY <1>4 DEF IsRenamed
<1> HIDE DEF u
<1>6. TreeType(u) BY <1>1, <1>5 DEF TreeType, Record
<1>7. Named(u) /\ Sliced(u) BY <1>1, <1>2, <1>5 DEF Named, Sliced, Live, Children
<1>8. SlugsUnique(u) BY <1>1, <1>2, <1>3, <1>5 DEF SlugsUnique
<1>9. PagesAreLeaves(u) /\ Rooted(u) BY <1>1, <1>5 DEF PagesAreLeaves, Rooted
<1>10. \A q \in Live(u) : u.index[q] = SlugPairs(u, q)
  <2>1. SUFFICES ASSUME NEW q \in Live(u) PROVE u.index[q] = SlugPairs(u, q) OBVIOUS
  <2>2. q \in Places /\ q \in Live(t) BY <1>1, <1>5 DEF Live, Places, TreeType
  <2>3. CASE q = p BY <1>5, <2>2, <2>3
  <2>4. CASE q # p
    <3>1. u.index[q] = {<<t.slug[m], m>> : m \in Children(t, q)} BY <1>1, <1>5, <2>2, <2>4
    <3>2. Children(u, q) = Children(t, q) BY <1>5 DEF Children
    <3>3. \A m \in Children(u, q) : u.slug[m] = t.slug[m] BY <1>2, <1>5, <2>4 DEF Children
    <3>4. SlugPairs(u, q) = {<<u.slug[m], m>> : m \in Children(u, q)} BY <1>7, <2>2, PairsOf DEF Sliced
    <3> QED BY <3>1, <3>2, <3>3, <3>4
  <2> QED BY <2>3, <2>4
<1> QED BY <1>6, <1>7, <1>8, <1>9, <1>10, Assembled DEF u

\* ConvertNode: only a page without children becomes a page.
LEMMA ConvertedKeeps ==
    ASSUME NEW t, WellFormed(t), NEW n \in t.nodes, NEW k \in Kinds, MayConvert(t, n, k)
    PROVE  WellFormed([t EXCEPT !.kind[n] = k])
<1> DEFINE kind == [t.kind EXCEPT ![n] = k]
           u == [t EXCEPT !.kind = kind]
<1>1. /\ TreeType(t) /\ Record(t) /\ Named(t) /\ Sliced(t) /\ SlugsUnique(t) /\ PagesAreLeaves(t) /\ Rooted(t)
    BY Branches
<1>2. kind = [m \in Nodes |-> IF m = n THEN k ELSE t.kind[m]] BY <1>1 DEF TreeType
<1> HIDE DEF kind
<1>3. u = [nodes |-> t.nodes, parent |-> t.parent, kids |-> t.kids, slug |-> t.slug,
           kind |-> kind, index |-> t.index, ver |-> t.ver, pinned |-> t.pinned]
    BY <1>1 DEF Record
<1> HIDE DEF u
<1>4. /\ Record(u) /\ u.nodes = t.nodes /\ u.parent = t.parent /\ u.kids = t.kids /\ u.slug = t.slug
      /\ u.kind = kind /\ u.index = t.index /\ u.ver = t.ver /\ u.pinned = t.pinned
    BY <1>3 DEF Record
<1>5. TreeType(u) BY <1>1, <1>2, <1>4 DEF TreeType, Record
<1>6. Named(u) /\ Sliced(u) BY <1>1, <1>4 DEF Named, Sliced, Live, Children
<1>7. SlugsUnique(u) /\ Rooted(u) BY <1>1, <1>4 DEF SlugsUnique, Rooted
<1>8. PagesAreLeaves(u)
  <2>1. SUFFICES ASSUME NEW m \in t.nodes, t.parent[m] # Root PROVE u.kind[t.parent[m]] = "section"
      BY <1>4 DEF PagesAreLeaves
  <2>2. t.parent[m] \in t.nodes /\ t.kind[t.parent[m]] = "section" BY <1>1, <2>1 DEF Named, Live, PagesAreLeaves
  <2>3. t.kids[t.parent[m]] # <<>>
    <3>1. t.parent[m] \in Places BY <1>1 DEF TreeType
    <3>2. m \in ToSet(t.kids[t.parent[m]]) BY <1>1, <3>1 DEF Sliced, Children
    <3>3. ToSet(<<>>) = {} BY DEF ToSet
    <3> QED BY <3>2, <3>3
  <2>4. t.parent[m] = n => k = "section" BY <2>3 DEF MayConvert, Kinds
  <2>5. t.parent[m] \in Nodes BY <1>1, <2>2 DEF TreeType
  <2> QED BY <1>2, <1>4, <2>2, <2>4, <2>5
<1>9. \A q \in Live(u) : u.index[q] = SlugPairs(u, q) BY <1>4 DEF WellFormed, IndexFresh, Live, SlugPairs
<1> QED BY <1>5, <1>6, <1>7, <1>8, <1>9, Assembled DEF u, kind

\* SortPages: the same children in another order.
LEMMA SortedKeeps ==
    ASSUME NEW t, WellFormed(t), NEW p \in Places, NEW seq \in Seq(Nodes), MaySort(t, p, seq)
    PROVE  WellFormed([t EXCEPT !.kids[p] = seq])
<1> DEFINE kids == [t.kids EXCEPT ![p] = seq]
           u == [t EXCEPT !.kids = kids]
<1>1. /\ TreeType(t) /\ Record(t) /\ Named(t) /\ Sliced(t) /\ SlugsUnique(t) /\ PagesAreLeaves(t) /\ Rooted(t)
      /\ \A q \in Live(t) : t.index[q] = {<<t.slug[m], m>> : m \in Children(t, q)}
    BY Branches
<1>2. kids = [q \in Places |-> IF q = p THEN seq ELSE t.kids[q]] BY <1>1 DEF TreeType
<1> HIDE DEF kids
<1>3. u = [nodes |-> t.nodes, parent |-> t.parent, kids |-> kids, slug |-> t.slug,
           kind |-> t.kind, index |-> t.index, ver |-> t.ver, pinned |-> t.pinned]
    BY <1>1 DEF Record
<1> HIDE DEF u
<1>4. /\ Record(u) /\ u.nodes = t.nodes /\ u.parent = t.parent /\ u.kids = kids /\ u.slug = t.slug
      /\ u.kind = t.kind /\ u.index = t.index /\ u.ver = t.ver /\ u.pinned = t.pinned
    BY <1>3 DEF Record
<1>5. Once(seq) /\ ToSet(seq) = ToSet(t.kids[p]) BY DEF MaySort, Once, ToSet
<1>6. TreeType(u) BY <1>1, <1>2, <1>4 DEF TreeType, Record
<1>7. \A q : Children(u, q) = Children(t, q) BY <1>4 DEF Children
<1>8. Sliced(u)
  <2>1. SUFFICES ASSUME NEW q \in Places PROVE Once(u.kids[q]) /\ ToSet(u.kids[q]) = Children(u, q) BY DEF Sliced
  <2>2. CASE q = p BY <1>1, <1>2, <1>4, <1>5, <1>7, <2>2 DEF Sliced
  <2>3. CASE q # p BY <1>1, <1>2, <1>4, <1>7, <2>3 DEF Sliced
  <2> QED BY <2>2, <2>3
<1>9. Named(u) /\ SlugsUnique(u) /\ PagesAreLeaves(u) /\ Rooted(u)
    BY <1>1, <1>4 DEF Named, Live, SlugsUnique, PagesAreLeaves, Rooted
<1>10. \A q \in Live(u) : u.index[q] = SlugPairs(u, q)
  <2>1. SUFFICES ASSUME NEW q \in Live(u) PROVE u.index[q] = SlugPairs(u, q) OBVIOUS
  <2>2. q \in Places /\ q \in Live(t) BY <1>1, <1>4 DEF Live, Places, TreeType
  <2>3. u.index[q] = {<<t.slug[m], m>> : m \in Children(t, q)} BY <1>1, <1>4, <2>2
  <2>4. SlugPairs(u, q) = {<<u.slug[m], m>> : m \in Children(u, q)} BY <1>8, <2>2, PairsOf DEF Sliced
  <2> QED BY <1>4, <1>7, <2>3, <2>4
<1> QED BY <1>6, <1>8, <1>9, <1>10, Assembled DEF u, kids

\* SetPinned
LEMMA PinnedKeeps ==
    ASSUME NEW t, WellFormed(t), NEW P \in SUBSET t.nodes
    PROVE  WellFormed([t EXCEPT !.pinned = P])
<1> DEFINE u == [t EXCEPT !.pinned = P]
<1>1. /\ TreeType(t) /\ Record(t) /\ Named(t) /\ Sliced(t) /\ SlugsUnique(t) /\ PagesAreLeaves(t) /\ Rooted(t)
    BY Branches
<1>2. u = [nodes |-> t.nodes, parent |-> t.parent, kids |-> t.kids, slug |-> t.slug,
           kind |-> t.kind, index |-> t.index, ver |-> t.ver, pinned |-> P]
    BY <1>1 DEF Record
<1> HIDE DEF u
<1>3. /\ Record(u) /\ u.nodes = t.nodes /\ u.parent = t.parent /\ u.kids = t.kids /\ u.slug = t.slug
      /\ u.kind = t.kind /\ u.index = t.index /\ u.ver = t.ver /\ u.pinned = P
    BY <1>2 DEF Record
<1>4. TreeType(u) BY <1>1, <1>3 DEF TreeType, Record
<1>5. Named(u) /\ Sliced(u) BY <1>1, <1>3 DEF Named, Sliced, Live, Children
<1>6. SlugsUnique(u) /\ PagesAreLeaves(u) /\ Rooted(u) BY <1>1, <1>3 DEF SlugsUnique, PagesAreLeaves, Rooted
<1>7. \A q \in Live(u) : u.index[q] = SlugPairs(u, q) BY <1>3 DEF WellFormed, IndexFresh, Live, SlugPairs
<1> QED BY <1>4, <1>5, <1>6, <1>7, Assembled DEF u

\* MoveNodeToPosition: u is t with n under p.
IsMoved(u, t, n, p, i) ==
    /\ Record(u) /\ u.nodes = t.nodes /\ u.slug = t.slug /\ u.kind = t.kind /\ u.ver = t.ver /\ u.pinned = t.pinned
    /\ u.parent = [m \in Nodes |-> IF m = n THEN p ELSE t.parent[m]]
    /\ u.kids = [q \in Places |-> IF q = p THEN InsertAt(t.kids[p], i, n)
                                  ELSE IF q = t.parent[n] THEN Without(t.kids[q], n) ELSE t.kids[q]]
    /\ u.index = [q \in Places |-> IF q \in {t.parent[n], p} THEN SlugPairs(u, q) ELSE t.index[q]]

LEMMA MovedFields ==
    ASSUME NEW t, TreeType(t), NEW n \in t.nodes, NEW p \in Places, p # t.parent[n], NEW i
    PROVE  IsMoved(Moved(t, n, p, i), t, n, p, i)
<1> DEFINE old == t.parent[n]
           out == [t.kids EXCEPT ![old] = Without(t.kids[old], n)]
           kids == [out EXCEPT ![p] = InsertAt(out[p], i, n)]
           parent == [t.parent EXCEPT ![n] = p]
           r == [t EXCEPT !.parent = parent, !.kids = kids]
           w == [nodes |-> t.nodes, parent |-> parent, kids |-> kids, slug |-> t.slug,
                 kind |-> t.kind, index |-> t.index, ver |-> t.ver, pinned |-> t.pinned]
           u == Reindexed(r, {old, p})
<1>1. Record(t) /\ t.parent \in [Nodes -> Places] /\ t.kids \in [Places -> Seq(Nodes)] /\ n \in Nodes
    BY DEF TreeType, Record
<1>2. old \in Places BY <1>1
<1>3. parent = [m \in Nodes |-> IF m = n THEN p ELSE t.parent[m]] BY <1>1
<1>4. out = [q \in Places |-> IF q = old THEN Without(t.kids[q], n) ELSE t.kids[q]] BY <1>1
<1>5. out[p] = t.kids[p] BY <1>4
<1>6. [t.kids EXCEPT ![old] = Without(t.kids[old], n), ![p] = InsertAt(t.kids[p], i, n)] = kids
    BY <1>5
<1>7. Moved(t, n, p, i) = u BY <1>6 DEF Moved
<1> HIDE DEF out
<1>8. kids = [q \in Places |-> IF q = p THEN InsertAt(t.kids[p], i, n)
                               ELSE IF q = old THEN Without(t.kids[q], n) ELSE t.kids[q]]
    BY <1>4, <1>5
<1> HIDE DEF kids, parent
<1>15. r = [t EXCEPT !.parent = parent, !.kids = kids] OBVIOUS
<1> HIDE DEF r
<1>9. r = w BY <1>1, <1>15 DEF Record
<1>10. /\ Record(r) /\ r.nodes = t.nodes /\ r.parent = parent /\ r.kids = kids /\ r.slug = t.slug
       /\ r.kind = t.kind /\ r.index = t.index /\ r.ver = t.ver /\ r.pinned = t.pinned
    BY <1>9 DEF Record
<1>11. /\ Record(u) /\ u.nodes = r.nodes /\ u.parent = r.parent /\ u.kids = r.kids /\ u.slug = r.slug
       /\ u.kind = r.kind /\ u.ver = r.ver /\ u.pinned = r.pinned
       /\ u.index = [q \in Places |-> IF q \in {old, p} THEN SlugPairs(r, q) ELSE r.index[q]]
    BY <1>10, ReindexedFields
<1> HIDE DEF u
<1>12. \A q : SlugPairs(u, q) = SlugPairs(r, q) BY <1>11 DEF SlugPairs
<1>13. u.index = [q \in Places |-> IF q \in {old, p} THEN SlugPairs(u, q) ELSE t.index[q]]
    BY <1>10, <1>11, <1>12
<1>14. IsMoved(u, t, n, p, i) BY <1>3, <1>8, <1>10, <1>11, <1>13 DEF IsMoved
<1> QED BY <1>7, <1>14

LEMMA MovedKeeps ==
    ASSUME NEW t, WellFormed(t), NEW n \in t.nodes, NEW p \in Live(t), MayMove(t, n, p), p # t.parent[n],
           p = Root \/ t.kind[p] = "section", NEW i \in 1 .. Len(t.kids[p]) + 1
    PROVE  WellFormed(Moved(t, n, p, i))
<1> DEFINE u == Moved(t, n, p, i)
           D == Subtree(t, n)
           old == t.parent[n]
<1>1. /\ TreeType(t) /\ Named(t) /\ Sliced(t) /\ SlugsUnique(t) /\ PagesAreLeaves(t) /\ Rooted(t)
      /\ \A q \in Live(t) : t.index[q] = {<<t.slug[m], m>> : m \in Children(t, q)}
    BY Branches
<1>2. /\ p \in Places /\ old \in Places /\ Live(t) \subseteq Places /\ t.nodes \subseteq Nodes /\ n \in Nodes
      /\ Root \notin Nodes /\ p # old /\ p \notin D /\ p # n
    BY <1>1, NodesAssumption DEF Live, TreeType, Places, MayMove
<1>3. /\ n \in D /\ D \subseteq t.nodes /\ old \notin D
      /\ \A m \in t.nodes : t.parent[m] \in D => m \in D
    BY <1>1, Descendants
<1>4. \A m \in t.nodes : t.parent[m] = p => t.slug[m] # t.slug[n]
  <2>1. Find(t, p, t.slug[n]) = {m \in Children(t, p) : t.slug[m] = t.slug[n]} BY Branches
  <2> QED BY <1>2, <2>1 DEF MayMove, Children
<1>5. IsMoved(u, t, n, p, i) BY <1>1, <1>2, MovedFields
<1>6. /\ Record(u) /\ u.nodes = t.nodes /\ u.slug = t.slug /\ u.kind = t.kind /\ u.ver = t.ver /\ u.pinned = t.pinned
      /\ u.parent = [m \in Nodes |-> IF m = n THEN p ELSE t.parent[m]]
      /\ u.kids = [q \in Places |-> IF q = p THEN InsertAt(t.kids[p], i, n)
                                    ELSE IF q = old THEN Without(t.kids[q], n) ELSE t.kids[q]]
      /\ u.index = [q \in Places |-> IF q \in {old, p} THEN SlugPairs(u, q) ELSE t.index[q]]
    BY <1>5 DEF IsMoved
<1> HIDE DEF u, D
<1>7. /\ t.kids[p] \in Seq(Nodes) /\ Once(t.kids[p]) /\ n \notin ToSet(t.kids[p])
      /\ ToSet(t.kids[p]) = Children(t, p)
    BY <1>1, <1>2 DEF TreeType, Sliced, Children
<1>8. /\ InsertAt(t.kids[p], i, n) \in Seq(Nodes) /\ Once(InsertAt(t.kids[p], i, n))
      /\ ToSet(InsertAt(t.kids[p], i, n)) = Children(t, p) \union {n}
    BY <1>2, <1>7, InsertedOnce
<1>9. /\ t.kids[old] \in Seq(Nodes) /\ Once(t.kids[old]) /\ n \in ToSet(t.kids[old])
      /\ ToSet(t.kids[old]) = Children(t, old)
    BY <1>1, <1>2 DEF TreeType, Sliced, Children
<1>10. /\ Without(t.kids[old], n) \in Seq(Nodes) /\ Once(Without(t.kids[old], n))
       /\ ToSet(Without(t.kids[old], n)) = Children(t, old) \ {n}
    BY <1>9, RemovedOnce
<1>11. \A q \in Places : Children(u, q) = IF q = p THEN Children(t, p) \union {n}
                                          ELSE IF q = old THEN Children(t, old) \ {n} ELSE Children(t, q)
  <2>1. \A q, m : m \in Children(u, q) <=> m \in t.nodes /\ q = IF m = n THEN p ELSE t.parent[m]
      BY <1>2, <1>6 DEF Children
  <2>2. \A q, m : m \in Children(t, q) <=> m \in t.nodes /\ q = t.parent[m] BY DEF Children
  <2>3. SUFFICES ASSUME NEW q \in Places
        PROVE Children(u, q) = IF q = p THEN Children(t, p) \union {n}
                               ELSE IF q = old THEN Children(t, old) \ {n} ELSE Children(t, q)
      OBVIOUS
  <2>4. CASE q = p BY <2>1, <2>2, <2>4
  <2>5. CASE q # p /\ q = old BY <1>2, <2>1, <2>2, <2>5
  <2>6. CASE q # p /\ q # old
    <3>1. \A m \in Children(u, q) : m # n /\ q = t.parent[m] /\ m \in t.nodes BY <2>1, <2>6
    <3>2. \A m \in Children(t, q) : m # n /\ q = t.parent[m] /\ m \in t.nodes BY <2>2, <2>6
    <3>3. Children(u, q) \subseteq Children(t, q) BY <2>2, <3>1
    <3>4. Children(t, q) \subseteq Children(u, q) BY <2>1, <3>2
    <3>5. Children(u, q) = Children(t, q) BY <3>3, <3>4
    <3> QED BY <2>6, <3>5
  <2> QED BY <2>4, <2>5, <2>6
<1>12. TreeType(u)
  <2>1. u.nodes \subseteq Nodes /\ u.pinned \subseteq u.nodes /\ DOMAIN u.index = Places BY <1>1, <1>6 DEF TreeType
  <2>2. u.parent \in [Nodes -> Places] BY <1>1, <1>2, <1>6 DEF TreeType
  <2>3. u.kids \in [Places -> Seq(Nodes)] BY <1>1, <1>6, <1>8, <1>10 DEF TreeType
  <2> QED BY <1>1, <1>6, <2>1, <2>2, <2>3 DEF TreeType, Record
<1>13. Named(u) BY <1>1, <1>2, <1>6 DEF Named, Live
<1>14. Sliced(u)
  <2>1. SUFFICES ASSUME NEW q \in Places PROVE Once(u.kids[q]) /\ ToSet(u.kids[q]) = Children(u, q) BY DEF Sliced
  <2>2. CASE q = p BY <1>6, <1>8, <1>11, <2>2
  <2>3. CASE q = old BY <1>2, <1>6, <1>10, <1>11, <2>3
  <2>4. CASE q # p /\ q # old BY <1>1, <1>6, <1>11, <2>4 DEF Sliced
  <2> QED BY <2>2, <2>3, <2>4
<1>15. SlugsUnique(u) BY <1>1, <1>2, <1>4, <1>6 DEF SlugsUnique
<1>16. PagesAreLeaves(u) BY <1>1, <1>2, <1>6 DEF PagesAreLeaves
<1>17. Rooted(u)
  <2>1. SUFFICES ASSUME NEW S \in SUBSET u.nodes, S # {}, \A m \in S : u.parent[m] \in S PROVE FALSE
      BY DEF Rooted
  <2>2. S \in SUBSET t.nodes /\ \A m \in S : m # n => t.parent[m] \in S BY <1>2, <1>6, <2>1
  <2>3. PICK m \in S : t.parent[m] \notin S BY <1>1, <2>1, <2>2 DEF Rooted
  <2>4. n \in S /\ p \in S
    <3>1. m = n BY <2>2, <2>3
    <3>2. u.parent[n] = p BY <1>2, <1>6
    <3> QED BY <2>1, <3>1, <3>2
  <2>5. S \ D \in SUBSET t.nodes /\ S \ D # {} BY <1>2, <2>2, <2>4
  <2>6. PICK k \in S \ D : t.parent[k] \notin S \ D BY <1>1, <2>5 DEF Rooted
  <2>7. k # n /\ k \in t.nodes BY <1>3, <2>2, <2>6
  <2>8. t.parent[k] \in D BY <2>2, <2>6, <2>7
  <2> QED BY <1>3, <2>6, <2>7, <2>8
<1>18. \A q \in Live(u) : u.index[q] = SlugPairs(u, q)
  <2>1. SUFFICES ASSUME NEW q \in Live(u) PROVE u.index[q] = SlugPairs(u, q) OBVIOUS
  <2>2. q \in Places /\ q \in Live(t) BY <1>2, <1>6 DEF Live
  <2>3. CASE q \in {old, p} BY <1>6, <2>2, <2>3
  <2>4. CASE q \notin {old, p}
    <3>1. u.index[q] = {<<t.slug[m], m>> : m \in Children(t, q)} BY <1>1, <1>6, <2>2, <2>4
    <3>2. Children(u, q) = Children(t, q) BY <1>11, <2>2, <2>4
    <3>3. SlugPairs(u, q) = {<<u.slug[m], m>> : m \in Children(u, q)} BY <1>14, <2>2, PairsOf DEF Sliced
    <3> QED BY <1>6, <3>1, <3>2, <3>3
  <2> QED BY <2>3, <2>4
<1> QED BY <1>12, <1>13, <1>14, <1>15, <1>16, <1>17, <1>18, Assembled DEF u

\* What SortPages is called with is a sequence of pages.
LEMMA OrdersAreSequences ==
    ASSUME NEW kids \in Seq(Nodes), NEW seq \in SetToSeqs(ToSet(kids))
    PROVE  seq \in Seq(Nodes)
<1> DEFINE T == ToSet(kids)
<1>1. Len(kids) \in Nat /\ kids \in [1 .. Len(kids) -> Nodes] /\ T = {kids[i] : i \in 1 .. Len(kids)}
    BY LenProperties, Positions
<1>2. kids \in Surjection(1 .. Len(kids), T) BY <1>1 DEF Surjection
<1>3. IsFiniteSet(T) BY <1>1, <1>2, FS_NatSurjection DEF ExistsSurjection
<1>4. Cardinality(T) \in Nat BY <1>3, FS_CardinalityType
<1>5. T \subseteq Nodes BY <1>1
<1> HIDE DEF T
<1>6. seq \in [1 .. Cardinality(T) -> T] BY DEF SetToSeqs, T
<1>7. seq \in Seq(T) BY <1>4, <1>6
<1> QED BY <1>5, <1>7, SeqMonotonic

-----------------------------------------------------------------------------
(* The theorem *)

LEMMA StepKeeps == TreeOK /\ [TreeNext]_treeVars => TreeOK'
<1> SUFFICES ASSUME TreeOK, [TreeNext]_treeVars PROVE TreeOK' OBVIOUS
<1>1. /\ WellFormed(tree) /\ TreeType(tree) /\ Named(tree) /\ tree.kids \in [Places -> Seq(Nodes)]
      /\ tree.ver \in [Nodes -> Nat] /\ tree.nodes \subseteq Nodes /\ Live(tree) \subseteq Places
      /\ tree.parent \in [Nodes -> Places]
    BY Branches DEF TreeOK, TreeType, Live, Places
<1>2. ASSUME NEW p \in Live(tree) PROVE
        LET a == AsSection(tree, p) IN
        /\ WellFormed(a) /\ a.nodes = tree.nodes /\ a.parent = tree.parent /\ a.kids = tree.kids
        /\ a.slug = tree.slug /\ a.index = tree.index /\ p \in Live(a)
        /\ p = Root \/ a.kind[p] = "section"
  <2> DEFINE a == AsSection(tree, p)
  <2>1. WellFormed(a) BY <1>1, SectionKeeps
  <2>2. /\ a.nodes = tree.nodes /\ a.parent = tree.parent /\ a.kids = tree.kids
        /\ a.slug = tree.slug /\ a.index = tree.index
        /\ a.kind = [n \in Nodes |-> IF n = p THEN "section" ELSE tree.kind[n]]
      BY <1>1, SectionFields
  <2> HIDE DEF a
  <2>3. p = Root \/ p \in Nodes BY <1>1 DEF Live
  <2> QED BY <2>1, <2>2, <2>3 DEF a, Live
<1>3. CASE UNCHANGED treeVars BY <1>3 DEF treeVars, TreeOK
<1>4. CASE Reloads BY <1>4 DEF Reloads, TreeOK
<1>5. CASE Versioned /\ \E n \in Nodes, p \in Places, s \in Slugs, k \in Kinds : Creates(n, p, s, k)
  <2>1. PICK n \in Nodes, p \in Places, s \in Slugs, k \in Kinds : Creates(n, p, s, k) BY <1>5
  <2> DEFINE a == AsSection(tree, p)
  <2>2. n \notin tree.nodes /\ p \in Live(tree) /\ Find(tree, p, s) = {} BY <2>1 DEF Creates, MayCreate
  <2>3. /\ WellFormed(a) /\ a.nodes = tree.nodes /\ a.index = tree.index /\ p \in Live(a)
        /\ p = Root \/ a.kind[p] = "section"
      BY <1>2, <2>2
  <2>4. tree' = Created(a, n, p, s, k, tree'.ver[n]) \/ tree' = a BY <2>1 DEF Creates
  <2>5. tree'.ver[n] \in Nat BY <1>5 DEF Versioned
  <2> HIDE DEF a
  <2>6. Find(a, p, s) = {} /\ n \in Nodes \ a.nodes BY <2>2, <2>3 DEF Find
  <2>7. WellFormed(Created(a, n, p, s, k, tree'.ver[n])) BY <2>3, <2>5, <2>6, CreatedKeeps
  <2> QED BY <2>3, <2>4, <2>7 DEF TreeOK
<1>6. CASE \E n \in Nodes, p \in Places, s \in Slugs : FailsToRestore(n, p, s)
  <2>1. PICK n \in Nodes, p \in Places, s \in Slugs : FailsToRestore(n, p, s) BY <1>6
  <2>2. p \in Live(tree) /\ tree' = AsSection(tree, p) BY <2>1 DEF FailsToRestore
  <2> QED BY <1>2, <2>2 DEF TreeOK
<1>7. CASE Versioned /\ \E m, n \in Nodes, s, z \in Slugs, k \in Kinds : Ensures(m, n, s, z, k)
  <2>1. PICK m \in Nodes, n \in Nodes, s \in Slugs, z \in Slugs, k \in Kinds : Ensures(m, n, s, z, k) BY <1>7
  <2> DEFINE v == tree'.ver[m]
             t == Created(tree, m, Root, s, "section", v)
             u == Created(t, n, m, z, k, tree'.ver[n])
  <2>2. /\ m \in Nodes \ tree.nodes /\ Root \in Live(tree) /\ Find(tree, Root, s) = {}
        /\ n \notin tree.nodes /\ m # n
        /\ tree' \in {t, u}
      BY <2>1 DEF Ensures, MayCreate, Live
  <2>3. v \in Nat /\ tree'.ver[n] \in Nat BY <1>7 DEF Versioned
  <2>4. WellFormed(t)
    <3> HIDE DEF v
    <3> QED BY <1>1, <2>2, <2>3, CreatedKeeps DEF Kinds
  <2>5. IsCreated(t, tree, m, Root, s, "section", v)
    <3>1. Root \in Places BY DEF Places
    <3> HIDE DEF v
    <3> QED BY <1>1, <3>1, CreatedFields
  <2> HIDE DEF v, t
  <2>6. t.nodes = tree.nodes \union {m} /\ t.kind[m] = "section" BY <2>5 DEF IsCreated
  <2>7. n \in Nodes \ t.nodes /\ m \in Live(t) BY <2>2, <2>6 DEF Live
  <2>8. Find(t, m, z) = {}
    <3>1. Find(t, m, z) = {x \in Children(t, m) : t.slug[x] = z} BY <2>4, <2>7, Branches
    <3>2. \A x \in t.nodes : t.parent[x] # m
      <4>1. t.parent = [x \in Nodes |-> IF x = m THEN Root ELSE tree.parent[x]] BY <2>5 DEF IsCreated
      <4>2. \A x \in tree.nodes : tree.parent[x] # m BY <1>1, <2>2, NodesAssumption DEF Named, Live
      <4> QED BY <1>1, <2>2, <2>6, <4>1, <4>2, NodesAssumption
    <3> QED BY <3>1, <3>2 DEF Children
  <2>9. WellFormed(u) BY <2>3, <2>4, <2>6, <2>7, <2>8, CreatedKeeps
  <2> QED BY <2>2, <2>4, <2>9 DEF TreeOK
<1>8. CASE \E n \in Nodes : Deletes(n) BY <1>1, <1>8, DeletedKeeps DEF Deletes, TreeOK
<1>9. CASE \E n \in Nodes : Pins(n)
  <2>1. PICK n \in Nodes : Pins(n) BY <1>9
  <2>2. PICK P \in {tree.pinned \union {n}, tree.pinned \ {n}} : tree' = [tree EXCEPT !.pinned = P]
      BY <2>1 DEF Pins
  <2>3. P \in SUBSET tree.nodes BY <1>1, <2>1, <2>2 DEF Pins, TreeType
  <2> QED BY <1>1, <2>2, <2>3, PinnedKeeps DEF TreeOK
<1>10. CASE Versioned /\ \E n \in Nodes, s \in Slugs : Updates(n, s)
  <2>1. PICK n \in Nodes, s \in Slugs : Updates(n, s) BY <1>10
  <2>2. n \in tree.nodes /\ MayRename(tree, n, s) /\ tree' = Stamped(Renamed(tree, n, s), {n}, tree'.ver[n])
      BY <2>1 DEF Updates, MayRename
  <2>3. tree'.ver[n] \in Nat BY <1>10 DEF Versioned
  <2>4. WellFormed(Renamed(tree, n, s)) BY <1>1, <2>2, RenamedKeeps
  <2>5. WellFormed(Stamped(Renamed(tree, n, s), {n}, tree'.ver[n])) BY <2>3, <2>4, StampedKeeps
  <2> QED BY <2>2, <2>5 DEF TreeOK
<1>11. CASE Versioned /\ \E n \in Nodes, k \in Kinds : Converts(n, k)
  <2>1. PICK n \in Nodes, k \in Kinds : Converts(n, k) BY <1>11
  <2> DEFINE t == [tree EXCEPT !.kind[n] = k]
  <2>2. n \in tree.nodes /\ MayConvert(tree, n, k) /\ tree' = Stamped(t, {n}, tree'.ver[n])
      BY <2>1 DEF Converts, MayConvert
  <2>3. tree'.ver[n] \in Nat BY <1>11 DEF Versioned
  <2>4. WellFormed(t) BY <1>1, <2>2, ConvertedKeeps
  <2> HIDE DEF t
  <2>5. WellFormed(Stamped(t, {n}, tree'.ver[n])) BY <2>3, <2>4, StampedKeeps
  <2> QED BY <2>2, <2>5 DEF TreeOK
<1>12. CASE Versioned /\ \E n \in Nodes, p \in Places : \E i \in 1 .. Len(tree.kids[p]) + 1 : Moves(n, p, i)
  <2>1. PICK n \in Nodes, p \in Places : \E i \in 1 .. Len(tree.kids[p]) + 1 : Moves(n, p, i) BY <1>12
  <2>20. PICK i \in 1 .. Len(tree.kids[p]) + 1 : Moves(n, p, i) BY <2>1
  <2> DEFINE a == AsSection(tree, p)
             t == Moved(a, n, p, i)
  <2>2. MayMove(tree, n, p) /\ n \in tree.nodes /\ p \in Live(tree) BY <2>20 DEF Moves, MayMove
  <2>3. /\ WellFormed(a) /\ a.nodes = tree.nodes /\ a.parent = tree.parent /\ a.kids = tree.kids
        /\ a.slug = tree.slug /\ a.index = tree.index /\ p \in Live(a)
        /\ p = Root \/ a.kind[p] = "section"
      BY <1>2, <2>2
  <2>4. CASE tree' = a BY <2>3, <2>4 DEF TreeOK
  <2>5. CASE p # tree.parent[n] /\ tree' = Stamped(t, {n}, tree'.ver[n])
    <3>1. tree'.ver[n] \in Nat BY <1>12 DEF Versioned
    <3> HIDE DEF a
    <3>2. MayMove(a, n, p)
      <4>1. Find(a, p, a.slug[n]) = Find(tree, p, tree.slug[n]) BY <2>3 DEF Find
      <4>2. Subtree(a, n) = Subtree(tree, n) BY <2>3 DEF Subtree, Closed
      <4> QED BY <2>2, <2>3, <4>1, <4>2 DEF MayMove
    <3>3. n \in a.nodes /\ p # a.parent[n] /\ i \in 1 .. Len(a.kids[p]) + 1 BY <2>2, <2>3, <2>5
    <3>4. WellFormed(t) BY <2>3, <3>2, <3>3, MovedKeeps
    <3> HIDE DEF t
    <3>5. WellFormed(Stamped(t, {n}, tree'.ver[n])) BY <3>1, <3>4, StampedKeeps
    <3> QED BY <2>5, <3>5 DEF TreeOK
  <2> QED BY <2>20, <2>4, <2>5 DEF Moves
<1>13. CASE Versioned /\ \E S \in SUBSET Nodes : Rewrites(S)
  <2>1. PICK S \in SUBSET Nodes : Rewrites(S) BY <1>13
  <2> DEFINE f == [n \in Nodes |-> IF n \in S THEN tree'.ver[n] ELSE tree.ver[n]]
  <2>2. tree' = [tree EXCEPT !.ver = f] BY <2>1 DEF Rewrites
  <2>3. \A n \in Nodes : tree'.ver[n] \in Nat BY <1>13 DEF Versioned
  <2>4. f \in [Nodes -> Nat] BY <1>1, <2>3
  <2> HIDE DEF f
  <2>5. WellFormed([tree EXCEPT !.ver = f]) BY <1>1, <2>4, VersionsFree
  <2> QED BY <2>2, <2>5 DEF TreeOK
<1>14. CASE \E p \in Places : \E seq \in SetToSeqs(ToSet(tree.kids[p])) : Sorts(p, seq)
  <2>1. PICK p \in Places : \E seq \in SetToSeqs(ToSet(tree.kids[p])) : Sorts(p, seq) BY <1>14
  <2>20. PICK seq \in SetToSeqs(ToSet(tree.kids[p])) : Sorts(p, seq) BY <2>1
  <2>2. tree.kids[p] \in Seq(Nodes) BY <1>1
  <2>3. seq \in Seq(Nodes) BY <2>2, OrdersAreSequences
  <2> QED BY <1>1, <2>20, <2>3, SortedKeeps DEF Sorts, TreeOK
<1> QED
  BY <1>3, <1>4, <1>5, <1>6, <1>7, <1>8, <1>9, <1>10, <1>11, <1>12, <1>13, <1>14 DEF TreeNext

\* TheTreeIsATree: after any number of the operations, each of which may have
\* failed after the auto-convert alone, the pages form one tree below the root
\* with siblings of different slugs, child slices that agree with the parent
\* pointers and an index that is what a rebuild gives (TreeService, under its
\* lock).  Whatever implements TreeSpec, as PageTreeDisk does, inherits it.
THEOREM TheTreeIsATree == TreeSpec => []TreeOK
<1>1. TreeInit => TreeOK BY EmptyIsWellFormed DEF TreeInit, TreeOK
<1> QED BY <1>1, StepKeeps, PTL DEF TreeSpec

-----------------------------------------------------------------------------
(* Walks and picks: recursive functions have the value of each of their steps *)

\* A set of natural numbers that has a member has a least one.
LEMMA LeastNumber ==
    ASSUME NEW S \in SUBSET Nat, S # {}
    PROVE  \E k \in S : \A j \in S : k <= j
<1> DEFINE below(n) == 1 .. n
           T == {1 .. n : n \in S}
           R == StrictSubsetOrdering(Nat)
<1>1. PICK n0 \in S : TRUE OBVIOUS
<1>2. IsWellFoundedOn(R, FiniteSubsetsOf(Nat)) BY FS_StrictSubsetOrderingWellFounded
<1>3. T \subseteq FiniteSubsetsOf(Nat)
  <2>1. SUFFICES ASSUME NEW n \in S PROVE 1 .. n \in FiniteSubsetsOf(Nat) OBVIOUS
  <2>2. IsFiniteSet(1 .. n) BY FS_Interval
  <2> QED BY <2>2 DEF FiniteSubsetsOf
<1>4. T # {} BY <1>1
<1> HIDE DEF R
<1>5. PICK x \in T : \A y \in T : ~ (<<y, x>> \in R) BY <1>2, <1>3, <1>4, WFMin
<1>6. PICK k \in S : x = 1 .. k BY <1>5
<1>7. ASSUME NEW j \in S, j < k PROVE FALSE
  <2>1. 1 .. j \subseteq 1 .. k /\ 1 .. j # 1 .. k
    <3>1. k \in 1 .. k /\ k \notin 1 .. j BY <1>7
    <3> QED BY <1>7, <3>1
  <2>2. 1 .. j \in SUBSET Nat /\ 1 .. k \in SUBSET Nat OBVIOUS
  <2>3. <<1 .. j, 1 .. k>> \in R BY <2>1, <2>2 DEF R, StrictSubsetOrdering
  <2> QED BY <1>5, <1>6, <2>3
<1> QED BY <1>7

\* What holds of 0 and passes from each number below n to the next holds up to n.
LEMMA UpTo ==
    ASSUME NEW n \in Nat, NEW S, 0 \in S, \A i \in 0 .. n : i # n /\ i \in S => i + 1 \in S
    PROVE  \A i \in 0 .. n : i \in S
<1> SUFFICES ASSUME \E i \in 0 .. n : i \notin S PROVE FALSE OBVIOUS
<1> DEFINE T == {i \in 0 .. n : i \notin S}
<1>1. T \in SUBSET Nat /\ T # {} OBVIOUS
<1> HIDE DEF T
<1>2. PICK k \in T : \A j \in T : k <= j BY <1>1, LeastNumber
<1>3. k \in 0 .. n /\ k \notin S BY DEF T
<1>4. k # 0 BY <1>3
<1>5. k - 1 \in 0 .. n /\ k - 1 # n /\ (k - 1) + 1 = k BY <1>3, <1>4
<1>6. k - 1 \in S BY <1>2, <1>3, <1>5 DEF T
<1> QED BY <1>3, <1>5, <1>6

\* The function that Walk chooses, up to step n.
WalkTo(d, now, n, g) == g = [i \in 0 .. n |-> IF i = 0 THEN WalkStart(d, now) ELSE WalkOn(g[i - 1])]

LEMMA WalkExists ==
    ASSUME NEW d, NEW now, NEW n \in Nat
    PROVE  \E g : WalkTo(d, now, n, g)
<1> DEFINE S == {k \in Nat : \E g : WalkTo(d, now, k, g)}
<1>1. 0 \in S
  <2>1. WalkTo(d, now, 0, [i \in 0 .. 0 |-> WalkStart(d, now)]) BY DEF WalkTo
  <2> QED BY <2>1
<1>2. ASSUME NEW k \in 0 .. n, k \in S PROVE k + 1 \in S
  <2>1. PICK g : WalkTo(d, now, k, g) BY <1>2
  <2> DEFINE h == [i \in 0 .. k + 1 |-> IF i = k + 1 THEN WalkOn(g[k]) ELSE g[i]]
  <2>2. \A i \in 0 .. k : g[i] = IF i = 0 THEN WalkStart(d, now) ELSE WalkOn(g[i - 1]) BY <2>1 DEF WalkTo
  <2>3. \A i \in 0 .. k + 1 : h[i] = IF i = 0 THEN WalkStart(d, now) ELSE WalkOn(h[i - 1])
    <3>1. \A i \in 0 .. k : h[i] = g[i] OBVIOUS
    <3>2. h[k + 1] = WalkOn(g[k]) /\ h[k] = g[k] OBVIOUS
    <3> HIDE DEF h
    <3>3. ASSUME NEW i \in 0 .. k, i # 0 PROVE h[i] = WalkOn(h[i - 1])
      <4>1. i - 1 \in 0 .. k BY <3>3
      <4> QED BY <2>2, <3>1, <3>3, <4>1
    <3>4. h[0] = WalkStart(d, now) BY <2>2, <3>1
    <3> QED BY <3>2, <3>3, <3>4
  <2>4. WalkTo(d, now, k + 1, h)
    <3>1. h = [i \in 0 .. k + 1 |-> h[i]] OBVIOUS
    <3> HIDE DEF h
    <3> QED BY <2>3, <3>1 DEF WalkTo
  <2> QED BY <2>4
<1> HIDE DEF S
<1>3. \A i \in 0 .. n : i \in S BY <1>1, <1>2, UpTo
<1> QED BY <1>3 DEF S

\* The walk is the last of g, which goes on step by step from its start.
Walked(d, now, n, g) ==
    /\ Walk(d, now) = g[n] /\ g[0] = WalkStart(d, now)
    /\ \A i \in 1 .. n : g[i] = WalkOn(g[i - 1])

LEMMA WalkIs ==
    ASSUME NEW d, NEW now, IsFiniteSet(d.dirs), IsFiniteSet(DOMAIN d.md)
    PROVE  \E n \in Nat : \E g : Walked(d, now, n, g)
<1> DEFINE n == 3 * Cardinality(d.dirs) + Cardinality(DOMAIN d.md) + 2
           g == CHOOSE g : g = [i \in 0 .. n |-> IF i = 0 THEN WalkStart(d, now) ELSE WalkOn(g[i - 1])]
<1>1. Walk(d, now) = g[n] BY DEF Walk
<1>2. n \in Nat BY FS_CardinalityType
<1> HIDE DEF n
<1>3. PICK h : WalkTo(d, now, n, h) BY <1>2, WalkExists
<1>4. g = [i \in 0 .. n |-> IF i = 0 THEN WalkStart(d, now) ELSE WalkOn(g[i - 1])]
  <2>1. h = [i \in 0 .. n |-> IF i = 0 THEN WalkStart(d, now) ELSE WalkOn(h[i - 1])] BY <1>3 DEF WalkTo
  <2> QED BY <2>1
<1> HIDE DEF g
<1>5. \A i \in 0 .. n : g[i] = IF i = 0 THEN WalkStart(d, now) ELSE WalkOn(g[i - 1]) BY <1>4
<1>6. g[0] = WalkStart(d, now) /\ \A i \in 1 .. n : g[i] = WalkOn(g[i - 1]) BY <1>2, <1>5
<1>7. Walked(d, now, n, g) BY <1>1, <1>6 DEF Walked
<1> QED BY <1>2, <1>7

-----------------------------------------------------------------------------
(* Paths *)

\* g gives the paths of the places of A, which has the parents of its members.
Paths(t, A, g) ==
    /\ A \subseteq Live(t) /\ \A m \in A \ {Root} : t.parent[m] \in A
    /\ g = [m \in A |-> IF m = Root THEN <<>> ELSE Append(g[t.parent[m]], t.slug[m])]

LEMMA PathsAgree ==
    ASSUME NEW t, Rooted(t), NEW A, NEW B, NEW g, NEW h, Paths(t, A, g), Paths(t, B, h)
    PROVE  \A m \in A \intersect B : g[m] = h[m]
<1> DEFINE S == {m \in A \intersect B : g[m] # h[m]}
<1>1. SUFFICES ASSUME S # {} PROVE FALSE OBVIOUS
<1>2. \A m \in A : g[m] = IF m = Root THEN <<>> ELSE Append(g[t.parent[m]], t.slug[m]) BY DEF Paths
<1>3. \A m \in B : h[m] = IF m = Root THEN <<>> ELSE Append(h[t.parent[m]], t.slug[m]) BY DEF Paths
<1>4. S \in SUBSET t.nodes /\ Root \notin S BY <1>2, <1>3 DEF Paths, Live
<1>5. PICK n \in S : t.parent[n] \notin S BY <1>1, <1>4 DEF Rooted
<1>6. n # Root BY <1>4, <1>5
<1>7. t.parent[n] \in A \intersect B BY <1>5, <1>6 DEF Paths
<1>8. g[t.parent[n]] = h[t.parent[n]] BY <1>5, <1>7
<1> QED BY <1>2, <1>3, <1>5, <1>6, <1>8

LEMMA PathsExist ==
    ASSUME NEW t, Rooted(t), TreeType(t), Named(t)
    PROVE  \E g : Paths(t, Live(t), g)
<1> DEFINE P == {A \in SUBSET Live(t) : \E g : Paths(t, A, g)}
           U == UNION P
           Of(A) == CHOOSE g : Paths(t, A, g)
           f == [m \in U |-> Of(CHOOSE A \in P : m \in A)[m]]
<1>0. Root \notin t.nodes BY NodesAssumption DEF TreeType
<1>1. ASSUME NEW A \in P PROVE Paths(t, A, Of(A)) OBVIOUS
<1>2. ASSUME NEW A \in P, NEW m \in A PROVE f[m] = Of(A)[m] /\ m \in U
  <2>1. m \in U OBVIOUS
  <2> DEFINE B == CHOOSE B \in P : m \in B
  <2>2. B \in P /\ m \in B BY <2>1
  <2>3. f[m] = Of(B)[m] BY <2>1
  <2> HIDE DEF B, f, P, Of
  <2>4. Paths(t, B, Of(B)) /\ Paths(t, A, Of(A)) BY <1>1, <2>2
  <2>5. Of(B)[m] = Of(A)[m] BY <2>2, <2>4, PathsAgree
  <2> QED BY <2>1, <2>3, <2>5
<1>3. U \subseteq Live(t) OBVIOUS
<1>4. ASSUME NEW m \in U, m # Root PROVE t.parent[m] \in U /\ f[m] = Append(f[t.parent[m]], t.slug[m])
  <2>1. PICK A \in P : m \in A OBVIOUS
  <2>2. Paths(t, A, Of(A)) BY <1>1
  <2> HIDE DEF Of
  <2>3. t.parent[m] \in A /\ Of(A)[m] = Append(Of(A)[t.parent[m]], t.slug[m]) BY <1>4, <2>1, <2>2 DEF Paths
  <2> QED BY <1>2, <2>1, <2>3
<1>5. Root \in U /\ f[Root] = <<>>
  <2>1. Paths(t, {Root}, [m \in {Root} |-> <<>>]) BY DEF Paths, Live
  <2>2. {Root} \in P BY <2>1 DEF Paths
  <2>3. Paths(t, {Root}, Of({Root})) BY <1>1, <2>2
  <2> HIDE DEF Of
  <2>4. Of({Root})[Root] = <<>> BY <2>3 DEF Paths
  <2> QED BY <1>2, <2>2, <2>4
<1>6. Paths(t, U, f)
  <2>1. f = [m \in U |-> f[m]] OBVIOUS
  <2> HIDE DEF f
  <2> QED BY <1>3, <1>4, <1>5, <2>1 DEF Paths
<1> HIDE DEF f
<1>7. U = Live(t)
  <2> DEFINE S == Live(t) \ U
  <2>1. SUFFICES ASSUME S # {} PROVE FALSE BY <1>3
  <2>2. S \in SUBSET t.nodes BY <1>5 DEF Live
  <2>3. PICK n \in S : t.parent[n] \notin S BY <2>1, <2>2 DEF Rooted
  <2>4. n \in t.nodes /\ n \notin U /\ n # Root BY <1>0, <2>2, <2>3
  <2>5. t.parent[n] \in U BY <2>3, <2>4 DEF Named
  <2> DEFINE V == U \union {n}
             h == [m \in V |-> IF m = n THEN Append(f[t.parent[n]], t.slug[n]) ELSE f[m]]
  <2>6. \A m \in V \ {Root} : t.parent[m] \in V BY <1>4, <2>5
  <2>7. \A m \in V : h[m] = IF m = Root THEN <<>> ELSE Append(h[t.parent[m]], t.slug[m])
    <3>1. \A m \in U : h[m] = f[m] BY <2>4
    <3>2. h[n] = Append(f[t.parent[n]], t.slug[n]) OBVIOUS
    <3> HIDE DEF h, U
    <3> QED BY <1>4, <1>5, <2>4, <2>5, <3>1, <3>2
  <2>8. h = [m \in V |-> h[m]] OBVIOUS
  <2>9. V \in SUBSET Live(t) BY <1>3, <2>4 DEF Live
  <2> HIDE DEF h, U
  <2>10. Paths(t, V, h) BY <2>6, <2>7, <2>8, <2>9 DEF Paths
  <2>11. V \in P BY <2>9, <2>10
  <2> QED BY <2>4, <2>11 DEF U
<1> QED BY <1>6, <1>7

LEMMA PathsAre ==
    ASSUME NEW t, WellFormed(t)
    PROVE  /\ PathOf(t, Root) = <<>>
           /\ \A n \in t.nodes : PathOf(t, n) = Append(PathOf(t, t.parent[n]), t.slug[n])
           /\ \A n \in Live(t) : PathOf(t, n) \in Seq(Slugs)
<1>1. Rooted(t) /\ TreeType(t) /\ Named(t) BY Branches
<1>2. Root \notin t.nodes BY <1>1, NodesAssumption DEF TreeType
<1> DEFINE g == CHOOSE g : g = [m \in Live(t) |-> IF m = Root THEN <<>> ELSE Append(g[t.parent[m]], t.slug[m])]
<1>3. \A n : PathOf(t, n) = g[n] BY DEF PathOf
<1>4. g = [m \in Live(t) |-> IF m = Root THEN <<>> ELSE Append(g[t.parent[m]], t.slug[m])]
    BY <1>1, PathsExist DEF Paths
<1> HIDE DEF g
<1>5. \A m \in Live(t) : g[m] = IF m = Root THEN <<>> ELSE Append(g[t.parent[m]], t.slug[m]) BY <1>4
<1>6. \A m \in t.nodes : m \in Live(t) /\ m # Root BY <1>2 DEF Live
<1>7. \A n \in Live(t) : g[n] \in Seq(Slugs)
  <2> DEFINE S == {n \in Live(t) : g[n] \notin Seq(Slugs)}
  <2>1. SUFFICES ASSUME S # {} PROVE FALSE OBVIOUS
  <2>2. g[Root] = <<>> /\ <<>> \in Seq(Slugs) BY <1>5, EmptySeq DEF Live
  <2>3. S \in SUBSET t.nodes BY <2>2 DEF Live
  <2>4. PICK n \in S : t.parent[n] \notin S BY <1>1, <2>1, <2>3 DEF Rooted
  <2>5. n \in t.nodes BY <2>3, <2>4
  <2>6. g[t.parent[n]] \in Seq(Slugs) /\ t.slug[n] \in Slugs BY <1>1, <2>4, <2>5 DEF Named
  <2>7. g[n] = Append(g[t.parent[n]], t.slug[n]) BY <1>5, <1>6, <2>5
  <2>8. Append(g[t.parent[n]], t.slug[n]) \in Seq(Slugs) BY <2>6, AppendProperties
  <2> QED BY <2>4, <2>7, <2>8
<1> QED BY <1>3, <1>5, <1>6, <1>7 DEF Live
-----------------------------------------------------------------------------
(* The order of the walk *)

LEMMA BeforeIsTransitive ==
    ASSUME NEW p \in Seq(Nat), NEW q \in Seq(Nat), NEW r \in Seq(Nat), PathBefore(p, q), PathBefore(q, r)
    PROVE  PathBefore(p, r)
<1>1. /\ Len(p) \in Nat /\ Len(q) \in Nat /\ Len(r) \in Nat
      /\ \A i \in 1 .. Len(p) : p[i] \in Nat
      /\ \A i \in 1 .. Len(q) : q[i] \in Nat
      /\ \A i \in 1 .. Len(r) : r[i] \in Nat
    BY LenProperties, ElementOfSeq
<1>2. PICK i \in 1 .. Len(q) : /\ i <= Len(p) + 1 /\ \A j \in 1 .. i - 1 : p[j] = q[j]
                               /\ i <= Len(p) => p[i] < q[i]
    BY DEF PathBefore
<1>3. PICK k \in 1 .. Len(r) : /\ k <= Len(q) + 1 /\ \A j \in 1 .. k - 1 : q[j] = r[j]
                               /\ k <= Len(q) => q[k] < r[k]
    BY DEF PathBefore
<1>4. CASE i < k
  <2>1. i \in 1 .. Len(r) /\ \A j \in 1 .. i - 1 : p[j] = r[j]
    <3>1. i \in Nat /\ 1 <= i /\ k \in Nat /\ k <= Len(r) BY <1>1, <1>2, <1>3
    <3>2. i \in 1 .. Len(r) BY <1>1, <1>4, <3>1
    <3>3. \A j \in 1 .. i - 1 : j \in 1 .. k - 1 BY <1>4, <3>1
    <3> QED BY <1>2, <1>3, <3>2, <3>3
  <2>2. q[i] = r[i] BY <1>1, <1>2, <1>3, <1>4
  <2> QED BY <1>2, <2>1, <2>2 DEF PathBefore
<1>5. CASE k < i
  <2>0. i \in Nat /\ k \in Nat /\ i <= Len(q) /\ i <= Len(p) + 1 BY <1>1, <1>2, <1>3
  <2>1. k <= Len(p) + 1 /\ k <= Len(p) /\ k <= Len(q) BY <1>1, <1>5, <2>0
  <2>2. \A j \in 1 .. k - 1 : p[j] = r[j] BY <1>1, <1>2, <1>3, <1>5
  <2>3. p[k] = q[k] BY <1>1, <1>2, <1>3, <1>5
  <2> QED BY <1>3, <2>1, <2>2, <2>3 DEF PathBefore
<1>6. CASE i = k
  <2>1. \A j \in 1 .. k - 1 : p[j] = r[j] BY <1>2, <1>3, <1>6
  <2>2. k <= Len(p) => p[k] < r[k]
    <3>1. SUFFICES ASSUME k <= Len(p) PROVE p[k] < r[k] OBVIOUS
    <3>2. p[k] < q[k] /\ k \in 1 .. Len(q) /\ k \in 1 .. Len(p) BY <1>1, <1>2, <1>3, <1>6, <3>1
    <3>3. q[k] < r[k] BY <1>1, <1>3, <3>2
    <3>4. p[k] \in Nat /\ q[k] \in Nat /\ r[k] \in Nat BY <1>1, <1>3, <3>2
    <3>5. \A x, y, z \in Nat : x < y /\ y < z => x < z OBVIOUS
    <3> HIDE <1>1, <1>2, <1>3
    <3> QED BY <3>2, <3>3, <3>4, <3>5
  <2> QED BY <1>2, <1>3, <1>6, <2>1, <2>2 DEF PathBefore
<1> QED BY <1>1, <1>2, <1>3, <1>4, <1>5, <1>6

LEMMA BeforeIsTotal ==
    ASSUME NEW p \in Seq(Nat), NEW q \in Seq(Nat), p # q
    PROVE  PathBefore(p, q) \/ PathBefore(q, p)
<1>1. /\ Len(p) \in Nat /\ Len(q) \in Nat
      /\ \A i \in 1 .. Len(p) : p[i] \in Nat
      /\ \A i \in 1 .. Len(q) : q[i] \in Nat
    BY LenProperties, ElementOfSeq
<1> DEFINE S == {i \in Nat : i # 0 /\ (i > Len(p) \/ i > Len(q) \/ p[i] # q[i])}
<1>2. S \in SUBSET Nat /\ Len(p) + 1 \in S BY <1>1
<1>3. PICK i \in S : \A j \in S : i <= j BY <1>2, LeastNumber
<1>4. i \in Nat /\ i # 0 /\ (i > Len(p) \/ i > Len(q) \/ p[i] # q[i]) BY <1>3
<1>5. \A j \in 1 .. i - 1 : j <= Len(p) /\ j <= Len(q) /\ p[j] = q[j] BY <1>1, <1>3, <1>4
<1> HIDE DEF S
<1>6. i <= Len(p) + 1 /\ i <= Len(q) + 1
  <2>1. CASE i = 1 BY <1>1, <2>1
  <2>2. CASE i # 1
    <3>1. i - 1 \in 1 .. i - 1 BY <1>4, <2>2
    <3> QED BY <1>1, <1>4, <1>5, <3>1
  <2> QED BY <2>1, <2>2
<1>7. CASE i <= Len(p) /\ i <= Len(q)
  <2>1. p[i] < q[i] \/ q[i] < p[i] BY <1>1, <1>4, <1>7
  <2>2. i \in 1 .. Len(q) /\ i \in 1 .. Len(p) BY <1>1, <1>4, <1>7
  <2> QED BY <1>5, <1>6, <2>1, <2>2 DEF PathBefore
<1>8. CASE i > Len(p) /\ i <= Len(q)
  <2>1. i \in 1 .. Len(q) /\ ~(i <= Len(p)) BY <1>1, <1>4, <1>8
  <2> QED BY <1>5, <1>6, <2>1 DEF PathBefore
<1>9. CASE i <= Len(p) /\ i > Len(q)
  <2>1. i \in 1 .. Len(p) /\ ~(i <= Len(q)) BY <1>1, <1>4, <1>9
  <2> QED BY <1>5, <1>6, <2>1 DEF PathBefore
<1>10. CASE i > Len(p) /\ i > Len(q)
  <2>1. Len(p) = i - 1 /\ Len(q) = i - 1 BY <1>1, <1>4, <1>6, <1>10
  <2>2. \A j \in 1 .. Len(p) : p[j] = q[j] BY <1>5, <2>1
  <2>3. p = q BY <2>1, <2>2, SeqEqual
  <2> QED BY <2>3
<1> QED BY <1>1, <1>4, <1>7, <1>8, <1>9, <1>10

\* The walk finds an entry to go on with.
LEMMA FirstIsIn ==
    ASSUME NEW E, IsFiniteSet(E), E # {}, E \subseteq Seq(Nat)
    PROVE  First(E) \in E /\ \A q \in E \ {First(E)} : PathBefore(First(E), q)
<1> DEFINE HasFirst(T) == \E p \in T : \A q \in T \ {p} : PathBefore(p, q)
           Bad == {T \in SUBSET E : T # {} /\ ~HasFirst(T)}
           R == StrictSubsetOrdering(E)
<1>1. SUFFICES HasFirst(E) BY DEF First
<1>2. SUFFICES ASSUME Bad # {} PROVE FALSE OBVIOUS
<1>3. IsWellFoundedOn(R, FiniteSubsetsOf(E)) BY FS_StrictSubsetOrderingWellFounded
<1>4. Bad \subseteq FiniteSubsetsOf(E) BY FS_FiniteSubsetsOfFinite
<1> HIDE DEF R, Bad
<1>5. PICK T \in Bad : \A V \in Bad : ~ (<<V, T>> \in R) BY <1>2, <1>3, <1>4, WFMin
<1>6. T \in SUBSET E /\ T # {} /\ ~HasFirst(T) BY DEF Bad
<1>7. PICK x \in T : TRUE BY <1>6
<1> DEFINE V == T \ {x}
<1>8. V \in SUBSET E /\ <<V, T>> \in R BY <1>6, <1>7 DEF R, StrictSubsetOrdering
<1>9. V = {} \/ HasFirst(V) BY <1>5, <1>8 DEF Bad
<1>10. CASE V = {} BY <1>6, <1>7, <1>10
<1>11. CASE HasFirst(V)
  <2>1. PICK y \in V : \A q \in V \ {y} : PathBefore(y, q) BY <1>11
  <2>2. x \in Seq(Nat) /\ y \in Seq(Nat) /\ x # y BY <1>6, <1>7, <2>1
  <2>3. CASE PathBefore(y, x)
    <3>1. \A q \in T \ {y} : PathBefore(y, q) BY <2>1, <2>3
    <3> QED BY <1>6, <2>1, <3>1
  <2>4. CASE PathBefore(x, y)
    <3>1. ASSUME NEW q \in T \ {x}, q # y PROVE PathBefore(x, q)
      <4>1. PathBefore(y, q) /\ q \in Seq(Nat) BY <1>6, <2>1, <3>1
      <4> QED BY <2>2, <2>4, <4>1, BeforeIsTransitive
    <3> QED BY <1>6, <1>7, <2>4, <3>1
  <2> QED BY <2>2, <2>3, <2>4, BeforeIsTotal
<1> QED BY <1>9, <1>10, <1>11
-----------------------------------------------------------------------------
(* The order of the children *)

PickedTo(seq, S, n, g) ==
    g = [i \in 0 .. n |-> IF i = 0 THEN <<>>
                          ELSE IF seq[i] \in S \ ToSet(g[i - 1]) THEN Append(g[i - 1], seq[i]) ELSE g[i - 1]]

LEMMA PickedExists ==
    ASSUME NEW seq, NEW S, NEW n \in Nat
    PROVE  \E g : PickedTo(seq, S, n, g)
<1> DEFINE Next1(i, r) == IF seq[i] \in S \ ToSet(r) THEN Append(r, seq[i]) ELSE r
           Good == {k \in Nat : \E g : PickedTo(seq, S, k, g)}
<1>1. 0 \in Good
  <2>1. PickedTo(seq, S, 0, [i \in 0 .. 0 |-> <<>>]) BY DEF PickedTo
  <2> QED BY <2>1
<1>2. ASSUME NEW k \in 0 .. n, k \in Good PROVE k + 1 \in Good
  <2>1. PICK g : PickedTo(seq, S, k, g) BY <1>2
  <2> DEFINE h == [i \in 0 .. k + 1 |-> IF i = k + 1 THEN Next1(k + 1, g[k]) ELSE g[i]]
  <2>2. \A i \in 0 .. k : g[i] = IF i = 0 THEN <<>> ELSE Next1(i, g[i - 1]) BY <2>1 DEF PickedTo
  <2> HIDE DEF Next1
  <2>3. \A i \in 0 .. k + 1 : h[i] = IF i = 0 THEN <<>> ELSE Next1(i, h[i - 1])
    <3>1. \A i \in 0 .. k : h[i] = g[i] OBVIOUS
    <3>2. h[k + 1] = Next1(k + 1, g[k]) /\ h[k] = g[k] OBVIOUS
    <3> HIDE DEF h
    <3>3. ASSUME NEW i \in 0 .. k, i # 0 PROVE h[i] = Next1(i, h[i - 1])
      <4>1. i - 1 \in 0 .. k BY <3>3
      <4> QED BY <2>2, <3>1, <3>3, <4>1
    <3>4. h[0] = <<>> BY <2>2, <3>1
    <3> QED BY <3>2, <3>3, <3>4
  <2>4. PickedTo(seq, S, k + 1, h)
    <3>1. h = [i \in 0 .. k + 1 |-> h[i]] OBVIOUS
    <3> HIDE DEF h
    <3> QED BY <2>3, <3>1 DEF PickedTo, Next1
  <2> QED BY <2>4
<1> HIDE DEF Good
<1>3. \A i \in 0 .. n : i \in Good BY <1>1, <1>2, UpTo
<1> QED BY <1>3 DEF Good

LEMMA PickedOnce ==
    ASSUME NEW T, NEW seq \in Seq(T), NEW S
    PROVE  /\ Picked(seq, S) \in Seq(T) /\ Once(Picked(seq, S))
           /\ ToSet(Picked(seq, S)) = ToSet(seq) \intersect S
<1> DEFINE n == Len(seq)
           g == CHOOSE g : g = [i \in 0 .. n |-> IF i = 0 THEN <<>>
                  ELSE IF seq[i] \in S \ ToSet(g[i - 1]) THEN Append(g[i - 1], seq[i]) ELSE g[i - 1]]
<1>1. Picked(seq, S) = g[n] BY DEF Picked
<1>2. n \in Nat /\ \A i \in 1 .. n : seq[i] \in T BY Positions
<1>3. g = [i \in 0 .. n |-> IF i = 0 THEN <<>>
             ELSE IF seq[i] \in S \ ToSet(g[i - 1]) THEN Append(g[i - 1], seq[i]) ELSE g[i - 1]]
  <2>1. PICK h : PickedTo(seq, S, n, h) BY <1>2, PickedExists
  <2>2. h = [i \in 0 .. n |-> IF i = 0 THEN <<>>
               ELSE IF seq[i] \in S \ ToSet(h[i - 1]) THEN Append(h[i - 1], seq[i]) ELSE h[i - 1]]
      BY <2>1 DEF PickedTo
  <2> QED BY <2>2
<1> HIDE DEF g
<1>4. \A i \in 0 .. n : g[i] = IF i = 0 THEN <<>>
        ELSE IF seq[i] \in S \ ToSet(g[i - 1]) THEN Append(g[i - 1], seq[i]) ELSE g[i - 1]
    BY <1>3
<1> DEFINE Seen(i) == {seq[j] : j \in 1 .. i} \intersect S
           Good == {i \in 0 .. n : g[i] \in Seq(T) /\ Once(g[i]) /\ ToSet(g[i]) = Seen(i)}
<1>5. 0 \in Good
  <2>1. g[0] = <<>> BY <1>2, <1>4
  <2>2. <<>> \in Seq(T) /\ Once(<<>>) /\ ToSet(<<>>) = {} BY EmptySeq DEF Once, ToSet
  <2>3. Seen(0) = {} /\ 0 \in 0 .. n BY <1>2
  <2> HIDE DEF Seen
  <2> QED BY <2>1, <2>2, <2>3
<1>6. ASSUME NEW i \in 0 .. n, i # n, i \in Good PROVE i + 1 \in Good
  <2>1. g[i] \in Seq(T) /\ Once(g[i]) /\ ToSet(g[i]) = Seen(i) BY <1>6
  <2>2. i + 1 \in 1 .. n /\ (i + 1) - 1 = i /\ i + 1 \in 0 .. n BY <1>2, <1>6
  <2>3. g[i + 1] = IF seq[i + 1] \in S \ ToSet(g[i]) THEN Append(g[i], seq[i + 1]) ELSE g[i] BY <1>4, <2>2
  <2>4. seq[i + 1] \in T BY <1>2, <2>2
  <2>5. Seen(i + 1) = Seen(i) \union ({seq[i + 1]} \intersect S)
    <3>1. 1 .. i + 1 = (1 .. i) \union {i + 1} BY <1>6
    <3> QED BY <3>1
  <2> HIDE DEF Seen
  <2>6. CASE seq[i + 1] \in S \ ToSet(g[i])
    <3>1. /\ Append(g[i], seq[i + 1]) \in Seq(T) /\ Once(Append(g[i], seq[i + 1]))
          /\ ToSet(Append(g[i], seq[i + 1])) = ToSet(g[i]) \union {seq[i + 1]}
        BY <2>1, <2>4, <2>6, AppendedOnce
    <3>2. Seen(i + 1) = Seen(i) \union {seq[i + 1]} BY <2>5, <2>6
    <3> QED BY <2>1, <2>2, <2>3, <2>6, <3>1, <3>2
  <2>7. CASE seq[i + 1] \notin S \ ToSet(g[i])
    <3>1. Seen(i + 1) = Seen(i) BY <2>1, <2>5, <2>7
    <3> QED BY <2>1, <2>2, <2>3, <2>7, <3>1
  <2> QED BY <2>6, <2>7
<1> HIDE DEF Good
<1>7. \A i \in 0 .. n : i \in Good BY <1>2, <1>5, <1>6, UpTo
<1>8. n \in 0 .. n BY <1>2
<1>9. n \in Good BY <1>7, <1>8
<1>10. g[n] \in Seq(T) /\ Once(g[n]) /\ ToSet(g[n]) = Seen(n) BY <1>9 DEF Good
<1>11. Seen(n) = ToSet(seq) \intersect S BY Positions
<1> QED BY <1>1, <1>10, <1>11

\* applyChildOrder only orders the children.
LEMMA OrderedOnce ==
    ASSUME NEW T, NEW kids \in Seq(T), NEW order \in Seq(T)
    PROVE  /\ Ordered(kids, order) \in Seq(T) /\ Once(Ordered(kids, order))
           /\ ToSet(Ordered(kids, order)) = ToSet(kids)
<1> DEFINE a == Picked(order, ToSet(kids))
           b == Picked(kids, ToSet(kids) \ ToSet(order))
           c == a \o b
<1>1. a \in Seq(T) /\ Once(a) /\ ToSet(a) = ToSet(order) \intersect ToSet(kids) BY PickedOnce
<1>2. b \in Seq(T) /\ Once(b) /\ ToSet(b) = ToSet(kids) \ ToSet(order)
  <2>1. b \in Seq(T) /\ Once(b) /\ ToSet(b) = ToSet(kids) \intersect (ToSet(kids) \ ToSet(order)) BY PickedOnce
  <2> QED BY <2>1
<1>3. c = Ordered(kids, order) BY DEF Ordered
<1> HIDE DEF a, b
<1>4. /\ c \in Seq(T) /\ Len(c) = Len(a) + Len(b)
      /\ \A i \in 1 .. Len(a) : c[i] = a[i]
      /\ \A i \in Len(a) + 1 .. Len(a) + Len(b) : c[i] = b[i - Len(a)]
    BY <1>1, <1>2, ConcatProperties
<1>5. /\ Len(a) \in Nat /\ DOMAIN a = 1 .. Len(a) /\ Len(b) \in Nat /\ DOMAIN b = 1 .. Len(b)
      /\ DOMAIN c = 1 .. Len(c)
      /\ ToSet(a) = {a[i] : i \in 1 .. Len(a)} /\ ToSet(b) = {b[i] : i \in 1 .. Len(b)}
      /\ ToSet(c) = {c[i] : i \in 1 .. Len(c)}
  <2>1. Len(a) \in Nat /\ DOMAIN a = 1 .. Len(a) /\ ToSet(a) = {a[i] : i \in 1 .. Len(a)} BY <1>1, Positions
  <2>2. Len(b) \in Nat /\ DOMAIN b = 1 .. Len(b) /\ ToSet(b) = {b[i] : i \in 1 .. Len(b)} BY <1>2, Positions
  <2>3. DOMAIN c = 1 .. Len(c) /\ ToSet(c) = {c[i] : i \in 1 .. Len(c)}
    <3> HIDE DEF c
    <3>1. c \in Seq(T) BY <1>4
    <3> QED BY <3>1, Positions
  <2> QED BY <2>1, <2>2, <2>3
<1> HIDE DEF c
<1>6. \A j \in 1 .. Len(b) : c[Len(a) + j] = b[j]
  <2>1. SUFFICES ASSUME NEW j \in 1 .. Len(b) PROVE c[Len(a) + j] = b[j] OBVIOUS
  <2>2. Len(a) + j \in Len(a) + 1 .. Len(a) + Len(b) /\ (Len(a) + j) - Len(a) = j BY <1>5
  <2> QED BY <1>4, <2>2
<1>7. \A i \in 1 .. Len(c) : i \in 1 .. Len(a) \/ \E j \in 1 .. Len(b) : i = Len(a) + j
  <2>1. SUFFICES ASSUME NEW i \in 1 .. Len(c), ~(i \in 1 .. Len(a)) PROVE \E j \in 1 .. Len(b) : i = Len(a) + j
      OBVIOUS
  <2>2. i - Len(a) \in 1 .. Len(b) /\ i = Len(a) + (i - Len(a)) BY <1>4, <1>5, <2>1
  <2> QED BY <2>2
<1>8. ToSet(c) = ToSet(a) \union ToSet(b)
  <2>1. ToSet(c) \subseteq ToSet(a) \union ToSet(b)
    <3>1. SUFFICES ASSUME NEW i \in 1 .. Len(c) PROVE c[i] \in ToSet(a) \union ToSet(b) BY <1>5
    <3>2. CASE i \in 1 .. Len(a) BY <1>4, <1>5, <3>2
    <3>3. CASE \E j \in 1 .. Len(b) : i = Len(a) + j BY <1>5, <1>6, <3>3
    <3> QED BY <1>7, <3>2, <3>3
  <2>2. ToSet(a) \subseteq ToSet(c)
    <3>1. \A i \in 1 .. Len(a) : i \in 1 .. Len(c) BY <1>4, <1>5
    <3> QED BY <1>4, <1>5, <3>1
  <2>3. ToSet(b) \subseteq ToSet(c)
    <3>1. \A j \in 1 .. Len(b) : Len(a) + j \in 1 .. Len(c) BY <1>4, <1>5
    <3> QED BY <1>5, <1>6, <3>1
  <2> QED BY <2>1, <2>2, <2>3
<1>9. Once(c)
  <2>1. SUFFICES ASSUME NEW i \in 1 .. Len(c), NEW k \in 1 .. Len(c), c[i] = c[k] PROVE i = k BY <1>5 DEF Once
  <2>2. \A x : ~(x \in ToSet(a) /\ x \in ToSet(b)) BY <1>1, <1>2
  <2>3. CASE i \in 1 .. Len(a) /\ k \in 1 .. Len(a)
    <3>1. a[i] = a[k] BY <1>4, <2>1, <2>3
    <3> QED BY <1>1, <1>5, <2>3, <3>1 DEF Once
  <2>4. CASE (\E j \in 1 .. Len(b) : i = Len(a) + j) /\ \E j \in 1 .. Len(b) : k = Len(a) + j
    <3>1. PICK x \in 1 .. Len(b), y \in 1 .. Len(b) : i = Len(a) + x /\ k = Len(a) + y BY <2>4
    <3>2. b[x] = b[y] BY <1>6, <2>1, <3>1
    <3> QED BY <1>2, <1>5, <3>1, <3>2 DEF Once
  <2>5. CASE i \in 1 .. Len(a) /\ \E j \in 1 .. Len(b) : k = Len(a) + j BY <1>4, <1>5, <1>6, <2>1, <2>2, <2>5
  <2>6. CASE k \in 1 .. Len(a) /\ \E j \in 1 .. Len(b) : i = Len(a) + j BY <1>4, <1>5, <1>6, <2>1, <2>2, <2>6
  <2> QED BY <1>7, <2>3, <2>4, <2>5, <2>6
<1>10. ToSet(c) = ToSet(kids) BY <1>1, <1>2, <1>8
<1> QED BY <1>3, <1>4, <1>9, <1>10
-----------------------------------------------------------------------------
(* What the tree in memory is besides well formed *)

\* An id that is not in the tree is as in the empty one.
Blank(t) ==
    /\ t.index = [p \in Places |-> t.index[p]]
    /\ \A n \in Nodes \ t.nodes :
         t.parent[n] = Root /\ t.slug[n] = NoSlug /\ t.kind[n] = "page" /\ t.ver[n] = 0
         /\ t.kids[n] = <<>> /\ t.index[n] = {}

Tidy(t) == WellFormed(t) /\ Blank(t)

LEMMA EmptyIsTidy == Tidy(EmptyTree)
<1>1. WellFormed(EmptyTree) BY EmptyIsWellFormed
<1>2. Blank(EmptyTree) BY DEF Blank, EmptyTree, Places
<1> QED BY <1>1, <1>2 DEF Tidy

LEMMA NoPairs ==
    ASSUME NEW t, NEW p, t.kids[p] = <<>>
    PROVE  SlugPairs(t, p) = {}
BY EmptySeq DEF SlugPairs

LEMMA CreatedIsTidy ==
    ASSUME NEW t, Tidy(t), NEW n \in Nodes \ t.nodes, NEW p \in Live(t), NEW s \in Slugs, NEW k \in Kinds,
           NEW v \in Nat, Find(t, p, s) = {}, p = Root \/ t.kind[p] = "section"
    PROVE  Tidy(Created(t, n, p, s, k, v)) /\ IsCreated(Created(t, n, p, s, k, v), t, n, p, s, k, v)
<1> DEFINE u == Created(t, n, p, s, k, v)
<1>1. WellFormed(t) /\ TreeType(t) /\ p \in Places BY DEF Tidy, WellFormed, TreeType, Live, Places
<1>2. WellFormed(u) BY <1>1, CreatedKeeps
<1>3. IsCreated(u, t, n, p, s, k, v) BY <1>1, CreatedFields
<1> HIDE DEF u
<1>4. Blank(u)
  <2>1. SUFFICES ASSUME NEW m \in Nodes \ u.nodes
                 PROVE  /\ u.parent[m] = Root /\ u.slug[m] = NoSlug /\ u.kind[m] = "page" /\ u.ver[m] = 0
                        /\ u.kids[m] = <<>> /\ u.index[m] = {}
      BY <1>3 DEF Blank, IsCreated
  <2>2. m \in Nodes /\ m \in Places /\ m # n /\ m \notin t.nodes /\ m # p
    <3>1. m \in Nodes /\ m \in Places /\ m # n /\ m \notin t.nodes BY <1>3 DEF IsCreated, Places
    <3>2. m # p BY <3>1, NodesAssumption DEF Live
    <3> QED BY <3>1, <3>2
  <2>3. /\ t.parent[m] = Root /\ t.slug[m] = NoSlug /\ t.kind[m] = "page" /\ t.ver[m] = 0
        /\ t.kids[m] = <<>> /\ t.index[m] = {}
    BY <2>2 DEF Blank, Tidy
  <2> QED BY <1>3, <2>2, <2>3 DEF IsCreated
<1> QED BY <1>2, <1>3, <1>4 DEF Tidy, u

\* u is t with other kids, in which the same children stand in another order.
LEMMA ReorderedIsTidy ==
    ASSUME NEW t, Tidy(t), NEW kids \in [Places -> Seq(Nodes)],
           \A q \in Places : Once(kids[q]) /\ ToSet(kids[q]) = ToSet(t.kids[q]),
           \A q \in Places \ Live(t) : kids[q] = <<>>
    PROVE  Tidy([t EXCEPT !.kids = kids])
<1> DEFINE u == [t EXCEPT !.kids = kids]
<1>1. /\ TreeType(t) /\ Record(t) /\ Named(t) /\ Sliced(t) /\ SlugsUnique(t) /\ PagesAreLeaves(t) /\ Rooted(t)
      /\ \A q \in Live(t) : t.index[q] = {<<t.slug[m], m>> : m \in Children(t, q)}
    BY Branches DEF Tidy
<1>2. /\ Record(u) /\ u.nodes = t.nodes /\ u.parent = t.parent /\ u.kids = kids /\ u.slug = t.slug
      /\ u.kind = t.kind /\ u.index = t.index /\ u.ver = t.ver /\ u.pinned = t.pinned
  <2>1. u = [nodes |-> t.nodes, parent |-> t.parent, kids |-> kids, slug |-> t.slug,
             kind |-> t.kind, index |-> t.index, ver |-> t.ver, pinned |-> t.pinned]
      BY <1>1 DEF Record
  <2> HIDE DEF u
  <2> QED BY <2>1 DEF Record
<1> HIDE DEF u
<1>3. TreeType(u) BY <1>1, <1>2 DEF TreeType, Record
<1>4. \A q : Children(u, q) = Children(t, q) BY <1>2 DEF Children
<1>5. Sliced(u) BY <1>1, <1>2, <1>4 DEF Sliced
<1>6. Named(u) /\ SlugsUnique(u) /\ PagesAreLeaves(u) /\ Rooted(u)
    BY <1>1, <1>2 DEF Named, Live, SlugsUnique, PagesAreLeaves, Rooted
<1>7. \A q \in Live(u) : u.index[q] = SlugPairs(u, q)
  <2>1. SUFFICES ASSUME NEW q \in Live(u) PROVE u.index[q] = SlugPairs(u, q) OBVIOUS
  <2>2. q \in Places /\ q \in Live(t) BY <1>1, <1>2 DEF Live, Places, TreeType
  <2>3. u.index[q] = {<<t.slug[m], m>> : m \in Children(t, q)} BY <1>1, <1>2, <2>2
  <2>4. SlugPairs(u, q) = {<<u.slug[m], m>> : m \in Children(u, q)} BY <1>5, <2>2, PairsOf DEF Sliced
  <2> QED BY <1>2, <1>4, <2>3, <2>4
<1>8. WellFormed(u) BY <1>3, <1>5, <1>6, <1>7, Assembled
<1>9. Blank(u)
  <2>1. \A m \in Nodes \ u.nodes : m \in Places \ Live(t) BY <1>2, NodesAssumption DEF Places, Live
  <2> QED BY <1>2, <2>1 DEF Blank, Tidy
<1> QED BY <1>8, <1>9 DEF Tidy, u

-----------------------------------------------------------------------------
(* What the disk is *)

LEMMA Ends2 ==
    ASSUME NEW S, NEW p \in Seq(S), p # <<>>
    PROVE  Front(p) \in Seq(S) /\ Last(p) \in S /\ p = Append(Front(p), Last(p))
<1>1. Len(p) \in Nat /\ \A i \in 1 .. Len(p) : p[i] \in S BY LenProperties, ElementOfSeq
<1>2. Len(p) # 0 BY <1>1, EmptySeq
<1>3. Last(p) \in S BY <1>1, <1>2 DEF Last
<1>4. /\ Front(p) \in Seq(S) /\ Len(Front(p)) = Len(p) - 1
      /\ \A i \in 1 .. Len(p) - 1 : Front(p)[i] = p[i]
  <2>1. 1 \in Int /\ Len(p) - 1 \in Int /\ \A i \in 1 .. Len(p) - 1 : p[i] \in S BY <1>1
  <2>2. /\ SubSeq(p, 1, Len(p) - 1) \in Seq(S)
        /\ Len(SubSeq(p, 1, Len(p) - 1)) = IF 1 <= Len(p) - 1 THEN (Len(p) - 1) - 1 + 1 ELSE 0
        /\ \A i \in 1 .. (Len(p) - 1) - 1 + 1 : SubSeq(p, 1, Len(p) - 1)[i] = p[1 + i - 1]
      BY <2>1, SubSeqProperties
  <2>3. Front(p) = SubSeq(p, 1, Len(p) - 1) BY DEF Front
  <2>4. (Len(p) - 1) - 1 + 1 = Len(p) - 1 /\ \A i \in 1 .. Len(p) - 1 : 1 + i - 1 = i BY <1>1
  <2>5. /\ Front(p) \in Seq(S) /\ Len(Front(p)) = IF 1 <= Len(p) - 1 THEN Len(p) - 1 ELSE 0
        /\ \A i \in 1 .. Len(p) - 1 : Front(p)[i] = p[i]
      BY <2>2, <2>3, <2>4
  <2>6. 1 <= Len(p) - 1 \/ Len(p) - 1 = 0
    <3>1. \A n \in Nat : n # 0 => 1 <= n - 1 \/ n - 1 = 0 OBVIOUS
    <3>2. Len(p) \in Nat /\ Len(p) # 0 BY <1>1, <1>2
    <3> QED BY <3>1, <3>2
  <2> QED BY <2>5, <2>6
<1> DEFINE q == Append(Front(p), Last(p))
<1>5. /\ q \in Seq(S) /\ Len(q) = Len(Front(p)) + 1
      /\ \A i \in 1 .. Len(Front(p)) : q[i] = Front(p)[i]
      /\ q[Len(Front(p)) + 1] = Last(p)
    BY <1>3, <1>4, AppendProperties
<1> HIDE DEF q
<1>6. p = q
  <2>1. Len(p) = Len(q) BY <1>1, <1>4, <1>5
  <2>2. \A i \in 1 .. Len(p) : p[i] = q[i]
    <3>1. SUFFICES ASSUME NEW i \in 1 .. Len(p) PROVE p[i] = q[i] OBVIOUS
    <3>2. CASE i = Len(p) BY <1>1, <1>4, <1>5, <3>2 DEF Last
    <3>3. CASE i # Len(p) BY <1>1, <1>4, <1>5, <3>3
    <3> QED BY <3>2, <3>3
  <2> QED BY <1>5, <2>1, <2>2, SeqEqual
<1> QED BY <1>3, <1>4, <1>6 DEF q

LEMMA EndsOfAppend ==
    ASSUME NEW S, NEW p \in Seq(S), NEW s
    PROVE  /\ Front(Append(p, s)) = p /\ Last(Append(p, s)) = s /\ Append(p, s) # <<>>
           /\ Append(p, s) \in Seq(S \union {s}) /\ Len(Append(p, s)) = Len(p) + 1
<1> DEFINE q == Append(p, s)
           T == S \union {s}
<1>0. p \in Seq(T) BY SeqMonotonic
<1>1. /\ q \in Seq(T) /\ Len(q) = Len(p) + 1
      /\ \A i \in 1 .. Len(p) : q[i] = p[i]
      /\ q[Len(p) + 1] = s
    BY <1>0, AppendProperties
<1>2. Len(p) \in Nat BY LenProperties
<1> HIDE DEF q
<1>3. q # <<>> BY <1>1, <1>2, EmptySeq
<1>4. Last(q) = s BY <1>1 DEF Last
<1>5. q = Append(Front(q), Last(q)) /\ Front(q) \in Seq(T) BY <1>1, <1>3, Ends2
<1>6. Front(q) = p BY <1>0, <1>1, <1>4, <1>5, AppendInjective DEF q
<1> QED BY <1>1, <1>3, <1>4, <1>6 DEF q
FileT == [id : Nodes, ver : Nat, body : Nat, pin : BOOLEAN]
IsFolder(p) == p \in Seq(Slugs) /\ p # <<>>
IsFileName(x) == \E p \in Seq(Slugs), s \in Slugs \union {IndexFile} : x = Append(p, s)

\* Whatever is on the disk is in a directory and has a name and a content that
\* the wiki may have written.
DiskSound(d) ==
    /\ d = [dirs |-> d.dirs, md |-> d.md, ord |-> d.ord]
    /\ d.md = [x \in DOMAIN d.md |-> d.md[x]]
    /\ IsFiniteSet(d.dirs) /\ IsFiniteSet(DOMAIN d.md)
    /\ \A p \in d.dirs : IsFolder(p) /\ IsDir(d, Front(p))
    /\ \A x \in DOMAIN d.md : IsFileName(x) /\ IsDir(d, Front(x)) /\ d.md[x] \in FileT
    /\ \A p \in DOMAIN d.ord : p \in Seq(Slugs) /\ d.ord[p] \in Seq(Nodes)

LEMMA FileNames ==
    ASSUME NEW x, IsFileName(x)
    PROVE  /\ Front(x) \in Seq(Slugs) /\ Last(x) \in Slugs \union {IndexFile} /\ x = Append(Front(x), Last(x))
           /\ Last(x) # IndexFile => IsFolder(x)
<1>1. PICK p \in Seq(Slugs), s \in Slugs \union {IndexFile} : x = Append(p, s) BY DEF IsFileName
<1>2. Front(x) = p /\ Last(x) = s /\ x # <<>> BY <1>1, EndsOfAppend
<1>3. ASSUME s # IndexFile PROVE IsFolder(x)
  <2>1. s \in Slugs BY <1>1, <1>3
  <2>2. Append(p, s) \in Seq(Slugs) BY <2>1, AppendProperties
  <2> QED BY <1>1, <1>2, <2>2 DEF IsFolder
<1> QED BY <1>1, <1>2, <1>3

LEMMA FoldersAreFileNames ==
    ASSUME NEW p, IsFolder(p)
    PROVE  /\ IsFileName(p) /\ Front(p) \in Seq(Slugs) /\ Last(p) \in Slugs /\ Last(p) # IndexFile
           /\ IsFileName(Append(p, IndexFile)) /\ Front(Append(p, IndexFile)) = p
           /\ Last(Append(p, IndexFile)) = IndexFile
<1>1. Front(p) \in Seq(Slugs) /\ Last(p) \in Slugs /\ p = Append(Front(p), Last(p)) BY Ends2 DEF IsFolder
<1>2. p \in Seq(Slugs) BY DEF IsFolder
<1>3. Front(Append(p, IndexFile)) = p /\ Last(Append(p, IndexFile)) = IndexFile BY <1>2, EndsOfAppend
<1> QED BY <1>1, <1>2, <1>3, DiskAssumption DEF IsFileName, IndexFile

LEMMA PutIs ==
    ASSUME NEW f, NEW x, NEW v
    PROVE  /\ DOMAIN Put(f, x, v) = DOMAIN f \union {x} /\ Put(f, x, v)[x] = v
           /\ \A y \in DOMAIN f : y # x => Put(f, x, v)[y] = f[y]
           /\ Put(f, x, v) = [y \in DOMAIN Put(f, x, v) |-> Put(f, x, v)[y]]
BY DEF Put

\* A file at a place in a directory may be written.
LEMMA WrittenIsSound ==
    ASSUME NEW d, DiskSound(d), NEW x, IsFileName(x), IsDir(d, Front(x)), NEW file \in FileT
    PROVE  DiskSound([d EXCEPT !.md = Put(d.md, x, file)])
<1> DEFINE md == Put(d.md, x, file)
           e == [d EXCEPT !.md = md]
<1>1. DOMAIN md = DOMAIN d.md \union {x} /\ md[x] = file /\ \A y \in DOMAIN d.md : y # x => md[y] = d.md[y] BY DEF Put
<1>2. md = [y \in DOMAIN md |-> md[y]] BY DEF Put
<1> HIDE DEF md
<1>3. e = [dirs |-> d.dirs, md |-> md, ord |-> d.ord]
  <2>1. d = [dirs |-> d.dirs, md |-> d.md, ord |-> d.ord] BY DEF DiskSound
  <2> QED BY <2>1
<1> HIDE DEF e
<1>4. e.dirs = d.dirs /\ e.md = md /\ e.ord = d.ord BY <1>3
<1>5. IsFiniteSet(DOMAIN md) BY <1>1, FS_AddElement DEF DiskSound
<1>6. \A p : IsDir(e, p) = IsDir(d, p) BY <1>4 DEF IsDir
<1>7. \A y \in DOMAIN md : IsFileName(y) /\ IsDir(e, Front(y)) /\ md[y] \in FileT BY <1>1, <1>6 DEF DiskSound
<1>8. e = [dirs |-> e.dirs, md |-> e.md, ord |-> e.ord] BY <1>3, <1>4
<1>9. \A p \in e.dirs : IsFolder(p) /\ IsDir(e, Front(p)) BY <1>4, <1>6 DEF DiskSound
<1>10. IsFiniteSet(e.dirs) /\ \A p \in DOMAIN e.ord : p \in Seq(Slugs) /\ e.ord[p] \in Seq(Nodes) BY <1>4 DEF DiskSound
<1>11. DiskSound(e) BY <1>2, <1>4, <1>5, <1>7, <1>8, <1>9, <1>10 DEF DiskSound
<1> QED BY <1>11 DEF e, md

LEMMA UnusedIsFinite ==
    ASSUME NEW d, NEW t
    PROVE  IsFiniteSet(Unused(d, t)) /\ Unused(d, t) \subseteq Nodes \ t.nodes
<1>1. Unused(d, t) \subseteq Nodes BY DEF Unused
<1> QED BY <1>1, DiskAssumption, FS_Subset DEF Unused

-----------------------------------------------------------------------------
(* Paths below a path *)

\* What is below p begins with p.
LEMMA PrefixOf ==
    ASSUME NEW S, NEW p \in Seq(S), NEW x \in Seq(S), IsPrefix(p, x)
    PROVE  /\ SubSeq(x, Len(p) + 1, Len(x)) \in Seq(S)
           /\ x = p \o SubSeq(x, Len(p) + 1, Len(x))
<1> DEFINE r == SubSeq(x, Len(p) + 1, Len(x))
<1>1. Len(p) \in Nat /\ Len(x) \in Nat /\ Len(p) <= Len(x) BY LenProperties DEF IsPrefix
<1>2. SubSeq(x, 1, Len(p)) = p BY SubSeqFull DEF IsPrefix
<1>3. SubSeq(x, 1, Len(x)) = x BY SubSeqFull
<1>4. 1 \in 1 .. Len(x) + 1 /\ Len(p) \in 1 - 1 .. Len(x) /\ Len(x) \in Len(p) .. Len(x) BY <1>1
<1>5. SubSeq(x, 1, Len(p)) \o r = SubSeq(x, 1, Len(x)) BY <1>4, ConcatAdjacentSubSeq
<1>6. \A i \in Len(p) + 1 .. Len(x) : x[i] \in S
  <2>1. \A i \in 1 .. Len(x) : x[i] \in S BY ElementOfSeq
  <2>2. ASSUME NEW i \in Len(p) + 1 .. Len(x) PROVE i \in 1 .. Len(x) BY <1>1, <2>2
  <2> QED BY <2>1, <2>2
<1>7. r \in Seq(S) BY <1>1, <1>6, SubSeqProperties
<1> QED BY <1>2, <1>3, <1>5, <1>7

LEMMA BelowIs ==
    ASSUME NEW S, NEW p \in Seq(S), NEW r \in Seq(S)
    PROVE  IsPrefix(p, p \o r) /\ SubSeq(p \o r, Len(p) + 1, Len(p \o r)) = r
<1> DEFINE x == p \o r
           y == SubSeq(x, 1, Len(p))
           z == SubSeq(x, Len(p) + 1, Len(x))
<1>1. Len(p) \in Nat /\ Len(r) \in Nat /\ p \in [1 .. Len(p) -> S] BY LenProperties
<1>2. /\ x \in Seq(S) /\ Len(x) = Len(p) + Len(r)
      /\ \A i \in 1 .. Len(p) + Len(r) : x[i] = IF i <= Len(p) THEN p[i] ELSE r[i - Len(p)]
    BY ConcatProperties
<1> HIDE DEF x
<1>3. \A i \in 1 .. Len(x) : x[i] \in S BY <1>2, ElementOfSeq
<1>4. y \in Seq(S) /\ Len(y) = Len(p) /\ \A i \in 1 .. Len(p) : y[i] = p[i]
  <2>1. \A i \in 1 .. Len(p) : x[i] \in S BY <1>1, <1>2, <1>3
  <2>2. /\ y \in Seq(S) /\ Len(y) = IF 1 <= Len(p) THEN Len(p) - 1 + 1 ELSE 0
        /\ \A i \in 1 .. Len(p) - 1 + 1 : y[i] = x[1 + i - 1]
      BY <1>1, <2>1, SubSeqProperties
  <2> HIDE DEF y
  <2>3. \A i \in 1 .. Len(p) : i \in 1 .. Len(p) - 1 + 1 /\ 1 + i - 1 = i /\ i \in 1 .. Len(p) + Len(r) /\ i <= Len(p)
      BY <1>1
  <2>4. \A i \in 1 .. Len(p) : y[i] = p[i] BY <1>2, <2>2, <2>3
  <2> QED BY <1>1, <2>2, <2>4
<1>5. y = p BY <1>4, SeqEqual
<1>6. SubSeq(p, 1, Len(p)) = p BY SubSeqFull
<1>7. IsPrefix(p, x) BY <1>1, <1>2, <1>5, <1>6 DEF IsPrefix
<1>8. z \in Seq(S) /\ Len(z) = Len(r) /\ \A i \in 1 .. Len(r) : z[i] = r[i]
  <2>1. \A i \in Len(p) + 1 .. Len(x) : x[i] \in S BY <1>1, <1>2, <1>3
  <2>2. /\ z \in Seq(S)
        /\ Len(z) = IF Len(p) + 1 <= Len(x) THEN Len(x) - (Len(p) + 1) + 1 ELSE 0
        /\ \A i \in 1 .. Len(x) - (Len(p) + 1) + 1 : z[i] = x[(Len(p) + 1) + i - 1]
      BY <1>1, <1>2, <2>1, SubSeqProperties
  <2> HIDE DEF z
  <2>3. \A i \in 1 .. Len(r) : /\ i \in 1 .. Len(x) - (Len(p) + 1) + 1 /\ (Len(p) + 1) + i - 1 = Len(p) + i
                               /\ Len(p) + i \in 1 .. Len(p) + Len(r) /\ ~(Len(p) + i <= Len(p))
                               /\ Len(p) + i - Len(p) = i
      BY <1>1, <1>2
  <2>4. ASSUME NEW i \in 1 .. Len(r) PROVE z[i] = r[i]
    <3>1. z[i] = x[Len(p) + i] BY <2>2, <2>3
    <3>2. x[Len(p) + i] = r[Len(p) + i - Len(p)] BY <1>2, <2>3
    <3> QED BY <2>3, <3>1, <3>2
  <2>5. Len(z) = Len(r) BY <1>1, <1>2, <2>2
  <2> QED BY <2>2, <2>4, <2>5
<1>9. z = r BY <1>8, SeqEqual
<1> QED BY <1>7, <1>9 DEF x

LEMMA EndsOfBelow ==
    ASSUME NEW S, NEW p \in Seq(S), NEW r \in Seq(S), r # <<>>
    PROVE  p \o r # <<>> /\ Front(p \o r) = p \o Front(r) /\ Last(p \o r) = Last(r)
<1> DEFINE f == Front(r)
           l == Last(r)
<1>1. f \in Seq(S) /\ l \in S /\ r = Append(f, l) BY Ends2
<1> HIDE DEF f, l
<1>2. r = f \o <<l>> BY <1>1, AppendIsConcat
<1>3. <<l>> \in Seq(S) BY <1>1
<1>4. p \o r = (p \o f) \o <<l>> BY <1>1, <1>2, <1>3, ConcatAssociative
<1>5. p \o f \in Seq(S) BY <1>1, ConcatProperties
<1>6. p \o r = Append(p \o f, l) BY <1>1, <1>4, <1>5, AppendIsConcat
<1>7. Append(p \o f, l) # <<>> /\ Front(Append(p \o f, l)) = p \o f /\ Last(Append(p \o f, l)) = l
    BY <1>5, EndsOfAppend
<1>8. p \o r # <<>> /\ Front(p \o r) = p \o f /\ Last(p \o r) = l BY <1>6, <1>7
<1> QED BY <1>8 DEF f, l

LEMMA FrontBelow ==
    ASSUME NEW S, NEW p \in Seq(S), NEW x \in Seq(S), x # <<>>
    PROVE  /\ IsPrefix(p, Front(x)) <=> Under(p, x)
           /\ ~IsPrefix(x, Front(x))
<1>1. Front(x) \in Seq(S) /\ Last(x) \in S /\ x = Append(Front(x), Last(x)) BY Ends2
<1>2. Len(x) = Len(Front(x)) + 1 /\ Len(Front(x)) \in Nat BY <1>1, EndsOfAppend, LenProperties
<1>3. ASSUME IsPrefix(p, Front(x)) PROVE Under(p, x)
  <2> DEFINE r == SubSeq(Front(x), Len(p) + 1, Len(Front(x)))
  <2>1. r \in Seq(S) /\ Front(x) = p \o r BY <1>1, <1>3, PrefixOf
  <2> HIDE DEF r
  <2> DEFINE l == <<Last(x)>>
  <2>2. l \in Seq(S) /\ x = Front(x) \o l
    <3>1. l \in Seq(S) BY <1>1
    <3>2. Append(Front(x), Last(x)) = Front(x) \o <<Last(x)>> BY <1>1, AppendIsConcat
    <3> QED BY <1>1, <3>1, <3>2
  <2> HIDE DEF l
  <2>3. x = p \o (r \o l)
    <3>1. (p \o r) \o l = p \o (r \o l)
      <4>1. r \in Seq(S) /\ l \in Seq(S) BY <2>1, <2>2
      <4> QED BY <4>1, ConcatAssociative
    <3>2. x = (p \o r) \o l BY <2>1, <2>2
    <3> QED BY <3>1, <3>2
  <2>4. r \o l \in Seq(S) BY <2>1, <2>2, ConcatProperties
  <2>5. IsPrefix(p, x) BY <2>3, <2>4, BelowIs
  <2>6. Len(p) <= Len(Front(x)) BY <1>3 DEF IsPrefix
  <2>7. p # x BY <1>2, <2>6
  <2> QED BY <2>5, <2>7 DEF Under, IsStrictPrefix
<1>4. ASSUME Under(p, x) PROVE IsPrefix(p, Front(x))
  <2>1. IsPrefix(p, x) /\ p # x BY <1>4 DEF Under, IsStrictPrefix
  <2> DEFINE r == SubSeq(x, Len(p) + 1, Len(x))
  <2>2. r \in Seq(S) /\ x = p \o r BY <2>1, PrefixOf
  <2> HIDE DEF r
  <2>3. r # <<>> BY <2>1, <2>2, ConcatEmptySeq
  <2>4. Front(x) = p \o Front(r) /\ Front(r) \in Seq(S) BY <2>2, <2>3, EndsOfBelow, Ends2
  <2> QED BY <2>4, BelowIs
<1>5. ~IsPrefix(x, Front(x)) BY <1>2 DEF IsPrefix
<1> QED BY <1>3, <1>4, <1>5

\* What was at p or below it is afterwards at q or below it, under its name.
LEMMA ShiftIs ==
    ASSUME NEW S, NEW p \in Seq(S), NEW q \in Seq(S), NEW x \in Seq(S), IsPrefix(p, x)
    PROVE  /\ Shift(x, p, q) \in Seq(S) /\ Shift(Shift(x, p, q), q, p) = x
           /\ x = p => Shift(x, p, q) = q
           /\ x # p => /\ x # <<>> /\ IsPrefix(p, Front(x)) /\ Front(Shift(x, p, q)) = Shift(Front(x), p, q)
                       /\ Last(Shift(x, p, q)) = Last(x) /\ Shift(x, p, q) # <<>>
<1> DEFINE r == SubSeq(x, Len(p) + 1, Len(x))
<1>1. r \in Seq(S) /\ x = p \o r /\ Shift(x, p, q) = q \o r BY PrefixOf DEF Shift
<1> HIDE DEF r
<1>2. q \o r \in Seq(S) BY <1>1, ConcatProperties
<1>3. Shift(q \o r, q, p) = p \o r BY <1>1, BelowIs DEF Shift
<1>4. ASSUME x = p PROVE q \o r = q
  <2>1. p \o r = p BY <1>1, <1>4
  <2>2. r = <<>> BY <1>1, <2>1, ConcatEqualIffEmpty
  <2> QED BY <2>2, ConcatEmptySeq
<1>5. ASSUME x # p
      PROVE  /\ x # <<>> /\ IsPrefix(p, Front(x)) /\ Front(q \o r) = Shift(Front(x), p, q)
             /\ Last(q \o r) = Last(x) /\ q \o r # <<>>
  <2>1. r # <<>> BY <1>1, <1>5, ConcatEmptySeq
  <2>2. Front(r) \in Seq(S) BY <1>1, <2>1, Ends2
  <2>3. x # <<>> /\ Front(x) = p \o Front(r) /\ Last(x) = Last(r) BY <1>1, <2>1, EndsOfBelow
  <2>4. q \o r # <<>> /\ Front(q \o r) = q \o Front(r) /\ Last(q \o r) = Last(r) BY <1>1, <2>1, EndsOfBelow
  <2>5. IsPrefix(p, p \o Front(r)) /\ Shift(p \o Front(r), p, q) = q \o Front(r) BY <2>2, BelowIs DEF Shift
  <2> QED BY <2>3, <2>4, <2>5
<1> QED BY <1>1, <1>2, <1>3, <1>4, <1>5

-----------------------------------------------------------------------------
(* File operations: they leave the tree alone and the disk sound. *)

On(w, t) == w = [t |-> t, d |-> w.d, f |-> w.f, ok |-> w.ok] /\ DiskSound(w.d)

LEMMA WorldFields ==
    ASSUME NEW w, NEW t, On(w, t), NEW d, NEW b
    PROVE  /\ [w EXCEPT !.d = d] = [t |-> t, d |-> d, f |-> w.f, ok |-> w.ok]
           /\ [w EXCEPT !.t = d] = [t |-> d, d |-> w.d, f |-> w.f, ok |-> w.ok]
           /\ [w EXCEPT !.ok = b] = [t |-> t, d |-> w.d, f |-> w.f, ok |-> b]
<1> DEFINE D == w.d
           F == w.f
           ok == w.ok
<1>1. w = [t |-> t, d |-> D, f |-> F, ok |-> ok] BY DEF On
<1> HIDE DEF D, F, ok
<1>2. ASSUME NEW r, r = [w EXCEPT !.d = d] PROVE r = [t |-> t, d |-> d, f |-> F, ok |-> ok] BY <1>1, <1>2
<1>3. ASSUME NEW r, r = [w EXCEPT !.t = d] PROVE r = [t |-> d, d |-> D, f |-> F, ok |-> ok] BY <1>1, <1>3
<1>4. ASSUME NEW r, r = [w EXCEPT !.ok = b] PROVE r = [t |-> t, d |-> D, f |-> F, ok |-> b] BY <1>1, <1>4
<1> QED BY <1>2, <1>3, <1>4, Zenon DEF D, F, ok

LEMMA DiskFields ==
    ASSUME NEW d, d = [dirs |-> d.dirs, md |-> d.md, ord |-> d.ord], NEW x
    PROVE  /\ [d EXCEPT !.dirs = x] = [dirs |-> x, md |-> d.md, ord |-> d.ord]
           /\ [d EXCEPT !.md = x] = [dirs |-> d.dirs, md |-> x, ord |-> d.ord]
           /\ [d EXCEPT !.ord = x] = [dirs |-> d.dirs, md |-> d.md, ord |-> x]
<1>1. ASSUME NEW r, r = [d EXCEPT !.dirs = x] PROVE r = [dirs |-> x, md |-> d.md, ord |-> d.ord] BY <1>1
<1>2. ASSUME NEW r, r = [d EXCEPT !.md = x] PROVE r = [dirs |-> d.dirs, md |-> x, ord |-> d.ord] BY <1>2
<1>3. ASSUME NEW r, r = [d EXCEPT !.ord = x] PROVE r = [dirs |-> d.dirs, md |-> d.md, ord |-> x] BY <1>3
<1> QED BY <1>1, <1>2, <1>3, Zenon

LEMMA OnDisk ==
    ASSUME NEW w, NEW t, On(w, t), NEW e, DiskSound(e)
    PROVE  On([w EXCEPT !.d = e], t) /\ [w EXCEPT !.d = e].d = e /\ [w EXCEPT !.d = e].ok = w.ok
<1> DEFINE v == [w EXCEPT !.d = e]
<1>1. v = [t |-> t, d |-> e, f |-> w.f, ok |-> w.ok] BY WorldFields
<1> HIDE DEF v
<1>2. v.t = t /\ v.d = e /\ v.f = w.f /\ v.ok = w.ok BY <1>1
<1>3. On(v, t) BY <1>1, <1>2 DEF On
<1> QED BY <1>2, <1>3 DEF v

LEMMA OnTree ==
    ASSUME NEW w, NEW t, On(w, t), NEW u
    PROVE  On([w EXCEPT !.t = u], u) /\ [w EXCEPT !.t = u].d = w.d /\ [w EXCEPT !.t = u].ok = w.ok /\ w.t = t
<1> DEFINE v == [w EXCEPT !.t = u]
<1>1. v = [t |-> u, d |-> w.d, f |-> w.f, ok |-> w.ok] BY WorldFields
<1> HIDE DEF v
<1>2. v.t = u /\ v.d = w.d /\ v.f = w.f /\ v.ok = w.ok BY <1>1
<1>3. On(v, u) BY <1>1, <1>2 DEF On
<1>4. w.t = t BY DEF On
<1> QED BY <1>2, <1>3, <1>4 DEF v

LEMMA OnOk ==
    ASSUME NEW w, NEW t, On(w, t), NEW b
    PROVE  On([w EXCEPT !.ok = b], t) /\ [w EXCEPT !.ok = b].d = w.d /\ [w EXCEPT !.ok = b].ok = b
<1> DEFINE v == [w EXCEPT !.ok = b]
<1>1. v = [t |-> t, d |-> w.d, f |-> w.f, ok |-> b] BY WorldFields
<1> HIDE DEF v
<1>2. v.t = t /\ v.d = w.d /\ v.f = w.f /\ v.ok = b BY <1>1
<1>3. On(v, t) BY <1>1, <1>2 DEF On
<1> QED BY <1>2, <1>3 DEF v

LEMMA Parts ==
    ASSUME NEW t, NEW d, NEW f, NEW b, NEW r, r = [t |-> t, d |-> d, f |-> f, ok |-> b]
    PROVE  r.t = t /\ r.d = d /\ r.f = f /\ r.ok = b
OBVIOUS

LEMMA OnFailed ==
    ASSUME NEW w, NEW t, On(w, t), NEW b
    PROVE  \A r : r = [w EXCEPT !.f = @ + 1, !.ok = b] => On(r, t) /\ r.ok = b
<1> DEFINE D == w.d
           F == w.f
           ok == w.ok
           G == F + 1
<1>1. w = [t |-> t, d |-> D, f |-> F, ok |-> ok] /\ DiskSound(D) BY DEF On
<1> HIDE DEF D, ok, F
<1>2. ASSUME NEW r, r = [w EXCEPT !.f = @ + 1, !.ok = b] PROVE r = [t |-> t, d |-> D, f |-> G, ok |-> b]
    BY <1>1, <1>2
<1> HIDE DEF G
<1>3. ASSUME NEW r, r = [t |-> t, d |-> D, f |-> G, ok |-> b] PROVE On(r, t) /\ r.ok = b
  <2>1. r.t = t /\ r.d = D /\ r.f = G /\ r.ok = b BY <1>3, Parts
  <2>2. r = [t |-> t, d |-> r.d, f |-> r.f, ok |-> r.ok] BY <1>3, <2>1
  <2> QED BY <1>1, <2>1, <2>2 DEF On
<1> QED BY <1>2, <1>3

LEMMA FailsIs ==
    ASSUME NEW w, NEW t, On(w, t), NEW what
    PROVE  /\ \A v \in Fails(w, what) : On(v, t) /\ ~v.ok
           /\ \A v \in Refuses(w) : On(v, t) /\ ~v.ok
<1>2. ASSUME NEW v \in Fails(w, what) PROVE On(v, t) /\ v.ok = FALSE
  <2>1. v = [w EXCEPT !.f = @ + 1, !.ok = FALSE] BY DEF Fails
  <2>2. \A r : r = [w EXCEPT !.f = @ + 1, !.ok = FALSE] => On(r, t) /\ r.ok = FALSE BY OnFailed
  <2> QED BY <2>1, <2>2
<1>3. ASSUME NEW v \in Refuses(w) PROVE On(v, t) /\ v.ok = FALSE
  <2>1. v = [w EXCEPT !.ok = FALSE] BY DEF Refuses
  <2> QED BY <2>1, OnOk
<1> QED BY <1>2, <1>3

\* A folder has the folders above it.
LEMMA Above ==
    ASSUME NEW p \in Seq(Slugs), NEW i \in 1 .. Len(p)
    PROVE  LET x == SubSeq(p, 1, i) IN
           IsFolder(x) /\ Front(x) = SubSeq(p, 1, i - 1)
<1> DEFINE x == SubSeq(p, 1, i)
<1>1. Len(p) \in Nat /\ i \in Nat /\ 1 <= i /\ i <= Len(p) BY LenProperties
<1>2. \A j \in 1 .. Len(p) : p[j] \in Slugs BY ElementOfSeq
<1>3. \A j \in 1 .. i : p[j] \in Slugs BY <1>1, <1>2
<1>4. x \in Seq(Slugs) /\ Len(x) = i /\ \A j \in 1 .. i : x[j] = p[j]
  <2>1. /\ x \in Seq(Slugs) /\ Len(x) = IF 1 <= i THEN i - 1 + 1 ELSE 0
        /\ \A j \in 1 .. i - 1 + 1 : x[j] = p[1 + j - 1]
      BY <1>1, <1>3, SubSeqProperties
  <2>2. i - 1 + 1 = i /\ \A j \in 1 .. i : 1 + j - 1 = j BY <1>1
  <2> QED BY <1>1, <2>1, <2>2
<1> HIDE DEF x
<1>5. x # <<>> BY <1>1, <1>4, EmptySeq
<1> DEFINE y == Front(x)
           z == SubSeq(p, 1, i - 1)
<1>6. /\ y \in Seq(Slugs) /\ Len(y) = i - 1 /\ \A j \in 1 .. i - 1 : y[j] = x[j]
  <2>1. \A j \in 1 .. i - 1 : x[j] \in Slugs BY <1>1, <1>3, <1>4
  <2>2. y = SubSeq(x, 1, i - 1) BY <1>4 DEF Front
  <2>3. /\ y \in Seq(Slugs) /\ Len(y) = IF 1 <= i - 1 THEN i - 1 - 1 + 1 ELSE 0
        /\ \A j \in 1 .. i - 1 - 1 + 1 : y[j] = x[1 + j - 1]
      BY <1>1, <2>1, <2>2, SubSeqProperties
  <2>4. i - 1 - 1 + 1 = i - 1 /\ (\A j \in 1 .. i - 1 : 1 + j - 1 = j) /\ (1 <= i - 1 \/ i - 1 = 0) BY <1>1
  <2> QED BY <2>3, <2>4
<1>7. /\ z \in Seq(Slugs) /\ Len(z) = i - 1 /\ \A j \in 1 .. i - 1 : z[j] = p[j]
  <2>1. \A j \in 1 .. i - 1 : p[j] \in Slugs BY <1>1, <1>3
  <2>3. /\ z \in Seq(Slugs) /\ Len(z) = IF 1 <= i - 1 THEN i - 1 - 1 + 1 ELSE 0
        /\ \A j \in 1 .. i - 1 - 1 + 1 : z[j] = p[1 + j - 1]
      BY <1>1, <2>1, SubSeqProperties
  <2>4. i - 1 - 1 + 1 = i - 1 /\ (\A j \in 1 .. i - 1 : 1 + j - 1 = j) /\ (1 <= i - 1 \/ i - 1 = 0) BY <1>1
  <2> QED BY <2>3, <2>4
<1> HIDE DEF y, z
<1>8. \A j \in 1 .. i - 1 : y[j] = z[j]
  <2>1. \A j \in 1 .. i - 1 : j \in 1 .. i BY <1>1
  <2> QED BY <1>4, <1>6, <1>7, <2>1
<1>9. y = z BY <1>6, <1>7, <1>8, SeqEqual
<1> QED BY <1>4, <1>5, <1>9 DEF x, y, z, IsFolder

LEMMA ImageIsFinite ==
    ASSUME NEW S, IsFiniteSet(S), NEW f
    PROVE  IsFiniteSet({f[x] : x \in S})
<1> DEFINE T == {f[x] : x \in S}
           g == [x \in S |-> f[x]]
<1>1. g \in Surjection(S, T) BY DEF Surjection
<1> QED BY <1>1, FS_Surjection

LEMMA FoldersMade ==
    ASSUME NEW d, DiskSound(d), NEW p \in Seq(Slugs)
    PROVE  LET e == [d EXCEPT !.dirs = d.dirs \union {SubSeq(p, 1, i) : i \in 1 .. Len(p)}]
           IN  DiskSound(e) /\ IsDir(e, p) /\ e.md = d.md /\ e.ord = d.ord
<1> DEFINE new == {SubSeq(p, 1, i) : i \in 1 .. Len(p)}
           dirs == d.dirs \union new
           e == [d EXCEPT !.dirs = dirs]
<1>1. DiskSound(d) /\ d = [dirs |-> d.dirs, md |-> d.md, ord |-> d.ord] BY DEF DiskSound
<1>2. Len(p) \in Nat BY LenProperties
<1>3. IsFiniteSet(new)
  <2>1. IsFiniteSet(1 .. Len(p)) BY <1>2, FS_Interval
  <2> DEFINE f == [i \in 1 .. Len(p) |-> SubSeq(p, 1, i)]
  <2>2. new = {f[i] : i \in 1 .. Len(p)} OBVIOUS
  <2> HIDE DEF f
  <2> QED BY <2>1, <2>2, ImageIsFinite
<1>4. e.dirs = dirs /\ e.md = d.md /\ e.ord = d.ord /\ e = [dirs |-> e.dirs, md |-> e.md, ord |-> e.ord]
  <2> HIDE DEF dirs
  <2>1. e = [dirs |-> dirs, md |-> d.md, ord |-> d.ord] BY <1>1, DiskFields
  <2> HIDE DEF e
  <2> QED BY <2>1
<1> HIDE DEF e
<1>5. ASSUME NEW x \in new PROVE IsFolder(x) /\ IsDir(e, Front(x))
  <2>1. PICK i \in 1 .. Len(p) : x = SubSeq(p, 1, i) BY <1>5
  <2>2. IsFolder(x) /\ Front(x) = SubSeq(p, 1, i - 1) BY <2>1, Above
  <2>3. CASE i = 1
    <3>1. SubSeq(p, 1, i - 1) = <<>>
      <4>1. i - 1 = 0 BY <2>3
      <4>2. SubSeq(p, 1, 0) = <<>> BY SubSeqEmpty
      <4> QED BY <4>1, <4>2
    <3> QED BY <2>2, <3>1 DEF IsDir
  <2>4. CASE i # 1
    <3>1. i - 1 \in 1 .. Len(p) BY <1>2, <2>4
    <3> QED BY <1>4, <2>2, <3>1 DEF IsDir
  <2> QED BY <2>2, <2>3, <2>4
<1>6. \A q : IsDir(d, q) => IsDir(e, q) BY <1>4 DEF IsDir
<1>7. DiskSound(e)
  <2> HIDE DEF new
  <2>1. IsFiniteSet(e.dirs)
    <3>1. IsFiniteSet(d.dirs) BY <1>1 DEF DiskSound
    <3>2. IsFiniteSet(d.dirs \union new) BY <1>3, <3>1, FS_Union
    <3> QED BY <1>4, <3>2
  <2>2. \A x \in e.dirs : IsFolder(x) /\ IsDir(e, Front(x)) BY <1>1, <1>4, <1>5, <1>6 DEF DiskSound
  <2>3. e.md = [x \in DOMAIN e.md |-> e.md[x]] /\ IsFiniteSet(DOMAIN e.md)
        /\ \A x \in DOMAIN e.ord : x \in Seq(Slugs) /\ e.ord[x] \in Seq(Nodes)
      BY <1>1, <1>4 DEF DiskSound
  <2>4. \A x \in DOMAIN e.md : IsFileName(x) /\ IsDir(e, Front(x)) /\ e.md[x] \in FileT BY <1>1, <1>4, <1>6 DEF DiskSound
  <2> QED BY <1>4, <2>1, <2>2, <2>3, <2>4 DEF DiskSound
<1>8. IsDir(e, p)
  <2>1. CASE p = <<>> BY <2>1 DEF IsDir
  <2>2. CASE p # <<>>
    <3>1. Len(p) # 0 BY <2>2, EmptySeq
    <3>2. Len(p) \in 1 .. Len(p) BY <1>2, <3>1
    <3>3. SubSeq(p, 1, Len(p)) = p BY SubSeqFull
    <3> QED BY <1>4, <3>2, <3>3 DEF IsDir
  <2> QED BY <2>1, <2>2
<1> QED BY <1>4, <1>7, <1>8 DEF e, dirs, new

LEMMA MkdirIs ==
    ASSUME NEW w, NEW t, On(w, t), NEW p \in Seq(Slugs)
    PROVE  \A v \in MkdirAll(w, p) : On(v, t) /\ (v.ok => IsDir(v.d, p))
<1> DEFINE e == [w.d EXCEPT !.dirs = w.d.dirs \union {SubSeq(p, 1, i) : i \in 1 .. Len(p)}]
<1>1. DiskSound(w.d) BY DEF On
<1>2. DiskSound(e) /\ IsDir(e, p)
  <2> HIDE DEF On
  <2> DEFINE d == w.d
  <2>1. DiskSound(d) BY <1>1
  <2> HIDE DEF d
  <2> QED BY <2>1, FoldersMade DEF d
<1> HIDE DEF e
<1> SUFFICES ASSUME NEW v \in MkdirAll(w, p) PROVE On(v, t) /\ (v.ok => IsDir(v.d, p)) OBVIOUS
<1>9. CASE v \in Fails(w, "mkdir") BY <1>9, FailsIs
<1>10. CASE IsDir(w.d, p) /\ v = w BY <1>10
<1>11. CASE v = WithDir(w, p)
  <2>1. v = [w EXCEPT !.d = e] BY <1>11 DEF WithDir, e
  <2> QED BY <1>2, <2>1, OnDisk
<1> QED BY <1>9, <1>10, <1>11 DEF MkdirAll

LEMMA WriteIs ==
    ASSUME NEW w, NEW t, On(w, t), NEW x, IsFileName(x), NEW file \in FileT
    PROVE  \A v \in Write(w, x, file) : /\ On(v, t)
                                        /\ v.ok => v.d.dirs = w.d.dirs /\ DOMAIN v.d.md = DOMAIN w.d.md \union {x}
<1> SUFFICES ASSUME NEW v \in Write(w, x, file)
             PROVE  On(v, t) /\ (v.ok => v.d.dirs = w.d.dirs /\ DOMAIN v.d.md = DOMAIN w.d.md \union {x})
    OBVIOUS
<1>1. CASE v \in Refuses(w) \/ v \in Fails(w, "write") BY <1>1, FailsIs
<1>2. CASE IsDir(w.d, Front(x)) /\ v = WithFile(w, x, file)
  <2> DEFINE md == Put(w.d.md, x, file)
             e == [w.d EXCEPT !.md = md]
  <2>1. DiskSound(w.d) /\ w.d = [dirs |-> w.d.dirs, md |-> w.d.md, ord |-> w.d.ord] BY DEF On, DiskSound
  <2>2. DiskSound(e) BY <1>2, <2>1, WrittenIsSound
  <2>3. v = [w EXCEPT !.d = e] BY <1>2 DEF WithFile
  <2>4. DOMAIN md = DOMAIN w.d.md \union {x} BY DEF Put
  <2> HIDE DEF md
  <2>5. e = [dirs |-> w.d.dirs, md |-> md, ord |-> w.d.ord] BY <2>1, DiskFields
  <2> HIDE DEF e
  <2> QED BY <2>2, <2>3, <2>4, <2>5, OnDisk
<1> QED BY <1>1, <1>2 DEF Write

LEMMA NamesAre ==
    /\ \A p \in Seq(Slugs) : p \in Seq(Nat)
    /\ \A x : IsFileName(x) => x \in Seq(Nat) /\ x # <<>> /\ Front(x) \in Seq(Slugs) /\ x = Append(Front(x), Last(x))
                               /\ Last(x) \in Slugs \union {IndexFile}
<1>1. \A p \in Seq(Slugs) : p \in Seq(Nat) BY SeqMonotonic, DiskAssumption
<1>2. ASSUME NEW x, IsFileName(x)
      PROVE  x \in Seq(Nat) /\ x # <<>> /\ Front(x) \in Seq(Slugs) /\ x = Append(Front(x), Last(x))
             /\ Last(x) \in Slugs \union {IndexFile}
  <2>1. Front(x) \in Seq(Slugs) /\ Last(x) \in Slugs \union {IndexFile} /\ x = Append(Front(x), Last(x))
      BY <1>2, FileNames
  <2>2. Last(x) \in Nat
    <3>1. Slugs \subseteq Nat /\ IndexFile \in Nat BY DiskAssumption DEF IndexFile
    <3> QED BY <2>1, <3>1
  <2>3. Front(x) \in Seq(Nat) BY <1>1, <2>1
  <2>4. Append(Front(x), Last(x)) \in Seq(Nat) /\ Append(Front(x), Last(x)) # <<>>
    <3>1. ASSUME NEW y \in Seq(Nat), NEW z \in Nat PROVE Append(y, z) \in Seq(Nat) /\ Append(y, z) # <<>>
        BY AppendProperties
    <3> QED BY <2>2, <2>3, <3>1
  <2> QED BY <2>1, <2>4
<1> QED BY <1>1, <1>2

IsShifted(g, f, M, N, p, q) ==
    /\ DOMAIN g = (DOMAIN f \ M) \union N /\ g = [x \in DOMAIN g |-> g[x]]
    /\ \A y \in M : g[Shift(y, p, q)] = f[y]
    /\ \A x \in DOMAIN g \ N : x \in DOMAIN f \ M /\ g[x] = f[x]
    /\ IsFiniteSet(DOMAIN f) => IsFiniteSet(DOMAIN g)

LEMMA ShiftedIs ==
    ASSUME NEW S, NEW p \in Seq(S), NEW q \in Seq(S), NEW f, NEW M, M \subseteq DOMAIN f, M \subseteq Seq(S),
           \A y \in M : IsPrefix(p, y), NEW g, g = Shifted(f, M, p, q), NEW N, N = {Shift(y, p, q) : y \in M}
    PROVE  IsShifted(g, f, M, N, p, q)
<1>1. g = [x \in (DOMAIN f \ M) \union N |-> IF x \in N THEN f[Shift(x, q, p)] ELSE f[x]] BY DEF Shifted
<1>2. \A y \in M : Shift(Shift(y, p, q), q, p) = y BY ShiftIs
<1>3. ASSUME IsFiniteSet(DOMAIN f) PROVE IsFiniteSet((DOMAIN f \ M) \union N)
  <2>1. IsFiniteSet(M) /\ IsFiniteSet(DOMAIN f \ M) BY <1>3, FS_Subset, FS_Difference
  <2> DEFINE h == [y \in M |-> Shift(y, p, q)]
             T == {h[y] : y \in M}
  <2>2. N = T OBVIOUS
  <2> HIDE DEF h
  <2>3. IsFiniteSet(T) BY <2>1, ImageIsFinite
  <2> HIDE DEF T
  <2> QED BY <2>1, <2>2, <2>3, FS_Union
<1>4. DOMAIN g = (DOMAIN f \ M) \union N /\ g = [x \in DOMAIN g |-> g[x]] BY <1>1
<1>5. \A y \in M : g[Shift(y, p, q)] = f[y] BY <1>1, <1>2
<1>6. \A x \in DOMAIN g \ N : x \in DOMAIN f \ M /\ g[x] = f[x] BY <1>1, <1>4
<1>7. IsFiniteSet(DOMAIN f) => IsFiniteSet(DOMAIN g) BY <1>3, <1>4
<1> QED BY <1>4, <1>5, <1>6, <1>7 DEF IsShifted

LEMMA RenameIs ==
    ASSUME NEW w, NEW t, On(w, t), NEW p \in w.d.dirs, NEW q, IsFolder(q), IsDir(w.d, Front(q)), ~IsPrefix(p, Front(q))
    PROVE  \A v \in Rename(w, p, q) : On(v, t)
<1> DEFINE d == w.d
           M == {x \in DOMAIN d.md : Under(p, x)}
           D == {x \in d.dirs : IsPrefix(p, x)}
           O == {x \in DOMAIN d.ord : IsPrefix(p, x)}
           N == {Shift(x, p, q) : x \in D}
           dirs == (d.dirs \ D) \union N
           md == Shifted(d.md, M, p, q)
           ord == Shifted(d.ord, O, p, q)
           e == [dirs |-> dirs, md |-> md, ord |-> ord]
<1>1. DiskSound(d) BY DEF On
<1>2. /\ p \in Seq(Slugs) /\ p \in Seq(Nat) /\ p # <<>> /\ q \in Seq(Slugs) /\ q \in Seq(Nat) /\ q # <<>>
      /\ Front(q) \in Seq(Slugs)
  <2>1. IsFolder(p) BY <1>1 DEF DiskSound
  <2> QED BY <2>1, NamesAre, FoldersAreFileNames DEF IsFolder
<1>3. \A x \in d.dirs : IsFolder(x) /\ x \in Seq(Slugs) /\ x \in Seq(Nat) /\ x # <<>> BY <1>1, NamesAre DEF DiskSound, IsFolder
<1>4. \A x \in DOMAIN d.md : IsFileName(x) /\ x \in Seq(Nat) /\ x # <<>> BY <1>1, NamesAre DEF DiskSound
<1>5. ASSUME NEW x \in D PROVE IsFolder(Shift(x, p, q)) /\ IsDir(e, Front(Shift(x, p, q)))
  <2>1. x \in Seq(Slugs) /\ IsPrefix(p, x) /\ x \in d.dirs BY <1>3
  <2>2. CASE x = p
    <3>1. Shift(x, p, q) = q BY <1>2, <2>1, <2>2, ShiftIs
    <3>2. Front(q) = <<>> \/ Front(q) \in d.dirs \ D BY DEF IsDir
    <3> QED BY <3>1, <3>2 DEF IsDir
  <2>3. CASE x # p
    <3>1. /\ Shift(x, p, q) \in Seq(Slugs) /\ IsPrefix(p, Front(x)) /\ Front(Shift(x, p, q)) = Shift(Front(x), p, q)
          /\ Shift(x, p, q) # <<>>
        BY <1>2, <2>1, <2>3, ShiftIs
    <3>2. IsDir(d, Front(x)) BY <1>1, <2>1 DEF DiskSound
    <3>3. Front(x) # <<>>
      <4>1. Len(p) # 0 /\ Len(p) \in Nat BY <1>2, EmptySeq, LenProperties
      <4>2. Len(<<>>) = 0 OBVIOUS
      <4> QED BY <3>1, <4>1, <4>2 DEF IsPrefix
    <3>4. Front(x) \in D BY <3>1, <3>2, <3>3 DEF IsDir
    <3> QED BY <3>1, <3>4 DEF IsDir, IsFolder
  <2> QED BY <2>2, <2>3
<1>6. ASSUME NEW x \in Seq(Nat), x # <<>>, IsDir(d, Front(x)), ~Under(p, x) PROVE IsDir(e, Front(x))
  <2>1. ~IsPrefix(p, Front(x)) BY <1>2, <1>6, FrontBelow
  <2> QED BY <1>6, <2>1 DEF IsDir
<1>7. ASSUME NEW x \in e.dirs PROVE IsFolder(x) /\ IsDir(e, Front(x))
  <2>1. CASE x \in N BY <1>5, <2>1
  <2>2. CASE x \in d.dirs \ D
    <3>1. ~Under(p, x) BY <2>2 DEF Under, IsStrictPrefix
    <3>2. IsDir(d, Front(x)) BY <1>1, <2>2 DEF DiskSound
    <3> QED BY <1>3, <1>6, <2>2, <3>1, <3>2
  <2> QED BY <2>1, <2>2
<1>8. ASSUME NEW y \in M PROVE IsFileName(Shift(y, p, q)) /\ IsDir(e, Front(Shift(y, p, q)))
  <2>1. y \in Seq(Nat) /\ IsFileName(y) /\ IsPrefix(p, y) /\ y # p /\ IsDir(d, Front(y))
      BY <1>1, <1>4 DEF Under, IsStrictPrefix, DiskSound
  <2>2. /\ IsPrefix(p, Front(y)) /\ Front(Shift(y, p, q)) = Shift(Front(y), p, q)
        /\ Last(Shift(y, p, q)) = Last(y) /\ Shift(y, p, q) # <<>> /\ Shift(y, p, q) \in Seq(Nat)
      BY <1>2, <2>1, ShiftIs
  <2>3. Front(y) \in Seq(Slugs) /\ Last(y) \in Slugs \union {IndexFile} BY <2>1, NamesAre
  <2>4. Shift(Front(y), p, q) \in Seq(Slugs) BY <1>2, <2>2, <2>3, ShiftIs
  <2>5. Shift(y, p, q) = Append(Front(Shift(y, p, q)), Last(Shift(y, p, q))) BY <2>2, Ends2
  <2>6. IsFileName(Shift(y, p, q)) BY <2>2, <2>3, <2>4, <2>5 DEF IsFileName
  <2>7. Front(y) # <<>>
    <3>1. Len(p) # 0 /\ Len(p) \in Nat BY <1>2, EmptySeq, LenProperties
    <3>2. Len(<<>>) = 0 OBVIOUS
    <3> QED BY <2>2, <3>1, <3>2 DEF IsPrefix
  <2>8. Front(y) \in D BY <2>1, <2>2, <2>7 DEF IsDir
  <2> QED BY <2>2, <2>6, <2>8 DEF IsDir
<1> DEFINE K == {Shift(y, p, q) : y \in M}
<1>9. /\ DOMAIN md = (DOMAIN d.md \ M) \union K /\ md = [x \in DOMAIN md |-> md[x]]
      /\ \A y \in M : md[Shift(y, p, q)] = d.md[y]
      /\ \A x \in DOMAIN md \ K : x \in DOMAIN d.md \ M /\ md[x] = d.md[x]
      /\ IsFiniteSet(DOMAIN md)
  <2>1. M \subseteq DOMAIN d.md /\ M \subseteq Seq(Nat) /\ \A y \in M : IsPrefix(p, y)
      BY <1>4 DEF Under, IsStrictPrefix
  <2>2. IsFiniteSet(DOMAIN d.md) BY <1>1 DEF DiskSound
  <2>3. md = Shifted(d.md, M, p, q) /\ K = {Shift(y, p, q) : y \in M} OBVIOUS
  <2> HIDE DEF M, K, md
  <2>4. p \in Seq(Nat) /\ q \in Seq(Nat) BY <1>2
  <2>5. IsShifted(md, d.md, M, K, p, q) BY <2>1, <2>3, <2>4, ShiftedIs
  <2> QED BY <2>2, <2>5 DEF IsShifted
<1> HIDE DEF md
<1>10. ASSUME NEW x \in DOMAIN md PROVE IsFileName(x) /\ IsDir(e, Front(x)) /\ md[x] \in FileT
  <2>1. CASE x \in K
    <3>1. PICK y \in M : x = Shift(y, p, q) BY <2>1
    <3>2. md[x] = d.md[y] /\ d.md[y] \in FileT BY <1>1, <1>9, <3>1 DEF DiskSound
    <3> QED BY <1>8, <3>1, <3>2
  <2>2. CASE x \notin K
    <3>1. x \in DOMAIN d.md \ M /\ md[x] = d.md[x] BY <1>9, <2>2
    <3>2. IsFileName(x) /\ IsDir(d, Front(x)) /\ d.md[x] \in FileT /\ x \in Seq(Nat) /\ x # <<>> /\ ~Under(p, x)
        BY <1>1, <1>4, <3>1 DEF DiskSound
    <3> QED BY <1>6, <3>1, <3>2
  <2> QED BY <2>1, <2>2
<1>11. ASSUME NEW x \in DOMAIN ord PROVE x \in Seq(Slugs) /\ ord[x] \in Seq(Nodes)
  <2> DEFINE L == {Shift(y, p, q) : y \in O}
  <2>1. O \subseteq DOMAIN d.ord /\ O \subseteq Seq(Slugs) /\ \A y \in O : IsPrefix(p, y) BY <1>1 DEF DiskSound
  <2>2. /\ DOMAIN ord = (DOMAIN d.ord \ O) \union L
        /\ \A y \in O : ord[Shift(y, p, q)] = d.ord[y]
        /\ \A z \in DOMAIN ord \ L : z \in DOMAIN d.ord \ O /\ ord[z] = d.ord[z]
    <3>1. ord = Shifted(d.ord, O, p, q) /\ L = {Shift(y, p, q) : y \in O} OBVIOUS
    <3>2. O \subseteq Seq(Nat) BY <2>1, NamesAre
    <3> HIDE DEF O, L, ord
    <3>3. p \in Seq(Nat) /\ q \in Seq(Nat) BY <1>2
    <3>4. IsShifted(ord, d.ord, O, L, p, q) BY <2>1, <3>1, <3>2, <3>3, ShiftedIs
    <3> QED BY <3>4 DEF IsShifted
  <2> HIDE DEF ord
  <2>3. CASE x \in L
    <3>1. PICK y \in O : x = Shift(y, p, q) BY <2>3
    <3>2. ord[x] = d.ord[y] /\ d.ord[y] \in Seq(Nodes) BY <1>1, <2>2, <3>1 DEF DiskSound
    <3>3. x \in Seq(Slugs) BY <1>2, <2>1, <3>1, ShiftIs
    <3> QED BY <3>2, <3>3
  <2>4. CASE x \notin L BY <1>1, <1>11, <2>2, <2>4 DEF DiskSound
  <2> QED BY <2>3, <2>4
<1>12. IsFiniteSet(dirs)
  <2> DEFINE h == [x \in D |-> Shift(x, p, q)]
  <2>1. N = {h[x] : x \in D} OBVIOUS
  <2>2. IsFiniteSet(d.dirs) BY <1>1 DEF DiskSound
  <2>3. IsFiniteSet(D) /\ IsFiniteSet(d.dirs \ D) BY <2>2, FS_Subset, FS_Difference
  <2> HIDE DEF h, N, D
  <2>4. IsFiniteSet(N) BY <2>1, <2>3, ImageIsFinite
  <2> QED BY <2>3, <2>4, FS_Union
<1> HIDE DEF dirs, ord, M, K
<1>13. e.dirs = dirs /\ e.md = md /\ e.ord = ord /\ e = [dirs |-> e.dirs, md |-> e.md, ord |-> e.ord] OBVIOUS
<1>14. DiskSound(e)
  <2> HIDE DEF e
  <2>1. \A x \in e.dirs : IsFolder(x) /\ IsDir(e, Front(x)) BY <1>7
  <2>2. \A x \in DOMAIN e.md : IsFileName(x) /\ IsDir(e, Front(x)) /\ e.md[x] \in FileT BY <1>10, <1>13
  <2>3. \A x \in DOMAIN e.ord : x \in Seq(Slugs) /\ e.ord[x] \in Seq(Nodes) BY <1>11, <1>13
  <2>4. e.md = [x \in DOMAIN e.md |-> e.md[x]] /\ IsFiniteSet(e.dirs) /\ IsFiniteSet(DOMAIN e.md) BY <1>9, <1>12, <1>13
  <2> QED BY <1>13, <2>1, <2>2, <2>3, <2>4 DEF DiskSound
<1> SUFFICES ASSUME NEW v \in Rename(w, p, q) PROVE On(v, t) OBVIOUS
<1>15. CASE v \in Fails(w, "rename") BY <1>15, FailsIs
<1>16. CASE v \notin Fails(w, "rename")
  <2>1. v = [w EXCEPT !.d = e] BY <1>16 DEF Rename, dirs, md, ord, M
  <2> HIDE DEF e
  <2> QED BY <1>14, <2>1, OnDisk
<1> QED BY <1>15, <1>16

\* What is taken away from the disk leaves nothing without its folder.
LEMMA LessIsSound ==
    ASSUME NEW d, DiskSound(d), NEW M, NEW O, NEW D,
           \A x \in (d.dirs \ D) \union (DOMAIN d.md \ M) : Front(x) \notin D
    PROVE  DiskSound([dirs |-> d.dirs \ D, md |-> Restrict(d.md, DOMAIN d.md \ M),
                      ord |-> Restrict(d.ord, DOMAIN d.ord \ O)])
<1> DEFINE md == Restrict(d.md, DOMAIN d.md \ M)
           ord == Restrict(d.ord, DOMAIN d.ord \ O)
           dirs == d.dirs \ D
           e == [dirs |-> dirs, md |-> md, ord |-> ord]
<1>1. DOMAIN md = DOMAIN d.md \ M /\ md = [x \in DOMAIN md |-> md[x]] /\ \A x \in DOMAIN md : md[x] = d.md[x]
    BY DEF Restrict
<1>2. DOMAIN ord = DOMAIN d.ord \ O /\ \A x \in DOMAIN ord : ord[x] = d.ord[x] BY DEF Restrict
<1>3. IsFiniteSet(dirs) /\ IsFiniteSet(DOMAIN md)
  <2>1. IsFiniteSet(d.dirs) /\ IsFiniteSet(DOMAIN d.md) BY DEF DiskSound
  <2>2. dirs \subseteq d.dirs /\ DOMAIN md \subseteq DOMAIN d.md BY <1>1
  <2> HIDE DEF md, dirs
  <2> QED BY <2>1, <2>2, FS_Subset
<1> HIDE DEF md, ord
<1>4. e.dirs = dirs /\ e.md = md /\ e.ord = ord /\ e = [dirs |-> e.dirs, md |-> e.md, ord |-> e.ord] OBVIOUS
<1> HIDE DEF e
<1>5. \A x \in dirs \union DOMAIN md : IsDir(e, Front(x)) BY <1>1, <1>4 DEF IsDir, DiskSound
<1>6. \A x \in dirs : IsFolder(x) BY DEF DiskSound
<1>7. \A x \in DOMAIN md : IsFileName(x) /\ md[x] \in FileT BY <1>1 DEF DiskSound
<1>8. \A x \in DOMAIN ord : x \in Seq(Slugs) /\ ord[x] \in Seq(Nodes) BY <1>2 DEF DiskSound
<1> HIDE DEF dirs
<1>9. DiskSound(e) BY <1>1, <1>3, <1>4, <1>5, <1>6, <1>7, <1>8 DEF DiskSound
<1> QED BY <1>9 DEF e, dirs, md, ord

LEMMA KeptWhole ==
    ASSUME NEW d, DiskSound(d)
    PROVE  /\ d.dirs = d.dirs \ {} /\ d.md = Restrict(d.md, DOMAIN d.md \ {})
           /\ d = [dirs |-> d.dirs, md |-> d.md, ord |-> d.ord]
<1>1. d.md = [x \in DOMAIN d.md |-> d.md[x]] BY DEF DiskSound
<1>2. DOMAIN d.md \ {} = DOMAIN d.md OBVIOUS
<1>3. d.md = Restrict(d.md, DOMAIN d.md \ {}) BY <1>1, <1>2 DEF Restrict
<1> QED BY <1>3 DEF DiskSound

LEMMA FilesLess ==
    ASSUME NEW d, DiskSound(d), NEW M, NEW e, e = [d EXCEPT !.md = Restrict(@, DOMAIN @ \ M)]
    PROVE  DiskSound(e) /\ e.dirs = d.dirs /\ DOMAIN e.md = DOMAIN d.md \ M /\ e.ord = d.ord
<1> DEFINE md == Restrict(d.md, DOMAIN d.md \ M)
<1>1. e = [dirs |-> d.dirs, md |-> md, ord |-> d.ord]
  <2>1. d = [dirs |-> d.dirs, md |-> d.md, ord |-> d.ord] BY DEF DiskSound
  <2>2. e = [d EXCEPT !.md = md] OBVIOUS
  <2> HIDE DEF md
  <2> QED BY <2>1, <2>2, DiskFields
<1>2. DOMAIN md = DOMAIN d.md \ M /\ md = [x \in DOMAIN md |-> md[x]] /\ \A x \in DOMAIN md : md[x] = d.md[x]
    BY DEF Restrict
<1> HIDE DEF md
<1>3. e.dirs = d.dirs /\ e.md = md /\ e.ord = d.ord BY <1>1
<1>4. IsFiniteSet(DOMAIN md)
  <2>1. IsFiniteSet(DOMAIN d.md) BY DEF DiskSound
  <2>2. DOMAIN md \subseteq DOMAIN d.md BY <1>2
  <2> QED BY <2>1, <2>2, FS_Subset
<1>5. \A p : IsDir(e, p) = IsDir(d, p) BY <1>3 DEF IsDir
<1>6. e = [dirs |-> e.dirs, md |-> e.md, ord |-> e.ord] BY <1>1, <1>3
<1>7. \A x \in DOMAIN e.md : IsFileName(x) /\ IsDir(e, Front(x)) /\ e.md[x] \in FileT BY <1>2, <1>3, <1>5 DEF DiskSound
<1>8. \A x \in e.dirs : IsFolder(x) /\ IsDir(e, Front(x)) BY <1>3, <1>5 DEF DiskSound
<1>9. IsFiniteSet(e.dirs) /\ \A x \in DOMAIN e.ord : x \in Seq(Slugs) /\ e.ord[x] \in Seq(Nodes) BY <1>3 DEF DiskSound
<1>10. e.md = [x \in DOMAIN e.md |-> e.md[x]] /\ IsFiniteSet(DOMAIN e.md) BY <1>2, <1>3, <1>4
<1>11. DiskSound(e) BY <1>6, <1>7, <1>8, <1>9, <1>10 DEF DiskSound
<1> QED BY <1>2, <1>3, <1>11

LEMMA OrdersAre ==
    ASSUME NEW d, DiskSound(d), NEW ord, \A x \in DOMAIN ord : x \in Seq(Slugs) /\ ord[x] \in Seq(Nodes),
           NEW e, e = [d EXCEPT !.ord = ord]
    PROVE  DiskSound(e) /\ e.dirs = d.dirs /\ e.md = d.md
<1>1. e = [dirs |-> d.dirs, md |-> d.md, ord |-> ord]
  <2>1. d = [dirs |-> d.dirs, md |-> d.md, ord |-> d.ord] BY DEF DiskSound
  <2> QED BY <2>1, DiskFields
<1>2. e.dirs = d.dirs /\ e.md = d.md /\ e.ord = ord BY <1>1
<1>3. \A p : IsDir(e, p) = IsDir(d, p) BY <1>2 DEF IsDir
<1>4. e = [dirs |-> e.dirs, md |-> e.md, ord |-> e.ord] BY <1>1, <1>2
<1>5. \A x \in DOMAIN e.md : IsFileName(x) /\ IsDir(e, Front(x)) /\ e.md[x] \in FileT BY <1>2, <1>3 DEF DiskSound
<1>6. \A x \in e.dirs : IsFolder(x) /\ IsDir(e, Front(x)) BY <1>2, <1>3 DEF DiskSound
<1>7. e.md = [x \in DOMAIN e.md |-> e.md[x]] /\ IsFiniteSet(e.dirs) /\ IsFiniteSet(DOMAIN e.md) BY <1>2 DEF DiskSound
<1>8. DiskSound(e) BY <1>2, <1>4, <1>5, <1>6, <1>7 DEF DiskSound
<1> QED BY <1>2, <1>8

LEMMA RemoveFileIs ==
    ASSUME NEW w, NEW t, On(w, t), NEW p
    PROVE  \A v \in RemoveFile(w, p) : On(v, t)
<1> SUFFICES ASSUME NEW v \in RemoveFile(w, p) PROVE On(v, t) OBVIOUS
<1>1. CASE v \in Fails(w, "remove") BY <1>1, FailsIs
<1>2. CASE v \notin Fails(w, "remove")
  <2> DEFINE e == [w.d EXCEPT !.md = Restrict(@, DOMAIN @ \ {p})]
  <2>1. v = [w EXCEPT !.d = e] BY <1>2 DEF RemoveFile
  <2>2. DiskSound(e) BY FilesLess DEF On
  <2> HIDE DEF e
  <2> QED BY <2>1, <2>2, OnDisk
<1> QED BY <1>1, <1>2

LEMMA RemoveOrderIs ==
    ASSUME NEW w, NEW t, On(w, t), NEW p
    PROVE  \A v \in RemoveOrder(w, p) : On(v, t) /\ (v.ok => v.d.dirs = w.d.dirs /\ v.d.md = w.d.md)
<1> SUFFICES ASSUME NEW v \in RemoveOrder(w, p) PROVE On(v, t) /\ (v.ok => v.d.dirs = w.d.dirs /\ v.d.md = w.d.md)
    OBVIOUS
<1>1. CASE v \in Fails(w, "remove") BY <1>1, FailsIs
<1>2. CASE v = w BY <1>2
<1>3. CASE v = [w EXCEPT !.d.ord = Restrict(@, DOMAIN @ \ {p})]
  <2> DEFINE ord == Restrict(w.d.ord, DOMAIN w.d.ord \ {p})
             e == [w.d EXCEPT !.ord = ord]
  <2>1. v = [w EXCEPT !.d = e] BY <1>3
  <2>2. \A x \in DOMAIN ord : x \in Seq(Slugs) /\ ord[x] \in Seq(Nodes) BY DEF Restrict, On, DiskSound
  <2> HIDE DEF ord
  <2>3. DiskSound(e) /\ e.dirs = w.d.dirs /\ e.md = w.d.md BY <2>2, OrdersAre DEF On
  <2> HIDE DEF e
  <2> QED BY <2>1, <2>3, OnDisk
<1> QED BY <1>1, <1>2, <1>3 DEF RemoveOrder

\* An empty folder can be removed.
LEMMA RemoveDirIs ==
    ASSUME NEW w, NEW t, On(w, t), NEW p, \A x \in w.d.dirs \union DOMAIN w.d.md : Front(x) # p
    PROVE  \A v \in RemoveDir(w, p) : On(v, t)
<1> SUFFICES ASSUME NEW v \in RemoveDir(w, p) PROVE On(v, t) OBVIOUS
<1>1. CASE v \in Fails(w, "remove") BY <1>1, FailsIs
<1>2. CASE v \notin Fails(w, "remove")
  <2> DEFINE d == w.d
             e == [dirs |-> d.dirs \ {p}, md |-> d.md, ord |-> d.ord]
             b == [dirs |-> d.dirs \ {p}, md |-> d.md, ord |-> Restrict(d.ord, DOMAIN d.ord \ {})]
  <2>1. DiskSound(d) /\ d = [dirs |-> d.dirs, md |-> d.md, ord |-> d.ord] BY DEF On, DiskSound
  <2>2. v = [w EXCEPT !.d = [d EXCEPT !.dirs = d.dirs \ {p}]] BY <1>2 DEF RemoveDir
  <2>3. [d EXCEPT !.dirs = d.dirs \ {p}] = e BY <2>1, DiskFields
  <2>4. DiskSound(b)
    <3>1. d.md = Restrict(d.md, DOMAIN d.md \ {}) BY <2>1, KeptWhole
    <3>2. \A x \in (d.dirs \ {p}) \union (DOMAIN d.md \ {}) : Front(x) \notin {p} OBVIOUS
    <3> HIDE DEF d
    <3>3. DiskSound([dirs |-> d.dirs \ {p}, md |-> Restrict(d.md, DOMAIN d.md \ {}),
                     ord |-> Restrict(d.ord, DOMAIN d.ord \ {})])
        BY <2>1, <3>2, LessIsSound
    <3> QED BY <3>1, <3>3
  <2>5. DiskSound(e)
    <3> DEFINE ord == Restrict(d.ord, DOMAIN d.ord \ {})
    <3>1. \A x \in DOMAIN d.ord : x \in Seq(Slugs) /\ d.ord[x] \in Seq(Nodes) BY <2>1 DEF DiskSound
    <3> HIDE DEF ord
    <3>2. b = [dirs |-> d.dirs \ {p}, md |-> d.md, ord |-> ord] BY DEF ord
    <3>3. e = [b EXCEPT !.ord = d.ord] BY <3>2
    <3> HIDE DEF b, e
    <3> QED BY <2>4, <3>1, <3>3, OrdersAre
  <2> HIDE DEF e
  <2> QED BY <2>2, <2>3, <2>5, OnDisk
<1> QED BY <1>1, <1>2

LEMMA RenameFileIs ==
    ASSUME NEW w, NEW t, On(w, t), NEW p \in DOMAIN w.d.md, NEW q, IsFileName(q), IsDir(w.d, Front(q))
    PROVE  \A v \in RenameFile(w, p, q) :
             On(v, t) /\ (v.ok => v.d.dirs = w.d.dirs /\ DOMAIN v.d.md = (DOMAIN w.d.md \ {p}) \union {q})
<1> SUFFICES ASSUME NEW v \in RenameFile(w, p, q)
             PROVE  On(v, t) /\ (v.ok => v.d.dirs = w.d.dirs /\ DOMAIN v.d.md = (DOMAIN w.d.md \ {p}) \union {q})
    OBVIOUS
<1>1. CASE v \in Fails(w, "rename") BY <1>1, FailsIs
<1>2. CASE v \notin Fails(w, "rename")
  <2> DEFINE d == w.d
             e == [d EXCEPT !.md = Restrict(@, DOMAIN @ \ {p})]
             md == Put(e.md, q, d.md[p])
             b == [e EXCEPT !.md = md]
  <2>1. DiskSound(d) /\ d = [dirs |-> d.dirs, md |-> d.md, ord |-> d.ord] BY DEF On, DiskSound
  <2>2. /\ DiskSound(e) /\ e.dirs = d.dirs /\ DOMAIN e.md = DOMAIN d.md \ {p} /\ e.ord = d.ord
        /\ e = [dirs |-> e.dirs, md |-> e.md, ord |-> e.ord]
    <3>1. DiskSound(e) /\ e.dirs = d.dirs /\ DOMAIN e.md = DOMAIN d.md \ {p} /\ e.ord = d.ord
        BY <2>1, FilesLess
    <3> HIDE DEF e
    <3> QED BY <3>1 DEF DiskSound
  <2>3. v = [w EXCEPT !.d = b]
    <3> DEFINE less == Restrict(d.md, DOMAIN d.md \ {p})
               new == Put(less, q, d.md[p])
    <3>1. v = [w EXCEPT !.d = [d EXCEPT !.md = new]] BY <1>2 DEF RenameFile
    <3>2. e = [dirs |-> d.dirs, md |-> less, ord |-> d.ord]
      <4>1. e = [d EXCEPT !.md = less] OBVIOUS
      <4> HIDE DEF less, e
      <4> QED BY <2>1, <4>1, DiskFields
    <3> HIDE DEF e
    <3>3. e.md = less /\ e.dirs = d.dirs /\ e.ord = d.ord BY <3>2
    <3>4. md = new BY <3>3
    <3> HIDE DEF new, md
    <3>5. b = [dirs |-> e.dirs, md |-> md, ord |-> e.ord] BY <2>2, DiskFields
    <3>6. [d EXCEPT !.md = new] = [dirs |-> d.dirs, md |-> new, ord |-> d.ord] BY <2>1, DiskFields
    <3> QED BY <3>1, <3>3, <3>4, <3>5, <3>6
  <2>4. d.md[p] \in FileT BY <2>1 DEF DiskSound
  <2>5. DOMAIN md = DOMAIN e.md \union {q} BY DEF Put
  <2>6. IsDir(e, Front(q)) BY <2>2 DEF IsDir
  <2>7. DiskSound(b)
    <3> HIDE DEF e, d
    <3> QED BY <2>2, <2>4, <2>6, WrittenIsSound
  <2>8. b.dirs = e.dirs /\ b.md = md
    <3> HIDE DEF e, md
    <3>1. b = [dirs |-> e.dirs, md |-> md, ord |-> e.ord] BY <2>2, DiskFields
    <3> HIDE DEF b
    <3> QED BY <3>1
  <2> HIDE DEF b, e, md
  <2> QED BY <2>2, <2>3, <2>5, <2>7, <2>8, OnDisk
<1> QED BY <1>1, <1>2

LEMMA RemoveAllIs ==
    ASSUME NEW w, NEW t, On(w, t), NEW p \in w.d.dirs
    PROVE  \A v \in RemoveAll(w, p) : On(v, t)
<1> DEFINE d == w.d
           gone(M, O, D) == [dirs |-> d.dirs \ D, md |-> Restrict(d.md, DOMAIN d.md \ M),
                             ord |-> Restrict(d.ord, DOMAIN d.ord \ O)]
           M == {x \in DOMAIN d.md : Under(p, x)}
           O == {x \in DOMAIN d.ord : IsPrefix(p, x)}
           D == {x \in d.dirs : IsPrefix(p, x)}
<1>1. DiskSound(d) BY DEF On
<1>2. p \in Seq(Nat)
  <2>1. IsFolder(p) BY <1>1 DEF DiskSound
  <2> QED BY <2>1, NamesAre DEF IsFolder
<1>3. \A x \in d.dirs \union DOMAIN d.md : x \in Seq(Nat) /\ x # <<>>
    BY <1>1, NamesAre DEF DiskSound, IsFolder
<1>4. \A x \in (d.dirs \ D) \union (DOMAIN d.md \ M) : Front(x) \notin D
  <2>1. SUFFICES ASSUME NEW x \in (d.dirs \ D) \union (DOMAIN d.md \ M), Front(x) \in D PROVE FALSE OBVIOUS
  <2>2. x \in Seq(Nat) /\ x # <<>> BY <1>3
  <2>3. Under(p, x) BY <1>2, <2>1, <2>2, FrontBelow
  <2> QED BY <2>1, <2>3 DEF Under, IsStrictPrefix
<1>5. DiskSound(gone(M, O, D))
  <2> HIDE DEF M, O, D, d
  <2> QED BY <1>1, <1>4, LessIsSound
<1>6. ASSUME NEW N, NEW P, NEW E,
             \A x \in (M \ N) \union (D \ E) : Front(x) \notin E, E \subseteq D
      PROVE  DiskSound(gone(N, P, E))
  <2>1. \A x \in (d.dirs \ E) \union (DOMAIN d.md \ N) : Front(x) \notin E
    <3>1. SUFFICES ASSUME NEW x \in (d.dirs \ E) \union (DOMAIN d.md \ N), Front(x) \in E PROVE FALSE OBVIOUS
    <3>2. Front(x) \in D BY <1>6, <3>1
    <3>3. x \in D \union M BY <1>4, <3>1, <3>2
    <3>4. x \in (M \ N) \union (D \ E)
      <4>1. CASE x \in d.dirs \ E
        <5>1. x \in Seq(Nat) /\ x # <<>> BY <1>3, <4>1
        <5>2. Under(p, x) BY <1>2, <3>2, <5>1, FrontBelow
        <5>3. x \in D BY <4>1, <5>2 DEF Under, IsStrictPrefix
        <5> QED BY <4>1, <5>3
      <4>2. CASE x \in DOMAIN d.md \ N
        <5>1. x \in Seq(Nat) /\ x # <<>> BY <1>3, <4>2
        <5>2. Under(p, x) BY <1>2, <3>2, <5>1, FrontBelow
        <5>3. x \in M BY <4>2, <5>2
        <5> QED BY <4>2, <5>3
      <4> QED BY <3>1, <4>1, <4>2
    <3> QED BY <1>6, <3>1, <3>4
  <2> HIDE DEF d, M, O, D
  <2> QED BY <1>1, <2>1, LessIsSound
<1> SUFFICES ASSUME NEW v \in RemoveAll(w, p) PROVE On(v, t) OBVIOUS
<1>7. \/ v = [w EXCEPT !.d = gone(M, O, D)]
      \/ \E N, P, E : /\ \A x \in (M \ N) \union (D \ E) : Front(x) \notin E
                      /\ E \subseteq D
                      /\ v \in Fails([w EXCEPT !.d = gone(N, P, E)], "remove")
  <2>1. CASE v = [w EXCEPT !.d = gone(M, O, D)] BY <2>1
  <2>2. CASE v # [w EXCEPT !.d = gone(M, O, D)]
    <3>1. PICK r \in (SUBSET M) \X (SUBSET O) \X (SUBSET (D \ {p})) :
            /\ \A x \in (M \ r[1]) \union (D \ r[3]) : Front(x) \notin r[3]
            /\ v \in Fails([w EXCEPT !.d = gone(r[1], r[2], r[3])], "remove")
        BY <2>2 DEF RemoveAll
    <3>2. r[3] \subseteq D BY <3>1
    <3> HIDE DEF M, O, D, gone
    <3> QED BY <3>1, <3>2
  <2> QED BY <2>1, <2>2
<1> HIDE DEF M, O, D, gone
<1>8. CASE v = [w EXCEPT !.d = gone(M, O, D)] BY <1>5, <1>8, OnDisk
<1>9. ASSUME NEW N, NEW P, NEW E,
             \A x \in (M \ N) \union (D \ E) : Front(x) \notin E, E \subseteq D,
             v \in Fails([w EXCEPT !.d = gone(N, P, E)], "remove")
      PROVE  On(v, t)
  <2>1. DiskSound(gone(N, P, E)) BY <1>6, <1>9
  <2>2. On([w EXCEPT !.d = gone(N, P, E)], t) BY <2>1, OnDisk
  <2> QED BY <1>9, <2>2, FailsIs
<1> QED BY <1>7, <1>8, <1>9

\* No two nodes have one path, and what is below a node's path is below it.
LEMMA PathsDiffer ==
    ASSUME NEW t, WellFormed(t)
    PROVE  \A m, n \in Live(t) : PathOf(t, m) = PathOf(t, n) => m = n
<1> DEFINE P(n) == PathOf(t, n)
           S == {m \in t.nodes : \E n \in Live(t) : n # m /\ P(n) = P(m)}
<1>1. /\ P(Root) = <<>>
      /\ \A n \in t.nodes : P(n) = Append(P(t.parent[n]), t.slug[n])
      /\ \A n \in Live(t) : P(n) \in Seq(Slugs)
    BY PathsAre
<1>2. TreeType(t) /\ Rooted(t) /\ SlugsUnique(t) /\ Named(t) /\ t.nodes \subseteq Nodes BY Branches DEF TreeType
<1> HIDE DEF P
<1>3. \A n \in t.nodes : t.parent[n] \in Live(t) /\ t.slug[n] \in Slugs /\ P(n) # <<>>
  <2>1. SUFFICES ASSUME NEW n \in t.nodes PROVE t.parent[n] \in Live(t) /\ t.slug[n] \in Slugs /\ P(n) # <<>> OBVIOUS
  <2>2. t.parent[n] \in Live(t) /\ t.slug[n] \in Slugs BY <1>2 DEF Named
  <2>3. P(t.parent[n]) \in Seq(Slugs) BY <1>1, <2>2
  <2>4. Append(P(t.parent[n]), t.slug[n]) # <<>> BY <2>2, <2>3, AppendProperties
  <2> QED BY <1>1, <2>2, <2>4
<1>4. S = {}
  <2>1. SUFFICES ASSUME S # {} PROVE FALSE OBVIOUS
  <2>2. S \in SUBSET t.nodes OBVIOUS
  <2>3. PICK m \in S : t.parent[m] \notin S BY <1>2, <2>1, <2>2 DEF Rooted
  <2>4. PICK n \in Live(t) : n # m /\ P(n) = P(m) OBVIOUS
  <2>5. m \in t.nodes OBVIOUS
  <2>6. n \in t.nodes BY <1>1, <1>3, <2>4, <2>5 DEF Live
  <2>7. Append(P(t.parent[m]), t.slug[m]) = Append(P(t.parent[n]), t.slug[n]) BY <1>1, <2>4, <2>5, <2>6
  <2>8. P(t.parent[m]) = P(t.parent[n]) /\ t.slug[m] = t.slug[n]
    <3>1. P(t.parent[m]) \in Seq(Slugs) /\ P(t.parent[n]) \in Seq(Slugs) BY <1>1, <1>3, <2>5, <2>6
    <3>2. t.slug[m] \in Slugs /\ t.slug[n] \in Slugs BY <1>3, <2>5, <2>6
    <3> QED BY <2>7, <3>1, <3>2, AppendInjective
  <2>9. t.parent[m] # t.parent[n] BY <1>2, <2>4, <2>5, <2>6, <2>8 DEF SlugsUnique
  <2>10. t.parent[m] \in t.nodes
    <3>1. SUFFICES ASSUME t.parent[m] = Root PROVE FALSE BY <1>3, <2>5 DEF Live
    <3>2. t.parent[n] \in t.nodes BY <1>3, <2>6, <2>9, <3>1 DEF Live
    <3> QED BY <1>1, <1>3, <2>8, <3>1, <3>2
  <2> QED BY <1>3, <2>3, <2>6, <2>8, <2>9, <2>10
<1>5. ASSUME NEW m \in Live(t), NEW n \in Live(t), P(m) = P(n), m # n PROVE FALSE
  <2>1. m \notin t.nodes /\ n \notin t.nodes BY <1>4, <1>5
  <2> QED BY <1>5, <2>1 DEF Live
<1> QED BY <1>5 DEF P

LEMMA PathsBelow ==
    ASSUME NEW t, WellFormed(t), NEW n \in t.nodes
    PROVE  \A m \in Live(t) : IsPrefix(PathOf(t, n), PathOf(t, m)) => m \in Subtree(t, n)
<1> DEFINE P(m) == PathOf(t, m)
           S == {m \in t.nodes : IsPrefix(P(n), P(m)) /\ m \notin Subtree(t, n)}
<1>1. /\ P(Root) = <<>>
      /\ \A m \in t.nodes : P(m) = Append(P(t.parent[m]), t.slug[m])
      /\ \A m \in Live(t) : P(m) \in Seq(Slugs)
      /\ \A m, k \in Live(t) : P(m) = P(k) => m = k
    BY PathsAre, PathsDiffer
<1>2. TreeType(t) /\ Rooted(t) /\ Named(t) BY Branches
<1>3. /\ n \in Subtree(t, n) /\ \A m \in t.nodes : t.parent[m] \in Subtree(t, n) => m \in Subtree(t, n)
    BY <1>2, Descendants
<1> HIDE DEF P
<1>4. P(n) # <<>> BY <1>1, NodesAssumption, <1>2 DEF Live, TreeType
<1>5. ~IsPrefix(P(n), <<>>)
  <2>1. Len(P(n)) # 0 /\ Len(P(n)) \in Nat BY <1>1, <1>4, EmptySeq, LenProperties DEF Live
  <2>2. Len(<<>>) = 0 OBVIOUS
  <2> QED BY <2>1, <2>2 DEF IsPrefix
<1>6. S = {}
  <2>1. SUFFICES ASSUME S # {} PROVE FALSE OBVIOUS
  <2>2. S \in SUBSET t.nodes OBVIOUS
  <2>3. PICK m \in S : t.parent[m] \notin S BY <1>2, <2>1, <2>2 DEF Rooted
  <2>4. m \in t.nodes /\ IsPrefix(P(n), P(m)) /\ m \notin Subtree(t, n) OBVIOUS
  <2>5. t.parent[m] \in Live(t) /\ t.slug[m] \in Slugs BY <1>2, <2>4 DEF Named
  <2> DEFINE f == P(t.parent[m])
  <2>6. f \in Seq(Slugs) /\ P(m) = Append(f, t.slug[m]) /\ P(n) \in Seq(Slugs) /\ P(m) \in Seq(Slugs)
      BY <1>1, <2>4, <2>5 DEF Live
  <2> HIDE DEF f
  <2>7. Front(P(m)) = f /\ P(m) # <<>> BY <2>6, EndsOfAppend
  <2>8. P(n) # P(m) BY <1>1, <1>3, <2>4 DEF Live
  <2>9. Under(P(n), P(m)) BY <2>4, <2>8 DEF Under, IsStrictPrefix
  <2>10. IsPrefix(P(n), f) BY <2>6, <2>7, <2>9, FrontBelow
  <2>11. t.parent[m] # Root BY <1>1, <1>5, <2>10 DEF f
  <2>12. t.parent[m] \in t.nodes BY <2>5, <2>11 DEF Live
  <2>13. t.parent[m] \in Subtree(t, n) BY <2>3, <2>10, <2>12 DEF f
  <2> QED BY <1>3, <2>4, <2>13
<1>7. ASSUME NEW m \in Live(t), IsPrefix(P(n), P(m)) PROVE m \in Subtree(t, n)
  <2>1. m # Root BY <1>1, <1>5, <1>7
  <2>2. m \in t.nodes BY <2>1 DEF Live
  <2> QED BY <1>6, <1>7, <2>2
<1> QED BY <1>7 DEF P

-----------------------------------------------------------------------------
(* The NodeStore: its operations leave the disk sound, and the tree as it is *)
(* but for the kind that ConvertNode sets.                                   *)

LEMMA OnIs ==
    ASSUME NEW w, NEW t, On(w, t)
    PROVE  w.t = t /\ DiskSound(w.d)
BY DEF On

LEMMA NodePaths ==
    ASSUME NEW t, WellFormed(t), NEW n \in t.nodes
    PROVE  /\ IsFolder(PathOf(t, n)) /\ IsFileName(PathOf(t, n)) /\ IsFileName(ContentPath(t, n))
           /\ IsFileName(Append(PathOf(t, n), IndexFile)) /\ Front(Append(PathOf(t, n), IndexFile)) = PathOf(t, n)
           /\ Front(PathOf(t, n)) = PathOf(t, t.parent[n]) /\ n \in Nodes /\ t.parent[n] \in Live(t)
           /\ t.slug[n] \in Slugs
<1>1. Named(t) /\ n \in Nodes BY Branches DEF TreeType
<1>2. t.parent[n] \in Live(t) /\ t.slug[n] \in Slugs BY <1>1 DEF Named
<1>3. PathOf(t, n) = Append(PathOf(t, t.parent[n]), t.slug[n]) /\ PathOf(t, t.parent[n]) \in Seq(Slugs)
      /\ PathOf(t, n) \in Seq(Slugs)
    BY <1>2, PathsAre DEF Live
<1>4. IsFolder(PathOf(t, n)) /\ Front(PathOf(t, n)) = PathOf(t, t.parent[n]) BY <1>3, EndsOfAppend DEF IsFolder
<1>5. /\ IsFileName(PathOf(t, n)) /\ IsFileName(Append(PathOf(t, n), IndexFile))
      /\ Front(Append(PathOf(t, n), IndexFile)) = PathOf(t, n)
    BY <1>4, FoldersAreFileNames
<1>6. IsFileName(ContentPath(t, n)) BY <1>5 DEF ContentPath
<1> QED BY <1>1, <1>2, <1>4, <1>5, <1>6

LEMMA SaveChildOrderIs ==
    ASSUME NEW w, NEW t, On(w, t), WellFormed(t), NEW p \in Live(t)
    PROVE  \A v \in SaveChildOrder(w, p) : On(v, t)
<1> DEFINE path == PathOf(t, p)
<1>1. w.t = t BY OnIs
<1>2. path \in Seq(Slugs) BY PathsAre
<1>3. t.kids[p] \in Seq(Nodes)
  <2>1. TreeType(t) BY Branches
  <2>2. p \in Places BY <2>1 DEF TreeType, Live, Places
  <2> QED BY <2>1, <2>2 DEF TreeType
<1> HIDE DEF path
<1> SUFFICES ASSUME NEW v \in SaveChildOrder(w, p) PROVE On(v, t) OBVIOUS
<1>4. CASE v \in Refuses(w) BY <1>4, FailsIs
<1>5. CASE v \notin Refuses(w)
  <2>1. PICK a \in MkdirAll(w, path) :
          v \in IF a.ok THEN {[a EXCEPT !.d.ord = Put(@, path, a.t.kids[p])]} \union Fails(a, "order") ELSE {a}
      BY <1>1, <1>5 DEF SaveChildOrder, path
  <2>2. On(a, t) /\ a.t = t BY <1>2, MkdirIs, OnIs
  <2>3. CASE v = a BY <2>2, <2>3
  <2>4. CASE v \in Fails(a, "order") BY <2>2, <2>4, FailsIs
  <2>5. CASE v = [a EXCEPT !.d.ord = Put(@, path, a.t.kids[p])]
    <3> DEFINE ord == Put(a.d.ord, path, a.t.kids[p])
               e == [a.d EXCEPT !.ord = ord]
    <3>1. v = [a EXCEPT !.d = e] BY <2>5
    <3>2. \A x \in DOMAIN ord : x \in Seq(Slugs) /\ ord[x] \in Seq(Nodes)
      <4>1. \A x \in DOMAIN a.d.ord : x \in Seq(Slugs) /\ a.d.ord[x] \in Seq(Nodes) BY <2>2, OnIs DEF DiskSound
      <4>2. /\ DOMAIN ord = DOMAIN a.d.ord \union {path} /\ ord[path] = a.t.kids[p]
            /\ \A x \in DOMAIN a.d.ord : x # path => ord[x] = a.d.ord[x]
          BY DEF Put
      <4> HIDE DEF ord
      <4> QED BY <1>2, <1>3, <2>2, <4>1, <4>2
    <3>3. DiskSound(a.d) BY <2>2, OnIs
    <3> HIDE DEF ord
    <3>4. DiskSound(e) BY <3>2, <3>3, OrdersAre
    <3> HIDE DEF e
    <3> QED BY <2>2, <3>1, <3>4, OnDisk
  <2> QED BY <2>1, <2>3, <2>4, <2>5
<1> QED BY <1>4, <1>5

LEMMA SyncedIs ==
    ASSUME NEW w, NEW t, On(w, t), TreeType(t), NEW n \in t.nodes, NEW x, NEW v \in Nat, NEW body \in Nat
    PROVE  /\ SyncedAt(w, x, n) \in FileT
           /\ [SyncedAt(w, x, n) EXCEPT !.body = body] \in FileT
           /\ File(n, v, 0, FALSE) \in FileT
<1>1. w.t = t /\ DiskSound(w.d) BY OnIs
<1>2. n \in Nodes /\ t.ver[n] \in Nat BY DEF TreeType
<1>3. BodyAt(w, x) \in Nat /\ PinAt(w, x) \in BOOLEAN
  <2>1. CASE x \in DOMAIN w.d.md
    <3>1. w.d.md[x] \in FileT BY <1>1, <2>1 DEF DiskSound
    <3>2. BodyAt(w, x) = w.d.md[x].body /\ PinAt(w, x) = w.d.md[x].pin BY <2>1 DEF BodyAt, PinAt
    <3>3. w.d.md[x].body \in Nat BY <3>1 DEF FileT
    <3>4. w.d.md[x].pin \in BOOLEAN BY <3>1 DEF FileT
    <3> QED BY <3>2, <3>3, <3>4, Zenon
  <2>2. CASE x \notin DOMAIN w.d.md
    <3>1. BodyAt(w, x) = 0 BY <2>2 DEF BodyAt
    <3>2. PinAt(w, x) = FALSE BY <2>2 DEF PinAt
    <3>3. BodyAt(w, x) \in Nat BY <3>1
    <3>4. PinAt(w, x) \in BOOLEAN BY <3>2, Zenon
    <3> QED BY <3>3, <3>4
  <2> QED BY <2>1, <2>2
<1>4. SyncedAt(w, x, n) = [id |-> n, ver |-> t.ver[n], body |-> BodyAt(w, x), pin |-> PinAt(w, x)]
    BY <1>1 DEF SyncedAt, File
<1>5. SyncedAt(w, x, n) \in FileT BY <1>2, <1>3, <1>4 DEF FileT
<1>6. [SyncedAt(w, x, n) EXCEPT !.body = body] \in FileT BY <1>5 DEF FileT
<1>7. File(n, v, 0, FALSE) \in FileT BY <1>2 DEF FileT, File
<1> QED BY <1>5, <1>6, <1>7

LEMMA MkdirFiles ==
    ASSUME NEW w, NEW t, On(w, t), NEW p, NEW a \in MkdirAll(w, p), a.ok
    PROVE  a.d.md = w.d.md
<1>1. a \notin Fails(w, "mkdir") BY FailsIs
<1>2. CASE a = w BY <1>2
<1>3. CASE a = WithDir(w, p)
  <2> DEFINE dirs == w.d.dirs \union {SubSeq(p, 1, i) : i \in 1 .. Len(p)}
             e == [w.d EXCEPT !.dirs = dirs]
  <2>1. w.d = [dirs |-> w.d.dirs, md |-> w.d.md, ord |-> w.d.ord] BY DEF On, DiskSound
  <2>2. a = [w EXCEPT !.d = e] BY <1>3 DEF WithDir
  <2> HIDE DEF dirs
  <2>3. e = [dirs |-> dirs, md |-> w.d.md, ord |-> w.d.ord] BY <2>1, DiskFields
  <2> HIDE DEF e
  <2>4. a = [t |-> t, d |-> e, f |-> w.f, ok |-> w.ok] BY <2>2, WorldFields
  <2>5. a.d = e BY <2>4
  <2> QED BY <2>3, <2>5
<1> QED BY <1>1, <1>2, <1>3 DEF MkdirAll

LEMMA EnsureIndexIs ==
    ASSUME NEW w, NEW t, On(w, t), WellFormed(t), NEW n \in t.nodes
    PROVE  \A v \in EnsureIndex(w, n) : On(v, t)
<1> DEFINE p == PathOf(t, n)
           x == Append(p, IndexFile)
<1>1. w.t = t /\ TreeType(t) BY OnIs, Branches
<1>2. p \in Seq(Slugs) /\ IsFileName(x) BY NodePaths DEF IsFolder
<1> SUFFICES ASSUME NEW v \in EnsureIndex(w, n) PROVE On(v, t) OBVIOUS
<1>3. PICK a \in MkdirAll(w, p) : v \in IF a.ok THEN Write(a, x, SyncedAt(a, x, n)) ELSE {a}
    BY <1>1 DEF EnsureIndex
<1>4. On(a, t) BY <1>2, MkdirIs
<1>5. SyncedAt(a, x, n) \in FileT BY <1>1, <1>4, SyncedIs
<1> HIDE DEF x, p
<1>6. CASE v = a BY <1>4, <1>6
<1>7. CASE v \in Write(a, x, SyncedAt(a, x, n)) BY <1>2, <1>4, <1>5, <1>7, WriteIs
<1> QED BY <1>3, <1>6, <1>7

\* A failed step leaves the page a page; once the kind is set, the tree is that
\* of AsSection whether or not the index file follows.
LEMMA ConvertToSectionIs ==
    ASSUME NEW w, NEW t, On(w, t), WellFormed(t), NEW n \in t.nodes
    PROVE  \A v \in ConvertToSection(w, n) : (On(v, t) /\ ~v.ok) \/ On(v, AsSection(t, n))
<1> DEFINE p == PathOf(t, n)
           x == Append(p, IndexFile)
           AsIndex(a) == IF p \in DOMAIN w.d.md THEN RenameFile(a, p, x) ELSE {a}
           Section(b) == [b EXCEPT !.t = AsSection(@, n)]
           u == AsSection(t, n)
<1>1. w.t = t BY OnIs
<1>2. p \in Seq(Slugs) /\ IsFileName(x) /\ Front(x) = p BY NodePaths DEF IsFolder
<1>3. WellFormed(u) /\ n \in u.nodes
  <2>1. n \in Live(t) /\ TreeType(t) BY Branches DEF Live
  <2> QED BY <2>1, SectionKeeps, SectionFields
<1> SUFFICES ASSUME NEW v \in ConvertToSection(w, n) PROVE (On(v, t) /\ ~v.ok) \/ On(v, u) OBVIOUS
<1>4. PICK a \in MkdirAll(w, p) :
        v \in IF a.ok THEN UNION {IF b.ok THEN EnsureIndex(Section(b), n) ELSE {b} : b \in AsIndex(a)} ELSE {a}
    BY <1>1 DEF ConvertToSection
<1>5. On(a, t) /\ (a.ok => IsDir(a.d, p)) BY <1>2, MkdirIs
<1> HIDE DEF p, x, u
<1>6. CASE ~a.ok BY <1>4, <1>5, <1>6
<1>7. CASE a.ok
  <2>1. PICK b \in AsIndex(a) : v \in IF b.ok THEN EnsureIndex(Section(b), n) ELSE {b} BY <1>4, <1>7
  <2>2. On(b, t)
    <3>1. CASE b = a BY <1>5, <3>1
    <3>2. CASE b # a /\ p \in DOMAIN a.d.md
      <4>1. b \in RenameFile(a, p, x) BY <3>2
      <4> QED BY <1>2, <1>5, <1>7, <3>2, <4>1, RenameFileIs
    <3>3. CASE b # a /\ p \notin DOMAIN a.d.md
      <4>1. p \in DOMAIN w.d.md BY <3>3
      <4> QED BY <1>4, <1>7, <3>3, <4>1, MkdirFiles
    <3> QED BY <3>1, <3>2, <3>3
  <2>3. On(Section(b), u) BY <2>2, OnTree DEF u
  <2> HIDE DEF Section
  <2>4. CASE ~b.ok BY <2>1, <2>2, <2>4
  <2>5. CASE b.ok BY <1>3, <2>1, <2>3, <2>5, EnsureIndexIs
  <2> QED BY <2>4, <2>5
<1> QED BY <1>6, <1>7

LEMMA ConvertToPageIs ==
    ASSUME NEW w, NEW t, On(w, t), WellFormed(t), NEW n \in t.nodes
    PROVE  \A v \in ConvertToPage(w, n) : On(v, t)
<1> DEFINE p == PathOf(w.t, n)
           x == Append(p, IndexFile)
           file == File(n, w.t.ver[n], 0, FALSE)
           AsPage == IF x \in DOMAIN w.d.md THEN RenameFile(w, x, p) ELSE Write(w, p, file)
           Bare(a) == \A y \in a.d.dirs \union DOMAIN a.d.md : Front(y) # p
<1>1. w.t = t /\ DiskSound(w.d) /\ TreeType(t) BY OnIs, Branches
<1>2. p \in Seq(Slugs) /\ p # <<>> /\ IsFileName(p) /\ IsFileName(x) /\ Front(x) = p /\ n \in Nodes
    BY <1>1, NodePaths DEF IsFolder
<1>3. file \in FileT
  <2>1. t.ver[n] \in Nat BY <1>1, <1>2 DEF TreeType
  <2> QED BY <1>1, <2>1, SyncedIs
<1> SUFFICES ASSUME NEW v \in ConvertToPage(w, n) PROVE On(v, t) OBVIOUS
<1>4. CASE v = w BY <1>4
<1>5. CASE v \in Refuses(w) BY <1>5, FailsIs
<1>6. CASE v # w /\ v \notin Refuses(w)
  <2>1. /\ p \in w.d.dirs
        /\ \A q \in w.d.dirs \union DOMAIN w.d.md : ~(Under(p, q) /\ q # x)
        /\ v \in UNION {IF a.ok THEN UNION {IF b.ok THEN RemoveDir(b, p) ELSE {b} : b \in RemoveOrder(a, p)}
                        ELSE {a} : a \in AsPage}
    <3>1. ConvertToPage(w, n) =
            IF p \notin w.d.dirs THEN {w}
            ELSE IF \E q \in w.d.dirs \union DOMAIN w.d.md : Under(p, q) /\ q # x THEN Refuses(w)
            ELSE UNION {IF a.ok THEN UNION {IF b.ok THEN RemoveDir(b, p) ELSE {b} : b \in RemoveOrder(a, p)}
                        ELSE {a} : a \in AsPage}
        BY DEF ConvertToPage
    <3> HIDE DEF AsPage, x, p
    <3> QED BY <1>6, <3>1
  <2>2. \A q \in w.d.dirs \union DOMAIN w.d.md : q \in Seq(Nat) /\ q # <<>>
      BY <1>1, NamesAre DEF DiskSound, IsFolder
  <2>3. \A q \in w.d.dirs \union DOMAIN w.d.md : q # x => Front(q) # p
    <3>1. SUFFICES ASSUME NEW q \in w.d.dirs \union DOMAIN w.d.md, q # x, Front(q) = p PROVE FALSE OBVIOUS
    <3>2. p \in Seq(Nat) BY <1>2, NamesAre
    <3>3. IsPrefix(p, p)
      <4>1. Len(p) \in Nat BY <3>2, LenProperties
      <4> QED BY <4>1 DEF IsPrefix
    <3>4. Under(p, q) BY <2>2, <3>1, <3>2, <3>3, FrontBelow
    <3> QED BY <2>1, <3>1, <3>4
  <2>4. Front(p) # p
    <3>1. ~IsPrefix(p, Front(p)) BY <1>2, FrontBelow
    <3>2. Len(p) \in Nat BY <1>2, LenProperties
    <3>3. IsPrefix(p, p) BY <3>2 DEF IsPrefix
    <3> QED BY <3>1, <3>3
  <2>5. IsDir(w.d, Front(p)) BY <1>1, <2>1 DEF DiskSound
  <2>6. x \notin w.d.dirs
    <3>1. SUFFICES ASSUME x \in w.d.dirs PROVE FALSE OBVIOUS
    <3>2. IsFolder(x) BY <1>1, <3>1 DEF DiskSound
    <3>3. Last(x) \in Slugs BY <3>2, FoldersAreFileNames
    <3>4. Last(x) = IndexFile BY <1>2, EndsOfAppend
    <3> QED BY <3>3, <3>4, DiskAssumption DEF IndexFile
  <2> HIDE DEF x, p, file
  <2>7. PICK a \in AsPage :
          v \in IF a.ok THEN UNION {IF b.ok THEN RemoveDir(b, p) ELSE {b} : b \in RemoveOrder(a, p)} ELSE {a}
      BY <2>1
  <2>8. On(a, t) /\ (a.ok => Bare(a))
    <3>1. CASE x \in DOMAIN w.d.md
      <4>1. a \in RenameFile(w, x, p) BY <3>1
      <4>2. On(a, t) /\ (a.ok => a.d.dirs = w.d.dirs /\ DOMAIN a.d.md = (DOMAIN w.d.md \ {x}) \union {p})
          BY <1>2, <2>5, <3>1, <4>1, RenameFileIs
      <4> QED BY <2>3, <2>4, <2>6, <4>2
    <3>2. CASE x \notin DOMAIN w.d.md
      <4>1. a \in Write(w, p, file) BY <3>2
      <4>2. On(a, t) /\ (a.ok => a.d.dirs = w.d.dirs /\ DOMAIN a.d.md = DOMAIN w.d.md \union {p})
          BY <1>2, <1>3, <4>1, WriteIs
      <4> QED BY <2>3, <2>4, <2>6, <3>2, <4>2
    <3> QED BY <3>1, <3>2
  <2> HIDE DEF AsPage
  <2>9. CASE ~a.ok BY <2>7, <2>8, <2>9
  <2>10. CASE a.ok
    <3>1. PICK b \in RemoveOrder(a, p) : v \in IF b.ok THEN RemoveDir(b, p) ELSE {b} BY <2>7, <2>10
    <3>2. On(b, t) /\ (b.ok => b.d.dirs = a.d.dirs /\ b.d.md = a.d.md) BY <2>8, RemoveOrderIs
    <3>3. CASE ~b.ok BY <3>1, <3>2, <3>3
    <3>4. CASE b.ok
      <4>1. \A y \in b.d.dirs \union DOMAIN b.d.md : Front(y) # p BY <2>8, <2>10, <3>2, <3>4
      <4> QED BY <3>1, <3>2, <3>4, <4>1, RemoveDirIs
    <3> QED BY <3>3, <3>4
  <2> QED BY <2>9, <2>10
<1> QED BY <1>4, <1>5, <1>6

LEMMA CreateOnDiskIs ==
    ASSUME NEW w, NEW t, On(w, t), WellFormed(t), NEW n \in Nodes, NEW p \in Live(t), NEW s \in Slugs, NEW k,
           NEW v \in Nat
    PROVE  \A r \in CreateOnDisk(w, n, p, s, k, v) : On(r, t)
<1> DEFINE folder == PathOf(w.t, p)
           path == Append(folder, s)
           file == File(n, v, 0, FALSE)
           Make(a) == IF k = "page" THEN Write(a, path, file)
                      ELSE UNION {IF b.ok THEN Write(b, Append(path, IndexFile), file) ELSE {b} :
                                  b \in MkdirAll(a, path)}
<1>1. w.t = t BY OnIs
<1>2. folder \in Seq(Slugs) BY <1>1, PathsAre
<1>3. path \in Seq(Slugs) /\ path # <<>> BY <1>2, AppendProperties
<1>4. IsFileName(path) /\ IsFileName(Append(path, IndexFile)) BY <1>3, FoldersAreFileNames DEF IsFolder
<1>5. file \in FileT BY DEF File, FileT
<1> SUFFICES ASSUME NEW r \in CreateOnDisk(w, n, p, s, k, v) PROVE On(r, t) OBVIOUS
<1>6. PICK a \in MkdirAll(w, folder) :
        r \in IF ~a.ok THEN {a} ELSE IF Exists(a.d, path) THEN Refuses(a) ELSE Make(a)
    BY DEF CreateOnDisk
<1> HIDE DEF path, folder, file
<1>7. On(a, t) BY <1>2, MkdirIs
<1>8. CASE r = a BY <1>7, <1>8
<1>9. CASE r \in Refuses(a) BY <1>7, <1>9, FailsIs
<1>10. CASE r \in Make(a)
  <2>1. CASE k = "page" BY <1>4, <1>5, <1>7, <1>10, <2>1, WriteIs
  <2>2. CASE k # "page"
    <3>1. PICK b \in MkdirAll(a, path) : r \in IF b.ok THEN Write(b, Append(path, IndexFile), file) ELSE {b}
        BY <1>10, <2>2
    <3>2. On(b, t) BY <1>3, <1>7, MkdirIs
    <3>3. CASE r = b BY <3>2, <3>3
    <3>4. CASE r \in Write(b, Append(path, IndexFile), file) BY <1>4, <1>5, <3>2, <3>4, WriteIs
    <3> QED BY <3>1, <3>3, <3>4
  <2> QED BY <2>1, <2>2
<1> QED BY <1>6, <1>8, <1>9, <1>10

LEMMA DeleteOnDiskIs ==
    ASSUME NEW w, NEW t, On(w, t), NEW n
    PROVE  \A v \in DeleteOnDisk(w, n) : On(v, t)
<1> SUFFICES ASSUME NEW v \in DeleteOnDisk(w, n) PROVE On(v, t) OBVIOUS
<1> DEFINE p == PathOf(w.t, n)
<1>1. CASE v \in Refuses(w) BY <1>1, FailsIs
<1>2. CASE p \in w.d.dirs /\ v \in RemoveAll(w, p) BY <1>2, RemoveAllIs
<1>3. CASE v \in RemoveFile(w, p) BY <1>3, RemoveFileIs
<1> HIDE DEF p
<1> QED BY <1>1, <1>2, <1>3 DEF DeleteOnDisk, p

LEMMA RenameKindIs ==
    ASSUME NEW w, NEW t, On(w, t), WellFormed(t), NEW n \in t.nodes, InPlace(w, n),
           NEW q, IsFolder(q), IsDir(w.d, Front(q)), ~IsPrefix(PathOf(t, n), Front(q))
    PROVE  \A v \in RenameKind(w, n, q) : On(v, t)
<1> DEFINE p == PathOf(w.t, n)
<1>1. w.t = t BY OnIs
<1>2. CASE w.t.kind[n] = "section"
  <2>1. p \in w.d.dirs BY <1>2 DEF InPlace
  <2>2. RenameKind(w, n, q) = Rename(w, p, q) BY <1>2 DEF RenameKind
  <2>3. ~IsPrefix(p, Front(q)) BY <1>1
  <2> HIDE DEF p
  <2> QED BY <2>1, <2>2, <2>3, RenameIs
<1>3. CASE w.t.kind[n] # "section"
  <2>1. p \in DOMAIN w.d.md BY <1>3 DEF InPlace
  <2>2. RenameKind(w, n, q) = RenameFile(w, p, q) BY <1>3 DEF RenameKind
  <2>3. IsFileName(q) BY FoldersAreFileNames
  <2> HIDE DEF p
  <2> QED BY <2>1, <2>2, <2>3, RenameFileIs
<1> QED BY <1>2, <1>3

LEMMA RenameNodeIs ==
    ASSUME NEW w, NEW t, On(w, t), WellFormed(t), NEW n \in t.nodes, NEW s \in Slugs
    PROVE  \A v \in RenameNode(w, n, s) : On(v, t)
<1> DEFINE p == PathOf(w.t, n)
           q == Append(Front(p), s)
<1>1. w.t = t /\ DiskSound(w.d) BY OnIs
<1>2. IsFolder(p) /\ p \in Seq(Slugs) /\ p # <<>> BY <1>1, NodePaths DEF IsFolder
<1>3. Front(p) \in Seq(Slugs) BY <1>2, FoldersAreFileNames
<1> HIDE DEF p
<1>4. IsFolder(q) /\ Front(q) = Front(p) BY <1>3, AppendProperties, EndsOfAppend DEF IsFolder
<1>5. ~IsPrefix(p, Front(p)) BY <1>2, FrontBelow
<1> SUFFICES ASSUME NEW v \in RenameNode(w, n, s) PROVE On(v, t) OBVIOUS
<1>6. CASE v \in Refuses(w) BY <1>6, FailsIs
<1>7. CASE v \notin Refuses(w)
  <2>1. InPlace(w, n) /\ v \in RenameKind(w, n, q) BY <1>7 DEF RenameNode, p
  <2>2. p \in w.d.dirs \union DOMAIN w.d.md BY <2>1 DEF InPlace, p
  <2>3. IsDir(w.d, Front(p)) BY <1>1, <2>2 DEF DiskSound
  <2>4. ~IsPrefix(PathOf(t, n), Front(q)) BY <1>1, <1>4, <1>5 DEF p
  <2> HIDE DEF q
  <2> QED BY <1>4, <2>1, <2>3, <2>4, RenameKindIs
<1> QED BY <1>6, <1>7

\* A page is not moved to where it is: its own file or folder is in the way.
LEMMA MoveOnDiskIs ==
    ASSUME NEW w, NEW t, On(w, t), WellFormed(t), NEW n \in t.nodes, NEW p \in Live(t), p \notin Subtree(t, n)
    PROVE  \A v \in MoveOnDisk(w, n, p) : On(v, t) /\ (p = t.parent[n] => ~v.ok)
<1> DEFINE f == PathOf(w.t, p)
           q == Append(PathOf(w.t, p), w.t.slug[n])
<1>1. w.t = t BY OnIs
<1>2. f \in Seq(Slugs) /\ w.t.slug[n] \in Slugs BY <1>1, PathsAre, NodePaths
<1>3. IsFolder(q) /\ Front(q) = f BY <1>2, AppendProperties, EndsOfAppend DEF IsFolder
<1>4. ~IsPrefix(PathOf(t, n), f) BY <1>1, PathsBelow
<1>5. p = t.parent[n] => q = PathOf(t, n) BY <1>1, PathsAre
<1> SUFFICES ASSUME NEW v \in MoveOnDisk(w, n, p) PROVE On(v, t) /\ (p = t.parent[n] => ~v.ok) OBVIOUS
<1>6. PICK a \in MkdirAll(w, f) :
        v \in IF ~a.ok THEN {a} ELSE IF Exists(a.d, q) \/ ~InPlace(a, n) THEN Refuses(a) ELSE RenameKind(a, n, q)
    BY DEF MoveOnDisk
<1> HIDE DEF f, q
<1>7. On(a, t) /\ (a.ok => IsDir(a.d, f)) BY <1>2, MkdirIs
<1>8. CASE ~a.ok BY <1>6, <1>7, <1>8
<1>9. CASE v \in Refuses(a) BY <1>7, <1>9, FailsIs
<1>10. CASE a.ok /\ ~Exists(a.d, q) /\ InPlace(a, n) /\ v \in RenameKind(a, n, q)
  <2>1. On(v, t) BY <1>3, <1>4, <1>7, <1>10, RenameKindIs
  <2>2. ASSUME p = t.parent[n] PROVE FALSE
    <3>1. a.t = t BY <1>7, OnIs
    <3>2. q \in a.d.dirs \union DOMAIN a.d.md BY <1>5, <1>10, <2>2, <3>1 DEF InPlace
    <3> QED BY <1>10, <3>2 DEF Exists
  <2> QED BY <2>1, <2>2
<1> QED BY <1>6, <1>8, <1>9, <1>10

LEMMA UpsertContentIs ==
    ASSUME NEW w, NEW t, On(w, t), WellFormed(t), NEW n \in t.nodes, NEW body \in Nat
    PROVE  \A v \in UpsertContent(w, n, body) : On(v, t)
<1> DEFINE x == ContentPath(w.t, n)
           A == IF w.t.kind[n] = "section" THEN MkdirAll(w, PathOf(w.t, n)) ELSE {w}
<1>1. w.t = t /\ TreeType(t) BY OnIs, Branches
<1>2. IsFileName(x) /\ PathOf(w.t, n) \in Seq(Slugs) BY <1>1, NodePaths DEF IsFolder
<1> SUFFICES ASSUME NEW v \in UpsertContent(w, n, body) PROVE On(v, t) OBVIOUS
<1>3. PICK a \in A : v \in IF a.ok THEN Write(a, x, [SyncedAt(a, x, n) EXCEPT !.body = body]) ELSE {a}
    BY DEF UpsertContent
<1>4. On(a, t)
  <2>1. CASE a = w BY <2>1
  <2>2. CASE a \in MkdirAll(w, PathOf(w.t, n)) BY <1>2, <2>2, MkdirIs
  <2> QED BY <2>1, <2>2
<1> HIDE DEF x, A
<1>5. CASE v = a BY <1>4, <1>5
<1>6. CASE v \in Write(a, x, [SyncedAt(a, x, n) EXCEPT !.body = body])
  <2>1. [SyncedAt(a, x, n) EXCEPT !.body = body] \in FileT BY <1>1, <1>4, SyncedIs
  <2> QED BY <1>2, <1>4, <1>6, <2>1, WriteIs
<1> QED BY <1>3, <1>5, <1>6

LEMMA SyncFrontmatterIs ==
    ASSUME NEW w, NEW t, On(w, t), WellFormed(t), NEW n \in t.nodes
    PROVE  \A v \in SyncFrontmatter(w, n) : On(v, t)
<1> DEFINE x == ContentPath(w.t, n)
<1>1. w.t = t /\ TreeType(t) BY OnIs, Branches
<1>2. IsFileName(x) BY <1>1, NodePaths
<1> SUFFICES ASSUME NEW v \in SyncFrontmatter(w, n) PROVE On(v, t) OBVIOUS
<1>3. CASE v = w BY <1>3
<1>4. CASE v \in Refuses(w) BY <1>4, FailsIs
<1>5. CASE v \in Write(w, x, SyncedAt(w, x, n))
  <2>1. SyncedAt(w, x, n) \in FileT BY <1>1, SyncedIs
  <2> HIDE DEF x
  <2> QED BY <1>2, <1>5, <2>1, WriteIs
<1> QED BY <1>3, <1>4, <1>5 DEF SyncFrontmatter

LEMMA WritePinIs ==
    ASSUME NEW w, NEW t, On(w, t), WellFormed(t), NEW x \in DOMAIN w.d.md, NEW pin \in BOOLEAN
    PROVE  \A v \in Write(w, x, [w.d.md[x] EXCEPT !.pin = pin]) : On(v, t)
<1>1. w.d.md[x] \in FileT /\ IsFileName(x) BY OnIs DEF DiskSound
<1>2. [w.d.md[x] EXCEPT !.pin = pin] \in FileT BY <1>1 DEF FileT
<1> QED BY <1>1, <1>2, WriteIs

-----------------------------------------------------------------------------
(* What the operations of the service do to the tree *)

\* Two trees with the same parts are the same.
LEMMA SameTree ==
    ASSUME NEW t, NEW u, Record(t), Record(u), u.nodes = t.nodes, u.parent = t.parent, u.kids = t.kids,
           u.slug = t.slug, u.kind = t.kind, u.index = t.index, u.ver = t.ver, u.pinned = t.pinned
    PROVE  u = t
BY DEF Record

LEMMA SectionAlready ==
    ASSUME NEW t, WellFormed(t), NEW p \in Live(t), ~NeedsConvert(t, p)
    PROVE  AsSection(t, p) = t
<1>1. TreeType(t) /\ Record(t) BY Branches
<1>2. CASE p = Root BY <1>2 DEF AsSection
<1>3. CASE p # Root
  <2> DEFINE u == AsSection(t, p)
  <2>1. t.kind \in [Nodes -> Kinds] /\ p \in Nodes BY <1>1, <1>3 DEF TreeType, Live
  <2>2. t.kind[p] = "section" BY <1>3, <2>1 DEF NeedsConvert, Kinds
  <2>3. /\ Record(u) /\ u.nodes = t.nodes /\ u.parent = t.parent /\ u.kids = t.kids /\ u.slug = t.slug
        /\ u.ver = t.ver /\ u.pinned = t.pinned /\ u.index = t.index
        /\ u.kind = [n \in Nodes |-> IF n = p THEN "section" ELSE t.kind[n]]
    BY <1>1, SectionFields
  <2> HIDE DEF u
  <2>4. u.kind = t.kind BY <2>1, <2>2, <2>3
  <2>5. u = t BY <1>1, <2>3, <2>4, SameTree
  <2> QED BY <2>5 DEF u
<1> QED BY <1>2, <1>3

\* Folded back, the converted parent is the page it was.
LEMMA FoldedBack ==
    ASSUME NEW t, WellFormed(t), NEW p \in Live(t), NeedsConvert(t, p)
    PROVE  [AsSection(t, p) EXCEPT !.kind[p] = "page"] = t
<1>1. TreeType(t) /\ Record(t) BY Branches
<1>2. t.kind \in [Nodes -> Kinds] /\ p \in Nodes /\ t.kind[p] = "page" /\ p # Root
    BY <1>1 DEF TreeType, Live, NeedsConvert
<1> DEFINE u == AsSection(t, p)
           x == [u EXCEPT !.kind[p] = "page"]
<1>3. /\ Record(u) /\ u.nodes = t.nodes /\ u.parent = t.parent /\ u.kids = t.kids /\ u.slug = t.slug
      /\ u.ver = t.ver /\ u.pinned = t.pinned /\ u.index = t.index
      /\ u.kind = [n \in Nodes |-> IF n = p THEN "section" ELSE t.kind[n]]
  BY <1>1, SectionFields
<1> HIDE DEF u
<1>4. x = [nodes |-> u.nodes, parent |-> u.parent, kids |-> u.kids, slug |-> u.slug,
           kind |-> [u.kind EXCEPT ![p] = "page"], index |-> u.index, ver |-> u.ver, pinned |-> u.pinned]
    BY <1>3 DEF Record
<1>5. [u.kind EXCEPT ![p] = "page"] = t.kind
  <2>1. u.kind \in [Nodes -> {"page", "section"}] BY <1>2, <1>3 DEF Kinds
  <2>2. \A n \in Nodes : [u.kind EXCEPT ![p] = "page"][n] = t.kind[n] BY <1>2, <1>3, <2>1
  <2> QED BY <1>2, <2>1, <2>2 DEF Kinds
<1>6. x = t BY <1>1, <1>3, <1>4, <1>5 DEF Record
<1> QED BY <1>6 DEF u

LEMMA SectionIsTidy ==
    ASSUME NEW t, Tidy(t), NEW p \in Live(t)
    PROVE  LET u == AsSection(t, p) IN
           /\ Tidy(u) /\ u.nodes = t.nodes /\ Live(u) = Live(t) /\ u.parent = t.parent /\ u.kids = t.kids
           /\ u.slug = t.slug /\ u.index = t.index /\ u.ver = t.ver
           /\ p = Root \/ u.kind[p] = "section"
<1> DEFINE u == AsSection(t, p)
<1>1. WellFormed(t) /\ TreeType(t) BY DEF Tidy, WellFormed
<1>2. WellFormed(u) BY <1>1, SectionKeeps
<1>3. /\ u.nodes = t.nodes /\ u.parent = t.parent /\ u.kids = t.kids /\ u.slug = t.slug
      /\ u.ver = t.ver /\ u.index = t.index
      /\ u.kind = [n \in Nodes |-> IF n = p THEN "section" ELSE t.kind[n]]
    BY <1>1, SectionFields
<1> HIDE DEF u
<1>4. p = Root \/ (p \in t.nodes /\ p \in Nodes) BY <1>1 DEF Live, TreeType
<1>5. Live(u) = Live(t) BY <1>3 DEF Live
<1>6. p = Root \/ u.kind[p] = "section" BY <1>3, <1>4
<1>7. Blank(u)
  <2>1. u.index = [q \in Places |-> u.index[q]] BY <1>3 DEF Tidy, Blank
  <2>2. ASSUME NEW n \in Nodes \ u.nodes
        PROVE  u.parent[n] = Root /\ u.slug[n] = NoSlug /\ u.kind[n] = "page" /\ u.ver[n] = 0
               /\ u.kids[n] = <<>> /\ u.index[n] = {}
    <3>1. n \in Nodes \ t.nodes /\ n # p BY <1>3, <1>4, <2>2, NodesAssumption
    <3>2. t.parent[n] = Root /\ t.slug[n] = NoSlug /\ t.kind[n] = "page" /\ t.ver[n] = 0
          /\ t.kids[n] = <<>> /\ t.index[n] = {}
      BY <3>1 DEF Tidy, Blank
    <3> QED BY <1>3, <3>1, <3>2
  <2> QED BY <2>1, <2>2 DEF Blank
<1>8. Tidy(u) BY <1>2, <1>7 DEF Tidy
<1> QED BY <1>3, <1>5, <1>6, <1>8 DEF u

LEMMA AutoConvertIs ==
    ASSUME NEW w, NEW t, On(w, t), WellFormed(t), NEW p \in Live(t)
    PROVE  \A v \in AutoConvert(w, p) : (On(v, t) /\ ~v.ok) \/ On(v, AsSection(t, p))
<1>1. w.t = t BY OnIs
<1> SUFFICES ASSUME NEW v \in AutoConvert(w, p) PROVE (On(v, t) /\ ~v.ok) \/ On(v, AsSection(t, p)) OBVIOUS
<1>2. CASE NeedsConvert(t, p)
  <2>1. p \in t.nodes BY <1>2 DEF NeedsConvert, Live
  <2>2. v \in ConvertToSection(w, p) BY <1>1, <1>2 DEF AutoConvert
  <2> QED BY <2>1, <2>2, ConvertToSectionIs
<1>3. CASE ~NeedsConvert(t, p)
  <2>1. v = w BY <1>1, <1>3 DEF AutoConvert
  <2> QED BY <1>3, <2>1, SectionAlready
<1> QED BY <1>2, <1>3

LEMMA FoldBackIs ==
    ASSUME NEW w, NEW t, On(w, t), WellFormed(t), NEW p \in t.nodes
    PROVE  \A v \in FoldBack(w, p) : On(v, t) \/ On(v, [t EXCEPT !.kind[p] = "page"])
<1> DEFINE u == [t EXCEPT !.kind[p] = "page"]
<1> SUFFICES ASSUME NEW v \in FoldBack(w, p) PROVE On(v, t) \/ On(v, u) OBVIOUS
<1>1. PICK a \in RemoveOrder(w, PathOf(w.t, p)) :
        v \in IF a.ok THEN {IF b.ok THEN [b EXCEPT !.t.kind[p] = "page"] ELSE b : b \in ConvertToPage(a, p)}
              ELSE {a}
    BY DEF FoldBack
<1>2. On(a, t) BY RemoveOrderIs
<1>3. CASE v = a BY <1>2, <1>3
<1>4. CASE v # a
  <2>1. PICK b \in ConvertToPage(a, p) : v = IF b.ok THEN [b EXCEPT !.t.kind[p] = "page"] ELSE b BY <1>1, <1>4
  <2>2. On(b, t) BY <1>2, ConvertToPageIs
  <2>3. b.t = t BY <2>2, OnIs
  <2>4. [b EXCEPT !.t.kind[p] = "page"] = [b EXCEPT !.t = u] BY <2>2, <2>3 DEF On
  <2> HIDE DEF u
  <2>5. On([b EXCEPT !.t = u], u) BY <2>2, OnTree
  <2> QED BY <2>1, <2>2, <2>4, <2>5
<1> QED BY <1>3, <1>4

LEMMA CutBack ==
    ASSUME NEW S, NEW seq \in Seq(S), NEW n \in S, n \notin ToSet(seq)
    PROVE  Without(Append(seq, n), n) = seq
<1> DEFINE new == Append(seq, n)
           k == Len(seq) + 1
           i == CHOOSE i \in DOMAIN new : new[i] = n
           cut == Without(new, n)
<1>1. /\ new \in Seq(S) /\ Len(new) = Len(seq) + 1 /\ Len(seq) \in Nat
      /\ \A j \in 1 .. Len(seq) : new[j] = seq[j]
      /\ new[Len(seq) + 1] = n
    BY AppendProperties, LenProperties
<1>2. DOMAIN new = 1 .. k /\ k \in Nat BY <1>1, LenProperties
<1>3. \A j \in 1 .. Len(seq) : seq[j] # n BY Positions
<1>4. i = k
  <2>1. k \in DOMAIN new /\ new[k] = n BY <1>1, <1>2
  <2>2. i \in DOMAIN new /\ new[i] = n BY <2>1
  <2> HIDE DEF i, new
  <2> QED BY <1>1, <1>2, <1>3, <2>2
<1>5. cut = RemoveAt(new, k) BY <1>4 DEF Without
<1> HIDE DEF new, i, cut
<1>6. RemoveAt(new, k) = SubSeq(new, 1, k - 1) \o SubSeq(new, k + 1, Len(new)) BY DEF RemoveAt
<1>7. SubSeq(new, 1, k - 1) = seq
  <2>1. SubSeq(new, 1, Len(seq)) \in Seq(S) /\ Len(SubSeq(new, 1, Len(seq))) = Len(seq)
        /\ \A j \in 1 .. Len(seq) : SubSeq(new, 1, Len(seq))[j] = new[j]
    BY <1>1, SubSeqProperties
  <2>2. SubSeq(new, 1, Len(seq)) = seq BY <1>1, <2>1, SeqEqual
  <2> QED BY <1>1, <2>2
<1>8. SubSeq(new, k + 1, Len(new)) = <<>> BY <1>1, <1>2, SubSeqProperties, EmptySeq
<1>9. seq \o <<>> = seq BY ConcatEmptySeq
<1> QED BY <1>5, <1>6, <1>7, <1>8, <1>9 DEF cut, new

\* A created page that is deleted again leaves the tree as it was.
LEMMA Uncreated ==
    ASSUME NEW t, Tidy(t), NEW n \in Nodes \ t.nodes, NEW p \in Live(t), NEW s \in Slugs, NEW k \in Kinds,
           NEW v \in Nat, Find(t, p, s) = {}, p = Root \/ t.kind[p] = "section"
    PROVE  Deleted(Created(t, n, p, s, k, v), n) = t
<1> DEFINE u == Created(t, n, p, s, k, v)
           r == Deleted(u, n)
<1>1. Tidy(u) /\ IsCreated(u, t, n, p, s, k, v) BY CreatedIsTidy
<1>2. /\ TreeType(t) /\ Record(t) /\ Named(t) /\ Sliced(t)
      /\ t.index = [q \in Places |-> t.index[q]]
      /\ \A q \in Live(t) : t.index[q] = SlugPairs(t, q)
      /\ t.parent[n] = Root /\ t.slug[n] = NoSlug /\ t.kind[n] = "page" /\ t.ver[n] = 0
      /\ t.kids[n] = <<>> /\ t.index[n] = {}
    BY Branches DEF Tidy, Blank, WellFormed, IndexFresh
<1>3. TreeType(u) /\ Rooted(u) BY <1>1, Branches DEF Tidy
<1> HIDE DEF u
<1>4. u.nodes = t.nodes \union {n} /\ n \in u.nodes /\ u.parent[n] = p /\ n # Root /\ p # n
    BY <1>1, NodesAssumption DEF IsCreated, Live
<1>5. IsDeleted(r, u, n) BY <1>3, <1>4, DeletedFields
<1>6. Subtree(u, n) = {n}
  <2>1. Closed(u, {n})
    <3>1. ASSUME NEW m \in t.nodes PROVE u.parent[m] # n
      <4>1. t.parent[m] \in Live(t) /\ m \in Nodes /\ m # n BY <1>2, <3>1 DEF Named, TreeType
      <4>2. u.parent[m] = t.parent[m] BY <1>1, <4>1 DEF IsCreated
      <4> QED BY <1>4, <4>1, <4>2 DEF Live
    <3> QED BY <1>4, <3>1 DEF Closed
  <2>2. Subtree(u, n) \subseteq {n} BY <1>4, <2>1 DEF Subtree
  <2>3. n \in Subtree(u, n) BY <1>3, <1>4, Descendants
  <2> QED BY <2>2, <2>3
<1> DEFINE D == Subtree(u, n)
<1>7. D = {n} BY <1>6
<1>8. /\ Record(r) /\ r.nodes = u.nodes \ D /\ r.pinned = u.pinned \ D
      /\ r.parent = [m \in Nodes |-> IF m \in D THEN Root ELSE u.parent[m]]
      /\ r.kids = [q \in Places |-> IF q \in D THEN <<>> ELSE IF q = p THEN Without(u.kids[p], n) ELSE u.kids[q]]
      /\ r.slug = [m \in Nodes |-> IF m \in D THEN NoSlug ELSE u.slug[m]]
      /\ r.kind = [m \in Nodes |-> IF m \in D THEN "page" ELSE u.kind[m]]
      /\ r.ver = [m \in Nodes |-> IF m \in D THEN 0 ELSE u.ver[m]]
      /\ r.index = [q \in Places |-> IF q = p THEN SlugPairs(r, q) ELSE IF q \in D THEN {} ELSE u.index[q]]
    BY <1>4, <1>5 DEF IsDeleted
<1> HIDE DEF D, r
<1>9. r.nodes = t.nodes /\ r.pinned = t.pinned
  <2>1. t.pinned \subseteq t.nodes BY <1>2 DEF TreeType
  <2> QED BY <1>1, <1>4, <1>7, <1>8, <2>1 DEF IsCreated
<1>10. r.parent = t.parent
  <2>1. t.parent = [m \in Nodes |-> t.parent[m]] BY <1>2 DEF TreeType
  <2>2. \A m \in Nodes : (IF m \in D THEN Root ELSE u.parent[m]) = t.parent[m] BY <1>1, <1>2, <1>7 DEF IsCreated
  <2> QED BY <1>8, <2>1, <2>2
<1>11. r.slug = t.slug
  <2>1. t.slug = [m \in Nodes |-> t.slug[m]] BY <1>2 DEF TreeType
  <2>2. \A m \in Nodes : (IF m \in D THEN NoSlug ELSE u.slug[m]) = t.slug[m] BY <1>1, <1>2, <1>7 DEF IsCreated
  <2> QED BY <1>8, <2>1, <2>2
<1>12. r.kind = t.kind
  <2>1. t.kind = [m \in Nodes |-> t.kind[m]] BY <1>2 DEF TreeType
  <2>2. \A m \in Nodes : (IF m \in D THEN "page" ELSE u.kind[m]) = t.kind[m] BY <1>1, <1>2, <1>7 DEF IsCreated
  <2> QED BY <1>8, <2>1, <2>2
<1>13. r.ver = t.ver
  <2>1. t.ver = [m \in Nodes |-> t.ver[m]] BY <1>2 DEF TreeType
  <2>2. \A m \in Nodes : (IF m \in D THEN 0 ELSE u.ver[m]) = t.ver[m] BY <1>1, <1>2, <1>7 DEF IsCreated
  <2> QED BY <1>8, <2>1, <2>2
<1>14. p \in Places BY <1>2 DEF Live, Places, TreeType
<1>15. r.kids = t.kids
  <2>1. t.kids = [q \in Places |-> t.kids[q]] /\ t.kids[p] \in Seq(Nodes) BY <1>2, <1>14 DEF TreeType
  <2>2. n \notin ToSet(t.kids[p]) BY <1>2, <1>14 DEF Sliced, Children
  <2>3. Without(Append(t.kids[p], n), n) = t.kids[p] BY <2>1, <2>2, CutBack
  <2>4. ASSUME NEW q \in Places
        PROVE (IF q \in D THEN <<>> ELSE IF q = p THEN Without(u.kids[p], n) ELSE u.kids[q]) = t.kids[q]
    <3>1. u.kids[p] = Append(t.kids[p], n) BY <1>1, <1>14 DEF IsCreated
    <3>2. q # p => u.kids[q] = t.kids[q] BY <1>1 DEF IsCreated
    <3> QED BY <1>2, <1>7, <2>3, <3>1, <3>2
  <2> QED BY <1>8, <2>1, <2>4
<1>16. r.index = t.index
  <2>1. SlugPairs(r, p) = t.index[p]
    <3>1. SlugPairs(r, p) = SlugPairs(t, p) BY <1>11, <1>15 DEF SlugPairs
    <3> QED BY <1>2, <3>1
  <2>2. ASSUME NEW q \in Places
        PROVE (IF q = p THEN SlugPairs(r, q) ELSE IF q \in D THEN {} ELSE u.index[q]) = t.index[q]
    <3>1. q # p /\ q # n => u.index[q] = t.index[q] BY <1>1 DEF IsCreated
    <3>2. t.index[n] = {} BY <1>2
    <3> QED BY <1>7, <2>1, <3>1, <3>2
  <2>3. t.index = [q \in Places |-> t.index[q]] BY <1>2
  <2>4. r.index = [q \in Places |-> t.index[q]] BY <1>8, <2>2
  <2> QED BY <2>3, <2>4
<1>17. Record(t) /\ Record(r) BY <1>2, <1>8
<1>18. r = t BY <1>9, <1>10, <1>11, <1>12, <1>13, <1>15, <1>16, <1>17, SameTree
<1> QED BY <1>18 DEF r, u

\* Only the version tells a created page from one created with another.
LEMMA StampedCreated ==
    ASSUME NEW t, TreeType(t), NEW n \in Nodes, NEW p \in Places, NEW s, NEW k, NEW v, NEW z
    PROVE  Stamped(Created(t, n, p, s, k, v), {n}, z) = Created(t, n, p, s, k, z)
<1> DEFINE u == Created(t, n, p, s, k, v)
           x == Created(t, n, p, s, k, z)
           r == Stamped(u, {n}, z)
<1>1. IsCreated(u, t, n, p, s, k, v) /\ IsCreated(x, t, n, p, s, k, z) BY CreatedFields
<1> HIDE DEF u, x
<1>2. r = [nodes |-> u.nodes, parent |-> u.parent, kids |-> u.kids, slug |-> u.slug, kind |-> u.kind,
           index |-> u.index, ver |-> [m \in Nodes |-> IF m \in {n} THEN z ELSE u.ver[m]], pinned |-> u.pinned]
  <2> DEFINE f == [m \in Nodes |-> IF m \in {n} THEN z ELSE u.ver[m]]
  <2>1. r = [u EXCEPT !.ver = f] BY DEF Stamped
  <2>2. Record(u) BY <1>1 DEF IsCreated
  <2> HIDE DEF f, r
  <2>3. r = [nodes |-> u.nodes, parent |-> u.parent, kids |-> u.kids, slug |-> u.slug, kind |-> u.kind,
             index |-> u.index, ver |-> f, pinned |-> u.pinned]
      BY <2>1, <2>2 DEF Record
  <2> QED BY <2>3 DEF f
<1>3. [m \in Nodes |-> IF m \in {n} THEN z ELSE u.ver[m]] = x.ver BY <1>1 DEF IsCreated
<1>4. u.kids = x.kids /\ u.slug = x.slug BY <1>1 DEF IsCreated
<1>5. \A q : SlugPairs(u, q) = SlugPairs(x, q) BY <1>4 DEF SlugPairs
<1>6. u.index = x.index BY <1>1, <1>5 DEF IsCreated
<1>7. u.nodes = x.nodes /\ u.parent = x.parent /\ u.kind = x.kind /\ u.pinned = x.pinned BY <1>1 DEF IsCreated
<1>8. r = [nodes |-> x.nodes, parent |-> x.parent, kids |-> x.kids, slug |-> x.slug, kind |-> x.kind,
           index |-> x.index, ver |-> x.ver, pinned |-> x.pinned]
    BY <1>2, <1>3, <1>4, <1>6, <1>7
<1>9. r = x BY <1>1, <1>8 DEF IsCreated, Record
<1> QED BY <1>9 DEF u, x

LEMMA RollbackCreatedIs ==
    ASSUME NEW w, NEW u, On(w, u), NEW n, NEW t, WellFormed(t), Deleted(u, n) = t, NEW p,
           NEW converted \in BOOLEAN, converted => p \in t.nodes
    PROVE  \A v \in RollbackCreated(w, n, p, converted) :
             On(v, t) \/ (converted /\ On(v, [t EXCEPT !.kind[p] = "page"]))
<1> DEFINE folded == [t EXCEPT !.kind[p] = "page"]
           Cut(x) == [x EXCEPT !.t = Deleted(@, n)]
<1> SUFFICES ASSUME NEW v \in RollbackCreated(w, n, p, converted) PROVE On(v, t) \/ (converted /\ On(v, folded))
    OBVIOUS
<1>1. PICK x \in DeleteOnDisk(Again(w), n) : v \in IF x.ok /\ converted THEN FoldBack(Cut(x), p) ELSE {Cut(x)}
    BY DEF RollbackCreated
<1>2. On(Again(w), u) BY OnOk DEF Again
<1>3. On(x, u) /\ x.t = u BY <1>2, DeleteOnDiskIs, OnIs
<1>4. Cut(x) = [x EXCEPT !.t = t] BY <1>3
<1>5. On([x EXCEPT !.t = t], t) BY <1>3, OnTree
<1> DEFINE a == Cut(x)
<1>6. On(a, t) BY <1>4, <1>5
<1> HIDE DEF Cut, a
<1>7. v = a \/ (converted /\ v \in FoldBack(a, p)) BY <1>1 DEF a
<1>8. CASE v = a BY <1>6, <1>8
<1>9. CASE converted /\ v \in FoldBack(a, p)
  <2>1. p \in t.nodes BY <1>9
  <2> QED BY <1>6, <1>9, <2>1, FoldBackIs
<1> QED BY <1>7, <1>8, <1>9

\* A page is created as a whole or not at all; a parent that became a section
\* for it may stay one.
LEMMA CreateIs ==
    ASSUME NEW w, NEW t, On(w, t), Tidy(t), clock \in Nat,
           NEW n \in Nodes, NEW p, NEW s \in Slugs, NEW k \in Kinds, MayCreate(t, n, p, s)
    PROVE  \A v \in Create(w, n, p, s, k) :
             \/ v.ok /\ On(v, Created(AsSection(t, p), n, p, s, k, Now))
             \/ ~v.ok /\ (On(v, t) \/ On(v, AsSection(t, p)))
<1> DEFINE u == AsSection(t, p)
           new == Created(u, n, p, s, k, Now)
           Saved(b) == SaveChildOrder([b EXCEPT !.t = Created(@, n, p, s, k, Now)], p)
           Undone(b) == UNION {Refuses(x) : x \in RollbackCreated(b, n, p, NeedsConvert(w.t, p))}
           Kept(b) == UNION {IF c.ok THEN {c} ELSE Undone(c) : c \in Saved(b)}
           Good(v) == \/ v.ok /\ On(v, new)
                      \/ ~v.ok /\ (On(v, t) \/ On(v, u))
<1> SUFFICES ASSUME NEW v \in Create(w, n, p, s, k) PROVE Good(v) OBVIOUS
<1>1. w.t = t /\ WellFormed(t) BY OnIs DEF Tidy
<1>2. n \notin t.nodes /\ p \in Live(t) /\ Find(t, p, s) = {} BY DEF MayCreate
<1>3. /\ Tidy(u) /\ WellFormed(u) /\ u.nodes = t.nodes /\ Live(u) = Live(t) /\ u.index = t.index
      /\ p = Root \/ u.kind[p] = "section"
    BY <1>2, SectionIsTidy DEF Tidy
<1>4. Find(u, p, s) = {} /\ n \in Nodes \ u.nodes /\ p \in Live(u) BY <1>2, <1>3 DEF Find
<1>5. Now \in Nat BY DEF Now
<1>6. Tidy(new) /\ WellFormed(new) /\ Deleted(new, n) = u
  <2> HIDE DEF u
  <2> QED BY <1>3, <1>4, <1>5, CreatedIsTidy, Uncreated DEF Tidy
<1>7. p \in Live(new)
  <2> HIDE DEF u
  <2>1. IsCreated(new, u, n, p, s, k, Now) BY <1>3, <1>4, <1>5, CreatedIsTidy
  <2> QED BY <1>4, <2>1 DEF IsCreated, Live
<1>8. PICK a \in AutoConvert(w, p) :
        v \in IF a.ok THEN UNION {IF b.ok THEN Kept(b) ELSE {b} : b \in CreateOnDisk(a, n, p, s, k, Now)}
              ELSE {a}
    BY DEF Create
<1>9. (On(a, t) /\ ~a.ok) \/ On(a, u) BY <1>1, <1>2, AutoConvertIs
<1>10. CASE ~a.ok
  <2>1. v = a BY <1>8, <1>10
  <2> QED BY <1>9, <1>10, <2>1
<1>11. CASE a.ok
  <2>1. PICK b \in CreateOnDisk(a, n, p, s, k, Now) : v \in IF b.ok THEN Kept(b) ELSE {b} BY <1>8, <1>11
  <2>2. On(a, u) BY <1>9, <1>11
  <2> HIDE DEF u, Kept
  <2>3. On(b, u) BY <1>3, <1>4, <1>5, <2>2, CreateOnDiskIs
  <2>4. CASE ~b.ok
    <3>1. v = b BY <2>1, <2>4
    <3> QED BY <2>3, <2>4, <3>1
  <2>5. CASE b.ok
    <3>1. v \in Kept(b) BY <2>1, <2>5
    <3> HIDE DEF Undone, Saved
    <3>2. PICK c \in Saved(b) : v \in IF c.ok THEN {c} ELSE Undone(c) BY <3>1 DEF Kept
    <3>3. b.t = u BY <2>3, OnIs
    <3>4. Saved(b) = SaveChildOrder([b EXCEPT !.t = new], p) BY <3>3 DEF Saved
    <3> HIDE DEF new
    <3>5. On([b EXCEPT !.t = new], new) BY <2>3, OnTree
    <3>6. On(c, new) BY <1>6, <1>7, <3>2, <3>4, <3>5, SaveChildOrderIs
    <3>7. CASE c.ok
      <4>1. v = c BY <3>2, <3>7
      <4> QED BY <3>6, <3>7, <4>1
    <3>8. CASE ~c.ok
      <4>1. v \in Undone(c) BY <3>2, <3>8
      <4>2. PICK x \in RollbackCreated(c, n, p, NeedsConvert(w.t, p)) : v \in Refuses(x) BY <4>1 DEF Undone
      <4> DEFINE converted == NeedsConvert(t, p)
      <4>3. converted \in BOOLEAN /\ (converted => p \in u.nodes)
        <5>1. converted => p \in u.nodes BY <1>2, <1>3 DEF NeedsConvert, Live
        <5>2. converted \in BOOLEAN BY DEF NeedsConvert
        <5> QED BY <5>1, <5>2
      <4>4. x \in RollbackCreated(c, n, p, converted) BY <1>1, <4>2
      <4>5. converted => [u EXCEPT !.kind[p] = "page"] = t BY <1>1, <1>2, FoldedBack DEF u
      <4> HIDE DEF converted
      <4>6. On(x, u) \/ (converted /\ On(x, [u EXCEPT !.kind[p] = "page"]))
        BY <1>3, <1>6, <3>6, <4>3, <4>4, RollbackCreatedIs
      <4>7. On(x, u) \/ On(x, t) BY <4>5, <4>6
      <4>8. (On(v, u) \/ On(v, t)) /\ ~v.ok BY <4>2, <4>7, FailsIs
      <4> QED BY <4>8
    <3> QED BY <3>7, <3>8
  <2> QED BY <2>4, <2>5
<1> QED BY <1>10, <1>11

\* u differs from t at the nodes of t only.
SameOutside(u, t) ==
    /\ u.nodes = t.nodes /\ u.index = [q \in Places |-> u.index[q]]
    /\ \A m \in Nodes \ t.nodes :
         /\ u.parent[m] = t.parent[m] /\ u.slug[m] = t.slug[m] /\ u.kind[m] = t.kind[m]
         /\ u.ver[m] = t.ver[m] /\ u.kids[m] = t.kids[m] /\ u.index[m] = t.index[m]

LEMMA BlankOutside ==
    ASSUME NEW t, Tidy(t), NEW u, WellFormed(u), SameOutside(u, t)
    PROVE  Tidy(u)
<1>1. u.index = [q \in Places |-> u.index[q]] BY DEF SameOutside
<1>2. ASSUME NEW m \in Nodes \ u.nodes
      PROVE  u.parent[m] = Root /\ u.slug[m] = NoSlug /\ u.kind[m] = "page" /\ u.ver[m] = 0
             /\ u.kids[m] = <<>> /\ u.index[m] = {}
  <2>1. m \in Nodes \ t.nodes BY <1>2 DEF SameOutside
  <2>2. t.parent[m] = Root /\ t.slug[m] = NoSlug /\ t.kind[m] = "page" /\ t.ver[m] = 0
        /\ t.kids[m] = <<>> /\ t.index[m] = {}
    BY <2>1 DEF Tidy, Blank
  <2>3. u.parent[m] = t.parent[m] /\ u.slug[m] = t.slug[m] /\ u.kind[m] = t.kind[m]
        /\ u.ver[m] = t.ver[m] /\ u.kids[m] = t.kids[m] /\ u.index[m] = t.index[m]
    BY <2>1 DEF SameOutside
  <2> QED BY <2>2, <2>3
<1> QED BY <1>1, <1>2 DEF Tidy, Blank

LEMMA OneField ==
    ASSUME NEW t, Record(t), NEW x
    PROVE  /\ \A u : u = [t EXCEPT !.ver = x] =>
                u = [nodes |-> t.nodes, parent |-> t.parent, kids |-> t.kids, slug |-> t.slug,
                     kind |-> t.kind, index |-> t.index, ver |-> x, pinned |-> t.pinned]
           /\ \A u : u = [t EXCEPT !.kind = x] =>
                u = [nodes |-> t.nodes, parent |-> t.parent, kids |-> t.kids, slug |-> t.slug,
                     kind |-> x, index |-> t.index, ver |-> t.ver, pinned |-> t.pinned]
           /\ \A u : u = [t EXCEPT !.kids = x] =>
                u = [nodes |-> t.nodes, parent |-> t.parent, kids |-> x, slug |-> t.slug,
                     kind |-> t.kind, index |-> t.index, ver |-> t.ver, pinned |-> t.pinned]
           /\ \A u : u = [t EXCEPT !.pinned = x] =>
                u = [nodes |-> t.nodes, parent |-> t.parent, kids |-> t.kids, slug |-> t.slug,
                     kind |-> t.kind, index |-> t.index, ver |-> t.ver, pinned |-> x]
BY DEF Record

LEMMA TidyIs ==
    ASSUME NEW t, Tidy(t)
    PROVE  /\ WellFormed(t) /\ TreeType(t) /\ Record(t) /\ t.index = [q \in Places |-> t.index[q]]
           /\ \A n \in t.nodes : n \in Nodes /\ t.parent[n] \in Live(t) /\ t.parent[n] \in Places
           /\ \A m \in Nodes \ t.nodes : m \in Places /\ m \notin Live(t)
<1>1. WellFormed(t) /\ TreeType(t) /\ Record(t) /\ Named(t) BY Branches DEF Tidy
<1>2. t.index = [q \in Places |-> t.index[q]] BY DEF Tidy, Blank
<1> QED BY <1>1, <1>2, NodesAssumption DEF Named, TreeType, Live, Places

LEMMA VersionsAreTidy ==
    ASSUME NEW t, Tidy(t), NEW f \in [Nodes -> Nat], \A m \in Nodes \ t.nodes : f[m] = t.ver[m]
    PROVE  LET u == [t EXCEPT !.ver = f] IN Tidy(u) /\ u.nodes = t.nodes /\ u.ver = f /\ u.parent = t.parent
<1> DEFINE u == [t EXCEPT !.ver = f]
<1>1. WellFormed(t) /\ Record(t) /\ t.index = [q \in Places |-> t.index[q]] BY TidyIs
<1>2. WellFormed(u) BY <1>1, VersionsFree
<1>3. u = [nodes |-> t.nodes, parent |-> t.parent, kids |-> t.kids, slug |-> t.slug,
           kind |-> t.kind, index |-> t.index, ver |-> f, pinned |-> t.pinned]
    BY <1>1, OneField
<1> HIDE DEF u
<1>4. SameOutside(u, t) BY <1>1, <1>3 DEF SameOutside
<1>5. Tidy(u) BY <1>2, <1>4, BlankOutside
<1> QED BY <1>3, <1>5 DEF u

LEMMA StampedIsTidy ==
    ASSUME NEW t, Tidy(t), NEW S \in SUBSET t.nodes, NEW v \in Nat
    PROVE  LET u == Stamped(t, S, v) IN
           /\ Tidy(u) /\ u.nodes = t.nodes /\ u.parent = t.parent
           /\ u.ver = [n \in Nodes |-> IF n \in S THEN v ELSE t.ver[n]]
<1> DEFINE f == [n \in Nodes |-> IF n \in S THEN v ELSE t.ver[n]]
<1>1. t.ver \in [Nodes -> Nat] BY TidyIs DEF TreeType
<1>2. f \in [Nodes -> Nat] /\ \A m \in Nodes \ t.nodes : f[m] = t.ver[m] BY <1>1
<1>3. Stamped(t, S, v) = [t EXCEPT !.ver = f] BY DEF Stamped
<1> HIDE DEF f
<1>4. LET u == [t EXCEPT !.ver = f] IN Tidy(u) /\ u.nodes = t.nodes /\ u.ver = f /\ u.parent = t.parent
    BY <1>2, VersionsAreTidy
<1> QED BY <1>3, <1>4 DEF f

LEMMA StampedOne ==
    ASSUME NEW t, Tidy(t), NEW n \in t.nodes, NEW v \in Nat
    PROVE  LET u == Stamped(t, {n}, v) IN
           Tidy(u) /\ WellFormed(u) /\ n \in u.nodes /\ Live(u) = Live(t) /\ u.ver[n] = v
<1> DEFINE u == Stamped(t, {n}, v)
<1>1. {n} \in SUBSET t.nodes /\ n \in Nodes BY TidyIs
<1>2. Tidy(u) /\ u.nodes = t.nodes /\ u.ver = [m \in Nodes |-> IF m \in {n} THEN v ELSE t.ver[m]]
    BY <1>1, StampedIsTidy
<1> HIDE DEF u
<1>3. u.ver[n] = v BY <1>1, <1>2
<1> QED BY <1>2, <1>3 DEF Tidy, Live, u

LEMMA StampedInPlace ==
    ASSUME NEW t, Tidy(t), NEW n \in t.nodes, NEW v \in Nat
    PROVE  Stamped(t, {n}, v).nodes = t.nodes /\ Stamped(t, {n}, v).parent = t.parent
<1>1. {n} \in SUBSET t.nodes OBVIOUS
<1> DEFINE u == Stamped(t, {n}, v)
<1>2. /\ Tidy(u) /\ u.nodes = t.nodes /\ u.parent = t.parent
      /\ u.ver = [m \in Nodes |-> IF m \in {n} THEN v ELSE t.ver[m]]
    BY <1>1, StampedIsTidy
<1> QED BY <1>2

\* Stamping a page with the version it has changes nothing.
LEMMA StampedSame ==
    ASSUME NEW t, TreeType(t), NEW n
    PROVE  Stamped(t, {n}, t.ver[n]) = t
<1> DEFINE f == [m \in Nodes |-> IF m \in {n} THEN t.ver[n] ELSE t.ver[m]]
<1>1. Record(t) /\ t.ver \in [Nodes -> Nat] BY DEF TreeType, Record
<1>2. f = t.ver BY <1>1
<1>3. Stamped(t, {n}, t.ver[n]) = [t EXCEPT !.ver = f] BY DEF Stamped
<1> DEFINE u == [t EXCEPT !.ver = f]
<1> HIDE DEF f
<1>4. u = [nodes |-> t.nodes, parent |-> t.parent, kids |-> t.kids, slug |-> t.slug,
           kind |-> t.kind, index |-> t.index, ver |-> f, pinned |-> t.pinned]
    BY <1>1, OneField
<1> QED BY <1>1, <1>2, <1>3, <1>4 DEF Record

LEMMA DeletedIsTidy ==
    ASSUME NEW t, Tidy(t), NEW n \in t.nodes
    PROVE  Tidy(Deleted(t, n)) /\ t.parent[n] \in Live(Deleted(t, n))
<1> DEFINE u == Deleted(t, n)
           D == Subtree(t, n)
           p == t.parent[n]
<1>1. /\ WellFormed(t) /\ TreeType(t) /\ p \in Live(t) /\ Rooted(t)
      /\ \A m \in Nodes \ t.nodes : m \in Places /\ m \notin Live(t)
    BY TidyIs, Branches
<1>2. D \subseteq t.nodes /\ p \notin D BY <1>1, Descendants
<1>3. IsDeleted(u, t, n) BY <1>1, DeletedFields
<1>4. WellFormed(u) BY <1>1, DeletedKeeps
<1>5. /\ u.nodes = t.nodes \ D
      /\ u.parent = [m \in Nodes |-> IF m \in D THEN Root ELSE t.parent[m]]
      /\ u.kids = [q \in Places |-> IF q \in D THEN <<>> ELSE IF q = p THEN Without(t.kids[p], n) ELSE t.kids[q]]
      /\ u.slug = [m \in Nodes |-> IF m \in D THEN NoSlug ELSE t.slug[m]]
      /\ u.kind = [m \in Nodes |-> IF m \in D THEN "page" ELSE t.kind[m]]
      /\ u.ver = [m \in Nodes |-> IF m \in D THEN 0 ELSE t.ver[m]]
      /\ u.index = [q \in Places |-> IF q = p THEN SlugPairs(u, q) ELSE IF q \in D THEN {} ELSE t.index[q]]
    BY <1>3 DEF IsDeleted
<1>6. p \in Live(u) BY <1>1, <1>2, <1>5 DEF Live
<1> HIDE DEF u, D, p
<1>7. ASSUME NEW m \in Nodes \ u.nodes
      PROVE  u.parent[m] = Root /\ u.slug[m] = NoSlug /\ u.kind[m] = "page" /\ u.ver[m] = 0
             /\ u.kids[m] = <<>> /\ u.index[m] = {}
  <2>1. m \in Nodes /\ m \in Places /\ (m \in D \/ m \in Nodes \ t.nodes) BY <1>5, <1>7 DEF Places
  <2>2. m # p BY <1>1, <1>2, <2>1
  <2>3. CASE m \in D BY <1>5, <2>1, <2>2, <2>3
  <2>4. CASE m \notin D
    <3>1. t.parent[m] = Root /\ t.slug[m] = NoSlug /\ t.kind[m] = "page" /\ t.ver[m] = 0
          /\ t.kids[m] = <<>> /\ t.index[m] = {}
      BY <2>1, <2>4 DEF Tidy, Blank
    <3> QED BY <1>5, <2>1, <2>2, <2>4, <3>1
  <2> QED BY <2>3, <2>4
<1>8. u.index = [q \in Places |-> u.index[q]]
  <2> DEFINE g == [q \in Places |-> IF q = p THEN SlugPairs(u, q) ELSE IF q \in D THEN {} ELSE t.index[q]]
  <2>1. g = [q \in Places |-> g[q]] OBVIOUS
  <2>2. u.index = g BY <1>5
  <2> HIDE DEF g
  <2> QED BY <2>1, <2>2
<1>9. Tidy(u) BY <1>4, <1>7, <1>8 DEF Tidy, Blank
<1> QED BY <1>6, <1>9 DEF u, p

LEMMA RenamedIsTidy ==
    ASSUME NEW t, Tidy(t), NEW n \in t.nodes, NEW s \in Slugs, MayRename(t, n, s)
    PROVE  Tidy(Renamed(t, n, s)) /\ Renamed(t, n, s).nodes = t.nodes
<1> DEFINE u == Renamed(t, n, s)
<1>1. /\ WellFormed(t) /\ TreeType(t) /\ t.parent[n] \in Live(t) /\ t.slug \in [Nodes -> Slugs \union {NoSlug}]
      /\ t.index = [q \in Places |-> t.index[q]]
      /\ \A m \in Nodes \ t.nodes : m \in Places /\ m \notin Live(t)
    BY TidyIs DEF TreeType
<1>2. WellFormed(u) BY <1>1, RenamedKeeps
<1>3. IsRenamed(u, t, n, s) BY <1>1, RenamedFields
<1> HIDE DEF u
<1>4. ASSUME NEW m \in Nodes \ t.nodes
      PROVE  /\ u.parent[m] = t.parent[m] /\ u.slug[m] = t.slug[m] /\ u.kind[m] = t.kind[m]
             /\ u.ver[m] = t.ver[m] /\ u.kids[m] = t.kids[m] /\ u.index[m] = t.index[m]
  <2>1. m \in Places /\ m # t.parent[n] /\ m # n BY <1>1
  <2> QED BY <1>3, <2>1 DEF IsRenamed
<1>5. u.index = [q \in Places |-> u.index[q]] /\ u.nodes = t.nodes BY <1>3 DEF IsRenamed
<1>6. SameOutside(u, t) BY <1>4, <1>5 DEF SameOutside
<1>7. Tidy(u) BY <1>2, <1>6, BlankOutside
<1> QED BY <1>5, <1>7 DEF u

LEMMA ConvertedIsTidy ==
    ASSUME NEW t, Tidy(t), NEW n \in t.nodes, NEW k \in Kinds, MayConvert(t, n, k)
    PROVE  LET u == [t EXCEPT !.kind[n] = k] IN Tidy(u) /\ u.nodes = t.nodes /\ u.ver = t.ver
<1> DEFINE f == [t.kind EXCEPT ![n] = k]
           u == [t EXCEPT !.kind[n] = k]
<1>1. WellFormed(t) /\ Record(t) /\ t.index = [q \in Places |-> t.index[q]] BY TidyIs
<1>2. WellFormed(u) BY ConvertedKeeps, <1>1
<1>3. u = [t EXCEPT !.kind = f] BY <1>1 DEF Record
<1>4. \A m \in Nodes \ t.nodes : f[m] = t.kind[m] OBVIOUS
<1> HIDE DEF u, f
<1>5. u = [nodes |-> t.nodes, parent |-> t.parent, kids |-> t.kids, slug |-> t.slug,
           kind |-> f, index |-> t.index, ver |-> t.ver, pinned |-> t.pinned]
    BY <1>1, <1>3, OneField
<1>6. SameOutside(u, t) BY <1>1, <1>4, <1>5 DEF SameOutside
<1>7. Tidy(u) BY <1>2, <1>6, BlankOutside
<1> QED BY <1>5, <1>7 DEF u

LEMMA SortedIsTidy ==
    ASSUME NEW t, Tidy(t), NEW p \in Live(t), NEW seq \in Seq(Nodes), MaySort(t, p, seq)
    PROVE  LET u == [t EXCEPT !.kids[p] = seq] IN Tidy(u) /\ Live(u) = Live(t)
<1> DEFINE f == [t.kids EXCEPT ![p] = seq]
           u == [t EXCEPT !.kids[p] = seq]
<1>1. /\ WellFormed(t) /\ Record(t) /\ t.index = [q \in Places |-> t.index[q]] /\ p \in Places
      /\ \A m \in Nodes \ t.nodes : m \in Places /\ m \notin Live(t)
    BY TidyIs DEF TreeType, Live, Places
<1>2. WellFormed(u) BY <1>1, SortedKeeps
<1>3. u = [t EXCEPT !.kids = f] BY <1>1 DEF Record
<1>4. \A m \in Nodes \ t.nodes : f[m] = t.kids[m] BY <1>1
<1> HIDE DEF u, f
<1>5. u = [nodes |-> t.nodes, parent |-> t.parent, kids |-> f, slug |-> t.slug,
           kind |-> t.kind, index |-> t.index, ver |-> t.ver, pinned |-> t.pinned]
    BY <1>1, <1>3, OneField
<1>6. SameOutside(u, t) BY <1>1, <1>4, <1>5 DEF SameOutside
<1>7. Tidy(u) BY <1>2, <1>6, BlankOutside
<1>8. Live(u) = Live(t) BY <1>5 DEF Live
<1> QED BY <1>7, <1>8 DEF u

LEMMA PinnedIsTidy ==
    ASSUME NEW t, Tidy(t), NEW P \in SUBSET t.nodes
    PROVE  Tidy([t EXCEPT !.pinned = P])
<1> DEFINE u == [t EXCEPT !.pinned = P]
<1>1. WellFormed(t) /\ Record(t) /\ t.index = [q \in Places |-> t.index[q]] BY TidyIs
<1>2. WellFormed(u) BY <1>1, PinnedKeeps
<1>3. u = [nodes |-> t.nodes, parent |-> t.parent, kids |-> t.kids, slug |-> t.slug,
           kind |-> t.kind, index |-> t.index, ver |-> t.ver, pinned |-> P]
    BY <1>1, OneField
<1> HIDE DEF u
<1>4. SameOutside(u, t) BY <1>1, <1>3 DEF SameOutside
<1>5. Tidy(u) BY <1>2, <1>4, BlankOutside
<1> QED BY <1>5 DEF u

\* The subtree of a moved page is no larger than it was.
LEMMA MovedIsTidy ==
    ASSUME NEW t, Tidy(t), NEW n \in t.nodes, NEW p \in Live(t), MayMove(t, n, p), p # t.parent[n],
           p = Root \/ t.kind[p] = "section", NEW i \in 1 .. Len(t.kids[p]) + 1
    PROVE  LET u == Moved(t, n, p, i) IN
           /\ Tidy(u) /\ u.nodes = t.nodes /\ t.parent[n] \notin Subtree(u, n)
           /\ u.parent = [m \in Nodes |-> IF m = n THEN p ELSE t.parent[m]]
<1> DEFINE u == Moved(t, n, p, i)
           old == t.parent[n]
<1>1. /\ WellFormed(t) /\ TreeType(t) /\ Rooted(t) /\ old \in Live(t) /\ p \in Places
      /\ t.index = [q \in Places |-> t.index[q]]
      /\ \A m \in Nodes \ t.nodes : m \in Places /\ m \notin Live(t)
      /\ \A m \in t.nodes : m \in Nodes
    BY TidyIs, Branches DEF TreeType, Live, Places
<1>2. WellFormed(u) BY <1>1, MovedKeeps
<1>3. IsMoved(u, t, n, p, i) BY <1>1, MovedFields
<1>4. /\ u.nodes = t.nodes /\ u.slug = t.slug /\ u.kind = t.kind /\ u.ver = t.ver
      /\ u.parent = [m \in Nodes |-> IF m = n THEN p ELSE t.parent[m]]
      /\ u.kids = [q \in Places |-> IF q = p THEN InsertAt(t.kids[p], i, n)
                                    ELSE IF q = old THEN Without(t.kids[q], n) ELSE t.kids[q]]
      /\ u.index = [q \in Places |-> IF q \in {old, p} THEN SlugPairs(u, q) ELSE t.index[q]]
    BY <1>3 DEF IsMoved
<1> HIDE DEF u
<1>5. ASSUME NEW m \in Nodes \ t.nodes
      PROVE  /\ u.parent[m] = t.parent[m] /\ u.slug[m] = t.slug[m] /\ u.kind[m] = t.kind[m]
             /\ u.ver[m] = t.ver[m] /\ u.kids[m] = t.kids[m] /\ u.index[m] = t.index[m]
  <2>1. m \in Places /\ m # old /\ m # n /\ m # p BY <1>1
  <2> HIDE DEF old
  <2> QED BY <1>4, <2>1
<1>6. u.index = [q \in Places |-> u.index[q]]
  <2> DEFINE g == [q \in Places |-> IF q \in {old, p} THEN SlugPairs(u, q) ELSE t.index[q]]
  <2>1. g = [q \in Places |-> g[q]] OBVIOUS
  <2>2. u.index = g BY <1>4
  <2> HIDE DEF g
  <2> QED BY <2>1, <2>2
<1>7. SameOutside(u, t) BY <1>4, <1>5, <1>6 DEF SameOutside
<1>8. Tidy(u) BY <1>2, <1>7, BlankOutside
<1>9. old \notin Subtree(u, n)
  <2> DEFINE D == Subtree(t, n)
  <2>1. n \in D /\ D \subseteq t.nodes /\ old \notin D /\ \A m \in t.nodes : t.parent[m] \in D => m \in D
    BY <1>1, Descendants
  <2> HIDE DEF D
  <2>2. Closed(u, D)
    <3>1. ASSUME NEW m \in u.nodes, u.parent[m] \in D PROVE m \in D
      <4>1. CASE m = n BY <2>1, <4>1
      <4>2. CASE m # n
        <5>1. m \in t.nodes /\ m \in Nodes BY <1>1, <1>4, <3>1
        <5>2. u.parent[m] = t.parent[m] BY <1>4, <4>2, <5>1
        <5> QED BY <2>1, <3>1, <5>1, <5>2
      <4> QED BY <4>1, <4>2
    <3> QED BY <3>1 DEF Closed
  <2>3. Subtree(u, n) \subseteq D BY <1>4, <2>1, <2>2 DEF Subtree
  <2> QED BY <2>1, <2>3
<1> QED BY <1>4, <1>8, <1>9 DEF u, old

\* A move that is undone leaves the tree before it; a parent that became a
\* section for it may stay one.
LEMMA RollbackMovedIs ==
    ASSUME NEW w, NEW u, On(w, u), WellFormed(u), NEW n \in u.nodes, NEW old \in Live(u), old \notin Subtree(u, n),
           NEW before, WellFormed(before), NEW p \in Live(before), old \in Live(before),
           NEW t, WellFormed(t), Live(t) = Live(before),
           NEW converted, converted => p # Root /\ [before EXCEPT !.kind[p] = "page"] = t
    PROVE  \A v \in RollbackMoved(w, n, old, p, before, converted) : On(v, before) \/ On(v, t)
<1> DEFINE Either(x) == On(x, before) \/ On(x, t)
           Back(x) == [Again(x) EXCEPT !.t = before]
           Fold(c) == IF c.ok THEN [c EXCEPT !.t.kind[p] = "page"] ELSE Again(c)
           Folded(x) == IF ~converted \/ before.kids[p] # <<>> THEN {x}
                        ELSE UNION {{IF c.ok THEN [c EXCEPT !.t.kind[p] = "page"] ELSE Again(c) :
                                       c \in ConvertToPage(Again(b), p)} :
                                    b \in RemoveOrder(x, PathOf(x.t, p))}
<1> SUFFICES ASSUME NEW v \in RollbackMoved(w, n, old, p, before, converted) PROVE Either(v) OBVIOUS
<1>1. PICK a \in MoveOnDisk(Again(w), n, old) :
        v \in UNION {UNION {SaveChildOrder(Again(c), p) : c \in SaveChildOrder(b, old)} : b \in Folded(Back(a))}
    BY DEF RollbackMoved
<1>2. PICK b \in Folded(Back(a)) : v \in UNION {SaveChildOrder(Again(c), p) : c \in SaveChildOrder(b, old)}
    BY <1>1
<1>3. PICK c \in SaveChildOrder(b, old) : v \in SaveChildOrder(Again(c), p) BY <1>2
<1>4. On(Again(w), u) BY OnOk DEF Again
<1>5. On(a, u) BY <1>4, MoveOnDiskIs
<1>6. On(Back(a), before)
  <2>1. On(Again(a), u) BY <1>5, OnOk DEF Again
  <2> QED BY <2>1, OnTree
<1>7. Either(b)
  <2> DEFINE x == Back(a)
  <2>1. CASE b = x BY <1>6, <2>1
  <2>2. CASE b # x
    <3>1. converted /\ p \in before.nodes BY <1>2, <2>2 DEF Live
    <3>2. PICK e \in RemoveOrder(x, PathOf(x.t, p)) : b \in {Fold(c1) : c1 \in ConvertToPage(Again(e), p)}
        BY <1>2, <2>2
    <3>3. PICK g \in ConvertToPage(Again(e), p) : b = Fold(g) BY <3>2
    <3> HIDE DEF x
    <3>4. On(e, before) BY <1>6, <3>2, RemoveOrderIs DEF x
    <3>5. On(Again(e), before) BY <3>4, OnOk DEF Again
    <3>6. On(g, before) BY <3>1, <3>3, <3>5, ConvertToPageIs
    <3>7. CASE g.ok
      <4>1. g.t = before BY <3>6, OnIs
      <4>2. Fold(g) = [g EXCEPT !.t = t]
        <5>1. [g EXCEPT !.t.kind[p] = "page"] = [g EXCEPT !.t = [before EXCEPT !.kind[p] = "page"]]
          BY <3>6, <4>1 DEF On
        <5> QED BY <3>1, <3>7, <5>1
      <4>3. On([g EXCEPT !.t = t], t) BY <3>6, OnTree
      <4> QED BY <3>3, <4>2, <4>3
    <3>8. CASE ~g.ok
      <4>1. b = Again(g) BY <3>3, <3>8
      <4>2. On(Again(g), before) BY <3>6, OnOk DEF Again
      <4> QED BY <4>1, <4>2
    <3> QED BY <3>7, <3>8
  <2> QED BY <2>1, <2>2
<1> HIDE DEF Back, Folded
<1>8. p \in Live(t) /\ old \in Live(t) OBVIOUS
<1>9. Either(c)
  <2>1. CASE On(b, before) BY <1>3, <2>1, SaveChildOrderIs
  <2>2. CASE On(b, t) BY <1>3, <1>8, <2>2, SaveChildOrderIs
  <2> QED BY <1>7, <2>1, <2>2
<1>10. Either(Again(c)) BY <1>9, OnOk DEF Again
<1>11. CASE On(Again(c), before) BY <1>3, <1>11, SaveChildOrderIs
<1>12. CASE On(Again(c), t) BY <1>3, <1>8, <1>12, SaveChildOrderIs
<1> QED BY <1>10, <1>11, <1>12

LEMMA BulkWriteIs ==
    ASSUME NEW w, NEW t, On(w, t), Tidy(t), clock \in Nat, NEW n \in t.nodes
    PROVE  \A v \in BulkWrite(w, n) : On(v, t) \/ On(v, Stamped(t, {n}, Now))
<1> DEFINE u == Stamped(t, {n}, Now)
           Undone(a) == [Again(a) EXCEPT !.t = w.t]
<1> SUFFICES ASSUME NEW v \in BulkWrite(w, n) PROVE On(v, t) \/ On(v, u) OBVIOUS
<1>1. PICK a \in UpsertContent([w EXCEPT !.t = Stamped(@, {n}, Now)], n, Now) : v = IF a.ok THEN a ELSE Undone(a)
    BY DEF BulkWrite
<1>2. w.t = t /\ Now \in Nat BY OnIs DEF Now
<1>3. Tidy(u) /\ u.nodes = t.nodes
  <2>1. ASSUME NEW z \in Nat PROVE Tidy(Stamped(t, {n}, z)) BY StampedOne
  <2>2. ASSUME NEW z \in Nat PROVE Stamped(t, {n}, z).nodes = t.nodes BY StampedInPlace
  <2> QED BY <1>2, <2>1, <2>2
<1>4. [w EXCEPT !.t = Stamped(@, {n}, Now)] = [w EXCEPT !.t = u] BY <1>2
<1> HIDE DEF u
<1>5. On([w EXCEPT !.t = u], u) BY OnTree
<1>6. On(a, u)
  <2>1. WellFormed(u) /\ n \in u.nodes BY <1>3 DEF Tidy
  <2> QED BY <1>1, <1>2, <1>4, <1>5, <2>1, UpsertContentIs
<1>7. On(Undone(a), t)
  <2>1. On(Again(a), u) BY <1>6, OnOk DEF Again
  <2> QED BY <1>2, <2>1, OnTree
<1> QED BY <1>1, <1>6, <1>7

BulkTo(seq, n, g) ==
    g = [i \in 0 .. n |-> IF i = 0 THEN {World} ELSE UNION {BulkWrite(w, seq[i]) : w \in g[i - 1]}]

LEMMA BulkExists ==
    ASSUME NEW seq, NEW n \in Nat
    PROVE  \E g : BulkTo(seq, n, g)
<1> DEFINE Next1(i, r) == UNION {BulkWrite(w, seq[i]) : w \in r}
           Good == {k \in Nat : \E g : BulkTo(seq, k, g)}
<1>1. 0 \in Good
  <2>1. BulkTo(seq, 0, [i \in 0 .. 0 |-> {World}]) BY DEF BulkTo
  <2> QED BY <2>1
<1>2. ASSUME NEW k \in 0 .. n, k \in Good PROVE k + 1 \in Good
  <2>1. PICK g : BulkTo(seq, k, g) BY <1>2
  <2> DEFINE h == [i \in 0 .. k + 1 |-> IF i = k + 1 THEN Next1(k + 1, g[k]) ELSE g[i]]
  <2>2. \A i \in 0 .. k : g[i] = IF i = 0 THEN {World} ELSE Next1(i, g[i - 1]) BY <2>1 DEF BulkTo
  <2> HIDE DEF Next1
  <2>3. \A i \in 0 .. k + 1 : h[i] = IF i = 0 THEN {World} ELSE Next1(i, h[i - 1])
    <3>1. \A i \in 0 .. k : h[i] = g[i] OBVIOUS
    <3>2. h[k + 1] = Next1(k + 1, g[k]) /\ h[k] = g[k] OBVIOUS
    <3> HIDE DEF h
    <3>3. ASSUME NEW i \in 0 .. k, i # 0 PROVE h[i] = Next1(i, h[i - 1])
      <4>1. i - 1 \in 0 .. k BY <3>3
      <4> QED BY <2>2, <3>1, <3>3, <4>1
    <3>4. h[0] = {World} BY <2>2, <3>1
    <3>5. h[k + 1] = Next1(k + 1, h[(k + 1) - 1])
      <4>1. (k + 1) - 1 = k OBVIOUS
      <4> QED BY <3>2, <4>1
    <3>6. \A i \in 0 .. k + 1 : i = k + 1 \/ i \in 0 .. k OBVIOUS
    <3> QED BY <3>3, <3>4, <3>5, <3>6
  <2>4. BulkTo(seq, k + 1, h)
    <3>1. h = [i \in 0 .. k + 1 |-> h[i]] OBVIOUS
    <3> HIDE DEF h
    <3> QED BY <2>3, <3>1 DEF BulkTo, Next1
  <2> QED BY <2>4
<1> HIDE DEF Good
<1>3. \A i \in 0 .. n : i \in Good BY <1>1, <1>2, UpTo
<1> QED BY <1>3 DEF Good

\* w holds the tree, but for the versions of the pages of S.
Rewritten(w, S) ==
    \E f \in [Nodes -> Nat] :
        (\A m \in Nodes \ S : f[m] = tree.ver[m]) /\ On(w, [tree EXCEPT !.ver = f])

LEMMA RewrittenOn ==
    ASSUME Tidy(tree), clock \in Nat, NEW S \in SUBSET tree.nodes, NEW n \in S, NEW w, Rewritten(w, S)
    PROVE  \A v \in BulkWrite(w, n) : Rewritten(v, S)
<1>1. PICK f \in [Nodes -> Nat] : (\A m \in Nodes \ S : f[m] = tree.ver[m]) /\ On(w, [tree EXCEPT !.ver = f])
    BY DEF Rewritten
<1> DEFINE t == [tree EXCEPT !.ver = f]
           g == [m \in Nodes |-> IF m \in {n} THEN Now ELSE f[m]]
           u == Stamped(t, {n}, Now)
<1>2. Record(tree) /\ n \in Nodes BY TidyIs
<1>3. Tidy(t) /\ n \in t.nodes
  <2>1. \A m \in Nodes \ tree.nodes : f[m] = tree.ver[m] BY <1>1
  <2>2. LET x == [tree EXCEPT !.ver = f] IN Tidy(x) /\ x.nodes = tree.nodes BY <2>1, VersionsAreTidy
  <2> QED BY <2>2
<1>4. Now \in Nat BY DEF Now
<1>5. g \in [Nodes -> Nat] /\ \A m \in Nodes \ S : g[m] = tree.ver[m]
  <2> DEFINE v == Now
  <2>1. v \in Nat BY <1>4
  <2>2. g = [m \in Nodes |-> IF m \in {n} THEN v ELSE f[m]] OBVIOUS
  <2> HIDE DEF v, g
  <2>3. \A m \in Nodes \ S : m \notin {n} OBVIOUS
  <2>4. g \in [Nodes -> Nat] BY <2>1, <2>2
  <2>5. \A m \in Nodes \ S : g[m] = f[m] BY <2>2, <2>3
  <2> QED BY <1>1, <2>4, <2>5
<1>6. t = [nodes |-> tree.nodes, parent |-> tree.parent, kids |-> tree.kids, slug |-> tree.slug,
           kind |-> tree.kind, index |-> tree.index, ver |-> f, pinned |-> tree.pinned]
    BY <1>2, OneField
<1> HIDE DEF t
<1>7. u = [t EXCEPT !.ver = g]
  <2>1. \A m \in Nodes : t.ver[m] = f[m] BY <1>6
  <2> QED BY <2>1 DEF Stamped
<1> HIDE DEF g
<1>8. u = [tree EXCEPT !.ver = g]
  <2>1. Record(t) BY <1>6 DEF Record
  <2> HIDE DEF u
  <2>2. u = [nodes |-> t.nodes, parent |-> t.parent, kids |-> t.kids, slug |-> t.slug,
             kind |-> t.kind, index |-> t.index, ver |-> g, pinned |-> t.pinned]
    BY <1>7, <2>1, OneField
  <2> DEFINE x == [tree EXCEPT !.ver = g]
  <2>3. x = [nodes |-> tree.nodes, parent |-> tree.parent, kids |-> tree.kids, slug |-> tree.slug,
             kind |-> tree.kind, index |-> tree.index, ver |-> g, pinned |-> tree.pinned]
    BY <1>2, OneField
  <2> HIDE DEF x
  <2>4. u = x BY <1>6, <2>2, <2>3
  <2> QED BY <2>4 DEF x
<1>9. \A v \in BulkWrite(w, n) : On(v, t) \/ On(v, u) BY <1>1, <1>3, BulkWriteIs DEF t
<1> QED BY <1>1, <1>5, <1>8, <1>9 DEF Rewritten, t

LEMMA BulkWritesAre ==
    ASSUME Tidy(tree), clock \in Nat, On(World, tree), NEW S \in SUBSET tree.nodes, NEW seq \in SetToSeqs(S)
    PROVE  \A w \in BulkWrites(seq)[Len(seq)] : Rewritten(w, S)
<1> DEFINE n == Len(seq)
           g == CHOOSE g : g = [i \in 0 .. n |-> IF i = 0 THEN {World}
                                                 ELSE UNION {BulkWrite(w, seq[i]) : w \in g[i - 1]}]
           Good == {i \in 0 .. n : \A w \in g[i] : Rewritten(w, S)}
<1>1. n \in Nat /\ \A i \in 1 .. n : seq[i] \in S
  <2>1. IsFiniteSet(S)
    <3>1. tree.nodes \subseteq Nodes BY TidyIs
    <3>2. S \subseteq Nodes BY <3>1
    <3>3. IsFiniteSet(Nodes) BY DiskAssumption
    <3> QED BY <3>2, <3>3, FS_Subset
  <2>2. Cardinality(S) \in Nat BY <2>1, FS_CardinalityType
  <2>3. seq \in [1 .. Cardinality(S) -> S] BY DEF SetToSeqs
  <2>4. seq \in Seq(S) BY <2>2, <2>3
  <2> QED BY <2>4, Positions
<1>2. BulkWrites(seq) = g BY DEF BulkWrites
<1>3. g = [i \in 0 .. n |-> IF i = 0 THEN {World} ELSE UNION {BulkWrite(w, seq[i]) : w \in g[i - 1]}]
  <2>1. PICK h : BulkTo(seq, n, h) BY <1>1, BulkExists
  <2>2. h = [i \in 0 .. n |-> IF i = 0 THEN {World} ELSE UNION {BulkWrite(w, seq[i]) : w \in h[i - 1]}]
      BY <2>1 DEF BulkTo
  <2> QED BY <2>2
<1> HIDE DEF g
<1>4. \A i \in 0 .. n : g[i] = IF i = 0 THEN {World} ELSE UNION {BulkWrite(w, seq[i]) : w \in g[i - 1]} BY <1>3
<1>5. 0 \in Good
  <2> HIDE DEF n
  <2>0. 0 \in 0 .. n BY <1>1
  <2>1. 0 \in 0 .. n /\ g[0] = {World} BY <1>4, <2>0
  <2>2. Rewritten(World, S)
    <3>1. TreeType(tree) /\ Record(tree) BY TidyIs
    <3>2. tree.ver \in [Nodes -> Nat] BY <3>1 DEF TreeType
    <3> DEFINE x == [tree EXCEPT !.ver = tree.ver]
    <3>3. x = tree BY <3>1 DEF Record
    <3> QED BY <3>2, <3>3 DEF Rewritten
  <2> QED BY <2>1, <2>2
<1>6. ASSUME NEW i \in 0 .. n, i # n, i \in Good PROVE i + 1 \in Good
  <2>1. i + 1 \in 1 .. n /\ (i + 1) - 1 = i /\ i + 1 \in 0 .. n /\ i + 1 # 0 BY <1>1, <1>6
  <2>2. g[i + 1] = UNION {BulkWrite(w, seq[i + 1]) : w \in g[i]} BY <1>4, <2>1
  <2>3. ASSUME NEW v \in g[i + 1] PROVE Rewritten(v, S)
    <3>1. PICK w \in g[i] : v \in BulkWrite(w, seq[i + 1]) BY <2>2, <2>3
    <3>2. seq[i + 1] \in S /\ Rewritten(w, S) BY <1>1, <1>6, <2>1, <3>1
    <3> QED BY <3>1, <3>2, RewrittenOn
  <2> QED BY <2>1, <2>3
<1> HIDE DEF Good
<1>7. \A i \in 0 .. n : i \in Good BY <1>1, <1>5, <1>6, UpTo
<1>8. n \in Good BY <1>1, <1>7
<1> QED BY <1>2, <1>8 DEF Good

-----------------------------------------------------------------------------
(* The walk over the files, while they change *)

\* An open folder is that of a section of the tree read so far, and its entries
\* left are names; it has seen the slugs of that section's children.
Opened(f, t) ==
    /\ f = [path |-> f.path, node |-> f.node, listed |-> f.listed, left |-> f.left, seen |-> f.seen]
    /\ f.path \in Seq(Slugs) /\ f.node \in Live(t) /\ (f.node = Root \/ t.kind[f.node] = "section")
    /\ IsFiniteSet(f.left) /\ f.left \subseteq Slugs \X {FolderEntry, FileEntry}
    /\ \A n \in t.nodes : t.parent[n] = f.node => t.slug[n] \in f.seen

\* The tree read so far is tidy, and no two open folders are of one section.
Reading(acc) ==
    /\ acc = [t |-> acc.t, open |-> acc.open, is |-> acc.is, now |-> acc.now, d |-> acc.d, taken |-> acc.taken]
    /\ Tidy(acc.t) /\ acc.now \in Nat
    /\ \A f \in acc.open : Opened(f, acc.t)
    /\ \A f, g \in acc.open : f.node = g.node => f = g

LEMMA FolderFields ==
    ASSUME NEW f, NEW t, Opened(f, t), NEW x, NEW y
    PROVE  /\ [f EXCEPT !.left = x, !.seen = y] =
                [path |-> f.path, node |-> f.node, listed |-> f.listed, left |-> x, seen |-> y]
           /\ [f EXCEPT !.listed = TRUE, !.left = x] =
                [path |-> f.path, node |-> f.node, listed |-> TRUE, left |-> x, seen |-> f.seen]
<1>0. f = [path |-> f.path, node |-> f.node, listed |-> f.listed, left |-> f.left, seen |-> f.seen] BY DEF Opened
<1>1. ASSUME NEW r, r = [f EXCEPT !.left = x, !.seen = y]
      PROVE  r = [path |-> f.path, node |-> f.node, listed |-> f.listed, left |-> x, seen |-> y]
    BY <1>0, <1>1
<1>2. ASSUME NEW r, r = [f EXCEPT !.listed = TRUE, !.left = x]
      PROVE  r = [path |-> f.path, node |-> f.node, listed |-> TRUE, left |-> x, seen |-> f.seen]
    BY <1>0, <1>2
<1> QED BY <1>1, <1>2, Zenon

LEMMA ReadingFields ==
    ASSUME NEW acc, NEW t, NEW open, NEW is, NEW d, NEW taken,
           acc = [t |-> acc.t, open |-> acc.open, is |-> acc.is, now |-> acc.now, d |-> acc.d, taken |-> acc.taken]
    PROVE  /\ [acc EXCEPT !.open = open] =
                [t |-> acc.t, open |-> open, is |-> acc.is, now |-> acc.now, d |-> acc.d, taken |-> acc.taken]
           /\ [acc EXCEPT !.open = open, !.is = is] =
                [t |-> acc.t, open |-> open, is |-> is, now |-> acc.now, d |-> acc.d, taken |-> acc.taken]
           /\ [acc EXCEPT !.t = t, !.open = open, !.d = d] =
                [t |-> t, open |-> open, is |-> acc.is, now |-> acc.now, d |-> d, taken |-> acc.taken]
           /\ [acc EXCEPT !.t = t, !.open = open, !.is = is] =
                [t |-> t, open |-> open, is |-> is, now |-> acc.now, d |-> acc.d, taken |-> acc.taken]
           /\ [acc EXCEPT !.d = d, !.taken = taken] =
                [t |-> acc.t, open |-> acc.open, is |-> acc.is, now |-> acc.now, d |-> d, taken |-> taken]
<1>1. ASSUME NEW r, r = [acc EXCEPT !.open = open]
      PROVE  r = [t |-> acc.t, open |-> open, is |-> acc.is, now |-> acc.now, d |-> acc.d, taken |-> acc.taken]
    BY <1>1
<1>2. ASSUME NEW r, r = [acc EXCEPT !.open = open, !.is = is]
      PROVE  r = [t |-> acc.t, open |-> open, is |-> is, now |-> acc.now, d |-> acc.d, taken |-> acc.taken]
    BY <1>2
<1>3. ASSUME NEW r, r = [acc EXCEPT !.t = t, !.open = open, !.d = d]
      PROVE  r = [t |-> t, open |-> open, is |-> acc.is, now |-> acc.now, d |-> d, taken |-> acc.taken]
    BY <1>3
<1>4. ASSUME NEW r, r = [acc EXCEPT !.t = t, !.open = open, !.is = is]
      PROVE  r = [t |-> t, open |-> open, is |-> is, now |-> acc.now, d |-> acc.d, taken |-> acc.taken]
    BY <1>4
<1>5. ASSUME NEW r, r = [acc EXCEPT !.d = d, !.taken = taken]
      PROVE  r = [t |-> acc.t, open |-> acc.open, is |-> acc.is, now |-> acc.now, d |-> d, taken |-> taken]
    BY <1>5
<1> QED BY <1>1, <1>2, <1>3, <1>4, <1>5, Zenon

LEMMA ReadingRecord ==
    ASSUME NEW acc, Reading(acc)
    PROVE  acc = [t |-> acc.t, open |-> acc.open, is |-> acc.is, now |-> acc.now, d |-> acc.d, taken |-> acc.taken]
BY DEF Reading

LEMMA ReadingIs ==
    ASSUME NEW t, NEW open, NEW is, NEW now, NEW d, NEW taken, NEW r,
           r = [t |-> t, open |-> open, is |-> is, now |-> now, d |-> d, taken |-> taken],
           Tidy(t), now \in Nat, \A f \in open : Opened(f, t), \A f, g \in open : f.node = g.node => f = g
    PROVE  Reading(r) /\ r.t = t /\ r.open = open /\ r.is = is /\ r.now = now /\ r.d = d /\ r.taken = taken
<1>1. r.t = t /\ r.open = open /\ r.is = is /\ r.now = now /\ r.d = d /\ r.taken = taken OBVIOUS
<1>2. r = [t |-> r.t, open |-> r.open, is |-> r.is, now |-> r.now, d |-> r.d, taken |-> r.taken] BY <1>1
<1> QED BY <1>1, <1>2 DEF Reading

\* The disk does not matter to the tree read so far.
LEMMA ReadingOn ==
    ASSUME NEW acc, Reading(acc), NEW d, NEW taken, NEW r, r = [acc EXCEPT !.d = d, !.taken = taken]
    PROVE  Reading(r) /\ r.t = acc.t /\ r.d = d /\ r.now = acc.now
<1>1. r = [t |-> acc.t, open |-> acc.open, is |-> acc.is, now |-> acc.now, d |-> d, taken |-> taken]
  <2>1. acc = [t |-> acc.t, open |-> acc.open, is |-> acc.is, now |-> acc.now, d |-> acc.d, taken |-> acc.taken]
      BY ReadingRecord
  <2> QED BY <2>1
<1> QED BY <1>1, ReadingIs DEF Reading

LEMMA EndedIs ==
    ASSUME NEW acc, Reading(acc), NEW is
    PROVE  Reading(EndedAs(acc, is)) /\ EndedAs(acc, is).d = acc.d
<1> DEFINE r == EndedAs(acc, is)
<1>1. r = [acc EXCEPT !.open = {}, !.is = is] BY DEF EndedAs
<1>2. r = [t |-> acc.t, open |-> {}, is |-> is, now |-> acc.now, d |-> acc.d, taken |-> acc.taken]
    BY <1>1, ReadingRecord, ReadingFields
<1> HIDE DEF r
<1>3. Reading(r) /\ r.d = acc.d
  <2> DEFINE none == {}
  <2>1. \A f \in none : Opened(f, acc.t) OBVIOUS
  <2>2. \A f, g \in none : f.node = g.node => f = g OBVIOUS
  <2>3. r = [t |-> acc.t, open |-> none, is |-> is, now |-> acc.now, d |-> acc.d, taken |-> acc.taken] BY <1>2
  <2>4. Tidy(acc.t) /\ acc.now \in Nat BY DEF Reading
  <2> HIDE DEF none
  <2> QED BY <2>1, <2>2, <2>3, <2>4, ReadingIs
<1> QED BY <1>3 DEF r

\* One open folder is replaced by itself further on.
LEMMA FurtherIs ==
    ASSUME NEW acc, Reading(acc), NEW f \in acc.open, NEW g, Opened(g, acc.t), g.node = f.node
    PROVE  LET open == (acc.open \ {f}) \union {g}
               r == [acc EXCEPT !.open = open]
           IN  Reading(r) /\ r.t = acc.t /\ r.open = open /\ r.d = acc.d /\ r.is = acc.is /\ r.now = acc.now
               /\ r.taken = acc.taken
<1> DEFINE open == (acc.open \ {f}) \union {g}
           r == [acc EXCEPT !.open = open]
<1>1. \A h \in open : Opened(h, acc.t) BY DEF Reading
<1>2. \A h, k \in open : h.node = k.node => h = k BY DEF Reading
<1> HIDE DEF open
<1>3. r = [t |-> acc.t, open |-> open, is |-> acc.is, now |-> acc.now, d |-> acc.d, taken |-> acc.taken]
    BY ReadingRecord, ReadingFields
<1> HIDE DEF r
<1>4. Reading(r) /\ r.t = acc.t /\ r.open = open /\ r.d = acc.d /\ r.is = acc.is /\ r.now = acc.now
      /\ r.taken = acc.taken
    BY <1>1, <1>2, <1>3, ReadingIs DEF Reading
<1> QED BY <1>4 DEF r, open

\* An entry is passed over.
LEMMA PassedIs ==
    ASSUME NEW acc, Reading(acc), NEW f \in acc.open, NEW e, NEW seen,
           NEW r, r = Passed(acc, f, e, seen)
    PROVE  /\ Reading(r) /\ r.t = acc.t /\ r.d = acc.d /\ r.is = acc.is /\ r.now = acc.now /\ r.taken = acc.taken
           /\ \E g : /\ r.open = (acc.open \ {f}) \union {g}
                    /\ Opened(g, acc.t) /\ g.node = f.node /\ g.seen = f.seen \union seen
<1> DEFINE left == f.left \ {e}
           all == f.seen \union seen
           g == [f EXCEPT !.left = left, !.seen = all]
<1>1. Opened(f, acc.t) BY DEF Reading
<1>2. IsFiniteSet(left) /\ left \subseteq Slugs \X {FolderEntry, FileEntry}
  <2>1. left \subseteq f.left OBVIOUS
  <2> HIDE DEF left
  <2>2. IsFiniteSet(f.left) /\ f.left \subseteq Slugs \X {FolderEntry, FileEntry} BY <1>1 DEF Opened
  <2> QED BY <2>1, <2>2, FS_Subset
<1>3. \A n \in acc.t.nodes : acc.t.parent[n] = f.node => acc.t.slug[n] \in all BY <1>1 DEF Opened
<1>4. r = [acc EXCEPT !.open = (acc.open \ {f}) \union {g}] BY DEF Passed
<1> HIDE DEF left, all
<1>5. g = [path |-> f.path, node |-> f.node, listed |-> f.listed, left |-> left, seen |-> all]
    BY <1>1, FolderFields
<1> HIDE DEF g
<1>6. /\ g.path = f.path /\ g.node = f.node /\ g.left = left /\ g.seen = all
      /\ g = [path |-> g.path, node |-> g.node, listed |-> g.listed, left |-> g.left, seen |-> g.seen]
    BY <1>5
<1>7. Opened(g, acc.t) BY <1>1, <1>2, <1>3, <1>6 DEF Opened
<1>8. /\ Reading(r) /\ r.t = acc.t /\ r.open = (acc.open \ {f}) \union {g} /\ r.d = acc.d
      /\ r.is = acc.is /\ r.now = acc.now /\ r.taken = acc.taken
    BY <1>4, <1>6, <1>7, FurtherIs
<1> QED BY <1>6, <1>7, <1>8 DEF all

\* A page that is read is a new child of the section whose folder it is in.
LEMMA OpenedOn ==
    ASSUME NEW t, NEW u, NEW n \in Nodes \ t.nodes, NEW p \in Live(t), NEW s, NEW k, NEW v,
           Tidy(t), IsCreated(u, t, n, p, s, k, v), NEW h, Opened(h, t), h.node = p => s \in h.seen
    PROVE  Opened(h, u) /\ h.node # n
<1>1. h.node \in Live(t) BY DEF Opened
<1>2. n \notin Live(t) BY NodesAssumption DEF Live
<1>3. \A m \in t.nodes : m \in Nodes /\ m # n BY <1>2, TidyIs DEF Live
<1>4. h.node \in Live(u) BY <1>1 DEF Live, IsCreated
<1>5. h.node = Root \/ u.kind[h.node] = "section"
  <2>1. CASE h.node = Root BY <2>1
  <2>2. CASE h.node # Root
    <3>1. h.node \in t.nodes /\ t.kind[h.node] = "section" BY <1>1, <2>2 DEF Opened, Live
    <3> QED BY <1>3, <3>1 DEF IsCreated
  <2> QED BY <2>1, <2>2
<1>6. ASSUME NEW m \in u.nodes, u.parent[m] = h.node PROVE u.slug[m] \in h.seen
  <2>1. CASE m = n BY <1>6, <2>1 DEF IsCreated
  <2>2. CASE m \in t.nodes
    <3>1. u.parent[m] = t.parent[m] /\ u.slug[m] = t.slug[m] BY <1>3, <2>2 DEF IsCreated
    <3> QED BY <1>6, <2>2, <3>1 DEF Opened
  <2> QED BY <2>1, <2>2 DEF IsCreated
<1>7. /\ h = [path |-> h.path, node |-> h.node, listed |-> h.listed, left |-> h.left, seen |-> h.seen]
      /\ h.path \in Seq(Slugs) /\ IsFiniteSet(h.left) /\ h.left \subseteq Slugs \X {FolderEntry, FileEntry}
    BY DEF Opened
<1> QED BY <1>1, <1>2, <1>4, <1>5, <1>6, <1>7 DEF Opened

LEMMA NewFolderIs ==
    ASSUME NEW t, NEW u, NEW n \in Nodes \ t.nodes, NEW p \in Live(t), NEW s, NEW v,
           Tidy(t), IsCreated(u, t, n, p, s, "section", v), NEW q \in Seq(Slugs)
    PROVE  Opened(Folder(q, n), u) /\ Folder(q, n).node = n
<1> DEFINE h == Folder(q, n)
<1>1. h = [path |-> q, node |-> n, listed |-> FALSE, left |-> {}, seen |-> {}] BY DEF Folder
<1> HIDE DEF h
<1>2. /\ h.path = q /\ h.node = n /\ h.listed = FALSE /\ h.left = {} /\ h.seen = {}
      /\ h = [path |-> h.path, node |-> h.node, listed |-> h.listed, left |-> h.left, seen |-> h.seen]
    BY <1>1
<1>3. n \in Live(u) /\ u.kind[n] = "section" BY DEF IsCreated, Live
<1>4. n \notin Live(t) BY NodesAssumption DEF Live
<1>5. ASSUME NEW m \in u.nodes PROVE u.parent[m] # n
  <2>1. CASE m = n BY <1>4, <2>1 DEF IsCreated
  <2>2. CASE m \in t.nodes
    <3>1. m \in Nodes /\ m # n /\ t.parent[m] \in Live(t) BY <1>4, <2>2, TidyIs DEF Live
    <3> QED BY <1>4, <3>1 DEF IsCreated
  <2> QED BY <2>1, <2>2 DEF IsCreated
<1>6. IsFiniteSet({}) BY FS_EmptySet
<1>7. Opened(h, u) BY <1>2, <1>3, <1>5, <1>6 DEF Opened
<1> QED BY <1>2, <1>7 DEF h

\* A folder gets an index.md, and is there afterwards.
LEMMA IndexedIsSound ==
    ASSUME NEW d, DiskSound(d), NEW q, IsFolder(q), NEW file \in FileT
    PROVE  DiskSound(Indexed(d, q, file))
<1> DEFINE dirs == d.dirs \union {SubSeq(q, 1, i) : i \in 1 .. Len(q)}
           x == Append(q, IndexFile)
           e == [d EXCEPT !.dirs = dirs]
           md == Put(d.md, x, file)
           a == Indexed(d, q, file)
<1>1. DiskSound(e) /\ IsDir(e, q) /\ e.md = d.md /\ e.ord = d.ord BY FoldersMade DEF IsFolder
<1>2. IsFileName(x) /\ Front(x) = q BY FoldersAreFileNames
<1>3. d = [dirs |-> d.dirs, md |-> d.md, ord |-> d.ord] BY DEF DiskSound
<1>4. a = [d EXCEPT !.md = md, !.dirs = dirs] BY DEF Indexed
<1> HIDE DEF dirs, md, a
<1>5. a = [dirs |-> dirs, md |-> md, ord |-> d.ord] BY <1>3, <1>4
<1>6. e = [dirs |-> dirs, md |-> d.md, ord |-> d.ord] BY <1>3, DiskFields
<1> HIDE DEF e
<1>7. e.dirs = dirs BY <1>6
<1>8. [e EXCEPT !.md = Put(e.md, x, file)] = [dirs |-> dirs, md |-> md, ord |-> d.ord]
  <2>1. [e EXCEPT !.md = Put(e.md, x, file)] = [dirs |-> e.dirs, md |-> Put(e.md, x, file), ord |-> e.ord]
      BY <1>6, <1>7, <1>1, DiskFields
  <2> QED BY <1>1, <1>7, <2>1 DEF md
<1>9. DiskSound([e EXCEPT !.md = Put(e.md, x, file)]) BY <1>1, <1>2, WrittenIsSound
<1> QED BY <1>5, <1>8, <1>9 DEF a

LEMMA EnteredIs ==
    ASSUME NEW acc, Reading(acc), DiskSound(acc.d), NEW f \in acc.open, NEW e \in Slugs \X {FolderEntry, FileEntry},
           ~Gone(acc, f, e)
    PROVE  Reading(Entered(acc, f, e)) /\ DiskSound(Entered(acc, f, e).d)
<1> DEFINE s == e[1]
           q == Append(f.path, s)
           isDir == e[2] = FolderEntry
           x == IF isDir THEN Append(q, IndexFile) ELSE q
           has == x \in DOMAIN acc.d.md
           new == Unused(acc.d, [acc.t EXCEPT !.nodes = @ \union acc.taken])
           n == IF has THEN acc.d.md[x].id ELSE CHOOSE m \in new : TRUE
           file == IF has THEN acc.d.md[x] ELSE File(n, acc.now, 0, FALSE)
           k == IF isDir THEN "section" ELSE "page"
           t == Created(acc.t, n, f.node, s, k, file.ver)
           u == IF file.pin THEN [t EXCEPT !.pinned = @ \union {n}] ELSE t
           P == Passed(acc, f, e, {s})
           open == IF isDir THEN P.open \union {Folder(q, n)} ELSE P.open
           d == IF has THEN P.d ELSE Indexed(P.d, q, file)
           r == [P EXCEPT !.t = u, !.open = open, !.d = d]
<1>1. Entered(acc, f, e) = IF s \in f.seen THEN EndedAs(acc, "failed")
                           ELSE IF ~has /\ new = {} THEN EndedAs(acc, "short")
                           ELSE IF n \in acc.t.nodes THEN P
                           ELSE r
    BY DEF Entered
<1>0. PICK g : /\ P.open = (acc.open \ {f}) \union {g}
               /\ Opened(g, acc.t) /\ g.node = f.node /\ g.seen = f.seen \union {s}
  <2>1. P = Passed(acc, f, e, {s}) OBVIOUS
  <2> HIDE DEF P, s
  <2> QED BY <2>1, PassedIs
<1>2. /\ Opened(g, acc.t) /\ g.node = f.node /\ g.seen = f.seen \union {s}
      /\ Reading(P) /\ P.t = acc.t /\ P.open = (acc.open \ {f}) \union {g} /\ P.d = acc.d
      /\ P.is = acc.is /\ P.now = acc.now /\ P.taken = acc.taken
  <2>1. P = Passed(acc, f, e, {s}) OBVIOUS
  <2> HIDE DEF P, s
  <2>2. /\ Reading(P) /\ P.t = acc.t /\ P.d = acc.d
        /\ P.is = acc.is /\ P.now = acc.now /\ P.taken = acc.taken
      BY <2>1, PassedIs
  <2> QED BY <1>0, <2>2
<1>3. Opened(f, acc.t) /\ Tidy(acc.t) /\ acc.now \in Nat BY DEF Reading
<1>4. s \in Slugs /\ (isDir \/ e[2] = FileEntry) OBVIOUS
<1>5. IsFolder(q) /\ q \in Seq(Slugs)
  <2>1. f.path \in Seq(Slugs) BY <1>3 DEF Opened
  <2>2. q \in Seq(Slugs) /\ q # <<>> BY <1>4, <2>1, AppendProperties, EndsOfAppend
  <2> QED BY <2>2 DEF IsFolder
<1>6. has \/ isDir BY <1>4 DEF Gone
<1> HIDE DEF P
<1>7. ASSUME s \notin f.seen, has \/ new # {}, n \notin acc.t.nodes PROVE Reading(r) /\ DiskSound(r.d)
  <2>1. n \in Nodes /\ file \in FileT
    <3>1. CASE has
      <4>1. acc.d.md[x] \in FileT BY <3>1 DEF DiskSound
      <4> HIDE DEF x, has
      <4> QED BY <3>1, <4>1 DEF FileT
    <3>2. CASE ~has
      <4>1. n \in new BY <1>7, <3>2
      <4>2. n \in Nodes BY <4>1, UnusedIsFinite
      <4>3. file = File(n, acc.now, 0, FALSE) BY <3>2
      <4> HIDE DEF n, file, x, has
      <4>4. file \in FileT BY <1>3, <4>2, <4>3 DEF File, FileT
      <4> QED BY <4>2, <4>4
    <3> QED BY <3>1, <3>2
  <2>2. file.ver \in Nat /\ file.pin \in BOOLEAN
    <3> HIDE DEF file
    <3> QED BY <2>1 DEF FileT
  <2>3. k \in Kinds /\ (isDir => k = "section") BY DEF Kinds
  <2>4. DiskSound(d)
    <3>1. CASE has BY <1>2, <3>1
    <3>2. CASE ~has
      <4> HIDE DEF file, q
      <4> QED BY <1>2, <1>5, <2>1, <3>2, IndexedIsSound
    <3> QED BY <3>1, <3>2
  <2> HIDE DEF n, file, x, k, has, q, s, d, new, isDir
  <2>5. f.node \in Live(acc.t) /\ (f.node = Root \/ acc.t.kind[f.node] = "section") BY <1>3 DEF Opened
  <2>6. Find(acc.t, f.node, s) = {}
    <3>1. Find(acc.t, f.node, s) = {m \in Children(acc.t, f.node) : acc.t.slug[m] = s}
        BY <1>3, <2>5, Branches DEF Tidy
    <3>2. \A m \in acc.t.nodes : acc.t.parent[m] = f.node => acc.t.slug[m] # s BY <1>3, <1>7 DEF Opened
    <3> QED BY <3>1, <3>2 DEF Children
  <2>7. Tidy(t) /\ IsCreated(t, acc.t, n, f.node, s, k, file.ver)
      BY <1>3, <1>4, <1>7, <2>1, <2>2, <2>3, <2>5, <2>6, CreatedIsTidy
  <2> HIDE DEF t
  <2>8. \A h \in P.open : Opened(h, t) /\ h.node # n
    <3>1. ASSUME NEW h \in P.open PROVE h.node = f.node => s \in h.seen
      <4>1. CASE h = g BY <1>2, <4>1
      <4>2. CASE h \in acc.open \ {f} BY <4>2 DEF Reading
      <4> QED BY <1>2, <4>1, <4>2
    <3>2. \A h \in P.open : Opened(h, acc.t) BY <1>2 DEF Reading
    <3> QED BY <1>3, <1>7, <2>1, <2>5, <2>7, <3>1, <3>2, OpenedOn
  <2>9. isDir => Opened(Folder(q, n), t) /\ Folder(q, n).node = n
      BY <1>3, <1>5, <1>7, <2>1, <2>3, <2>5, <2>7, NewFolderIs
  <2>10. \A h \in open : Opened(h, t) BY <2>8, <2>9
  <2>11. \A h, j \in open : h.node = j.node => h = j
    <3>1. \A h, j \in P.open : h.node = j.node => h = j BY <1>2 DEF Reading
    <3> QED BY <2>8, <2>9, <3>1
  <2> HIDE DEF open
  <2>12. Tidy(u) /\ \A h \in open : Opened(h, u)
    <3>1. CASE ~file.pin BY <2>7, <2>10, <3>1
    <3>2. CASE file.pin
      <4> DEFINE pins == t.pinned \union {n}
      <4>1. u = [t EXCEPT !.pinned = pins] BY <3>2
      <4>2. Record(t) /\ t.pinned \subseteq t.nodes /\ n \in t.nodes BY <2>7, TidyIs DEF TreeType, IsCreated
      <4>3. pins \in SUBSET t.nodes BY <4>2
      <4> HIDE DEF u, pins
      <4>4. Tidy(u) BY <2>7, <4>1, <4>3, PinnedIsTidy
      <4>5. u = [nodes |-> t.nodes, parent |-> t.parent, kids |-> t.kids, slug |-> t.slug,
                 kind |-> t.kind, index |-> t.index, ver |-> t.ver, pinned |-> pins]
          BY <4>1, <4>2, OneField
      <4>6. u.nodes = t.nodes /\ u.parent = t.parent /\ u.slug = t.slug /\ u.kind = t.kind BY <4>5
      <4> QED BY <2>10, <4>4, <4>6 DEF Opened, Live
    <3> QED BY <2>2, <3>1, <3>2
  <2> HIDE DEF u, r
  <2>13. r = [t |-> u, open |-> open, is |-> P.is, now |-> P.now, d |-> d, taken |-> P.taken]
    <3>1. r = [P EXCEPT !.t = u, !.open = open, !.d = d] BY DEF r
    <3>2. P = [t |-> P.t, open |-> P.open, is |-> P.is, now |-> P.now, d |-> P.d, taken |-> P.taken]
        BY <1>2, ReadingRecord
    <3> QED BY <3>1, <3>2
  <2>14. Reading(r) /\ r.d = d BY <1>2, <1>3, <2>11, <2>12, <2>13, ReadingIs
  <2> QED BY <2>4, <2>14
<1> HIDE DEF n, new, has, s, r
<1>8. CASE s \in f.seen BY <1>1, <1>8, EndedIs
<1>9. CASE s \notin f.seen /\ ~has /\ new = {} BY <1>1, <1>9, EndedIs
<1>10. CASE s \notin f.seen /\ (has \/ new # {})
  <2>1. CASE n \in acc.t.nodes BY <1>1, <1>2, <1>10, <2>1
  <2>2. CASE n \notin acc.t.nodes BY <1>1, <1>7, <1>10, <2>2
  <2> QED BY <2>1, <2>2
<1> QED BY <1>8, <1>9, <1>10

LEMMA VisitIs ==
    ASSUME NEW acc, Reading(acc), DiskSound(acc.d), NEW f \in acc.open, NEW e \in Slugs \X {FolderEntry, FileEntry}
    PROVE  Reading(Visit(acc, f, e)) /\ DiskSound(Visit(acc, f, e).d)
<1>1. CASE Gone(acc, f, e)
  <2>1. Visit(acc, f, e) = Passed(acc, f, e, {}) BY <1>1 DEF Visit
  <2>2. Reading(Visit(acc, f, e)) /\ Visit(acc, f, e).d = acc.d BY <2>1, PassedIs
  <2> QED BY <2>1, <2>2
<1>2. CASE ~Gone(acc, f, e) BY <1>2, EnteredIs DEF Visit
<1> QED BY <1>1, <1>2

\* What a folder lists are names.
LEMMA ListingIs ==
    ASSUME NEW d, DiskSound(d), NEW p
    PROVE  IsFiniteSet(Listing(d, p)) /\ Listing(d, p) \subseteq Slugs \X {FolderEntry, FileEntry}
<1> DEFINE A == {q \in d.dirs : Front(q) = p}
           B == {q \in DOMAIN d.md : Front(q) = p /\ Last(q) # IndexFile}
           C == {<<Last(q), FolderEntry>> : q \in A}
           D == {<<Last(q), FileEntry>> : q \in B}
<1>1. Listing(d, p) = C \union D BY DEF Listing
<1>2. IsFiniteSet(A) /\ IsFiniteSet(B)
  <2>1. IsFiniteSet(d.dirs) /\ IsFiniteSet(DOMAIN d.md) BY DEF DiskSound
  <2> QED BY <2>1, FS_Subset
<1>3. \A q \in A : Last(q) \in Slugs BY FoldersAreFileNames DEF DiskSound
<1>4. \A q \in B : Last(q) \in Slugs BY FileNames DEF DiskSound
<1> HIDE DEF A, B
<1>5. IsFiniteSet(C)
  <2> DEFINE f == [q \in A |-> <<Last(q), FolderEntry>>]
  <2>1. C = {f[q] : q \in A} OBVIOUS
  <2> HIDE DEF f, C
  <2> QED BY <1>2, <2>1, ImageIsFinite
<1>6. IsFiniteSet(D)
  <2> DEFINE f == [q \in B |-> <<Last(q), FileEntry>>]
  <2>1. D = {f[q] : q \in B} OBVIOUS
  <2> HIDE DEF f, D
  <2> QED BY <1>2, <2>1, ImageIsFinite
<1>7. C \union D \subseteq Slugs \X {FolderEntry, FileEntry} BY <1>3, <1>4
<1> HIDE DEF C, D
<1> QED BY <1>1, <1>5, <1>6, <1>7, FS_Union

LEMMA ListIs ==
    ASSUME NEW acc, Reading(acc), DiskSound(acc.d), NEW f \in acc.open
    PROVE  Reading(List(acc, f)) /\ DiskSound(List(acc, f).d)
<1>1. CASE ~IsDir(acc.d, f.path)
  <2>1. List(acc, f) = EndedAs(acc, "failed") BY <1>1 DEF List
  <2> QED BY <2>1, EndedIs
<1>2. CASE IsDir(acc.d, f.path)
  <2> DEFINE left == Listing(acc.d, f.path)
             g == [f EXCEPT !.listed = TRUE, !.left = left]
             r == List(acc, f)
  <2>1. r = [acc EXCEPT !.open = (acc.open \ {f}) \union {g}] BY <1>2 DEF List
  <2>2. Opened(f, acc.t) BY DEF Reading
  <2>3. IsFiniteSet(left) /\ left \subseteq Slugs \X {FolderEntry, FileEntry} BY ListingIs
  <2> HIDE DEF left, r
  <2>4. g = [path |-> f.path, node |-> f.node, listed |-> TRUE, left |-> left, seen |-> f.seen]
      BY <2>2, FolderFields
  <2> HIDE DEF g
  <2>5. /\ g.path = f.path /\ g.node = f.node /\ g.left = left /\ g.seen = f.seen
        /\ g = [path |-> g.path, node |-> g.node, listed |-> g.listed, left |-> g.left, seen |-> g.seen]
      BY <2>4
  <2>6. Opened(g, acc.t) BY <2>2, <2>3, <2>5 DEF Opened
  <2>7. Reading(r) /\ r.d = acc.d BY <2>1, <2>5, <2>6, FurtherIs
  <2> QED BY <2>7 DEF r
<1> QED BY <1>1, <1>2

\* A folder that has been read is given the order of its order file.
LEMMA LeaveIs ==
    ASSUME NEW acc, Reading(acc), DiskSound(acc.d), NEW f \in acc.open
    PROVE  Reading(Leave(acc, f)) /\ Leave(acc, f).d = acc.d
<1> DEFINE order == IF f.path \in DOMAIN acc.d.ord THEN acc.d.ord[f.path] ELSE <<>>
           n == f.node
           seq == Ordered(acc.t.kids[n], order)
           kids == [acc.t.kids EXCEPT ![n] = seq]
           u == [acc.t EXCEPT !.kids = kids]
           open == acc.open \ {f}
           is == IF f.node = Root THEN "read" ELSE acc.is
           r == Leave(acc, f)
<1>1. r = [acc EXCEPT !.t = u, !.open = open, !.is = is] BY DEF Leave
<1>2. Opened(f, acc.t) /\ Tidy(acc.t) /\ acc.now \in Nat BY DEF Reading
<1>3. TreeType(acc.t) /\ Record(acc.t) /\ Sliced(acc.t) BY <1>2, TidyIs, Branches DEF Tidy
<1>4. n \in Live(acc.t) /\ n \in Places BY <1>2, <1>3 DEF Opened, Live, Places, TreeType
<1>5. order \in Seq(Nodes)
  <2>1. <<>> \in Seq(Nodes) BY EmptySeq
  <2> QED BY <2>1 DEF DiskSound
<1> HIDE DEF order
<1>6. acc.t.kids \in [Places -> Seq(Nodes)] BY <1>3 DEF TreeType
<1>7. seq \in Seq(Nodes) /\ Once(seq) /\ ToSet(seq) = ToSet(acc.t.kids[n]) BY <1>4, <1>5, <1>6, OrderedOnce
<1> HIDE DEF seq, n
<1>8. /\ kids \in [Places -> Seq(Nodes)]
      /\ \A q \in Places : Once(kids[q]) /\ ToSet(kids[q]) = ToSet(acc.t.kids[q])
    BY <1>3, <1>4, <1>6, <1>7 DEF Sliced
<1>9. \A q \in Places \ Live(acc.t) : kids[q] = <<>>
  <2>1. SUFFICES ASSUME NEW q \in Places \ Live(acc.t) PROVE kids[q] = <<>> OBVIOUS
  <2>2. q \in Nodes \ acc.t.nodes /\ q # n BY <1>4, <2>1 DEF Places, Live
  <2>3. acc.t.kids[q] = <<>> BY <1>2, <2>2 DEF Tidy, Blank
  <2> QED BY <1>6, <2>1, <2>2, <2>3
<1> HIDE DEF kids
<1>10. Tidy(u) BY <1>2, <1>8, <1>9, ReorderedIsTidy
<1>11. u = [nodes |-> acc.t.nodes, parent |-> acc.t.parent, kids |-> kids, slug |-> acc.t.slug,
            kind |-> acc.t.kind, index |-> acc.t.index, ver |-> acc.t.ver, pinned |-> acc.t.pinned]
    BY <1>3, OneField
<1> HIDE DEF u
<1>12. u.nodes = acc.t.nodes /\ u.parent = acc.t.parent /\ u.slug = acc.t.slug /\ u.kind = acc.t.kind BY <1>11
<1>13. \A h \in acc.open : Opened(h, u) BY <1>12 DEF Opened, Live, Reading
<1>14. \A h, j \in open : h.node = j.node => h = j BY DEF Reading
<1>15. \A h \in open : Opened(h, u) BY <1>13
<1> HIDE DEF open, is, r
<1>16. r = [t |-> u, open |-> open, is |-> is, now |-> acc.now, d |-> acc.d, taken |-> acc.taken]
    BY <1>1, ReadingRecord, ReadingFields
<1>17. Reading(r) /\ r.d = acc.d BY <1>2, <1>10, <1>14, <1>15, <1>16, ReadingIs
<1> QED BY <1>17 DEF r

LEMMA PairOf == ASSUME NEW A, NEW B, NEW x \in A \X B PROVE x = <<x[1], x[2]>> /\ x[1] \in A /\ x[2] \in B
OBVIOUS

LEMMA PairIsSeq == ASSUME NEW a \in Nat, NEW b \in Nat PROVE <<a, b>> \in Seq(Nat)
BY SMT

LEMMA PairsAreSeqs == ASSUME NEW A, NEW B, A \subseteq Nat, B \subseteq Nat PROVE A \X B \subseteq Seq(Nat)
<1>1. ASSUME NEW x \in A \X B PROVE x \in Seq(Nat)
  <2>1. x[1] \in A /\ x[2] \in B OBVIOUS
  <2>2. x = <<x[1], x[2]>> BY <1>1, PairOf
  <2>3. x[1] \in Nat /\ x[2] \in Nat BY <2>1
  <2>4. <<x[1], x[2]>> \in Seq(Nat) BY <2>3, PairIsSeq
  <2> QED BY <2>2, <2>4
<1> QED BY <1>1

\* Whatever the disk holds by now, the walk goes on with a tree, and what it
\* adds to the disk is sound.
LEMMA WalkOnIs ==
    ASSUME NEW acc, Reading(acc), DiskSound(acc.d)
    PROVE  Reading(WalkOn(acc)) /\ DiskSound(WalkOn(acc).d)
<1> DEFINE f == CHOOSE f \in Innermost(acc.open) : TRUE
<1>1. CASE Innermost(acc.open) = {} BY <1>1 DEF WalkOn
<1>2. CASE Innermost(acc.open) # {}
  <2>1. f \in acc.open BY <1>2 DEF Innermost
  <2>2. WalkOn(acc) = IF ~f.listed THEN List(acc, f)
                      ELSE IF f.left = {} THEN Leave(acc, f)
                      ELSE Visit(acc, f, First(f.left))
      BY <1>2 DEF WalkOn
  <2> HIDE DEF f
  <2>3. Opened(f, acc.t) BY <2>1 DEF Reading
  <2>4. f.left # {} => First(f.left) \in Slugs \X {FolderEntry, FileEntry}
    <3>1. IsFiniteSet(f.left) /\ f.left \subseteq Slugs \X {FolderEntry, FileEntry} BY <2>3 DEF Opened
    <3>2. Slugs \X {FolderEntry, FileEntry} \subseteq Seq(Nat)
      <4>1. Slugs \subseteq Nat /\ {FolderEntry, FileEntry} \subseteq Nat BY DiskAssumption DEF FolderEntry, FileEntry
      <4> QED BY <4>1, PairsAreSeqs
    <3> QED BY <3>1, <3>2, FirstIsIn
  <2>5. CASE ~f.listed BY <2>1, <2>2, <2>5, ListIs
  <2>6. CASE f.listed /\ f.left = {} BY <2>1, <2>2, <2>6, LeaveIs
  <2>7. CASE f.listed /\ f.left # {} BY <2>1, <2>2, <2>4, <2>7, VisitIs
  <2> QED BY <2>5, <2>6, <2>7
<1> QED BY <1>1, <1>2

LEMMA StartIs ==
    ASSUME NEW d, NEW now \in Nat
    PROVE  Reading(WalkStart(d, now)) /\ WalkStart(d, now).d = d
<1> DEFINE r == WalkStart(d, now)
           h == Folder(<<>>, Root)
           t == EmptyTree
<1>1. r = [t |-> t, open |-> {h}, is |-> "reading", now |-> now, d |-> d, taken |-> {}] BY DEF WalkStart
<1>2. h = [path |-> <<>>, node |-> Root, listed |-> FALSE, left |-> {}, seen |-> {}] BY DEF Folder
<1> HIDE DEF r, h
<1>3. /\ h.path = <<>> /\ h.node = Root /\ h.left = {} /\ h.seen = {}
      /\ h = [path |-> h.path, node |-> h.node, listed |-> h.listed, left |-> h.left, seen |-> h.seen]
    BY <1>2
<1>4. Tidy(t) /\ t.nodes = {} BY EmptyIsTidy DEF EmptyTree
<1> HIDE DEF t
<1>5. <<>> \in Seq(Slugs) /\ IsFiniteSet({}) BY EmptySeq, FS_EmptySet
<1>6. Opened(h, t) BY <1>3, <1>4, <1>5 DEF Opened, Live
<1>7. \A f \in {h} : Opened(f, t) BY <1>6
<1>8. \A f, g \in {h} : f.node = g.node => f = g OBVIOUS
<1>9. Reading(r) /\ r.d = d BY <1>1, <1>4, <1>7, <1>8, ReadingIs
<1> QED BY <1>9 DEF r

LEMMA IdleIs == Reading(NoScan)
<1> DEFINE r == NoScan
<1>1. r = [t |-> EmptyTree, open |-> {}, is |-> "idle", now |-> 0, d |-> NoDisk, taken |-> {}] BY DEF NoScan
<1> HIDE DEF r
<1>2. Reading(r) BY <1>1, EmptyIsTidy, ReadingIs
<1> QED BY <1>2 DEF r

\* So the tree that a restart reads is a tree, whatever the disk holds.
LEMMA WalkFinds ==
    ASSUME NEW d, DiskSound(d), NEW now \in Nat
    PROVE  Tidy(Walk(d, now).t) /\ DiskSound(Walk(d, now).d)
<1>0. IsFiniteSet(d.dirs) /\ IsFiniteSet(DOMAIN d.md) BY DEF DiskSound
<1>1. PICK n \in Nat : \E g : Walked(d, now, n, g) BY <1>0, WalkIs
<1>2. PICK g : /\ Walk(d, now) = g[n] /\ g[0] = WalkStart(d, now)
               /\ \A i \in 1 .. n : g[i] = WalkOn(g[i - 1])
    BY <1>1 DEF Walked
<1> DEFINE S == {i \in 0 .. n : Reading(g[i]) /\ DiskSound(g[i].d)}
<1>3. 0 \in S BY <1>2, StartIs
<1>4. ASSUME NEW i \in 0 .. n, i # n, i \in S PROVE i + 1 \in S
  <2>1. i + 1 \in 1 .. n /\ (i + 1) - 1 = i /\ i + 1 \in 0 .. n BY <1>4
  <2>2. g[i + 1] = WalkOn(g[i]) BY <1>2, <2>1
  <2>3. Reading(g[i + 1]) /\ DiskSound(g[i + 1].d) BY <1>4, <2>2, WalkOnIs
  <2> QED BY <2>1, <2>3
<1> HIDE DEF S
<1>5. \A i \in 0 .. n : i \in S BY <1>3, <1>4, UpTo
<1>6. n \in S BY <1>5
<1> QED BY <1>2, <1>6 DEF S, Reading

-----------------------------------------------------------------------------
(* The steps *)

\* What every step of the service keeps: the trees in memory, the resync's new
\* one among them, are tidy, and the disk can be read.
Sound ==
    /\ Tidy(tree) /\ DiskSound(disk)
    /\ Reading(scan)
    /\ clock \in Nat

LEMMA WorldIs ==
    ASSUME Sound
    PROVE  On(World, tree)
BY DEF Sound, World, On

After(u) == tree' = u /\ loads' = loads /\ Sound'

LEMMA EndsIs ==
    ASSUME Sound, NEW w, NEW u, On(w, u), Tidy(u), Ends(w)
    PROVE  After(u)
<1>1. w.t = u /\ DiskSound(w.d) BY OnIs
<1>2. tree' = u /\ disk' = w.d /\ clock' = clock + 1 /\ loads' = loads /\ scan' = scan BY <1>1 DEF Ends, Now
<1>3. Tidy(tree') BY <1>2
<1>4. DiskSound(disk') BY <1>1, <1>2
<1>5. Reading(scan)' BY <1>2 DEF Sound
<1>6. clock' \in Nat BY <1>2 DEF Sound
<1> QED BY <1>2, <1>3, <1>4, <1>5, <1>6 DEF After, Sound

LEMMA MadeIs ==
    ASSUME NEW t, Tidy(t), NEW n \in Nodes, NEW p, NEW s \in Slugs, NEW k \in Kinds, MayCreate(t, n, p, s),
           NEW v \in Nat
    PROVE  LET u == AsSection(t, p)
               new == Created(u, n, p, s, k, v)
           IN  /\ Tidy(u) /\ Tidy(new) /\ new.ver[n] = v /\ new.nodes = t.nodes \union {n}
               /\ IsCreated(new, u, n, p, s, k, v) /\ TreeType(u) /\ p \in Live(t) /\ p \in Places
<1> DEFINE u == AsSection(t, p)
           new == Created(u, n, p, s, k, v)
<1>1. n \notin t.nodes /\ p \in Live(t) /\ Find(t, p, s) = {} BY DEF MayCreate
<1>2. /\ Tidy(u) /\ u.nodes = t.nodes /\ Live(u) = Live(t) /\ u.index = t.index
      /\ p = Root \/ u.kind[p] = "section"
    BY <1>1, SectionIsTidy
<1> HIDE DEF u
<1>3. Find(u, p, s) = {} /\ n \in Nodes \ u.nodes /\ p \in Live(u) BY <1>1, <1>2 DEF Find
<1>4. Tidy(new) /\ IsCreated(new, u, n, p, s, k, v) BY <1>2, <1>3, CreatedIsTidy
<1>5. new.ver[n] = v /\ new.nodes = t.nodes \union {n} BY <1>2, <1>4 DEF IsCreated
<1>6. TreeType(u) BY <1>2, TidyIs
<1>7. p \in Places
  <2>1. TreeType(t) BY TidyIs
  <2> QED BY <1>1, <2>1 DEF Live, Places, TreeType
<1> QED BY <1>1, <1>2, <1>4, <1>5, <1>6, <1>7 DEF u

\* How the end of a creation looks to the caller.
LEMMA MadeStep ==
    ASSUME Sound, NEW n \in Nodes, NEW p, NEW s \in Slugs, NEW k \in Kinds, MayCreate(tree, n, p, s),
           NEW v \in Nat, NEW w, Ends(w),
           On(w, tree) \/ On(w, AsSection(tree, p)) \/ On(w, Created(AsSection(tree, p), n, p, s, k, v))
    PROVE  Sound' /\ loads' = loads /\ (tree' = tree \/ Creates(n, p, s, k))
<1> DEFINE u == AsSection(tree, p)
           new == Created(u, n, p, s, k, v)
<1>1. Tidy(tree) BY DEF Sound
<1>2. Tidy(u) /\ Tidy(new) /\ new.ver[n] = v BY <1>1, MadeIs
<1> HIDE DEF u, new
<1>3. CASE On(w, tree)
  <2>1. After(tree) BY <1>1, <1>3, EndsIs
  <2> QED BY <2>1 DEF After
<1>4. CASE On(w, u)
  <2>1. After(u) BY <1>2, <1>4, EndsIs
  <2>2. tree' = u BY <2>1 DEF After
  <2> QED BY <2>1, <2>2 DEF After, Creates, u
<1>5. CASE On(w, new)
  <2>1. After(new) BY <1>2, <1>5, EndsIs
  <2>2. tree' = new /\ tree'.ver[n] = v BY <1>2, <2>1 DEF After
  <2> QED BY <2>1, <2>2 DEF After, Creates, u, new
<1> QED BY <1>3, <1>4, <1>5 DEF u, new

LEMMA CreateNodeStep ==
    ASSUME Sound, NEW p \in Places, NEW s \in Slugs, NEW k \in Kinds, CreateNode(p, s, k)
    PROVE  Sound' /\ loads' = loads /\ (tree' = tree \/ \E n \in Nodes : Creates(n, p, s, k))
<1> DEFINE n == CHOOSE m \in Fresh : TRUE
<1>1. PICK w \in Create(World, n, p, s, k) : Fresh # {} /\ MayCreate(tree, n, p, s) /\ Ends(w) BY DEF CreateNode
<1>2. Fresh \subseteq Nodes BY UnusedIsFinite DEF Fresh
<1>3. n \in Nodes BY <1>1, <1>2
<1> HIDE DEF n
<1>4. On(World, tree) /\ Tidy(tree) /\ clock \in Nat /\ Now \in Nat BY WorldIs DEF Sound, Now
<1>5. On(w, tree) \/ On(w, AsSection(tree, p)) \/ On(w, Created(AsSection(tree, p), n, p, s, k, Now))
    BY <1>1, <1>3, <1>4, CreateIs
<1>6. Sound' /\ loads' = loads /\ (tree' = tree \/ Creates(n, p, s, k)) BY <1>1, <1>3, <1>4, <1>5, MadeStep
<1> QED BY <1>3, <1>6

LEMMA RestoreNodeStep ==
    ASSUME Sound, NEW n \in Nodes, NEW p \in Places, NEW s \in Slugs, NEW k \in Kinds, RestoreNode(n, p, s, k)
    PROVE  Sound' /\ loads' = loads /\ (tree' = tree \/ Creates(n, p, s, k))
<1> DEFINE u == AsSection(tree, p)
           new == Created(u, n, p, s, k, Now)
           Stamp(b) == [b EXCEPT !.t = Stamped(@, {n}, 0)]
<1>1. PICK a \in Create(World, n, p, s, k) :
        /\ MayCreate(tree, n, p, s)
        /\ IF ~a.ok THEN Ends(a)
           ELSE \E b \in UpsertContent(a, n, Now) :
                  IF ~b.ok THEN Ends(b) ELSE \E c \in SyncFrontmatter(Stamp(b), n) : Ends(c)
    BY DEF RestoreNode
<1>2. On(World, tree) /\ Tidy(tree) /\ clock \in Nat /\ Now \in Nat BY WorldIs DEF Sound, Now
<1>3. \/ a.ok /\ On(a, new)
      \/ ~a.ok /\ (On(a, tree) \/ On(a, u))
    BY <1>1, <1>2, CreateIs
<1>4. CASE ~a.ok
  <2>1. Ends(a) BY <1>1, <1>4
  <2> QED BY <1>1, <1>2, <1>3, <1>4, <2>1, MadeStep
<1>5. CASE a.ok
  <2>1. PICK b \in UpsertContent(a, n, Now) :
          IF ~b.ok THEN Ends(b) ELSE \E c \in SyncFrontmatter(Stamp(b), n) : Ends(c)
      BY <1>1, <1>5
  <2>2. /\ Tidy(new) /\ WellFormed(new) /\ n \in new.nodes /\ TreeType(u) /\ p \in Places
      BY <1>1, <1>2, MadeIs DEF Tidy
  <2>3. On(b, new) BY <1>2, <1>3, <1>5, <2>1, <2>2, UpsertContentIs
  <2>4. CASE ~b.ok
    <3>1. Ends(b) BY <2>1, <2>4
    <3> QED BY <1>1, <1>2, <2>3, <3>1, MadeStep
  <2>5. CASE b.ok
    <3> DEFINE old == Created(u, n, p, s, k, 0)
    <3>1. PICK c \in SyncFrontmatter(Stamp(b), n) : Ends(c) BY <2>1, <2>5
    <3>2. Stamped(new, {n}, 0) = old BY <2>2, StampedCreated
    <3>3. b.t = new BY <2>3, OnIs
    <3>4. Stamp(b) = [b EXCEPT !.t = old] BY <3>2, <3>3
    <3>5. WellFormed(old) /\ n \in old.nodes BY <1>1, <1>2, MadeIs DEF Tidy
    <3> HIDE DEF Stamp, old, new, u
    <3>6. On([b EXCEPT !.t = old], old) BY <2>3, OnTree
    <3>7. On(c, old) BY <3>1, <3>4, <3>5, <3>6, SyncFrontmatterIs
    <3>8. 0 \in Nat OBVIOUS
    <3> QED BY <1>1, <3>1, <3>7, <3>8, MadeStep DEF old, u
  <2> QED BY <2>4, <2>5
<1> QED BY <1>4, <1>5

LEMMA RestoreExistingStep ==
    ASSUME Sound, NEW n \in Nodes, NEW p \in Places, NEW s \in Slugs, RestoreExisting(n, p, s)
    PROVE  Sound' /\ loads' = loads /\ (tree' = tree \/ FailsToRestore(n, p, s))
<1> DEFINE u == AsSection(tree, p)
<1>1. PICK w \in AutoConvert(World, p) :
        n \in tree.nodes /\ p \in Live(tree) /\ Find(tree, p, s) = {} /\ Ends(w)
    BY DEF RestoreExisting
<1>2. On(World, tree) /\ Tidy(tree) /\ WellFormed(tree) BY WorldIs DEF Sound, Tidy
<1>3. On(w, tree) \/ On(w, u) BY <1>1, <1>2, AutoConvertIs
<1>4. Tidy(u) BY <1>1, <1>2, SectionIsTidy
<1>5. CASE On(w, tree)
  <2>1. After(tree) BY <1>1, <1>2, <1>5, EndsIs
  <2> QED BY <2>1 DEF After
<1>6. CASE On(w, u)
  <2> HIDE DEF u
  <2>1. After(u) BY <1>1, <1>4, <1>6, EndsIs
  <2> QED BY <1>1, <2>1 DEF After, FailsToRestore, u
<1> QED BY <1>3, <1>5, <1>6

\* Two ids that no file and no page has.
LEMMA TwoFresh ==
    ASSUME Sound, Cardinality(Fresh) >= 2
    PROVE  LET m == CHOOSE x \in Fresh : TRUE
               n == CHOOSE x \in Fresh \ {m} : TRUE
           IN  m \in Nodes /\ n \in Nodes /\ m # n /\ n \notin tree.nodes
<1> DEFINE m == CHOOSE x \in Fresh : TRUE
           n == CHOOSE x \in Fresh \ {m} : TRUE
           both == [tree EXCEPT !.nodes = @ \union scan.t.nodes]
<1>1. IsFiniteSet(Fresh) /\ Fresh \subseteq Nodes \ both.nodes BY UnusedIsFinite DEF Fresh
<1>2. tree.nodes \subseteq both.nodes
  <2>1. Record(tree) BY TidyIs DEF Sound
  <2> QED BY <2>1 DEF Record
<1>3. Fresh # {}
  <2>1. Cardinality({}) = 0 BY FS_EmptySet
  <2> QED BY <2>1
<1>4. m \in Fresh BY <1>3
<1>5. Fresh \ {m} # {}
  <2>1. SUFFICES ASSUME Fresh \ {m} = {} PROVE FALSE OBVIOUS
  <2>2. Fresh = {m} BY <1>4, <2>1
  <2>3. Cardinality({m}) = 1 BY FS_Singleton
  <2> QED BY <2>2, <2>3
<1> HIDE DEF m
<1>6. n \in Fresh \ {m} BY <1>5
<1> HIDE DEF n, both
<1>7. m \in Nodes /\ n \in Nodes /\ m # n /\ n \notin tree.nodes BY <1>1, <1>2, <1>4, <1>6
<1> QED BY <1>7 DEF m, n

LEMMA EnsurePagePathStep ==
    ASSUME Sound, NEW s \in Slugs, NEW z \in Slugs, NEW k \in Kinds, EnsurePagePath(s, z, k)
    PROVE  /\ Sound' /\ loads' = loads
           /\ tree' = tree \/ \E m, n \in Nodes : Ensures(m, n, s, z, k)
<1> DEFINE m == CHOOSE x \in Fresh : TRUE
           n == CHOOSE x \in Fresh \ {m} : TRUE
<1>1. m \in Nodes /\ n \in Nodes /\ m # n /\ n \notin tree.nodes BY TwoFresh DEF EnsurePagePath
<1>2. MayCreate(tree, m, Root, s)
      /\ \E a \in Create(World, m, Root, s, "section") :
            IF ~a.ok THEN Ends(a) ELSE \E b \in Create(a, n, m, z, k) : Ends(b)
    BY DEF EnsurePagePath
<1> HIDE DEF m, n
<1>3. On(World, tree) /\ Tidy(tree) /\ clock \in Nat /\ Now \in Nat BY WorldIs DEF Sound, Now
<1>4. AsSection(tree, Root) = tree BY DEF AsSection
<1>5. "section" \in Kinds BY DEF Kinds
<1> DEFINE u == Created(tree, m, Root, s, "section", Now)
<1>6. /\ Tidy(u) /\ u.ver[m] = Now /\ u.nodes = tree.nodes \union {m}
      /\ IsCreated(u, tree, m, Root, s, "section", Now)
    BY <1>1, <1>2, <1>3, <1>4, <1>5, MadeIs
<1>7. PICK a \in Create(World, m, Root, s, "section") :
        IF ~a.ok THEN Ends(a) ELSE \E b \in Create(a, n, m, z, k) : Ends(b)
    BY <1>2
<1>8. (a.ok /\ On(a, u)) \/ (~a.ok /\ On(a, tree)) BY <1>1, <1>2, <1>3, <1>4, <1>5, <1>7, CreateIs
<1> HIDE DEF u
<1>9. CASE ~a.ok
  <2>1. Ends(a) /\ On(a, tree) BY <1>7, <1>8, <1>9
  <2>2. After(tree) BY <1>3, <2>1, EndsIs
  <2> QED BY <2>2 DEF After
<1>10. CASE a.ok
  <2>1. PICK b \in Create(a, n, m, z, k) : Ends(b) BY <1>7, <1>10
  <2>2. On(a, u) BY <1>8, <1>10
  <2>3. u.kind[m] = "section" /\ m \in Live(u) BY <1>1, <1>6 DEF IsCreated, Live
  <2>4. AsSection(u, m) = u
    <3>1. WellFormed(u) BY <1>6 DEF Tidy
    <3>2. ~NeedsConvert(u, m) BY <2>3 DEF NeedsConvert
    <3> QED BY <2>3, <3>1, <3>2, SectionAlready
  <2>5. MayCreate(u, n, m, z)
    <3>1. n \notin u.nodes BY <1>1, <1>6
    <3>2. Find(u, m, z) = {x \in Children(u, m) : u.slug[x] = z} BY <1>6, <2>3, Branches DEF Tidy
    <3>3. Children(u, m) = {}
      <4>1. ASSUME NEW x \in u.nodes, u.parent[x] = m PROVE FALSE
        <5>1. m # Root /\ m \notin tree.nodes BY <1>1, <1>2, NodesAssumption DEF MayCreate
        <5>2. x # m
          <6>1. u.parent[m] = Root BY <1>1, <1>6 DEF IsCreated
          <6> QED BY <4>1, <5>1, <6>1
        <5>3. x \in tree.nodes /\ x \in Nodes /\ tree.parent[x] \in Live(tree) BY <1>3, <1>6, <4>1, <5>2, TidyIs
        <5>4. u.parent[x] = tree.parent[x] BY <1>6, <5>2, <5>3 DEF IsCreated
        <5> QED BY <4>1, <5>1, <5>3, <5>4 DEF Live
      <4> QED BY <4>1 DEF Children
    <3> QED BY <2>3, <3>1, <3>2, <3>3 DEF MayCreate
  <2> DEFINE new == Created(u, n, m, z, k, Now)
  <2>6. On(b, u) \/ On(b, new)
    <3>1. On(b, new) \/ On(b, u) BY <1>1, <1>3, <1>6, <2>1, <2>2, <2>4, <2>5, CreateIs
    <3> QED BY <3>1
  <2>7. Tidy(new) /\ new.ver[n] = Now /\ IsCreated(new, u, n, m, z, k, Now)
    BY <1>1, <1>3, <1>6, <2>4, <2>5, MadeIs
  <2> HIDE DEF new
  <2>8. new.ver[m] = Now BY <1>1, <1>6, <2>7 DEF IsCreated
  <2>9. CASE On(b, u)
    <3>1. After(u) BY <1>6, <2>1, <2>9, EndsIs
    <3>2. tree' = u /\ tree'.ver[m] = Now BY <1>6, <3>1 DEF After
    <3>3. Ensures(m, n, s, z, k) BY <1>1, <1>2, <3>2 DEF Ensures, u
    <3> QED BY <1>1, <3>1, <3>3 DEF After
  <2>10. CASE On(b, new)
    <3>1. After(new) BY <2>1, <2>7, <2>10, EndsIs
    <3>2. tree' = new /\ tree'.ver[m] = Now /\ tree'.ver[n] = Now BY <2>7, <2>8, <3>1 DEF After
    <3>3. Ensures(m, n, s, z, k) BY <1>1, <1>2, <3>2 DEF Ensures, u, new
    <3> QED BY <1>1, <3>1, <3>3 DEF After
  <2> QED BY <2>6, <2>9, <2>10
<1> QED BY <1>9, <1>10

LEMMA DeleteNodeStep ==
    ASSUME Sound, NEW n \in Nodes, DeleteNode(n)
    PROVE  Sound' /\ loads' = loads /\ (tree' = tree \/ Deletes(n))
<1> DEFINE u == Deleted(tree, n)
           p == tree.parent[n]
           Cut(x) == [x EXCEPT !.t = Deleted(@, n)]
<1>1. PICK a \in DeleteOnDisk(World, n) :
        /\ n \in tree.nodes
        /\ IF ~a.ok THEN Ends(a) ELSE \E b \in SaveChildOrder(Cut(a), p) : Ends(b)
    BY DEF DeleteNode
<1>2. On(World, tree) /\ Tidy(tree) BY WorldIs DEF Sound
<1>3. On(a, tree) /\ a.t = tree BY <1>1, <1>2, DeleteOnDiskIs, OnIs
<1>4. Tidy(u) /\ WellFormed(u) /\ p \in Live(u) BY <1>1, <1>2, DeletedIsTidy DEF Tidy
<1>5. CASE ~a.ok
  <2>1. After(tree) BY <1>1, <1>2, <1>3, <1>5, EndsIs
  <2> QED BY <2>1 DEF After
<1>6. CASE a.ok
  <2>1. PICK b \in SaveChildOrder(Cut(a), p) : Ends(b) BY <1>1, <1>6
  <2>2. Cut(a) = [a EXCEPT !.t = u] BY <1>3
  <2> HIDE DEF u, p, Cut
  <2>3. On([a EXCEPT !.t = u], u) BY <1>3, OnTree
  <2>4. On(b, u) BY <1>4, <2>1, <2>2, <2>3, SaveChildOrderIs
  <2>5. After(u) BY <1>4, <2>1, <2>4, EndsIs
  <2> QED BY <1>1, <2>5 DEF After, Deletes, u
<1> QED BY <1>5, <1>6

LEMMA UpdateNodeStep ==
    ASSUME Sound, NEW n \in Nodes, NEW s \in Slugs, NEW content \in BOOLEAN, UpdateNode(n, s, content)
    PROVE  Sound' /\ loads' = loads /\ (tree' = tree \/ Updates(n, s))
<1> DEFINE r == Renamed(tree, n, s)
           u == Stamped(r, {n}, Now)
           A == IF content THEN UpsertContent(World, n, Now) ELSE {World}
           B(a) == IF s = tree.slug[n] THEN {a} ELSE RenameNode(a, n, s)
<1>1. PICK a \in A :
        /\ MayRename(tree, n, s)
        /\ IF ~a.ok THEN Ends(a)
           ELSE \E b \in B(a) : IF ~b.ok THEN Ends(b) ELSE \E c \in SyncFrontmatter(AfterRename(b, n, s), n) : Ends(c)
    BY DEF UpdateNode
<1>2. On(World, tree) /\ Tidy(tree) /\ WellFormed(tree) /\ Now \in Nat BY WorldIs DEF Sound, Now, Tidy
<1>3. n \in tree.nodes BY <1>1 DEF MayRename
<1>4. On(a, tree)
  <2>1. CASE a = World BY <1>2, <2>1
  <2>2. CASE a \in UpsertContent(World, n, Now) BY <1>2, <1>3, <2>2, UpsertContentIs
  <2> QED BY <1>1, <2>1, <2>2
<1>5. Tidy(r) /\ n \in r.nodes BY <1>1, <1>2, <1>3, RenamedIsTidy
<1>6. Tidy(u) /\ WellFormed(u) /\ n \in u.nodes /\ u.ver[n] = Now
  <2> HIDE DEF r
  <2>1. ASSUME NEW v \in Nat
        PROVE LET x == Stamped(r, {n}, v) IN Tidy(x) /\ WellFormed(x) /\ n \in x.nodes /\ x.ver[n] = v
    BY <1>5, StampedOne
  <2> QED BY <1>2, <2>1
<1>7. ASSUME NEW w, On(w, tree), Ends(w) PROVE Sound' /\ loads' = loads /\ tree' = tree
  <2>1. After(tree) BY <1>2, <1>7, EndsIs
  <2> QED BY <2>1 DEF After
<1> HIDE DEF A
<1>8. CASE ~a.ok BY <1>1, <1>4, <1>7, <1>8
<1>9. CASE a.ok
  <2>1. PICK b \in B(a) : IF ~b.ok THEN Ends(b) ELSE \E c \in SyncFrontmatter(AfterRename(b, n, s), n) : Ends(c)
      BY <1>1, <1>9
  <2>2. On(b, tree)
    <3>1. CASE b = a BY <1>4, <3>1
    <3>2. CASE b \in RenameNode(a, n, s) BY <1>2, <1>3, <1>4, <3>2, RenameNodeIs
    <3> QED BY <2>1, <3>1, <3>2
  <2> HIDE DEF B
  <2>3. CASE ~b.ok BY <1>7, <2>1, <2>2, <2>3
  <2>4. CASE b.ok
    <3>1. PICK c \in SyncFrontmatter(AfterRename(b, n, s), n) : Ends(c) BY <2>1, <2>4
    <3>2. b.t = tree BY <2>2, OnIs
    <3>3. AfterRename(b, n, s) = [b EXCEPT !.t = u] BY <3>2 DEF AfterRename
    <3> HIDE DEF u
    <3>4. On([b EXCEPT !.t = u], u) BY <2>2, OnTree
    <3>5. On(c, u) BY <1>6, <3>1, <3>3, <3>4, SyncFrontmatterIs
    <3>6. After(u) BY <1>6, <3>1, <3>5, EndsIs
    <3>7. tree' = u /\ tree'.ver[n] = Now BY <1>6, <3>6 DEF After
    <3> QED BY <1>1, <3>6, <3>7 DEF After, Updates, u, r
  <2> QED BY <2>3, <2>4
<1> QED BY <1>8, <1>9

LEMMA ConvertNodeStep ==
    ASSUME Sound, NEW n \in Nodes, NEW k \in Kinds, ConvertNode(n, k)
    PROVE  Sound' /\ loads' = loads /\ (tree' = tree \/ Converts(n, k))
<1> DEFINE r == [tree EXCEPT !.kind[n] = k]
           u == Stamped(r, {n}, Now)
           A == IF k = "section" THEN ConvertToSection(World, n) ELSE ConvertToPage(World, n)
           Stamp(a) == [a EXCEPT !.t = Stamped([@ EXCEPT !.kind[n] = k], {n}, Now)]
<1>1. PICK a \in A :
        /\ MayConvert(tree, n, k)
        /\ IF ~a.ok THEN Ends(a) ELSE \E b \in SyncFrontmatter(Stamp(a), n) : Ends(b)
    BY DEF ConvertNode
<1>2. On(World, tree) /\ Tidy(tree) /\ WellFormed(tree) /\ Record(tree) /\ Now \in Nat
  <2>1. On(World, tree) /\ Tidy(tree) /\ Now \in Nat BY WorldIs DEF Sound, Now
  <2> QED BY <2>1, TidyIs
<1>3. n \in tree.nodes /\ n # Root BY <1>1, NodesAssumption DEF MayConvert
<1>4. Tidy(r) /\ n \in r.nodes BY <1>1, <1>2, <1>3, ConvertedIsTidy
<1>5. Tidy(u) /\ WellFormed(u) /\ n \in u.nodes /\ u.ver[n] = Now
  <2> HIDE DEF r
  <2>1. ASSUME NEW v \in Nat
        PROVE LET x == Stamped(r, {n}, v) IN Tidy(x) /\ WellFormed(x) /\ n \in x.nodes /\ x.ver[n] = v
    BY <1>4, StampedOne
  <2> QED BY <1>2, <2>1
<1>6. k = "section" => AsSection(tree, n) = r BY <1>3 DEF AsSection
<1>7. (On(a, tree) /\ (a.ok => k = "page")) \/ (k = "section" /\ On(a, r))
  <2>1. CASE k = "section"
    <3>1. (On(a, tree) /\ ~a.ok) \/ On(a, AsSection(tree, n)) BY <1>1, <1>2, <1>3, <2>1, ConvertToSectionIs
    <3> HIDE DEF r
    <3> QED BY <1>6, <2>1, <3>1
  <2>2. CASE k # "section"
    <3>1. On(a, tree) BY <1>1, <1>2, <1>3, <2>2, ConvertToPageIs
    <3>2. k = "page" BY <2>2 DEF Kinds
    <3> QED BY <3>1, <3>2
  <2> QED BY <2>1, <2>2
<1> HIDE DEF A
<1>8. CASE ~a.ok
  <2>1. Ends(a) BY <1>1, <1>8
  <2>2. CASE On(a, tree)
    <3>1. After(tree) BY <1>2, <2>1, <2>2, EndsIs
    <3> QED BY <3>1 DEF After
  <2>3. CASE On(a, r)
    <3>1. Stamped(r, {n}, r.ver[n]) = r
      <4>1. TreeType(r) BY <1>4, TidyIs
      <4> HIDE DEF r
      <4> QED BY <4>1, StampedSame
    <3> HIDE DEF r
    <3>2. After(r) BY <1>4, <2>1, <2>3, EndsIs
    <3>3. tree' = Stamped(r, {n}, tree'.ver[n]) BY <3>1, <3>2 DEF After
    <3> QED BY <1>1, <3>2, <3>3 DEF After, Converts, r
  <2> QED BY <1>7, <2>2, <2>3
<1>9. CASE a.ok
  <2>1. PICK b \in SyncFrontmatter(Stamp(a), n) : Ends(b) BY <1>1, <1>9
  <2>2. a.t = tree \/ (k = "section" /\ a.t = r) BY <1>7, OnIs
  <2>3. [a.t EXCEPT !.kind[n] = k] = r
    <3>1. CASE a.t = tree BY <3>1
    <3>2. CASE k = "section" /\ a.t = r
      <4> DEFINE f == [tree.kind EXCEPT ![n] = k]
                 x == [r EXCEPT !.kind[n] = k]
      <4>1. r = [nodes |-> tree.nodes, parent |-> tree.parent, kids |-> tree.kids, slug |-> tree.slug,
                 kind |-> f, index |-> tree.index, ver |-> tree.ver, pinned |-> tree.pinned]
        BY <1>2 DEF Record
      <4>2. [f EXCEPT ![n] = k] = f OBVIOUS
      <4> HIDE DEF f, r
      <4>3. x = [nodes |-> tree.nodes, parent |-> tree.parent, kids |-> tree.kids, slug |-> tree.slug,
                 kind |-> [f EXCEPT ![n] = k], index |-> tree.index, ver |-> tree.ver, pinned |-> tree.pinned]
        BY <4>1
      <4> HIDE DEF x
      <4>4. x = r BY <4>1, <4>2, <4>3
      <4> QED BY <3>2, <4>4 DEF x
    <3> QED BY <2>2, <3>1, <3>2
  <2>4. Stamp(a) = [a EXCEPT !.t = u] BY <2>3
  <2>5. On([a EXCEPT !.t = u], u) BY <1>7, OnTree
  <2> HIDE DEF Stamp, u, r
  <2>6. On(b, u) BY <1>5, <2>1, <2>4, <2>5, SyncFrontmatterIs
  <2>7. After(u) BY <1>5, <2>1, <2>6, EndsIs
  <2>8. tree' = u /\ tree'.ver[n] = Now BY <1>5, <2>7 DEF After
  <2> QED BY <1>1, <2>7, <2>8 DEF After, Converts, u, r
<1> QED BY <1>8, <1>9

LEMMA BulkUpdateStep ==
    ASSUME Sound, NEW S \in SUBSET Nodes, BulkUpdateContent(S)
    PROVE  Sound' /\ loads' = loads /\ Rewrites(S)
<1>1. PICK seq \in SetToSeqs(S) : S \subseteq tree.nodes /\ \E w \in BulkWrites(seq)[Len(seq)] : Ends(w)
    BY DEF BulkUpdateContent
<1>2. On(World, tree) /\ Tidy(tree) /\ clock \in Nat BY WorldIs DEF Sound
<1>3. PICK w \in BulkWrites(seq)[Len(seq)] : Ends(w) BY <1>1
<1>4. Rewritten(w, S) BY <1>1, <1>2, <1>3, BulkWritesAre
<1>5. PICK f \in [Nodes -> Nat] : (\A m \in Nodes \ S : f[m] = tree.ver[m]) /\ On(w, [tree EXCEPT !.ver = f])
    BY <1>4 DEF Rewritten
<1> DEFINE u == [tree EXCEPT !.ver = f]
<1>6. Tidy(u) /\ u.ver = f
  <2>1. \A m \in Nodes \ tree.nodes : f[m] = tree.ver[m] BY <1>1, <1>5
  <2> QED BY <1>2, <2>1, VersionsAreTidy
<1> HIDE DEF u
<1>7. On(w, u) BY <1>5 DEF u
<1>8. After(u) BY <1>3, <1>6, <1>7, EndsIs
<1>9. tree' = u BY <1>8 DEF After
<1> DEFINE g == [n \in Nodes |-> IF n \in S THEN tree'.ver[n] ELSE tree.ver[n]]
<1>10. g = f
  <2>1. tree'.ver = f BY <1>6, <1>9
  <2>2. \A n \in Nodes : g[n] = f[n] BY <1>5, <2>1
  <2> QED BY <2>2
<1>11. tree' = [tree EXCEPT !.ver = g] BY <1>9, <1>10 DEF u
<1> QED BY <1>1, <1>8, <1>11 DEF After, Rewrites

LEMMA MovedAway ==
    ASSUME NEW t, Tidy(t), NEW n \in t.nodes, NEW p \in Live(t), MayMove(t, n, p), p # t.parent[n],
           p = Root \/ t.kind[p] = "section", NEW i \in 1 .. Len(t.kids[p]) + 1
    PROVE  /\ Tidy(Moved(t, n, p, i)) /\ Moved(t, n, p, i).nodes = t.nodes
           /\ t.parent[n] \notin Subtree(Moved(t, n, p, i), n)
<1> DEFINE u == Moved(t, n, p, i)
<1>1. /\ Tidy(u) /\ u.nodes = t.nodes /\ t.parent[n] \notin Subtree(u, n)
      /\ u.parent = [m \in Nodes |-> IF m = n THEN p ELSE t.parent[m]]
    BY MovedIsTidy
<1> QED BY <1>1

LEMMA MoveOutcome ==
    ASSUME Sound, NEW n \in Nodes, NEW p \in Places, NEW i, MayMove(tree, n, p), i \in 1 .. Len(tree.kids[p]) + 1
    PROVE  LET a == AsSection(tree, p)
               old == tree.parent[n]
           IN  /\ Tidy(a) /\ n \in a.nodes /\ p \in Live(tree) /\ Live(a) = Live(tree) /\ old \in Live(tree)
               /\ a.parent[n] = old /\ p \notin Subtree(a, n)
               /\ p # old => LET u == Stamped(Moved(a, n, p, i), {n}, Now) IN
                    /\ Tidy(u) /\ n \in u.nodes /\ Live(u) = Live(tree) /\ old \notin Subtree(u, n)
                    /\ u.ver[n] = Now
<1> DEFINE a == AsSection(tree, p)
           old == tree.parent[n]
           mv == Moved(a, n, p, i)
           u == Stamped(mv, {n}, Now)
<1>1. Tidy(tree) /\ Now \in Nat BY DEF Sound, Now
<1>2. /\ n \in tree.nodes /\ p \in Live(tree) /\ p \notin Subtree(tree, n)
      /\ Find(tree, p, tree.slug[n]) \subseteq {n} /\ n # p
    BY DEF MayMove
<1>3. old \in Live(tree) BY <1>1, <1>2, TidyIs
<1>4. /\ Tidy(a) /\ a.nodes = tree.nodes /\ Live(a) = Live(tree) /\ a.parent = tree.parent /\ a.kids = tree.kids
      /\ a.slug = tree.slug /\ a.index = tree.index
      /\ p = Root \/ a.kind[p] = "section"
    BY <1>1, <1>2, SectionIsTidy
<1> HIDE DEF a
<1>5. Subtree(a, n) = Subtree(tree, n) BY <1>4 DEF Subtree, Closed
<1>6. Find(a, p, a.slug[n]) = Find(tree, p, tree.slug[n]) BY <1>4 DEF Find
<1>7. MayMove(a, n, p) BY <1>2, <1>4, <1>5, <1>6 DEF MayMove
<1>8. ASSUME p # old
      PROVE  Tidy(u) /\ n \in u.nodes /\ Live(u) = Live(tree) /\ old \notin Subtree(u, n) /\ u.ver[n] = Now
  <2>1. i \in 1 .. Len(a.kids[p]) + 1 /\ p # a.parent[n] /\ n \in a.nodes /\ p \in Live(a)
    BY <1>2, <1>4, <1>8
  <2>2. Tidy(mv) /\ mv.nodes = a.nodes /\ a.parent[n] \notin Subtree(mv, n)
    <3>1. Tidy(a) /\ (p = Root \/ a.kind[p] = "section") BY <1>4
    <3> QED BY <1>7, <2>1, <3>1, MovedAway
  <2> HIDE DEF mv
  <2>3. n \in mv.nodes BY <2>1, <2>2
  <2>4. Tidy(u) /\ n \in u.nodes /\ Live(u) = Live(mv) /\ u.ver[n] = Now
    <3>1. ASSUME NEW v \in Nat
          PROVE LET x == Stamped(mv, {n}, v) IN Tidy(x) /\ n \in x.nodes /\ Live(x) = Live(mv) /\ x.ver[n] = v
      BY <2>2, <2>3, StampedOne
    <3> QED BY <1>1, <3>1
  <2>5. Live(mv) = Live(tree) BY <1>4, <2>2 DEF Live
  <2>6. old \notin Subtree(mv, n) BY <1>4, <2>2
  <2>7. Subtree(u, n) = Subtree(mv, n)
    <3>1. u.nodes = mv.nodes /\ u.parent = mv.parent BY <1>1, <2>2, <2>3, StampedInPlace
    <3> HIDE DEF u
    <3> QED BY <3>1 DEF Subtree, Closed
  <2> HIDE DEF u, old
  <2> QED BY <2>4, <2>5, <2>6, <2>7
<1>9. n \in a.nodes /\ a.parent[n] = old /\ p \notin Subtree(a, n) BY <1>2, <1>4, <1>5
<1> QED BY <1>2, <1>3, <1>4, <1>8, <1>9 DEF a

LEMMA MoveStep ==
    ASSUME Sound, NEW n \in Nodes, NEW p \in Places, NEW i, MoveNodeToPosition(n, p, i)
    PROVE  /\ Sound' /\ loads' = loads
           /\ tree' = tree \/ (i \in 1 .. Len(tree.kids[p]) + 1 /\ Moves(n, p, i))
<1> DEFINE old == tree.parent[n]
           u0 == AsSection(tree, p)
           u == Stamped(Moved(u0, n, p, i), {n}, Now)
           converted == NeedsConvert(tree, p)
           Undo(w, before) == \E x \in RollbackMoved(w, n, old, p, before, converted) : Ends(x)
           Apply(b) == [b EXCEPT !.t = Stamped(Moved(@, n, p, i), {n}, Now)]
           Done == Sound' /\ loads' = loads /\ (tree' = tree \/ Moves(n, p, i))
<1>1. MayMove(tree, n, p) /\ i \in 1 .. Len(tree.kids[p]) + 1 BY DEF MoveNodeToPosition
<1>2. PICK a \in AutoConvert(World, p) :
        IF ~a.ok THEN Ends(a)
        ELSE \E b \in MoveOnDisk(a, n, p) :
          IF ~b.ok THEN Ends(b)
          ELSE \E c \in SaveChildOrder(Apply(b), old) :
            IF ~c.ok THEN Undo(c, a.t)
            ELSE \E e \in SaveChildOrder(c, p) :
              IF ~e.ok THEN Undo(e, a.t)
              ELSE \E g \in SyncFrontmatter(e, n) : IF g.ok THEN Ends(g) ELSE Undo(g, a.t)
    BY DEF MoveNodeToPosition
<1>3. On(World, tree) /\ Tidy(tree) /\ WellFormed(tree) BY WorldIs DEF Sound, Tidy
<1>4. /\ Tidy(u0) /\ WellFormed(u0) /\ n \in u0.nodes /\ p \in Live(tree) /\ Live(u0) = Live(tree)
      /\ old \in Live(tree) /\ u0.parent[n] = old /\ p \notin Subtree(u0, n)
    BY <1>1, MoveOutcome DEF Tidy
<1>5. p # old => /\ Tidy(u) /\ WellFormed(u) /\ n \in u.nodes /\ Live(u) = Live(tree) /\ old \notin Subtree(u, n)
                 /\ u.ver[n] = Now
    BY <1>1, MoveOutcome DEF Tidy
<1>6. (On(a, tree) /\ ~a.ok) \/ On(a, u0) BY <1>2, <1>3, <1>4, AutoConvertIs
<1>7. converted => p # Root /\ [u0 EXCEPT !.kind[p] = "page"] = tree
    BY <1>3, <1>4, FoldedBack DEF NeedsConvert
<1> HIDE DEF u0, u, old, converted, Undo, Apply
<1>8. ASSUME NEW w, On(w, tree) \/ On(w, u0), Ends(w) PROVE Done
  <2>1. CASE On(w, tree)
    <3>1. After(tree) BY <1>3, <1>8, <2>1, EndsIs
    <3> QED BY <3>1 DEF After
  <2>2. CASE On(w, u0)
    <3>1. After(u0) BY <1>4, <1>8, <2>2, EndsIs
    <3>2. Moves(n, p, i) BY <1>1, <3>1 DEF After, Moves, u0
    <3> QED BY <3>1, <3>2 DEF After
  <2> QED BY <1>8, <2>1, <2>2
<1>9. CASE ~a.ok
  <2>1. Ends(a) BY <1>2, <1>9
  <2> QED BY <1>1, <1>6, <1>8, <2>1
<1>10. CASE a.ok
  <2>1. On(a, u0) /\ a.t = u0 BY <1>6, <1>10, OnIs
  <2>2. PICK b \in MoveOnDisk(a, n, p) :
          IF ~b.ok THEN Ends(b)
          ELSE \E c \in SaveChildOrder(Apply(b), old) :
            IF ~c.ok THEN Undo(c, u0)
            ELSE \E e \in SaveChildOrder(c, p) :
              IF ~e.ok THEN Undo(e, u0)
              ELSE \E g \in SyncFrontmatter(e, n) : IF g.ok THEN Ends(g) ELSE Undo(g, u0)
      BY <1>2, <1>10, <2>1
  <2>3. On(b, u0) /\ (p = u0.parent[n] => ~b.ok) BY <1>4, <2>1, <2>2, MoveOnDiskIs
  <2>4. CASE ~b.ok
    <3>1. Ends(b) BY <2>2, <2>4
    <3> QED BY <1>1, <1>8, <2>3, <3>1
  <2>5. CASE b.ok
    <3>1. p # old BY <1>4, <2>3, <2>5
    <3>2. Tidy(u) /\ WellFormed(u) /\ n \in u.nodes /\ Live(u) = Live(tree) /\ old \notin Subtree(u, n)
          /\ u.ver[n] = Now
        BY <1>5, <3>1
    <3>3. PICK c \in SaveChildOrder(Apply(b), old) :
            IF ~c.ok THEN Undo(c, u0)
            ELSE \E e \in SaveChildOrder(c, p) :
              IF ~e.ok THEN Undo(e, u0)
              ELSE \E g \in SyncFrontmatter(e, n) : IF g.ok THEN Ends(g) ELSE Undo(g, u0)
        BY <2>2, <2>5
    <3>4. b.t = u0 BY <2>3, OnIs
    <3>5. Apply(b) = [b EXCEPT !.t = u] BY <3>4 DEF Apply, u
    <3>6. On([b EXCEPT !.t = u], u) BY <2>3, OnTree
    <3>7. old \in Live(u) /\ p \in Live(u) BY <1>4, <3>2
    <3>8. On(c, u) BY <3>2, <3>3, <3>5, <3>6, <3>7, SaveChildOrderIs
    <3>9. ASSUME NEW w, On(w, u), Undo(w, u0) PROVE Done
      <4>1. PICK x \in RollbackMoved(w, n, old, p, u0, converted) : Ends(x) BY <3>9 DEF Undo
      <4>2. p \in Live(u0) /\ old \in Live(u0) /\ Live(tree) = Live(u0) BY <1>4
      <4>3. On(x, u0) \/ On(x, tree)
        BY <1>3, <1>4, <1>7, <3>2, <3>7, <3>9, <4>1, <4>2, RollbackMovedIs
      <4> QED BY <1>8, <4>1, <4>3
    <3>10. CASE ~c.ok
      <4>1. Undo(c, u0) BY <3>3, <3>10
      <4> QED BY <1>1, <3>8, <3>9, <4>1
    <3>11. CASE c.ok
      <4>1. PICK e \in SaveChildOrder(c, p) :
              IF ~e.ok THEN Undo(e, u0)
              ELSE \E g \in SyncFrontmatter(e, n) : IF g.ok THEN Ends(g) ELSE Undo(g, u0)
          BY <3>3, <3>11
      <4>2. On(e, u) BY <3>2, <3>7, <3>8, <4>1, SaveChildOrderIs
      <4>3. CASE ~e.ok
        <5>1. Undo(e, u0) BY <4>1, <4>3
        <5> QED BY <1>1, <3>9, <4>2, <5>1
      <4>4. CASE e.ok
        <5>1. PICK g \in SyncFrontmatter(e, n) : IF g.ok THEN Ends(g) ELSE Undo(g, u0) BY <4>1, <4>4
        <5>2. On(g, u) BY <3>2, <4>2, <5>1, SyncFrontmatterIs
        <5>3. CASE ~g.ok
          <6>1. Undo(g, u0) BY <5>1, <5>3
          <6> QED BY <1>1, <3>9, <5>2, <6>1
        <5>4. CASE g.ok
          <6>1. Ends(g) BY <5>1, <5>4
          <6>2. After(u) BY <3>2, <5>2, <6>1, EndsIs
          <6>3. tree' = u /\ tree'.ver[n] = Now BY <3>2, <6>2 DEF After
          <6>4. Moves(n, p, i) BY <1>1, <3>1, <6>3 DEF Moves, u, u0, old
          <6> QED BY <1>1, <6>2, <6>4 DEF After
        <5> QED BY <5>3, <5>4
      <4> QED BY <4>3, <4>4
    <3> QED BY <3>10, <3>11
  <2> QED BY <2>4, <2>5
<1> QED BY <1>9, <1>10

LEMMA SetPinnedStep ==
    ASSUME Sound, NEW n \in Nodes, NEW pin \in BOOLEAN, SetPinned(n, pin)
    PROVE  Sound' /\ loads' = loads /\ (tree' = tree \/ Pins(n))
<1> DEFINE x == ContentPath(tree, n)
           P == IF pin THEN tree.pinned \union {n} ELSE tree.pinned \ {n}
           u == [tree EXCEPT !.pinned = P]
           Set(a) == [a EXCEPT !.t.pinned = IF pin THEN @ \union {n} ELSE @ \ {n}]
<1>1. PICK a \in Write(World, x, [disk.md[x] EXCEPT !.pin = pin]) :
        n \in tree.nodes /\ x \in DOMAIN disk.md /\ Ends(IF a.ok THEN Set(a) ELSE a)
    BY DEF SetPinned
<1>2. On(World, tree) /\ Tidy(tree) /\ WellFormed(tree) /\ World.d = disk BY WorldIs DEF Sound, Tidy, World
<1>3. On(a, tree) /\ a.t = tree
  <2>1. x \in DOMAIN World.d.md /\ a \in Write(World, x, [World.d.md[x] EXCEPT !.pin = pin]) BY <1>1, <1>2
  <2> HIDE DEF x
  <2>2. On(a, tree) BY <1>2, <2>1, WritePinIs
  <2> QED BY <2>2, OnIs
<1>4. Tidy(u)
  <2>1. TreeType(tree) BY <1>2, TidyIs
  <2>2. P \in SUBSET tree.nodes BY <1>1, <2>1 DEF TreeType
  <2> HIDE DEF P
  <2> QED BY <1>2, <2>2, PinnedIsTidy
<1>5. CASE ~a.ok
  <2>1. Ends(a) BY <1>1, <1>5
  <2>2. After(tree) BY <1>2, <1>3, <2>1, EndsIs
  <2> QED BY <2>2 DEF After
<1>6. CASE a.ok
  <2>1. Ends(Set(a)) BY <1>1, <1>6
  <2>2. Set(a) = [a EXCEPT !.t = u] BY <1>3 DEF On
  <2> HIDE DEF u, Set
  <2>3. On([a EXCEPT !.t = u], u) BY <1>3, OnTree
  <2>4. On(Set(a), u) BY <2>2, <2>3
  <2>5. After(u) BY <1>4, <2>1, <2>4, EndsIs
  <2>6. Pins(n)
    <3>1. u \in {[tree EXCEPT !.pinned = Q] : Q \in {tree.pinned \union {n}, tree.pinned \ {n}}} BY DEF u
    <3> QED BY <1>1, <2>5, <3>1 DEF After, Pins
  <2> QED BY <2>5, <2>6 DEF After
<1> QED BY <1>5, <1>6

LEMMA SortPagesStep ==
    ASSUME Sound, NEW p \in Places, NEW seq \in SetToSeqs(ToSet(tree.kids[p])), SortPages(p, seq)
    PROVE  Sound' /\ loads' = loads /\ (tree' = tree \/ Sorts(p, seq))
<1> DEFINE u == [tree EXCEPT !.kids[p] = seq]
           Set(w) == [w EXCEPT !.t.kids[p] = seq]
           Undone(a) == [a EXCEPT !.t = tree]
<1>1. PICK a \in SaveChildOrder(Set(World), p) : MaySort(tree, p, seq) /\ Ends(IF a.ok THEN a ELSE Undone(a))
    BY DEF SortPages
<1>2. On(World, tree) /\ Tidy(tree) /\ World.t = tree BY WorldIs DEF Sound, World
<1>3. seq \in Seq(Nodes) /\ p \in Live(tree)
  <2>1. TreeType(tree) BY <1>2, TidyIs
  <2>2. tree.kids[p] \in Seq(Nodes) BY <2>1 DEF TreeType
  <2>3. seq \in Seq(Nodes) BY <2>2, OrdersAreSequences
  <2> QED BY <1>1, <2>3 DEF MaySort
<1>4. Tidy(u) /\ Live(u) = Live(tree) BY <1>1, <1>2, <1>3, SortedIsTidy
<1>5. Set(World) = [World EXCEPT !.t = u] BY <1>2 DEF On
<1> HIDE DEF u, Set
<1>6. On([World EXCEPT !.t = u], u) BY <1>2, OnTree
<1>7. On(a, u) BY <1>1, <1>3, <1>4, <1>5, <1>6, SaveChildOrderIs DEF Tidy
<1>8. CASE a.ok
  <2>1. Ends(a) BY <1>1, <1>8
  <2>2. After(u) BY <1>4, <1>7, <2>1, EndsIs
  <2> QED BY <1>1, <2>2 DEF After, Sorts, u
<1>9. CASE ~a.ok
  <2>1. Ends(Undone(a)) BY <1>1, <1>9
  <2>2. On(Undone(a), tree) BY <1>7, OnTree
  <2>3. After(tree) BY <1>2, <2>1, <2>2, EndsIs
  <2> QED BY <2>3 DEF After
<1> QED BY <1>8, <1>9

LEMMA RestartStep ==
    ASSUME Sound, Restart
    PROVE  Sound' /\ Reloads
<1> DEFINE l == Walk(disk, clock)
<1>1. Tidy(l.t) /\ DiskSound(l.d) BY WalkFinds DEF Sound
<1>2. /\ disk' = l.d /\ tree' = (IF l.is = "read" THEN l.t ELSE EmptyTree) /\ loads' = loads + 1
      /\ scan' = NoScan /\ clock' = clock
    BY DEF Restart
<1> HIDE DEF l
<1>3. Tidy(tree') BY <1>1, <1>2, EmptyIsTidy
<1>4. Reading(scan)' BY <1>2, IdleIs
<1> QED BY <1>1, <1>2, <1>3, <1>4 DEF Sound, Reloads, Tidy

LEMMA BeginScanStep ==
    ASSUME Sound, BeginScan
    PROVE  Sound' /\ UNCHANGED treeVars
<1>1. scan' = WalkStart(NoDisk, clock) /\ UNCHANGED <<treeVars, disk, clock>> BY DEF BeginScan
<1>2. Reading(scan)' BY <1>1, StartIs DEF Sound
<1> QED BY <1>1, <1>2 DEF Sound, treeVars

LEMMA ScanOnStep ==
    ASSUME Sound, ScanOn
    PROVE  Sound' /\ UNCHANGED treeVars
<1> DEFINE b == [scan EXCEPT !.d = disk, !.taken = tree.nodes]
           acc == WalkOn(b)
<1>0. disk' = acc.d /\ scan' = [acc EXCEPT !.d = NoDisk, !.taken = {}] BY DEF ScanOn
<1>1. UNCHANGED treeVars /\ UNCHANGED clock BY DEF ScanOn
<1>2. Reading(b) /\ b.d = disk
  <2>1. Reading(scan) BY DEF Sound
  <2>2. Reading(b)
    <3>1. ASSUME NEW r, r = b PROVE Reading(r) BY <2>1, <3>1, ReadingOn
    <3> QED BY <3>1
  <2>3. b.d = disk
    <3>1. scan = [t |-> scan.t, open |-> scan.open, is |-> scan.is, now |-> scan.now, d |-> scan.d,
                  taken |-> scan.taken]
        BY <2>1, ReadingRecord
    <3>2. ASSUME NEW r, r = b PROVE r.d = disk BY <3>1, <3>2
    <3> QED BY <3>2
  <2> QED BY <2>2, <2>3
<1> HIDE DEF b
<1>3. Reading(acc) /\ DiskSound(acc.d) BY <1>2, WalkOnIs DEF Sound
<1> HIDE DEF acc
<1>4. Reading(scan)' BY <1>0, <1>3, ReadingOn
<1> QED BY <1>0, <1>1, <1>3, <1>4 DEF Sound, treeVars

LEMMA SwapTreeStep ==
    ASSUME Sound, SwapTree
    PROVE  Sound' /\ (Reloads \/ UNCHANGED treeVars)
<1>1. /\ scan' = NoScan /\ disk' = disk /\ clock' = clock
      /\ (tree' = scan.t /\ loads' = loads + 1) \/ (tree' = tree /\ loads' = loads)
    BY DEF SwapTree, treeVars
<1>2. Reading(scan)' BY <1>1, IdleIs
<1>3. Tidy(tree') BY <1>1 DEF Sound, Reading
<1> QED BY <1>1, <1>2, <1>3 DEF Sound, Reloads, Tidy, treeVars

\* Whatever fails on disk, a step of the service is a step of the tree, or
\* leaves it as it was.
LEMMA NextIs ==
    ASSUME Sound, Next
    PROVE  Sound' /\ [TreeNext]_treeVars
<1> DEFINE Kept == Sound' /\ loads' = loads
<1>1. ASSUME Kept PROVE Versioned
  <2>1. Tidy(tree') BY <1>1 DEF Sound
  <2>2. TreeType(tree') BY <2>1, TidyIs
  <2> QED BY <2>2 DEF Versioned, TreeType
<1>2. ASSUME Kept, tree' = tree PROVE UNCHANGED treeVars BY <1>2 DEF treeVars
<1> HIDE DEF Kept
<1>3. CASE \E p \in Places, s \in Slugs, k \in Kinds : CreateNode(p, s, k)
  <2>1. PICK p \in Places, s \in Slugs, k \in Kinds : CreateNode(p, s, k) BY <1>3
  <2>2. Kept /\ (tree' = tree \/ \E n \in Nodes : Creates(n, p, s, k)) BY <2>1, CreateNodeStep DEF Kept
  <2> QED BY <1>1, <1>2, <2>2 DEF Kept, TreeNext
<1>4. CASE \E p \in Places, s \in Slugs, k \in Kinds, n \in Nodes : RestoreNode(n, p, s, k)
  <2>1. PICK p \in Places, s \in Slugs, k \in Kinds, n \in Nodes : RestoreNode(n, p, s, k) BY <1>4
  <2>2. Kept /\ (tree' = tree \/ Creates(n, p, s, k)) BY <2>1, RestoreNodeStep DEF Kept
  <2> QED BY <1>1, <1>2, <2>2 DEF Kept, TreeNext
<1>5. CASE \E n \in Nodes, p \in Places, s \in Slugs : RestoreExisting(n, p, s)
  <2>1. PICK n \in Nodes, p \in Places, s \in Slugs : RestoreExisting(n, p, s) BY <1>5
  <2>2. Kept /\ (tree' = tree \/ FailsToRestore(n, p, s)) BY <2>1, RestoreExistingStep DEF Kept
  <2> QED BY <1>1, <1>2, <2>2 DEF Kept, TreeNext
<1>6. CASE \E s, z \in Slugs, k \in Kinds : EnsurePagePath(s, z, k)
  <2>1. PICK s \in Slugs, z \in Slugs, k \in Kinds : EnsurePagePath(s, z, k) BY <1>6
  <2>2. Kept /\ (tree' = tree \/ \E m, n \in Nodes : Ensures(m, n, s, z, k)) BY <2>1, EnsurePagePathStep DEF Kept
  <2> QED BY <1>1, <1>2, <2>2 DEF Kept, TreeNext
<1>7. CASE \E n \in Nodes : DeleteNode(n)
  <2>1. PICK n \in Nodes : DeleteNode(n) BY <1>7
  <2>2. Kept /\ (tree' = tree \/ Deletes(n)) BY <2>1, DeleteNodeStep DEF Kept
  <2> QED BY <1>1, <1>2, <2>2 DEF Kept, TreeNext
<1>8. CASE \E n \in Nodes, s \in Slugs, content \in BOOLEAN : UpdateNode(n, s, content)
  <2>1. PICK n \in Nodes, s \in Slugs, content \in BOOLEAN : UpdateNode(n, s, content) BY <1>8
  <2>2. Kept /\ (tree' = tree \/ Updates(n, s)) BY <2>1, UpdateNodeStep DEF Kept
  <2> QED BY <1>1, <1>2, <2>2 DEF Kept, TreeNext
<1>9. CASE \E n \in Nodes, k \in Kinds : ConvertNode(n, k)
  <2>1. PICK n \in Nodes, k \in Kinds : ConvertNode(n, k) BY <1>9
  <2>2. Kept /\ (tree' = tree \/ Converts(n, k)) BY <2>1, ConvertNodeStep DEF Kept
  <2> QED BY <1>1, <1>2, <2>2 DEF Kept, TreeNext
<1>10. CASE \E n \in Nodes, p \in Places, i \in 1 .. Cardinality(Nodes) : MoveNodeToPosition(n, p, i)
  <2>1. PICK n \in Nodes, p \in Places, i \in 1 .. Cardinality(Nodes) : MoveNodeToPosition(n, p, i) BY <1>10
  <2>2. Kept /\ (tree' = tree \/ (i \in 1 .. Len(tree.kids[p]) + 1 /\ Moves(n, p, i))) BY <2>1, MoveStep DEF Kept
  <2> QED BY <1>1, <1>2, <2>2 DEF Kept, TreeNext
<1>11. CASE \E n \in Nodes, pin \in BOOLEAN : SetPinned(n, pin)
  <2>1. PICK n \in Nodes, pin \in BOOLEAN : SetPinned(n, pin) BY <1>11
  <2>2. Kept /\ (tree' = tree \/ Pins(n)) BY <2>1, SetPinnedStep DEF Kept
  <2> QED BY <1>1, <1>2, <2>2 DEF Kept, TreeNext
<1>12. CASE \E S \in SUBSET Nodes : BulkUpdateContent(S)
  <2>1. PICK S \in SUBSET Nodes : BulkUpdateContent(S) BY <1>12
  <2>2. Kept /\ Rewrites(S) BY <2>1, BulkUpdateStep DEF Kept
  <2> QED BY <1>1, <2>2 DEF Kept, TreeNext
<1>13. CASE \E p \in Places : \E seq \in SetToSeqs(ToSet(tree.kids[p])) : SortPages(p, seq)
  <2>1. PICK p \in Places : \E seq \in SetToSeqs(ToSet(tree.kids[p])) : SortPages(p, seq) BY <1>13
  <2>2. PICK seq \in SetToSeqs(ToSet(tree.kids[p])) : SortPages(p, seq) BY <2>1
  <2>3. Kept /\ (tree' = tree \/ Sorts(p, seq)) BY <2>2, SortPagesStep DEF Kept
  <2> QED BY <1>1, <1>2, <2>3 DEF Kept, TreeNext
<1>14. CASE Restart BY <1>14, RestartStep DEF TreeNext
<1>15. CASE BeginScan BY <1>15, BeginScanStep
<1>17. CASE ScanOn BY <1>17, ScanOnStep
<1>16. CASE SwapTree BY <1>16, SwapTreeStep DEF TreeNext
<1> QED BY <1>3, <1>4, <1>5, <1>6, <1>7, <1>8, <1>9, <1>10, <1>11, <1>12, <1>13, <1>14, <1>15, <1>16, <1>17 DEF Next

LEMMA InitIsSound == Init => Sound
<1> SUFFICES ASSUME Init PROVE Sound OBVIOUS
<1>1. tree = EmptyTree /\ disk = [dirs |-> {}, md |-> <<>>, ord |-> <<>>] /\ scan = NoScan /\ clock = 0
    BY DEF Init, TreeInit, NoDisk
<1>2. DiskSound(disk)
  <2>1. IsFiniteSet({}) BY FS_EmptySet
  <2>2. DOMAIN <<>> = {} /\ <<>> = [x \in {} |-> <<>>[x]] OBVIOUS
  <2> QED BY <1>1, <2>1, <2>2 DEF DiskSound
<1> QED BY <1>1, <1>2, EmptyIsTidy, IdleIs DEF Sound

LEMMA StutterIsSound == Sound /\ UNCHANGED vars => Sound' /\ UNCHANGED treeVars
BY DEF Sound, vars, treeVars

\* Whatever fails on disk, and however the tree is read back, the trees in
\* memory stay trees with nothing left of deleted pages, and the disk can be
\* read: every file is in a folder that is there and says which page it is.
THEOREM TheServiceIsSound == Spec => []Sound
<1>1. Sound /\ [Next]_vars => Sound' BY NextIs, StutterIsSound
<1> QED BY <1>1, InitIsSound, PTL DEF Spec

\* TreeService with its files does what PageTree promises, whatever fails on
\* disk: an operation that returns an error has left the tree as it was, or as
\* it was with a parent made a section; every other takes effect as a whole.
THEOREM TheServiceKeepsItsPromise == Spec => TreeSpec
<1>1. Init => TreeInit BY DEF Init
<1>2. Sound /\ [Next]_vars => [TreeNext]_treeVars BY NextIs, StutterIsSound
<1> QED BY <1>1, <1>2, TheServiceIsSound, PTL DEF Spec, TreeSpec

\* The tree in memory stays a tree while files fail to be written.
THEOREM TheServiceKeepsATree == Spec => []TreeOK
BY TheServiceKeepsItsPromise, TheTreeIsATree, PTL
=============================================================================
