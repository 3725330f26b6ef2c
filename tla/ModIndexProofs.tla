---------------------------- MODULE ModIndexProofs ----------------------------
(***************************************************************************)
(* Proofs about ModIndex for every registry, docnames filter and           *)
(* modindex_common_prefix setting: an index that generate finishes lists   *)
(* each module of the selected documents exactly once, under its full      *)
(* name and with its document, and no module of another document.         *)
(***************************************************************************)
EXTENDS ModIndex, SequenceTheorems, FiniteSetTheorems, WellFoundedInduction, TLAPS

-----------------------------------------------------------------------------
\* A non-empty set of naturals has a least element.
LEMMA LeastNat ==
  ASSUME NEW T \in SUBSET Nat, T # {}
  PROVE  \E x \in T : \A y \in T : x <= y
<1>1. \E x \in T : \A y \in T : ~(<< y, x >> \in OpToRel(<, Nat))
  BY WFMin, NatLessThanWellFounded
<1>2. \A x, y \in Nat : ~(<< y, x >> \in OpToRel(<, Nat)) => x <= y
  BY DEF OpToRel
<1>3. QED
  BY <1>1, <1>2

\* Python's < on strings is irreflexive: no name sorts before itself.
LEMMA StrLessIrreflexive ==
  ASSUME NEW s \in Seq(Chars)
  PROVE  ~StrLess(s, s)
<1>1. \A c \in Chars : CharRank[c] \in Nat
  BY DEF CharRank, Chars
<1>2. QED
  BY <1>1 DEF StrLess

(***************************************************************************)
(* sorted(modules): an enumeration of the names in increasing order lists  *)
(* each name exactly once.  Irreflexivity makes it injective, and an       *)
(* injection from 1 .. Cardinality(D) into the finite set D is onto.      *)
(***************************************************************************)
LEMMA SortedNamesEnumerate ==
  ASSUME NEW D \in SUBSET Seq(Chars), IsFiniteSet(D), NEW s \in SortedNames(D)
  PROVE  /\ s \in Seq(D)
         /\ Len(s) = Cardinality(D)
         /\ \A a, b \in 1..Len(s) : s[a] = s[b] => a = b
         /\ \A m \in D : \E q \in 1..Len(s) : s[q] = m
<1>1. Cardinality(D) \in Nat
  BY FS_CardinalityType
<1>2. s \in [1..Cardinality(D) -> D]
  BY DEF SortedNames
<1>3. s \in Seq(D) /\ Len(s) = Cardinality(D)
  BY <1>1, <1>2
<1>4. \A a, b \in 1..Len(s) : s[a] = s[b] => a = b
  <2> SUFFICES ASSUME NEW a \in 1..Len(s), NEW b \in 1..Len(s), s[a] = s[b], a # b
               PROVE  FALSE
    OBVIOUS
  <2>1. CASE a < b
    <3>1. StrLess(s[a], s[b])
      BY <1>3, <2>1 DEF SortedNames
    <3>2. s[a] \in Seq(Chars)
      BY <1>3
    <3>3. QED
      BY <3>1, <3>2, StrLessIrreflexive
  <2>2. CASE b < a
    <3>1. StrLess(s[b], s[a])
      BY <1>3, <2>2 DEF SortedNames
    <3>2. s[a] \in Seq(Chars)
      BY <1>3
    <3>3. QED
      BY <3>1, <3>2, StrLessIrreflexive
  <2>3. QED
    BY <1>1, <1>3, <2>1, <2>2
<1>5. s \in Injection(1..Cardinality(D), D)
  BY <1>2, <1>3, <1>4 DEF Injection, IsInjective
<1>6. Cardinality(1..Cardinality(D)) = Cardinality(D)
  BY <1>1, FS_Interval
<1>7. s \in Surjection(1..Cardinality(D), D)
  BY <1>5, <1>6, FS_Injection
<1>8. QED
  BY <1>3, <1>4, <1>7 DEF Surjection

(***************************************************************************)
(* The for-else over 'ignores' stops at the first prefix the name starts   *)
(* with: FirstIgnore is 0 or the index of such a prefix.                   *)
(***************************************************************************)
LEMMA FirstIgnoreSpec ==
  ASSUME NEW ig \in Seq(Seq(Chars)), NEW m \in Seq(Chars)
  PROVE  \/ FirstIgnore(ig, m) = 0
         \/ FirstIgnore(ig, m) \in 1..Len(ig) /\ IsPrefix(ig[FirstIgnore(ig, m)], m)
<1> DEFINE T == {j \in 1..Len(ig) : IsPrefix(ig[j], m)}
<1>1. CASE T = {}
  BY <1>1 DEF FirstIgnore
<1>2. CASE T # {}
  <2>0. T \in SUBSET Nat
    OBVIOUS
  <2>1. PICK x \in T : \A y \in T : x <= y
    BY <1>2, <2>0, LeastNat
  <2>2. x \in 1..Len(ig) /\ IsPrefix(ig[x], m) /\ \A h \in 1..x - 1 : ~IsPrefix(ig[h], m)
    BY <2>1
  <2>3. QED
    BY <2>2 DEF FirstIgnore
<1>3. QED
  BY <1>1, <1>2

(***************************************************************************)
(* stripped + modname: the prefix the loop removed, put back in front of   *)
(* the short name, gives the module's full name, whether a prefix was      *)
(* stripped, none was, or the whole name was stripped and swapped back.   *)
(***************************************************************************)
LEMMA StripJoin ==
  ASSUME NEW ig \in Seq(Seq(Chars)), NEW m \in Seq(Chars)
  PROVE  Stripped(ig, m) \o ShortName(ig, m) = m
<1> DEFINE j == FirstIgnore(ig, m)
<1>1. m = SubSeq(m, 1, Len(m))
  BY SubSeqFull
<1>2. CASE j = 0 \/ ig[j] = m
  <2>1. Stripped(ig, m) = << >>
    BY <1>2 DEF Stripped
  <2>2. ShortName(ig, m) = SubSeq(m, 1, Len(m))
    BY <2>1 DEF ShortName
  <2>3. QED
    BY <1>1, <2>1, <2>2
<1>3. CASE ~(j = 0 \/ ig[j] = m)
  <2>1. j \in 1..Len(ig) /\ IsPrefix(ig[j], m)
    BY <1>3, FirstIgnoreSpec
  <2>2. Stripped(ig, m) = ig[j]
    BY <1>3 DEF Stripped
  <2> DEFINE L == Len(ig[j])
  <2>3. ig[j] \in Seq(Chars) /\ L \in 0..Len(m)
    BY <2>1 DEF IsPrefix
  <2>4. ig[j] = SubSeq(m, 1, L)
    BY <2>1, <2>3, SubSeqFull DEF IsPrefix
  <2>5. ShortName(ig, m) = SubSeq(m, L + 1, Len(m))
    BY <2>2 DEF ShortName
  <2>6. SubSeq(m, 1, L) \o SubSeq(m, L + 1, Len(m)) = SubSeq(m, 1, Len(m))
    <3>1. /\ 1 \in 1..Len(m) + 1 /\ L \in 1 - 1..Len(m)
          /\ Len(m) \in L..Len(m)
      BY <2>3
    <3>2. QED
      BY <3>1, ConcatAdjacentSubSeq
  <2>7. QED
    BY <1>1, <2>2, <2>4, <2>5, <2>6
<1>4. QED
  BY <1>2, <1>3

-----------------------------------------------------------------------------
(***************************************************************************)
(* The entries of a bucket: [name, subtype, docname] (the other fields are *)
(* left out of the model).                                                 *)
(***************************************************************************)
Entries == [name : Seq(Chars), subtype : 0..2, doc : Docs \cup {NoDoc}]

\* The hits of m in a content c over entry indexes 1..n (Hits is HitsIn
\* of content over 1 .. 2 * Len(order)).
HitsIn(c, n, m) ==
  {h \in (DOMAIN c) \X (1..n) :
     /\ h[2] <= Len(c[h[1]])
     /\ c[h[1]][h[2]].name = m
     /\ c[h[1]][h[2]].doc # NoDoc}

(***************************************************************************)
(* What one listing does to a bucket B: it keeps the names and documents   *)
(* of B's entries (entries[-1][1] = 1 changes a subtype only), may append  *)
(* a dummy group head (no document), and ends with the module's entry.     *)
(***************************************************************************)
Extends(B, es, nm, d) ==
  /\ es \in Seq(Entries)
  /\ Len(B) < Len(es) /\ Len(es) <= Len(B) + 2
  /\ \A j \in 1..Len(B) : es[j].name = B[j].name /\ es[j].doc = B[j].doc
  /\ \A j \in Len(B) + 1..Len(es) - 1 : es[j].doc = NoDoc
  /\ es[Len(es)].name = nm /\ es[Len(es)].doc = d

\* A listing adds one hit, for the module it lists, and no other.
LEMMA HitsAfterList ==
  ASSUME NEW c, NEW l, NEW es, NEW n \in Nat, NEW nm, NEW d, d # NoDoc,
         \A x \in DOMAIN c : c[x] \in Seq(Entries),
         Extends(Bucket(c, l), es, nm, d), Len(es) <= n,
         NEW m
  PROVE  HitsIn(SetBucket(c, l, es), n, m) =
           HitsIn(c, n, m) \cup (IF m = nm THEN {<< l, Len(es) >>} ELSE {})
<1> DEFINE B == Bucket(c, l)
           c2 == SetBucket(c, l, es)
           New == IF m = nm THEN {<< l, Len(es) >>} ELSE {}
<1>1. /\ B \in Seq(Entries) /\ es \in Seq(Entries)
      /\ (l \in DOMAIN c => B = c[l]) /\ (l \notin DOMAIN c => B = << >>)
  BY DEF Bucket, Extends
<1>2. DOMAIN c2 = DOMAIN c \cup {l} /\ c2[l] = es
      /\ \A x \in DOMAIN c : x # l => c2[x] = c[x]
  BY DEF SetBucket
<1>0. /\ Len(B) \in Nat /\ Len(es) \in 1..n
      /\ Len(B) < Len(es) /\ Len(es) <= Len(B) + 2
  BY <1>1 DEF Extends
<1> SUFFICES ASSUME NEW h PROVE h \in HitsIn(c2, n, m) <=> h \in HitsIn(c, n, m) \cup New
  OBVIOUS
<1>3. CASE h \notin (DOMAIN c \cup {l}) \X (1..n)
  <2>1. h \notin New
    BY <1>0, <1>3
  <2>2. h \notin HitsIn(c, n, m) /\ h \notin HitsIn(c2, n, m)
    BY <1>2, <1>3 DEF HitsIn
  <2>3. QED
    BY <2>1, <2>2
<1>4. CASE h \in (DOMAIN c \cup {l}) \X (1..n) /\ h[1] # l
  BY <1>2, <1>4 DEF HitsIn
<1>5. CASE h \in (DOMAIN c \cup {l}) \X (1..n) /\ h[1] = l
  <2>1. PICK j \in 1..n : h = << l, j >>
    BY <1>5
  <2>2. h \in HitsIn(c2, n, m) <=>
          (j <= Len(es) /\ es[j].name = m /\ es[j].doc # NoDoc)
    BY <1>2, <2>1 DEF HitsIn
  <2>3. h \in HitsIn(c, n, m) <=>
          (j <= Len(B) /\ B[j].name = m /\ B[j].doc # NoDoc)
    BY <1>1, <2>1 DEF HitsIn
  <2>4. h \in New <=> (m = nm /\ j = Len(es))
    BY <2>1
  <2>5. CASE j <= Len(B)
    <3>1. j \in 1..Len(B)
      BY <2>5, <1>0
    <3>2. es[j].name = B[j].name /\ es[j].doc = B[j].doc
      BY <3>1 DEF Extends
    <3>3. j # Len(es)
      BY <2>5, <1>0
    <3>4. QED
      BY <2>2, <2>3, <2>4, <2>5, <3>2, <3>3, <1>0
  <2>6. CASE j \in Len(B) + 1..Len(es) - 1
    <3>1. es[j].doc = NoDoc
      BY <2>6 DEF Extends
    <3>2. ~(j <= Len(B)) /\ j # Len(es)
      BY <2>6, <1>0
    <3>3. QED
      BY <2>2, <2>3, <2>4, <3>1, <3>2
  <2>7. CASE j = Len(es)
    BY <2>1, <2>2, <2>3, <2>4, <2>7, <1>0 DEF Extends
  <2>8. CASE j > Len(es)
    <3>1. ~(j <= Len(es)) /\ ~(j <= Len(B)) /\ j # Len(es)
      BY <2>8, <1>0
    <3>2. QED
      BY <2>2, <2>3, <2>4, <3>1
  <2>9. QED
    BY <1>0, <2>5, <2>6, <2>7, <2>8
<1>6. QED
  BY <1>3, <1>4, <1>5

\* modname.split('.')[0] is a name: the whole name or the part before its
\* first dot.
LEMMA PackageType ==
  ASSUME NEW n \in Seq(Chars)
  PROVE  Package(n) \in Seq(Chars)
<1> DEFINE T == {j \in 1..Len(n) : n[j] = "."}
<1>1. CASE T = {}
  BY <1>1 DEF Package
<1>2. CASE T # {}
  <2>0. T \in SUBSET Nat
    OBVIOUS
  <2>1. PICK x \in T : \A y \in T : x <= y
    BY <1>2, <2>0, LeastNat
  <2> DEFINE k == CHOOSE j \in 1..Len(n) : n[j] = "." /\ \A h \in 1..j - 1 : n[h] # "."
  <2>2. k \in 1..Len(n)
    BY <2>1
  <2>3. Package(n) = SubSeq(n, 1, k - 1)
    BY <1>2 DEF Package
  <2>4. \A q \in 1..k - 1 : n[q] \in Chars
    BY <2>2
  <2>5. QED
    BY <2>2, <2>3, <2>4, SubSeqProperties
<1>3. QED
  BY <1>1, <1>2

\* entries[-1][1] = 1: the last entry becomes a group head, and every
\* entry keeps its name and document.
LEMMA MakeGroupHead ==
  ASSUME NEW B \in Seq(Entries), B # << >>
  PROVE  LET B2 == [B EXCEPT ![Len(B)] = GroupHead(B[Len(B)])]
         IN  /\ B2 \in Seq(Entries)
             /\ Len(B2) = Len(B)
             /\ \A j \in 1..Len(B) : B2[j].name = B[j].name /\ B2[j].doc = B[j].doc
<1> DEFINE L == Len(B)
           B2 == [B EXCEPT ![L] = GroupHead(B[L])]
<1>1. L \in 1..Len(B) /\ B[L] \in Entries
  BY EmptySeq, LenProperties
<1>2. GroupHead(B[L]) \in Entries
      /\ GroupHead(B[L]).name = B[L].name /\ GroupHead(B[L]).doc = B[L].doc
  BY <1>1 DEF GroupHead, Entry, Entries
<1>3. B2 \in Seq(Entries) /\ Len(B2) = L
  BY <1>1, <1>2, ExceptSeq
<1>4. \A j \in 1..L : B2[j] = IF j = L THEN GroupHead(B[L]) ELSE B[j]
  BY <1>1, <1>2, ExceptSeq
<1>5. \A j \in 1..L : B2[j].name = B[j].name /\ B2[j].doc = B[j].doc
  BY <1>2, <1>4
<1>6. QED
  BY <1>3, <1>5

-----------------------------------------------------------------------------
(***************************************************************************)
(* The inductive invariant.  After the first i - 1 names of the sorted     *)
(* list, each module among them whose document is selected has exactly    *)
(* one hit, with its document, and every other module has none; no bucket *)
(* holds more than two entries per name looked at (a dummy group head and  *)
(* the module's own entry), so the hits lie within 1 .. 2 * Len(order).   *)
(***************************************************************************)
Sel(m) == docnames = {} \/ mods[m] \in docnames
Seen(m) == \E q \in 1..i - 1 : order[q] = m

ListedOnce ==
  \A m \in DOMAIN mods :
    IF Seen(m) /\ Sel(m)
    THEN \E h \in Hits(m) : Hits(m) = {h} /\ content[h[1]][h[2]].doc = mods[m]
    ELSE Hits(m) = {}

BucketsOK ==
  \A l \in DOMAIN content :
    content[l] \in Seq(Entries) /\ Len(content[l]) <= 2 * (i - 1)

IInv ==
  /\ mods \in Registries
  /\ docnames \in SUBSET Docs
  /\ ignores \in Seq(Seq(Chars))
  /\ order \in SortedNames(DOMAIN mods)
  /\ i \in 1..Len(order) + 1
  /\ BucketsOK
  /\ pc \in {"loop", "done", "error"}
  /\ (pc = "done" => i = Len(order) + 1)
  /\ ListedOnce

\* The sorted list enumerates the registry's names, each once.
LEMMA OrderFacts ==
  ASSUME IInv
  PROVE  /\ DOMAIN mods \subseteq Seq(Chars)
         /\ \A m \in DOMAIN mods : mods[m] \in Docs /\ mods[m] # NoDoc
         /\ order \in Seq(DOMAIN mods)
         /\ Len(order) \in Nat
         /\ \A a, b \in 1..Len(order) : order[a] = order[b] => a = b
         /\ \A m \in DOMAIN mods : \E q \in 1..Len(order) : order[q] = m
<1>1. /\ IsFiniteSet(DOMAIN mods)
      /\ \A n \in DOMAIN mods : n \in Seq(Chars) \ {<< >>} /\ mods[n] \in Docs
  BY RegistriesAssumption DEF IInv
<1>2. DOMAIN mods \subseteq Seq(Chars)
  BY <1>1
<1>3. order \in SortedNames(DOMAIN mods)
  BY DEF IInv
<1>4. QED
  BY <1>1, <1>2, <1>3, SortedNamesEnumerate, NoDocAssumption

(***************************************************************************)
(* The module the loop looks at: a name of the registry, not looked at     *)
(* before (the list has no duplicates); its name splits into the prefix    *)
(* stripped and the short name, and its bucket holds entries.              *)
(***************************************************************************)
LEMMA CurFacts ==
  ASSUME IInv, i <= Len(order)
  PROVE  /\ Cur \in DOMAIN mods /\ Cur \in Seq(Chars)
         /\ mods[Cur] \in Docs /\ mods[Cur] # NoDoc
         /\ ~Seen(Cur)
         /\ \A q \in 1..i : order[q] = Cur <=> q = i
         /\ Stripped(ignores, Cur) \in Seq(Chars)
         /\ Short \in Seq(Chars)
         /\ Stripped(ignores, Cur) \o Short = Cur
         /\ Listed \in Seq(Entries) /\ Len(Listed) <= 2 * (i - 1)
<1>0. /\ DOMAIN mods \subseteq Seq(Chars)
      /\ \A m \in DOMAIN mods : mods[m] \in Docs /\ mods[m] # NoDoc
      /\ order \in Seq(DOMAIN mods)
      /\ Len(order) \in Nat
      /\ \A a, b \in 1..Len(order) : order[a] = order[b] => a = b
  BY OrderFacts
<1>1. i \in 1..Len(order)
  BY <1>0 DEF IInv
<1>2. Cur \in DOMAIN mods /\ Cur \in Seq(Chars) /\ mods[Cur] \in Docs /\ mods[Cur] # NoDoc
  <2>1. Cur \in DOMAIN mods
    BY <1>0, <1>1, ElementOfSeq DEF Cur
  <2>2. QED
    BY <1>0, <2>1
<1>3. \A q \in 1..i : order[q] = Cur <=> q = i
  <2> SUFFICES ASSUME NEW q \in 1..i PROVE order[q] = order[i] <=> q = i
    BY DEF Cur
  <2>1. q \in 1..Len(order)
    BY <1>0, <1>1
  <2>2. QED
    BY <1>0, <1>1, <2>1
<1>4. ~Seen(Cur)
  <2> SUFFICES ASSUME NEW q \in 1..i - 1, order[q] = Cur PROVE FALSE
    BY DEF Seen
  <2>1. q \in 1..i /\ q # i
    BY <1>1
  <2>2. QED
    BY <1>3, <2>1
<1>5. ignores \in Seq(Seq(Chars))
  BY DEF IInv
<1>6. Stripped(ignores, Cur) \in Seq(Chars)
  <2>1. CASE FirstIgnore(ignores, Cur) = 0 \/ ignores[FirstIgnore(ignores, Cur)] = Cur
    BY <2>1 DEF Stripped
  <2>2. CASE ~(FirstIgnore(ignores, Cur) = 0 \/ ignores[FirstIgnore(ignores, Cur)] = Cur)
    <3>1. FirstIgnore(ignores, Cur) \in 1..Len(ignores)
      BY <1>2, <1>5, <2>2, FirstIgnoreSpec
    <3>2. QED
      BY <1>5, <2>2, <3>1 DEF Stripped
  <2>3. QED
    BY <2>1, <2>2
<1>7. Short \in Seq(Chars)
  <2>1. Len(Stripped(ignores, Cur)) \in Nat
    BY <1>6, LenProperties
  <2>2. \A q \in Len(Stripped(ignores, Cur)) + 1..Len(Cur) : Cur[q] \in Chars
    BY <1>2, <2>1
  <2>3. QED
    BY <1>2, <2>1, <2>2, SubSeqProperties DEF Short, ShortName
<1>8. Stripped(ignores, Cur) \o Short = Cur
  BY <1>2, <1>5, StripJoin DEF Short
<1>9. Listed \in Seq(Entries) /\ Len(Listed) <= 2 * (i - 1)
  <2>1. CASE Short[1] \in DOMAIN content
    BY <2>1 DEF Listed, Bucket, IInv, BucketsOK
  <2>2. CASE Short[1] \notin DOMAIN content
    BY <2>2, <1>1 DEF Listed, Bucket
  <2>3. QED
    BY <2>1, <2>2
<1>10. QED
  BY <1>2, <1>3, <1>4, <1>6, <1>7, <1>8, <1>9

\* entries.append(entry): the entry is added after the bucket's entries.
LEMMA ExtendsAppend ==
  ASSUME NEW B \in Seq(Entries), NEW e \in Entries
  PROVE  Extends(B, Append(B, e), e.name, e.doc)
<1>1. /\ Append(B, e) \in Seq(Entries) /\ Len(Append(B, e)) = Len(B) + 1
      /\ \A j \in 1..Len(B) : Append(B, e)[j] = B[j]
      /\ Append(B, e)[Len(B) + 1] = e
  BY AppendProperties
<1>2. Len(B) \in Nat
  BY LenProperties
<1>3. QED
  BY <1>1, <1>2 DEF Extends

\* entries[-1][1] = 1, then entries.append(entry).
LEMMA ExtendsGroupHead ==
  ASSUME NEW B \in Seq(Entries), B # << >>, NEW e \in Entries
  PROVE  Extends(B, Append([B EXCEPT ![Len(B)] = GroupHead(B[Len(B)])], e), e.name, e.doc)
<1> DEFINE B2 == [B EXCEPT ![Len(B)] = GroupHead(B[Len(B)])]
<1>1. /\ B2 \in Seq(Entries) /\ Len(B2) = Len(B)
      /\ \A j \in 1..Len(B) : B2[j].name = B[j].name /\ B2[j].doc = B[j].doc
  BY MakeGroupHead
<1>2. Extends(B2, Append(B2, e), e.name, e.doc)
  BY <1>1, ExtendsAppend
<1>3. QED
  BY <1>1, <1>2 DEF Extends

\* entries.append(dummy), then entries.append(entry).
LEMMA ExtendsDummy ==
  ASSUME NEW B \in Seq(Entries), NEW dm \in Entries, dm.doc = NoDoc, NEW e \in Entries
  PROVE  Extends(B, B \o << dm, e >>, e.name, e.doc)
<1> DEFINE es == B \o << dm, e >>
<1>1. Len(B) \in Nat /\ << dm, e >> \in Seq(Entries)
  BY LenProperties
<1>2. /\ es \in Seq(Entries) /\ Len(es) = Len(B) + 2
      /\ \A j \in 1..Len(B) : es[j] = B[j]
      /\ es[Len(B) + 1] = dm /\ es[Len(B) + 2] = e
  BY <1>1, ConcatProperties
<1>3. Len(B) + 1..Len(es) - 1 = {Len(B) + 1}
  BY <1>1, <1>2
<1>4. QED
  BY <1>1, <1>2, <1>3 DEF Extends

(***************************************************************************)
(* The step every listing shares: the module's bucket is extended as       *)
(* Extends says and the loop moves on.  The module gets its one hit, and   *)
(* the hits of every other module stay where they were.                    *)
(***************************************************************************)
LEMMA ListKeeps ==
  ASSUME IInv, pc = "loop", i <= Len(order), Sel(Cur),
         NEW es, Extends(Listed, es, Cur, mods[Cur]),
         content' = SetBucket(content, Short[1], es),
         i' = i + 1,
         UNCHANGED << mods, docnames, ignores, order, pc >>
  PROVE  IInv'
<1> DEFINE l == Short[1]
           N == 2 * Len(order)
<1>1. /\ Cur \in DOMAIN mods /\ mods[Cur] \in Docs /\ mods[Cur] # NoDoc
      /\ ~Seen(Cur)
      /\ \A q \in 1..i : order[q] = Cur <=> q = i
      /\ Listed \in Seq(Entries) /\ Len(Listed) <= 2 * (i - 1)
  BY CurFacts
<1>2. /\ Len(order) \in Nat /\ i \in 1..Len(order)
      /\ \A x \in DOMAIN content : content[x] \in Seq(Entries) /\ Len(content[x]) <= 2 * (i - 1)
  BY OrderFacts DEF IInv, BucketsOK
<1>3. es \in Seq(Entries) /\ Len(es) <= 2 * i /\ Len(es) <= N /\ N \in Nat
  <2>1. Len(Listed) \in Nat /\ Len(es) <= Len(Listed) + 2
    BY <1>1, LenProperties DEF Extends
  <2>2. QED
    BY <1>1, <1>2, <2>1 DEF Extends
<1>4. DOMAIN content' = DOMAIN content \cup {l} /\ content'[l] = es
      /\ \A x \in DOMAIN content : x # l => content'[x] = content[x]
  BY DEF SetBucket
<1>5. BucketsOK'
  <2> SUFFICES ASSUME NEW x \in DOMAIN content'
               PROVE  content'[x] \in Seq(Entries) /\ Len(content'[x]) <= 2 * (i' - 1)
    BY DEF BucketsOK
  <2>1. CASE x = l
    <3>1. content'[x] = es
      BY <1>4, <2>1
    <3>2. Len(es) \in Nat /\ i \in Nat /\ i' = i + 1
      BY <1>2, <1>3, LenProperties
    <3>3. QED
      BY ONLY <1>3, <3>1, <3>2
  <2>2. CASE x # l
    <3>1. x \in DOMAIN content /\ content'[x] = content[x]
      BY <1>4, <2>2
    <3>2. content[x] \in Seq(Entries) /\ Len(content[x]) <= 2 * (i - 1)
      BY <1>2, <3>1
    <3>3. Len(content[x]) \in Nat /\ i \in Nat
      BY <1>2, <3>2, LenProperties
    <3>4. i' = i + 1
      OBVIOUS
    <3>5. QED
      BY ONLY <3>1, <3>2, <3>3, <3>4
  <2>3. QED
    BY <2>1, <2>2
<1>6. ListedOnce'
  <2> SUFFICES ASSUME NEW m \in DOMAIN mods
               PROVE  IF Seen(m)' /\ Sel(m)'
                      THEN \E h \in Hits(m)' : Hits(m)' = {h} /\ content'[h[1]][h[2]].doc = mods[m]
                      ELSE Hits(m)' = {}
    BY DEF ListedOnce
  <2>1. Sel(m)' = Sel(m)
    BY DEF Sel
  <2>2. Seen(m)' <=> Seen(m) \/ m = Cur
    BY <1>1, <1>2 DEF Seen
  <2>3. Hits(m)' = Hits(m) \cup (IF m = Cur THEN {<< l, Len(es) >>} ELSE {})
    <3>1. Hits(m)' = HitsIn(SetBucket(content, l, es), N, m)
      BY DEF Hits, HitsIn
    <3>2. Hits(m) = HitsIn(content, N, m)
      BY DEF Hits, HitsIn
    <3>3. Extends(Bucket(content, l), es, Cur, mods[Cur])
      BY DEF Listed
    <3>4. HitsIn(SetBucket(content, l, es), N, m) =
            HitsIn(content, N, m) \cup (IF m = Cur THEN {<< l, Len(es) >>} ELSE {})
      BY <1>1, <1>2, <1>3, <3>3, HitsAfterList
    <3>5. QED
      BY <3>1, <3>2, <3>4
  <2>4. CASE m = Cur
    <3>1. Hits(Cur) = {}
      BY <1>1 DEF IInv, ListedOnce
    <3>2. Hits(m)' = {<< l, Len(es) >>}
      BY <2>3, <2>4, <3>1
    <3>3. content'[l][Len(es)].doc = mods[Cur]
      BY <1>4 DEF Extends
    <3>4. QED
      BY <2>1, <2>2, <2>4, <3>2, <3>3
  <2>5. CASE m # Cur
    <3>1. Hits(m)' = Hits(m) /\ (Seen(m)' <=> Seen(m))
      BY <2>2, <2>3, <2>5
    <3>2. CASE Seen(m) /\ Sel(m)
      <4>1. PICK h \in Hits(m) : Hits(m) = {h} /\ content[h[1]][h[2]].doc = mods[m]
        BY <3>2 DEF IInv, ListedOnce
      <4>2. h[1] \in DOMAIN content /\ h[2] \in 1..Len(content[h[1]])
        BY <4>1, <1>2, LenProperties DEF Hits
      <4>3. content'[h[1]][h[2]].doc = content[h[1]][h[2]].doc
        <5>1. CASE h[1] = l
          <6>1. Listed = content[l]
            BY <5>1, <4>2 DEF Listed, Bucket
          <6>2. h[2] \in 1..Len(Listed)
            BY <4>2, <5>1, <6>1
          <6>3. es[h[2]].doc = Listed[h[2]].doc
            BY <6>2 DEF Extends
          <6>4. QED
            BY <1>4, <5>1, <6>1, <6>3
        <5>2. CASE h[1] # l
          BY <1>4, <4>2, <5>2
        <5>3. QED
          BY <5>1, <5>2
      <4>4. QED
        BY <2>1, <3>1, <3>2, <4>1, <4>3
    <3>3. CASE ~(Seen(m) /\ Sel(m))
      BY <2>1, <3>1, <3>3 DEF IInv, ListedOnce
    <3>4. QED
      BY <3>2, <3>3
  <2>6. QED
    BY <2>4, <2>5
<1>7. QED
  <2>1. /\ mods' \in Registries /\ docnames' \in SUBSET Docs
        /\ ignores' \in Seq(Seq(Chars)) /\ order' \in SortedNames(DOMAIN mods')
        /\ pc' \in {"loop", "done", "error"} /\ (pc' = "done" => i' = Len(order') + 1)
    BY DEF IInv
  <2>2. i' \in 1..Len(order') + 1
    BY <1>2
  <2>3. QED
    BY <1>5, <1>6, <2>1, <2>2 DEF IInv

\* The module's entry: stripped + modname is its full name.
LEMMA CurEntry ==
  ASSUME IInv, i <= Len(order), NEW t \in 0..2
  PROVE  LET e == Entry(Stripped(ignores, Cur) \o Short, t, mods[Cur])
         IN  e \in Entries /\ e.name = Cur /\ e.doc = mods[Cur]
<1>1. /\ Cur \in Seq(Chars) /\ mods[Cur] \in Docs
      /\ Stripped(ignores, Cur) \o Short = Cur
  BY CurFacts
<1>2. QED
  BY <1>1 DEF Entry, Entries

LEMMA ListTopLevelKeeps ==
  ASSUME IInv, ListTopLevel
  PROVE  IInv'
<1> DEFINE e == Entry(Stripped(ignores, Cur) \o Short, 0, mods[Cur])
<1>1. pc = "loop" /\ i <= Len(order) /\ Sel(Cur)
  BY DEF ListTopLevel, Listing, Sel
<1>2. e \in Entries /\ e.name = Cur /\ e.doc = mods[Cur]
  BY <1>1, CurEntry
<1>3. Listed \in Seq(Entries)
  BY <1>1, CurFacts
<1>4. Extends(Listed, Append(Listed, e), Cur, mods[Cur])
  BY <1>2, <1>3, ExtendsAppend
<1>5. /\ content' = SetBucket(content, Short[1], Append(Listed, e))
      /\ i' = i + 1
      /\ UNCHANGED << mods, docnames, ignores, order, pc >>
  BY DEF ListTopLevel, Listing
<1>6. QED
  BY <1>1, <1>4, <1>5, ListKeeps

LEMMA ListFirstSubmoduleKeeps ==
  ASSUME IInv, ListFirstSubmodule
  PROVE  IInv'
<1> DEFINE e == Entry(Stripped(ignores, Cur) \o Short, 2, mods[Cur])
           es == Append([Listed EXCEPT ![Len(Listed)] = GroupHead(Listed[Len(Listed)])], e)
<1>1. pc = "loop" /\ i <= Len(order) /\ Sel(Cur) /\ Listed # << >>
  BY DEF ListFirstSubmodule, Listing, Sel
<1>2. e \in Entries /\ e.name = Cur /\ e.doc = mods[Cur]
  BY <1>1, CurEntry
<1>3. Listed \in Seq(Entries)
  BY <1>1, CurFacts
<1>4. Extends(Listed, es, Cur, mods[Cur])
  BY <1>1, <1>2, <1>3, ExtendsGroupHead
<1>5. /\ content' = SetBucket(content, Short[1], es)
      /\ i' = i + 1
      /\ UNCHANGED << mods, docnames, ignores, order, pc >>
  BY DEF ListFirstSubmodule, Listing
<1>6. QED
  BY <1>1, <1>4, <1>5, ListKeeps

LEMMA ListOrphanSubmoduleKeeps ==
  ASSUME IInv, ListOrphanSubmodule
  PROVE  IInv'
<1> DEFINE e == Entry(Stripped(ignores, Cur) \o Short, 2, mods[Cur])
           dm == Entry(Stripped(ignores, Cur) \o Package(Short), 1, NoDoc)
           es == Listed \o << dm, e >>
<1>1. pc = "loop" /\ i <= Len(order) /\ Sel(Cur)
  BY DEF ListOrphanSubmodule, Listing, Sel
<1>2. e \in Entries /\ e.name = Cur /\ e.doc = mods[Cur]
  BY <1>1, CurEntry
<1>3. Listed \in Seq(Entries) /\ Stripped(ignores, Cur) \in Seq(Chars) /\ Short \in Seq(Chars)
  BY <1>1, CurFacts
<1>4. dm \in Entries /\ dm.doc = NoDoc
  <2>1. Package(Short) \in Seq(Chars)
    BY <1>3, PackageType
  <2>2. QED
    BY <1>3, <2>1 DEF Entry, Entries
<1>5. Extends(Listed, es, Cur, mods[Cur])
  BY <1>2, <1>3, <1>4, ExtendsDummy
<1>6. /\ content' = SetBucket(content, Short[1], es)
      /\ i' = i + 1
      /\ UNCHANGED << mods, docnames, ignores, order, pc >>
  BY DEF ListOrphanSubmodule, Listing
<1>7. QED
  BY <1>1, <1>5, <1>6, ListKeeps

LEMMA ListNextSubmoduleKeeps ==
  ASSUME IInv, ListNextSubmodule
  PROVE  IInv'
<1> DEFINE e == Entry(Stripped(ignores, Cur) \o Short, 2, mods[Cur])
<1>1. pc = "loop" /\ i <= Len(order) /\ Sel(Cur)
  BY DEF ListNextSubmodule, Listing, Sel
<1>2. e \in Entries /\ e.name = Cur /\ e.doc = mods[Cur]
  BY <1>1, CurEntry
<1>3. Listed \in Seq(Entries)
  BY <1>1, CurFacts
<1>4. Extends(Listed, Append(Listed, e), Cur, mods[Cur])
  BY <1>2, <1>3, ExtendsAppend
<1>5. /\ content' = SetBucket(content, Short[1], Append(Listed, e))
      /\ i' = i + 1
      /\ UNCHANGED << mods, docnames, ignores, order, pc >>
  BY DEF ListNextSubmodule, Listing
<1>6. QED
  BY <1>1, <1>4, <1>5, ListKeeps

\* A module outside the selected documents is passed over: nothing listed.
LEMMA SkipKeeps ==
  ASSUME IInv, Skip
  PROVE  IInv'
<1>1. /\ pc = "loop" /\ i <= Len(order) /\ ~Sel(Cur) /\ i' = i + 1
      /\ UNCHANGED << mods, docnames, ignores, order, content, pc >>
  BY DEF Skip, Sel
<1>2. /\ ~Seen(Cur)
      /\ \A q \in 1..i : order[q] = Cur <=> q = i
  BY <1>1, CurFacts
<1>3. /\ Len(order) \in Nat /\ i \in 1..Len(order)
      /\ \A x \in DOMAIN content : content[x] \in Seq(Entries) /\ Len(content[x]) <= 2 * (i - 1)
  BY <1>1, OrderFacts DEF IInv, BucketsOK
<1>4. BucketsOK'
  <2> SUFFICES ASSUME NEW x \in DOMAIN content
               PROVE  content[x] \in Seq(Entries) /\ Len(content[x]) <= 2 * (i' - 1)
    BY <1>1 DEF BucketsOK
  <2>1. content[x] \in Seq(Entries) /\ Len(content[x]) <= 2 * (i - 1)
    BY <1>3
  <2>2. Len(content[x]) \in Nat /\ i \in Nat /\ i' = i + 1
    BY <1>1, <1>3, <2>1, LenProperties
  <2>3. QED
    BY ONLY <2>1, <2>2
<1>5. ListedOnce'
  <2> SUFFICES ASSUME NEW m \in DOMAIN mods
               PROVE  IF Seen(m)' /\ Sel(m)'
                      THEN \E h \in Hits(m)' : Hits(m)' = {h} /\ content'[h[1]][h[2]].doc = mods[m]
                      ELSE Hits(m)' = {}
    BY <1>1 DEF ListedOnce
  <2>1. Sel(m)' = Sel(m) /\ Hits(m)' = Hits(m)
    BY <1>1 DEF Sel, Hits
  <2>2. Seen(m)' <=> Seen(m) \/ m = Cur
    BY <1>1, <1>2, <1>3 DEF Seen
  <2>3. CASE m = Cur
    <3>1. Cur \in DOMAIN mods
      BY <1>1, CurFacts
    <3>2. Hits(Cur) = {}
      BY <1>2, <3>1 DEF IInv, ListedOnce
    <3>3. QED
      BY <1>1, <2>1, <2>3, <3>2
  <2>4. CASE m # Cur
    BY <1>1, <2>1, <2>2, <2>4 DEF IInv, ListedOnce
  <2>5. QED
    BY <2>3, <2>4
<1>6. QED
  <2>1. /\ mods' \in Registries /\ docnames' \in SUBSET Docs
        /\ ignores' \in Seq(Seq(Chars)) /\ order' \in SortedNames(DOMAIN mods')
        /\ pc' \in {"loop", "done", "error"} /\ (pc' = "done" => i' = Len(order') + 1)
    BY <1>1 DEF IInv
  <2>2. i' \in 1..Len(order') + 1
    BY <1>1, <1>3
  <2>3. QED
    BY <1>4, <1>5, <2>1, <2>2 DEF IInv

\* A step that leaves mods, docnames, order, i and content alone keeps
\* the buckets and what is listed.
LEMMA FrozenKeeps ==
  ASSUME IInv, UNCHANGED << mods, docnames, order, i, content >>
  PROVE  BucketsOK' /\ ListedOnce'
<1>1. BucketsOK'
  BY DEF IInv, BucketsOK
<1>2. \A m \in DOMAIN mods : Hits(m)' = Hits(m) /\ (Seen(m)' <=> Seen(m)) /\ (Sel(m)' <=> Sel(m))
  BY DEF Hits, Seen, Sel
<1>3. ListedOnce
  BY DEF IInv
<1>4. QED
  <2> SUFFICES ASSUME NEW m \in DOMAIN mods
               PROVE  IF Seen(m)' /\ Sel(m)'
                      THEN \E h \in Hits(m)' : Hits(m)' = {h} /\ content'[h[1]][h[2]].doc = mods[m]
                      ELSE Hits(m)' = {}
    BY <1>1 DEF ListedOnce
  <2>1. IF Seen(m) /\ Sel(m)
        THEN \E h \in Hits(m) : Hits(m) = {h} /\ content[h[1]][h[2]].doc = mods[m]
        ELSE Hits(m) = {}
    BY <1>3 DEF ListedOnce
  <2>2. QED
    BY <1>2, <2>1

\* The entries[-1] IndexError only moves pc: nothing listed changes.
LEMMA IndexErrorKeeps ==
  ASSUME IInv, ListFirstSubmoduleIndexError
  PROVE  IInv'
<1>1. /\ pc' = "error"
      /\ UNCHANGED << mods, docnames, ignores, order, i, content >>
  BY DEF ListFirstSubmoduleIndexError
<1>2. BucketsOK' /\ ListedOnce'
  BY <1>1, FrozenKeeps
<1>3. QED
  BY <1>1, <1>2 DEF IInv

\* The loop ends after the last module: i = len(modules) + 1.
LEMMA FinishKeeps ==
  ASSUME IInv, Finish
  PROVE  IInv'
<1>1. /\ pc' = "done" /\ i > Len(order)
      /\ UNCHANGED << mods, docnames, ignores, order, i, content >>
  BY DEF Finish
<1>2. Len(order) \in Nat
  BY OrderFacts
<1>3. i' = Len(order') + 1
  BY <1>1, <1>2 DEF IInv
<1>4. BucketsOK' /\ ListedOnce'
  BY <1>1, FrozenKeeps
<1>5. QED
  BY <1>1, <1>3, <1>4 DEF IInv

\* Every ordering of the prefixes is again a sequence of names.
LEMMA ByLenDescType ==
  ASSUME NEW p \in Seq(Seq(Chars)), NEW q \in ByLenDesc(p)
  PROVE  q \in Seq(Seq(Chars))
<1>1. PICK f \in [1..Len(p) -> 1..Len(p)] : q = [n \in 1..Len(p) |-> p[f[n]]]
  BY DEF ByLenDesc
<1>2. \A n \in 1..Len(p) : p[f[n]] \in Seq(Chars)
  <2> TAKE n \in 1..Len(p)
  <2>1. f[n] \in 1..Len(p)
    OBVIOUS
  <2>2. QED
    BY <2>1, ElementOfSeq
<1>3. QED
  BY <1>1, <1>2, LenProperties

LEMMA InitIInv ==
  ASSUME Init
  PROVE  IInv
<1>1. PICK p \in PrefixSettings : ignores \in ByLenDesc(p)
  BY DEF Init
<1>2. p \in Seq(Seq(Chars))
  BY PrefixesAssumption
<1>3. ignores \in Seq(Seq(Chars))
  BY <1>1, <1>2, ByLenDescType
<1>4. Len(order) \in Nat /\ i = 1 /\ DOMAIN content = {}
  <2>1. order \in Seq(DOMAIN mods)
    BY SortedNamesEnumerate, RegistriesAssumption DEF Init
  <2>2. QED
    BY <2>1, LenProperties DEF Init
<1>5. \A m \in DOMAIN mods : ~Seen(m) /\ Hits(m) = {}
  BY <1>4 DEF Seen, Hits
<1>6. QED
  BY <1>3, <1>4, <1>5 DEF Init, IInv, BucketsOK, ListedOnce

LEMMA NextIInv ==
  ASSUME IInv, [Next]_vars
  PROVE  IInv'
<1>1. CASE Skip
  BY <1>1, SkipKeeps
<1>2. CASE ListTopLevel
  BY <1>2, ListTopLevelKeeps
<1>3. CASE ListFirstSubmodule
  BY <1>3, ListFirstSubmoduleKeeps
<1>4. CASE ListFirstSubmoduleIndexError
  BY <1>4, IndexErrorKeeps
<1>5. CASE ListOrphanSubmodule
  BY <1>5, ListOrphanSubmoduleKeeps
<1>6. CASE ListNextSubmodule
  BY <1>6, ListNextSubmoduleKeeps
<1>7. CASE Finish
  BY <1>7, FinishKeeps
<1>8. CASE UNCHANGED vars
  <2>1. BucketsOK' /\ ListedOnce'
    BY <1>8, FrozenKeeps DEF vars
  <2>2. QED
    BY <1>8, <2>1 DEF vars, IInv
<1>9. QED
  BY <1>1, <1>2, <1>3, <1>4, <1>5, <1>6, <1>7, <1>8 DEF Next

THEOREM IInvInvariant == Spec => []IInv
BY InitIInv, NextIInv, PTL DEF Spec

\* At the end of the loop every module has been seen (order enumerates
\* the registry), so ListedOnce says what EveryModuleListed says.
LEMMA IInvListed ==
  ASSUME IInv
  PROVE  EveryModuleListed
<1> SUFFICES ASSUME pc = "done", NEW m \in DOMAIN mods
             PROVE  IF Sel(m)
                    THEN /\ Cardinality(Hits(m)) = 1
                         /\ \A h \in Hits(m) : content[h[1]][h[2]].doc = mods[m]
                    ELSE Hits(m) = {}
  BY DEF EveryModuleListed, Sel
<1>1. Seen(m)
  <2>1. i = Len(order) + 1 /\ Len(order) \in Nat
    BY OrderFacts DEF IInv
  <2>2. \E q \in 1..Len(order) : order[q] = m
    BY OrderFacts
  <2>3. QED
    BY <2>1, <2>2 DEF Seen
<1>2. CASE Sel(m)
  <2>1. PICK h \in Hits(m) : Hits(m) = {h} /\ content[h[1]][h[2]].doc = mods[m]
    BY <1>1, <1>2 DEF IInv, ListedOnce
  <2>2. Cardinality(Hits(m)) = 1
    BY <2>1, FS_Singleton
  <2>3. QED
    BY <1>2, <2>1, <2>2
<1>3. CASE ~Sel(m)
  BY <1>1, <1>3 DEF IInv, ListedOnce
<1>4. QED
  BY <1>2, <1>3

(***************************************************************************)
(* HakaModuleIndex.generate lists every module of the selected documents   *)
(* exactly once, under its full name and with its document, and no module *)
(* of another document: for every registry, every docnames filter and     *)
(* every modindex_common_prefix.                                           *)
(***************************************************************************)
THEOREM ModulesListedOnce == Spec => []EveryModuleListed
<1>1. IInv => EveryModuleListed
  BY IInvListed
<1>2. QED
  BY <1>1, IInvInvariant, PTL

====
