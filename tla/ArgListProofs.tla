---------------------------- MODULE ArgListProofs ----------------------------
(***************************************************************************)
(* Proofs about ArgList for every set of argument lists: the stack of      *)
(* _pseudo_parse_arglist is always the path from the parameter list to     *)
(* the innermost open group, and the state stays typed.                    *)
(***************************************************************************)
EXTENDS ArgList, SequenceTheorems, FiniteSetTheorems, TLAPS

-----------------------------------------------------------------------------
(***************************************************************************)
(* arglist.split(','): the j-th comma exists for j in 1 .. the number of   *)
(* commas, so every cut point lies in 0 .. Len(s) + 1.  The rank of a     *)
(* comma (how many commas are at or before it) is an injection from the    *)
(* commas into 1 .. their number, hence onto it.                          *)
(***************************************************************************)
LEMMA CommasFinite ==
  ASSUME NEW s \in Seq(Chars)
  PROVE  /\ Commas(s) \subseteq 1..Len(s)
         /\ IsFiniteSet(Commas(s))
         /\ Cardinality(Commas(s)) \in Nat
<1>1. Commas(s) \subseteq 1..Len(s)
  BY DEF Commas
<1>2. IsFiniteSet(1..Len(s))
  BY FS_Interval
<1>3. IsFiniteSet(Commas(s))
  BY <1>1, <1>2, FS_Subset
<1>4. QED
  BY <1>1, <1>3, FS_CardinalityType

\* The commas at or before a comma i: a non-empty subset of the commas.
LEMMA RankBounds ==
  ASSUME NEW C \in SUBSET Nat, IsFiniteSet(C), NEW i \in C
  PROVE  Cardinality({c \in C : c <= i}) \in 1..Cardinality(C)
<1> DEFINE A == {c \in C : c <= i}
<1>1. IsFiniteSet(A) /\ Cardinality(A) <= Cardinality(C)
  BY FS_Subset
<1>2. Cardinality(A) \in Nat /\ Cardinality(C) \in Nat
  BY <1>1, FS_CardinalityType
<1>3. i \in A
  OBVIOUS
<1>4. Cardinality(A) # 0
  BY <1>1, <1>3, FS_EmptySet
<1>5. QED
  BY <1>1, <1>2, <1>4


\* The commas at or before h are at or before any later i.
LEMMA AtOrBeforeMonotone ==
  ASSUME NEW C \in SUBSET Nat, NEW i \in Nat, NEW h \in Nat, h < i
  PROVE  {c \in C : c <= h} \subseteq {c \in C : c <= i}
<1> SUFFICES ASSUME NEW c \in C, c <= h PROVE c <= i
  OBVIOUS
<1>1. c \in Nat
  OBVIOUS
<1>2. QED
  BY <1>1

\* Two commas have different ranks.
LEMMA RankInjective ==
  ASSUME NEW C \in SUBSET Nat, IsFiniteSet(C), NEW i \in C, NEW h \in C, h < i
  PROVE  Cardinality({c \in C : c <= h}) # Cardinality({c \in C : c <= i})
<1> DEFINE A == {c \in C : c <= h}
           B == {c \in C : c <= i}
<1>1. IsFiniteSet(B) /\ A \subseteq B
  <2>1. B \in SUBSET C
    OBVIOUS
  <2>2. IsFiniteSet(B)
    BY <2>1, FS_Subset
  <2>3. A \subseteq B
    BY AtOrBeforeMonotone
  <2>4. QED
    BY <2>2, <2>3
<1>2. A # B
  <2>1. i \in B /\ i \notin A
    OBVIOUS
  <2>2. QED
    BY <2>1
<1>3. Cardinality(B) = Cardinality(A) => B = A
  BY <1>1, FS_Subset
<1>4. QED
  BY <1>2, <1>3

\* Every rank 1 .. Cardinality(C) belongs to some comma.
LEMMA RankExists ==
  ASSUME NEW C \in SUBSET Nat, IsFiniteSet(C), NEW j \in 1..Cardinality(C)
  PROVE  \E i \in C : Cardinality({c \in C : c <= i}) = j
<1> DEFINE f == [i \in C |-> Cardinality({c \in C : c <= i})]
           N == Cardinality(C)
<1>1. N \in Nat
  BY FS_CardinalityType
<1>2. f \in [C -> 1..N]
  BY RankBounds
<1>3. f \in Injection(C, 1..N)
  <2>1. \A a, b \in C : f[a] = f[b] => a = b
    <3> SUFFICES ASSUME NEW a \in C, NEW b \in C, a # b PROVE f[a] # f[b]
      OBVIOUS
    <3>1. CASE a < b
      BY <3>1, RankInjective
    <3>2. CASE b < a
      BY <3>2, RankInjective
    <3>3. QED
      BY <3>1, <3>2
  <2>2. QED
    BY <1>2, <2>1 DEF Injection, IsInjective
<1>4. IsFiniteSet(1..N) /\ Cardinality(1..N) = N
  BY <1>1, FS_Interval
<1>5. f \in Surjection(C, 1..N)
  BY <1>3, <1>4, FS_Injection
<1>6. QED
  BY <1>5 DEF Surjection

\* The cut points of split(',') lie in 0 .. Len(s) + 1.
LEMMA CutType ==
  ASSUME NEW s \in Seq(Chars), NEW j \in 0..NumArgs(s)
  PROVE  Cut(s, j) \in 0..Len(s) + 1
<1>1. /\ Commas(s) \subseteq 1..Len(s)
      /\ IsFiniteSet(Commas(s))
      /\ Cardinality(Commas(s)) \in Nat
  BY CommasFinite
<1>2. CASE j = 0 \/ j = NumArgs(s)
  BY <1>2 DEF Cut
<1>3. CASE j # 0 /\ j # NumArgs(s)
  <2>1. j \in 1..Cardinality(Commas(s))
    BY <1>1, <1>3 DEF NumArgs
  <2>2. \E i \in Commas(s) : Cardinality({c \in Commas(s) : c <= i}) = j
    <3>1. Commas(s) \in SUBSET Nat
      BY <1>1
    <3>2. QED
      BY <1>1, <2>1, <3>1, RankExists
  <2>3. Cut(s, j) \in Commas(s)
    BY <1>3, <2>2 DEF Cut
  <2>4. QED
    BY <1>1, <2>3
<1>4. QED
  BY <1>2, <1>3


\* The k-th argument is a piece of the list that ends inside it.
LEMMA ArgType ==
  ASSUME NEW s \in Seq(Chars), NEW j \in 1..NumArgs(s)
  PROVE  /\ Arg(s, j) \in Seq(Chars)
         /\ ArgStart(s, j) >= 1
         /\ Len(Arg(s, j)) > 0 => ArgStart(s, j) + Len(Arg(s, j)) - 1 <= Len(s)
<1> DEFINE m == Cut(s, j - 1) + 1
           n == Cut(s, j) - 1
<1>0. NumArgs(s) \in Nat
  BY CommasFinite DEF NumArgs
<1>1. Cut(s, j - 1) \in 0..Len(s) + 1 /\ Cut(s, j) \in 0..Len(s) + 1
  BY <1>0, CutType
<1>2. \A i \in m..n : s[i] \in Chars
  BY <1>1
<1>3. /\ SubSeq(s, m, n) \in Seq(Chars)
      /\ Len(SubSeq(s, m, n)) = IF m <= n THEN n - m + 1 ELSE 0
  BY <1>1, <1>2, SubSeqProperties
<1>4. QED
  BY <1>1, <1>3 DEF Arg, ArgStart

-----------------------------------------------------------------------------
(***************************************************************************)
(* The while loops of the argument scan stop inside the argument.          *)
(***************************************************************************)
\* A non-empty set of naturals has a least element.
LEMMA LeastOfNats ==
  ASSUME NEW T \in SUBSET Nat, T # {}
  PROVE  \E x \in T : \A y \in T : x <= y
<1>1. \E x \in T : \A y \in T : ~(<< y, x >> \in OpToRel(<, Nat))
  BY WFMin, NatLessThanWellFounded
<1>2. \A x, y \in Nat : ~(<< y, x >> \in OpToRel(<, Nat)) => x <= y
  BY DEF OpToRel
<1>3. QED
  BY <1>1, <1>2

\* 'while argument.startswith(c)' runs at most Len(a) times.
LEMMA LeadType ==
  ASSUME NEW a \in Seq(Chars), NEW c
  PROVE  Lead(a, c) \in 0..Len(a)
<1> DEFINE T == {n \in 0..Len(a) : n = Len(a) \/ a[n + 1] # c}
<1>1. T \in SUBSET Nat /\ T # {}
  BY Len(a) \in T
<1>2. PICK m \in T : \A y \in T : m <= y
  BY <1>1, LeastOfNats
<1>3. \A i \in 1..m : a[i] = c
  <2> SUFFICES ASSUME NEW i \in 1..m PROVE a[i] = c
    OBVIOUS
  <2>1. i - 1 \in 0..Len(a) /\ i - 1 # Len(a) /\ i - 1 < m
    BY <1>2
  <2>2. i - 1 \notin T
    <3>1. SUFFICES ASSUME i - 1 \in T PROVE FALSE
      OBVIOUS
    <3>2. m <= i - 1
      BY <1>2, <3>1
    <3>3. QED
      BY <2>1, <3>2
  <2>3. a[(i - 1) + 1] = c
    BY <2>1, <2>2
  <2>4. QED
    BY <2>3
<1>4. QED
  BY <1>2, <1>3 DEF Lead

\* 'while argument.endswith(c)' runs at most Len(a) times.
LEMMA TrailType ==
  ASSUME NEW a \in Seq(Chars), NEW c
  PROVE  Trail(a, c) \in 0..Len(a)
<1> DEFINE T == {n \in 0..Len(a) : n = Len(a) \/ a[Len(a) - n] # c}
<1>1. T \in SUBSET Nat /\ T # {}
  BY Len(a) \in T
<1>2. PICK m \in T : \A y \in T : m <= y
  BY <1>1, LeastOfNats
<1>3. \A i \in 1..m : a[Len(a) - i + 1] = c
  <2> SUFFICES ASSUME NEW i \in 1..m PROVE a[Len(a) - i + 1] = c
    OBVIOUS
  <2>1. i - 1 \in 0..Len(a) /\ i - 1 # Len(a) /\ i - 1 < m
    BY <1>2
  <2>2. i - 1 \notin T
    <3>1. SUFFICES ASSUME i - 1 \in T PROVE FALSE
      OBVIOUS
    <3>2. m <= i - 1
      BY <1>2, <3>1
    <3>3. QED
      BY <2>1, <3>2
  <2>3. a[Len(a) - (i - 1)] = c
    BY <2>1, <2>2
  <2>4. QED
    BY <2>3
<1>4. QED
  BY <1>2, <1>3 DEF Trail

\* argument[n:] and argument[:-n] for n up to Len(a).
LEMMA DropType ==
  ASSUME NEW a \in Seq(Chars), NEW n \in 0..Len(a)
  PROVE  /\ DropHead(a, n) \in Seq(Chars) /\ Len(DropHead(a, n)) = Len(a) - n
         /\ DropTail(a, n) \in Seq(Chars) /\ Len(DropTail(a, n)) = Len(a) - n
<1>1. /\ SubSeq(a, n + 1, Len(a)) \in Seq(Chars)
      /\ Len(SubSeq(a, n + 1, Len(a))) = IF n + 1 <= Len(a) THEN Len(a) - (n + 1) + 1 ELSE 0
  BY SubSeqProperties
<1>2. /\ SubSeq(a, 1, Len(a) - n) \in Seq(Chars)
      /\ Len(SubSeq(a, 1, Len(a) - n)) = IF 1 <= Len(a) - n THEN Len(a) - n ELSE 0
  BY SubSeqProperties
<1>3. QED
  BY <1>1, <1>2 DEF DropHead, DropTail


(***************************************************************************)
(* The scan of an argument splits it into its leading '[' and ']', its     *)
(* trailing ']' and '[', and the name: four counts and what is left.       *)
(***************************************************************************)
LEMMA ScanType ==
  ASSUME NEW a \in Seq(Chars)
  PROVE  /\ Scan(a).opens \in Nat /\ Scan(a).closes \in Nat
         /\ Scan(a).endsClose \in Nat /\ Scan(a).endsOpen \in Nat
         /\ Scan(a).name \in Seq(Chars)
         /\ Len(a) = Scan(a).opens + Scan(a).closes + Scan(a).endsClose
                     + Scan(a).endsOpen + Len(Scan(a).name)
<1> DEFINE o  == Lead(a, "[")
           r1 == DropHead(a, o)
           cl == Lead(r1, "]")
           r2 == DropHead(r1, cl)
           ec == Trail(r2, "]")
           r3 == DropTail(r2, ec)
           eo == Trail(r3, "[")
           nm == DropTail(r3, eo)
<1>1. o \in 0..Len(a)
  BY LeadType
<1>2. r1 \in Seq(Chars) /\ Len(r1) = Len(a) - o
  BY <1>1, DropType
<1>3. cl \in 0..Len(r1)
  BY <1>2, LeadType
<1>4. r2 \in Seq(Chars) /\ Len(r2) = Len(r1) - cl
  BY <1>2, <1>3, DropType
<1>5. ec \in 0..Len(r2)
  BY <1>4, TrailType
<1>6. r3 \in Seq(Chars) /\ Len(r3) = Len(r2) - ec
  BY <1>4, <1>5, DropType
<1>7. eo \in 0..Len(r3)
  BY <1>6, TrailType
<1>8. nm \in Seq(Chars) /\ Len(nm) = Len(r3) - eo
  BY <1>6, <1>7, DropType
<1>9. Scan(a) = [opens |-> o, closes |-> cl, endsClose |-> ec, endsOpen |-> eo, name |-> nm]
  BY DEF Scan
<1>10. /\ Scan(a).opens = o /\ Scan(a).closes = cl
       /\ Scan(a).endsClose = ec /\ Scan(a).endsOpen = eo
       /\ Scan(a).name = nm
  BY <1>9
<1> HIDE DEF o, r1, cl, r2, ec, r3, eo, nm
<1>11. Len(a) = o + cl + ec + eo + Len(nm)
  BY <1>1, <1>2, <1>3, <1>4, <1>5, <1>6, <1>7, <1>8
<1>12. QED
  BY <1>1, <1>3, <1>5, <1>7, <1>8, <1>10, <1>11


-----------------------------------------------------------------------------
(***************************************************************************)
(* The stack as a path in the tree of desc_optional nodes, for any parent  *)
(* table and stack: every node hangs under an earlier one, the stack *)
(* starts at the parameter list, and each entry above the bottom is a      *)
(* desc_optional (never the parameter list again) added to the entry       *)
(* below it.                                                               *)
(***************************************************************************)
IsTree(tree) == \A q \in 1..Len(tree) : tree[q] < q
IsPath(tree, path) ==
  /\ Len(path) > 0 => path[1] = 0
  /\ \A r \in 2..Len(path) : path[r] > 0 /\ tree[path[r]] = path[r - 1]

\* The inductive invariant: StackIsPath with the entries above the bottom
\* known to be desc_optional nodes, so that parent[stack[j]] is defined.
IInv == TypeOK /\ IsTree(parent) /\ IsPath(parent, stack)


(***************************************************************************)
(* The heart of a push, on any sequences with the elements of the extended *)
(* parent table tr2 and stack pa2: m new nodes M+1..M+m, the first added  *)
(* to the old top, each next one to the one before it.                     *)
(***************************************************************************)
PushPre(M, K, m, tr, pa, tr2, pa2) ==
  /\ \A x \in 1..M : tr[x] \in Nat /\ tr[x] < x
  /\ \A x \in 1..K : pa[x] \in 0..M
  /\ K > 0 => pa[1] = 0
  /\ \A x \in 2..K : pa[x] > 0 /\ tr[pa[x]] = pa[x - 1]
  /\ m > 0 => K > 0
  /\ \A x \in 1..M : tr2[x] = tr[x]
  /\ m > 0 => tr2[M + 1] = pa[K]
  /\ \A x \in 2..m : tr2[M + x] = M + x - 1
  /\ \A x \in 1..K : pa2[x] = pa[x]
  /\ \A x \in 1..m : pa2[K + x] = M + x
PushPost(M, K, m, tr2, pa2) ==
  /\ \A q \in 1..M + m : tr2[q] < q
  /\ K + m > 0 => pa2[1] = 0
  /\ \A r \in 2..K + m : pa2[r] > 0 /\ tr2[pa2[r]] = pa2[r - 1]

LEMMA PushCore ==
  ASSUME NEW M \in Nat, NEW K \in Nat, NEW m \in Nat,
         NEW tr, NEW pa, NEW tr2, NEW pa2,
         PushPre(M, K, m, tr, pa, tr2, pa2)
  PROVE  PushPost(M, K, m, tr2, pa2)
<1> USE DEF PushPre, PushPost
<1>1. ASSUME NEW q \in 1..M + m PROVE tr2[q] < q
  <2>1. CASE q <= M
    BY <2>1
  <2>2. CASE q = M + 1
    <3>1. m > 0 /\ K \in 1..K
      BY <2>2
    <3>2. tr2[M + 1] = pa[K] /\ pa[K] \in 0..M
      BY <3>1
    <3>3. QED
      BY <2>2, <3>2
  <2>3. CASE q > M + 1
    <3>1. q - M \in 2..m /\ M + (q - M) = q
      BY <2>3
    <3>2. tr2[M + (q - M)] = M + (q - M) - 1
      BY <3>1
    <3>3. QED
      BY <3>1, <3>2
  <2>4. QED
    BY <2>1, <2>2, <2>3
<1>2. K + m > 0 => pa2[1] = 0
  <2>1. CASE K > 0
    <3>1. 1 \in 1..K
      BY <2>1
    <3>2. QED
      BY <3>1
  <2>2. QED
    BY <2>1
<1>3. ASSUME NEW r \in 2..K + m PROVE pa2[r] > 0 /\ tr2[pa2[r]] = pa2[r - 1]
  <2>1. CASE r <= K
    BY <2>1
  <2>2. CASE r = K + 1
    BY <2>2
  <2>3. CASE r > K + 1
    <3>1. r - K \in 2..m /\ K + (r - K) = r /\ K + (r - K - 1) = r - 1
      BY <2>3
    <3>2. r - K - 1 \in 1..m /\ r - K \in 1..m
      BY <3>1
    <3>3. pa2[K + (r - K)] = M + (r - K) /\ pa2[K + (r - K - 1)] = M + (r - K - 1)
      BY <3>1, <3>2, Zenon
    <3>4. pa2[r] = M + (r - K) /\ pa2[r - 1] = M + (r - K) - 1
      BY <3>1, <3>3
    <3>5. tr2[M + (r - K)] = M + (r - K) - 1
      BY <3>1
    <3>6. QED
      BY <3>1, <3>4, <3>5
  <2>4. QED
    BY <2>1, <2>2, <2>3
<1>4. QED
  BY <1>1, <1>2, <1>3


(***************************************************************************)
(* The elements of a concatenation s \o t: s's first, then t's.            *)
(***************************************************************************)
LEMMA ConcatLow ==
  ASSUME NEW T, NEW s \in Seq(T), NEW t \in Seq(T), NEW x \in 1..Len(s)
  PROVE  (s \o t)[x] = s[x]
BY ConcatProperties

LEMMA ConcatHigh ==
  ASSUME NEW T, NEW s \in Seq(T), NEW t \in Seq(T), NEW x \in 1..Len(t)
  PROVE  (s \o t)[Len(s) + x] = t[x]
<1>1. Len(s) \in Nat /\ Len(t) \in Nat
  BY LenProperties
<1>2. Len(s) + x \in 1..Len(s) + Len(t) /\ ~(Len(s) + x <= Len(s)) /\ Len(s) + x - Len(s) = x
  BY <1>1
<1>3. QED
  BY <1>2, ConcatProperties

(***************************************************************************)
(* 'stack.append(desc_optional()); stack[-2] += stack[-1]' n times, from   *)
(* the next free id on: the new nodes form a chain under the old top, and  *)
(* the stack stays a path of the tree, now down to the last new node.      *)
(***************************************************************************)
LEMMA PushKeepsPath ==
  ASSUME NEW par \in Seq(Nat), NEW S \in Seq(0..Len(par)), NEW n \in Nat,
         IsTree(par), IsPath(par, S), n > 0 => Len(S) > 0
  PROVE  LET par2 == par \o Chain(Top(S), Len(par) + 1, n)
             S2 == S \o NewIds(Len(par) + 1, n)
         IN  /\ par2 \in Seq(Nat) /\ Len(par2) = Len(par) + n
             /\ \A i \in 1..Len(par) : par2[i] = par[i]
             /\ S2 \in Seq(0..Len(par2)) /\ Len(S2) = Len(S) + n
             /\ IsTree(par2) /\ IsPath(par2, S2)
<1> DEFINE N == Len(par)
           L == Len(S)
           C == Chain(Top(S), N + 1, n)
           I == NewIds(N + 1, n)
           par2 == par \o C
           S2 == S \o I
<1>1. N \in Nat /\ L \in Nat
  BY LenProperties
<1>2. n > 0 => Top(S) \in 0..N
  BY <1>1 DEF Top
<1>3. C \in Seq(Nat) /\ Len(C) = n
  BY <1>1, <1>2 DEF Chain
<1>4. \A i \in 1..n : C[i] = IF i = 1 THEN Top(S) ELSE N + i - 2 + 1
  BY DEF Chain
<1>5. I \in Seq(0..N + n) /\ Len(I) = n /\ \A i \in 1..n : I[i] = N + i
  BY <1>1 DEF NewIds
<1>6. /\ par2 \in Seq(Nat) /\ Len(par2) = N + n
      /\ \A i \in 1..N + n : par2[i] = IF i <= N THEN par[i] ELSE C[i - N]
  BY <1>3, ConcatProperties
<1>7. S \in Seq(0..N + n)
  <2>1. 0..N \subseteq 0..N + n
    BY <1>1
  <2>2. QED
    BY <2>1, SeqMonotonic
<1>8. /\ S2 \in Seq(0..N + n) /\ Len(S2) = L + n
      /\ \A j \in 1..L + n : S2[j] = IF j <= L THEN S[j] ELSE I[j - L]
  <2>1. /\ S2 \in Seq(0..N + n) /\ Len(S2) = L + Len(I)
        /\ \A j \in 1..L + Len(I) : S2[j] = IF j <= L THEN S[j] ELSE I[j - L]
    BY <1>5, <1>7, ConcatProperties, Zenon
  <2>2. QED
    BY <2>1, <1>5, Zenon
<1>9. \A x \in 1..N : par[x] \in Nat /\ par[x] < x
  BY DEF IsTree
<1>10. \A x \in 1..L : S[x] \in 0..N
  OBVIOUS
<1>11. /\ L > 0 => S[1] = 0
       /\ \A x \in 2..L : S[x] > 0 /\ par[S[x]] = S[x - 1]
  BY DEF IsPath
<1>12. \A x \in 1..N : par2[x] = par[x]
  BY <1>1, <1>6
<1>13. n > 0 => par2[N + 1] = S[L]
  <2> SUFFICES ASSUME n > 0 PROVE par2[N + 1] = S[L]
    OBVIOUS
  <2>1. par2[N + 1] = C[1]
    BY <1>1, <1>6
  <2>2. C[1] = S[L]
    BY <1>4 DEF Top
  <2>3. QED
    BY <2>1, <2>2
<1>14. \A x \in 2..n : par2[N + x] = N + x - 1
  <2> SUFFICES ASSUME NEW x \in 2..n PROVE par2[N + x] = N + x - 1
    OBVIOUS
  <2>1. par2[N + x] = C[x]
    <3>1. x \in 1..Len(C)
      BY <1>3
    <3>2. QED
      BY <3>1, <1>3, ConcatHigh
  <2>2. C[x] = N + x - 1
    BY <1>1, <1>4
  <2>3. QED
    BY <2>1, <2>2
<1>15. \A x \in 1..L : S2[x] = S[x]
  BY <1>1, <1>8
<1>16. \A x \in 1..n : S2[L + x] = N + x
  <2> SUFFICES ASSUME NEW x \in 1..n PROVE S2[L + x] = N + x
    OBVIOUS
  <2>1. S2[L + x] = I[x]
    BY <1>1, <1>8
  <2>2. QED
    BY <2>1, <1>5
<1>17. /\ \A q \in 1..N + n : par2[q] < q
       /\ L + n > 0 => S2[1] = 0
       /\ \A r \in 2..L + n : S2[r] > 0 /\ par2[S2[r]] = S2[r - 1]
  <2>0. n \in Nat
    OBVIOUS
  <2>1. n > 0 => L > 0
    OBVIOUS
  <2> HIDE DEF N, L, C, I, par2, S2
  <2>2. PushPre(N, L, n, par, S, par2, S2)
    BY <1>9, <1>10, <1>11, <1>12, <1>13, <1>14, <1>15, <1>16, <2>1 DEF PushPre
  <2>3. PushPost(N, L, n, par2, S2)
    BY <1>1, <2>0, <2>2, PushCore
  <2> QED
    BY <2>3 DEF PushPost
<1>18. QED
  BY <1>6, <1>8, <1>12, <1>17 DEF IsTree, IsPath


(***************************************************************************)
(* 'stack.pop()' c times: what is left is a prefix of the path, a path.    *)
(***************************************************************************)
LEMMA PopKeepsPath ==
  ASSUME NEW par \in Seq(Nat), NEW S \in Seq(0..Len(par)), NEW c \in 0..Len(S),
         IsPath(par, S)
  PROVE  /\ Pop(S, c) \in Seq(0..Len(par))
         /\ Len(Pop(S, c)) = Len(S) - c
         /\ IsPath(par, Pop(S, c))
<1> DEFINE P == Pop(S, c)
           L == Len(S)
<1>1. L \in Nat
  BY LenProperties
<1>2. \A i \in 1..L - c : S[i] \in 0..Len(par)
  BY <1>1
<1>3. /\ P \in Seq(0..Len(par))
      /\ Len(P) = IF 1 <= L - c THEN L - c - 1 + 1 ELSE 0
      /\ \A i \in 1..L - c - 1 + 1 : P[i] = S[1 + i - 1]
  BY <1>1, <1>2, SubSeqProperties DEF Pop
<1>4. Len(P) = L - c /\ \A i \in 1..L - c : P[i] = S[i]
  BY <1>1, <1>3
<1>5. Len(P) > 0 => P[1] = 0
  <2> SUFFICES ASSUME Len(P) > 0 PROVE P[1] = 0
    OBVIOUS
  <2>1. 1 \in 1..L - c /\ L > 0
    BY <1>1, <1>4
  <2>2. P[1] = S[1]
    BY <2>1, <1>4
  <2>3. S[1] = 0
    BY <2>1 DEF IsPath
  <2>4. QED
    BY <2>2, <2>3
<1>6. ASSUME NEW r \in 2..Len(P) PROVE P[r] > 0 /\ par[P[r]] = P[r - 1]
  <2>1. r \in 2..L /\ r - 1 \in 1..L - c /\ r \in 1..L - c
    BY <1>1, <1>4
  <2>2. P[r] = S[r] /\ P[r - 1] = S[r - 1]
    BY <2>1, <1>4
  <2>3. S[r] > 0 /\ par[S[r]] = S[r - 1]
    BY <2>1 DEF IsPath
  <2>4. QED
    BY <2>2, <2>3
<1>7. QED
  BY <1>3, <1>4, <1>5, <1>6 DEF IsPath


(***************************************************************************)
(* One group of stack operations of an iteration: o pushes, then cl pops   *)
(* that each find an entry.                                                *)
(***************************************************************************)
PushPopPre(par, S, o, cl) ==
  /\ par \in Seq(Nat) /\ S \in Seq(0..Len(par)) /\ o \in Nat /\ cl \in Nat
  /\ IsTree(par) /\ IsPath(par, S) /\ (o > 0 => Len(S) > 0)
  /\ cl <= Len(S \o NewIds(Len(par) + 1, o))
PushPopPost(par, S, o, cl) ==
  LET par1 == par \o Chain(Top(S), Len(par) + 1, o)
      S2 == Pop(S \o NewIds(Len(par) + 1, o), cl)
  IN  /\ par1 \in Seq(Nat) /\ Len(par1) = Len(par) + o
      /\ S2 \in Seq(0..Len(par1)) /\ Len(S2) = Len(S) + o - cl
      /\ IsTree(par1) /\ IsPath(par1, S2)

LEMMA PushPop ==
  ASSUME NEW par, NEW S, NEW o, NEW cl, PushPopPre(par, S, o, cl)
  PROVE  PushPopPost(par, S, o, cl)
<1> USE DEF PushPopPre, PushPopPost
<1> DEFINE par1 == par \o Chain(Top(S), Len(par) + 1, o)
           S1 == S \o NewIds(Len(par) + 1, o)
<1>1. /\ par1 \in Seq(Nat) /\ Len(par1) = Len(par) + o
      /\ \A i \in 1..Len(par) : par1[i] = par[i]
      /\ S1 \in Seq(0..Len(par1)) /\ Len(S1) = Len(S) + o
      /\ IsTree(par1) /\ IsPath(par1, S1)
  BY PushKeepsPath
<1>2. cl \in 0..Len(S1)
  BY <1>1
<1>3. /\ Pop(S1, cl) \in Seq(0..Len(par1))
      /\ Len(Pop(S1, cl)) = Len(S1) - cl
      /\ IsPath(par1, Pop(S1, cl))
  BY <1>1, <1>2, PopKeepsPath
<1>4. QED
  BY <1>1, <1>3


\* The parameters made so far stay well typed as the node table grows.
LEMMA ParamsGrow ==
  ASSUME NEW A \in Nat, NEW A2 \in Nat, NEW B, A <= A2,
         NEW P \in Seq([name : Seq(Chars), node : 0..A, pos : 1..B])
  PROVE  P \in Seq([name : Seq(Chars), node : 0..A2, pos : 1..B])
<1>1. [name : Seq(Chars), node : 0..A, pos : 1..B]
        \subseteq [name : Seq(Chars), node : 0..A2, pos : 1..B]
  OBVIOUS
<1>2. QED
  BY <1>1, SeqMonotonic

\* n pushes make the stack n entries longer.
LEMMA LenPush ==
  ASSUME NEW S \in Seq(Nat), NEW f \in Nat, NEW n \in Nat
  PROVE  Len(S \o NewIds(f, n)) = Len(S) + n
<1>1. NewIds(f, n) \in Seq(Nat) /\ Len(NewIds(f, n)) = n
  BY DEF NewIds
<1>2. QED
  BY <1>1, ConcatProperties


(***************************************************************************)
(* One iteration of the loop over arglist.split(',') whose stack           *)
(* operations all succeed keeps the invariant: the leading brackets push   *)
(* and pop, the parameter goes to the top of the stack, the trailing       *)
(* brackets push and pop again.                                            *)
(***************************************************************************)
LEMMA ParseArgumentKeeps ==
  ASSUME IInv, ParseArgument
  PROVE  IInv'
<1> DEFINE a == Arg(arglist, k)
           sc == Scan(a)
           n0 == Len(parent)
           S1 == stack \o NewIds(n0 + 1, sc.opens)
           S2 == Pop(S1, sc.closes)
           n1 == n0 + sc.opens
           par1 == parent \o Chain(Top(stack), n0 + 1, sc.opens)
           Rec == [name : Seq(Chars), node : 0..Len(parent'), pos : 1..Len(arglist)]
<1>1. /\ arglist \in Seq(Chars) /\ NumArgs(arglist) \in Nat
      /\ k \in 1..NumArgs(arglist)
  BY InputsAssumption, CommasFinite DEF IInv, TypeOK, ParseArgument, NumArgs
<1>2. /\ a \in Seq(Chars) /\ ArgStart(arglist, k) >= 1
      /\ Len(a) > 0 => ArgStart(arglist, k) + Len(a) - 1 <= Len(arglist)
  BY <1>1, ArgType
<1>12. ArgStart(arglist, k) \in Nat /\ Len(arglist) \in Nat /\ Len(a) \in Nat
  <2>1. k - 1 \in 0..NumArgs(arglist)
    BY <1>1
  <2>2. QED
    BY <1>1, <1>2, <2>1, CutType, LenProperties DEF ArgStart
<1>3. /\ sc.opens \in Nat /\ sc.closes \in Nat
      /\ sc.endsClose \in Nat /\ sc.endsOpen \in Nat
      /\ sc.name \in Seq(Chars)
      /\ Len(a) = sc.opens + sc.closes + sc.endsClose + sc.endsOpen + Len(sc.name)
  BY <1>2, ScanType
<1>4. /\ ArgumentFits(sc, stack)
      /\ IF sc.name = << >>
         THEN /\ stack' = S2
              /\ parent' = par1
              /\ params' = params
         ELSE /\ params' = Append(params,
                             [name |-> sc.name, node |-> Top(S2),
                              pos |-> ArgStart(arglist, k) + sc.opens + sc.closes])
              /\ parent' = par1 \o Chain(Top(S2), n1 + 1, sc.endsOpen)
              /\ stack' = Pop(S2 \o NewIds(n1 + 1, sc.endsOpen), sc.endsClose)
      /\ k' = k + 1 /\ arglist' = arglist /\ pc' = pc
  BY DEF ParseArgument
<1>5. /\ sc.opens > 0 => Len(stack) > 0
      /\ sc.closes <= Len(S1)
      /\ sc.name # << >> => Len(S2) > 0 /\ sc.endsClose <= Len(S2) + sc.endsOpen
  BY <1>4 DEF ArgumentFits
<1>6. /\ parent \in Seq(Nat) /\ stack \in Seq(0..Len(parent))
      /\ params \in Seq([name : Seq(Chars), node : 0..Len(parent), pos : 1..Len(arglist)])
      /\ IsTree(parent) /\ IsPath(parent, stack)
  BY DEF IInv, TypeOK
<1>7. /\ par1 \in Seq(Nat) /\ Len(par1) = n0 + sc.opens
      /\ S2 \in Seq(0..Len(par1)) /\ Len(S2) = Len(stack) + sc.opens - sc.closes
      /\ IsTree(par1) /\ IsPath(par1, S2)
  <2>1. PushPopPre(parent, stack, sc.opens, sc.closes)
    BY <1>3, <1>5, <1>6 DEF PushPopPre
  <2>2. PushPopPost(parent, stack, sc.opens, sc.closes)
    BY <2>1, PushPop
  <2>3. QED
    BY <2>2 DEF PushPopPost
<1>13. /\ n1 = n0 + sc.opens /\ n0 \in Nat /\ n0 = Len(parent)
       /\ Len(stack) \in Nat /\ Len(arglist) \in Nat
  BY <1>6, LenProperties
<1> HIDE DEF a, sc, n0, S1, S2, n1, par1
<1>8. /\ arglist' \in Inputs
      /\ k' \in 1..NumArgs(arglist') + 1
      /\ pc' \in {"loop", "done", "error"}
  BY <1>1, <1>4 DEF IInv, TypeOK
<1>9. CASE sc.name = << >>
  <2>1. stack' = S2 /\ parent' = par1 /\ params' = params
    BY <1>4, <1>9
  <2>2. params' \in Seq(Rec)
    <3>1. n0 \in Nat /\ Len(par1) \in Nat /\ n0 <= Len(par1)
      BY <1>3, <1>7, <1>13
    <3>2. params \in Seq([name : Seq(Chars), node : 0..Len(par1), pos : 1..Len(arglist)])
      BY <1>6, <1>13, <3>1, ParamsGrow
    <3>3. QED
      BY <2>1, <3>2
  <2>3. TypeOK'
    BY <1>4, <1>7, <1>8, <2>1, <2>2 DEF TypeOK
  <2>4. IsTree(parent') /\ IsPath(parent', stack')
    BY <1>7, <2>1
  <2>5. QED
    BY <2>3, <2>4 DEF IInv
<1>10. CASE sc.name # << >>
  <2> DEFINE eo == sc.endsOpen
             ec == sc.endsClose
             par2 == par1 \o Chain(Top(S2), Len(par1) + 1, eo)
             S4 == Pop(S2 \o NewIds(Len(par1) + 1, eo), ec)
             rec == [name |-> sc.name, node |-> Top(S2),
                     pos |-> ArgStart(arglist, k) + sc.opens + sc.closes]
  <2>1. n1 = Len(par1)
    BY <1>7, <1>13
  <2>2. stack' = S4 /\ parent' = par2 /\ params' = Append(params, rec)
    BY <1>4, <1>10, <2>1
  <2>3. Len(S2) > 0 /\ ec <= Len(S2) + eo
    BY <1>5, <1>10
  <2>4. ec <= Len(S2 \o NewIds(Len(par1) + 1, eo))
    <3>1. S2 \in Seq(Nat) /\ Len(par1) + 1 \in Nat
      BY <1>7, LenProperties
    <3>2. QED
      BY <1>3, <2>3, <3>1, LenPush
  <2>5. /\ par2 \in Seq(Nat) /\ Len(par2) = Len(par1) + eo
        /\ S4 \in Seq(0..Len(par2))
        /\ IsTree(par2) /\ IsPath(par2, S4)
    <3>1. PushPopPre(par1, S2, eo, ec)
      BY <1>3, <1>7, <2>3, <2>4 DEF PushPopPre
    <3>2. PushPopPost(par1, S2, eo, ec)
      BY <3>1, PushPop
    <3>3. QED
      BY <3>2 DEF PushPopPost
  <2>6. /\ n0 \in Nat /\ Len(par1) \in Nat /\ Len(par2) \in Nat
        /\ n0 <= Len(par2) /\ Len(par1) <= Len(par2)
    <3>1. Len(par1) = n0 + sc.opens /\ Len(par2) = Len(par1) + eo
      BY <1>7, <2>5
    <3>2. sc.opens \in Nat /\ eo \in Nat
      BY <1>3
    <3>3. \A x, y, z, o, e \in Nat :
            (y = x + o /\ z = y + e) => (x <= z /\ y <= z)
      OBVIOUS
    <3>4. n0 \in Nat /\ Len(par1) \in Nat /\ Len(par2) \in Nat
      BY ONLY <1>13, <3>1, <3>2
    <3>5. QED
      BY ONLY <3>1, <3>2, <3>3, <3>4
  <2>7. Top(S2) \in 0..Len(par2)
    BY <1>7, <2>3, <2>6 DEF Top
  <2>8. ArgStart(arglist, k) + sc.opens + sc.closes \in 1..Len(arglist)
    <3>1. Len(sc.name) > 0 /\ Len(sc.name) \in Nat
      BY <1>3, <1>10, LenProperties, EmptySeq
    <3>2. /\ ArgStart(arglist, k) >= 1
          /\ Len(a) > 0 => ArgStart(arglist, k) + Len(a) - 1 <= Len(arglist)
      BY <1>2
    <3>3. /\ sc.opens \in Nat /\ sc.closes \in Nat
          /\ sc.endsClose \in Nat /\ sc.endsOpen \in Nat
          /\ Len(a) = sc.opens + sc.closes + sc.endsClose + sc.endsOpen + Len(sc.name)
      BY <1>3
    <3>4. \A st, la, L, o, c, e1, e2, ln \in Nat :
            (/\ st >= 1 /\ (la > 0 => st + la - 1 <= L)
             /\ la = o + c + e1 + e2 + ln /\ ln > 0) => st + o + c \in 1..L
      OBVIOUS
    <3>5. QED
      BY ONLY <1>12, <3>1, <3>2, <3>3, <3>4
  <2>9. params' \in Seq(Rec)
    <3>1. params \in Seq(Rec)
      <4>1. params \in Seq([name : Seq(Chars), node : 0..Len(par2), pos : 1..Len(arglist)])
        BY <1>6, <1>13, <2>6, ParamsGrow
      <4>2. QED
        BY <2>2, <4>1
    <3>2. rec \in Rec
      BY <1>3, <2>2, <2>7, <2>8
    <3>3. QED
      BY <2>2, <3>1, <3>2, AppendProperties
  <2>10. TypeOK'
    BY <1>4, <1>8, <2>2, <2>5, <2>9 DEF TypeOK
  <2>11. IsTree(parent') /\ IsPath(parent', stack')
    BY <2>2, <2>5
  <2>12. QED
    BY <2>10, <2>11 DEF IInv
<1>11. QED
  BY <1>9, <1>10


\* The parse starts with the parameter list alone on the stack.
LEMMA InitIInv == Init => IInv
<1> SUFFICES ASSUME Init PROVE IInv
  OBVIOUS
<1>1. arglist \in Seq(Chars) /\ NumArgs(arglist) \in Nat
  BY InputsAssumption, CommasFinite DEF Init, NumArgs
<1>2. TypeOK
  BY <1>1 DEF Init, TypeOK
<1>3. IsTree(parent) /\ IsPath(parent, stack)
  BY DEF Init, IsTree, IsPath
<1>4. QED
  BY <1>2, <1>3 DEF IInv

\* IndexError and the end of the loop change only pc.
LEMMA StopIInv ==
  ASSUME IInv, ParseArgumentIndexError \/ Finish
  PROVE  IInv'
<1>1. UNCHANGED << arglist, k, stack, parent, params >> /\ pc' \in {"loop", "done", "error"}
  BY DEF ParseArgumentIndexError, Finish
<1>2. QED
  BY <1>1 DEF IInv, TypeOK

LEMMA NextIInv == IInv /\ [Next]_vars => IInv'
<1> SUFFICES ASSUME IInv, [Next]_vars PROVE IInv'
  OBVIOUS
<1>1. CASE ParseArgument
  BY <1>1, ParseArgumentKeeps
<1>2. CASE ParseArgumentIndexError \/ Finish
  BY <1>2, StopIInv
<1>3. CASE UNCHANGED vars
  BY <1>3 DEF IInv, TypeOK, vars
<1>4. QED
  BY <1>1, <1>2, <1>3 DEF Next

\* IInv holds in every state of every behaviour of the parse.
LEMMA IInvInvariant == Spec => []IInv
BY InitIInv, NextIInv, PTL DEF Spec

(***************************************************************************)
(* Every state of _pseudo_parse_arglist is well typed: the stack holds     *)
(* node ids that exist, every parameter records its name, a node that      *)
(* exists and a position inside the argument list, for every argument      *)
(* list a signature may carry.                                             *)
(***************************************************************************)
THEOREM TypeCorrect == Spec => []TypeOK
<1>1. IInv => TypeOK
  BY DEF IInv
<1>2. QED
  BY <1>1, IInvInvariant, PTL

(***************************************************************************)
(* For every argument list, the desc_optional nodes built by 'stack[-2] += *)
(* stack[-1]' form a tree under the parameter list, and the stack is the   *)
(* path from the parameter list down that tree: stack[-1], the node a      *)
(* parameter is added to, lies under every group still open on the stack. *)
(***************************************************************************)
THEOREM StackAlwaysPath == Spec => []StackIsPath
<1>1. IInv => StackIsPath
  BY DEF IInv, IsTree, IsPath, StackIsPath
<1>2. QED
  BY <1>1, IInvInvariant, PTL

=============================================================================
