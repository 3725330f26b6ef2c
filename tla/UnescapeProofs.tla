--------------------------- MODULE UnescapeProofs ---------------------------
(***************************************************************************)
(* Proofs about Unescape for every set of inputs: the scan of regex.sub    *)
(* never searches past the end of the text.                               *)
(***************************************************************************)
EXTENDS Unescape, SequenceTheorems, WellFoundedInduction, TLAPS

(***************************************************************************)
(* A non-empty set of naturals has a least element: it gives the length a  *)
(* greedy repetition of the escape regex takes.                           *)
(***************************************************************************)
LEMMA LeastNat ==
  ASSUME NEW T \in SUBSET Nat, T # {}
  PROVE  \E x \in T : \A y \in T : x <= y
<1>1. \E x \in T : \A y \in T : ~(<< y, x >> \in OpToRel(<, Nat))
  BY WFMin, NatLessThanWellFounded
<1>2. \A x, y \in Nat : ~(<< y, x >> \in OpToRel(<, Nat)) => x <= y
  BY DEF OpToRel
<1>3. QED
  BY <1>1, <1>2

\* A repetition of at most n characters of S from q stops in the text.
LEMMA RunSpec ==
  ASSUME NEW t \in Seq(Chars), NEW q \in Nat, NEW S, NEW n \in Nat
  PROVE  /\ Run(t, q, S, n) \in 0..n
         /\ \A j \in q..q + Run(t, q, S, n) - 1 : j <= Len(t) /\ t[j] \in S
         /\ Run(t, q, S, n) = n \/ q + Run(t, q, S, n) > Len(t) \/ t[q + Run(t, q, S, n)] \notin S
<1> DEFINE Stop(r) == r = n \/ q + r > Len(t) \/ t[q + r] \notin S
           T == {r \in 0..n : Stop(r)}
<1>1. T \in SUBSET Nat /\ T # {}
  OBVIOUS
<1>2. PICK m \in T : \A y \in T : m <= y
  BY <1>1, LeastNat
<1>3. \A j \in q..q + m - 1 : j <= Len(t) /\ t[j] \in S
  <2> SUFFICES ASSUME NEW j \in q..q + m - 1 PROVE j <= Len(t) /\ t[j] \in S
    OBVIOUS
  <2>1. j - q \in 0..n /\ j - q < m
    BY <1>2
  <2>2. ~Stop(j - q)
    <3>1. SUFFICES ASSUME Stop(j - q) PROVE FALSE
      OBVIOUS
    <3>2. j - q \in T
      BY <2>1, <3>1
    <3>3. QED
      BY <1>2, <2>1, <3>2
  <2>3. QED
    BY <2>2
<1>4. \E r \in 0..n : (\A j \in q..q + r - 1 : j <= Len(t) /\ t[j] \in S) /\ Stop(r)
  <2>1. m \in 0..n /\ Stop(m)
    BY <1>2
  <2>2. QED
    BY <2>1, <1>3
<1>5. QED
  BY <1>4 DEF Run

\* The hex digits are characters of the alphabet.
LEMMA HexValType == DOMAIN HexVal \subseteq Chars
BY DEF HexVal, Chars, Bsl, X, Quote, Lf

\* x followed by r hex digits, taken as one group.
LEMMA HexGroup ==
  ASSUME NEW t \in Seq(Chars), NEW q \in 1..Len(t), NEW r \in 1..2, q + r <= Len(t),
         t[q] = X, \A j \in q + 1..q + r : t[j] \in DOMAIN HexVal
  PROVE  /\ SubSeq(t, q, q + r) \in Seq(Chars)
         /\ Len(SubSeq(t, q, q + r)) = r + 1
         /\ SubSeq(t, q, q + r)[1] = X
         /\ Tail(SubSeq(t, q, q + r)) \in Seq(DOMAIN HexVal)
         /\ Len(Tail(SubSeq(t, q, q + r))) = r
<1> DEFINE g == SubSeq(t, q, q + r)
           h == SubSeq(t, q + 1, q + r)
<1>1. \A j \in q..q + r : t[j] \in Chars
  OBVIOUS
<1>2. g \in Seq(Chars) /\ Len(g) = r + 1 /\ \A i \in 1..r + 1 : g[i] = t[q + i - 1]
  BY <1>1, SubSeqProperties
<1>3. h \in Seq(DOMAIN HexVal) /\ Len(h) = r /\ \A i \in 1..r : h[i] = t[q + i]
  BY SubSeqProperties
<1>4. Tail(g) \in Seq(Chars) /\ Len(Tail(g)) = r /\ \A i \in 1..r : Tail(g)[i] = g[i + 1]
  <2>1. g # << >>
    BY <1>2
  <2>2. QED
    BY <1>2, <2>1, HeadTailProperties
<1>5. h \in Seq(Chars)
  BY <1>3, SeqMonotonic, HexValType
<1>6. \A i \in 1..r : Tail(g)[i] = h[i]
  BY <1>2, <1>3, <1>4
<1>7. Tail(g) = h
  BY <1>3, <1>4, <1>5, <1>6, SeqEqual
<1>8. g[1] = X
  BY <1>2
<1>9. QED
  BY <1>2, <1>3, <1>7, <1>8

(***************************************************************************)
(* The group the escape regex matches at q (after the backslash at q - 1)  *)
(* lies in the text, and a group starting with x that is longer than 'x'   *)
(* holds one or two hex digits after it.                                  *)
(***************************************************************************)
LEMMA GroupShape ==
  ASSUME NEW t \in Seq(Chars), NEW q \in 2..Len(t) + 1, GroupAt(t, q) # "none"
  PROVE  /\ GroupAt(t, q) \in Seq(Chars)
         /\ q + Len(GroupAt(t, q)) <= Len(t) + 1
         /\ (Len(GroupAt(t, q)) > 1 /\ GroupAt(t, q)[1] = X) =>
               /\ Tail(GroupAt(t, q)) \in Seq(DOMAIN HexVal)
               /\ Len(Tail(GroupAt(t, q))) \in 1..2
<1> DEFINE g == GroupAt(t, q)
<1>1. CASE q <= Len(t) /\ t[q] = Bsl
  <2>1. g = << Bsl >>
    BY <1>1 DEF GroupAt
  <2>2. QED
    BY <1>1, <2>1 DEF Chars
<1>2. CASE ~(q <= Len(t) /\ t[q] = Bsl) /\ q <= Len(t) /\ t[q] \in Octal
  <2> DEFINE r == Run(t, q, Octal, 3)
  <2>1. g = SubSeq(t, q, q + r - 1)
    BY <1>2 DEF GroupAt
  <2>2. r \in 0..3 /\ \A j \in q..q + r - 1 : j <= Len(t) /\ t[j] \in Octal
    BY RunSpec
  <2>3. q + r - 1 <= Len(t)
    BY <1>2, <2>2
  <2>4. g \in Seq(Chars) /\ Len(g) = r /\ (r > 0 => g[1] = t[q])
    <3>1. \A i \in q..q + r - 1 : t[i] \in Chars
      BY <2>2
    <3>2. /\ SubSeq(t, q, q + r - 1) \in Seq(Chars)
          /\ Len(SubSeq(t, q, q + r - 1)) = (IF q <= q + r - 1 THEN (q + r - 1) - q + 1 ELSE 0)
          /\ \A i \in 1..(q + r - 1) - q + 1 : SubSeq(t, q, q + r - 1)[i] = t[q + i - 1]
      BY <2>2, <3>1, SubSeqProperties
    <3>3. QED
      BY <2>1, <2>2, <3>2
  <2>5. QED
    BY <1>2, <2>3, <2>4 DEF Octal, X
<1>3. CASE /\ ~(q <= Len(t) /\ t[q] = Bsl) /\ ~(q <= Len(t) /\ t[q] \in Octal)
           /\ q < Len(t) /\ t[q] = X /\ t[q + 1] \in DOMAIN HexVal
  <2> DEFINE r == Run(t, q + 1, DOMAIN HexVal, 2)
  <2>1. g = SubSeq(t, q, q + r)
    BY <1>3 DEF GroupAt
  <2>2. /\ r \in 0..2
        /\ \A j \in q + 1..q + r : j <= Len(t) /\ t[j] \in DOMAIN HexVal
        /\ r = 2 \/ q + 1 + r > Len(t) \/ t[q + 1 + r] \notin DOMAIN HexVal
    BY RunSpec
  <2>3. r \in 1..2
    BY <1>3, <2>2
  <2>4. q + r <= Len(t)
    BY <2>2, <2>3
  <2>5. PICK k \in 1..2 : k = r
    BY <2>3
  <2>6. /\ SubSeq(t, q, q + k) \in Seq(Chars)
        /\ Len(SubSeq(t, q, q + k)) = k + 1
        /\ Tail(SubSeq(t, q, q + k)) \in Seq(DOMAIN HexVal)
        /\ Len(Tail(SubSeq(t, q, q + k))) = k
    <3>1. q \in 1..Len(t) /\ q + k <= Len(t) /\ t[q] = X
      BY <1>3, <2>4, <2>5
    <3>2. \A j \in q + 1..q + k : t[j] \in DOMAIN HexVal
      BY <2>2, <2>5
    <3>3. QED
      BY <3>1, <3>2, HexGroup
  <2>7. g = SubSeq(t, q, q + k) /\ q + k <= Len(t)
    BY <2>1, <2>4, <2>5
  <2>8. g \in Seq(Chars) /\ Len(g) = k + 1
    BY <2>6, <2>7
  <2>9. q + Len(g) <= Len(t) + 1
    BY <2>7, <2>8
  <2>10. Tail(g) \in Seq(DOMAIN HexVal) /\ Len(Tail(g)) \in 1..2
    BY <2>5, <2>6, <2>7
  <2>11. QED
    BY <2>8, <2>9, <2>10
<1>4. CASE /\ ~(q <= Len(t) /\ t[q] = Bsl) /\ ~(q <= Len(t) /\ t[q] \in Octal)
           /\ ~(q < Len(t) /\ t[q] = X /\ t[q + 1] \in DOMAIN HexVal)
           /\ q <= Len(t) /\ t[q] # Lf
  <2>1. g = << t[q] >>
    BY <1>4 DEF GroupAt
  <2>2. QED
    BY <1>4, <2>1
<1>5. CASE /\ ~(q <= Len(t) /\ t[q] = Bsl) /\ ~(q <= Len(t) /\ t[q] \in Octal)
           /\ ~(q < Len(t) /\ t[q] = X /\ t[q + 1] \in DOMAIN HexVal)
           /\ ~(q <= Len(t) /\ t[q] # Lf)
  <2>1. g = << >>
    BY <1>5 DEF GroupAt
  <2>2. QED
    BY <2>1
<1>6. QED
  BY <1>1, <1>2, <1>3, <1>4, <1>5

\* int(s, 16) of one or two hex digits is a natural.
LEMMA HexValueNat ==
  ASSUME NEW s \in Seq(DOMAIN HexVal), Len(s) \in 1..2
  PROVE  HexValue(s) \in Nat
<1>1. \A c \in DOMAIN HexVal : HexVal[c] \in Nat
  BY DEF HexVal
<1>2. \A j \in 1..Len(s) : s[j] \in DOMAIN HexVal
  OBVIOUS
<1>3. QED
  BY <1>1, <1>2 DEF HexValue

\* A natural that is neither 0 nor above 1 is 1.
LEMMA OneOfNat ==
  ASSUME NEW n \in Nat, n # 0, ~(n > 1)
  PROVE  n = 1
OBVIOUS

(***************************************************************************)
(* replace returns a string of code points, or raises one of the three     *)
(* exceptions, for every group of the shape GroupShape gives.             *)
(***************************************************************************)
LEMMA ReplaceType ==
  ASSUME NEW b \in Seq(Chars),
         (Len(b) > 1 /\ b[1] = X) => /\ Tail(b) \in Seq(DOMAIN HexVal)
                                     /\ Len(Tail(b)) \in 1..2
  PROVE  /\ "res" \in DOMAIN Replace(b) => Replace(b).res \in Seq(Nat)
         /\ "err" \in DOMAIN Replace(b) =>
              Replace(b).err \in {"ValueError", "TypeError", "UnicodeDecodeError"}
<1>1. Chars \subseteq Nat
  BY DEF Chars, Bsl, X, Quote, Lf
<1>2. b \in Seq(Nat)
  BY <1>1, SeqMonotonic
<1>3. \A c \in DOMAIN Named : Named[c] \in Nat
  BY DEF Named
<1>4. CASE Len(b) > 1 /\ b[1] = X
  <2>1. HexValue(Tail(b)) \in Nat
    BY <1>4, HexValueNat
  <2>2. b[1] \notin DOMAIN Named
    BY <1>4 DEF Named, X
  <2>3. QED
    BY <1>4, <2>1, <2>2 DEF Replace
<1>5. CASE ~(Len(b) > 1 /\ b[1] = X)
  <2>1. CASE Len(b) = 0
    BY <2>1 DEF Replace
  <2>2. CASE Len(b) # 0 /\ b[1] \in DOMAIN Named
    <3>1. Replace(b) = [res |-> << Named[b[1]] >>]
      BY <2>2 DEF Replace
    <3>2. QED
      BY <1>3, <2>2, <3>1
  <2>3. CASE Len(b) # 0 /\ b[1] \notin DOMAIN Named /\ b[1] = X
    <3>0. ~(Len(b) > 1)
      BY <1>5, <2>3, Zenon
    <3>1. Len(b) \in Nat /\ Len(b) # 0
      BY <2>3
    <3>2. Len(b) = 1
      BY <3>0, <3>1, OneOfNat
    <3>3. QED
      BY <2>3, <3>2 DEF Replace
  <2>4. CASE Len(b) # 0 /\ b[1] \notin DOMAIN Named /\ b[1] # X
    <3>1. Replace(b) = IF b[1] >= 48 THEN [err |-> "TypeError"] ELSE [res |-> b]
      BY <2>4 DEF Replace
    <3>2. QED
      BY <1>2, <3>1
  <2>5. QED
    BY <2>1, <2>2, <2>3, <2>4
<1>6. QED
  BY <1>4, <1>5

-----------------------------------------------------------------------------
\* The initial states are typed.
LEMMA TypeInit == Init => TypeOK
BY InputsAssumption DEF Init, TypeOK

\* Every step keeps the state typed.
LEMMA TypeStep == TypeOK /\ [Next]_vars => TypeOK'
<1> SUFFICES ASSUME TypeOK, [Next]_vars PROVE TypeOK'
  OBVIOUS
<1>0. text \in Seq(Chars)
  BY InputsAssumption DEF TypeOK
<1>1. CASE Copy
  <2>2. p \in 1..Len(text)
    BY <1>1 DEF Copy, TypeOK
  <2>1. text[p] \in Nat
    <3>1. text[p] \in Chars
      BY <1>0, <2>2
    <3>2. QED
      BY <3>1 DEF Chars, Bsl, X, Quote, Lf
  <2>3. out' \in Seq(Nat)
    BY <1>1, <2>1 DEF Copy, TypeOK
  <2>4. p' \in 1..Len(text') + 1
    BY <1>1, <2>2 DEF Copy
  <2>5. QED
    BY <1>1, <2>3, <2>4 DEF Copy, TypeOK
<1>2. CASE Substitute \/ SubstituteRaises
  <2> DEFINE g == GroupAt(text, p + 1)
  <2>1. p + 1 \in 2..Len(text) + 1 /\ g # "none"
    BY <1>2 DEF Substitute, SubstituteRaises, Matches, TypeOK
  <2>2. /\ g \in Seq(Chars)
        /\ p + 1 + Len(g) <= Len(text) + 1
        /\ (Len(g) > 1 /\ g[1] = X) =>
              Tail(g) \in Seq(DOMAIN HexVal) /\ Len(Tail(g)) \in 1..2
    BY <1>0, <2>1, GroupShape
  <2>3. /\ "res" \in DOMAIN Outcome => Outcome.res \in Seq(Nat)
        /\ "err" \in DOMAIN Outcome =>
             Outcome.err \in {"ValueError", "TypeError", "UnicodeDecodeError"}
    BY <2>2, ReplaceType DEF Outcome
  <2>4. CASE Substitute
    BY <2>2, <2>3, <2>4 DEF Substitute, TypeOK
  <2>5. CASE SubstituteRaises
    BY <2>3, <2>5 DEF SubstituteRaises, TypeOK
  <2>6. QED
    BY <1>2, <2>4, <2>5
<1>3. CASE Finish
  BY <1>3 DEF Finish, TypeOK
<1>4. CASE UNCHANGED vars
  BY <1>4 DEF vars, TypeOK
<1>5. QED
  BY <1>1, <1>2, <1>3, <1>4 DEF Next

(***************************************************************************)
(* For every set of inputs, the scan of regex.sub in unescape never        *)
(* searches past the end of the text, builds a string of code points and   *)
(* raises only ValueError, TypeError or UnicodeDecodeError.               *)
(***************************************************************************)
THEOREM TypeCorrect == Spec => []TypeOK
BY TypeInit, TypeStep, PTL DEF Spec

====
