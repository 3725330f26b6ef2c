------------------------ MODULE ANSIColorParserProofs ------------------------
(***************************************************************************)
(* Proofs about ANSIColorParser for every input and every builder.          *)
(***************************************************************************)
EXTENDS ANSIColorParser, WellFoundedInduction, TLAPS

Nodes == TextNodes \cup InlineNodes

(***************************************************************************)
(* A non-empty set of naturals has a least element (from the               *)
(* well-foundedness of < on Nat).  It gives the first match finditer       *)
(* finds and the first "m" that closes it.                                 *)
(***************************************************************************)
LEMMA NatMin ==
  ASSUME NEW T \in SUBSET Nat, T # {}
  PROVE  \E x \in T : \A y \in T : x <= y
<1>1. \E x \in T : \A y \in T : ~(<< y, x >> \in OpToRel(<, Nat))
  BY WFMin, NatLessThanWellFounded
<1>2. \A x, y \in Nat : ~(<< y, x >> \in OpToRel(<, Nat)) => x <= y
  BY DEF OpToRel
<1>3. QED
  BY <1>1, <1>2

\* The next search from p finds a match that starts in p .. Len(s).
LEMMA NextMatchStartType ==
  ASSUME NEW s \in Seq(Chars), NEW p \in 1 .. Len(s) + 1, HasMatchFrom(s, p)
  PROVE  /\ NextMatchStart(s, p) \in p .. Len(s)
         /\ IsMatchAt(s, NextMatchStart(s, p))
<1> DEFINE T == {i \in p .. Len(s) : IsMatchAt(s, i)}
<1>1. T \in SUBSET Nat /\ T # {}
  BY DEF HasMatchFrom
<1>2. PICK x \in T : \A y \in T : x <= y
  BY <1>1, NatMin
<1>3. x \in p .. Len(s) /\ IsMatchAt(s, x) /\ \A j \in p .. x - 1 : ~IsMatchAt(s, j)
  BY <1>2
<1>4. QED
  BY <1>3 DEF NextMatchStart

\* A match that starts at i closes at an "m" in i + 3 .. Len(s).
LEMMA MatchEndType ==
  ASSUME NEW s \in Seq(Chars), NEW i \in Nat, IsMatchAt(s, i)
  PROVE  MatchEnd(s, i) \in i + 3 .. Len(s)
<1> DEFINE T == {k \in i + 3 .. Len(s) : s[k] = "m"}
<1>1. T \in SUBSET Nat /\ T # {}
  BY DEF IsMatchAt
<1>2. PICK x \in T : \A y \in T : x <= y
  BY <1>1, NatMin
<1>3. s[i + 2] # "m"
  BY DEF IsMatchAt
<1>4. x \in i + 3 .. Len(s) /\ s[x] = "m" /\ \A j \in i + 2 .. x - 1 : s[j] # "m"
  BY <1>2, <1>3
<1>5. QED
  BY <1>4 DEF MatchEnd

\* An opening sequence that passed the lookup yields known class names.
LEMMA ClassesOfType ==
  ASSUME NEW g, ~HasUnknownCode(g)
  PROVE  ClassesOf(g) \subseteq ClassNames
BY DEF HasUnknownCode, ClassesOf, ClassNames

LEMMA PendingAfterTextType ==
  ASSUME NEW p \in Seq(InlineNodes), NEW t \in Text
  PROVE  PendingAfterText(p, t) \in Seq(InlineNodes)
<1>1. CASE t # << >> /\ p # << >>
  <2>1. Len(p) \in 1 .. Len(p)
    BY <1>1
  <2>2. p[Len(p)] \in InlineNodes
    BY <2>1
  <2>3. WithChild(p[Len(p)], t) \in InlineNodes
    BY <2>2 DEF WithChild, InlineNodes
  <2>7. QED
    BY <1>1, <2>1, <2>3 DEF PendingAfterText
<1>2. QED
  BY <1>1 DEF PendingAfterText

LEMMA NewAfterTextType ==
  ASSUME NEW p, NEW n \in Seq(Nodes), NEW t \in Text
  PROVE  NewAfterText(p, n, t) \in Seq(Nodes)
BY DEF NewAfterText, TextNode, Nodes, TextNodes

-----------------------------------------------------------------------------
(***************************************************************************)
(* The state stays well typed: in particular last_end never passes the end *)
(* of the block (the head and tail slices are in range), and every class   *)
(* name the HTML path emits is one of CODE_CLASS_MAP.                      *)
(***************************************************************************)
THEOREM TypeCorrect == Spec => []TypeOK
<1>1. Init => TypeOK
  BY InputsAssumption DEF Init, TypeOK, Text
<1>2. TypeOK /\ [Next]_vars => TypeOK'
  <2> SUFFICES ASSUME TypeOK, [Next]_vars PROVE TypeOK'
    OBVIOUS
  <2> USE DEF TypeOK
  \* Facts about the current match, shared by the steps of both loops.
  <2>0. ASSUME HasMatchFrom(raw, lastEnd)
        PROVE  /\ CurStart \in lastEnd .. Len(raw)
               /\ MatchEnd(raw, CurStart) \in CurStart + 3 .. Len(raw)
               /\ MatchEnd(raw, CurStart) + 1 \in 1 .. Len(raw) + 1
               /\ CurHead \in Text
    <3>1. CurStart \in lastEnd .. Len(raw) /\ IsMatchAt(raw, CurStart)
      BY <2>0, NextMatchStartType DEF CurStart
    <3>2. MatchEnd(raw, CurStart) \in CurStart + 3 .. Len(raw)
      BY <3>1, MatchEndType
    <3>3. CurHead \in Text
      BY <3>1 DEF CurHead, Text
    <3>4. QED
      BY <3>1, <3>2, <3>3
  <2>1. CASE ScanReset
    <3>1. PendingAfterText(pending, CurHead) \in Seq(InlineNodes)
      BY <2>1, <2>0, PendingAfterTextType DEF ScanReset
    <3>2. NewAfterText(pending, newNodes, CurHead) \in Seq(Nodes)
      BY <2>1, <2>0, NewAfterTextType DEF ScanReset, Nodes
    <3>3. QED
      BY <2>1, <2>0, <3>1, <3>2 DEF ScanReset, Finalize, Nodes
  <2>2. CASE ScanOpen
    <3>1. PendingAfterText(pending, CurHead) \in Seq(InlineNodes)
      BY <2>2, <2>0, PendingAfterTextType DEF ScanOpen
    <3>2. InlineNode(ClassesOf(CurGroup)) \in InlineNodes
      BY <2>2, ClassesOfType DEF ScanOpen, InlineNode, InlineNodes
    <3>3. NewAfterText(pending, newNodes, CurHead) \in Seq(Nodes)
      BY <2>2, <2>0, NewAfterTextType DEF ScanOpen, Nodes
    <3>4. QED
      BY <2>2, <2>0, <3>1, <3>2, <3>3 DEF ScanOpen, Nodes
  <2>3. CASE ScanValueError
    BY <2>3 DEF ScanValueError
  <2>4. CASE ScanKeyError
    BY <2>4 DEF ScanKeyError
  <2>5. CASE Finish
    <3> DEFINE tail == SubSeq(raw, lastEnd, Len(raw))
    <3>1. tail \in Text
      BY DEF Text
    <3>2. PendingAfterText(pending, tail) \in Seq(InlineNodes)
      BY <3>1, PendingAfterTextType
    <3>3. NewAfterText(pending, newNodes, tail) \in Seq(Nodes)
      BY <3>1, NewAfterTextType DEF Nodes
    <3>4. QED
      BY <2>5, <3>2, <3>3 DEF Finish, Finalize, Nodes
  <2>6. CASE StripScan
    BY <2>6, <2>0 DEF StripScan, Text
  <2>7. CASE StripFinish
    <3> DEFINE content == stripped \o SubSeq(raw, lastEnd, Len(raw))
    <3>1. content \in Text
      BY DEF Text
    <3>2. TextNode(content) \in TextNodes
      BY <3>1 DEF TextNode, TextNodes
    <3>3. stripped' = content /\ pc' = "done"
          /\ literal' = (IF content = << >> THEN << >> ELSE << TextNode(content) >>)
          /\ UNCHANGED << builder, raw, lastEnd, pending, newNodes >>
      BY <2>7 DEF StripFinish
    <3>4. literal' \in Seq(TextNodes \cup InlineNodes)
      <4>1. CASE content = << >>
        BY <3>3, <4>1
      <4>2. CASE content # << >>
        <5>1. << TextNode(content) >> \in Seq(TextNodes \cup InlineNodes)
          BY <3>2
        <5>2. QED
          BY <3>3, <4>2, <5>1
      <4>3. QED
        BY <4>1, <4>2
    <3>5. QED
      BY <3>1, <3>3, <3>4
  <2>8. CASE UNCHANGED vars
    BY <2>8 DEF vars
  <2>9. QED
    BY <2>1, <2>2, <2>3, <2>4, <2>5, <2>6, <2>7, <2>8 DEF Next
<1>3. QED
  BY <1>1, <1>2, PTL DEF Spec

-----------------------------------------------------------------------------
(***************************************************************************)
(* The refinement of MatchWalk.  __call__ chooses the handler once from    *)
(* the builder's name, so the loop that runs is the one of that builder.   *)
(***************************************************************************)
HandlerOfBuilder == pc \in {"scan", "strip"} => (pc = "scan" <=> builder = "html")

LEMMA HandlerOfBuilderInvariant == Spec => []HandlerOfBuilder
<1>1. Init => HandlerOfBuilder
  BY DEF Init, HandlerOfBuilder
<1>2. HandlerOfBuilder /\ [Next]_vars => HandlerOfBuilder'
  BY DEF HandlerOfBuilder, Next, vars, ScanReset, ScanOpen, ScanValueError, ScanKeyError,
         Finish, StripScan, StripFinish
<1>3. QED
  BY <1>1, <1>2, PTL DEF Spec

\* MatchWalk's copy of the scanner is the scanner.
LEMMA WalkScannerSame ==
  ASSUME NEW t, NEW q
  PROVE  /\ Walk!HasMatchFrom(t, q) = HasMatchFrom(t, q)
         /\ Walk!NextMatchStart(t, q) = NextMatchStart(t, q)
         /\ Walk!MatchEnd(t, q) = MatchEnd(t, q)
         /\ Walk!Group(t, q) = Group(t, q)
         /\ Walk!IsBadMatch(t) = IsBadMatch(t)
<1>1. Walk!IsMatchAt(t, q) = IsMatchAt(t, q)
  BY DEF Walk!IsMatchAt, IsMatchAt, Walk!ESC, ESC
<1>2. Walk!MatchEnd(t, q) = MatchEnd(t, q)
  BY DEF Walk!MatchEnd, MatchEnd
<1>3. \A i : Walk!IsMatchAt(t, i) = IsMatchAt(t, i)
  BY DEF Walk!IsMatchAt, IsMatchAt, Walk!ESC, ESC
<1>4. Walk!HasMatchFrom(t, q) = HasMatchFrom(t, q)
  BY <1>3 DEF Walk!HasMatchFrom, HasMatchFrom
<1>5. Walk!NextMatchStart(t, q) = NextMatchStart(t, q)
  BY <1>3 DEF Walk!NextMatchStart, NextMatchStart
<1>6. \A i : Walk!MatchEnd(t, i) = MatchEnd(t, i)
  BY DEF Walk!MatchEnd, MatchEnd
<1>7. Walk!Group(t, q) = Group(t, q)
  BY <1>6 DEF Walk!Group, Group
<1>8. Walk!IsBadMatch(t) = IsBadMatch(t)
  BY DEF Walk!IsBadMatch, IsBadMatch, Walk!CodesUnparsable, CodesUnparsable,
         Walk!IsReset, IsReset, Walk!HasUnknownCode, HasUnknownCode,
         Walk!Pieces, Pieces, Walk!IsInt, IsInt, Walk!Val, Val, Walk!LastPiece, LastPiece,
         Walk!DigitVal, DigitVal, Walk!Digits, Digits, Walk!CodeClassMap, CodeClassMap
<1>9. QED
  BY <1>2, <1>4, <1>5, <1>7, <1>8

\* The state function the walk's variables are mapped to.
WalkVars == << raw, builder = "html", lastEnd, WalkPhase >>

\* The html handler's iterations take only sequences it can style.
LEMMA StylableNotBad ==
  ASSUME NEW g, ~CodesUnparsable(g), IsReset(g) \/ ~HasUnknownCode(g)
  PROVE  ~IsBadMatch(g)
BY DEF IsBadMatch

\* An iteration of either for loop is a step of the walk over the matches.
LEMMA IterationAdvances ==
  ASSUME HandlerOfBuilder, ScanReset \/ ScanOpen \/ StripScan
  PROVE  Walk!Advance
<1>1. /\ pc \in {"scan", "strip"} /\ pc' = pc
      /\ HasMatchFrom(raw, lastEnd)
      /\ lastEnd' = MatchEnd(raw, CurStart) + 1
      /\ UNCHANGED << raw, builder >>
  BY DEF ScanReset, ScanOpen, StripScan
<1>2. builder = "html" => ~IsBadMatch(CurGroup)
  <2>1. CASE ScanReset \/ ScanOpen
    BY <2>1, StylableNotBad DEF ScanReset, ScanOpen
  <2>2. CASE StripScan
    BY <2>2 DEF StripScan, HandlerOfBuilder
  <2>3. QED
    BY <2>1, <2>2
<1>3. WalkPhase = "walk" /\ WalkPhase' = "walk"
  BY <1>1 DEF WalkPhase
<1>4. QED
  BY <1>1, <1>2, <1>3, WalkScannerSame DEF Walk!Advance, Walk!NextStart, Walk!NextGroup, CurStart, CurGroup

\* An exception of the html loop is the walk raising at a bad sequence.
LEMMA ExceptionRaises ==
  ASSUME HandlerOfBuilder, ScanValueError \/ ScanKeyError
  PROVE  Walk!Raise
<1>1. /\ pc = "scan" /\ pc' = "error" /\ builder = "html"
      /\ HasMatchFrom(raw, lastEnd) /\ IsBadMatch(CurGroup)
      /\ UNCHANGED << raw, builder, lastEnd >>
  BY DEF ScanValueError, ScanKeyError, HandlerOfBuilder, IsBadMatch
<1>2. WalkPhase = "walk" /\ WalkPhase' = "raised"
  BY <1>1 DEF WalkPhase
<1>3. QED
  BY <1>1, <1>2, WalkScannerSame DEF Walk!Raise, Walk!NextStart, Walk!NextGroup, CurStart, CurGroup

\* The end of either handler's loop is the walk stopping.
LEMMA LoopEndStops ==
  ASSUME Finish \/ StripFinish
  PROVE  Walk!Stop
<1>1. /\ pc \in {"scan", "strip"} /\ pc' = "done"
      /\ ~HasMatchFrom(raw, lastEnd)
      /\ UNCHANGED << raw, builder, lastEnd >>
  BY DEF Finish, StripFinish
<1>2. WalkPhase = "walk" /\ WalkPhase' = "stopped"
  BY <1>1 DEF WalkPhase
<1>3. QED
  BY <1>1, <1>2, WalkScannerSame DEF Walk!Stop

(***************************************************************************)
(* ANSIColorParser implements MatchWalk: both handlers walk the matches of *)
(* COLOR_PATTERN one per iteration, resuming right after each, the html    *)
(* handler raising only at a sequence int() or CODE_CLASS_MAP rejects, and *)
(* each handler ending only when no match is left.                         *)
(***************************************************************************)
THEOREM ImplementsWalk == Spec => ImplementsMatchWalk
<1>1. Init => Walk!Init
  BY DEF Init, Walk!Init, WalkPhase
<1>2. HandlerOfBuilder /\ [Next]_vars => [Walk!Next]_WalkVars
  <2> SUFFICES ASSUME HandlerOfBuilder, [Next]_vars PROVE [Walk!Next]_WalkVars
    OBVIOUS
  <2>1. CASE ScanReset \/ ScanOpen \/ StripScan
    BY <2>1, IterationAdvances DEF Walk!Next
  <2>2. CASE ScanValueError \/ ScanKeyError
    BY <2>2, ExceptionRaises DEF Walk!Next
  <2>3. CASE Finish \/ StripFinish
    BY <2>3, LoopEndStops DEF Walk!Next
  <2>4. CASE UNCHANGED vars
    BY <2>4 DEF vars, WalkVars, WalkPhase
  <2>5. QED
    BY <2>1, <2>2, <2>3, <2>4 DEF Next
<1>3. QED
  BY <1>1, <1>2, HandlerOfBuilderInvariant, PTL DEF Spec, ImplementsMatchWalk, Walk!Spec, WalkVars

=============================================================================
