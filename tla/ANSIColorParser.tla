--------------------------- MODULE ANSIColorParser ---------------------------
(***************************************************************************)
(* ANSIColorParser (src/external/sphinx-contrib/ansi.py, lines 81-168): the *)
(* doctree-resolved handler that replaces one ansi_literal_block by a      *)
(* literal block.  For the 'html' builder it walks the matches of          *)
(* COLOR_PATTERN and builds inline nodes carrying class names              *)
(* (_colorize_block_contents); for every other builder it deletes the      *)
(* matches (_strip_color_from_block_content).                              *)
(*                                                                         *)
(* One state per iteration of the for loop of line 126: the model keeps    *)
(* the parser's scratch lists pending_nodes and new_nodes, the end of the  *)
(* last match, and the children of the literal node that replaced the      *)
(* block in the document.                                                  *)
(***************************************************************************)
EXTENDS AnsiScanner, SequencesExt

CONSTANTS
  Inputs,     \* the raw sources of ANSI blocks the model is run on
  Builders    \* builder names; "html" selects the styling path

ASSUME InputsAssumption == Inputs \subseteq Seq(Chars) /\ Inputs # {}
ASSUME BuildersAssumption == Builders # {}

VARIABLES
  builder,    \* app.builder.name
  raw,        \* block.rawsource
  lastEnd,    \* last_end + 1: where the next head text and the next search start
  pending,    \* self.pending_nodes: inline nodes that have not seen a reset
  newNodes,   \* self.new_nodes: nodes already final
  stripped,   \* the pieces of raw that COLOR_PATTERN.sub has kept so far
  literal,    \* the children of the literal_block that replaced the block
  pc          \* "scan" (html loop), "strip" (sub loop), "done" or "error"

vars == << builder, raw, lastEnd, pending, newNodes, stripped, literal, pc >>

Text == Seq(Chars)
TextNode(t) == [kind |-> "text", text |-> t]
InlineNode(cls) == [kind |-> "inline", classes |-> cls, children |-> << >>]

TextNodes == [kind : {"text"}, text : Text]
InlineNodes == [kind : {"inline"}, classes : SUBSET ClassNames, children : Seq(Text)]

-----------------------------------------------------------------------------
(***************************************************************************)
(* _add_text(text): a non-empty text becomes a Text child of the most      *)
(* recent pending node, or a top-level node when nothing is pending.  The  *)
(* two operators give the new pending_nodes and new_nodes.                 *)
(***************************************************************************)
\* node.append(Text(text)): the inline node with one more child.
WithChild(node, t) ==
  [kind |-> node.kind, classes |-> node.classes, children |-> Append(node.children, t)]

\* Mutant: the text goes to the oldest pending node (pending_nodes[0]).
PendingAfterTextFirst(p, t) ==
  IF t # << >> /\ p # << >>
  THEN [p EXCEPT ![1] = WithChild(p[1], t)]
  ELSE p

PendingAfterText(p, t) ==
  IF t # << >> /\ p # << >>
  THEN [p EXCEPT ![Len(p)] = WithChild(p[Len(p)], t)]
  ELSE p

NewAfterText(p, n, t) ==
  IF t # << >> /\ p = << >> THEN Append(n, TextNode(t)) ELSE n

\* _finalize_pending_nodes: the pending nodes, in order, join new_nodes.
Finalize(p, n) == n \o p

-----------------------------------------------------------------------------
(***************************************************************************)
(* __call__ picks the handler from the builder's name (lines 163-166).     *)
(* _colorize_block_contents first replaces the block by an empty literal   *)
(* node and resets the scratch lists (lines 110-124); the strip handler    *)
(* starts COLOR_PATTERN.sub over the raw source.                           *)
(***************************************************************************)
Init ==
  /\ builder \in Builders
  /\ raw \in Inputs
  /\ lastEnd = 1
  /\ pending = << >>
  /\ newNodes = << >>
  /\ stripped = << >>
  /\ literal = << >>
  /\ pc = IF builder = "html" THEN "scan" ELSE "strip"

(***************************************************************************)
(* One iteration of the for loop over COLOR_PATTERN.finditer(raw): the     *)
(* text before the match is added, last_end moves past the match, and the  *)
(* codes either reset, open a new inline node, or raise.                   *)
(***************************************************************************)
\* The next match, its group and the head text before it.
CurStart == NextMatchStart(raw, lastEnd)
CurGroup == Group(raw, CurStart)
CurHead == SubSeq(raw, lastEnd, CurStart - 1)

ScanReset ==
  /\ pc = "scan"
  /\ HasMatchFrom(raw, lastEnd)
  /\ ~CodesUnparsable(CurGroup)
  /\ IsReset(CurGroup)
  /\ pending' = << >>
  /\ newNodes' = Finalize(PendingAfterText(pending, CurHead),
                          NewAfterText(pending, newNodes, CurHead))
  /\ lastEnd' = MatchEnd(raw, CurStart) + 1
  /\ UNCHANGED << builder, raw, stripped, literal, pc >>

\* Mutant: last_end set one past the character after the match.
ScanOpenSkip ==
  /\ pc = "scan"
  /\ HasMatchFrom(raw, lastEnd)
  /\ ~CodesUnparsable(CurGroup)
  /\ ~IsReset(CurGroup)
  /\ ~HasUnknownCode(CurGroup)
  /\ pending' = Append(PendingAfterText(pending, CurHead), InlineNode(ClassesOf(CurGroup)))
  /\ newNodes' = NewAfterText(pending, newNodes, CurHead)
  /\ lastEnd' = MatchEnd(raw, CurStart) + 2
  /\ UNCHANGED << builder, raw, stripped, literal, pc >>

ScanOpen ==
  /\ pc = "scan"
  /\ HasMatchFrom(raw, lastEnd)
  /\ ~CodesUnparsable(CurGroup)
  /\ ~IsReset(CurGroup)
  /\ ~HasUnknownCode(CurGroup)
  /\ pending' = Append(PendingAfterText(pending, CurHead), InlineNode(ClassesOf(CurGroup)))
  /\ newNodes' = NewAfterText(pending, newNodes, CurHead)
  /\ lastEnd' = MatchEnd(raw, CurStart) + 1
  /\ UNCHANGED << builder, raw, stripped, literal, pc >>

(***************************************************************************)
(* An exception leaves the handler: the literal node stays empty (line 152 *)
(* is never reached) and the scratch lists are never read again, as the    *)
(* next block resets them (lines 119-122).                                 *)
(***************************************************************************)
\* int() rejects a code: ValueError on line 133.
ScanValueError ==
  /\ pc = "scan"
  /\ HasMatchFrom(raw, lastEnd)
  /\ CodesUnparsable(CurGroup)
  /\ pc' = "error"
  /\ UNCHANGED << builder, raw, lastEnd, pending, newNodes, stripped, literal >>

\* Mutant: the class lookup also runs for a reset sequence.
ScanKeyErrorOnReset ==
  /\ pc = "scan"
  /\ HasMatchFrom(raw, lastEnd)
  /\ ~CodesUnparsable(CurGroup)
  /\ HasUnknownCode(CurGroup)
  /\ pc' = "error"
  /\ UNCHANGED << builder, raw, lastEnd, pending, newNodes, stripped, literal >>

\* An opening sequence has a code outside CODE_CLASS_MAP: KeyError on line 145.
ScanKeyError ==
  /\ pc = "scan"
  /\ HasMatchFrom(raw, lastEnd)
  /\ ~CodesUnparsable(CurGroup)
  /\ ~IsReset(CurGroup)
  /\ HasUnknownCode(CurGroup)
  /\ pc' = "error"
  /\ UNCHANGED << builder, raw, lastEnd, pending, newNodes, stripped, literal >>

\* After the loop: the tail text, the implicit close of all pending nodes,
\* and literal_node.extend(self.new_nodes).
Finish ==
  LET tail == SubSeq(raw, lastEnd, Len(raw))
  IN  /\ pc = "scan"
      /\ ~HasMatchFrom(raw, lastEnd)
      /\ pending' = << >>
      /\ newNodes' = Finalize(PendingAfterText(pending, tail),
                              NewAfterText(pending, newNodes, tail))
      /\ literal' = newNodes'
      /\ pc' = "done"
      /\ UNCHANGED << builder, raw, lastEnd, stripped >>

(***************************************************************************)
(* _strip_color_from_block_content (lines 154-157).  COLOR_PATTERN.sub     *)
(* walks the same matches as finditer and joins the text between them;     *)
(* each step keeps the text before one match.                              *)
(***************************************************************************)
StripScan ==
  /\ pc = "strip"
  /\ HasMatchFrom(raw, lastEnd)
  /\ stripped' = stripped \o CurHead
  /\ lastEnd' = MatchEnd(raw, CurStart) + 1
  /\ UNCHANGED << builder, raw, pending, newNodes, literal, pc >>

\* The tail is joined and the block is replaced by literal_block(content,
\* content); docutils gives it a Text child only when content is not empty.
StripFinish ==
  LET content == stripped \o SubSeq(raw, lastEnd, Len(raw))
  IN  /\ pc = "strip"
      /\ ~HasMatchFrom(raw, lastEnd)
      /\ stripped' = content
      /\ literal' = IF content = << >> THEN << >> ELSE << TextNode(content) >>
      /\ pc' = "done"
      /\ UNCHANGED << builder, raw, lastEnd, pending, newNodes >>

Next ==
  \/ ScanReset
  \/ ScanOpen
  \/ ScanValueError
  \/ ScanKeyError
  \/ Finish
  \/ StripScan
  \/ StripFinish

Spec == Init /\ [][Next]_vars

-----------------------------------------------------------------------------
TypeOK ==
  /\ builder \in Builders
  /\ raw \in Seq(Chars)
  /\ lastEnd \in 1 .. Len(raw) + 1
  /\ pending \in Seq(InlineNodes)
  /\ newNodes \in Seq(TextNodes \cup InlineNodes)
  /\ literal \in Seq(TextNodes \cup InlineNodes)
  /\ stripped \in Text
  /\ pc \in {"scan", "strip", "done", "error"}

(***************************************************************************)
(* What a reader of the HTML page sees: every character of the literal     *)
(* block with the set of classes of the inline node that holds it.  An     *)
(* inline node's classes are the only ones that apply to its text, as the  *)
(* builder emits inline nodes as sibling spans.                            *)
(***************************************************************************)
Styled(t, cls) == [j \in 1 .. Len(t) |-> << t[j], cls >>]

RenderNode(nd) ==
  IF nd.kind = "text"
  THEN Styled(nd.text, {})
  ELSE FlattenSeq([c \in 1 .. Len(nd.children) |-> Styled(nd.children[c], nd.classes)])

Rendered(lit) == FlattenSeq([n \in 1 .. Len(lit) |-> RenderNode(lit[n])])

\* The characters the strip path keeps, each with a style computed by
\* StyleAt from the matches before it.
Expected(s, StyleAt(_, _)) ==
  LET kept == SelectSeq([j \in 1 .. Len(s) |-> j], LAMBDA j : j \notin Covered(s))
  IN  [n \in 1 .. Len(kept) |-> << s[kept[n]], StyleAt(s, kept[n]) >>]

\* The matches that end before position j.
MatchesBefore(s, j) == {n \in DOMAIN MatchList(s) : MatchList(s)[n].end < j}

GroupOf(s, n) == Group(s, MatchList(s)[n].start)

(***************************************************************************)
(* The style the code means to give position j: the classes of the         *)
(* nearest escape sequence before it, none when that one is a reset.       *)
(***************************************************************************)
LatestStyleAt(s, j) ==
  IF MatchesBefore(s, j) = {} THEN {}
  ELSE LET g == GroupOf(s, Max(MatchesBefore(s, j)))
       IN  IF IsReset(g) THEN {} ELSE ClassesOf(g)

(***************************************************************************)
(* The style spec.md (4.2 step 4, 8) gives position j: the union of the    *)
(* classes of every group opened since the last reset, as on a terminal.   *)
(***************************************************************************)
NestedStyleAt(s, j) ==
  LET before == MatchesBefore(s, j)
      resets == {n \in before : IsReset(GroupOf(s, n))}
      opened == {n \in before : \A r \in resets : r < n}
  IN  UNION {ClassesOf(GroupOf(s, n)) : n \in opened}

(***************************************************************************)
(* HtmlRendering: when _colorize_block_contents completes, the HTML block  *)
(* shows exactly the characters the non-HTML builders keep                 *)
(* (COLOR_PATTERN.sub), in order, each styled by the nearest preceding     *)
(* escape sequence.  It takes the head/tail text placement of _add_text,   *)
(* the flush of pending nodes on a reset and at the end, and last_end to   *)
(* agree over a whole block.                                               *)
(***************************************************************************)
HtmlRendering ==
  pc = "done" /\ builder = "html" => Rendered(literal) = Expected(raw, LatestStyleAt)

(***************************************************************************)
(* HtmlFailsExactlyOnBadCodes: the HTML path raises on a block iff one of  *)
(* its escape sequences has a code int() rejects, or is an opening         *)
(* sequence with a code outside CODE_CLASS_MAP; only the last code decides *)
(* whether a sequence is a reset (line 134).                               *)
(***************************************************************************)
HtmlFailsExactlyOnBadCodes ==
  pc \in {"done", "error"} /\ builder = "html" =>
    (pc = "error" <=> \E n \in DOMAIN MatchList(raw) : IsBadMatch(GroupOf(raw, n)))

(***************************************************************************)
(* NestedStyles (spec.md 4.2 step 4 and 8): an opening sequence nests in  *)
(* the groups still open, so text carries the union of their classes.      *)
(***************************************************************************)
NestedStyles ==
  pc = "done" /\ builder = "html" => Rendered(literal) = Expected(raw, NestedStyleAt)

(***************************************************************************)
(* StripIdempotent (spec.md 8): stripping the output of the non-HTML path  *)
(* again changes nothing.                                                  *)
(***************************************************************************)
StripIdempotent ==
  pc = "done" /\ builder # "html" => Strip(stripped) = stripped

(***************************************************************************)
(* StripRemovesOnlySgr (spec.md 4.1, 7): the non-HTML path removes only    *)
(* SGR sequences, ESC [ codes m with codes digits and ";"; any other text  *)
(* stays.                                                                  *)
(***************************************************************************)
IsSgrGroup(g) == \A j \in 1 .. Len(g) : g[j] \in Digits \cup {";"}

StripRemovesOnlySgr ==
  pc = "done" /\ builder # "html" =>
    \A n \in DOMAIN MatchList(raw) : IsSgrGroup(GroupOf(raw, n))


-----------------------------------------------------------------------------
(***************************************************************************)
(* The refinement mapping to MatchWalk: the raw source is the text, the    *)
(* html builder selects the styling walk, last_end + 1 is where the next   *)
(* search starts, and the handler's end, normal or by an exception, is     *)
(* the end of the walk.                                                    *)
(***************************************************************************)
WalkPhase == CASE pc \in {"scan", "strip"} -> "walk"
               [] pc = "done" -> "stopped"
               [] pc = "error" -> "raised"

Walk == INSTANCE MatchWalk WITH text <- raw, styled <- (builder = "html"),
                                from <- lastEnd, phase <- WalkPhase

(***************************************************************************)
(* Both handlers walk the escape sequences as re.finditer and re.sub find  *)
(* them: one match per loop iteration, last_end moved to the end of that   *)
(* match, the html handler raising only at a sequence whose codes int()    *)
(* or CODE_CLASS_MAP reject, and each handler ending only when no match is *)
(* left.                                                                   *)
(***************************************************************************)
ImplementsMatchWalk == Walk!Spec

=============================================================================
