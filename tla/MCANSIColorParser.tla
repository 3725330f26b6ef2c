------------------------- MODULE MCANSIColorParser -------------------------
(***************************************************************************)
(* Instances of ANSIColorParser for TLC.                                   *)
(***************************************************************************)
EXTENDS ANSIColorParser

\* Escape sequences as a document writes them, plus plain text.
Seq1 == << ESC, "[", "1", "m" >>             \* bold
Seq31 == << ESC, "[", "3", "1", "m" >>       \* red
Seq0 == << ESC, "[", "0", "m" >>             \* reset
Seq10 == << ESC, "[", "1", ";", "0", "m" >>  \* bold, then reset in one sequence
Seq3 == << ESC, "[", "3", "m" >>             \* unknown code 3
Seq30 == << ESC, "[", "3", ";", "0", "m" >>  \* unknown code, then reset
SeqX == << ESC, "[", "x", "m" >>             \* not numeric

\* Blocks of up to four tokens.
MCTokens == {<< "x" >>, Seq1, Seq31, Seq0, Seq10, Seq3, Seq30, SeqX}
MCTokenInputs == {FlattenSeq(t) : t \in SeqOf(MCTokens, 4)}

\* Every block of up to five characters, so that escape characters,
\* brackets, "m", separators and digits meet in every arrangement.
MCCharInputs == SeqOf({ESC, "[", "m", ";", "0", "1", "x"}, 5)

MCInputs == MCTokenInputs \cup MCCharInputs

\* Every block of up to eight characters over the characters the pattern
\* names: long enough for a match to sit inside the text of another one.
MCStripInputs == SeqOf({ESC, "[", "m", "x"}, 8)

MCBuilders == {"html", "latex"}
MCNonHtmlBuilders == {"latex"}
=============================================================================
