----------------------------- MODULE MatchWalk -----------------------------
(***************************************************************************)
(* What the two handlers of ANSIColorParser promise about the escape       *)
(* sequences of a block: both walk the matches of COLOR_PATTERN left to    *)
(* right, as re.finditer and re.sub yield them, one match per step, and    *)
(* resume the search right after the match.  The walk stops when no match  *)
(* is left.  The styling walk (styled) takes only sequences it can style,  *)
(* and raises at the first one it cannot; the strip walk takes every       *)
(* match and never raises.                                                 *)
(***************************************************************************)
EXTENDS AnsiScanner

CONSTANT Inputs   \* the raw sources of ANSI blocks

VARIABLES
  text,     \* block.rawsource
  styled,   \* the styling handler runs (the builder is 'html')
  from,     \* where the next search starts (last_end + 1)
  phase     \* "walk", "stopped" (no match left) or "raised"

Init ==
  /\ text \in Inputs
  /\ styled \in BOOLEAN
  /\ from = 1
  /\ phase = "walk"

\* The next match and its group.
NextStart == NextMatchStart(text, from)
NextGroup == Group(text, NextStart)

\* The walk takes the next match and resumes after it.
Advance ==
  /\ phase = "walk"
  /\ HasMatchFrom(text, from)
  /\ styled => ~IsBadMatch(NextGroup)
  /\ from' = MatchEnd(text, NextStart) + 1
  /\ UNCHANGED << text, styled, phase >>

\* The styling walk raises at a sequence it cannot style.
Raise ==
  /\ phase = "walk"
  /\ styled
  /\ HasMatchFrom(text, from)
  /\ IsBadMatch(NextGroup)
  /\ phase' = "raised"
  /\ UNCHANGED << text, styled, from >>

\* No match is left after from.
Stop ==
  /\ phase = "walk"
  /\ ~HasMatchFrom(text, from)
  /\ phase' = "stopped"
  /\ UNCHANGED << text, styled, from >>

Next == Advance \/ Raise \/ Stop

Spec == Init /\ [][Next]_<< text, styled, from, phase >>

=============================================================================
