------------------------------ MODULE Unescape ------------------------------
(***************************************************************************)
(* unescape and ANSIBlockDirective.run of                                  *)
(* src/external/sphinx-contrib/ansi.py under Python 3: the content joined  *)
(* by '\n' is, when :string_escape: is given, passed through               *)
(* regex.sub(replace, text), a left-to-right scan that copies a character  *)
(* where no match starts and otherwise replaces the match by what replace  *)
(* returns, or stops on the exception replace raises.                      *)
(*                                                                         *)
(* Characters are code points.  The inputs use '\', 'x', the hex and octal *)
(* digit '1', the letters 'b' (a hex digit and an escape letter), 'e' (a   *)
(* hex digit, no escape letter), 'n' (an escape letter only), the quote    *)
(* and the newline.                                                        *)
(***************************************************************************)
EXTENDS Naturals, Sequences

CONSTANT Inputs   \* the joined directive contents

\* '\\', '\n', "'" and 'x'.
Bsl == 92
Lf == 10
Quote == 39
X == 120
Chars == {Bsl, X, 49, 98, 110, 101, Quote, Lf}

ASSUME InputsAssumption == Inputs \subseteq Seq(Chars) /\ Inputs # {}

\* [0-7] and [0-9a-f] over the alphabet, with their values.
Octal == {49}
HexVal == [c \in {49, 98, 101} |-> CASE c = 49 -> 1 [] c = 98 -> 11 [] c = 101 -> 14]
\* \a \b \f \n \r \t and the character each stands for.
Named == [c \in {97, 98, 102, 110, 114, 116} |->
            CASE c = 97 -> 7 [] c = 98 -> 8 [] c = 102 -> 12
              [] c = 110 -> 10 [] c = 114 -> 13 [] c = 116 -> 9]

VARIABLES
  text,      \* the text being unescaped
  escape,    \* 'string_escape' in self.options
  p,         \* where regex.sub searches next
  out,       \* the result so far
  pc,        \* "scan", "done" or "error"
  err        \* the exception raised (or "none")

vars == << text, escape, p, out, pc, err >>

-----------------------------------------------------------------------------
\* The longest run (at most n) of characters of S from position q on.
Run(t, q, S, n) ==
  CHOOSE r \in 0..n : (\A j \in q..q + r - 1 : j <= Len(t) /\ t[j] \in S)
                      /\ (r = n \/ q + r > Len(t) \/ t[q + r] \notin S)

\* Mutant: x[0-9a-f]{1} -- one hex digit only.
GroupAtOneHex(t, q) ==
  IF q <= Len(t) /\ t[q] = Bsl THEN << Bsl >>
  ELSE IF q <= Len(t) /\ t[q] \in Octal THEN SubSeq(t, q, q + Run(t, q, Octal, 3) - 1)
  ELSE IF q < Len(t) /\ t[q] = X /\ t[q + 1] \in DOMAIN HexVal
       THEN SubSeq(t, q, q + 1)
  ELSE IF q <= Len(t) /\ t[q] # Lf THEN << t[q] >>
  ELSE IF q = Len(t) + 1 \/ (q = Len(t) /\ t[q] = Lf) THEN << >>
  ELSE "none"

(***************************************************************************)
(* The alternatives of '\\(\\|[0-7]{1,3}|x[0-9a-f]{1,2}|['"abfnrt]|.|$)'  *)
(* in their order, at the backslash at q - 1: the group b matched, or      *)
(* "none" when no alternative matches ('.' stops at a newline, '$' matches *)
(* at the end and before a final newline).  ['"abfnrt] and '.' both match *)
(* one character.                                                          *)
(***************************************************************************)
GroupAt(t, q) ==
  IF q <= Len(t) /\ t[q] = Bsl THEN << Bsl >>
  ELSE IF q <= Len(t) /\ t[q] \in Octal THEN SubSeq(t, q, q + Run(t, q, Octal, 3) - 1)
  ELSE IF q < Len(t) /\ t[q] = X /\ t[q + 1] \in DOMAIN HexVal
       THEN SubSeq(t, q, q + Run(t, q + 1, DOMAIN HexVal, 2))
  ELSE IF q <= Len(t) /\ t[q] # Lf THEN << t[q] >>
  ELSE IF q = Len(t) + 1 \/ (q = Len(t) /\ t[q] = Lf) THEN << >>
  ELSE "none"

\* int(s, 16) for one or two hex digits.
HexValue(s) == IF Len(s) = 1 THEN HexVal[s[1]] ELSE 16 * HexVal[s[1]] + HexVal[s[2]]

(***************************************************************************)
(* replace(m): what it returns, or the exception it raises.  b[0] >= '0'   *)
(* compares strings; b[0] <= 7 then compares a str with an int, a          *)
(* TypeError under Python 3.  int('', 16) is a ValueError, and a value     *)
(* outside ASCII fails .decode('ascii').                                  *)
(***************************************************************************)
Replace(b) ==
  IF Len(b) = 0 THEN [err |-> "ValueError"]
  ELSE IF b[1] \in DOMAIN Named THEN [res |-> << Named[b[1]] >>]
  ELSE IF b[1] = X /\ Len(b) = 1 THEN [err |-> "ValueError"]
  ELSE IF b[1] = X /\ HexValue(Tail(b)) >= 128 THEN [err |-> "UnicodeDecodeError"]
  ELSE IF b[1] = X THEN [res |-> << HexValue(Tail(b)) >>]
  ELSE IF b[1] >= 48 THEN [err |-> "TypeError"]
  ELSE [res |-> b]

\* The match at p, if one starts there.
Matches == p <= Len(text) /\ text[p] = Bsl /\ GroupAt(text, p + 1) # "none"
Outcome == Replace(GroupAt(text, p + 1))

\* text = '\n'.join(self.content), unescaped under :string_escape:.
Init ==
  /\ text \in Inputs
  /\ escape \in BOOLEAN
  /\ p = 1
  /\ out = << >>
  /\ pc = IF escape THEN "scan" ELSE "done"
  /\ err = "none"

\* No match starts at p: the character is copied.
Copy ==
  /\ pc = "scan"
  /\ p <= Len(text)
  /\ ~Matches
  /\ out' = Append(out, text[p])
  /\ p' = p + 1
  /\ UNCHANGED << text, escape, pc, err >>

\* Mutant: the search resumes one character past the end of the match.
SubstitutePastMatch ==
  /\ pc = "scan"
  /\ Matches
  /\ "res" \in DOMAIN Outcome
  /\ out' = out \o Outcome.res
  /\ p' = p + 2 + Len(GroupAt(text, p + 1))
  /\ UNCHANGED << text, escape, pc, err >>

\* A match: its replacement is appended and the search goes on after it.
Substitute ==
  /\ pc = "scan"
  /\ Matches
  /\ "res" \in DOMAIN Outcome
  /\ out' = out \o Outcome.res
  /\ p' = p + 1 + Len(GroupAt(text, p + 1))
  /\ UNCHANGED << text, escape, pc, err >>

\* replace raises: the exception leaves run.
SubstituteRaises ==
  /\ pc = "scan"
  /\ Matches
  /\ "err" \in DOMAIN Outcome
  /\ pc' = "error"
  /\ err' = Outcome.err
  /\ UNCHANGED << text, escape, p, out >>

\* The search passes the end of the text: ansi_literal_block(text, text)
\* is returned.
Finish ==
  /\ pc = "scan"
  /\ p > Len(text)
  /\ pc' = "done"
  /\ UNCHANGED << text, escape, p, out, err >>

Next == Copy \/ Substitute \/ SubstituteRaises \/ Finish

Spec == Init /\ [][Next]_vars

-----------------------------------------------------------------------------
\* The block the directive returns.
Result == IF escape THEN out ELSE text

TypeOK ==
  /\ text \in Inputs
  /\ escape \in BOOLEAN
  /\ p \in 1..Len(text) + 1
  /\ out \in Seq(Nat)
  /\ pc \in {"scan", "done", "error"}
  /\ err \in {"none", "ValueError", "TypeError", "UnicodeDecodeError"}

(***************************************************************************)
(* The decoding the docstring ('decoded using string-escape') and the     *)
(* spec describe: \xNN and octal \NNN give the character of that code, \a *)
(* \b \f \n \r \t their control characters, any other escaped character   *)
(* stands for itself (the backslash dropped, so \\ is one backslash).  It *)
(* is the set of its results: empty where it is undefined or where an     *)
(* escape is not in Allowed, or a \x value is above MaxCode.               *)
(***************************************************************************)
OctValue(s) == LET v[j \in 0..Len(s)] == IF j = 0 THEN 0 ELSE 8 * v[j - 1] + (s[j] - 48)
               IN  v[Len(s)]
Cons(s, S) == {s \o r : r \in S}
Decodings(t, Allowed, MaxCode) ==
  LET d[i \in 1..Len(t) + 1] ==
        IF i > Len(t) THEN {<< >>}
        ELSE IF t[i] # Bsl THEN Cons(<< t[i] >>, d[i + 1])
        ELSE IF i = Len(t) \/ t[i + 1] \notin Allowed \/ t[i + 1] = Lf THEN {}
        ELSE IF t[i + 1] = X
             THEN LET h == Run(t, i + 2, DOMAIN HexVal, 2)
                      v == HexValue(SubSeq(t, i + 2, i + 1 + h))
                  IN  IF h = 0 \/ v > MaxCode THEN {} ELSE Cons(<< v >>, d[i + 2 + h])
        ELSE IF t[i + 1] \in Octal
             THEN LET r == Run(t, i + 1, Octal, 3)
                  IN  Cons(<< OctValue(SubSeq(t, i + 1, i + r)) >>, d[i + 1 + r])
        ELSE IF t[i + 1] \in DOMAIN Named THEN Cons(<< Named[t[i + 1]] >>, d[i + 2])
        ELSE Cons(<< t[i + 1] >>, d[i + 2])
  IN  d[1]

\* The escapes the Python 3 branch handles: \b, \n, \', and \x below 128.
Handled == {98, 110, Quote, X}

\* The text ends in a backslash no other one escapes (escapes consume no
\* backslash after their own).
EndsInLoneBackslash(t) ==
  \E r \in 1..Len(t) : r % 2 = 1 /\ (\A j \in Len(t) - r + 1..Len(t) : t[j] = Bsl)
                      /\ (r = Len(t) \/ t[Len(t) - r] # Bsl)

(***************************************************************************)
(* With :string_escape:, a text whose escapes are all \b, \n, \' and \xNN  *)
(* below 128 is decoded as string-escape decodes it, and a text ending in  *)
(* a lone backslash after such escapes raises ValueError (the regex       *)
(* alternation, its greedy repetitions and replace of unescape).          *)
(***************************************************************************)
HandledEscapesDecode ==
  (escape /\ pc # "scan") =>
    /\ Decodings(text, Handled, 127) # {} =>
         pc = "done" /\ Result \in Decodings(text, Handled, 127)
    /\ (EndsInLoneBackslash(text) /\ Decodings(SubSeq(text, 1, Len(text) - 1), Handled, 127) # {}) =>
         pc = "error" /\ err = "ValueError"

(***************************************************************************)
(* With :string_escape:, every text string-escape decodes is decoded the   *)
(* same way: \\, octal escapes, other escaped letters and every \xNN       *)
(* included (the docstring and the spec).                                  *)
(***************************************************************************)
EscapesDecode ==
  (escape /\ pc # "scan" /\ Decodings(text, Chars, 255) # {}) =>
    pc = "done" /\ Result \in Decodings(text, Chars, 255)

====
