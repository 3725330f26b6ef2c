---------------------------- MODULE AnsiScanner ----------------------------
(***************************************************************************)
(* The data layer of src/external/sphinx-contrib/ansi.py: the character    *)
(* alphabet of an ANSI block, the pattern COLOR_PATTERN and how re.finditer *)
(* and re.sub walk it, the parsing of a match's code list, and the table   *)
(* CODE_CLASS_MAP.                                                          *)
(*                                                                         *)
(* A block's text is a sequence of characters over a small alphabet: the   *)
(* escape character, the characters the pattern names ("[" and "m"), the   *)
(* separator ";", three digits, and "x", which stands for every other      *)
(* character (one on which Python's int() fails: not a digit, a sign, an   *)
(* underscore or white space).  Three digits are enough to spell a reset   *)
(* (0), known codes (1, 30, 31, 33) and unknown ones (3, 10, 13, ...), and *)
(* a 0 that is not last is unknown too (KeyError).                         *)
(*                                                                         *)
(* No RECURSIVE operator: recursion is written as recursive functions, so  *)
(* that the modules built on this one stay within TLAPS's reach.           *)
(***************************************************************************)
EXTENDS Naturals, Sequences, FiniteSets

ESC == "ESC"
Digits == {"0", "1", "3"}
Chars == {ESC, "[", "m", ";", "x"} \cup Digits

DigitVal == [d \in Digits |-> IF d = "0" THEN 0 ELSE IF d = "1" THEN 1 ELSE 3]

(***************************************************************************)
(* CODE_CLASS_MAP: SGR code -> class name.  The code renders the class as  *)
(* 'ansi-' followed by the name; the prefix is layout and left out.        *)
(***************************************************************************)
CodeClassMap ==
  [c \in {1, 4} \cup 30..37 \cup 40..47 |->
     CASE c = 1 -> "bold"
       [] c = 4 -> "underscore"
       [] c = 30 -> "black"   [] c = 31 -> "red"
       [] c = 32 -> "green"   [] c = 33 -> "yellow"
       [] c = 34 -> "blue"    [] c = 35 -> "magenta"
       [] c = 36 -> "cyan"    [] c = 37 -> "white"
       [] c = 40 -> "bg_black"   [] c = 41 -> "bg_red"
       [] c = 42 -> "bg_green"   [] c = 43 -> "bg_yellow"
       [] c = 44 -> "bg_blue"    [] c = 45 -> "bg_magenta"
       [] c = 46 -> "bg_cyan"    [] c = 47 -> "bg_white"]

ClassNames == {CodeClassMap[c] : c \in DOMAIN CodeClassMap}

-----------------------------------------------------------------------------
(***************************************************************************)
(* COLOR_PATTERN = '\x1b\[([^m]+)m'.  A match starts at i when s[i] is the *)
(* escape character and s[i+1] is "[", and [^m]+ is followed by "m".  As   *)
(* [^m] excludes "m", the greedy [^m]+ ends just before the first "m"      *)
(* after i+1, and it must not be empty.  [^m] matches every other          *)
(* character: newlines, "[", ";", letters and further escape characters.   *)
(***************************************************************************)
IsMatchAt(s, i) ==
  /\ i + 2 <= Len(s)
  /\ s[i] = ESC
  /\ s[i + 1] = "["
  /\ s[i + 2] # "m"
  /\ \E k \in i + 3 .. Len(s) : s[k] = "m"

\* The index of the closing "m" of the match that starts at i.
MatchEnd(s, i) ==
  CHOOSE k \in i + 3 .. Len(s) : s[k] = "m" /\ \A j \in i + 2 .. k - 1 : s[j] # "m"

\* finditer resumes the search at position p (the end of the last match).
HasMatchFrom(s, p) == \E i \in p .. Len(s) : IsMatchAt(s, i)

NextMatchStart(s, p) ==
  CHOOSE i \in p .. Len(s) : IsMatchAt(s, i) /\ \A j \in p .. i - 1 : ~IsMatchAt(s, j)

\* match.group(1): the characters between "[" and "m".
Group(s, i) == SubSeq(s, i + 2, MatchEnd(s, i) - 1)

(***************************************************************************)
(* The whole list of matches re.finditer yields, left to right and         *)
(* non-overlapping: each search resumes after the previous match.          *)
(***************************************************************************)
MatchList(s) ==
  LET ml[p \in 1 .. Len(s) + 1] ==
        IF HasMatchFrom(s, p)
        THEN LET i == NextMatchStart(s, p)
             IN  <<[start |-> i, end |-> MatchEnd(s, i)]>> \o ml[MatchEnd(s, i) + 1]
        ELSE << >>
  IN  ml[1]

\* The positions of s that some match covers.
Covered(s) == UNION {m.start .. m.end : m \in {MatchList(s)[n] : n \in DOMAIN MatchList(s)}}

(***************************************************************************)
(* COLOR_PATTERN.sub('', s): every match removed, every other character    *)
(* kept in order.                                                          *)
(***************************************************************************)
Strip(s) ==
  LET kept == SelectSeq([j \in 1 .. Len(s) |-> j], LAMBDA j : j \notin Covered(s))
  IN  [n \in 1 .. Len(kept) |-> s[kept[n]]]

-----------------------------------------------------------------------------
(***************************************************************************)
(* codes = [int(c) for c in match.group(1).split(';')].  The pieces of a   *)
(* group are its maximal runs without ";" (empty ones included, as split   *)
(* returns them).  int() accepts a piece iff it is a non-empty run of      *)
(* digits over this alphabet.                                              *)
(***************************************************************************)
Pieces(g) ==
  LET runs == { r \in (1 .. Len(g) + 1) \X (0 .. Len(g)) :
                  /\ r[1] <= r[2] + 1
                  /\ r[1] = 1 \/ g[r[1] - 1] = ";"
                  /\ r[2] = Len(g) \/ g[r[2] + 1] = ";"
                  /\ \A j \in r[1] .. r[2] : g[j] # ";" }
  IN  {SubSeq(g, r[1], r[2]) : r \in runs}

\* codes[-1]: the piece after the last ";".
LastPiece(g) ==
  LET semis == {j \in 1 .. Len(g) : g[j] = ";"}
      last  == IF semis = {} THEN 0 ELSE CHOOSE j \in semis : \A k \in semis : k <= j
  IN  SubSeq(g, last + 1, Len(g))

IsInt(p) == Len(p) > 0 /\ \A j \in 1 .. Len(p) : p[j] \in Digits

\* int(p) for a piece that IsInt accepts.
Val(p) ==
  LET v[n \in 0 .. Len(p)] == IF n = 0 THEN 0 ELSE 10 * v[n - 1] + DigitVal[p[n]]
  IN  v[Len(p)]

\* The list comprehension on line 133 raises ValueError.
CodesUnparsable(g) == \E p \in Pieces(g) : ~IsInt(p)

\* codes[-1] == 0: the sequence is a reset, whatever the earlier codes are.
IsReset(g) == Val(LastPiece(g)) = 0

\* CODE_CLASS_MAP[code] raises KeyError for some code of an opening sequence.
HasUnknownCode(g) == \E p \in Pieces(g) : Val(p) \notin DOMAIN CodeClassMap

\* The class names of a new inline node; their order in the class
\* attribute does not change the rendering, so they are kept as a set.
ClassesOf(g) == {CodeClassMap[Val(p)] : p \in Pieces(g)}

\* The sequence raises an exception when the styling path reaches it.
IsBadMatch(g) == CodesUnparsable(g) \/ (~IsReset(g) /\ HasUnknownCode(g))

=============================================================================
