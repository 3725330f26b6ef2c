------------------------------ MODULE ArgList ------------------------------
(***************************************************************************)
(* _pseudo_parse_arglist of src/doc/domain/haka.py: the argument list of a *)
(* signature is split at every ',' and each argument's leading and         *)
(* trailing brackets open (push) and close (pop) desc_optional nodes on a  *)
(* stack whose bottom is the parameter list.                               *)
(*                                                                         *)
(* An argument list is a string over '[', ']', ',' and x, where x stands   *)
(* for any character of a parameter name.  Blanks are left out: every     *)
(* loop strips the argument again, so a blank next to a bracket changes    *)
(* nothing.  Node 0 is the parameter list, node i > 0 the i-th             *)
(* desc_optional created.                                                  *)
(***************************************************************************)
EXTENDS Naturals, Sequences, FiniteSets

CONSTANT Inputs   \* the argument lists a signature may carry

Chars == {"[", "]", ",", "x"}

ASSUME InputsAssumption == Inputs \subseteq Seq(Chars) \ {<< >>} /\ Inputs # {}

VARIABLES
  arglist,   \* the argument list being parsed
  k,         \* the next argument of arglist.split(',')
  stack,     \* the stack: node ids, the parameter list at the bottom
  parent,    \* parent[i]: the node desc_optional i was added to
  params,    \* the desc_parameter nodes: name, node, position in arglist
  pc         \* "loop", "done" or "error" (IndexError raised)

vars == << arglist, k, stack, parent, params, pc >>

-----------------------------------------------------------------------------
\* arglist.split(','): the cut points and the k-th argument with its offset.
Commas(s) == {i \in 1..Len(s) : s[i] = ","}
NumArgs(s) == Cardinality(Commas(s)) + 1
\* Position of the j-th comma, 0 before the first argument, Len + 1 after the last.
Cut(s, j) ==
  IF j = 0 THEN 0
  ELSE IF j = NumArgs(s) THEN Len(s) + 1
  ELSE CHOOSE i \in Commas(s) : Cardinality({c \in Commas(s) : c <= i}) = j
Arg(s, j) == SubSeq(s, Cut(s, j - 1) + 1, Cut(s, j) - 1)
ArgStart(s, j) == Cut(s, j - 1) + 1

\* How many times 'while argument.startswith(c)' / 'endswith(c)' loops.
Lead(a, c) == CHOOSE n \in 0..Len(a) :
                (\A i \in 1..n : a[i] = c) /\ (n = Len(a) \/ a[n + 1] # c)
Trail(a, c) == CHOOSE n \in 0..Len(a) :
                 (\A i \in 1..n : a[Len(a) - i + 1] = c) /\ (n = Len(a) \/ a[Len(a) - n] # c)
DropHead(a, n) == SubSeq(a, n + 1, Len(a))
DropTail(a, n) == SubSeq(a, 1, Len(a) - n)

\* Mutant: the trailing '[' loop runs before the trailing ']' loop.
ScanEndsSwapped(a) ==
  LET opens  == Lead(a, "[")
      r1     == DropHead(a, opens)
      closes == Lead(r1, "]")
      r2     == DropHead(r1, closes)
      endsOpen == Trail(r2, "[")
      r3     == DropTail(r2, endsOpen)
      endsClose == Trail(r3, "]")
  IN  [opens |-> opens, closes |-> closes, endsClose |-> endsClose,
       endsOpen |-> endsOpen, name |-> DropTail(r3, endsClose)]

(***************************************************************************)
(* The four while loops in their order: leading '[' (opens), then leading  *)
(* ']' (pops), then trailing ']' counted in ends_close, then trailing '['  *)
(* counted in ends_open; what is left is the parameter name.               *)
(***************************************************************************)
Scan(a) ==
  LET opens  == Lead(a, "[")
      r1     == DropHead(a, opens)
      closes == Lead(r1, "]")
      r2     == DropHead(r1, closes)
      endsClose == Trail(r2, "]")
      r3     == DropTail(r2, endsClose)
      endsOpen == Trail(r3, "[")
  IN  [opens |-> opens, closes |-> closes, endsClose |-> endsClose,
       endsOpen |-> endsOpen, name |-> DropTail(r3, endsOpen)]

\* Mutant: every new node is added to the node that was on top before the
\* pushes.
ChainFlat(top, first, n) == [i \in 1..n |-> top]
\* stack.append(desc_optional()); stack[-2] += stack[-1], n times from node
\* 'first' on: each new node is added to the node below it.
Chain(top, first, n) == [i \in 1..n |-> IF i = 1 THEN top ELSE first + i - 2]
\* Mutant: the new nodes are numbered from one past the next free id.
NewIdsAhead(first, n) == [i \in 1..n |-> first + i]
NewIds(first, n) == [i \in 1..n |-> first + i - 1]
Pop(s, n) == SubSeq(s, 1, Len(s) - n)
Top(s) == s[Len(s)]

Init ==
  /\ arglist \in Inputs
  /\ k = 1
  /\ stack = << 0 >>
  /\ parent = << >>
  /\ params = << >>
  /\ pc = "loop"

(***************************************************************************)
(* One iteration of 'for argument in arglist.split(',')' whose stack      *)
(* operations all find the stack as they need it: a push finds a node to   *)
(* add to (stack[-2]), a pop and the parameter's stack[-1] find a node.    *)
(* S1 to S4 are the stack after each group of operations.                  *)
(***************************************************************************)
ArgumentFits(sc, S) ==
  LET S1 == S \o NewIds(Len(parent) + 1, sc.opens)
      S2 == Pop(S1, sc.closes)
  IN  /\ (sc.opens > 0 => Len(S) > 0)
      /\ sc.closes <= Len(S1)
      /\ sc.name # << >> => /\ Len(S2) > 0
                            /\ sc.endsClose <= Len(S2) + sc.endsOpen

ParseArgument ==
  /\ pc = "loop"
  /\ k <= NumArgs(arglist)
  /\ LET sc == Scan(Arg(arglist, k))
         n0 == Len(parent)
         S1 == stack \o NewIds(n0 + 1, sc.opens)
         S2 == Pop(S1, sc.closes)
         n1 == n0 + sc.opens
     IN  /\ ArgumentFits(sc, stack)
         /\ IF sc.name = << >>
            THEN /\ stack' = S2
                 /\ parent' = parent \o Chain(Top(stack), n0 + 1, sc.opens)
                 /\ UNCHANGED params
            ELSE /\ params' = Append(params,
                                [name |-> sc.name, node |-> Top(S2),
                                 pos |-> ArgStart(arglist, k) + sc.opens + sc.closes])
                 /\ parent' = parent \o Chain(Top(stack), n0 + 1, sc.opens)
                                     \o Chain(Top(S2), n1 + 1, sc.endsOpen)
                 /\ stack' = Pop(S2 \o NewIds(n1 + 1, sc.endsOpen), sc.endsClose)
  /\ k' = k + 1
  /\ UNCHANGED << arglist, pc >>

\* Some stack operation of the iteration meets an empty stack: IndexError.
ParseArgumentIndexError ==
  /\ pc = "loop"
  /\ k <= NumArgs(arglist)
  /\ ~ArgumentFits(Scan(Arg(arglist, k)), stack)
  /\ pc' = "error"
  /\ UNCHANGED << arglist, k, stack, parent, params >>

\* 'if len(stack) != 1: raise IndexError', else signode += paramlist.
Finish ==
  /\ pc = "loop"
  /\ k > NumArgs(arglist)
  /\ pc' = IF Len(stack) = 1 THEN "done" ELSE "error"
  /\ UNCHANGED << arglist, k, stack, parent, params >>

Next == ParseArgument \/ ParseArgumentIndexError \/ Finish

Spec == Init /\ [][Next]_vars

-----------------------------------------------------------------------------
TypeOK ==
  /\ arglist \in Inputs
  /\ k \in 1..NumArgs(arglist) + 1
  /\ stack \in Seq(0..Len(parent))
  /\ parent \in Seq(Nat)
  /\ params \in Seq([name : Seq(Chars), node : 0..Len(parent), pos : 1..Len(arglist)])
  /\ pc \in {"loop", "done", "error"}

(***************************************************************************)
(* stack[-2] += stack[-1] adds every new desc_optional to the node below   *)
(* it on the stack, and pops only remove the top: so the nodes form a tree *)
(* under the parameter list (each hangs under an earlier node), and the    *)
(* stack is always the path from the parameter list down to the innermost  *)
(* open group, the node a parameter is added to.                          *)
(***************************************************************************)
StackIsPath ==
  /\ \A i \in 1..Len(parent) : parent[i] < i
  /\ Len(stack) > 0 => stack[1] = 0
  /\ \A j \in 2..Len(stack) : parent[stack[j]] = stack[j - 1]

(***************************************************************************)
(* The nesting the brackets of a list give: Bal is '[' minus ']' over      *)
(* s[i..j]; the '[' at j is still open at i when no prefix of s[j..i-1]    *)
(* closes it; Group(s, i) is the innermost '[' open at i, numbered in the  *)
(* order of the string (0: none, the parameter list itself).              *)
(***************************************************************************)
Bal(s, i, j) == Cardinality({q \in i..j : s[q] = "["}) - Cardinality({q \in i..j : s[q] = "]"})
WellBracketed(s) == (\A i \in 1..Len(s) : Bal(s, 1, i) >= 0) /\ Bal(s, 1, Len(s)) = 0
OpenAt(s, j, i) == s[j] = "[" /\ \A q \in j..i - 1 : Bal(s, j, q) > 0
Ordinal(s, j) == Cardinality({q \in 1..j : s[q] = "["})
Group(s, i) ==
  IF \E j \in 1..i - 1 : OpenAt(s, j, i)
  THEN Ordinal(s, CHOOSE j \in 1..i - 1 : OpenAt(s, j, i) /\ \A m \in j + 1..i - 1 : ~OpenAt(s, m, i))
  ELSE 0

\* The depth of each node of the tree built: desc_optional i hangs under
\* parent[i] < i.
NodeDepth == LET d[i \in 0..Len(parent)] == IF i = 0 THEN 0 ELSE d[parent[i]] + 1 IN d

\* The parameters come out as the brackets place them: one parameter x per
\* name, as deep as the brackets open around it, and two parameters in the
\* same desc_optional exactly when the same bracket pair encloses them.
MatchesBrackets ==
  /\ Len(params) = Cardinality({i \in 1..Len(arglist) : arglist[i] = "x"})
  /\ \A p \in 1..Len(params) :
       /\ params[p].name = << "x" >>
       /\ NodeDepth[params[p].node] = Bal(arglist, 1, params[p].pos - 1)
  /\ \A p, q \in 1..Len(params) :
       params[p].node = params[q].node <=> Group(arglist, params[p].pos) = Group(arglist, params[q].pos)

Rep(c, n) == [i \in 1..n |-> c]

\* An argument in the notation of nested optionals, a[, b[, c]] or a, [b]:
\* opening brackets, at most one name, then '[' and ']' in that order.
NestedNotation(a) ==
  \E o, x, eo, ec \in 0..Len(a) :
    x <= 1 /\ a = Rep("[", o) \o Rep("x", x) \o Rep("[", eo) \o Rep("]", ec)

\* An argument of sibling optionals, a [, b] [, c]: ']' before '[' after the name.
SiblingNotation(a) ==
  \E o, x, ec, eo \in 0..Len(a) :
    x <= 1 /\ a = Rep("[", o) \o Rep("x", x) \o Rep("]", ec) \o Rep("[", eo)

(***************************************************************************)
(* For a list in the nested notation the parse raises IndexError exactly   *)
(* when its brackets do not balance, and otherwise builds the parameters   *)
(* where the brackets put them (the docstring: optional annotations given  *)
(* by enclosing arguments in brackets).                                   *)
(***************************************************************************)
NestedListsParse ==
  (pc # "loop" /\ \A j \in 1..NumArgs(arglist) : NestedNotation(Arg(arglist, j))) =>
    /\ pc = "done" <=> WellBracketed(arglist)
    /\ pc = "done" => MatchesBrackets

(***************************************************************************)
(* Every list whose brackets balance is parsed without IndexError, sibling *)
(* optionals a [, b] [, c] included.  Violated: the trailing ']' loop runs *)
(* before the trailing '[' loop, so 'b] [' keeps ']' in its name and opens *)
(* a group that is never closed.                                           *)
(***************************************************************************)
BalancedListsParse ==
  (pc # "loop" /\ WellBracketed(arglist)) => pc = "done"

(***************************************************************************)
(* A list the parse accepts has balanced brackets: every '[' it was given  *)
(* encloses something up to its ']'.  Violated: an argument with no name   *)
(* skips its trailing brackets (the 'if argument' of line 84), so '[]['   *)
(* is accepted as one empty group.                                         *)
(***************************************************************************)
AcceptedListsBalance ==
  pc = "done" => WellBracketed(arglist)

====
