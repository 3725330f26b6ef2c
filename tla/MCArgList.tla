----------------------------- MODULE MCArgList ------------------------------
EXTENDS ArgList

\* Every argument list of up to MaxLen characters with at most one name
\* character per argument.
MaxLen == 7
OneNamePerArg(s) == \A j \in 1..NumArgs(s) : Cardinality({i \in 1..Len(Arg(s, j)) : Arg(s, j)[i] = "x"}) <= 1
MCInputs == {s \in UNION {[1..n -> Chars] : n \in 1..MaxLen} : OneNamePerArg(s)}

\* Lists of named arguments in the nested or the sibling notation.
MCSiblingInputs ==
  {s \in MCInputs : \A j \in 1..NumArgs(s) :
     /\ "x" \in {Arg(s, j)[i] : i \in 1..Len(Arg(s, j))}
     /\ NestedNotation(Arg(s, j)) \/ SiblingNotation(Arg(s, j))}
====
