----------------------------- MODULE MCModIndex -----------------------------
EXTENDS ModIndex, FiniteSets

CONSTANTS d1, d2, nodoc

MCDocs == {d1, d2}

\* Module names: a, b, a-b, a.b, a.a, b.a
A == << "a" >>
B == << "b" >>
AdashB == << "a", "-", "b" >>
AdotB == << "a", ".", "b" >>
AdotA == << "a", ".", "a" >>
BdotA == << "b", ".", "a" >>

\* Every registry over the names of one test: the documents they come from.
RegistriesOver(names) == UNION {[ns -> MCDocs] : ns \in SUBSET names}

MCRegistries == RegistriesOver({A, AdotB, AdotA, B, BdotA})
MCDashRegistries == RegistriesOver({A, AdashB, AdotB})

\* No prefix, the prefixes 'a.' and 'b.' together, and 'a' without its dot.
MCPrefixSettings == {<< >>, << << "a", "." >>, << "b", "." >> >>, << << "a" >> >>}
\* No modindex_common_prefix: the grouping alone, as the dash run needs it.
MCNoPrefixSettings == {<< >>}
====
