------------------------------ MODULE ModIndex ------------------------------
(***************************************************************************)
(* HakaModuleIndex.generate of src/doc/domain/haka.py: the module index    *)
(* built from domaindata['haka']['modules'].  The modules are sorted by    *)
(* name; each one loses the longest common prefix of                       *)
(* modindex_common_prefix it starts with, goes to the bucket of its first  *)
(* letter, and is listed top-level (subtype 0) or as a submodule (subtype  *)
(* 2) under a group head (subtype 1): its package's entry, or a dummy      *)
(* entry when the package is not listed before it.                         *)
(*                                                                         *)
(* Names are sequences of lower-case characters ('.' and '-' included);    *)
(* synopsis, platforms, the deprecated qualifier and the 'module-' anchor  *)
(* are copied from the registry and left out.                              *)
(***************************************************************************)
EXTENDS Naturals, Sequences, SequencesExt

CONSTANTS
  Docs,       \* document names
  NoDoc,      \* the '' docname of a dummy entry
  Registries, \* the 'modules' dicts to index: module name -> docname
  PrefixSettings    \* the modindex_common_prefix settings

\* Python orders these characters by code point: '-' < '.' < letters.
CharRank == [c \in {"-", ".", "a", "b"} |-> CASE c = "-" -> 45 [] c = "." -> 46
                                              [] c = "a" -> 97 [] c = "b" -> 98]
Chars == DOMAIN CharRank

ASSUME RegistriesAssumption ==
  \A r \in Registries :
    /\ IsFiniteSet(DOMAIN r)
    /\ \A n \in DOMAIN r : n \in Seq(Chars) \ {<< >>} /\ r[n] \in Docs
ASSUME PrefixesAssumption == \A p \in PrefixSettings : p \in Seq(Seq(Chars) \ {<< >>})
ASSUME NoDocAssumption == NoDoc \notin Docs

VARIABLES
  mods,      \* self.domain.data['modules']
  docnames,  \* the docnames argument ({} for None)
  ignores,   \* the prefixes, longest first
  order,     \* the module names, sorted
  i,         \* the next module of the for loop
  prev,      \* prev_modname
  numTop,    \* num_toplevels
  content,   \* first letter -> its entries
  collapse,  \* the collapse flag returned
  pc         \* "loop", "done" or "error" (IndexError raised)

vars == << mods, docnames, ignores, order, i, prev, numTop, content, collapse, pc >>

-----------------------------------------------------------------------------
\* Python's < on strings.
StrLess(s, t) ==
  \E n \in 0..Len(s) :
    /\ n <= Len(t)
    /\ SubSeq(s, 1, n) = SubSeq(t, 1, n)
    /\ \/ n = Len(s) /\ n < Len(t)
       \/ n < Len(s) /\ n < Len(t) /\ CharRank[s[n + 1]] < CharRank[t[n + 1]]

(***************************************************************************)
(* sorted(ignores, key=len, reverse=True): Python's sort is stable, so     *)
(* the result lists the prefixes longest first, and prefixes of equal      *)
(* length in their given order.  The enumerations f of p's positions in    *)
(* that order (there is exactly one).                                      *)
(***************************************************************************)
ByLenDesc(p) ==
  { [n \in 1..Len(p) |-> p[f[n]]] :
      f \in { f \in [1..Len(p) -> 1..Len(p)] :
               \A a, b \in 1..Len(p) :
                 a < b => \/ Len(p[f[a]]) > Len(p[f[b]])
                          \/ Len(p[f[a]]) = Len(p[f[b]]) /\ f[a] < f[b] } }

\* sorted(modules, key=name): the enumerations of the names in increasing
\* order (exactly one, as StrLess orders distinct names).
SortedNames(D) ==
  { s \in [1..Cardinality(D) -> D] :
      \A a, b \in 1..Cardinality(D) : a < b => StrLess(s[a], s[b]) }

\* The first prefix of 'ignores' that m starts with (0: none).
FirstIgnore(ig, m) ==
  IF \E j \in 1..Len(ig) : IsPrefix(ig[j], m)
  THEN CHOOSE j \in 1..Len(ig) : IsPrefix(ig[j], m) /\ \A h \in 1..j - 1 : ~IsPrefix(ig[h], m)
  ELSE 0

\* 'stripped' and the remaining modname, with the swap back when the whole
\* name was stripped.
Stripped(ig, m) ==
  LET j == FirstIgnore(ig, m)
  IN  IF j = 0 \/ ig[j] = m THEN << >> ELSE ig[j]
ShortName(ig, m) == SubSeq(m, Len(Stripped(ig, m)) + 1, Len(m))

\* modname.split('.')[0]
Package(n) ==
  IF \E j \in 1..Len(n) : n[j] = "."
  THEN SubSeq(n, 1, (CHOOSE j \in 1..Len(n) : n[j] = "." /\ \A h \in 1..j - 1 : n[h] # ".") - 1)
  ELSE n

\* content.setdefault(letter, []) and the entries appended to it.
Bucket(c, l) == IF l \in DOMAIN c THEN c[l] ELSE << >>
SetBucket(c, l, es) == [x \in DOMAIN c \cup {l} |-> IF x = l THEN es ELSE c[x]]

Entry(name, subtype, doc) == [name |-> name, subtype |-> subtype, doc |-> doc]
\* entries[-1][1] = 1: the entry becomes a group head.
GroupHead(e) == Entry(e.name, 1, e.doc)

Init ==
  /\ mods \in Registries
  /\ docnames \in SUBSET Docs
  /\ \E p \in PrefixSettings : ignores \in ByLenDesc(p)
  /\ order \in SortedNames(DOMAIN mods)
  /\ i = 1
  /\ prev = << >>
  /\ numTop = 0
  /\ content = [x \in {} |-> << >>]
  /\ collapse = FALSE
  /\ pc = "loop"

\* The module being listed, its short name and its bucket's entries.
Cur == order[i]
Short == ShortName(ignores, Cur)
Listed == Bucket(content, Short[1])

\* A module of a document not in docnames is skipped.
Skip ==
  /\ pc = "loop"
  /\ i <= Len(order)
  /\ docnames # {} /\ mods[Cur] \notin docnames
  /\ i' = i + 1
  /\ UNCHANGED << mods, docnames, ignores, order, prev, numTop, content, collapse, pc >>

\* The entry of the current module closes an iteration of the loop.
Listing ==
  /\ pc = "loop"
  /\ i <= Len(order)
  /\ docnames = {} \/ mods[Cur] \in docnames
  /\ prev' = Short
  /\ i' = i + 1
  /\ UNCHANGED << mods, docnames, ignores, order, collapse, pc >>

\* Mutant: the entry is named without the prefix stripped from it.
ListTopLevelUnstripped ==
  /\ Listing
  /\ Package(Short) = Short
  /\ numTop' = numTop + 1
  /\ content' = SetBucket(content, Short[1], Append(Listed, Entry(Short, 0, mods[Cur])))

ListTopLevel ==
  /\ Listing
  /\ Package(Short) = Short
  /\ numTop' = numTop + 1
  /\ content' = SetBucket(content, Short[1],
                  Append(Listed, Entry(Stripped(ignores, Cur) \o Short, 0, mods[Cur])))

\* The first submodule after its package: the package's entry becomes the
\* group head (entries[-1][1] = 1).
ListFirstSubmodule ==
  /\ Listing
  /\ Package(Short) # Short
  /\ prev = Package(Short)
  /\ Listed # << >>
  /\ content' = SetBucket(content, Short[1],
                  Append([Listed EXCEPT ![Len(Listed)] = GroupHead(Listed[Len(Listed)])],
                         Entry(Stripped(ignores, Cur) \o Short, 2, mods[Cur])))
  /\ UNCHANGED numTop

\* entries[-1] of an empty bucket: prev_modname is still '' and the
\* stripped name starts with '.', so its package is ''.
ListFirstSubmoduleIndexError ==
  /\ pc = "loop"
  /\ i <= Len(order)
  /\ docnames = {} \/ mods[Cur] \in docnames
  /\ Package(Short) # Short
  /\ prev = Package(Short)
  /\ Listed = << >>
  /\ pc' = "error"
  /\ UNCHANGED << mods, docnames, ignores, order, i, prev, numTop, content, collapse >>

\* A submodule whose package is not before it: a dummy group head first.
ListOrphanSubmodule ==
  /\ Listing
  /\ Package(Short) # Short
  /\ prev # Package(Short)
  /\ ~IsPrefix(Package(Short), prev)
  /\ content' = SetBucket(content, Short[1],
                  Listed \o << Entry(Stripped(ignores, Cur) \o Package(Short), 1, NoDoc),
                               Entry(Stripped(ignores, Cur) \o Short, 2, mods[Cur]) >>)
  /\ UNCHANGED numTop

\* A later submodule of the same group (prev_modname starts with the package).
ListNextSubmodule ==
  /\ Listing
  /\ Package(Short) # Short
  /\ prev # Package(Short)
  /\ IsPrefix(Package(Short), prev)
  /\ content' = SetBucket(content, Short[1],
                  Append(Listed, Entry(Stripped(ignores, Cur) \o Short, 2, mods[Cur])))
  /\ UNCHANGED numTop

\* collapse = len(modules) - num_toplevels < num_toplevels
Finish ==
  /\ pc = "loop"
  /\ i > Len(order)
  /\ collapse' = (Len(order) - numTop < numTop)
  /\ pc' = "done"
  /\ UNCHANGED << mods, docnames, ignores, order, i, prev, numTop, content >>

Next ==
  \/ Skip
  \/ ListTopLevel
  \/ ListFirstSubmodule
  \/ ListFirstSubmoduleIndexError
  \/ ListOrphanSubmodule
  \/ ListNextSubmodule
  \/ Finish

Spec == Init /\ [][Next]_vars

-----------------------------------------------------------------------------
\* The places (letter, index) of the index entries that name module m and
\* link to a document (dummy group heads have none).
Hits(m) == {h \in (DOMAIN content) \X (1..2 * Len(order)) :
              /\ h[2] <= Len(content[h[1]])
              /\ content[h[1]][h[2]].name = m
              /\ content[h[1]][h[2]].doc # NoDoc}

(***************************************************************************)
(* The index lists each module of the selected documents exactly once,     *)
(* under its full name (the stripped prefix put back) and with its         *)
(* document, and no module of another document.                           *)
(***************************************************************************)
EveryModuleListed ==
  pc = "done" =>
    \A m \in DOMAIN mods :
      IF docnames = {} \/ mods[m] \in docnames
      THEN /\ Cardinality(Hits(m)) = 1
           /\ \A h \in Hits(m) : content[h[1]][h[2]].doc = mods[m]
      ELSE Hits(m) = {}

(***************************************************************************)
(* Every submodule entry sits in the group of its parent package: the      *)
(* nearest entry above it that is no submodule is a group head whose name, *)
(* followed by '.', starts the submodule's name.                          *)
(***************************************************************************)
SubmodulesUnderPackage ==
  pc = "done" =>
    \A l \in DOMAIN content : \A j \in 1..Len(content[l]) :
      content[l][j].subtype = 2 =>
        \E h \in 1..j - 1 :
          /\ content[l][h].subtype = 1
          /\ IsPrefix(content[l][h].name \o << "." >>, content[l][j].name)
          /\ \A g \in h + 1..j - 1 : content[l][g].subtype = 2

(***************************************************************************)
(* generate returns for every registry and every modindex_common_prefix.   *)
(***************************************************************************)
IndexNeverRaises == pc # "error"

\* The listed entries with a document: top-level (0, or 1 once a group
\* head) and submodules (2).
ListedOf(types) ==
  {h \in (DOMAIN content) \X (1..2 * Len(order)) :
     /\ h[2] <= Len(content[h[1]])
     /\ content[h[1]][h[2]].subtype \in types
     /\ content[h[1]][h[2]].doc # NoDoc}

(***************************************************************************)
(* The comment of lines 411-413: the index is collapsed only if the top-  *)
(* level modules listed outnumber the submodules listed.  Violated:       *)
(* len(modules) also counts the modules of documents outside docnames.  *)
(***************************************************************************)
CollapseAsCommented ==
  pc = "done" =>
    (collapse <=> Cardinality(ListedOf({2})) < Cardinality(ListedOf({0, 1})))

====
