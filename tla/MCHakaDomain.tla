---------------------------- MODULE MCHakaDomain ----------------------------
(***************************************************************************)
(* Instances of HakaDomain for TLC: two documents, names over the segments *)
(* "a" and "b", and sources built from the directives below.  The sources  *)
(* make a module's name collide with an object's qualified name (module    *)
(* a.b and class b in module a), describe one module in two documents,     *)
(* nest a class in a class, and use :noindex: and a bad signature.         *)
(***************************************************************************)
EXTENDS HakaDomain

CONSTANTS d1, d2, nodoc

MCDocs == {d1, d2}

Mod(n, noidx) == [op |-> "module", name |-> n, noindex |-> noidx]
CurMod(n) == [op |-> "currentmodule", name |-> n]
Obj(t, n) == [op |-> "object", objtype |-> t, name |-> n]
End == [op |-> "end"]
Xref(role, t, sp) == [op |-> "xref", role |-> role, target |-> t, specific |-> sp]

\* module a; class b (a.b) with a reference to .b inside; a :mod: reference.
SrcModule == << Mod(<< "a" >>, FALSE), Obj("class", "b"), Xref("func", << "b" >>, TRUE),
                End, Xref("mod", << "a" >>, FALSE) >>
\* module a.b, then back to no module, function b and a :mod: reference to a.b.
SrcCollide == << Mod(<< "a", "b" >>, FALSE), CurMod(<< >>), Obj("function", "b"), End,
                 Xref("mod", << "a", "b" >>, FALSE) >>
\* module a again, and a reference to the class a.b.
SrcDupModule == << Mod(<< "a" >>, FALSE), Xref("class", << "a", "b" >>, FALSE) >>
\* a noindexed module a, and function b in it, referred to from no module.
SrcNoindex == << Mod(<< "a" >>, TRUE), Obj("function", "b"), End, CurMod(<< >>),
                 Xref("func", << "b" >>, TRUE) >>
\* module b with function b (b.b) and data a (b.a): .b may match a.b too.
SrcFuzzy == << Mod(<< "b" >>, FALSE), Obj("function", "b"), End, Obj("data", "a"), End,
               Xref("func", << "b" >>, TRUE) >>
\* a class with a signature that does not parse, with a reference inside.
SrcBadSig == << Obj("class", BadSig), Xref("class", << "b" >>, FALSE), End >>
\* class a holding class b; a reference after b's content, still in a.
SrcNested == << Obj("class", "a"), Obj("class", "b"), End, Xref("func", << "b" >>, TRUE), End >>

MCSources == {<< >>, SrcModule, SrcCollide, SrcDupModule, SrcNoindex, SrcFuzzy, SrcBadSig, SrcNested}
MCAtoms == {"a", "b"}

\* Smaller source sets for the runs that look for one scenario.
MCDupSources == {<< >>, SrcModule, SrcDupModule}
MCNestedSources == {SrcNested}

=============================================================================
