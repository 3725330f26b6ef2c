----------------------------- MODULE HakaDomain -----------------------------
(***************************************************************************)
(* The Haka Sphinx domain of src/doc/domain/haka.py across builds: the     *)
(* shared registry env.domaindata['haka'] ('objects' and 'modules'),       *)
(* written by the directives of every document, cleared per document by    *)
(* clear_doc, and read by resolve_xref through find_obj.                   *)
(*                                                                         *)
(* A document's source is a sequence of items, one per directive that      *)
(* touches the domain (module, currentmodule, the object directives and    *)
(* the end of their content) and per cross-reference role.  Sphinx reads   *)
(* an outdated document by calling clear_doc and then running its          *)
(* directives in order, one document at a time; temp_data (haka:module,    *)
(* haka:class) and the document's ids live for that one read.  References  *)
(* are resolved once no document is outdated.                              *)
(*                                                                         *)
(* Dotted names are sequences of name segments: modname + '.' + name is    *)
(* modname \o <<name>>, and '' or None (no module, no class) is << >>.     *)
(***************************************************************************)
EXTENDS Naturals, Sequences, FiniteSets

CONSTANTS
  Docs,      \* document names
  NoDoc,     \* no document is being read
  Atoms,     \* name segments
  Sources    \* the sources a document can have

Names == Seq(Atoms)

\* Directive names of the object directives (HakaDomain.directives).
ObjDirectives == {"class", "dissector", "function", "method", "data", "event", "attribute"}
\* HakaClass and its subclass HakaDissector set haka:class for their content.
ClassTypes == {"class", "dissector"}
\* A signature that lua_signature_re does not match.
BadSig == "?"

Roles == {"data", "func", "class", "mod"}

\* HakaDomain.object_types: the roles that may refer to each object type.
ObjectTypes ==
  [class |-> {"class", "obj"}, dissector |-> {"class", "obj"},
   event |-> {"event", "obj"}, attribute |-> {"data", "obj"},
   function |-> {"func", "obj"}, method |-> {"func", "obj"},
   module |-> {"mod", "obj"}, data |-> {"data", "obj"}]

\* Domain.objtypes_for_role, read from object_types.
ObjTypesForRole(role) == {t \in DOMAIN ObjectTypes : role \in ObjectTypes[t]}

Items ==
       [op : {"module"}, name : Names, noindex : BOOLEAN]
  \cup [op : {"currentmodule"}, name : Names]
  \cup [op : {"object"}, objtype : ObjDirectives, name : Atoms \cup {BadSig}]
  \cup [op : {"end"}]
  \cup [op : {"xref"}, role : Roles, target : Names, specific : BOOLEAN]

ASSUME NoDocAssumption == NoDoc \notin Docs
ASSUME SourcesAssumption == Sources \subseteq Seq(Items) /\ Sources # {}
ASSUME BadSigAssumption == BadSig \notin Atoms

Anchor(kind, n) == [kind |-> kind, name |-> n]
Anchors == [kind : {"module", "haka"}, name : Names]
\* The id a registry entry links to: 'module-' + name or 'haka-' + name.
AnchorOf(n, type) == IF type = "module" THEN Anchor("module", n) ELSE Anchor("haka", n)

Refs == [mod : Names, cls : Names, target : Names, role : Roles, specific : BOOLEAN]
Links == [status : {"ok"}, doc : Docs, anchor : Anchors]
    \cup [status : {"none", "error"}]

VARIABLES
  src,        \* the current source of each document
  outdated,   \* documents changed since they were last read
  objects,    \* domaindata['haka']['objects']: fullname -> (docname, objtype)
  modules,    \* domaindata['haka']['modules']: modname -> (docname, ...)
  docIds,     \* the ids of each document's doctree from its last read
  refs,       \* the pending cross-references of each document's doctree
  cur,        \* the document being read, or NoDoc
  pos,        \* the next item of the document being read
  tmod,       \* temp_data['haka:module']
  tcls,       \* temp_data['haka:class']
  curIds,     \* document.ids of the document being read
  curRefs,    \* the references of the document being read
  open,       \* open object directives: does its after_content reset haka:class?
  link,       \* the result of the last resolve_xref
  crashed     \* an exception left a directive: the build stopped

vars == << src, outdated, objects, modules, docIds, refs, cur, pos, tmod, tcls,
           curIds, curRefs, open, link, crashed >>

-----------------------------------------------------------------------------
\* dict[k] = v, and the dict comprehension clear_doc applies.
Put(f, k, v) == [n \in DOMAIN f \cup {k} |-> IF n = k THEN v ELSE f[n]]
ClearDoc(f, d) == [n \in {k \in DOMAIN f : f[k].doc # d} |-> f[n]]

EmptyMap == [n \in {} |-> NoDoc]

Init ==
  /\ src \in [Docs -> Sources]
  /\ outdated = Docs
  /\ objects = EmptyMap
  /\ modules = EmptyMap
  /\ docIds = [d \in Docs |-> {}]
  /\ refs = [d \in Docs |-> {}]
  /\ cur = NoDoc
  /\ pos = 1
  /\ tmod = << >>
  /\ tcls = << >>
  /\ curIds = {}
  /\ curRefs = {}
  /\ open = << >>
  /\ link = [status |-> "none"]
  /\ crashed = FALSE

\* The writer changes a document between two reads.
Edit(d, s) ==
  /\ cur = NoDoc
  /\ s # src[d]
  /\ src' = [src EXCEPT ![d] = s]
  /\ outdated' = outdated \cup {d}
  /\ UNCHANGED << crashed, objects, modules, docIds, refs, cur, pos, tmod, tcls, curIds, curRefs, open, link >>

\* Sphinx starts reading an outdated document: clear_doc drops every entry
\* the document wrote in its previous read.
ReadBegin(d) ==
  /\ cur = NoDoc
  /\ d \in outdated
  /\ objects' = ClearDoc(objects, d)
  /\ modules' = ClearDoc(modules, d)
  /\ cur' = d
  /\ outdated' = outdated \ {d}
  /\ UNCHANGED << crashed, src, docIds, refs, pos, tmod, tcls, curIds, curRefs, open, link >>

Item == src[cur][pos]
Reading == ~crashed /\ cur # NoDoc /\ pos <= Len(src[cur])

\* Mutant: the duplicate 'objects' entry is written outside the noindex test.
ReadModuleObjectsAlways ==
  /\ Reading
  /\ Item.op = "module"
  /\ tmod' = Item.name
  /\ objects' = Put(objects, Item.name, [doc |-> cur, type |-> "module"])
  /\ IF Item.noindex
     THEN UNCHANGED << modules, curIds >>
     ELSE /\ modules' = Put(modules, Item.name, [doc |-> cur])
          /\ curIds' = curIds \cup {Anchor("module", Item.name)}
  /\ pos' = pos + 1
  /\ UNCHANGED << crashed, src, outdated, docIds, refs, cur, tcls, curRefs, open, link >>

\* HakaModule.run: haka:module is set even with :noindex:.
ReadModule ==
  /\ Reading
  /\ Item.op = "module"
  /\ tmod' = Item.name
  /\ IF Item.noindex
     THEN UNCHANGED << objects, modules, curIds >>
     ELSE /\ modules' = Put(modules, Item.name, [doc |-> cur])
          /\ objects' = Put(objects, Item.name, [doc |-> cur, type |-> "module"])
          /\ curIds' = curIds \cup {Anchor("module", Item.name)}
  /\ pos' = pos + 1
  /\ UNCHANGED << crashed, src, outdated, docIds, refs, cur, tcls, curRefs, open, link >>

\* HakaCurrentModule.run: the argument 'None' (here << >>) clears haka:module.
ReadCurrentModule ==
  /\ Reading
  /\ Item.op = "currentmodule"
  /\ tmod' = Item.name
  /\ pos' = pos + 1
  /\ UNCHANGED << crashed, src, outdated, objects, modules, docIds, refs, cur, tcls, curIds, curRefs, open, link >>


\* add_target_and_index: fullname = modname + '.' + name (modname or '').
Qualify(mod, name) == mod \o << name >>

\* Mutant: haka:class set to the qualified name of the class.
BeforeContentQualified(cls, item) ==
  IF item.objtype \in ClassTypes THEN Qualify(tmod, item.name) ELSE cls

\* HakaClass.before_content: haka:class becomes names[0]['fullname'], the
\* bare name that handle_signature returns, for a class with a signature.
BeforeContent(cls, item) ==
  IF item.objtype \in ClassTypes THEN << item.name >> ELSE cls

\* Mutant: the id 'haka-' + names['fullname'] leaves out the module.
ReadObjectUnqualifiedId ==
  /\ Reading
  /\ Item.op = "object"
  /\ Item.name # BadSig
  /\ LET full == Qualify(tmod, Item.name)
         a    == Anchor("haka", << Item.name >>)
     IN  /\ a \in curIds \/ full \notin DOMAIN objects
         /\ IF a \in curIds
            THEN UNCHANGED << objects, curIds >>
            ELSE /\ objects' = Put(objects, full, [doc |-> cur, type |-> Item.objtype])
                 /\ curIds' = curIds \cup {a}
  /\ tcls' = BeforeContent(tcls, Item)
  /\ open' = Append(open, Item.objtype \in ClassTypes)
  /\ pos' = pos + 1
  /\ UNCHANGED << crashed, src, outdated, modules, docIds, refs, cur, tmod, curRefs, link >>

(***************************************************************************)
(* An object directive with a signature lua_signature_re matches:          *)
(* handle_signature takes the module from haka:module (option_spec has no  *)
(* 'module' option, so options.get('module') is None), then                *)
(* add_target_and_index registers the object unless this document already  *)
(* has the id 'haka-' + fullname, then before_content runs.  The argument  *)
(* list is the ArgList module's concern.  An entry for fullname that this  *)
(* document has no id for is a duplicate: ReadObjectDuplicate.             *)
(***************************************************************************)
ReadObject ==
  /\ Reading
  /\ Item.op = "object"
  /\ Item.name # BadSig
  /\ LET full == Qualify(tmod, Item.name)
         a    == Anchor("haka", full)
     IN  /\ a \in curIds \/ full \notin DOMAIN objects
         /\ IF a \in curIds
            THEN UNCHANGED << objects, curIds >>
            ELSE /\ objects' = Put(objects, full, [doc |-> cur, type |-> Item.objtype])
                 /\ curIds' = curIds \cup {a}
  /\ tcls' = BeforeContent(tcls, Item)
  /\ open' = Append(open, Item.objtype \in ClassTypes)
  /\ pos' = pos + 1
  /\ UNCHANGED << crashed, src, outdated, modules, docIds, refs, cur, tmod, curRefs, link >>

(***************************************************************************)
(* A duplicate object description: fullname is in 'objects' but the       *)
(* document has no id 'haka-' + fullname.  The warning calls              *)
(* env.doc2path(objects[fullname]) on the (docname, objtype) tuple, which *)
(* raises, so the entry is not overwritten and the build stops.           *)
(***************************************************************************)
ReadObjectDuplicate ==
  /\ Reading
  /\ Item.op = "object"
  /\ Item.name # BadSig
  /\ Anchor("haka", Qualify(tmod, Item.name)) \notin curIds
  /\ Qualify(tmod, Item.name) \in DOMAIN objects
  /\ crashed' = TRUE
  /\ UNCHANGED << src, outdated, objects, modules, docIds, refs, cur, pos, tmod, tcls,
                  curIds, curRefs, open, link >>

\* handle_signature raises ValueError: the directive keeps no name, so it
\* registers nothing and before_content/after_content leave haka:class.
ReadObjectBadSig ==
  /\ Reading
  /\ Item.op = "object"
  /\ Item.name = BadSig
  /\ open' = Append(open, FALSE)
  /\ pos' = pos + 1
  /\ UNCHANGED << crashed, src, outdated, objects, modules, docIds, refs, cur, tmod, tcls, curIds, curRefs, link >>

\* The end of an object directive's content: HakaClass.after_content sets
\* haka:class to None, whatever it was before the directive.
ReadEnd ==
  /\ Reading
  /\ Item.op = "end"
  /\ open # << >>
  /\ tcls' = IF open[Len(open)] THEN << >> ELSE tcls
  /\ open' = SubSeq(open, 1, Len(open) - 1)
  /\ pos' = pos + 1
  /\ UNCHANGED << crashed, src, outdated, objects, modules, docIds, refs, cur, tmod, curIds, curRefs, link >>

\* HakaXRefRole.process_link: the reference records haka:module and
\* haka:class; a leading '.' (here: specific) makes it refspecific.
ReadXref ==
  /\ Reading
  /\ Item.op = "xref"
  /\ curRefs' = curRefs \cup {[mod |-> tmod, cls |-> tcls, target |-> Item.target,
                                role |-> Item.role, specific |-> Item.specific]}
  /\ pos' = pos + 1
  /\ UNCHANGED << crashed, src, outdated, objects, modules, docIds, refs, cur, tmod, tcls, curIds, open, link >>

\* The read ends: the doctree keeps its ids and references, and temp_data
\* is cleared.
ReadFinish ==
  /\ cur # NoDoc
  /\ pos > Len(src[cur])
  /\ docIds' = [docIds EXCEPT ![cur] = curIds]
  /\ refs' = [refs EXCEPT ![cur] = curRefs]
  /\ cur' = NoDoc
  /\ pos' = 1
  /\ tmod' = << >>
  /\ tcls' = << >>
  /\ curIds' = {}
  /\ curRefs' = {}
  /\ open' = << >>
  /\ UNCHANGED << crashed, src, outdated, objects, modules, link >>

-----------------------------------------------------------------------------
(***************************************************************************)
(* find_obj over the registry objs: the names it returns (matches).  Only  *)
(* the fuzzy search can return several.  '.' not in name is a one-segment  *)
(* name, and oname.endswith('.' + name) a proper dotted suffix.            *)
(***************************************************************************)
Has(objs, n) == n \in DOMAIN objs
Typed(objs, n, role) == Has(objs, n) /\ objs[n].type \in ObjTypesForRole(role)
IsDotSuffix(name, o) ==
  Len(o) > Len(name) /\ SubSeq(o, Len(o) - Len(name) + 1, Len(o)) = name

\* searchmode 1: the more specific namespaces first, with the role's types.
FindObjSpecific(objs, mod, cls, name, role) ==
  IF mod # << >> /\ cls # << >> /\ Typed(objs, mod \o cls \o name, role)
  THEN {mod \o cls \o name}
  ELSE IF mod # << >> /\ Typed(objs, mod \o name, role) THEN {mod \o name}
  ELSE IF Typed(objs, name, role) THEN {name}
  ELSE {o \in DOMAIN objs : IsDotSuffix(name, o) /\ objs[o].type \in ObjTypesForRole(role)}

\* searchmode 0: exact names, object type not considered.
FindObjExact(objs, mod, cls, name, role) ==
  IF Has(objs, name) THEN {name}
  ELSE IF role = "mod" THEN {}
  ELSE IF cls # << >> /\ Has(objs, cls \o name) THEN {cls \o name}
  ELSE IF mod # << >> /\ Has(objs, mod \o name) THEN {mod \o name}
  ELSE IF mod # << >> /\ cls # << >> /\ Has(objs, mod \o cls \o name) THEN {mod \o cls \o name}
  ELSE IF role = "func" /\ Len(name) = 1 /\ Has(objs, << "object" >> \o name)
       THEN {<< "object" >> \o name}
  ELSE {}

FindObj(objs, r) ==
  IF r.target = << >> THEN {}
  ELSE IF r.specific THEN FindObjSpecific(objs, r.mod, r.cls, r.target, r.role)
  ELSE FindObjExact(objs, r.mod, r.cls, r.target, r.role)

(***************************************************************************)
(* resolve_xref for a pending reference r of document d, once every        *)
(* document is read: no match gives None; otherwise matches[0] (any of     *)
(* them, as dict order decides).  A module entry is looked up in           *)
(* 'modules' (KeyError if absent) and asserted to name the same document.  *)
(***************************************************************************)
\* Mutant: a module is linked with the object id 'haka-' + name.
ResolveOutcomeHakaAnchor(n) ==
  IF objects[n].type = "module"
  THEN IF n \in DOMAIN modules /\ modules[n].doc = objects[n].doc
       THEN [status |-> "ok", doc |-> modules[n].doc, anchor |-> Anchor("haka", n)]
       ELSE [status |-> "error"]
  ELSE [status |-> "ok", doc |-> objects[n].doc, anchor |-> Anchor("haka", n)]

ResolveOutcome(n) ==
  IF objects[n].type = "module"
  THEN IF n \in DOMAIN modules /\ modules[n].doc = objects[n].doc
       THEN [status |-> "ok", doc |-> modules[n].doc, anchor |-> Anchor("module", n)]
       ELSE [status |-> "error"]
  ELSE [status |-> "ok", doc |-> objects[n].doc, anchor |-> Anchor("haka", n)]

Resolve(d, r) ==
  /\ cur = NoDoc
  /\ outdated = {}
  /\ r \in refs[d]
  /\ IF FindObj(objects, r) = {}
     THEN link' = [status |-> "none"]
     ELSE \E n \in FindObj(objects, r) : link' = ResolveOutcome(n)
  /\ UNCHANGED << crashed, src, outdated, objects, modules, docIds, refs, cur, pos, tmod, tcls, curIds, curRefs, open >>

Next ==
  \/ \E d \in Docs, s \in Sources : Edit(d, s)
  \/ \E d \in Docs : ReadBegin(d)
  \/ ReadModule
  \/ ReadCurrentModule
  \/ ReadObject
  \/ ReadObjectDuplicate
  \/ ReadObjectBadSig
  \/ ReadEnd
  \/ ReadXref
  \/ ReadFinish
  \/ \E d \in Docs : \E r \in refs[d] : Resolve(d, r)

Spec == Init /\ [][Next]_vars

-----------------------------------------------------------------------------
IsMap(f, Dom, Val) == DOMAIN f \subseteq Dom /\ \A n \in DOMAIN f : f[n] \in Val

TypeOK ==
  /\ src \in [Docs -> Sources]
  /\ outdated \subseteq Docs
  /\ IsMap(objects, Names, [doc : Docs, type : ObjDirectives \cup {"module"}])
  /\ IsMap(modules, Names, [doc : Docs])
  /\ docIds \in [Docs -> SUBSET Anchors]
  /\ refs \in [Docs -> SUBSET Refs]
  /\ cur \in Docs \cup {NoDoc}
  /\ pos \in Nat \ {0}
  /\ tmod \in Names
  /\ tcls \in {<< >>} \cup {<< a >> : a \in Atoms}
  /\ curIds \subseteq Anchors
  /\ curRefs \subseteq Refs
  /\ open \in Seq(BOOLEAN)
  /\ link \in Links
  /\ crashed \in BOOLEAN


-----------------------------------------------------------------------------
(***************************************************************************)
(* The assert of resolve_xref (line 548) and its modules[name] lookup (line *)
(* 547): an 'objects' entry of type module always has a 'modules' entry    *)
(* naming the same document.  HakaModule.run writes the two together and   *)
(* clear_doc removes both, so no order of reads and edits separates them.  *)
(***************************************************************************)
ModuleEntryConsistent ==
  \A n \in DOMAIN objects :
    objects[n].type = "module" =>
      n \in DOMAIN modules /\ modules[n].doc = objects[n].doc

\* The ids of document d as they are now: its doctree, or the one being read.
DocIdsNow(d) == IF d = cur THEN curIds ELSE docIds[d]

(***************************************************************************)
(* No registry entry is stale: every entry of 'objects' and 'modules'      *)
(* names a document whose doctree has the entry's id ('haka-' + fullname   *)
(* or 'module-' + modname), across edits, clear_doc and re-reads of any    *)
(* documents in any order.                                                 *)
(***************************************************************************)
RegistryAnchored ==
  /\ \A n \in DOMAIN objects : AnchorOf(n, objects[n].type) \in DocIdsNow(objects[n].doc)
  /\ \A n \in DOMAIN modules : Anchor("module", n) \in DocIdsNow(modules[n].doc)

(***************************************************************************)
(* Every link resolve_xref makes (make_refnode to a document and an id)    *)
(* points to an id that the target document's doctree has: find_obj only  *)
(* returns registered names, and the registry is never stale.              *)
(***************************************************************************)
LinksTargetAnchors ==
  [][ (\E d \in Docs : \E r \in refs[d] : Resolve(d, r)) =>
        (link'.status = "ok" => link'.anchor \in docIds[link'.doc]) ]_vars

(***************************************************************************)
(* After an update, every module a document describes (without :noindex:) *)
(* is in the registry, so :mod: references to it resolve.  Violated: two   *)
(* documents may describe the same module (no duplicate warning, unlike    *)
(* objects), and clear_doc of the one that wrote last drops the entry      *)
(* while the other, unchanged, is not re-read.                             *)
(***************************************************************************)
ModulesComplete ==
  (cur = NoDoc /\ outdated = {}) =>
    \A d \in Docs : \A i \in DOMAIN src[d] :
      (src[d][i].op = "module" /\ ~src[d][i].noindex) => src[d][i].name \in DOMAIN modules

\* Object directives minus ends of content in s[a..b].
Depth(s, a, b) ==
  Cardinality({x \in a .. b : s[x].op = "object"}) - Cardinality({x \in a .. b : s[x].op = "end"})
\* The object directive at j is still open at position i.
IsOpenAt(s, j, i) == s[j].op = "object" /\ \A k \in j .. i - 1 : Depth(s, j + 1, k) >= 0
\* The innermost class directive (with a signature) whose content holds i.
EnclosingClass(s, i) ==
  LET C == {j \in 1 .. i - 1 : IsOpenAt(s, j, i) /\ s[j].objtype \in ClassTypes /\ s[j].name # BadSig}
  IN  IF C = {} THEN << >> ELSE << s[CHOOSE j \in C : \A k \in C : k <= j].name >>

(***************************************************************************)
(* A reference written inside a class's content records that class as      *)
(* haka:class (for find_obj's classname).  Violated: after_content of a    *)
(* nested class sets haka:class to None instead of restoring the outer one.*)
(***************************************************************************)
RefsCarryEnclosingClass ==
  (Reading /\ Item.op = "xref") => tcls = EnclosingClass(src[cur], pos)

=============================================================================
