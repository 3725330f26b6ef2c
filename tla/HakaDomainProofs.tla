-------------------------- MODULE HakaDomainProofs --------------------------
(***************************************************************************)
(* Proofs about HakaDomain for every set of documents, names and sources:  *)
(* the registry keeps its shape, its module entries stay paired (the       *)
(* assert of resolve_xref holds), it never points at an id a document      *)
(* does not have, and so no resolved link dangles.                         *)
(***************************************************************************)
EXTENDS HakaDomain, TLAPS

ObjVals == [doc : Docs, type : ObjDirectives \cup {"module"}]
ModVals == [doc : Docs]

\* dict[k] = v keeps a dict's key and value types.
LEMMA PutType ==
  ASSUME NEW f, NEW D, NEW V, IsMap(f, D, V), NEW k \in D, NEW v \in V
  PROVE  IsMap(Put(f, k, v), D, V)
BY DEF IsMap, Put

\* clear_doc keeps a dict's key and value types.
LEMMA ClearDocType ==
  ASSUME NEW f, NEW D, NEW V, IsMap(f, D, V), NEW d
  PROVE  IsMap(ClearDoc(f, d), D, V)
BY DEF IsMap, ClearDoc

\* find_obj only returns names that are in 'objects'.
LEMMA FindObjDomain ==
  ASSUME NEW objs, NEW r
  PROVE  FindObj(objs, r) \subseteq DOMAIN objs
BY DEF FindObj, FindObjSpecific, FindObjExact, Has, Typed

\* The item being read is one of the directive items.
LEMMA ItemType ==
  ASSUME TypeOK, Reading
  PROVE  Item \in Items
<1>1. cur \in Docs
  BY NoDocAssumption DEF Reading, TypeOK
<1>2. src[cur] \in Seq(Items)
  BY <1>1, SourcesAssumption DEF TypeOK
<1>3. QED
  BY <1>2 DEF Reading, Item, TypeOK

-----------------------------------------------------------------------------
(***************************************************************************)
(* The state stays well typed: in particular haka:class is never more than *)
(* one name segment, and every registry entry names a document.            *)
(***************************************************************************)
LEMMA TypeInit == Init => TypeOK
<1> SUFFICES ASSUME Init PROVE TypeOK
  OBVIOUS
<1>1. crashed \in BOOLEAN /\ link \in Links
  BY DEF Init, Links
<1>2. QED
  BY <1>1, SourcesAssumption DEF Init, TypeOK, IsMap, EmptyMap, Names

LEMMA TypeStep == TypeOK /\ [Next]_vars => TypeOK'
  <2> SUFFICES ASSUME TypeOK, [Next]_vars PROVE TypeOK'
    OBVIOUS
  <2>1. CASE \E d \in Docs, s \in Sources : Edit(d, s)
    BY <2>1 DEF Edit, TypeOK
  <2>2. CASE \E d \in Docs : ReadBegin(d)
    <3>1. PICK d \in Docs : ReadBegin(d)
      BY <2>2
    <3>2. IsMap(objects', Names, ObjVals) /\ IsMap(modules', Names, ModVals)
      BY <3>1, ClearDocType DEF ReadBegin, TypeOK, ObjVals, ModVals
    <3>3. QED
      BY <3>1, <3>2 DEF ReadBegin, TypeOK, ObjVals, ModVals
  <2>3. CASE ReadModule
    <3>0. Reading /\ Item.op = "module"
      BY <2>3 DEF ReadModule
    <3>1. Item \in Items /\ cur \in Docs
      BY <3>0, ItemType, NoDocAssumption DEF Reading, TypeOK
    <3>2. Item.name \in Names /\ Item.noindex \in BOOLEAN
      BY <3>0, <3>1 DEF Items
    <3>3. tmod' \in Names /\ pos' \in Nat \ {0}
      BY <2>3, <3>2 DEF ReadModule, TypeOK
    <3>4. CASE Item.noindex
      <4>1. UNCHANGED << objects, modules, curIds >>
        BY <2>3, <3>4 DEF ReadModule
      <4>2. QED
        BY <2>3, <3>3, <4>1 DEF ReadModule, TypeOK
    <3>5. CASE ~Item.noindex
      <4>1. /\ modules' = Put(modules, Item.name, [doc |-> cur])
            /\ objects' = Put(objects, Item.name, [doc |-> cur, type |-> "module"])
            /\ curIds' = curIds \cup {Anchor("module", Item.name)}
        BY <2>3, <3>5 DEF ReadModule
      <4>2. IsMap(modules', Names, ModVals)
        <5>1. [doc |-> cur] \in ModVals
          BY <3>1 DEF ModVals
        <5>2. QED
          BY <4>1, <5>1, <3>2, PutType DEF TypeOK, ModVals
      <4>3. IsMap(objects', Names, ObjVals)
        <5>1. [doc |-> cur, type |-> "module"] \in ObjVals
          BY <3>1 DEF ObjVals
        <5>2. QED
          BY <4>1, <5>1, <3>2, PutType DEF TypeOK, ObjVals
      <4>4. curIds' \subseteq Anchors
        BY <4>1, <3>2 DEF TypeOK, Anchors, Anchor
      <4>5. QED
        BY <2>3, <3>3, <4>2, <4>3, <4>4 DEF ReadModule, TypeOK, ObjVals, ModVals
    <3>6. QED
      BY <3>2, <3>4, <3>5
  <2>4. CASE ReadCurrentModule
    <3>1. Item \in Items /\ Item.op = "currentmodule"
      BY <2>4, ItemType DEF ReadCurrentModule
    <3>2. Item.name \in Names
      BY <3>1 DEF Items
    <3>3. QED
      BY <2>4, <3>2 DEF ReadCurrentModule, TypeOK
  <2>5. CASE ReadObject
    <3>0. Reading /\ Item.op = "object" /\ Item.name # BadSig
      BY <2>5 DEF ReadObject
    <3>1. Item \in Items /\ cur \in Docs
      BY <3>0, ItemType, NoDocAssumption DEF Reading, TypeOK
    <3>2. Item.name \in Atoms /\ Item.objtype \in ObjDirectives
      BY <3>0, <3>1 DEF Items
    <3>3. Qualify(tmod, Item.name) \in Names
      BY <3>2 DEF Qualify, TypeOK, Names
    <3>4. [doc |-> cur, type |-> Item.objtype] \in ObjVals
      BY <3>1, <3>2 DEF ObjVals
    <3>5. IsMap(objects', Names, ObjVals) /\ curIds' \subseteq Anchors
      <4>1. CASE Anchor("haka", Qualify(tmod, Item.name)) \in curIds
        <5>1. UNCHANGED << objects, curIds >>
          BY <2>5, <4>1 DEF ReadObject
        <5>2. QED
          BY <5>1 DEF TypeOK, ObjVals
      <4>2. CASE Anchor("haka", Qualify(tmod, Item.name)) \notin curIds
        <5>1. /\ objects' = Put(objects, Qualify(tmod, Item.name), [doc |-> cur, type |-> Item.objtype])
              /\ curIds' = curIds \cup {Anchor("haka", Qualify(tmod, Item.name))}
          BY <2>5, <4>2 DEF ReadObject
        <5>2. IsMap(objects', Names, ObjVals)
          BY <5>1, <3>3, <3>4, PutType DEF TypeOK, ObjVals
        <5>3. QED
          BY <5>1, <5>2, <3>3 DEF TypeOK, Anchors, Anchor
      <4>3. QED
        BY <4>1, <4>2
    <3>6. tcls' \in {<< >>} \cup {<< a >> : a \in Atoms}
      BY <2>5, <3>2 DEF ReadObject, BeforeContent, TypeOK
    <3>7. QED
      BY <2>5, <3>5, <3>6 DEF ReadObject, TypeOK, ObjVals
  <2>6. CASE ReadObjectBadSig
    BY <2>6 DEF ReadObjectBadSig, TypeOK
  <2>7. CASE ReadEnd
    BY <2>7 DEF ReadEnd, TypeOK
  <2>8. CASE ReadXref
    <3>0. Reading /\ Item.op = "xref"
      BY <2>8 DEF ReadXref
    <3>1. Item \in Items
      BY <3>0, ItemType
    <3>2. Item.role \in Roles /\ Item.target \in Names /\ Item.specific \in BOOLEAN
      BY <3>0, <3>1 DEF Items
    <3>3. tcls \in Names
      <4>1. CASE tcls = << >>
        BY <4>1 DEF Names
      <4>2. CASE tcls # << >>
        <5>1. PICK a \in Atoms : tcls = << a >>
          BY <4>2 DEF TypeOK
        <5>2. QED
          BY <5>1 DEF Names
      <4>3. QED
        BY <4>1, <4>2
    <3>4. QED
      BY <2>8, <3>2, <3>3 DEF ReadXref, TypeOK, Refs
  <2>9. CASE ReadFinish
    <3>1. cur \in Docs
      BY <2>9 DEF ReadFinish, TypeOK
    <3>2. docIds' \in [Docs -> SUBSET Anchors] /\ refs' \in [Docs -> SUBSET Refs]
      BY <2>9, <3>1 DEF ReadFinish, TypeOK
    <3>3. << >> \in Names /\ << >> \in Seq(BOOLEAN)
      BY DEF Names
    <3>4. QED
      BY <2>9, <3>2, <3>3 DEF ReadFinish, TypeOK
  <2>10. CASE \E d \in Docs : \E r \in refs[d] : Resolve(d, r)
    <3>0. PICK d \in Docs : \E r \in refs[d] : Resolve(d, r)
      BY <2>10
    <3>1. PICK r \in refs[d] : Resolve(d, r)
      BY <3>0
    <3>2. CASE FindObj(objects, r) = {}
      BY <3>1, <3>2 DEF Resolve, TypeOK, Links
    <3>3. CASE FindObj(objects, r) # {}
      <4>1. PICK n \in FindObj(objects, r) : link' = ResolveOutcome(n)
        BY <3>1, <3>3 DEF Resolve
      <4>2. n \in DOMAIN objects /\ n \in Names
        BY <4>1, FindObjDomain DEF TypeOK, IsMap
      <4>3. objects[n] \in ObjVals
        BY <4>2 DEF TypeOK, IsMap, ObjVals
      <4>4. n \in DOMAIN modules => modules[n] \in ModVals
        BY DEF TypeOK, IsMap, ModVals
      <4>5. ResolveOutcome(n) \in Links
        BY <4>2, <4>3, <4>4 DEF ResolveOutcome, Links, Anchors, Anchor, ObjVals, ModVals
      <4>6. QED
        BY <3>1, <4>1, <4>5 DEF Resolve, TypeOK
    <3>4. QED
      BY <3>2, <3>3
  <2>11. CASE UNCHANGED vars
    BY <2>11 DEF vars, TypeOK
  <2>12. CASE ReadObjectDuplicate
    BY <2>12 DEF ReadObjectDuplicate, TypeOK
  <2>13. QED
    BY <2>1, <2>2, <2>3, <2>4, <2>5, <2>6, <2>7, <2>8, <2>9, <2>10, <2>11, <2>12 DEF Next

\* Every reachable state is well typed (TypeOK is inductive as it stands).
THEOREM TypeCorrect == Spec => []TypeOK
BY TypeInit, TypeStep, PTL DEF Spec

-----------------------------------------------------------------------------
(***************************************************************************)
(* The registry invariant.  ModuleEntryConsistent and RegistryAnchored are  *)
(* inductive together with TypeOK: every step either leaves 'objects',     *)
(* 'modules' and the ids alone, or writes an entry and its id in the same  *)
(* step (HakaModule.run, add_target_and_index), or drops exactly the       *)
(* entries of the document whose ids it drops (clear_doc), or moves the    *)
(* ids being read into the doctree (the end of a read).                    *)
(***************************************************************************)
Inv == TypeOK /\ ModuleEntryConsistent /\ RegistryAnchored

\* A step that leaves the registry and the ids keeps the invariant.
LEMMA RegistryUnchanged ==
  ASSUME ModuleEntryConsistent, RegistryAnchored,
         UNCHANGED << objects, modules, cur, curIds, docIds >>
  PROVE  ModuleEntryConsistent' /\ RegistryAnchored'
BY DEF ModuleEntryConsistent, RegistryAnchored, DocIdsNow

LEMMA InvInit == Init => Inv
<1> SUFFICES ASSUME Init PROVE Inv
  OBVIOUS
<1>1. TypeOK
  BY TypeInit
<1>2. DOMAIN objects = {} /\ DOMAIN modules = {}
  BY DEF Init, EmptyMap
<1>3. QED
  BY <1>1, <1>2 DEF Inv, ModuleEntryConsistent, RegistryAnchored

LEMMA InvStep == Inv /\ [Next]_vars => Inv'
<1> SUFFICES ASSUME Inv, [Next]_vars PROVE Inv'
  OBVIOUS
<1> USE DEF Inv
<1>0. TypeOK'
  BY TypeStep
<1>1. CASE \E d \in Docs, s \in Sources : Edit(d, s)
  BY <1>0, <1>1, RegistryUnchanged DEF Edit
<1>2. CASE \E d \in Docs : ReadBegin(d)
  <2>1. PICK d \in Docs : ReadBegin(d)
    BY <1>2
  <2>2. cur = NoDoc /\ cur' = d /\ UNCHANGED docIds
    BY <2>1 DEF ReadBegin
  <2>3. objects' = ClearDoc(objects, d) /\ modules' = ClearDoc(modules, d)
    BY <2>1 DEF ReadBegin
  \* An entry that survives clear_doc names another document, whose ids
  \* are those of its doctree before and after.
  <2>4. \A e \in Docs : e # d => DocIdsNow(e)' = DocIdsNow(e)
    BY <2>2, NoDocAssumption DEF DocIdsNow
  <2>5. ModuleEntryConsistent'
    <3> SUFFICES ASSUME NEW n \in DOMAIN objects', objects'[n].type = "module"
                 PROVE  n \in DOMAIN modules' /\ modules'[n].doc = objects'[n].doc
      BY DEF ModuleEntryConsistent
    <3>1. n \in DOMAIN objects /\ objects[n].doc # d /\ objects'[n] = objects[n]
      BY <2>3 DEF ClearDoc
    <3>2. n \in DOMAIN modules /\ modules[n].doc = objects[n].doc
      BY <3>1 DEF ModuleEntryConsistent
    <3>3. QED
      BY <2>3, <3>1, <3>2 DEF ClearDoc
  <2>6. RegistryAnchored'
    <3>1. ASSUME NEW n \in DOMAIN objects'
          PROVE  (AnchorOf(n, objects[n].type) \in DocIdsNow(objects[n].doc))'
      <4>1. n \in DOMAIN objects /\ objects[n].doc # d /\ objects'[n] = objects[n]
        BY <2>3 DEF ClearDoc
      <4>2. objects[n].doc \in Docs
        BY <4>1 DEF TypeOK, IsMap
      <4>3. AnchorOf(n, objects[n].type) \in DocIdsNow(objects[n].doc)
        BY <4>1 DEF RegistryAnchored
      <4>4. QED
        BY <4>1, <4>2, <4>3, <2>4
    <3>2. ASSUME NEW n \in DOMAIN modules'
          PROVE  (Anchor("module", n) \in DocIdsNow(modules[n].doc))'
      <4>1. n \in DOMAIN modules /\ modules[n].doc # d /\ modules'[n] = modules[n]
        BY <2>3 DEF ClearDoc
      <4>2. modules[n].doc \in Docs
        BY <4>1 DEF TypeOK, IsMap
      <4>3. Anchor("module", n) \in DocIdsNow(modules[n].doc)
        BY <4>1 DEF RegistryAnchored
      <4>4. QED
        BY <4>1, <4>2, <4>3, <2>4
    <3>3. QED
      BY <3>1, <3>2 DEF RegistryAnchored
  <2>7. QED
    BY <1>0, <2>5, <2>6
<1>3. CASE ReadModule
  <2>1. UNCHANGED << cur, docIds >> /\ curIds \subseteq curIds'
    BY <1>3 DEF ReadModule
  <2>2. CASE Item.noindex
    BY <1>0, <1>3, <2>2, RegistryUnchanged DEF ReadModule
  <2>3. CASE ~Item.noindex
    <3> DEFINE m == Item.name
    <3>1. /\ modules' = Put(modules, m, [doc |-> cur])
          /\ objects' = Put(objects, m, [doc |-> cur, type |-> "module"])
          /\ curIds' = curIds \cup {Anchor("module", m)}
      BY <1>3, <2>3 DEF ReadModule
    <3>2. /\ DOMAIN objects' = DOMAIN objects \cup {m}
          /\ DOMAIN modules' = DOMAIN modules \cup {m}
          /\ objects'[m] = [doc |-> cur, type |-> "module"]
          /\ modules'[m] = [doc |-> cur]
          /\ \A n \in DOMAIN objects : n # m => objects'[n] = objects[n]
          /\ \A n \in DOMAIN modules : n # m => modules'[n] = modules[n]
      BY <3>1 DEF Put
    <3>5. ModuleEntryConsistent'
      BY <3>2 DEF ModuleEntryConsistent
    <3>6. RegistryAnchored'
      <4>1. ASSUME NEW n \in DOMAIN objects'
            PROVE  (AnchorOf(n, objects[n].type) \in DocIdsNow(objects[n].doc))'
        <5>1. CASE n = m
          BY <5>1, <3>2, <3>1, <2>1 DEF AnchorOf, DocIdsNow
        <5>2. CASE n # m
          BY <5>2, <3>2, <2>1 DEF RegistryAnchored, DocIdsNow
        <5>3. QED
          BY <5>1, <5>2
      <4>2. ASSUME NEW n \in DOMAIN modules'
            PROVE  (Anchor("module", n) \in DocIdsNow(modules[n].doc))'
        <5>1. CASE n = m
          BY <5>1, <3>2, <3>1, <2>1 DEF DocIdsNow
        <5>2. CASE n # m
          BY <5>2, <3>2, <2>1 DEF RegistryAnchored, DocIdsNow
        <5>3. QED
          BY <5>1, <5>2
      <4>3. QED
        BY <4>1, <4>2 DEF RegistryAnchored
    <3>7. QED
      BY <1>0, <3>5, <3>6
  <2>4. QED
    BY <2>2, <2>3
<1>4. CASE ReadCurrentModule
  BY <1>0, <1>4, RegistryUnchanged DEF ReadCurrentModule
<1>5. CASE ReadObject
  <2> DEFINE full == Qualify(tmod, Item.name)
             a == Anchor("haka", full)
  <2>1. UNCHANGED << cur, docIds, modules >>
    BY <1>5 DEF ReadObject
  <2>2. CASE a \in curIds
    BY <1>0, <1>5, <2>1, <2>2, RegistryUnchanged DEF ReadObject
  <2>3. CASE a \notin curIds
    <3>1. /\ objects' = Put(objects, full, [doc |-> cur, type |-> Item.objtype])
          /\ curIds' = curIds \cup {a}
      BY <1>5, <2>3 DEF ReadObject
    <3>2. Item.objtype # "module"
      <4>1. Reading /\ Item.op = "object"
        BY <1>5 DEF ReadObject
      <4>2. Item \in Items
        BY <4>1, ItemType
      <4>3. QED
        BY <4>1, <4>2 DEF Items, ObjDirectives
    <3>3. /\ DOMAIN objects' = DOMAIN objects \cup {full}
          /\ objects'[full] = [doc |-> cur, type |-> Item.objtype]
          /\ \A n \in DOMAIN objects : n # full => objects'[n] = objects[n]
      BY <3>1 DEF Put
    <3>6. ModuleEntryConsistent'
      BY <2>1, <3>2, <3>3 DEF ModuleEntryConsistent
    <3>7. RegistryAnchored'
      <4>1. ASSUME NEW n \in DOMAIN objects'
            PROVE  (AnchorOf(n, objects[n].type) \in DocIdsNow(objects[n].doc))'
        <5>1. CASE n = full
          BY <5>1, <3>2, <3>3, <3>1, <2>1 DEF AnchorOf, DocIdsNow
        <5>2. CASE n # full
          BY <5>2, <3>3, <2>1, <3>1 DEF RegistryAnchored, DocIdsNow
        <5>3. QED
          BY <5>1, <5>2
      <4>2. ASSUME NEW n \in DOMAIN modules'
            PROVE  (Anchor("module", n) \in DocIdsNow(modules[n].doc))'
        BY <2>1, <3>1 DEF RegistryAnchored, DocIdsNow
      <4>3. QED
        BY <4>1, <4>2 DEF RegistryAnchored
    <3>8. QED
      BY <1>0, <3>6, <3>7
  <2>4. QED
    BY <2>2, <2>3
<1>6. CASE ReadObjectBadSig
  BY <1>0, <1>6, RegistryUnchanged DEF ReadObjectBadSig
<1>7. CASE ReadEnd
  BY <1>0, <1>7, RegistryUnchanged DEF ReadEnd
<1>8. CASE ReadXref
  BY <1>0, <1>8, RegistryUnchanged DEF ReadXref
<1>9. CASE ReadFinish
  <2>1. cur \in Docs /\ cur' = NoDoc /\ docIds' = [docIds EXCEPT ![cur] = curIds]
    BY <1>9 DEF ReadFinish, TypeOK
  \* The ids being read become the doctree's: no document's ids change.
  <2>2. \A e \in Docs : DocIdsNow(e)' = DocIdsNow(e)
    BY <2>1, NoDocAssumption DEF DocIdsNow, TypeOK
  <2>3. UNCHANGED << objects, modules >>
    BY <1>9 DEF ReadFinish
  <2>4. ModuleEntryConsistent'
    BY <2>3 DEF ModuleEntryConsistent
  <2>5. RegistryAnchored'
    <3>1. \A n \in DOMAIN objects : objects[n].doc \in Docs
      BY DEF TypeOK, IsMap
    <3>2. \A n \in DOMAIN modules : modules[n].doc \in Docs
      BY DEF TypeOK, IsMap
    <3>3. QED
      BY <2>2, <2>3, <3>1, <3>2 DEF RegistryAnchored
  <2>6. QED
    BY <1>0, <2>4, <2>5
<1>10. CASE \E d \in Docs : \E r \in refs[d] : Resolve(d, r)
  BY <1>0, <1>10, RegistryUnchanged DEF Resolve
<1>11. CASE UNCHANGED vars
  BY <1>0, <1>11, RegistryUnchanged DEF vars
\* A duplicate description raises before the entry is written.
<1>12. CASE ReadObjectDuplicate
  BY <1>0, <1>12, RegistryUnchanged DEF ReadObjectDuplicate
<1>13. QED
  BY <1>1, <1>2, <1>3, <1>4, <1>5, <1>6, <1>7, <1>8, <1>9, <1>10, <1>11, <1>12 DEF Next

(***************************************************************************)
(* The assert of resolve_xref (line 548) never fails and its modules[name] *)
(* lookup never raises KeyError, whatever documents are edited and re-read *)
(* in whatever order: HakaModule.run pairs the two entries and clear_doc   *)
(* drops them together.                                                    *)
(***************************************************************************)
THEOREM ModuleEntriesPaired == Spec => []ModuleEntryConsistent
<1>1. Init => Inv
  BY InvInit
<1>2. Inv /\ [Next]_vars => Inv'
  BY InvStep
<1>3. Inv => ModuleEntryConsistent
  BY DEF Inv
<1>4. QED
  BY <1>1, <1>2, <1>3, PTL DEF Spec

(***************************************************************************)
(* The registry is never stale: every 'objects' and 'modules' entry names  *)
(* a document that has the entry's id, after any sequence of edits,        *)
(* clear_doc calls, partial or complete reads and the silent overwrites of *)
(* HakaModule.run, up to the end of the build or its crash on a duplicate  *)
(* object description.                                                     *)
(***************************************************************************)
THEOREM RegistryNeverStale == Spec => []RegistryAnchored
<1>1. Inv => RegistryAnchored
  BY DEF Inv
<1>2. QED
  BY <1>1, InvInit, InvStep, PTL DEF Spec

\* One resolve_xref step links only to an id its target document has.
LEMMA ResolveAnchored ==
  ASSUME Inv, NEW d \in Docs, NEW r \in refs[d], Resolve(d, r)
  PROVE  link'.status = "ok" => link'.anchor \in docIds[link'.doc]
<1>1. cur = NoDoc
  BY DEF Resolve
<1>2. \A e \in Docs : DocIdsNow(e) = docIds[e]
  BY <1>1, NoDocAssumption DEF DocIdsNow
<1>3. CASE FindObj(objects, r) = {}
  BY <1>3 DEF Resolve
<1>4. CASE FindObj(objects, r) # {}
  <2>1. PICK n \in FindObj(objects, r) : link' = ResolveOutcome(n)
    BY <1>4 DEF Resolve
  <2>2. n \in DOMAIN objects
    BY <2>1, FindObjDomain
  <2>3. objects[n].doc \in Docs
    BY <2>2 DEF Inv, TypeOK, IsMap
  <2>4. CASE objects[n].type = "module"
    <3>1. CASE n \in DOMAIN modules /\ modules[n].doc = objects[n].doc
      <4>1. link' = [status |-> "ok", doc |-> modules[n].doc, anchor |-> Anchor("module", n)]
        BY <2>1, <2>4, <3>1 DEF ResolveOutcome
      <4>2. Anchor("module", n) \in DocIdsNow(modules[n].doc)
        BY <3>1 DEF Inv, RegistryAnchored
      <4>3. QED
        BY <4>1, <4>2, <3>1, <2>3, <1>2
    <3>2. CASE ~(n \in DOMAIN modules /\ modules[n].doc = objects[n].doc)
      BY <2>1, <2>4, <3>2 DEF ResolveOutcome
    <3>3. QED
      BY <3>1, <3>2
  <2>5. CASE objects[n].type # "module"
    <3>1. link' = [status |-> "ok", doc |-> objects[n].doc, anchor |-> Anchor("haka", n)]
      BY <2>1, <2>5 DEF ResolveOutcome
    <3>2. Anchor("haka", n) \in DocIdsNow(objects[n].doc)
      BY <2>2, <2>5 DEF Inv, RegistryAnchored, AnchorOf
    <3>3. QED
      BY <3>1, <3>2, <2>3, <1>2
  <2>6. QED
    BY <2>4, <2>5
<1>5. QED
  BY <1>3, <1>4

(***************************************************************************)
(* Every link resolve_xref makes points to an id its target document's     *)
(* doctree has: make_refnode never builds a dangling link.                 *)
(***************************************************************************)
THEOREM LinksAnchored == Spec => LinksTargetAnchors
<1>1. Inv => ((\E d \in Docs : \E r \in refs[d] : Resolve(d, r)) =>
                (link'.status = "ok" => link'.anchor \in docIds[link'.doc]))
  BY ResolveAnchored
<1>2. QED
  BY <1>1, InvInit, InvStep, PTL DEF Spec, LinksTargetAnchors

=============================================================================
