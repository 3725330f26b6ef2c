# TLA+ models of the Haka documentation tooling

The repository's code under `src/` has two Sphinx extensions:

- `src/external/sphinx-contrib/ansi.py`: the `ansi-block` directive and the
  `ANSIColorParser` transform. They turn ANSI colour escape sequences in a
  literal block into styled inline nodes (HTML), or strip them (every other
  builder).
- `src/doc/domain/haka.py`: the `haka` Sphinx domain. Its directives describe
  modules, objects, functions and so on. It keeps a registry of described
  names per document, resolves cross-references against that registry and
  builds a module index.

## Inventory

### ansi.py

| Part | State | Operations | Interactions |
|---|---|---|---|
| `COLOR_PATTERN`, `CODE_CLASS_MAP` (l. 56-78) | none (constants) | regex search, code lookup | used by both handlers |
| `ANSIColorParser` (l. 81-168) | `pending_nodes`, `new_nodes`, `last_end`, the output literal node | `__call__` picks a handler per builder; `_colorize_block_contents` (a `finditer` loop with `_add_text` and `_finalize_pending_nodes`); `_strip_color_from_block_content` (`re.sub`) | runs on `doctree-resolved` over every `ansi_literal_block` |
| `unescape` (l. 188-203) | none | regex substitution of backslash escapes | called by the directive under Python 3 |
| `ANSIBlockDirective.run` (l. 206-224) | none | joins the content lines and unescapes them if `:string_escape:` is given | produces the `ansi_literal_block` the parser consumes |
| `add_stylesheet`, `copy_stylesheet`, `setup` (l. 171-185, 227-232) | Sphinx config | registration and a file copy | Sphinx events |

The hard behaviours are these:

- Several opening sequences make sibling pending nodes.
- Only the last code of a sequence decides a reset.
- The exceptions of line 133 (ValueError) and line 145 (KeyError) leave the
  block half built.
- The one-pass `re.sub` can assemble a new sequence from the pieces around a
  removed one.
- `[^m]+` runs over any text up to the next `m`.
- `unescape` compares a `str` with an `int` (l. 201), which raises TypeError
  under Python 3.

### haka.py

| Part | State | Operations | Interactions |
|---|---|---|---|
| `_pseudo_parse_arglist` (l. 55-98) | a stack of optional groups | split on `,`, push on `[`, pop on `]` | builds the signature nodes |
| `HakaObject` and subclasses (l. 103-269) | `domaindata['haka']['objects']`, `ref_context`/`temp_data` (`haka:module`, `haka:class`) | `handle_signature`, `add_target_and_index`, `before_content`/`after_content` | directives of every document write the shared registry |
| `HakaModule`, `HakaCurrentModule` (l. 271-331) | `objects`, `modules`, `haka:module` | register a module, set the current module | |
| `HakaXRefRole` (l. 333-351) | `haka:module`/`haka:class` copied into the reference | `process_link` | read later by `resolve_xref` |
| `HakaModuleIndex.generate` (l. 354-419) | none | sorts and groups module names | reads `modules` |
| `HakaDomain` (l. 424-566) | `objects`, `modules` | `clear_doc`, `find_obj`, `resolve_xref`, `get_objects` | re-reading a document clears and rewrites its entries |

The hard behaviours are these:

- Documents are read, cleared and re-read in any order.
- A module directive overwrites the entries of its name silently
  (l. 294-299). A duplicate object description does not: the warning at
  l. 185-188 passes the `(docname, objtype)` tuple to `env.doc2path`, which
  raises, and the build stops before l. 190.
- A nested class resets `haka:class` to None (l. 226).
- The `assert` of l. 548 depends on `objects` and `modules` being written in
  pairs.
- An unbalanced `]` makes `_pseudo_parse_arglist` raise IndexError.
- The module index groups submodules by comparing each module with the one
  sorted before it, with a string-prefix test.

## Modules

### ansi.py

- `AnsiScanner`: the data layer of ansi.py.
  - The alphabet of a block is ESC, `[`, `m`, `;`, the digits 0, 1, 3, and `x`
    for every other character.
  - `IsMatchAt`/`MatchEnd`/`NextMatchStart` give what `COLOR_PATTERN` and
    `finditer` find.
  - `Pieces`/`LastPiece`/`Val` model `split(';')` and `int()`.
  - `CodeClassMap` is `CODE_CLASS_MAP`.
  - `MatchList` and `Strip` (what `re.sub` returns) serve the properties only.
  - The module has no RECURSIVE operator; recursion is written as recursive
    functions.
- `ANSIColorParser`: one block through `__call__`'s chosen handler.
  - Variables:
    - `builder`, `raw`;
    - `lastEnd`, which is `last_end + 1`, since TLA+ sequences start at 1;
    - `pending` (`pending_nodes`) and `newNodes` (`new_nodes`);
    - `stripped` (the output of `re.sub` so far);
    - `literal` (the children of the output node);
    - `pc`, which is scan, strip, done or error.
  - Actions: one per outcome of an iteration of the `finditer` loop.
    - `ScanReset` is lines 128-137.
    - `ScanOpen` is lines 128-145.
    - `ScanValueError` is line 133 raising.
    - `ScanKeyError` is line 145 raising.
    - `Finish` is lines 147-152.
  - Each action includes the `_add_text` of the head and the node
    bookkeeping.
  - The strip handler's `re.sub` is written as the same loop. `StripScan`
    keeps the text before each match, and `StripFinish` adds the tail and
    builds the node.
  - Init is lines 110-124 together with the handler choice of lines 163-166.
  - `Walk` instantiates `MatchWalk` with the refinement mapping: `text` is
    `raw`, `styled` is `builder = "html"`, `from` is `lastEnd`, and `phase` is
    `WalkPhase` (scan and strip are "walk", done is "stopped", error is
    "raised"). `ImplementsMatchWalk == Walk!Spec` is checked by the parser
    run and proved.
- `MatchWalk`: the abstract specification of both handlers. It keeps only
  how the `COLOR_PATTERN` matches are walked.
  - `Advance`: take the next match and resume after it (l. 126-145, and the
    `re.sub` of l. 155).
  - `Raise`: the styling walk stops at the first match it cannot style
    (l. 133 and 145).
  - `Stop`: no match is left (l. 146-150).
  - The pending nodes, the output and the text between matches are left out.
- `MCANSIColorParser`: the inputs for TLC.
  - `MCTokenInputs`: every sequence of up to 4 tokens among plain text,
    `ESC[1m`, `ESC[31m`, `ESC[0m`, `ESC[1;0m`, `ESC[3m` (an unknown code),
    `ESC[3;0m` and `ESC[xm`.
  - `MCCharInputs`: every string of up to 5 characters over ESC `[` `m` `;`
    0 1 x.
  - `MCStripInputs`: every string of up to 8 characters over ESC `[` `m` x,
    which is long enough for two nested sequences.
- `ANSIColorParserProofs`: the TLAPS proofs.
- `Unescape`: `ANSIBlockDirective.run` (l. 219-224) under Python 3 and
  `unescape` (l. 188-203).
  - Characters are code points. The alphabet is `\`, `x`, `1` (an octal and a
    hex digit), `b` (a hex digit and an escape letter), `e` (a hex digit of
    value 14 and no escape letter), `n` (an escape letter only), `'` and the
    newline. So `\x1e` is chr(30), `\xe` is chr(14) and `\xee` fails the
    ASCII decode, while `\e` reaches the TypeError of l. 201.
  - `regex.sub(replace, text)` is a left-to-right scan, `p` is where the
    search goes on, and `out` is the result so far.
  - `GroupAt` tries the alternatives of the escape regex in their order, with
    their greedy repetitions:
    - `.` stops at a newline;
    - `$` matches at the end of the text, or before a final newline.
  - `Replace` is `replace`'s chain of returns and exceptions. Line 201 raises
    TypeError for every escape whose character is `>= '0'`.
  - Actions:
    - `Copy`: no match starts at `p`;
    - `Substitute`: a match is replaced;
    - `SubstituteRaises`: `replace` raises;
    - `Finish`: the scan ends.
  - Init chooses whether `:string_escape:` is given. Without it, the text is
    returned as it is.
- `MCUnescape`: every text of up to 4 characters that does not end in a
  newline. Docutils drops the trailing blank lines of a directive's content,
  so the joined content never ends in one.

### haka.py

- `HakaDomain`: the registry `env.domaindata['haka']` across builds.
  - Constants: documents, the source of each document as a sequence of items
    (module, currentmodule, object directives, the end of their content,
    cross-reference roles), and name segments.
  - Variables:
    - `objects` and `modules`, the registry;
    - per document: `src`, `outdated`, the doctree's ids (`docIds`) and its
      pending references (`refs`);
    - for the read in progress: `cur` and `pos`, `tmod`/`tcls`
      (`temp_data['haka:module']`/`['haka:class']`), `curIds`, `curRefs`, and
      `open`, the open object directives;
    - `link`, the last `resolve_xref` result;
    - `crashed`: an exception left a directive and the build stopped.
  - Actions:
    - `Edit`: the writer changes a document between reads.
    - `ReadBegin`: `clear_doc` (l. 465-471) and the start of a read.
    - `ReadModule`: `HakaModule.run` (l. 287-310).
    - `ReadCurrentModule`: `HakaCurrentModule.run` (l. 323-331).
    - `ReadObject`: `handle_signature`'s module, `add_target_and_index`
      (l. 172-195) and `before_content` (l. 218-221). Its guard is the
      code's: either the document already has the id, or `objects` has no
      entry for the name yet.
    - `ReadObjectDuplicate`: `objects` has an entry for the name but the
      document has no id for it. The warning raises in `env.doc2path`
      (l. 185-188), and the build stops (`crashed`).
    - `ReadObjectBadSig`: the ValueError of `handle_signature`.
    - `ReadEnd`: `after_content` (l. 223-226).
    - `ReadXref`: `HakaXRefRole.process_link` (l. 334-351).
    - `ReadFinish`: the end of a read.
    - `Resolve`: `resolve_xref` (l. 529-560) over `find_obj` (l. 473-527) in
      both search modes.
  - Sphinx reads one document at a time and resolves references once no
    document is outdated. These are the only orders the actions allow.
- `MCHakaDomain`: two documents and names over `a` and `b`. The sources make
  these cases happen:
  - a module name collides with a qualified object name (module `a.b`, and
    class `b` in module `a`);
  - the same module is described in two documents;
  - a class is nested in a class;
  - an object description collides with an entry of another document (or
    of a module directive), so the build crashes;
  - `:noindex:` is given;
  - a bad signature is given;
  - a fuzzy `.b` reference has two candidates.
- `HakaDomainProofs`: the TLAPS proofs.
- `ArgList`: `_pseudo_parse_arglist` (l. 55-98).
  - An argument list is a string over `[`, `]`, `,` and `x`, where `x` stands
    for any name character. Blanks are left out, because every loop strips the
    argument again.
  - `Scan` is the four `while` loops in their order. `ParseArgument` is one
    iteration of the `for` loop: the pushes and pops on `stack`, `parent` (the
    tree of `desc_optional` nodes), and the parameter.
  - `ParseArgumentIndexError` is any stack operation on an empty stack.
  - `Finish` is the length test of l. 95.
  - `StackIsPath`: `stack[-2] += stack[-1]` hangs every new `desc_optional`
    under an earlier node, and pops only remove the top. So `parent` is a
    tree under the parameter list, and `stack` is a path down it.
- `ArgListProofs`: the TLAPS proofs.
- `MCArgList`:
  - every list of up to 7 characters whose arguments carry at most one name;
  - the lists whose arguments are in the sibling notation `a [, b] [, c]`.
- `ModIndex`: `HakaModuleIndex.generate` (l. 362-419).
  - Module names are strings over `-`, `.`, `a`, `b`. `StrLess` is Python's
    order on strings (`-` < `.` < letters).
  - Init holds the sorts of l. 365-370, written as the sets of their
    possible results:
    - `ByLenDesc(p)`: the orders of the prefixes by descending length, with
      equal lengths kept in their configured order. Python's sort is stable,
      and `sorted(..., key=len, reverse=True)` keeps ties in place. (TLC's
      `SortSeq` with a strict comparison has no result when two prefixes
      are equally long.)
    - `SortedNames(D)`: the enumerations of the registry's names in
      `StrLess` order. The names are distinct, so there is exactly one.
  - One action per path through the loop body:
    - `Skip`: the `docnames` filter.
    - `ListTopLevel`.
    - `ListFirstSubmodule`: the package's entry becomes a group head
      (`GroupHead`, `entries[-1][1] = 1`).
    - `ListFirstSubmoduleIndexError`: `entries[-1]` of an empty bucket.
    - `ListOrphanSubmodule`: a dummy head.
    - `ListNextSubmodule`.
  - Each listing action includes the prefix stripping, with its swap-back
    when the whole name was stripped, and the `prev_modname` update.
  - `Finish` is `collapse`.
  - Synopsis, platforms, the deprecated qualifier and the anchor are copied
    fields, and are left out.
- `ModIndexProofs`: the TLAPS proofs about `ModIndex`.
- `MCModIndex`: two documents and registries over every subset of module
  names.
  - The pass run uses `a`, `a.a`, `a.b`, `b`, `b.a`; the dash run uses `a`,
    `a-b`, `a.b`.
  - The pass run's `modindex_common_prefix` settings are none, `a.` and
    `b.` together, and `a`. The dash run has no prefix, so its trace is the
    string-prefix test alone: `a-b` is listed top-level, then `a.b` follows
    it at subtype 2 with no group head.

## Runs

All runs are sequential. A block, a signature or an index is processed by
one call that returns, and a build ends once every document is read and
every reference is resolved. A build also stops when a duplicate object
description raises (`crashed` in `HakaDomain`). So `CHECK_DEADLOCK FALSE` is
set: the final states really stop. For `HakaDomain`, TLC confirmed this with
a `crashed /\ UNCHANGED vars` disjunct added to `Next` and the deadlock
check on: no other state of the domain run stops. No fairness is assumed and no liveness is claimed, since
nothing in this code waits on another actor. Each scan terminates because
every step moves its position forward.

| Run | cfg | Expect | Properties |
|---|---|---|---|
| parser | MCANSIColorParser.cfg | pass | `TypeOK`, `HtmlRendering`, `HtmlFailsExactlyOnBadCodes`, `ImplementsMatchWalk` |
| nested | MCANSIColorParser_nested.cfg | violation | `NestedStyles` |
| strip_non_sgr | MCANSIColorParser_sgr.cfg | violation | `StripRemovesOnlySgr` |
| unescape | MCUnescape.cfg | pass | `TypeOK`, `HandledEscapesDecode` |
| unescape_escapes | MCUnescape_escapes.cfg | violation | `EscapesDecode` |
| domain | MCHakaDomain.cfg | pass | `TypeOK`, `ModuleEntryConsistent`, `RegistryAnchored`, `LinksTargetAnchors` |
| modules_complete | MCHakaDomain_modules_complete.cfg | violation | `ModulesComplete` |
| nested_class | MCHakaDomain_nested_class.cfg | violation | `RefsCarryEnclosingClass` |
| arglist | MCArgList.cfg | pass | `TypeOK`, `NestedListsParse`, `StackIsPath` |
| sibling_optionals | MCArgList_siblings.cfg | violation | `BalancedListsParse` |
| modindex | MCModIndex.cfg | pass | `EveryModuleListed` |
| modindex_dash | MCModIndex_dash.cfg | violation | `SubmodulesUnderPackage` |

### What the passing runs show

- **parser** (120857 states). The HTML handler renders every character
  outside a match, in order, with the classes of the latest opening sequence
  not yet reset. It raises exactly when some match has a non-integer piece,
  or opens with a code outside `CODE_CLASS_MAP`. Both handlers implement
  `MatchWalk` under the mapping `Walk`.
- **unescape** (25088 states). With `:string_escape:`:
  - `\b`, `\n`, `\'` and `\xNN` below 128 decode as string-escape decodes
    them, and the two-digit `\x` run is taken greedily;
  - a text ending in a lone backslash raises ValueError.
- **domain** (1306260 states, about 1 min). Two documents are edited,
  cleared and re-read in any order, up to the end of the build or the crash
  of a duplicate object description. Through all of it:
  - every module entry of `objects` has its `modules` entry in the same
    document, which is the `assert` of l. 548;
  - every registry entry names a document whose doctree has the entry's id;
  - every link `resolve_xref` makes points to an existing id.
- **arglist** (52940 states, 30 s). A list in the nested notation
  `a[, b[, c]]` raises exactly when its brackets do not balance. Otherwise
  every parameter lands in the `desc_optional` its brackets enclose it in, at
  the depth they give. For every list, the stack is a path of the tree.
- **modindex** (14652 states). For every registry, every `docnames` filter
  and every prefix setting, a finished index lists each selected module
  exactly once, under its full name and with its document, and no other
  module.

Every action and every branch of every next-state relation fires in a
passing run.

### The bounds

- Two documents are enough for every interaction of the registry: one
  document's `clear_doc` against another's entries.
- Names of one or two segments over two letters make qualified names,
  module names and suffixes collide.
- Lists of 7 characters hold three nested groups or two sibling ones.
- Texts of 4 characters hold `\xNN` and two adjacent escapes.

### What the violations show

Each of these runs has its entry in `findings`.

- `NestedStyles`: ESC[1m ESC[31m x renders red only. The styles are
  siblings, not nested.
- `StripRemovesOnlySgr`: ESC[[m is removed although `[` is no SGR code.
- `EscapesDecode`: `\1`, `\\` and `\e` raise TypeError at l. 201, through
  the str/int comparison.
- `ModulesComplete`: a module described in two documents drops out of the
  registry when the document that wrote it last is re-read without it.
- `RefsCarryEnclosingClass`: after a nested class, references in the outer
  class carry no class.
- `BalancedListsParse`: `[x][,x]` raises IndexError. The trailing `]` loop
  runs before the trailing `[` loop.
- `SubmodulesUnderPackage`: after `a-b`, the submodule `a.b` is listed in
  `a-b`'s group without a group head. This comes from the string-prefix test
  of l. 397.

Four more properties are stated in the modules and kept out of the runs. TLC
finds each of them violated; the hazards of PROJECT.json give their
counterexamples.

- `StripIdempotent` (ESC ESC[1m[2m strips to ESC[2m).
- `AcceptedListsBalance` (`[][` is accepted).
- `IndexNeverRaises` (the prefix `a` without its dot and the module `a.a`
  make `entries[-1]` raise IndexError).
- `CollapseAsCommented` (`collapse` counts the modules that `docnames`
  filtered out, contrary to the comment of l. 411-413).

With the inputs `MCHexInputs`, TLC gives `EscapesDecode`'s other counterexample:
`\xb1` raises UnicodeDecodeError at l. 200.

### Mutants

Each property of a passing run has a mutant of the code it is about, and
TLC finds it. Among them:

- the text goes to the first pending node;
- `last_end` is off by one;
- `\x` takes one hex digit;
- the search resumes past the match;
- a module's `objects` entry is written under `:noindex:`;
- the object id leaves out its module;
- `resolve_xref` links modules to a `haka-` id;
- the trailing `[` and `]` loops are swapped;
- the new optional ids are off by one;
- every new optional is added to the old top, not to the one below it;
- the styling handler raises on a reset with an unknown code;
- an index entry loses its stripped prefix.

## Proofs

TLAPS proves these theorems for every value of the constants:

- `ANSIColorParserProofs`: `TypeCorrect: Spec => []TypeOK`.
  - Init is typed because `Inputs \subseteq Seq(Chars)`.
  - A shared step shows that the match found from `lastEnd` ends within the
    block. It rests on `NatMin` (from `WellFoundedInduction`),
    `NextMatchStartType` and `MatchEndType`.
  - The class names of a new node come from `CODE_CLASS_MAP`, because
    `ScanOpen` is guarded by `~HasUnknownCode`.
- `ANSIColorParserProofs`: `ImplementsWalk: Spec => Walk!Spec`, the
  refinement of `MatchWalk` (the property `ImplementsMatchWalk`).
  - Init maps to `Walk!Init`: `lastEnd = 1`, and `HandlerOfBuilder` gives
    `styled` from the builder's choice of handler.
  - `WalkScannerSame`: the instance's copies of the scanner operators
    (`Walk!NextMatchStart`, `Walk!MatchEnd`, `Walk!IsBadMatch`, ...) equal
    the originals, since both take them from `AnsiScanner`.
  - Each step maps to an abstract step or a stutter. `IterationAdvances`:
    `ScanReset`, `ScanOpen` and `StripScan` are `Advance`.
    `ExceptionRaises`: `ScanValueError` and `ScanKeyError` are `Raise`.
    `LoopEndStops`: `Finish` and `StripFinish` are `Stop`. The steps that
    build nodes change no mapped variable and stutter.
  - It needs `TypeOK` and nothing more, from `TypeCorrect`.
- `ArgListProofs`: `TypeCorrect: Spec => []TypeOK` and
  `StackAlwaysPath: Spec => []StackIsPath`, for every argument list.
  - Neither invariant is inductive alone. The inductive invariant is
    `IInv == TypeOK /\ IsTree(parent) /\ IsPath(parent, stack)`:
    `TypeOK` needs the stack's ids to be at most `Len(parent)`, which only
    holds because every push appends fresh ids, and `StackIsPath` needs
    `IsTree`, that every node hangs under a smaller id. TLC checked `IInv`
    on every state of the arglist run (inputs up to length 7) first.
  - `IsPath` states `path[r] > 0` for `r > 1`: `parent` has no entry for
    the root 0, so only the first element of the stack may be 0.
  - `ScanType` shows that the four bracket counts and the name of a
    parameter account for every character `Scan` reads.
  - `PushKeepsPath`: appending `Chain(Top(S), ...)` to `parent` and the new
    ids to `stack` keeps the tree and the path. The core is `PushCore`,
    stated over plain functions so that the provers need no sequence facts.
    `PopKeepsPath`: `stack[:-c]` keeps a path. `PushPop` composes the two.
  - `ParseArgumentKeeps` walks through one `ParseArgument` step: the push
    and pop of the brackets before the name, the new parameter node, and
    those after it. The bound on `pos` comes from `ScanType`'s count.
  - `Cut` and `Rank` are shown typed through the injectivity of the rank of
    a comma (`RankInjective`, via `FS_Injection`).
- `HakaDomainProofs`: `TypeCorrect`, `ModuleEntriesPaired`
  (`[]ModuleEntryConsistent`), `RegistryNeverStale` (`[]RegistryAnchored`)
  and `LinksAnchored` (the action property `LinksTargetAnchors`).
  - The inductive invariant is
    `Inv == TypeOK /\ ModuleEntryConsistent /\ RegistryAnchored`.
  - `RegistryAnchored` covers the silent overwrites of a module
    directive (l. 294-299). Those move an entry to the document being read,
    together with its `module-` id, even when the name was an object of
    another document.
  - `RegistryAnchored` is stated over `DocIdsNow(d)`, the ids of the doctree
    being read for the current document, and the stored ids for the others.
    Stated over the stored ids alone, it would not even hold during a read:
    `add_target_and_index` writes the registry before the read stores its
    ids.
  - `InvStep` has one step per action:
    - after `ReadBegin`'s `clear_doc`, every entry left names another
      document, whose ids are unchanged;
    - `ReadModule` writes the two entries of a module together;
    - `ReadObject` adds its id with its entry (the name had none);
    - `ReadObjectDuplicate` raises before it writes anything;
    - `ReadFinish` stores the ids that `DocIdsNow` already named.
  - `LinksAnchored` follows because `find_obj` returns only registered names
    (lemma `FindObjDomain`), and `Resolve` runs with no document open
    (`ResolveAnchored`).

- `UnescapeProofs`: `TypeCorrect: Spec => []TypeOK` for `Unescape`. The
  scan of `regex.sub` never searches past the end of the text. The result
  is a string of code points, and the only exceptions raised are
  ValueError, TypeError and UnicodeDecodeError.
  - `TypeOK` is inductive as it stands. Only `Substitute` needs an argument:
    it moves `p` past the group the regex matched.
  - `RunSpec` characterises the `CHOOSE` in `Run`: the greedy repetition
    stops inside the text. The stop is the least one, by `LeastNat` from
    `WellFoundedInduction`.
  - `GroupShape` follows the alternatives of the regex. The group lies in
    the text, and an `x` group holds one or two hex digits (`HexGroup`,
    from `SubSeqProperties` and `HeadTailProperties`).
  - `ReplaceType` walks through `replace`'s branches with that shape:
    `int(b[1:], 16)` is a natural (`HexValueNat`).
- `ModIndexProofs`: `ModulesListedOnce: Spec => []EveryModuleListed`.
  This holds for every registry, every `docnames` filter and every
  `modindex_common_prefix`.
  - `EveryModuleListed` only speaks of the final state, so it is not
    inductive. The inductive invariant `IInv` says the same of every
    iteration (`ListedOnce`). A module `order[q]` with `q < i` that the
    filter selects has exactly one entry with a document, and that
    entry carries the module's document. Every other module has none.
    - `BucketsOK` bounds each bucket by `2 * (i - 1)` entries: an
      iteration appends at most two entries. This keeps every entry inside
      the range `Hits` quantifies over.
    - TLC checked `IInv` on every state of the modindex run first.
  - `SortedNamesEnumerate`: the sorted module list is an injective
    enumeration of the registry onto its names (`FS_Injection`). So the
    module of iteration `i` was not listed before, and at the end every
    module has been seen. The registry is finite, as a Python dict is
    (`RegistriesAssumption`).
  - `StripJoin`: `stripped + modname` is the module's full name again,
    whether a prefix was stripped, none was, or the swap-back of l. 386-387
    restored the whole name. `FirstIgnoreSpec` characterises the loop over
    `ignores` through `LeastNat`.
  - `HitsAfterList`: a listing step adds exactly one hit, at the new last
    place of its bucket.
    - The entries before it keep their names and documents.
      `MakeGroupHead` shows this for the group head: it only changes the
      subtype.
    - A dummy head has no document (`ExtendsDummy`).
  - `ListKeeps` is the step shared by the four listing actions. `SkipKeeps`
    covers the filter. The `IndexError` and `Finish` steps change nothing
    that is listed (`FrozenKeeps`).
  - The proof holds whatever the prefix settings are. The dash run's
    misplaced submodule is a matter of grouping
    (`SubmodulesUnderPackage`), not of listing.

What stays with TLC, and why:

- Properties about what a scan computes (`HtmlRendering`,
  `HandledEscapesDecode`, `NestedListsParse`) relate the actions to
  recursive reference definitions (`MatchList`, `Decodings`, `NodeDepth`). Proving them for every
  input needs induction over data with an operator parameter, which the
  installed provers cannot instantiate. `HtmlFailsExactlyOnBadCodes`
  quantifies over all matches of the text in the same way.
- No fairness is stated and no liveness is claimed. Every handler runs
  sequentially to the end of its loop, and the bounded inputs make every
  behaviour finite, so there is no scheduling to assume. Nothing is left to
  LS4 beyond the `[]`-combinations.

## Not modelled

- `add_stylesheet`, `copy_stylesheet`, `setup` (both files): registration
  with Sphinx and a file copy.
- The Python 2 branch of `ANSIBlockDirective.run`. It calls the
  interpreter's `string_escape` codec, which is not code of this repository.
- The composition of `ANSIBlockDirective.run` with `ANSIColorParser`. The
  directive only hands its text to the parser, and the parser is checked for
  every input over its alphabet.
- `get_signature_prefix`, `get_index_text`, `get_objects`, `needs_arglist`
  and all node layout: formatting and reads that change no state.
- `lua_signature_re` itself. `HakaDomain` keeps its outcome (a name, or
  ValueError), and `ArgList` the argument list it captures.
- The `:noindex:` option of object directives, and the class prefix of a
  signature, which reaches no registry entry.

## Plan

All parts named in the inventory are modelled. The invariants that need no
recursive reference definition are proved. What remains:
- an action property of `ArgList` (a step never removes a node of
  `parent`), from `IInv`;
- the recursive references (`MatchList`, `Decodings`, `NodeDepth`), which
  could be rewritten as recursive functions in modules of their own, so
  that lemmas about single steps of them can be stated.
