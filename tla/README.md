# TLA+ verification of `tools/compare_dacpacs.py`

`src/tools/compare_dacpacs.py` decides whether two dacpac packages (a rust-built
one and a dotnet-built one) describe the same database schema. It ignores element
order, the Disambiguator sequence numbers and Origin.xml. This directory holds
TLA+ models of its comparison core, TLC runs that check them on small instances,
and TLAPS proofs that hold for every value of the constants.

## 1. Inventory

The program is a single-threaded batch run. No callbacks, no shared mutable state,
no persistence. What is hard is not interleaving. It is (a) the *identity* of
elements that have no name, (b) the *order independence* the tool promises at
every level (siblings, elements, entries, annotations), and (c) the loops that
build dicts with last-write-wins.

| Component | Code (lines) | State it keeps | Operations | Correct when |
|---|---|---|---|---|
| Canonicalizer | `strip_ns`, `xml_to_canonical`, `compare_simple_xml` (22-108) | none (pure) | signature of a node; recursive flatten, children sorted by signature | status is independent of sibling order |
| Identity Resolver | `get_ref_name`, `element_key` (113-152) | none | key = (Type, Name) / DefiningTable+ForColumn / +DefiningColumn / DefiningTable / (Type,) | equal elements get equal keys |
| Fingerprint Engine | `inline_element_fingerprint` (200-240) | none | recursive signature of an inline element | independent of serialization order |
| Element Differ | `get_properties`, `get_relationships`, `get_annotations`, `diff_element` (162-322) | none | three phases: properties, relationships, annotations | reports a change iff the elements differ (Disambiguator excluded) |
| Model Differ | `compare_model_xml` (365-428) | two dict indexes, duplicate lists, key sets, differences | index loop per side, set differences, diff loop over common keys | missing/extra/differences describe the documents; duplicates are warned about |
| Header Differ | `compare_header` (325-362) | CustomData index per side | index by (Category, Type), per-block metadata diff | "ok" iff the headers agree |
| Report Aggregator / driver | `main`, `print_report`, `compare_text_files` (44-63, 431-600) | `file_results` dict, `has_diffs` | per-file status, unexpected files, model.xml presence, exit code | exit 0 iff no tracked artifact differs |
| I/O | `extract_dacpac`, `list_files`, argparse (29-41) | temp directory | — | out of scope (spec section 1) |

How the parts interact: `main` calls the Canonicalizer and the text comparison
per file, then `compare_model_xml`. That runs the Header Differ, then the Model
Differ. The Model Differ calls the Identity Resolver for each element and the
Element Differ for each common key. The Element Differ reaches the Fingerprint
Engine through `get_relationships` for inline entries. `main` folds all results
into the exit code.

Hazards (the full list, each at its line, is `hazards` in PROJECT.json):

- Last write wins in `index_elements` (391) and in `compare_header` (337).
- Key collisions from the `element_key` fallbacks (148).
- Multiplicity dropped by set differences: relationships (293) and annotations (309).
- `.get()` defaults hide valueless properties (271) and empty relationships (286).
- The signature sort in `flatten` ignores subtrees (93).
- `str(dict)` order in the fingerprint (238).
- Unescaped separators in signatures (74, 145, 189).
- Both model.xml files missing gives exit 1 (579).
- A binary unexpected file aborts the run (53). CompareRun models the abort as its
  `Raise` step. No run checks the spec's rule that per-artifact failures are captured.

## 2. Modules

| Module | Models | Used by |
|---|---|---|
| PyDict | `d.get`, `d[k] = v`, the last-write dict of a child loop | every module |
| DacElements | Identity Resolver and Element Differ (pure operators) | ModelDiff, CompareRun |
| ModelDiff | Model Differ loops, one step per iteration | MC_ModelDiff, proofs |
| ModelDiffAbstract | the Model Differ's one-step contract | ModelDiff (refinement), CompareRun |
| HeaderDiff | Header Differ loops | MC_HeaderDiff, CompareRun |
| HeaderDiffAbstract | the Header Differ's one-step contract | HeaderDiff (refinement) |
| Canonicalizer | `strip_ns`, `xml_to_canonical`, `flatten`, `compare_simple_xml` (pure, RECURSIVE) | SimpleXmlCompare, CompareRun |
| SimpleXmlCompare | one call of `compare_simple_xml` | MC_Canonicalizer |
| Fingerprint | `inline_element_fingerprint` (RECURSIVE) | MC_Fingerprint |
| CompareRun | `main` and `compare_text_files`, composing the comparators | MC_CompareRun |
| ModelDiffProofs, ModelDiffRefinementProofs, ModelDiffReportProofs | TLAPS theorems about ModelDiff | — |
| HeaderDiffProofs | TLAPS theorems about HeaderDiff | — |

The modules that tlapm checks (DacElements, PyDict, ModelDiff, ModelDiffAbstract,
HeaderDiff, HeaderDiffAbstract and the proof modules) reach no RECURSIVE operator.
Canonicalizer, Fingerprint and CompareRun recurse over trees and are used by TLC only.

## 3. What is modelled, and how

### DacElements.tla

An `Element` is the record the parser gives the functions: `type`, `name` (or
`None`), and `props`, `rels`, `anns` as sequences in document order. Document order
matters to the code in two places: `get_ref_name` takes the *first* Relationship
of a name, while the dict loops keep the *last*. An `Entry` is a reference
(target, external source), an inline element represented by its fingerprint, or
neither. `get_properties`, `get_relationships` and `get_annotations` become
`GetProperties`, `GetRelationships` and `GetAnnotations`. The sorted annotation
list becomes a bag (value → count), because two sorted lists are equal exactly
when they are equal as bags. `str(a)` of its elements is the bag's DOMAIN. The
f-string keys and entry strings are tuples. `DiffElement` is the union of
`PropDiffs`, `RelDiffs` and `AnnDiffs`, each a transcription of one phase with
its guards (`val_a != val_b` on `.get()` values, `entries_a != entries_b` on
`.get(name, [])`, the sorted-list test and then `only_rust or only_dotnet`).
`element_key` tests its references by Python truthiness (`Truthy`: neither None nor
`""`), so a reference with an empty Name falls through to the next key form.
`SameElement` is the reference meaning of "same element" taken from spec 3/4.4.
`SameContent` is the weaker sameness the differ can see.

### ModelDiff.tla and ModelDiffAbstract.tla

Variables: `doc` (the two `<Model>` element lists, chosen in Init), `pc`, `side`,
`i` (loop position), `idx` and `dup` (what `index_elements` returns per side),
`pending` (common keys not yet diffed), `missing`, `extra`, `differences`.
Actions: `IndexElement` (one iteration of lines 387-391), `IndexDone` (end of a
loop: switch to dotnet, or compute the key sets of 406-411), `DiffCommon` (one
iteration of 415-418), `DiffDone`, and `Finished` (the function has returned).
The diff loop visits keys in display order. The model lets any pending key go
next, which is sound because the result is a set.

`ModelDiffAbstract` is what `compare_model_xml` promises about elements, in one step
`Compare`. `Index(d)` maps each key to the last element with it, and
`CompareResult(da, db)` gives the two key-set differences and the non-empty diffs of
the common keys. It takes `element_key` and `diff_element` as constant-operator
parameters, so the contract holds for any key and any diff. ModelDiff instantiates
it with its own `ElementKey` and `DiffElement`.

The refinement mapping, at the end of ModelDiff:
- the abstract `done` is `pc = "done"`;
- the abstract result is the detailed one once the function has returned, and empty
  before.

Every index and diff step is then an abstract stutter, and `DiffDone` is the abstract
`Compare`.

### HeaderDiff.tla

- `hdr`: the two `<Header>` elements, each `NoHeader` or a sequence of CustomData
  blocks.
- `IndexBlock`: one iteration of `index_custom_data`. The key is (Category, Type) and
  the value is the last-write dict of the Metadata.
- `IndexDone`: ends the rust loop, then the dotnet one, and builds `all_keys`.
- `DiffKey`: one key of the loop. The lines it writes are given by `KeyDiffs`:
  missing in dotnet, missing in rust, or a label line plus one line per metadata name
  whose `.get()` values differ.
- `DiffDone`: returns the status, which is ok when no line was written.
- `HIndex(h)` is the last-write index as a definition, used by the properties.

### HeaderDiffAbstract.tla

The contract of `compare_header` in one `Compare` step. `Index` says what
`index_custom_data` returns (each key to the metadata of its last block).
`HeaderLines` says which lines the diff of two indexes has:
- a missing line for each key on one side only;
- a label line for each common key whose dicts differ (`Changed`);
- one line per metadata name of such a key whose `.get()` values differ
  (`ChangedMetas`).

The status is ok iff there is no line. How a block is read is a parameter
(`CustomData`, `BlockKey`, `Metas`). HeaderDiff instantiates it as `HAbs`:
- `done` is `pc = "done"`;
- `lines` is `diffs` once the function has returned, and `{}` before;
- `hdr` and `status` are the same.

The index and key steps are abstract stutters, and `DiffDone` is `Compare`.

### Canonicalizer.tla and SimpleXmlCompare.tla

A node is a record: namespace, tag, attribute dict, text (None, or a word that may
be padded) and children.

- `XmlToCanonical` is the signature, as a tuple.
- `Flatten` is the recursive flatten, and `SortBySig` a stable insertion sort.
- Python orders signature strings; the model orders them by their rank in a fixed
  listing of the signatures. Whether two flattened lists are equal does not depend on
  which total order is used: both sides use the same order, and the path of each pair
  marks where a subtree starts.
- `CompareSimpleXml` is the whole function, existence checks included.
- `SimpleXmlCompare` is a single call as a state machine (`Compare`, `Returned`).
- `Unordered(n)` is the reference: a node's signature with the bag of its children's
  `Unordered`. Two documents are reorderings of one another iff their `Unordered`
  are equal.

### Fingerprint.tla

`InlineElementFingerprint(e)` is a tuple of four parts:
- the Type;
- the bag of the `P` parts;
- the bag of the `R` parts, where a nested inline element contributes its own
  fingerprint, tagged `inline`, and a reference its name or `name@ext`, tagged `ref`;
- the bag of the `A` parts.

A sorted list is a bag because two sorted lists are equal iff they hold each value
equally often. The `A` part holds `DictStr`: the `str()` of the annotation's
property dict, which is the sequence of its items in first-insertion order with
Disambiguator removed. The variables hold one inline element per side, and their
fingerprints once computed.

`SameInline` is the reference: a recursive "equal up to the order of properties,
entries and annotations", built from bijections (`Functions!Bijection`).

### CompareRun.tla

`dir[s][f]` is the content of file `f` on side `s`, or `Absent`. The content depends
on the file:

| File | Content |
|---|---|
| simple XML | a Canonicalizer node |
| text | a sequence of lines, each a word with or without trailing whitespace, or `Binary` |
| model.xml | a record holding a header and an element list |

The actions follow `main` in order:

| Action | Lines | What it does |
|---|---|---|
| `SkipOrigin` | 522 | records Origin.xml as ok without reading it |
| `CompareSimple`, `SimpleDone` | 524-532 | the simple-XML loop |
| `CompareText` | 534-542 | the text-file loop |
| `Unexpected` | 544-562 | lists the unexpected files; a second label is used when the first is taken |
| `CompareUnknown` | 563-571 | one file of `unknown_both` per step |
| `CompareModel` | 573-582 | the model.xml branch and its elif chain |
| `Exit` | 586-600 | `has_diffs`, then the exit status |
| `Raise` | 53-56 | the UnicodeDecodeError a non-text file raises while it is read; nothing catches it, and the process ends with status 1 |

The comparators are composed by what they were shown to compute. Simple XML goes
through `CompareSimpleXml` (Canonicalizer). The header status is "ok" iff the two
`HIndex` agree, which HeaderReportCorrect proves of HeaderDiff's loops. The
elements go through `ModelDiffAbstract!CompareResult`, which ModelDiff is proved to
implement. The instances of HeaderDiff and ModelDiffAbstract bind their variables to
constants; only their constant operators are used.

## 4. Runs

| Run | Expect | Checks |
|---|---|---|
| `model_diff` (MC_ModelDiff.cfg) | pass | TypeOK, IndexIsLastWrite, DuplicatesWarned, ReportSound, ChangesReported, Refinement |
| `ann_count` (MC_ModelDiff_AnnCount.cfg) | violation | AnnotationChangesReported |
| `hollow_members` (MC_ModelDiff_Hollow.cfg) | violation | MemberNamesReported |
| `header_diff` (MC_HeaderDiff.cfg) | pass | TypeOK, HeaderReportExact, ChangedKeysExplained, HeaderRefinement |
| `header_dup_block` (MC_HeaderDiff_DupBlock.cfg) | violation | HeaderOkMeansSameBlocks |
| `canonicalizer` (MC_Canonicalizer.cfg) | pass | SimpleXmlVerdict |
| `canon_ties` (MC_Canonicalizer_Ties.cfg) | violation | SiblingOrderIrrelevant |
| `fingerprint` (MC_Fingerprint.cfg) | pass | FingerprintExact |
| `fp_ann_order` (MC_Fingerprint_AnnOrder.cfg) | violation | InlineOrderIrrelevant |
| `compare_run` (MC_CompareRun.cfg) | pass | TypeOK, ExitCodeCorrect, MissingFileDetected |
| `no_model_reflexive` (MC_CompareRun_NoModel.cfg) | violation | Reflexivity |

### Bounds, and why they are enough

- **ModelDiff**: documents of at most 2 elements (MaxLen = 2) over 8 elements. The
  elements are:
  - a named table in three versions (entries reordered; a property value and an entry
    changed);
  - a default constraint keyed by DefiningTable+ForColumn, whose annotation differs
    only in Disambiguator or in a real property;
  - a check constraint keyed by DefiningTable alone;
  - a singleton.

  Two elements are enough for every shape: a duplicate key inside one document, a key
  on one side only, and a key on both sides with each diff phase. All 5,329 document
  pairs are explored (45,684 states). Refinement is checked on the same run.
- **HeaderDiff**: headers of at most 2 blocks over 6 blocks. They include a
  duplicated key, a key on one side only, a changed metadata value, a metadata name
  written twice, an empty block, and a block whose only Metadata has an empty Value.
  That covers every branch of `KeyDiffs`. It also covers a metadata name that is
  present on one side only, with the empty value that a default of `""` would
  confuse with absence (18,340 states).
- **Canonicalizer**: DacType roots with at most 2 children. The children are Name
  leaves (one in no namespace, one padded), a Version leaf, and two Ref nodes with
  one signature and different children, so depth 3. This covers namespace
  stripping, text trimming, reordering, and ties under the stable sort (3,872
  states).
- **Fingerprint**: 120 inline elements, each combining one choice from each list:
  - properties: none, two in either order, or a changed value;
  - Columns entries: none, two references in either order, a nested inline element
    before or after a reference, or a different nested element;
  - annotations: none, two properties in either order, or a property with a
    Disambiguator on either side.

  All pairs are explored (57,600 states). External sources are not among the
  values.
- **CompareRun**: the content sets differ per side, so that the 13,824 directory
  pairs still give every file each status its comparator returns:
  - simple XML: None, missing on either side, ok by reordering, different;
  - text: equal after rstrip, different, missing on either side;
  - model.xml: absent, equal, different header, different element;
  - unexpected files: on one side, on both sides, or a binary file on one side.

  142,848 states.

### Properties

- **IndexIsLastWrite**: each index maps every key seen so far to the *last* element
  with that key, and holds no other key.
- **DuplicatesWarned**: the number of duplicate warnings equals the number of
  elements the index lost.
- **ReportSound**: when neither document has duplicate keys, any reported missing,
  extra or different element means the documents really hold different elements.
- **ChangesReported**: every change in the valued properties, in the entry sets of
  non-empty relationships, or in the set of annotation values of a common element
  is reported.
- **Refinement**: ModelDiff implements `ModelDiffAbstract!SafetySpec` under the
  mapping. TLC checks it as a safety property.
- **HeaderReportExact**: the keys with diff lines are exactly the keys where the two
  last-write header indexes disagree, and the status is ok iff the indexes are
  equal.
- **ChangedKeysExplained**: every label line of a changed block comes with at least
  one metadata line for that block. This holds because `.get(mk)` gives None for an
  absent name.
- **HeaderRefinement**: HeaderDiff implements `HeaderDiffAbstract!SafetySpec` under
  the mapping `HAbs`. The lines returned are exactly the contract's lines, in
  whatever order `all_keys` is visited.
- **SimpleXmlVerdict**: `compare_simple_xml` says ok only for documents equal up to
  sibling order, and says ok for all of them when no node has two children with one
  signature.
- **FingerprintExact**: two inline elements get one fingerprint iff they are equal up
  to the order of properties, entries and annotations, provided no annotation has
  two properties besides Disambiguator.
- **ExitCodeCorrect**: the exit status is 1 iff a simple XML file differs up to
  sibling order, a text or unexpected file differs after rstrip or exists on one
  side, or model.xml differs in presence, header index or element result. Checked
  when model.xml exists on some side and the simple XML files have distinct sibling
  signatures.
- **MissingFileDetected**: a tracked file on one side only gets the status naming the
  other side. The unexpected files of each side get their own label.

- **MemberNamesReported** (checked by the `hollow_members` run, which is expected
  to fail): a property or relationship name on one side only, in a common element,
  is reported.

Each property of a passing run has a mutant in PROJECT.json that TLC catches under
the run's cfg:

| Property | Mutant |
|---|---|
| ModelDiff TypeOK | the position `i` not reset |
| IndexIsLastWrite | first write wins |
| DuplicatesWarned | the duplicate test after the assignment |
| ReportSound | relationships compared as lists |
| ChangesReported | annotation types compared by count |
| Refinement | missing and extra swapped |
| HeaderDiff TypeOK | the loop position not reset |
| HeaderReportExact | keys on both sides never compared |
| ChangedKeysExplained | metadata read with `.get(mk, "")` |
| HeaderRefinement | only the rust block's metadata names compared |
| SimpleXmlVerdict | children not sorted |
| FingerprintExact | property parts not sorted |
| CompareRun TypeOK | the `status is not None` guard dropped |
| ExitCodeCorrect | `differences` left out of `has_diffs` |
| MissingFileDetected | dotnet-only files under the first label |

### Findings

All are disagreements between the code and the spec.

- **ann_count** (line 309): two annotations of one type that differ only in
  Disambiguator, against one, are reported identical. Spec 4.4 says a count note
  should be given.
- **hollow_members** (271, 286): a Property with no value reads like an absent
  one, and so does a Relationship with no entries. A table that has both is
  reported identical to the same table without them. Spec 4.4 says a property name
  on one side only is reported, and so is a relationship name, with a count-only
  entry. One counterexample shows both.
- **header_dup_block** (337): a duplicated CustomData block is shadowed without a
  warning, and the headers compare ok. This is against 4.6, and section 3 says
  duplicates are warned about.
- **canon_ties** (93): siblings with one signature and different subtrees, when
  swapped, make the simple XML files compare different (against section 8).
- **fp_ann_order** (238): the order of an annotation's properties changes the
  fingerprint (against 4.3).
- **no_model_reflexive** (579): two identical directories without model.xml exit 1
  (against section 8, reflexivity).

### Fairness

Every `Spec` has `WF_vars(Next)`. The program is one sequential thread that always
takes its next step. No liveness property is checked: every loop of the script runs
over a finite list, so that it returns says nothing about the code.

## 5. Proofs (checked by tlapm)

ModelDiffProofs.tla:

- **TypeCorrect**: `Spec => []TypeOK`. TypeOK is inductive by itself. The lemmas
  are `DocsAreSeqs` (documents are sequences of elements) and `PutDomain` (what a
  dict assignment does).
- **IndexCorrect**: `Spec => []IndexIsLastWrite`. The inductive invariant is
  `IInv == TypeOK /\ IndexIsLastWrite`. TypeOK is needed because the step case
  uses `i \in 1..Len(doc[side])`. The step rests on `LastWriteStep`: if `f` is the
  last-write dict of the first n elements of d, then `Put(f, key(d[n+1]), d[n+1])`
  is the one of the first n+1.

ModelDiffRefinementProofs.tla:

- **Refines**: `Spec => Refinement`, that is, ModelDiff implements
  `ModelDiffAbstract!SafetySpec` for every value of the constants. The argument:
  - The inductive invariant is `RInv == IInv /\ ResultInv`. `ResultInv` says:
    - before the key sets are computed, `differences` is empty;
    - afterwards, `missing` and `extra` are the set differences of the two indexes,
      `pending` is a subset of the common keys, and `differences` maps exactly the
      visited common keys with a non-empty diff to their diff.
  - `DiffCommonResult` shows one diff step keeps this. Taking one key out of
    `pending` adds it to the domain exactly when its diff is non-empty.
  - `LastWriteIsIndex` shows that a dict that is the last-write index of a whole
    document equals the abstract `Index`, whose `CHOOSE` picks the one last position
    of the key. From it, `IndexesAreAbstract` shows that both indexes are the
    abstract ones once the loops are over.
  - `NextRefines` shows every step is an abstract stutter except `DiffDone`, which
    is `Compare`.
  - RInv was checked as a TLC invariant on the model_diff instance before it was
    proved.

ModelDiffReportProofs.tla:

- **DuplicatesCounted**: `Spec => []DuplicatesWarned`. The inductive invariant is
  `WInv == IInv /\ FiniteIndexes /\ DuplicatesWarned`. `FiniteIndexes` says each
  index has a finite key set. It is needed because `Cardinality` is only known on
  finite sets. An index step either adds a new key, so the key count grows by one
  (`FS_AddElement`), or meets a known key, so the duplicate list grows by one
  (`IndexElementWInv`).
- **ChangesAlwaysReported**: `Spec => []ChangesReported`. The invariant is
  `CInv == RInv /\ (pc = "done" => pending = {})`. RInv alone does not say that
  the diff loop has visited every common key by the time the function returns. The
  step from the invariant to the property is `DiffElementSeesContent`: a pair that
  `SameContent` tells apart has a non-empty `diff_element`. It rests on one lemma
  per part of the differ:
  - `PropDiffsSeeValues`: a valued property that differs gives a `.get()`
    difference;
  - `RelDiffsSeeEntrySets`: a relationship name whose entry sets differ, or that
    has entries on one side only, is reported. It uses `EntryStringsEmpty`: an
    entry list is empty iff it holds no string;
  - `AnnDiffsSeeValues`: an annotation value on one side only makes the sublists
    of its type differ.
- **NoFalseAlarm**: `Spec => []ReportSound`. It follows from RInv. With no
  duplicate keys, the index holds each key's only element. Every rust element has
  a dotnet element that is the `SameElement`, so the key sets are equal. The
  dotnet element under a key is the one SameElement pairs with the rust element,
  and `SameElementNoDiff` gives an empty diff for such a pair. Only the dotnet
  side's lack of duplicates is used.

HeaderDiffProofs.tla:

- **HeaderTypeCorrect**: `Spec => []TypeOK` for HeaderDiff. HeaderDiff's TypeOK is
  not inductive by itself: `pending \subseteq` the index keys needs
  `pending = {}` while the indexes still grow.
- **HeaderReportCorrect**: `Spec => []HeaderReportExact`. The inductive invariant
  `HInv` has these parts:
  - TypeOK;
  - both indexes are last-write dicts of the blocks visited so far (`HLastWrite`,
    and its step lemma `HLastWriteStep`);
  - during indexing nothing is written and nothing is pending;
  - afterwards, the first components of the lines written are exactly the visited
    keys that differ (`KeyDiffsKeys`: every line is about the key visited, and a key
    gets lines iff it differs);
  - the status is set from `diffs` when the function returns.

  `HLastWriteIsIndex` identifies each final dict with `HIndex`. HInv was checked
  as a TLC invariant on the header_diff instance before it was proved.
  HeaderReportExact compares the index entries directly (`k` on one side only, or
  `ia[k] # ib[k]`), not through `.get()`. That is the same set, and it does not
  depend on `None` differing from every metadata dict.
- **HeaderRefines**: `Spec => HeaderRefinement`. It needs more than HInv.
  `DInv` says that after indexing, `diffs` is the union of `KeyDiffs` over the keys
  visited so far: the lines themselves, not only their keys. `LInv == HInv /\ DInv`
  is inductive (`NextLInv`), and it was also checked by TLC on the header_diff
  instance. `LinesUnion` proves that the union of `KeyDiffs` over `all_keys` is the
  contract's `HeaderLines`. The proof compares the two sets in both directions, one
  case per branch of the code. `IndexesAreAbstract` identifies the final dicts with
  the abstract `Index`. `NextHRefines` then maps `DiffDone` to `Compare` and every
  other step to a stutter.
- **HeaderChangesExplained**: `Spec => []ChangedKeysExplained`, from LInv. A label
  line means that the key's two dicts differ. Both dicts are dicts of strings
  (`IndexValuesAreDicts`, `MetasAreStrings`). `GetDiffers` then gives a name whose
  `.get()` values differ: a name on one side only reads None on the other, and
  `NoneAssumption` says None is no string. `MetasAreStrings` needs the last Metadata
  child of each name to exist (`LastNamedExists`). This comes from
  `LargestPosition`, which follows from `NatLessThanWellFounded` and `WFMin` of
  WellFoundedInduction: these take a relation, not an operator, so the provers can
  use them.

Assumptions: `NoneAssumption` (None is no real name or value), `ElementsAssumption`
and `MaxLenAssumption`; for HeaderDiff, `MaxBlocksAssumption`. The proofs do not
depend on the sizes of the sets.

Only model-checked:

- Everything about the Canonicalizer, Fingerprint and CompareRun (SimpleXmlVerdict,
  FingerprintExact, CompareRun's TypeOK, ExitCodeCorrect, MissingFileDetected).
  These are recursive over trees. tlapm loses its SMT backend in a module that
  reaches a RECURSIVE operator, and induction over data is beyond the installed
  provers.

## 6. Not modelled, and why

- Archive extraction, directory listing, argparse and the temp directory: I/O that
  the spec puts out of scope. A directory is a function from names to contents.
- `print_report`, the unified diff texts and the duplicate WARNING texts: output
  formatting. The 50-line truncation only affects what is printed.
- XML parsing. A parse error is the abort the spec allows. A model.xml without
  `<Model>` aborts the run with AttributeError (line 387); this is recorded as a
  hazard.
- Character-level strings. The separators of the signatures (`|`, `=`, `,`, `@`)
  are not escaped in the code, so crafted names can collide. The model treats names
  as opaque values and the encodings as injective, so that hazard is recorded but
  not checked.
- An empty ExternalSource (`if ext:`) is not among the modelled values.
- The TypeError of `anns.sort()` (line 256). Two annotations of one type can hold
  one property name with None in one and a string in the other, and sorting their
  tuples then raises. The bag of `GetAnnotations` does not model that, and no
  modelled value reaches it.
