----------------------------- MODULE DacElements -----------------------------
(***************************************************************************)
(* The element model of model.xml and the pure comparison functions of     *)
(* tools/compare_dacpacs.py that work on single elements:                  *)
(*   - get_properties / get_relationships / get_annotations  (extraction)  *)
(*   - get_ref_name / element_key                  (the Identity Resolver) *)
(*   - diff_element                                   (the Element Differ) *)
(*                                                                         *)
(* An Element is what the XML parser hands to these functions: its Type   *)
(* and Name attributes and its Property, Relationship and                  *)
(* AttachedAnnotation children, in document order.  Strings are model     *)
(* values or members of small sets; the f-strings the code builds for      *)
(* keys and entry strings are modelled by tuples, which are injective as   *)
(* the f-strings are for names free of the separators "=", ",", "@".       *)
(* An inline entry (a nested Element) is represented by its fingerprint,   *)
(* the string inline_element_fingerprint returns for it.                   *)
(***************************************************************************)
EXTENDS Integers, Sequences, FiniteSets, Functions, PyDict

CONSTANTS
  Types,         \* values of the Type attribute of an Element
  Names,         \* values of the Name attribute of an Element
  PropNames,     \* values of the Name attribute of a Property
  Values,        \* property values (Value attribute or Value child text)
  RelNames,      \* values of the Name attribute of a Relationship
  Targets,       \* values of the Name attribute of a References
  Exts,          \* values of the ExternalSource attribute of a References
  Fingerprints,  \* fingerprints of inline elements
  AnnTypes       \* values of the Type attribute of an AttachedAnnotation

ASSUME NoneAssumption ==
  None \notin Names \cup Values \cup Targets \cup Exts

(* The three relationship names element_key looks up, and the annotation   *)
(* property the code strips before comparing.                              *)
DefiningTable  == "DefiningTable"
ForColumn      == "ForColumn"
DefiningColumn == "DefiningColumn"
Disambiguator  == "Disambiguator"

-----------------------------------------------------------------------------
(* The parsed document shapes.                                             *)

PropRec == [name : PropNames, value : Values \cup {None}]

(* An Entry holds a References, an inline Element, or neither.             *)
Entry ==
       [kind : {"ref"}, target : Targets \cup {None}, ext : Exts \cup {None}]
  \cup [kind : {"inline"}, fp : Fingerprints]
  \cup [kind : {"empty"}]

RelRec == [name : RelNames, entries : Seq(Entry)]

AnnRec == [type : AnnTypes, props : Seq(PropRec)]

Element ==
  [type : Types, name : Names \cup {None},
   props : Seq(PropRec), rels : Seq(RelRec), anns : Seq(AnnRec)]

-----------------------------------------------------------------------------
(* get_properties(elem): Name -> value, last occurrence wins.               *)
GetProperties(e) ==
  [n \in NamesOf(e.props) |-> e.props[LastNamed(e.props, n)].value]

(* get_ref_name(elem, rel_name): the Name of the References of the first   *)
(* Entry of the first Relationship called rel_name, else None.             *)
GetRefName(e, relName) ==
  LET hits == {i \in DOMAIN e.rels : e.rels[i].name = relName}
      first == CHOOSE i \in hits : \A j \in hits : i <= j
      entries == e.rels[first].entries
  IN  IF hits = {} \/ entries = << >> \/ entries[1].kind # "ref"
        THEN None
        ELSE entries[1].target

(* Python truthiness of a get_ref_name result: None and "" are false.      *)
Truthy(v) == v \notin {None, ""}

(* element_key(elem): (Type, Name) for a named element, else a key from    *)
(* the DefiningTable/ForColumn/DefiningColumn references, else (Type,).   *)
ElementKey(e) ==
  LET dt == GetRefName(e, DefiningTable)
      fc == GetRefName(e, ForColumn)
      dc == GetRefName(e, DefiningColumn)
  IN  IF e.name # None THEN << e.type, e.name >>
      ELSE IF Truthy(dt) /\ Truthy(fc)
        THEN << e.type, << DefiningTable, dt, ForColumn, fc >> >>
      ELSE IF Truthy(dt) /\ Truthy(dc)
        THEN << e.type, << DefiningTable, dt, DefiningColumn, dc >> >>
      ELSE IF Truthy(dt) THEN << e.type, << DefiningTable, dt >> >>
      ELSE << e.type >>

-----------------------------------------------------------------------------
(* get_relationships(elem): Name -> list of entry strings, last            *)
(* Relationship of a name wins.  A References becomes ("ref", name) or     *)
(* ("ref", name@ext) when ExternalSource is non-empty, a missing Name      *)
(* reads as ""; an inline Element becomes ("inline", fingerprint); an      *)
(* Entry with neither is skipped.                                          *)
EntryString(en) ==
  IF en.kind = "ref"
    THEN LET nm == IF en.target = None THEN "" ELSE en.target
         IN  IF en.ext = None THEN << "ref", nm >> ELSE << "ref", nm, en.ext >>
    ELSE << "inline", en.fp >>

EntryStrings(entries) ==
  LET kept == SelectSeq(entries, LAMBDA en : en.kind # "empty")
  IN  [i \in 1..Len(kept) |-> EntryString(kept[i])]

GetRelationships(e) ==
  [n \in NamesOf(e.rels) |-> EntryStrings(e.rels[LastNamed(e.rels, n)].entries)]

(* get_annotations(elem): the sorted list of (Type, sorted properties)    *)
(* with Disambiguator removed.  Two sorted lists are equal exactly when    *)
(* they hold each value equally often, so the list is kept as a bag:       *)
(* value -> number of occurrences; str(a) for a in it is its DOMAIN.       *)
AnnValue(an) ==
  LET p == GetProperties(an)
  IN  << an.type, Restrict(p, DOMAIN p \ {Disambiguator}) >>

GetAnnotations(e) ==
  [v \in {AnnValue(e.anns[i]) : i \in DOMAIN e.anns} |->
     Cardinality({i \in DOMAIN e.anns : AnnValue(e.anns[i]) = v})]

(* [a for a in anns if a[0] == t], and its length.                         *)
OfType(bag, t) == Restrict(bag, {v \in DOMAIN bag : v[1] = t})
AnnCount(e, t) == Cardinality({i \in DOMAIN e.anns : e.anns[i].type = t})

-----------------------------------------------------------------------------
(* diff_element(elem_a, elem_b): a = rust side, b = dotnet side.  Each     *)
(* line it appends is a DiffLine; the list is non-empty iff the set is.    *)
DiffLine(kind, name, how, rust, dotnet) ==
  [kind |-> kind, name |-> name, how |-> how, rust |-> rust, dotnet |-> dotnet]

(* Properties: one line per name whose .get() values differ.               *)
PropDiffs(a, b) ==
  LET pa == GetProperties(a)
      pb == GetProperties(b)
      How(n) == IF n \notin DOMAIN pb THEN "missing_in_dotnet"
                ELSE IF n \notin DOMAIN pa THEN "missing_in_rust"
                ELSE "changed"
  IN  { DiffLine("prop", n, How(n), PyGet(pa, n), PyGet(pb, n)) :
          n \in {n \in DOMAIN pa \cup DOMAIN pb : PyGet(pa, n) # PyGet(pb, n)} }

(* Mutant: the set comparison dropped, every change of list reported.    *)
RelDiffsByList(a, b) ==
  LET ra == GetRelationships(a)
      rb == GetRelationships(b)
      EA(n) == IF n \in DOMAIN ra THEN ra[n] ELSE << >>
      EB(n) == IF n \in DOMAIN rb THEN rb[n] ELSE << >>
  IN  { DiffLine("rel", n, "entries", Len(EA(n)), Len(EB(n))) :
          n \in {n \in DOMAIN ra \cup DOMAIN rb : EA(n) # EB(n)} }

(* Relationships: lists compared with .get(name, []); a name on one side   *)
(* only gives a count line, a name on both sides a line with the sizes of  *)
(* the two set differences when one of them is non-empty.                  *)
RelDiffs(a, b) ==
  LET ra == GetRelationships(a)
      rb == GetRelationships(b)
      EA(n) == IF n \in DOMAIN ra THEN ra[n] ELSE << >>
      EB(n) == IF n \in DOMAIN rb THEN rb[n] ELSE << >>
      OnlyRust(n)   == Range(EA(n)) \ Range(EB(n))
      OnlyDotnet(n) == Range(EB(n)) \ Range(EA(n))
      Reported(n) ==
        /\ EA(n) # EB(n)
        /\ \/ n \notin DOMAIN rb
           \/ n \notin DOMAIN ra
           \/ OnlyRust(n) \cup OnlyDotnet(n) # {}
      Line(n) ==
        IF n \notin DOMAIN rb THEN DiffLine("rel", n, "missing_in_dotnet", Len(EA(n)), 0)
        ELSE IF n \notin DOMAIN ra THEN DiffLine("rel", n, "missing_in_rust", 0, Len(EB(n)))
        ELSE DiffLine("rel", n, "entries",
                      Cardinality(OnlyRust(n)), Cardinality(OnlyDotnet(n)))
  IN  { Line(n) : n \in {n \in DOMAIN ra \cup DOMAIN rb : Reported(n)} }

(* Mutant: the per-type sublists compared by their lengths only.         *)
AnnDiffsByCount(a, b) ==
  LET ba == GetAnnotations(a)
      bb == GetAnnotations(b)
      affected == {v[1] : v \in DOMAIN ba \cup DOMAIN bb}
  IN  IF ba # bb /\ DOMAIN ba # DOMAIN bb
        THEN { DiffLine("ann", t, "count", AnnCount(a, t), AnnCount(b, t)) :
                 t \in {t \in affected : AnnCount(a, t) # AnnCount(b, t)} }
        ELSE {}

(* Annotations: when the sorted lists differ and one side has a value the  *)
(* other lacks, one line per type whose sublists differ, with both counts. *)
AnnDiffs(a, b) ==
  LET ba == GetAnnotations(a)
      bb == GetAnnotations(b)
      affected == {v[1] : v \in DOMAIN ba \cup DOMAIN bb}
      Line(t) ==
        DiffLine("ann", t, IF AnnCount(a, t) # AnnCount(b, t) THEN "count" ELSE "differs",
                 AnnCount(a, t), AnnCount(b, t))
  IN  IF ba # bb /\ DOMAIN ba # DOMAIN bb
        THEN { Line(t) : t \in {t \in affected : OfType(ba, t) # OfType(bb, t)} }
        ELSE {}

DiffElement(a, b) == PropDiffs(a, b) \cup RelDiffs(a, b) \cup AnnDiffs(a, b)

-----------------------------------------------------------------------------
(* What the spec (sections 3 and 4.4) says makes two elements the same:    *)
(* the same identity, the same property mapping, for every relationship    *)
(* name the same set of entries (multiplicity is the open question of      *)
(* section 9 and is ignored), and the same list of annotations up to order *)
(* with Disambiguator stripped.                                            *)
SameElement(a, b) ==
  LET ra == GetRelationships(a)
      rb == GetRelationships(b)
  IN  /\ ElementKey(a) = ElementKey(b)
      /\ GetProperties(a) = GetProperties(b)
      /\ DOMAIN ra = DOMAIN rb
      /\ \A n \in DOMAIN ra : Range(ra[n]) = Range(rb[n])
      /\ GetAnnotations(a) = GetAnnotations(b)

(* The weaker sameness the differ can see: properties that carry a value,  *)
(* the entry sets of non-empty relationships, and which annotation values  *)
(* occur, regardless of how often.                                         *)
Valued(p) == Restrict(p, {n \in DOMAIN p : p[n] # None})
EntrySets(r) == [n \in {n \in DOMAIN r : r[n] # << >>} |-> Range(r[n])]

SameContent(a, b) ==
  /\ Valued(GetProperties(a)) = Valued(GetProperties(b))
  /\ EntrySets(GetRelationships(a)) = EntrySets(GetRelationships(b))
  /\ DOMAIN GetAnnotations(a) = DOMAIN GetAnnotations(b)
=============================================================================
