----------------------------- MODULE Fingerprint -----------------------------
(***************************************************************************)
(* The Fingerprint Engine: inline_element_fingerprint in                   *)
(* tools/compare_dacpacs.py, the identity get_relationships gives an       *)
(* inline Element nested in a relationship Entry.  It joins the Type, the  *)
(* sorted "P:name=value" parts of the Properties, the sorted               *)
(* "R:rel=target" parts of the relationship entries (a nested inline       *)
(* element rendered by its own fingerprint) and the sorted "A:type=props"  *)
(* parts of the annotations, where props is str() of the annotation's      *)
(* property dict without Disambiguator.                                    *)
(*                                                                         *)
(* Each part is a tuple.  Two sorted lists of parts are equal exactly when *)
(* they hold each part equally often, so each sorted list is a bag.  The   *)
(* str() of a dict is not sorted: it lists the items in the order their    *)
(* keys were first inserted, so it is the sequence of (name, value) pairs  *)
(* in that order.                                                          *)
(*                                                                         *)
(* This module declares RECURSIVE operators and is used by TLC only.       *)
(***************************************************************************)
EXTENDS Integers, Sequences, FiniteSets, Functions, PyDict

CONSTANTS
  Inlines    \* the inline elements a relationship entry may hold, at any depth

Disambiguator == "Disambiguator"

Sides == {"rust", "dotnet"}

(* The sorted list of the values of a sequence, as a bag.                  *)
SeqBag(s) == [v \in Range(s) |-> Cardinality({j \in DOMAIN s : s[j] = v})]

(* "P:{name}={value}", value None rendered as None.                        *)
PropPart(p) == << "P", p.name, p.value >>

(* str(ann_props) after ann_props.pop("Disambiguator"): the items of the   *)
(* dict get_properties builds, in first-insertion order of their names,    *)
(* each with the value of the last Property of that name.                  *)
DictStr(ps) ==
  LET firsts == {j \in DOMAIN ps : \A l \in 1..(j - 1) : ps[l].name # ps[j].name}
      Kth(k) == CHOOSE j \in firsts : Cardinality({l \in firsts : l <= j}) = k
      items == [k \in 1..Cardinality(firsts) |->
                  << ps[Kth(k)].name, ps[LastNamed(ps, ps[Kth(k)].name)].value >>]
  IN  SelectSeq(items, LAMBDA it : it[1] # Disambiguator)

(* "A:{ann_type}={ann_props}".                                             *)
AnnPart(an) == << "A", an.type, DictStr(an.props) >>

(* "name" or "name@ext" of a References; a missing Name reads as "".       *)
RefKey(en) ==
  LET nm == IF en.target = None THEN "" ELSE en.target
  IN  IF en.ext = None THEN << nm >> ELSE << nm, en.ext >>

(* The (Relationship, Entry) positions whose Entry holds a References or   *)
(* an inline Element; an Entry with neither adds no part.                  *)
EntryPositions(e) ==
  UNION { {<< r, j >> : j \in {j \in DOMAIN e.rels[r].entries :
                                   e.rels[r].entries[j].kind # "empty"}} :
          r \in DOMAIN e.rels }

RECURSIVE InlineElementFingerprint(_)

(* Mutant: the property parts kept in document order, not sorted.        *)
FingerprintUnsortedProps(e) ==
  LET RelPart(x) ==
        LET rn == e.rels[x[1]].name
            en == e.rels[x[1]].entries[x[2]]
        IN  IF en.kind = "ref" THEN << "R", rn, << "ref", RefKey(en) >> >>
            ELSE << "R", rn, << "inline", InlineElementFingerprint(en.elem) >> >>
      pos == EntryPositions(e)
  IN  << e.type,
         [j \in DOMAIN e.props |-> PropPart(e.props[j])],
         [v \in {RelPart(x) : x \in pos} |-> Cardinality({x \in pos : RelPart(x) = v})],
         SeqBag([j \in DOMAIN e.anns |-> AnnPart(e.anns[j])]) >>

(* inline_element_fingerprint(elem).                                      *)
InlineElementFingerprint(e) ==
  LET RelPart(x) ==
        LET rn == e.rels[x[1]].name
            en == e.rels[x[1]].entries[x[2]]
        IN  IF en.kind = "ref" THEN << "R", rn, << "ref", RefKey(en) >> >>
            ELSE << "R", rn, << "inline", InlineElementFingerprint(en.elem) >> >>
      pos == EntryPositions(e)
  IN  << e.type,
         SeqBag([j \in DOMAIN e.props |-> PropPart(e.props[j])]),
         [v \in {RelPart(x) : x \in pos} |-> Cardinality({x \in pos : RelPart(x) = v})],
         SeqBag([j \in DOMAIN e.anns |-> AnnPart(e.anns[j])]) >>

-----------------------------------------------------------------------------
(* get_relationships fingerprints the inline elements of the two sides;    *)
(* the model takes one from each side and records their fingerprints.      *)

VARIABLES
  inline,   \* inline[s]: the inline Element of side s
  fp        \* fp[s]: its fingerprint, or None before it is computed

vars == << inline, fp >>

Init ==
  /\ inline \in [Sides -> Inlines]
  /\ fp = [s \in Sides |-> None]

ComputeFingerprint(s) ==
  /\ fp[s] = None
  /\ fp' = [fp EXCEPT ![s] = InlineElementFingerprint(inline[s])]
  /\ UNCHANGED inline

Computed ==
  /\ \A s \in Sides : fp[s] # None
  /\ UNCHANGED vars

Next == (\E s \in Sides : ComputeFingerprint(s)) \/ Computed

Spec == Init /\ [][Next]_vars /\ WF_vars(Next)

-----------------------------------------------------------------------------
(* Two inline elements are the same up to serialization order: the same    *)
(* Type, and bijections between their properties, their non-empty entries  *)
(* and their annotations that pair equal items; entries pair when they are *)
(* in relationships of one name and hold the same reference or inline      *)
(* elements that are the same in this sense; annotations pair when they    *)
(* have one type and the same property dict without Disambiguator.         *)
AnnProps(an) ==
  LET p == [n \in NamesOf(an.props) |-> an.props[LastNamed(an.props, n)].value]
  IN  Restrict(p, DOMAIN p \ {Disambiguator})

Pairs(S, T, Match(_, _)) ==
  \E f \in Bijection(S, T) : \A x \in S : Match(x, f[x])

RECURSIVE SameInline(_, _)
SameInline(a, b) ==
  LET SameEntry(x, y) ==
        LET ea == a.rels[x[1]].entries[x[2]]
            eb == b.rels[y[1]].entries[y[2]]
        IN  /\ a.rels[x[1]].name = b.rels[y[1]].name
            /\ ea.kind = eb.kind
            /\ ea.kind = "ref" => RefKey(ea) = RefKey(eb)
            /\ ea.kind = "inline" => SameInline(ea.elem, eb.elem)
  IN  /\ a.type = b.type
      /\ Pairs(DOMAIN a.props, DOMAIN b.props, LAMBDA j, l : a.props[j] = b.props[l])
      /\ Pairs(EntryPositions(a), EntryPositions(b), SameEntry)
      /\ Pairs(DOMAIN a.anns, DOMAIN b.anns,
               LAMBDA j, l : /\ a.anns[j].type = b.anns[l].type
                             /\ AnnProps(a.anns[j]) = AnnProps(b.anns[l]))

(* Every annotation carries at most one property besides Disambiguator.   *)
RECURSIVE SingleAnnProps(_)
SingleAnnProps(e) ==
  /\ \A j \in DOMAIN e.anns : Cardinality(DOMAIN AnnProps(e.anns[j])) <= 1
  /\ \A x \in EntryPositions(e) :
       e.rels[x[1]].entries[x[2]].kind = "inline"
         => SingleAnnProps(e.rels[x[1]].entries[x[2]].elem)

Done == \A s \in Sides : fp[s] # None

(* Two inline elements get one fingerprint iff they are the same up to    *)
(* the order of their properties, entries and annotations, when no         *)
(* annotation has two properties besides Disambiguator.                    *)
FingerprintExact ==
  (Done /\ SingleAnnProps(inline["rust"]) /\ SingleAnnProps(inline["dotnet"]))
    => ((fp["rust"] = fp["dotnet"]) <=> SameInline(inline["rust"], inline["dotnet"]))

(* Section 4.3: sorting at every level guarantees that two structurally    *)
(* identical inline subtrees fingerprint identically regardless of         *)
(* serialization order.  The annotation part renders str() of a dict,      *)
(* whose items follow the document order of the Property children.         *)
InlineOrderIrrelevant ==
  (Done /\ SameInline(inline["rust"], inline["dotnet"])) => fp["rust"] = fp["dotnet"]
=============================================================================
