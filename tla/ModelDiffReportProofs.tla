----------------------- MODULE ModelDiffReportProofs -----------------------
(***************************************************************************)
(* Proofs of what the report of compare_model_xml says, for every choice  *)
(* of the constants: the duplicate warnings count the elements the index   *)
(* loses, and every change of a common element that the differ can see is *)
(* reported.                                                               *)
(***************************************************************************)
EXTENDS ModelDiffRefinementProofs, FiniteSetTheorems

-----------------------------------------------------------------------------
(* The indexes are finite dicts: each starts empty and grows by one key at *)
(* a time.                                                                 *)
FiniteIndexes == \A s \in Sides : IsFiniteSet(DOMAIN idx[s])

(* The inductive invariant of the duplicate count: the types, last write   *)
(* wins, the indexes are finite, and the count itself.                     *)
WInv == IInv /\ FiniteIndexes /\ DuplicatesWarned

LEMMA InitWInv == Init => WInv
<1> SUFFICES ASSUME Init PROVE WInv
  OBVIOUS
<1>1. \A s \in Sides : Visited(s) = 0 /\ idx[s] = << >> /\ dup[s] = << >>
  BY DEF Init, Visited, Sides
<1>2. FiniteIndexes
  BY <1>1, FS_EmptySet DEF FiniteIndexes
<1>3. DuplicatesWarned
  BY <1>1, FS_EmptySet DEF DuplicatesWarned
<1> QED
  BY <1>2, <1>3, InitIInv DEF WInv

(* An index step visits one element: when its key is already in the index  *)
(* the duplicate list grows by one and the key set does not, otherwise the *)
(* key set grows by one and the list does not.                             *)
LEMMA IndexElementWInv ==
  ASSUME WInv, IndexElement
  PROVE  (FiniteIndexes /\ DuplicatesWarned)'
<1> DEFINE e == doc[side][i]
           k == ElementKey(e)
           S == DOMAIN idx[side]
<1>1. /\ side \in Sides /\ side' = side
      /\ i \in 1..Len(doc[side])
      /\ Visited(side) = i - 1 /\ (Visited(side))' = i
      /\ dup[side] \in Seq(Keys)
  BY DocsAreSeqs DEF IndexElement, WInv, IInv, TypeOK, Visited, Sides
<1>2. /\ idx'[side] = Put(idx[side], k, e)
      /\ dup'[side] = NoteDuplicate(dup[side], idx[side], k)
  BY <1>1 DEF IndexElement, WInv, IInv, TypeOK
<1>3. \A s \in Sides \ {side} :
        idx'[s] = idx[s] /\ dup'[s] = dup[s] /\ (Visited(s))' = Visited(s)
  BY <1>1 DEF IndexElement, WInv, IInv, TypeOK, Visited, Sides
<1>4. /\ IsFiniteSet(S)
      /\ Len(dup[side]) = (i - 1) - Cardinality(S)
  BY <1>1 DEF WInv, FiniteIndexes, DuplicatesWarned
<1>5. /\ DOMAIN idx'[side] = S \cup {k}
      /\ IsFiniteSet(S \cup {k})
      /\ Cardinality(S \cup {k}) = IF k \in S THEN Cardinality(S) ELSE Cardinality(S) + 1
  <2>1. DOMAIN idx'[side] = S \cup {k}
    BY <1>2 DEF Put
  <2>2. /\ IsFiniteSet(S \cup {k})
        /\ Cardinality(S \cup {k}) = IF k \in S THEN Cardinality(S) ELSE Cardinality(S) + 1
    BY <1>4, FS_AddElement
  <2> QED
    BY <2>1, <2>2
<1>6. Len(dup'[side]) = IF k \in S THEN Len(dup[side]) + 1 ELSE Len(dup[side])
  BY <1>1, <1>2 DEF NoteDuplicate
<1>7. Cardinality(S) \in Nat
  BY <1>4, FS_CardinalityType
<1>8. Len(dup'[side]) = (Visited(side))' - Cardinality(DOMAIN idx'[side])
  BY <1>1, <1>4, <1>5, <1>6, <1>7
<1> QED
  BY <1>1, <1>3, <1>5, <1>8 DEF WInv, FiniteIndexes, DuplicatesWarned

LEMMA NextWInv == WInv /\ [Next]_vars => WInv'
<1> SUFFICES ASSUME WInv, [Next]_vars PROVE WInv'
  OBVIOUS
<1>0. IInv'
  BY NextIInv DEF WInv
<1>1. CASE IndexElement
  BY <1>0, <1>1, IndexElementWInv DEF WInv
<1>2. CASE IndexDone
  <2>1. i = Len(doc[side]) + 1
    BY <1>2, DocsAreSeqs DEF IndexDone, WInv, IInv, TypeOK
  <2>2. \A s \in Sides : (Visited(s))' = Visited(s)
    BY <1>2, <2>1 DEF IndexDone, WInv, IInv, TypeOK, Visited, Sides
  <2> QED
    BY <1>0, <1>2, <2>2 DEF IndexDone, WInv, FiniteIndexes, DuplicatesWarned
<1>3. CASE DiffCommon \/ DiffDone \/ Finished \/ UNCHANGED vars
  <2>1. /\ UNCHANGED << idx, dup >>
        /\ \A s \in Sides : (Visited(s))' = Visited(s)
    BY <1>3 DEF DiffCommon, DiffDone, Finished, vars, Visited
  <2> QED
    BY <1>0, <2>1 DEF WInv, FiniteIndexes, DuplicatesWarned
<1> QED
  BY <1>1, <1>2, <1>3 DEF Next

(* index_elements warns once for every element it drops: at every point of *)
(* the run, the duplicate list of each side is exactly as long as the      *)
(* number of elements visited minus the number of keys in the index.       *)
THEOREM DuplicatesCounted == Spec => []DuplicatesWarned
BY InitWInv, NextWInv, PTL DEF Spec, WInv
-----------------------------------------------------------------------------
(* What diff_element sees.  Each of its three parts reports a change of    *)
(* the part of the elements SameContent compares.                          *)

(* A function on the empty set is the empty list.                         *)
LEMMA EmptyFunction ==
  ASSUME NEW S, NEW F(_), S = {}
  PROVE  [j \in S |-> F(j)] = << >>
OBVIOUS

(* A list get_relationships builds is empty iff it holds no entry string.  *)
LEMMA EntryStringsEmpty ==
  ASSUME NEW es
  PROVE  EntryStrings(es) = << >> <=> Range(EntryStrings(es)) = {}
<1> DEFINE kept == SelectSeq(es, LAMBDA en : en.kind # "empty")
           F(j) == EntryString(kept[j])
<1>1. EntryStrings(es) = [j \in 1..Len(kept) |-> F(j)]
  BY DEF EntryStrings
<1>2. Range(EntryStrings(es)) = {} <=> 1..Len(kept) = {}
  BY <1>1 DEF Range
<1>3. 1..Len(kept) = {} => [j \in 1..Len(kept) |-> F(j)] = << >>
  BY EmptyFunction
<1>4. DOMAIN << >> = {}
  OBVIOUS
<1> QED
  BY <1>1, <1>2, <1>3, <1>4

(* A property whose .get() value differs on the two sides.                 *)
LEMMA PropDiffsSeeValues ==
  ASSUME NEW a, NEW b,
         Valued(GetProperties(a)) # Valued(GetProperties(b))
  PROVE  PropDiffs(a, b) # {}
<1> DEFINE pa == GetProperties(a)
           pb == GetProperties(b)
<1>1. \E n \in DOMAIN pa \cup DOMAIN pb : PyGet(pa, n) # PyGet(pb, n)
  <2> SUFFICES ASSUME \A n \in DOMAIN pa \cup DOMAIN pb : PyGet(pa, n) = PyGet(pb, n)
               PROVE  Valued(pa) = Valued(pb)
    OBVIOUS
  <2>1. {n \in DOMAIN pa : pa[n] # None} = {n \in DOMAIN pb : pb[n] # None}
    BY DEF PyGet
  <2> QED
    BY <2>1 DEF Valued, Restrict, PyGet
<1> QED
  BY <1>1 DEF PropDiffs

(* A relationship name whose entry sets differ, or that has entries on one *)
(* side and none (or no relationship) on the other.                        *)
LEMMA RelDiffsSeeEntrySets ==
  ASSUME NEW a, NEW b,
         EntrySets(GetRelationships(a)) # EntrySets(GetRelationships(b))
  PROVE  RelDiffs(a, b) # {}
<1> DEFINE ra == GetRelationships(a)
           rb == GetRelationships(b)
           EA(n) == IF n \in DOMAIN ra THEN ra[n] ELSE << >>
           EB(n) == IF n \in DOMAIN rb THEN rb[n] ELSE << >>
<1>1. /\ \A n \in DOMAIN ra : ra[n] = << >> <=> Range(ra[n]) = {}
      /\ \A n \in DOMAIN rb : rb[n] = << >> <=> Range(rb[n]) = {}
  BY EntryStringsEmpty DEF GetRelationships
<1>2. Range(<< >>) = {}
  BY DEF Range
<1>3. PICK n \in DOMAIN ra \cup DOMAIN rb :
        /\ EA(n) # EB(n)
        /\ \/ n \notin DOMAIN rb
           \/ n \notin DOMAIN ra
           \/ (Range(EA(n)) \ Range(EB(n))) \cup (Range(EB(n)) \ Range(EA(n))) # {}
  <2> SUFFICES ASSUME \A n \in DOMAIN ra \cup DOMAIN rb :
                        EA(n) # EB(n) =>
                          /\ n \in DOMAIN rb /\ n \in DOMAIN ra
                          /\ Range(EA(n)) = Range(EB(n))
               PROVE  EntrySets(ra) = EntrySets(rb)
    OBVIOUS
  <2>1. \A n \in DOMAIN ra \cup DOMAIN rb : Range(EA(n)) = Range(EB(n))
    BY <1>2
  <2>2. {n \in DOMAIN ra : ra[n] # << >>} = {n \in DOMAIN rb : rb[n] # << >>}
    BY <1>1, <1>2, <2>1
  <2> QED
    BY <2>1, <2>2 DEF EntrySets
<1> QED
  BY <1>3 DEF RelDiffs

(* An annotation value on one side only: the lists differ, and so do the   *)
(* sublists of that value's type.                                          *)
LEMMA AnnDiffsSeeValues ==
  ASSUME NEW a, NEW b,
         DOMAIN GetAnnotations(a) # DOMAIN GetAnnotations(b)
  PROVE  AnnDiffs(a, b) # {}
<1> DEFINE ba == GetAnnotations(a)
           bb == GetAnnotations(b)
<1>1. PICK v : (v \in DOMAIN ba) # (v \in DOMAIN bb)
  OBVIOUS
<1>2. OfType(ba, v[1]) # OfType(bb, v[1])
  BY <1>1 DEF OfType, Restrict
<1>3. ba # bb
  OBVIOUS
<1> QED
  BY <1>1, <1>2, <1>3 DEF AnnDiffs

(* diff_element reports every difference SameContent tells apart.          *)
LEMMA DiffElementSeesContent ==
  ASSUME NEW a, NEW b, ~SameContent(a, b)
  PROVE  DiffElement(a, b) # {}
BY PropDiffsSeeValues, RelDiffsSeeEntrySets, AnnDiffsSeeValues DEF SameContent, DiffElement

-----------------------------------------------------------------------------
(* The loop over the common keys has visited all of them once              *)
(* compare_model_xml has returned.                                         *)
CInv == RInv /\ (pc = "done" => pending = {})

LEMMA InitCInv == Init => CInv
BY InitRInv DEF Init, CInv

LEMMA NextCInv == CInv /\ [Next]_vars => CInv'
<1> SUFFICES ASSUME CInv, [Next]_vars PROVE CInv'
  OBVIOUS
<1>1. RInv'
  BY NextRInv DEF CInv
<1>2. (pc = "done" => pending = {})'
  BY DEF CInv, Next, IndexElement, IndexDone, DiffCommon, DiffDone, Finished, vars
<1> QED
  BY <1>1, <1>2 DEF CInv

(* Every change of a common element in its valued properties, in the entry *)
(* sets of its non-empty relationships, or in which annotation values it   *)
(* carries, is reported in "differences" when compare_model_xml returns,   *)
(* whatever the documents and their duplicates.                            *)
THEOREM ChangesAlwaysReported == Spec => []ChangesReported
<1>1. CInv => ChangesReported
  <2> SUFFICES ASSUME CInv, pc = "done",
                      NEW k \in DOMAIN idx["rust"] \cap DOMAIN idx["dotnet"],
                      ~SameContent(idx["rust"][k], idx["dotnet"][k])
               PROVE  k \in DOMAIN differences
    BY DEF ChangesReported
  <2>1. D(k) # {}
    BY DiffElementSeesContent DEF D
  <2>2. differences = [x \in {x \in Common \ {} : D(x) # {}} |-> D(x)]
    BY DEF CInv, RInv, ResultInv
  <2> QED
    BY <2>1, <2>2 DEF Common
<1> QED
  BY <1>1, InitCInv, NextCInv, PTL DEF Spec

-----------------------------------------------------------------------------
(* Two elements that are the same in the sense of the spec get no diff     *)
(* line: equal property dicts, the same relationship names with the same   *)
(* entry sets, equal annotation lists.                                     *)
LEMMA SameElementNoDiff ==
  ASSUME NEW a, NEW b, SameElement(a, b)
  PROVE  DiffElement(a, b) = {}
<1>1. PropDiffs(a, b) = {}
  BY DEF SameElement, PropDiffs
<1>2. RelDiffs(a, b) = {}
  BY DEF SameElement, RelDiffs
<1>3. AnnDiffs(a, b) = {}
  BY DEF SameElement, AnnDiffs
<1> QED
  BY <1>1, <1>2, <1>3 DEF DiffElement

(* When neither document has two elements with one key, a report of a     *)
(* missing, extra or different element is never a false alarm: documents  *)
(* holding the same elements, in any order, compare equal.                 *)
THEOREM NoFalseAlarm == Spec => []ReportSound
<1>1. RInv => ReportSound
  <2> SUFFICES ASSUME RInv, pc = "done",
                      ~HasDuplicateKeys(doc["rust"]), ~HasDuplicateKeys(doc["dotnet"]),
                      SameDocs
               PROVE  ~Reported
    BY DEF ReportSound
  <2> DEFINE dr == doc["rust"]
             dd == doc["dotnet"]
  <2>1. /\ dr \in Seq(Elements) /\ dd \in Seq(Elements)
        /\ LastWrite(idx["rust"], dr, Len(dr))
        /\ LastWrite(idx["dotnet"], dd, Len(dd))
    BY DocsAreSeqs DEF RInv, IInv, TypeOK, IndexIsLastWrite, Visited, Sides
  <2>6. /\ DOMAIN dr = 1..Len(dr) /\ DOMAIN dd = 1..Len(dd)
        /\ \A j \in 1..Len(dr) : \E l \in 1..Len(dd) : SameElement(dr[j], dd[l])
        /\ \A l \in 1..Len(dd) : \E j \in 1..Len(dr) : SameElement(dr[j], dd[l])
    <3>1. DOMAIN dr = 1..Len(dr) /\ DOMAIN dd = 1..Len(dd)
      BY <2>1
    <3> QED
      BY <3>1 DEF SameDocs
  <2>7. \A x, y : SameElement(x, y) => ElementKey(x) = ElementKey(y)
    BY DEF SameElement
  <2>2. DOMAIN idx["rust"] = DOMAIN idx["dotnet"]
    <3>1. \A j \in 1..Len(dr) : \E l \in 1..Len(dd) : ElementKey(dr[j]) = ElementKey(dd[l])
      BY <2>6, <2>7
    <3>2. \A l \in 1..Len(dd) : \E j \in 1..Len(dr) : ElementKey(dr[j]) = ElementKey(dd[l])
      BY <2>6, <2>7
    <3> QED
      BY <2>1, <3>1, <3>2 DEF LastWrite
  <2>3. missing = {} /\ extra = {}
    BY <2>2 DEF RInv, ResultInv
  <2>4. ASSUME NEW k \in Common PROVE D(k) = {}
    <3>1. PICK j \in 1..Len(dr) : ElementKey(dr[j]) = k /\ idx["rust"][k] = dr[j]
      BY <2>1 DEF LastWrite, Common
    <3>2. PICK l \in 1..Len(dd) : SameElement(dr[j], dd[l])
      BY <2>6
    <3>3. ElementKey(dd[l]) = k
      BY <3>1, <3>2, <2>7
    <3>4. PICK m \in 1..Len(dd) : ElementKey(dd[m]) = k /\ idx["dotnet"][k] = dd[m]
      BY <2>1 DEF LastWrite, Common
    <3>5. m = l
      BY <2>6, <3>3, <3>4 DEF HasDuplicateKeys
    <3> QED
      BY <3>1, <3>2, <3>4, <3>5, SameElementNoDiff DEF D
  <2>5. DOMAIN differences = {}
    BY <2>4 DEF RInv, ResultInv
  <2> QED
    BY <2>3, <2>5 DEF Reported
<1> QED
  BY <1>1, RInvariant, PTL
=============================================================================
