------------------------------ MODULE ModelDiff ------------------------------
(***************************************************************************)
(* The Model Differ: the element part of compare_model_xml in              *)
(* tools/compare_dacpacs.py.  It indexes the Element children of the       *)
(* rust <Model> and then of the dotnet <Model> by element_key, one element *)
(* per step, recording a key seen before as a duplicate (the later element *)
(* replaces the earlier one); then it computes the missing and extra key   *)
(* sets and runs diff_element on each common key, keeping the keys whose   *)
(* diff is non-empty.  The comparison of the <Header> that precedes it in  *)
(* compare_model_xml is independent of it and is not modelled here.        *)
(*                                                                         *)
(* The two documents are chosen in Init from the sequences of at most      *)
(* MaxLen elements of Elements and never change afterwards.                *)
(***************************************************************************)
EXTENDS DacElements

CONSTANTS
  Elements,   \* the elements a document may contain
  MaxLen      \* the largest number of elements in one document

ASSUME ElementsAssumption == Elements \subseteq Element
ASSUME MaxLenAssumption == MaxLen \in Nat

Sides == {"rust", "dotnet"}

(* The <Model> element lists a run may compare.                            *)
Docs == UNION {[1..n -> Elements] : n \in 0..MaxLen}

(* Every key element_key can give an element of Elements.                  *)
Keys == {ElementKey(e) : e \in Elements}

VARIABLES
  doc,          \* doc[s]: the Element children of side s's <Model>
  pc,           \* "index", "diff" or "done"
  side,         \* the side whose index_elements loop runs while pc = "index"
  i,            \* position of the next element that loop visits
  idx,          \* idx[s]: the dict index_elements builds, key -> element
  dup,          \* dup[s]: the list of duplicate keys index_elements returns
  pending,      \* the common keys not yet diffed
  missing,      \* missing_in_rust: keys of dotnet absent from rust
  extra,        \* extra_in_rust: keys of rust absent from dotnet
  differences   \* common key -> its non-empty diff_element result

vars == << doc, pc, side, i, idx, dup, pending, missing, extra, differences >>

Init ==
  /\ doc \in [Sides -> Docs]
  /\ pc = "index"
  /\ side = "rust"
  /\ i = 1
  /\ idx = [s \in Sides |-> << >>]
  /\ dup = [s \in Sides |-> << >>]
  /\ pending = {}
  /\ missing = {}
  /\ extra = {}
  /\ differences = << >>

(* Mutant: the duplicate test made after the assignment, always true.     *)
NoteDuplicateLate(dl, d, k) == Append(dl, k)

(* "if key in index: duplicates.append(key)".                             *)
NoteDuplicate(dl, d, k) == IF k \in DOMAIN d THEN Append(dl, k) ELSE dl

(* One iteration of the loop of index_elements on side `side`.             *)
IndexElement ==
  /\ pc = "index"
  /\ i <= Len(doc[side])
  /\ LET e == doc[side][i]
         k == ElementKey(e)
     IN  /\ dup' = [dup EXCEPT ![side] = NoteDuplicate(@, idx[side], k)]
         /\ idx' = [idx EXCEPT ![side] = Put(@, k, e)]
  /\ i' = i + 1
  /\ UNCHANGED << doc, pc, side, pending, missing, extra, differences >>

(* Mutant: the position is not reset for the dotnet loop.                *)
IndexDoneNoReset ==
  /\ pc = "index"
  /\ i > Len(doc[side])
  /\ IF side = "rust"
       THEN /\ side' = "dotnet"
            /\ UNCHANGED << pc, i, pending, missing, extra >>
       ELSE /\ pc' = "diff"
            /\ missing' = DOMAIN idx["dotnet"] \ DOMAIN idx["rust"]
            /\ extra' = DOMAIN idx["rust"] \ DOMAIN idx["dotnet"]
            /\ pending' = DOMAIN idx["rust"] \cap DOMAIN idx["dotnet"]
            /\ UNCHANGED << side, i >>
  /\ UNCHANGED << doc, idx, dup, differences >>

(* Mutant: the two set differences taken the wrong way round.           *)
IndexDoneSwapped ==
  /\ pc = "index"
  /\ i > Len(doc[side])
  /\ IF side = "rust"
       THEN /\ side' = "dotnet"
            /\ i' = 1
            /\ UNCHANGED << pc, pending, missing, extra >>
       ELSE /\ pc' = "diff"
            /\ missing' = DOMAIN idx["rust"] \ DOMAIN idx["dotnet"]
            /\ extra' = DOMAIN idx["dotnet"] \ DOMAIN idx["rust"]
            /\ pending' = DOMAIN idx["rust"] \cap DOMAIN idx["dotnet"]
            /\ UNCHANGED << side, i >>
  /\ UNCHANGED << doc, idx, dup, differences >>

(* The loop of index_elements ends: the rust index is followed by the      *)
(* dotnet one; after the dotnet one the missing, extra and common key sets *)
(* are computed.                                                           *)
IndexDone ==
  /\ pc = "index"
  /\ i > Len(doc[side])
  /\ IF side = "rust"
       THEN /\ side' = "dotnet"
            /\ i' = 1
            /\ UNCHANGED << pc, pending, missing, extra >>
       ELSE /\ pc' = "diff"
            /\ missing' = DOMAIN idx["dotnet"] \ DOMAIN idx["rust"]
            /\ extra' = DOMAIN idx["rust"] \ DOMAIN idx["dotnet"]
            /\ pending' = DOMAIN idx["rust"] \cap DOMAIN idx["dotnet"]
            /\ UNCHANGED << side, i >>
  /\ UNCHANGED << doc, idx, dup, differences >>

(* One iteration of the loop over the common keys: diff the two indexed    *)
(* elements and keep the key when the diff is non-empty.  The code visits  *)
(* the keys sorted by their display form; the result does not depend on    *)
(* the order, so any pending key may come next.                            *)
DiffCommon ==
  /\ pc = "diff"
  /\ \E k \in pending :
       LET d == DiffElement(idx["rust"][k], idx["dotnet"][k])
       IN  /\ pending' = pending \ {k}
           /\ differences' = IF d # {} THEN Put(differences, k, d) ELSE differences
  /\ UNCHANGED << doc, pc, side, i, idx, dup, missing, extra >>

DiffDone ==
  /\ pc = "diff"
  /\ pending = {}
  /\ pc' = "done"
  /\ UNCHANGED << doc, side, i, idx, dup, pending, missing, extra, differences >>

(* compare_model_xml has returned: the run stays in its final state.       *)
Finished ==
  /\ pc = "done"
  /\ UNCHANGED vars

Next == IndexElement \/ IndexDone \/ DiffCommon \/ DiffDone \/ Finished

Spec == Init /\ [][Next]_vars /\ WF_vars(Next)

-----------------------------------------------------------------------------
(* Helpers for the properties.                                             *)

(* How many elements of side s the index loop has visited.                 *)
Visited(s) ==
  IF pc = "index" /\ side = s THEN i - 1
  ELSE IF pc = "index" /\ s = "dotnet" THEN 0
  ELSE Len(doc[s])

(* The keys of a document, read off the document itself.                   *)
DocKeys(d) == {ElementKey(d[j]) : j \in DOMAIN d}

HasDuplicateKeys(d) ==
  \E j1, j2 \in DOMAIN d : j1 # j2 /\ ElementKey(d[j1]) = ElementKey(d[j2])

(* The report says the models differ.                                      *)
Reported == missing # {} \/ extra # {} \/ DOMAIN differences # {}

(* The two documents hold the same elements in the sense of the spec.      *)
SameDocs ==
  /\ \A j \in DOMAIN doc["rust"] :
       \E l \in DOMAIN doc["dotnet"] : SameElement(doc["rust"][j], doc["dotnet"][l])
  /\ \A l \in DOMAIN doc["dotnet"] :
       \E j \in DOMAIN doc["rust"] : SameElement(doc["rust"][j], doc["dotnet"][l])

-----------------------------------------------------------------------------
(* Type correctness of the comparison state.                               *)
TypeOK ==
  /\ doc \in [Sides -> Docs]
  /\ pc \in {"index", "diff", "done"}
  /\ side \in Sides
  /\ i \in 1..(Len(doc[side]) + 1)
  /\ DOMAIN idx = Sides
  /\ DOMAIN dup = Sides
  /\ \A s \in Sides : /\ DOMAIN idx[s] \subseteq Keys
                      /\ idx[s] \in [DOMAIN idx[s] -> Elements]
                      /\ dup[s] \in Seq(Keys)
  /\ pending \subseteq Keys
  /\ missing \subseteq Keys
  /\ extra \subseteq Keys
  /\ DOMAIN differences \subseteq Keys

(* f is the dict the loop "index[element_key(x)] = x" builds from the     *)
(* first n elements of d: each key of those elements maps to the LAST of   *)
(* them with that key, and no other key is present.                        *)
LastWrite(f, d, n) ==
  /\ DOMAIN f = {ElementKey(d[j]) : j \in 1..n}
  /\ \A k \in DOMAIN f :
       \E j \in 1..n : /\ ElementKey(d[j]) = k
                      /\ f[k] = d[j]
                      /\ \A l \in (j + 1)..n : ElementKey(d[l]) # k

(* The dict index_elements builds maps each key of the elements visited so *)
(* far to the last of them with that key (last write wins), and to nothing *)
(* else: an element shadowed by a later one with the same key is never     *)
(* compared.                                                               *)
IndexIsLastWrite == \A s \in Sides : LastWrite(idx[s], doc[s], Visited(s))

(* Every element dropped from the index is announced: the duplicate list   *)
(* holds one key per visited element that did not add a new key, so the   *)
(* WARNING count equals the number of elements the comparison loses.       *)
DuplicatesWarned ==
  \A s \in Sides : Len(dup[s]) = Visited(s) - Cardinality(DOMAIN idx[s])

(* When neither document has two elements with one key, a report of a     *)
(* missing, extra or different element means the documents really hold    *)
(* different elements: the index, the key sets and diff_element together   *)
(* raise no false alarm.                                                   *)
ReportSound ==
  (pc = "done" /\ ~HasDuplicateKeys(doc["rust"]) /\ ~HasDuplicateKeys(doc["dotnet"]))
    => (Reported => ~SameDocs)

(* Every change in the valued properties, in the entry sets of non-empty   *)
(* relationships, or in which annotation values occur, of an element both  *)
(* sides have, is reported in "differences".                               *)
ChangesReported ==
  pc = "done" =>
    \A k \in DOMAIN idx["rust"] \cap DOMAIN idx["dotnet"] :
      ~SameContent(idx["rust"][k], idx["dotnet"][k]) => k \in DOMAIN differences

(* Section 4.4: the property names and the relationship names of two     *)
(* elements with one key are compared as unions, and a name present on one *)
(* side only is reported (as missing, or as a count-only entry).           *)
(* diff_element compares props.get() values and rels.get(name, []) lists,  *)
(* so a Property with no value and a Relationship with no entries read     *)
(* like absent ones.                                                       *)
MemberNamesReported ==
  pc = "done" =>
    \A k \in DOMAIN idx["rust"] \cap DOMAIN idx["dotnet"] :
      LET a == idx["rust"][k]
          b == idx["dotnet"][k]
      IN  (\/ DOMAIN GetProperties(a) # DOMAIN GetProperties(b)
           \/ DOMAIN GetRelationships(a) # DOMAIN GetRelationships(b))
            => k \in DOMAIN differences

(* Section 4.4: when the sorted annotation lists of a common element       *)
(* differ, the differ reports the types whose sublists differ, with a      *)
(* count note when only the number of annotations differs.                 *)
AnnotationChangesReported ==
  pc = "done" =>
    \A k \in DOMAIN idx["rust"] \cap DOMAIN idx["dotnet"] :
      GetAnnotations(idx["rust"][k]) # GetAnnotations(idx["dotnet"][k])
        => k \in DOMAIN differences
-----------------------------------------------------------------------------
(* The refinement mapping: the abstract result is the detailed one once    *)
(* compare_model_xml has returned, and empty before.                      *)
Abs == INSTANCE ModelDiffAbstract WITH
         done <- pc = "done",
         missing <- IF pc = "done" THEN missing ELSE {},
         extra <- IF pc = "done" THEN extra ELSE {},
         differences <- IF pc = "done" THEN differences ELSE << >>

(* The loops of compare_model_xml compute what its contract says: the      *)
(* result equals the set differences of the last-write indexes and the     *)
(* non-empty diffs of the common keys.                                      *)
Refinement == Abs!SafetySpec
=============================================================================
