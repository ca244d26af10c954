-------------------------- MODULE ModelDiffAbstract --------------------------
(***************************************************************************)
(* What the element part of compare_model_xml promises, in one step: from  *)
(* the two <Model> element lists to the result dict "elements" with its    *)
(* missing_in_rust, extra_in_rust and differences, computed from the two   *)
(* indexes index_elements returns.  An index is described by what it is    *)
(* (each key of the document to the last element with that key), not by   *)
(* the loop that builds it; ModelDiff is the loop, and it implements this  *)
(* specification under the mapping given there.                            *)
(*                                                                         *)
(* element_key and diff_element are parameters: the contract holds for    *)
(* any key and any diff of single elements.  ModelDiff and CompareRun      *)
(* instantiate them with the Identity Resolver and the Element Differ of   *)
(* DacElements.                                                            *)
(***************************************************************************)
EXTENDS Integers, Sequences

CONSTANTS
  Elements,          \* the elements a document may contain
  MaxLen,            \* the largest number of elements in one document
  ElementKey(_),     \* element_key(elem)
  DiffElement(_, _)  \* diff_element(elem_a, elem_b), as a set of lines

Sides == {"rust", "dotnet"}

Docs == UNION {[1..n -> Elements] : n \in 0..MaxLen}

VARIABLES
  doc,          \* doc[s]: the Element children of side s's <Model>
  done,         \* compare_model_xml has returned
  missing,      \* missing_in_rust
  extra,        \* extra_in_rust
  differences   \* common key -> its non-empty diff_element result

avars == << doc, done, missing, extra, differences >>

(* The position of the last element of d whose key is k.                   *)
LastWithKey(d, k) ==
  CHOOSE j \in DOMAIN d : /\ ElementKey(d[j]) = k
                          /\ \A l \in DOMAIN d : l > j => ElementKey(d[l]) # k

(* The dict index_elements(model) returns: key -> last element with it.    *)
Index(d) == [k \in {ElementKey(d[j]) : j \in DOMAIN d} |-> d[LastWithKey(d, k)]]

Init ==
  /\ doc \in [Sides -> Docs]
  /\ done = FALSE
  /\ missing = {}
  /\ extra = {}
  /\ differences = << >>

(* results["elements"] of compare_model_xml on two element lists: the key  *)
(* set differences and the non-empty diffs of the common keys.             *)
CompareResult(da, db) ==
  LET ia == Index(da)
      ib == Index(db)
      changed == {k \in DOMAIN ia \cap DOMAIN ib : DiffElement(ia[k], ib[k]) # {}}
  IN  [missing     |-> DOMAIN ib \ DOMAIN ia,
       extra       |-> DOMAIN ia \ DOMAIN ib,
       differences |-> [k \in changed |-> DiffElement(ia[k], ib[k])]]

(* compare_model_xml on the two documents, in one step.                    *)
Compare ==
  /\ ~done
  /\ LET r == CompareResult(doc["rust"], doc["dotnet"])
     IN  /\ missing' = r.missing
         /\ extra' = r.extra
         /\ differences' = r.differences
  /\ done' = TRUE
  /\ UNCHANGED doc

SafetySpec == Init /\ [][Compare]_avars

Spec == SafetySpec /\ WF_avars(Compare)
=============================================================================
