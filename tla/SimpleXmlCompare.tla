-------------------------- MODULE SimpleXmlCompare --------------------------
(***************************************************************************)
(* One call of compare_simple_xml in tools/compare_dacpacs.py on the two   *)
(* sides' copies of one simple XML file, with the Canonicalizer's          *)
(* operators.  Used by TLC only.                                           *)
(***************************************************************************)
EXTENDS Canonicalizer

CONSTANT Files    \* the root nodes of the documents a run may compare

Sides == {"rust", "dotnet"}

VARIABLES
  file,     \* file[s]: the root of side s's document, or Absent
  status    \* the status returned, "none" before the call returns

vars == << file, status >>

Init ==
  /\ file \in [Sides -> Files \cup {Absent}]
  /\ status = "none"

Compare ==
  /\ status = "none"
  /\ status' = CompareSimpleXml(file["rust"], file["dotnet"])
  /\ UNCHANGED file

(* The call has returned.                                                  *)
Returned ==
  /\ status # "none"
  /\ UNCHANGED vars

Next == Compare \/ Returned

Spec == Init /\ [][Next]_vars /\ WF_vars(Next)

(* compare_simple_xml says "ok" only for two documents that are equal up   *)
(* to the order of siblings, and it does say "ok" for any two such         *)
(* documents in which no node has two children with one signature.         *)
SimpleXmlVerdict ==
  /\ status = "ok" => SameDocument(file["rust"], file["dotnet"])
  /\ (/\ file["rust"] # Absent /\ file["dotnet"] # Absent
      /\ DistinctSiblings(file["rust"]) /\ DistinctSiblings(file["dotnet"])
      /\ SameDocument(file["rust"], file["dotnet"])
      /\ status # "none")
       => status = "ok"

(* Section 8: permuting sibling order in either input's simple-XML file    *)
(* never changes the reported status.  The sort key of flatten is the      *)
(* child's own signature only, so siblings with one signature keep their  *)
(* document order and their subtrees are compared in that order.          *)
SiblingOrderIrrelevant ==
  (status # "none" /\ SameDocument(file["rust"], file["dotnet"])) => status \in {"ok", None}
=============================================================================
