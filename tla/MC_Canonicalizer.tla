-------------------------- MODULE MC_Canonicalizer --------------------------
(***************************************************************************)
(* Model-checking instance of Canonicalizer, shaped like DacMetadata.xml:  *)
(* a DacType root in the dac namespace whose children are Name and Version *)
(* leaves (one Name written without the namespace, one with whitespace     *)
(* around its text) and two Ref nodes with one signature that differ only  *)
(* in their child.  Every root with at most two such children is a file.   *)
(***************************************************************************)
EXTENDS SimpleXmlCompare

CONSTANTS NoneValue, MsNsValue, AbsentValue

Node(ns, tag, attrs, text, ch) ==
  [ns |-> ns, tag |-> tag, attrs |-> attrs, text |-> text, children |-> ch]
Txt(w, pad) == [word |-> w, pad |-> pad]

Name1   == Node(MsNsValue, "Name", << >>, Txt("db", FALSE), << >>)
Name2   == Node(MsNsValue, "Name", << >>, Txt("db", TRUE), << >>)
Name3   == Node(NoneValue, "Name", << >>, Txt("db", FALSE), << >>)
Version == Node(MsNsValue, "Version", << >>, Txt("1.0", FALSE), << >>)
Leaf1   == Node(MsNsValue, "Leaf", [Id |-> "1"], NoneValue, << >>)
Leaf2   == Node(MsNsValue, "Leaf", [Id |-> "2"], NoneValue, << >>)
RefA    == Node(MsNsValue, "Ref", << >>, NoneValue, << Leaf1 >>)
RefB    == Node(MsNsValue, "Ref", << >>, NoneValue, << Leaf2 >>)

Children == {Name1, Name2, Name3, Version, RefA, RefB}

MCFiles ==
  {Node(MsNsValue, "DacType", << >>, NoneValue, ch) :
     ch \in UNION {[1..k -> Children] : k \in 0..2}}

MCNodes == MCFiles \cup Children \cup {Leaf1, Leaf2}
=============================================================================
