---------------------------- MODULE MC_ModelDiff ----------------------------
(***************************************************************************)
(* Model-checking instance of ModelDiff.  The elements take four of the   *)
(* five branches of element_key: a named table in three versions (entries *)
(* reordered, a property and an entry changed), a default constraint      *)
(* keyed by DefiningTable+ForColumn whose annotation differs in            *)
(* Disambiguator only or in a real property, a check constraint keyed by   *)
(* DefiningTable alone, and a singleton.  The DefiningTable+DefiningColumn *)
(* branch has the ForColumn branch's shape and is left out.  Two elements *)
(* of one document may share a key, so duplicates occur.  A name present  *)
(* on one side only is the business of the hollow_members run.            *)
(***************************************************************************)
EXTENDS ModelDiff

CONSTANT NoneValue

MCTypes == {"SqlTable", "SqlDefaultConstraint", "SqlCheckConstraint", "SqlDatabaseOptions"}
MCNames == {"t"}
MCPropNames == {"P", "Disambiguator"}
MCValues == {"v1", "v2"}
MCRelNames == {"DefiningTable", "ForColumn", "DefiningColumn", "Columns"}
MCTargets == {"t", "c1", "c2"}
MCExts == {"x"}
MCFingerprints == {"f1"}
MCAnnTypes == {"A"}

Ref(t) == [kind |-> "ref", target |-> t, ext |-> NoneValue]
Rel(n, es) == [name |-> n, entries |-> es]
Prop(n, v) == [name |-> n, value |-> v]
Ann(ps) == [type |-> "A", props |-> ps]
El(ty, nm, ps, rs, as) == [type |-> ty, name |-> nm, props |-> ps, rels |-> rs, anns |-> as]

Table1 == El("SqlTable", "t", << Prop("P", "v1") >>,
             << Rel("Columns", << Ref("c1"), Ref("c2") >>) >>, << >>)
Table2 == El("SqlTable", "t", << Prop("P", "v1") >>,
             << Rel("Columns", << Ref("c2"), Ref("c1") >>) >>, << >>)
Table3 == El("SqlTable", "t", << Prop("P", "v2") >>,
             << Rel("Columns", << Ref("c1") >>) >>, << >>)
DfRels == << Rel("DefiningTable", << Ref("t") >>), Rel("ForColumn", << Ref("c1") >>) >>
Default1 == El("SqlDefaultConstraint", NoneValue, << >>, DfRels,
               << Ann(<< Prop("Disambiguator", "v1") >>) >>)
Default2 == El("SqlDefaultConstraint", NoneValue, << >>, DfRels,
               << Ann(<< Prop("Disambiguator", "v2") >>) >>)
Default3 == El("SqlDefaultConstraint", NoneValue, << >>, DfRels,
               << Ann(<< Prop("P", "v1"), Prop("Disambiguator", "v1") >>) >>)
Check1 == El("SqlCheckConstraint", NoneValue, << Prop("P", "v1") >>,
             << Rel("DefiningTable", << Ref("t") >>) >>, << >>)
Options == El("SqlDatabaseOptions", NoneValue, << >>, << >>, << >>)

MCElements == {Table1, Table2, Table3, Default1, Default2, Default3, Check1, Options}

(* Two annotations of one type that differ only in Disambiguator, against  *)
(* one such annotation: the case of an inline-constraint annotation that   *)
(* one generator emits twice and the other once.                           *)
Default4 == El("SqlDefaultConstraint", NoneValue, << >>, DfRels,
               << Ann(<< Prop("Disambiguator", "v1") >>),
                  Ann(<< Prop("Disambiguator", "v2") >>) >>)
MCElementsAnn == {Default1, Default4}

(* A table whose Property carries neither a Value attribute nor a Value    *)
(* child and whose Relationship has no entries, and the bare table.        *)
TableHollow == El("SqlTable", "t", << Prop("P", NoneValue) >>,
                  << Rel("Columns", << >>) >>, << >>)
TableBare   == El("SqlTable", "t", << >>, << >>, << >>)
MCElementsHollow == {TableHollow, TableBare}
=============================================================================
