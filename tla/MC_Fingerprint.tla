--------------------------- MODULE MC_Fingerprint ---------------------------
(***************************************************************************)
(* Model-checking instance of Fingerprint: inline check-constraint-like    *)
(* elements whose two Properties, two Columns entries (references or a     *)
(* nested inline element) and annotation properties come in either order, *)
(* with a value changed, an entry changed, or a Disambiguator that differs.*)
(***************************************************************************)
EXTENDS Fingerprint

CONSTANTS NoneValue

Prop(n, v) == [name |-> n, value |-> v]
Ref(t) == [kind |-> "ref", target |-> t, ext |-> NoneValue]
Nested(el) == [kind |-> "inline", elem |-> el]
Rel(n, es) == [name |-> n, entries |-> es]
Ann(t, ps) == [type |-> t, props |-> ps]
Inl(ty, ps, rs, as) == [type |-> ty, props |-> ps, rels |-> rs, anns |-> as]

Inner1 == Inl("SqlColumnRef", << Prop("Order", "1") >>, << >>, << >>)
Inner2 == Inl("SqlColumnRef", << Prop("Order", "2") >>, << >>, << >>)

PropLists == {<< >>, << Prop("Expr", "a"), Prop("Bound", "1") >>,
              << Prop("Bound", "1"), Prop("Expr", "a") >>, << Prop("Expr", "b") >>}
RelLists == {<< >>,
             << Rel("Columns", << Ref("c1"), Ref("c2") >>) >>,
             << Rel("Columns", << Ref("c2"), Ref("c1") >>) >>,
             << Rel("Columns", << Nested(Inner1), Ref("c1") >>) >>,
             << Rel("Columns", << Ref("c1"), Nested(Inner1) >>) >>,
             << Rel("Columns", << Ref("c1"), Nested(Inner2) >>) >>}
AnnLists == {<< >>,
             << Ann("Bounds", << Prop("Lo", "0"), Prop("Hi", "9") >>) >>,
             << Ann("Bounds", << Prop("Hi", "9"), Prop("Lo", "0") >>) >>,
             << Ann("Bounds", << Prop("Lo", "0"), Prop("Disambiguator", "1") >>) >>,
             << Ann("Bounds", << Prop("Disambiguator", "2"), Prop("Lo", "0") >>) >>}

MCInlines == {Inl("SqlCheck", ps, rs, as) : ps \in PropLists, rs \in RelLists, as \in AnnLists}
=============================================================================
