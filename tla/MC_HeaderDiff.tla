---------------------------- MODULE MC_HeaderDiff ----------------------------
(***************************************************************************)
(* Model-checking instance of HeaderDiff.  Headers hold up to two blocks   *)
(* of one category: a block with no Type attribute in three versions (a    *)
(* metadata value changed, the same name written twice), a typed block,   *)
(* an empty one and one whose only Metadata has an empty Value; so a key may repeat inside one header, appear on one  *)
(* side only, or carry different metadata on the two sides.                *)
(***************************************************************************)
EXTENDS HeaderDiff

CONSTANTS NoneValue, NoHeaderValue

Meta(n, v) == [name |-> n, value |-> v]
Block(c, t, ms) == [category |-> c, type |-> t, metas |-> ms]

B1 == Block("Reference", "", << Meta("File", "a") >>)
B2 == Block("Reference", "", << Meta("File", "b") >>)
B3 == Block("Reference", "", << Meta("File", "a"), Meta("File", "b") >>)
B4 == Block("Reference", "SqlSchema", << Meta("File", "a") >>)
B5 == Block("Reference", "", << >>)
B6 == Block("Reference", "", << Meta("File", "") >>)

MCBlocks == {B1, B2, B3, B4, B5, B6}
=============================================================================
