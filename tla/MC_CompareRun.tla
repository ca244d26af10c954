----------------------------- MODULE MC_CompareRun -----------------------------
(***************************************************************************)
(* Model-checking instance of CompareRun.  Each side's directory holds one *)
(* of a few contents per file, chosen so that every file meets each status *)
(* its comparator can give: DacMetadata.xml absent, or present with its    *)
(* children reordered and a text padded (ok); [Content_Types].xml equal or *)
(* different; the text files equal after rstrip, different, or missing on *)
(* either side; model.xml absent, equal, or different in its header or in  *)
(* an element; two unexpected files that may be on one side, on both and   *)
(* equal, or on both and different, one of them possibly binary.  Origin  *)
(* always differs.                                                         *)
(***************************************************************************)
EXTENDS CompareRun

CONSTANTS NoneValue, MsNsValue, AbsentValue, NoHeaderValue, BinaryValue

Node(ns, tag, ch, text) ==
  [ns |-> ns, tag |-> tag, attrs |-> << >>, text |-> text, children |-> ch]
Txt(w, pad) == [word |-> w, pad |-> pad]

Name1   == Node(MsNsValue, "Name", << >>, Txt("db", FALSE))
Name2   == Node(MsNsValue, "Name", << >>, Txt("db", TRUE))
Version == Node(MsNsValue, "Version", << >>, Txt("1.0", FALSE))
X1      == Node(MsNsValue, "DacType", << Name1, Version >>, NoneValue)
X1r     == Node(MsNsValue, "DacType", << Version, Name2 >>, NoneValue)
X2      == Node(MsNsValue, "DacType", << Name1 >>, NoneValue)
MCNodes == {Name1, Name2, Version, X1, X1r, X2}

Line(w, ws) == [word |-> w, ws |-> ws]
T1   == << Line("go", FALSE) >>
T1ws == << Line("go", TRUE) >>
T2   == << Line("go", FALSE), Line("select", FALSE) >>

Block(v) == [category |-> "Reference", type |-> "",
             metas |-> << [name |-> "File", value |-> v] >>]
MCBlocks == {Block("a"), Block("b")}

Table(v) == [type |-> "SqlTable", name |-> "t",
             props |-> << [name |-> "P", value |-> v] >>, rels |-> << >>, anns |-> << >>]
MCElements == {Table("v1"), Table("v2")}

M1 == [header |-> << Block("a") >>, model |-> << Table("v1") >>]
M2 == [header |-> << Block("a") >>, model |-> << Table("v2") >>]
M3 == [header |-> << Block("b") >>, model |-> << Table("v1") >>]

MCUnknown == {"a.txt", "b.txt"}

Side(origin, meta, types, pre, post, mx, a, b) ==
  ("Origin.xml" :> origin) @@ ("DacMetadata.xml" :> meta)
  @@ ("[Content_Types].xml" :> types) @@ ("predeploy.sql" :> pre)
  @@ ("postdeploy.sql" :> post) @@ ("model.xml" :> mx)
  @@ ("a.txt" :> a) @@ ("b.txt" :> b)

A == AbsentValue

MCContents ==
  [s \in {"rust", "dotnet"} |->
     IF s = "rust"
       THEN Side({"o1"}, {A, X1}, {X1}, {A, T1}, {T1}, {A, M1, M2}, {A, T1}, {A, T1, BinaryValue})
       ELSE Side({"o2"}, {A, X1r}, {X1, X2}, {T1ws, T2}, {A, T1}, {A, M1, M3}, {A, T2}, {A, T1})]

(* Two copies of one directory that has no model.xml.                      *)
MCContentsNoModel ==
  [s \in {"rust", "dotnet"} |-> Side({"o1"}, {X1}, {X1}, {T1}, {T1}, {A}, {A}, {A})]
=============================================================================
