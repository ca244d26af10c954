--------------------- MODULE ModelDiffRefinementProofs ---------------------
(***************************************************************************)
(* Proof that the loops of compare_model_xml implement ModelDiffAbstract:  *)
(* ModelDiff's Spec implies Abs!SafetySpec under the refinement mapping of *)
(* ModelDiff, for every choice of the constants.                           *)
(***************************************************************************)
EXTENDS ModelDiffProofs

(* diff_element on the two indexed elements of a common key.               *)
D(k) == DiffElement(idx["rust"][k], idx["dotnet"][k])

Common == DOMAIN idx["rust"] \cap DOMAIN idx["dotnet"]

(* What the loops have computed so far: nothing before the key sets; after *)
(* them the two set differences, and the non-empty diffs of the common     *)
(* keys the diff loop has already visited.                                 *)
ResultInv ==
  /\ pc = "index" => differences = << >>
  /\ pc \in {"diff", "done"} =>
       /\ missing = DOMAIN idx["dotnet"] \ DOMAIN idx["rust"]
       /\ extra = DOMAIN idx["rust"] \ DOMAIN idx["dotnet"]
       /\ pending \subseteq Common
       /\ differences = [k \in {k \in Common \ pending : D(k) # {}} |-> D(k)]

RInv == IInv /\ ResultInv

-----------------------------------------------------------------------------
(* A dict that is the last-write index of a whole document is the index    *)
(* ModelDiffAbstract describes: each key to the last element with it.      *)
LEMMA LastWriteIsIndex ==
  ASSUME NEW f, NEW d \in Seq(Elements),
         f \in [DOMAIN f -> Elements],
         LastWrite(f, d, Len(d))
  PROVE  f = Abs!Index(d)
<1>1. DOMAIN f = DOMAIN Abs!Index(d)
  BY DEF LastWrite, Abs!Index
<1>2. ASSUME NEW k \in DOMAIN f
      PROVE  f[k] = d[Abs!LastWithKey(d, k)]
  <2>1. PICK j \in 1..Len(d) : /\ ElementKey(d[j]) = k
                               /\ f[k] = d[j]
                               /\ \A l \in (j + 1)..Len(d) : ElementKey(d[l]) # k
    BY DEF LastWrite
  <2> DEFINE IsLast(m) == /\ m \in DOMAIN d
                          /\ ElementKey(d[m]) = k
                          /\ \A l \in DOMAIN d : l > m => ElementKey(d[l]) # k
  <2>2. IsLast(j)
    BY <2>1
  <2>3. IsLast(Abs!LastWithKey(d, k))
    BY <2>2 DEF Abs!LastWithKey
  <2>4. \A m1, m2 \in DOMAIN d : IsLast(m1) /\ IsLast(m2) => m1 = m2
    BY SMT
  <2> QED
    BY <2>1, <2>2, <2>3, <2>4
<1> QED
  BY <1>1, <1>2 DEF Abs!Index

(* Once both index loops are over, each index is the abstract one.         *)
LEMMA IndexesAreAbstract ==
  ASSUME IInv, pc \in {"diff", "done"}
  PROVE  \A s \in Sides : idx[s] = Abs!Index(doc[s])
<1> SUFFICES ASSUME NEW s \in Sides PROVE idx[s] = Abs!Index(doc[s])
  OBVIOUS
<1>1. doc[s] \in Seq(Elements) /\ idx[s] \in [DOMAIN idx[s] -> Elements]
  BY DocsAreSeqs DEF IInv, TypeOK
<1>2. Visited(s) = Len(doc[s])
  BY DEF Visited
<1>3. LastWrite(idx[s], doc[s], Len(doc[s]))
  BY <1>2 DEF IInv, IndexIsLastWrite
<1> QED
  BY <1>1, <1>3, LastWriteIsIndex

-----------------------------------------------------------------------------
LEMMA InitRInv == Init => RInv
<1> SUFFICES ASSUME Init PROVE RInv
  OBVIOUS
<1> QED
  BY InitIInv DEF Init, RInv, ResultInv

(* The diff loop keeps the result of the keys it has visited.              *)
LEMMA DiffCommonResult ==
  ASSUME RInv, DiffCommon
  PROVE  ResultInv'
<1>1. PICK k \in pending :
        /\ pending' = pending \ {k}
        /\ differences' = IF D(k) # {} THEN Put(differences, k, D(k)) ELSE differences
  BY DEF DiffCommon, D
<1>2. /\ pc' = pc /\ pc = "diff"
      /\ idx' = idx /\ missing' = missing /\ extra' = extra
  BY DEF DiffCommon
<1>3. \A x : D(x)' = D(x)
  BY <1>2 DEF D
<1> DEFINE Done(P) == {x \in Common \ P : D(x) # {}}
<1>4. differences = [x \in Done(pending) |-> D(x)]
  BY <1>2 DEF RInv, ResultInv
<1>5. k \in Common
  BY <1>2 DEF RInv, ResultInv
<1>6. differences' = [x \in Done(pending \ {k}) |-> D(x)]
  <2>1. CASE D(k) # {}
    <3>1. Done(pending \ {k}) = Done(pending) \cup {k}
      BY <1>5, <2>1
    <3> QED
      BY <1>1, <1>4, <2>1, <3>1 DEF Put
  <2>2. CASE D(k) = {}
    <3>1. Done(pending \ {k}) = Done(pending)
      BY <2>2
    <3> QED
      BY <1>1, <1>4, <2>2, <3>1
  <2> QED
    BY <2>1, <2>2
<1> QED
  BY <1>1, <1>2, <1>3, <1>6 DEF RInv, ResultInv, Common

LEMMA NextRInv == RInv /\ [Next]_vars => RInv'
<1> SUFFICES ASSUME RInv, [Next]_vars PROVE RInv'
  OBVIOUS
<1>0. IInv'
  BY NextIInv DEF RInv
<1>1. CASE IndexElement
  BY <1>0, <1>1 DEF IndexElement, RInv, ResultInv
<1>2. CASE IndexDone
  <2>1. CASE side = "rust"
    BY <1>0, <1>2, <2>1 DEF IndexDone, RInv, ResultInv
  <2>2. CASE side # "rust"
    <3>1. /\ pc = "index" /\ pc' = "diff"
          /\ idx' = idx /\ differences' = differences
          /\ missing' = DOMAIN idx["dotnet"] \ DOMAIN idx["rust"]
          /\ extra' = DOMAIN idx["rust"] \ DOMAIN idx["dotnet"]
          /\ pending' = Common
      BY <1>2, <2>2 DEF IndexDone, Common
    <3>2. differences = [x \in {} |-> D(x)]
      <4>1. differences = << >>
        BY <3>1 DEF RInv, ResultInv
      <4> QED
        BY <4>1
    <3>3. {x \in Common \ Common : D(x) # {}} = {}
      OBVIOUS
    <3>4. ResultInv'
      BY <3>1, <3>2, <3>3 DEF ResultInv, Common, D
    <3> QED
      BY <1>0, <3>4 DEF RInv
  <2> QED
    BY <2>1, <2>2
<1>3. CASE DiffCommon
  BY <1>0, <1>3, DiffCommonResult DEF RInv
<1>4. CASE DiffDone
  BY <1>0, <1>4 DEF DiffDone, RInv, ResultInv, Common, D
<1>5. CASE Finished \/ UNCHANGED vars
  <2>1. UNCHANGED << pc, idx, pending, missing, extra, differences >>
    BY <1>5 DEF Finished, vars
  <2>2. ResultInv'
    BY <2>1 DEF RInv, ResultInv, Common, D
  <2> QED
    BY <1>0, <2>2 DEF RInv
<1> QED
  BY <1>1, <1>2, <1>3, <1>4, <1>5 DEF Next

(* compare_model_xml's strengthened invariant holds throughout.            *)
LEMMA RInvariant == Spec => []RInv
BY InitRInv, NextRInv, PTL DEF Spec

-----------------------------------------------------------------------------
LEMMA InitRefines == Init => Abs!Init
BY DEF Init, Abs!Init, Docs, Abs!Docs, Sides, Abs!Sides

(* A step of the loops is a stutter of the abstract result, except the one *)
(* that returns from compare_model_xml, which is the abstract Compare.     *)
LEMMA NextRefines == RInv /\ [Next]_vars => [Abs!Compare]_Abs!avars
<1> SUFFICES ASSUME RInv, [Next]_vars PROVE [Abs!Compare]_Abs!avars
  OBVIOUS
<1>1. CASE DiffDone
  <2>1. /\ pc = "diff" /\ pc' = "done" /\ pending = {}
        /\ UNCHANGED << doc, idx, missing, extra, differences >>
    BY <1>1 DEF DiffDone
  <2>2. \A s \in Sides : idx[s] = Abs!Index(doc[s])
    BY <2>1, IndexesAreAbstract DEF RInv
  <2> DEFINE ia == Abs!Index(doc["rust"])
             ib == Abs!Index(doc["dotnet"])
  <2>3. idx["rust"] = ia /\ idx["dotnet"] = ib
    BY <2>2 DEF Sides
  <2>4. /\ missing = DOMAIN ib \ DOMAIN ia
        /\ extra = DOMAIN ia \ DOMAIN ib
        /\ differences = [k \in {k \in DOMAIN ia \cap DOMAIN ib : DiffElement(ia[k], ib[k]) # {}}
                            |-> DiffElement(ia[k], ib[k])]
    BY <2>1, <2>3 DEF RInv, ResultInv, Common, D
  <2>5. Abs!Compare
    BY <2>1, <2>4 DEF Abs!Compare, Abs!CompareResult
  <2> QED
    BY <2>5
<1>2. CASE IndexElement \/ IndexDone \/ DiffCommon
  <2>1. pc # "done" /\ pc' # "done" /\ doc' = doc
    BY <1>2 DEF IndexElement, IndexDone, DiffCommon
  <2> QED
    BY <2>1 DEF Abs!avars
<1>3. CASE Finished \/ UNCHANGED vars
  BY <1>3 DEF Finished, vars, Abs!avars
<1> QED
  BY <1>1, <1>2, <1>3 DEF Next

(* The loops of compare_model_xml implement its one-step contract: every   *)
(* behaviour of ModelDiff, seen through the refinement mapping, is a       *)
(* behaviour of ModelDiffAbstract, whose result is the pair of key set     *)
(* differences and the non-empty diffs of the last-write indexes.          *)
THEOREM Refines == Spec => Refinement
<1>1. Spec => []RInv
  BY RInvariant
<1> QED
  BY <1>1, InitRefines, NextRefines, PTL DEF Spec, Refinement, Abs!SafetySpec
=============================================================================
