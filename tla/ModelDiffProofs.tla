-------------------------- MODULE ModelDiffProofs --------------------------
(***************************************************************************)
(* Proofs about the Model Differ, for every choice of the constants.        *)
(***************************************************************************)
EXTENDS ModelDiff, TLAPS

(* Every document a run may compare is a finite sequence of elements.     *)
LEMMA DocsAreSeqs == Docs \subseteq Seq(Elements)
BY MaxLenAssumption DEF Docs

(* Put extends a dict by one key and keeps its other entries.              *)
LEMMA PutDomain ==
  ASSUME NEW d, NEW k, NEW v
  PROVE  /\ DOMAIN Put(d, k, v) = DOMAIN d \cup {k}
         /\ Put(d, k, v)[k] = v
         /\ \A x \in DOMAIN d : x # k => Put(d, k, v)[x] = d[x]
BY DEF Put

-----------------------------------------------------------------------------
(* The initial state and every step respect the types.                     *)
LEMMA InitTypeOK == Init => TypeOK
  <2> SUFFICES ASSUME Init PROVE TypeOK
    OBVIOUS
  <2>1. doc["rust"] \in Seq(Elements)
    BY DocsAreSeqs DEF Init, Sides
  <2> QED
    BY <2>1 DEF Init, TypeOK, Sides

LEMMA NextTypeOK == TypeOK /\ [Next]_vars => TypeOK'
  <2> SUFFICES ASSUME TypeOK, [Next]_vars PROVE TypeOK'
    OBVIOUS
  <2>0. \A s \in Sides : doc[s] \in Seq(Elements)
    BY DocsAreSeqs DEF TypeOK
  <2>1. CASE IndexElement
    <3> DEFINE e == doc[side][i]
               k == ElementKey(e)
    <3>1. i \in 1..Len(doc[side])
      BY <2>0, <2>1 DEF IndexElement, TypeOK
    <3>2. e \in Elements /\ k \in Keys
      BY <2>0, <3>1 DEF TypeOK, Keys
    <3>3. idx' = [idx EXCEPT ![side] = Put(idx[side], k, e)]
      BY <2>1 DEF IndexElement
    <3>4. \A s \in Sides : /\ DOMAIN idx'[s] \subseteq Keys
                           /\ idx'[s] \in [DOMAIN idx'[s] -> Elements]
      <4>1. idx'[side] = Put(idx[side], k, e)
        BY <3>3 DEF TypeOK
      <4>2. DOMAIN idx'[side] \subseteq Keys /\ idx'[side] \in [DOMAIN idx'[side] -> Elements]
        BY <3>2, <4>1 DEF TypeOK, Put
      <4>3. \A s \in Sides \ {side} : idx'[s] = idx[s]
        BY <3>3 DEF TypeOK
      <4> QED
        BY <4>2, <4>3 DEF TypeOK
    <3>7. DOMAIN idx' = Sides /\ DOMAIN dup' = Sides
      BY <2>1, <3>3 DEF IndexElement, TypeOK
    <3>5. \A s \in Sides : dup'[s] \in Seq(Keys)
      BY <2>1, <3>2 DEF IndexElement, NoteDuplicate, TypeOK
    <3>6. i' \in 1..(Len(doc'[side']) + 1)
      BY <2>0, <2>1, <3>1 DEF IndexElement, TypeOK
    <3> QED
      BY <2>1, <3>4, <3>5, <3>6, <3>7 DEF IndexElement, TypeOK
  <2>2. CASE IndexDone
    BY <2>0, <2>2 DEF IndexDone, TypeOK, Sides
  <2>3. CASE DiffCommon
    <3>1. PICK k \in pending :
            differences' = IF DiffElement(idx["rust"][k], idx["dotnet"][k]) # {}
                             THEN Put(differences, k, DiffElement(idx["rust"][k], idx["dotnet"][k]))
                             ELSE differences
      BY <2>3 DEF DiffCommon
    <3>4. DOMAIN differences' \subseteq Keys
      BY <3>1 DEF TypeOK, Put
    <3> QED
      BY <2>3, <3>4 DEF DiffCommon, TypeOK
  <2>4. CASE DiffDone
    BY <2>4 DEF DiffDone, TypeOK
  <2>5. CASE Finished \/ UNCHANGED vars
    BY <2>5 DEF Finished, TypeOK, vars
  <2> QED
    BY <2>1, <2>2, <2>3, <2>4, <2>5 DEF Next

(* The comparison state keeps its types: positions stay inside the        *)
(* document being indexed, and the index, the duplicate list, the key sets *)
(* and the differences hold only keys element_key can produce.            *)
THEOREM TypeCorrect == Spec => []TypeOK
BY InitTypeOK, NextTypeOK, PTL DEF Spec

-----------------------------------------------------------------------------
(* The loop "index[element_key(x)] = x" from an empty dict.                *)
LEMMA LastWriteEmpty ==
  ASSUME NEW d
  PROVE  LastWrite(<< >>, d, 0)
BY DEF LastWrite

(* One more iteration of that loop: visiting element n+1 of d puts it      *)
(* under its key and leaves the other keys alone.                          *)
LEMMA LastWriteStep ==
  ASSUME NEW f, NEW d, NEW n \in Nat, LastWrite(f, d, n)
  PROVE  LastWrite(Put(f, ElementKey(d[n + 1]), d[n + 1]), d, n + 1)
<1> DEFINE k == ElementKey(d[n + 1])
           g == Put(f, k, d[n + 1])
<1>1. DOMAIN g = {ElementKey(d[j]) : j \in 1..(n + 1)}
  BY DEF LastWrite, Put
<1>2. ASSUME NEW x \in DOMAIN g
      PROVE  \E j \in 1..(n + 1) : /\ ElementKey(d[j]) = x
                                  /\ g[x] = d[j]
                                  /\ \A l \in (j + 1)..(n + 1) : ElementKey(d[l]) # x
  <2>1. CASE x = k
    <3>1. g[x] = d[n + 1]
      BY <2>1 DEF Put
    <3> QED
      BY <2>1, <3>1
  <2>2. CASE x # k
    <3>1. x \in DOMAIN f /\ g[x] = f[x]
      BY <2>2 DEF Put
    <3>2. PICK j \in 1..n : /\ ElementKey(d[j]) = x
                            /\ f[x] = d[j]
                            /\ \A l \in (j + 1)..n : ElementKey(d[l]) # x
      BY <3>1 DEF LastWrite
    <3>3. \A l \in (j + 1)..(n + 1) : ElementKey(d[l]) # x
      BY <2>2, <3>2
    <3> QED
      BY <3>1, <3>2, <3>3
  <2> QED
    BY <2>1, <2>2
<1> QED
  BY <1>1, <1>2 DEF LastWrite

(* The inductive invariant: the types and the last-write property.        *)
IInv == TypeOK /\ IndexIsLastWrite

LEMMA InitIInv == Init => IInv
<1> SUFFICES ASSUME Init PROVE IInv
  OBVIOUS
<1>1. \A s \in Sides : Visited(s) = 0 /\ idx[s] = << >>
  BY DEF Init, Visited, Sides
<1> QED
  BY <1>1, InitTypeOK, LastWriteEmpty DEF IInv, IndexIsLastWrite

LEMMA NextIInv == IInv /\ [Next]_vars => IInv'
<1> SUFFICES ASSUME IInv, [Next]_vars PROVE IInv'
  OBVIOUS
<1>0. /\ TypeOK'
      /\ \A s \in Sides : doc[s] \in Seq(Elements)
  BY NextTypeOK, DocsAreSeqs DEF IInv, TypeOK
<1>1. CASE IndexElement
  <2> DEFINE e == doc[side][i]
             k == ElementKey(e)
  <2>1. i \in 1..Len(doc[side]) /\ Visited(side) = i - 1 /\ (Visited(side))' = i
    BY <1>0, <1>1 DEF IndexElement, IInv, TypeOK, Visited, Sides
  <2>2. idx'[side] = Put(idx[side], k, e)
    BY <1>1 DEF IndexElement, IInv, TypeOK
  <2>3. LastWrite(idx'[side], doc'[side], (Visited(side))')
    BY <1>1, <2>1, <2>2, LastWriteStep DEF IInv, IndexIsLastWrite, IndexElement, TypeOK
  <2>4. \A s \in Sides \ {side} :
          idx'[s] = idx[s] /\ doc'[s] = doc[s] /\ (Visited(s))' = Visited(s)
    BY <1>1 DEF IndexElement, IInv, TypeOK, Visited, Sides
  <2>5. side \in Sides
    BY DEF IInv, TypeOK
  <2>6. IndexIsLastWrite'
    <3> SUFFICES ASSUME NEW s \in Sides PROVE LastWrite(idx'[s], doc'[s], (Visited(s))')
      BY DEF IndexIsLastWrite
    <3>1. CASE s = side
      <4>1. side' = side
        BY <1>1 DEF IndexElement
      <4> QED
        BY <2>3, <3>1, <4>1
    <3>2. CASE s # side
      <4>1. idx'[s] = idx[s] /\ doc'[s] = doc[s] /\ (Visited(s))' = Visited(s)
        BY <2>4, <3>2
      <4>2. LastWrite(idx[s], doc[s], Visited(s))
        BY DEF IInv, IndexIsLastWrite
      <4> QED
        BY <4>1, <4>2
    <3> QED
      BY <3>1, <3>2
  <2> QED
    BY <1>0, <2>6 DEF IInv
<1>2. CASE IndexDone
  <2>1. i = Len(doc[side]) + 1
    BY <1>0, <1>2 DEF IndexDone, IInv, TypeOK
  <2>2. \A s \in Sides : (Visited(s))' = Visited(s)
    BY <1>0, <1>2, <2>1 DEF IndexDone, IInv, TypeOK, Visited, Sides
  <2> QED
    BY <1>0, <1>2, <2>2 DEF IndexDone, IInv, IndexIsLastWrite
<1>3. CASE DiffCommon \/ DiffDone \/ Finished \/ UNCHANGED vars
  <2>1. \A s \in Sides : (Visited(s))' = Visited(s)
    BY <1>3 DEF DiffCommon, DiffDone, Finished, vars, Visited
  <2> QED
    BY <1>0, <1>3, <2>1 DEF DiffCommon, DiffDone, Finished, vars, IInv, IndexIsLastWrite
<1> QED
  BY <1>1, <1>2, <1>3 DEF Next

(* index_elements is last-write-wins at every point of the run: the index  *)
(* of each side maps every key of the elements visited so far to the last  *)
(* of them with that key, and holds no other key.                          *)
THEOREM IndexCorrect == Spec => []IndexIsLastWrite
BY InitIInv, NextIInv, PTL DEF Spec, IInv
=============================================================================
