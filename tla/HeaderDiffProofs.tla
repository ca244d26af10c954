--------------------------- MODULE HeaderDiffProofs ---------------------------
(***************************************************************************)
(* Proofs about the Header Differ, for every choice of the constants: the  *)
(* loops of index_custom_data build last-write indexes, and compare_header *)
(* reports exactly the keys on which the two indexes disagree.             *)
(***************************************************************************)
EXTENDS HeaderDiff, WellFoundedInduction, TLAPS

(* How many blocks of side s index_custom_data has visited.                *)
HVisited(s) ==
  IF pc = "index" /\ side = s THEN i - 1
  ELSE IF pc = "index" /\ s = "dotnet" THEN 0
  ELSE Len(CustomData(hdr[s]))

(* f is the dict "result[key] = metas" builds from the first n blocks of   *)
(* bs: each key maps to the metadata of the last of them with that key.    *)
HLastWrite(f, bs, n) ==
  /\ f = [k \in DOMAIN f |-> f[k]]
  /\ DOMAIN f = {BlockKey(bs[j]) : j \in 1..n}
  /\ \A k \in DOMAIN f :
       \E j \in 1..n : /\ BlockKey(bs[j]) = k
                      /\ f[k] = Metas(bs[j])
                      /\ \A l \in (j + 1)..n : BlockKey(bs[l]) # k

(* all_keys, and a key compare_header writes lines for.                    *)
AllKeys == DOMAIN cd["rust"] \cup DOMAIN cd["dotnet"]
Differs(k) ==
  k \notin DOMAIN cd["rust"] \cap DOMAIN cd["dotnet"] \/ cd["rust"][k] # cd["dotnet"][k]

(* The inductive invariant: the types, last write wins on both sides, and  *)
(* the lines written so far are those of the keys already visited.         *)
HInv ==
  /\ TypeOK
  /\ \A s \in Sides : HLastWrite(cd[s], CustomData(hdr[s]), HVisited(s))
  /\ pc = "index" => pending = {} /\ diffs = {}
  /\ pc # "done" => status = "none"
  /\ pc \in {"diff", "done"} =>
       {d[1] : d \in diffs} = {k \in AllKeys \ pending : Differs(k)}
  /\ pc = "done" => /\ pending = {}
                    /\ status = IF diffs = {} THEN "ok" ELSE "different"

-----------------------------------------------------------------------------
(* Every header a run may compare yields a finite list of CustomData       *)
(* blocks, empty when the header is missing.                               *)
LEMMA HeadersAreSeqs == \A h \in Headers : CustomData(h) \in Seq(Blocks)
BY MaxBlocksAssumption DEF Headers, CustomData

(* The loop "result[key] = metas" from an empty dict.                      *)
LEMMA HLastWriteEmpty ==
  ASSUME NEW bs
  PROVE  HLastWrite(<< >>, bs, 0)
<1>1. << >> = [k \in {} |-> << >>[k]]
  OBVIOUS
<1> QED
  BY <1>1 DEF HLastWrite

(* One more iteration of that loop puts block n+1 under its key and leaves *)
(* the other keys alone.                                                   *)
LEMMA HLastWriteStep ==
  ASSUME NEW f, NEW bs, NEW n \in Nat, HLastWrite(f, bs, n)
  PROVE  HLastWrite(Put(f, BlockKey(bs[n + 1]), Metas(bs[n + 1])), bs, n + 1)
<1> DEFINE k == BlockKey(bs[n + 1])
           g == Put(f, k, Metas(bs[n + 1]))
<1>1. g = [x \in DOMAIN g |-> g[x]] /\ DOMAIN g = {BlockKey(bs[j]) : j \in 1..(n + 1)}
  BY DEF HLastWrite, Put
<1>2. ASSUME NEW x \in DOMAIN g
      PROVE  \E j \in 1..(n + 1) : /\ BlockKey(bs[j]) = x
                                  /\ g[x] = Metas(bs[j])
                                  /\ \A l \in (j + 1)..(n + 1) : BlockKey(bs[l]) # x
  <2>1. CASE x = k
    BY <2>1 DEF Put
  <2>2. CASE x # k
    <3>1. x \in DOMAIN f /\ g[x] = f[x]
      BY <2>2 DEF Put
    <3>2. PICK j \in 1..n : /\ BlockKey(bs[j]) = x
                            /\ f[x] = Metas(bs[j])
                            /\ \A l \in (j + 1)..n : BlockKey(bs[l]) # x
      BY <3>1 DEF HLastWrite
    <3> QED
      BY <2>2, <3>1, <3>2
  <2> QED
    BY <2>1, <2>2
<1> QED
  BY <1>1, <1>2 DEF HLastWrite

(* The first component of every line written for a key is that key, and a *)
(* key gets lines iff it is on one side only or its metadata differ.       *)
LEMMA KeyDiffsKeys ==
  ASSUME NEW a, NEW b, NEW key
  PROVE  {d[1] : d \in KeyDiffs(a, b, key)} =
           IF key \notin DOMAIN a \cap DOMAIN b \/ a[key] # b[key] THEN {key} ELSE {}
<1>1. CASE key \notin DOMAIN b
  BY <1>1 DEF KeyDiffs
<1>2. CASE key \in DOMAIN b /\ key \notin DOMAIN a
  BY <1>2 DEF KeyDiffs
<1>3. CASE key \in DOMAIN b /\ key \in DOMAIN a /\ a[key] # b[key]
  <2> DEFINE L == {<< key, "label" >>}
             M == { << key, mk, PyGet(a[key], mk), PyGet(b[key], mk) >> :
                      mk \in {mk \in DOMAIN a[key] \cup DOMAIN b[key] :
                                PyGet(a[key], mk) # PyGet(b[key], mk)} }
  <2>1. KeyDiffs(a, b, key) = L \cup M
    BY <1>3 DEF KeyDiffs
  <2>2. \A d \in M : d[1] = key
    OBVIOUS
  <2>4. \A d \in L \cup M : d[1] = key
    BY <2>2
  <2>5. << key, "label" >> \in L \cup M /\ << key, "label" >>[1] = key
    OBVIOUS
  <2>3. {d[1] : d \in L \cup M} = {key}
    BY <2>4, <2>5, Zenon
  <2> QED
    BY <1>3, <2>1, <2>3
<1>4. CASE key \in DOMAIN b /\ key \in DOMAIN a /\ a[key] = b[key]
  BY <1>4 DEF KeyDiffs
<1> QED
  BY <1>1, <1>2, <1>3, <1>4

-----------------------------------------------------------------------------
LEMMA InitHInv == Init => HInv
<1> SUFFICES ASSUME Init PROVE HInv
  OBVIOUS
<1>1. \A s \in Sides : /\ CustomData(hdr[s]) \in Seq(Blocks)
                       /\ HVisited(s) = 0 /\ cd[s] = << >>
  BY HeadersAreSeqs DEF Init, HVisited, Sides
<1>2. TypeOK
  BY <1>1 DEF Init, TypeOK, Sides
<1>3. \A s \in Sides : HLastWrite(cd[s], CustomData(hdr[s]), HVisited(s))
  BY <1>1, HLastWriteEmpty
<1> QED
  BY <1>2, <1>3 DEF Init, HInv

(* One block indexed.                                                      *)
LEMMA IndexBlockHInv ==
  ASSUME HInv, IndexBlock
  PROVE  HInv'
<1> DEFINE bs == CustomData(hdr[side])
           b == bs[i]
<1>1. /\ side \in Sides /\ side' = side /\ pc = "index" /\ pc' = pc
      /\ bs \in Seq(Blocks)
      /\ i \in 1..Len(bs)
      /\ HVisited(side) = i - 1 /\ (HVisited(side))' = i
      /\ b \in Blocks
  BY HeadersAreSeqs DEF IndexBlock, HInv, TypeOK, HVisited, Sides
<1>2. cd'[side] = Put(cd[side], BlockKey(b), Metas(b))
  BY <1>1 DEF IndexBlock, HInv, TypeOK
<1>3. \A s \in Sides \ {side} : cd'[s] = cd[s] /\ (HVisited(s))' = HVisited(s)
  BY <1>1 DEF IndexBlock, HInv, TypeOK, HVisited, Sides
<1>4. HLastWrite(cd'[side], bs, i)
  <2>1. HLastWrite(cd[side], bs, i - 1)
    BY <1>1 DEF HInv
  <2>2. i - 1 \in Nat /\ (i - 1) + 1 = i
    BY <1>1
  <2> QED
    BY <1>2, <2>1, <2>2, HLastWriteStep
<1>5. \A s \in Sides : HLastWrite(cd'[s], CustomData(hdr'[s]), (HVisited(s))')
  BY <1>1, <1>3, <1>4 DEF IndexBlock, HInv
<1>6. TypeOK'
  <2>1. DOMAIN cd'[side] \subseteq BlockKeys
    BY <1>1, <1>2 DEF HInv, TypeOK, Put, BlockKeys
  <2>2. DOMAIN cd' = Sides
    BY DEF IndexBlock, HInv, TypeOK
  <2>3. i' \in 1..(Len(CustomData(hdr'[side'])) + 1)
    BY <1>1 DEF IndexBlock
  <2> QED
    BY <1>1, <1>3, <2>1, <2>2, <2>3 DEF IndexBlock, HInv, TypeOK
<1> QED
  BY <1>1, <1>5, <1>6 DEF IndexBlock, HInv

(* An index loop ends: the dotnet loop starts, or all_keys is formed.      *)
LEMMA IndexDoneHInv ==
  ASSUME HInv, IndexDone
  PROVE  HInv'
<1>1. /\ side \in Sides /\ pc = "index"
      /\ \A s \in Sides : CustomData(hdr[s]) \in Seq(Blocks)
      /\ i = Len(CustomData(hdr[side])) + 1
  BY HeadersAreSeqs DEF IndexDone, HInv, TypeOK
<1>2. \A s \in Sides : (HVisited(s))' = HVisited(s)
  BY <1>1 DEF IndexDone, HVisited, Sides
<1>3. CASE side = "rust"
  BY <1>1, <1>2, <1>3 DEF IndexDone, HInv, TypeOK, Sides
<1>4. CASE side # "rust"
  <2>1. /\ pc' = "diff" /\ pending' = AllKeys
        /\ UNCHANGED << hdr, cd, diffs, status, side, i >>
    BY <1>4 DEF IndexDone, AllKeys
  <2>2. diffs = {}
    BY <1>1 DEF HInv
  <2>3. ({d[1] : d \in diffs} = {k \in AllKeys \ pending : Differs(k)})'
    BY <2>1, <2>2 DEF AllKeys, Differs
  <2> QED
    BY <1>1, <1>2, <2>1, <2>3 DEF HInv, TypeOK, AllKeys
<1> QED
  BY <1>3, <1>4

(* One key of all_keys visited.                                            *)
LEMMA DiffKeyHInv ==
  ASSUME HInv, DiffKey
  PROVE  HInv'
<1>1. PICK key \in pending :
        /\ pending' = pending \ {key}
        /\ diffs' = diffs \cup KeyDiffs(cd["rust"], cd["dotnet"], key)
  BY DEF DiffKey
<1>2. /\ pc = "diff" /\ UNCHANGED << hdr, pc, side, i, cd, status >>
  BY DEF DiffKey
<1>3. \A s \in Sides : (HVisited(s))' = HVisited(s)
  BY <1>2 DEF HVisited
<1>4. {d[1] : d \in diffs'} =
        {d[1] : d \in diffs} \cup (IF Differs(key) THEN {key} ELSE {})
  <2> DEFINE K == KeyDiffs(cd["rust"], cd["dotnet"], key)
  <2>1. {d[1] : d \in diffs \cup K} = {d[1] : d \in diffs} \cup {d[1] : d \in K}
    OBVIOUS
  <2>2. {d[1] : d \in K} = IF Differs(key) THEN {key} ELSE {}
    BY KeyDiffsKeys DEF Differs
  <2> QED
    BY <1>1, <2>1, <2>2
<1>5. ({d[1] : d \in diffs} = {k \in AllKeys \ pending : Differs(k)})'
  <2>1. key \in AllKeys
    BY <1>1 DEF HInv, TypeOK, AllKeys
  <2>2. {d[1] : d \in diffs} = {k \in AllKeys \ pending : Differs(k)}
    BY <1>2 DEF HInv
  <2> QED
    BY <1>1, <1>2, <1>4, <2>1, <2>2 DEF AllKeys, Differs
<1> QED
  BY <1>1, <1>2, <1>3, <1>5 DEF HInv, TypeOK

LEMMA NextHInv == HInv /\ [Next]_vars => HInv'
<1> SUFFICES ASSUME HInv, [Next]_vars PROVE HInv'
  OBVIOUS
<1>1. CASE IndexBlock
  BY <1>1, IndexBlockHInv
<1>2. CASE IndexDone
  BY <1>2, IndexDoneHInv
<1>3. CASE DiffKey
  BY <1>3, DiffKeyHInv
<1>4. CASE DiffDone
  <2>1. \A s \in Sides : (HVisited(s))' = HVisited(s)
    BY <1>4 DEF DiffDone, HVisited
  <2> QED
    BY <1>4, <2>1 DEF DiffDone, HInv, TypeOK, AllKeys, Differs
<1>5. CASE Finished \/ UNCHANGED vars
  <2>1. UNCHANGED vars
    BY <1>5 DEF Finished
  <2>2. \A s \in Sides : (HVisited(s))' = HVisited(s)
    BY <2>1 DEF vars, HVisited
  <2> QED
    BY <2>1, <2>2 DEF vars, HInv, TypeOK, AllKeys, Differs
<1> QED
  BY <1>1, <1>2, <1>3, <1>4, <1>5 DEF Next

-----------------------------------------------------------------------------
(* The type of the comparison state is kept: positions stay inside the     *)
(* header being indexed, the indexes hold only keys of blocks, and the     *)
(* keys left to visit are keys of the indexes.                             *)
THEOREM HeaderTypeCorrect == Spec => []TypeOK
<1>1. HInv => TypeOK
  BY DEF HInv
<1> QED
  BY <1>1, InitHInv, NextHInv, PTL DEF Spec

(* A dict that is the last-write index of all the blocks of a header is    *)
(* the index HIndex describes: each key to the metadata of its last block. *)
LEMMA HLastWriteIsIndex ==
  ASSUME NEW f, NEW h, CustomData(h) \in Seq(Blocks),
         HLastWrite(f, CustomData(h), Len(CustomData(h)))
  PROVE  f = HIndex(h)
<1> DEFINE bs == CustomData(h)
<1>1. DOMAIN bs = 1..Len(bs)
  OBVIOUS
<1>2. DOMAIN f = {BlockKey(bs[j]) : j \in DOMAIN bs}
  BY <1>1 DEF HLastWrite
<1>3. ASSUME NEW k \in DOMAIN f
      PROVE  f[k] = Metas(bs[LastBlock(bs, k)])
  <2>1. PICK j \in 1..Len(bs) : /\ BlockKey(bs[j]) = k
                                /\ f[k] = Metas(bs[j])
                                /\ \A l \in (j + 1)..Len(bs) : BlockKey(bs[l]) # k
    BY DEF HLastWrite
  <2> DEFINE IsLast(m) == /\ m \in DOMAIN bs
                          /\ BlockKey(bs[m]) = k
                          /\ \A l \in DOMAIN bs : l > m => BlockKey(bs[l]) # k
  <2>2. IsLast(j)
    BY <1>1, <2>1
  <2>3. IsLast(LastBlock(bs, k))
    BY <2>2 DEF LastBlock
  <2>4. \A m1, m2 \in DOMAIN bs : IsLast(m1) /\ IsLast(m2) => m1 = m2
    BY <1>1
  <2> QED
    BY <2>1, <2>2, <2>3, <2>4
<1>4. f = [k \in DOMAIN f |-> f[k]]
  BY DEF HLastWrite
<1> QED
  BY <1>2, <1>3, <1>4 DEF HIndex

(* When compare_header returns, it has written lines for exactly the keys  *)
(* on which the two last-write header indexes disagree, and returned "ok"  *)
(* exactly when the two indexes are equal, for headers of any size.        *)
THEOREM HeaderReportCorrect == Spec => []HeaderReportExact
<1>1. HInv => HeaderReportExact
  <2> SUFFICES ASSUME HInv, pc = "done" PROVE HeaderReportExact
    BY DEF HeaderReportExact
  <2> DEFINE ia == HIndex(hdr["rust"])
             ib == HIndex(hdr["dotnet"])
  <2>1. cd["rust"] = ia /\ cd["dotnet"] = ib
    <3>1. \A s \in Sides : /\ CustomData(hdr[s]) \in Seq(Blocks)
                           /\ HVisited(s) = Len(CustomData(hdr[s]))
      BY HeadersAreSeqs DEF HInv, TypeOK, HVisited
    <3>2. \A s \in Sides : cd[s] = HIndex(hdr[s])
      BY <3>1, HLastWriteIsIndex DEF HInv
    <3> QED
      BY <3>2 DEF Sides
  <2>2. {d[1] : d \in diffs} =
          {k \in DOMAIN ia \cup DOMAIN ib : k \notin DOMAIN ia \cap DOMAIN ib \/ ia[k] # ib[k]}
    BY <2>1 DEF HInv, AllKeys, Differs
  <2>3. (ia = ib) <=> ({k \in DOMAIN ia \cup DOMAIN ib :
                          k \notin DOMAIN ia \cap DOMAIN ib \/ ia[k] # ib[k]} = {})
    <3>1. ia = [k \in DOMAIN ia |-> ia[k]] /\ ib = [k \in DOMAIN ib |-> ib[k]]
      BY DEF HIndex
    <3> QED
      BY <3>1
  <2>4. (status = "ok") <=> (diffs = {})
    BY DEF HInv
  <2> QED
    BY <2>2, <2>3, <2>4 DEF HeaderReportExact
<1> QED
  BY <1>1, InitHInv, NextHInv, PTL DEF Spec
-----------------------------------------------------------------------------
(* The lines the loop over all_keys writes, one key at a time, are the     *)
(* lines of the abstract diff of the two indexes.                          *)
LEMMA LinesUnion ==
  ASSUME NEW a, NEW b
  PROVE  UNION {KeyDiffs(a, b, k) : k \in DOMAIN a \cup DOMAIN b} = HAbs!HeaderLines(a, b)
<1> DEFINE HL == HAbs!HeaderLines(a, b)
           MD == {<< k, "missing_in_dotnet" >> : k \in DOMAIN a \ DOMAIN b}
           MR == {<< k, "missing_in_rust" >> : k \in DOMAIN b \ DOMAIN a}
           LB == {<< k, "label" >> : k \in HAbs!Changed(a, b)}
           ML(k) == {<< k, mk, PyGet(a[k], mk), PyGet(b[k], mk) >> :
                       mk \in HAbs!ChangedMetas(a, b, k)}
<1>1. HL = MD \cup MR \cup LB \cup UNION {ML(k) : k \in HAbs!Changed(a, b)}
  BY DEF HL, MD, MR, LB, ML, HAbs!HeaderLines, HAbs!PyGet, PyGet
<1>2. ASSUME NEW k \in DOMAIN a \cup DOMAIN b
      PROVE  KeyDiffs(a, b, k) \subseteq HL
  <2>1. CASE k \notin DOMAIN b
    <3>1. KeyDiffs(a, b, k) = {<< k, "missing_in_dotnet" >>}
      BY <2>1 DEF KeyDiffs
    <3> QED
      BY <1>1, <2>1, <3>1
  <2>2. CASE k \in DOMAIN b /\ k \notin DOMAIN a
    <3>1. KeyDiffs(a, b, k) = {<< k, "missing_in_rust" >>}
      BY <2>2 DEF KeyDiffs
    <3> QED
      BY <1>1, <2>2, <3>1
  <2>3. CASE k \in DOMAIN b /\ k \in DOMAIN a /\ a[k] # b[k]
    <3>1. k \in HAbs!Changed(a, b)
      BY <2>3 DEF HAbs!Changed
    <3>2. KeyDiffs(a, b, k) = {<< k, "label" >>} \cup ML(k)
      BY <2>3 DEF KeyDiffs, ML, HAbs!ChangedMetas, HAbs!PyGet, PyGet
    <3>3. << k, "label" >> \in LB /\ ML(k) \subseteq UNION {ML(j) : j \in HAbs!Changed(a, b)}
      BY <3>1
    <3> QED
      BY <1>1, <3>2, <3>3
  <2>4. CASE k \in DOMAIN b /\ k \in DOMAIN a /\ a[k] = b[k]
    BY <2>4 DEF KeyDiffs
  <2> QED
    BY <2>1, <2>2, <2>3, <2>4
<1>3. ASSUME NEW x \in HL
      PROVE  \E k \in DOMAIN a \cup DOMAIN b : x \in KeyDiffs(a, b, k)
  <2>1. CASE x \in MD
    <3>1. PICK k \in DOMAIN a \ DOMAIN b : x = << k, "missing_in_dotnet" >>
      BY <2>1
    <3>2. KeyDiffs(a, b, k) = {<< k, "missing_in_dotnet" >>}
      BY <3>1 DEF KeyDiffs
    <3> QED
      BY <3>1, <3>2
  <2>2. CASE x \in MR
    <3>1. PICK k \in DOMAIN b \ DOMAIN a : x = << k, "missing_in_rust" >>
      BY <2>2
    <3>2. KeyDiffs(a, b, k) = {<< k, "missing_in_rust" >>}
      BY <3>1 DEF KeyDiffs
    <3> QED
      BY <3>1, <3>2
  <2>3. CASE x \in LB \cup UNION {ML(k) : k \in HAbs!Changed(a, b)}
    <3>1. PICK k \in HAbs!Changed(a, b) : x \in {<< k, "label" >>} \cup ML(k)
      BY <2>3
    <3>2. k \in DOMAIN b /\ k \in DOMAIN a /\ a[k] # b[k]
      BY <3>1 DEF HAbs!Changed
    <3>3. KeyDiffs(a, b, k) = {<< k, "label" >>} \cup ML(k)
      BY <3>2 DEF KeyDiffs, ML, HAbs!ChangedMetas, HAbs!PyGet, PyGet
    <3> QED
      BY <3>1, <3>2, <3>3
  <2> QED
    BY <1>1, <2>1, <2>2, <2>3
<1> QED
  BY <1>2, <1>3
-----------------------------------------------------------------------------
(* The lines written so far are those of the keys already visited, as      *)
(* lines and not only as keys: the refinement needs the lines themselves.  *)
DInv ==
  pc \in {"diff", "done"} =>
    diffs = UNION {KeyDiffs(cd["rust"], cd["dotnet"], k) : k \in AllKeys \ pending}

LInv == HInv /\ DInv

LEMMA InitLInv == Init => LInv
BY InitHInv DEF Init, LInv, DInv

LEMMA NextLInv == LInv /\ [Next]_vars => LInv'
<1> SUFFICES ASSUME HInv, DInv, [Next]_vars PROVE DInv'
  BY NextHInv DEF LInv
<1> DEFINE Lines(P) == UNION {KeyDiffs(cd["rust"], cd["dotnet"], k) : k \in AllKeys \ P}
<1>1. CASE IndexBlock
  BY <1>1 DEF IndexBlock, DInv
<1>2. CASE IndexDone
  <2>1. CASE side = "rust"
    BY <1>2, <2>1 DEF IndexDone, DInv
  <2>2. CASE side # "rust"
    <3>1. pending' = AllKeys /\ diffs' = {} /\ cd' = cd
      BY <1>2, <2>2 DEF IndexDone, AllKeys, HInv
    <3>2. Lines(AllKeys) = {}
      OBVIOUS
    <3> QED
      BY <3>1, <3>2 DEF DInv, AllKeys
  <2> QED
    BY <2>1, <2>2
<1>3. CASE DiffKey
  <2>1. PICK key \in pending :
          /\ pending' = pending \ {key}
          /\ diffs' = diffs \cup KeyDiffs(cd["rust"], cd["dotnet"], key)
    BY <1>3 DEF DiffKey
  <2>2. pc = "diff" /\ pc' = pc /\ cd' = cd
    BY <1>3 DEF DiffKey
  <2>3. key \in AllKeys
    BY <2>1 DEF HInv, TypeOK, AllKeys
  <2>4. AllKeys \ pending' = (AllKeys \ pending) \cup {key}
    BY <2>1, <2>3
  <2>5. Lines(pending') = Lines(pending) \cup KeyDiffs(cd["rust"], cd["dotnet"], key)
    BY <2>4
  <2> QED
    BY <2>1, <2>2, <2>5 DEF DInv, AllKeys
<1>4. CASE DiffDone
  BY <1>4 DEF DiffDone, DInv, AllKeys
<1>5. CASE Finished \/ UNCHANGED vars
  <2>1. UNCHANGED vars
    BY <1>5 DEF Finished
  <2> QED
    BY <2>1 DEF vars, DInv, AllKeys
<1> QED
  BY <1>1, <1>2, <1>3, <1>4, <1>5 DEF Next
-----------------------------------------------------------------------------
(* The header index described in HeaderDiff is the abstract one.           *)
LEMMA HIndexIsAbstract ==
  ASSUME NEW h
  PROVE  HIndex(h) = HAbs!Index(CustomData(h))
BY DEF HIndex, HAbs!Index, LastBlock, HAbs!LastBlock

(* Once both index loops are done, the two dicts are the abstract indexes. *)
LEMMA IndexesAreAbstract ==
  ASSUME HInv, pc \in {"diff", "done"}
  PROVE  \A s \in Sides : cd[s] = HAbs!Index(CustomData(hdr[s]))
<1>1. \A s \in Sides : /\ CustomData(hdr[s]) \in Seq(Blocks)
                       /\ HVisited(s) = Len(CustomData(hdr[s]))
  BY HeadersAreSeqs DEF HInv, TypeOK, HVisited
<1>2. \A s \in Sides : cd[s] = HIndex(hdr[s])
  BY <1>1, HLastWriteIsIndex DEF HInv
<1> QED
  BY <1>2, HIndexIsAbstract

LEMMA InitHRefines == Init => HAbs!Init
BY DEF Init, HAbs!Init, Sides, HAbs!Sides

(* A step of the loops is a stutter of the abstract comparison, except the *)
(* return from compare_header, which is the abstract Compare.              *)
LEMMA NextHRefines == LInv /\ [Next]_vars => [HAbs!Compare]_HAbs!avars
<1> SUFFICES ASSUME HInv, DInv, [Next]_vars PROVE [HAbs!Compare]_HAbs!avars
  BY DEF LInv
<1>1. CASE DiffDone
  <2>1. /\ pc = "diff" /\ pc' = "done" /\ pending = {}
        /\ UNCHANGED << hdr, cd, diffs >>
        /\ status' = IF diffs = {} THEN "ok" ELSE "different"
    BY <1>1 DEF DiffDone
  <2> DEFINE ia == HAbs!Index(CustomData(hdr["rust"]))
             ib == HAbs!Index(CustomData(hdr["dotnet"]))
  <2>2. cd["rust"] = ia /\ cd["dotnet"] = ib
    BY <2>1, IndexesAreAbstract DEF Sides
  <2>3. diffs = UNION {KeyDiffs(ia, ib, k) : k \in DOMAIN ia \cup DOMAIN ib}
    BY <2>1, <2>2 DEF DInv, AllKeys
  <2>4. diffs = HAbs!HeaderLines(ia, ib)
    BY <2>3, LinesUnion
  <2>5. HAbs!Compare
    BY <2>1, <2>4 DEF HAbs!Compare
  <2> QED
    BY <2>5
<1>2. CASE IndexBlock \/ IndexDone \/ DiffKey
  <2>1. pc # "done" /\ pc' # "done" /\ hdr' = hdr
    BY <1>2 DEF IndexBlock, IndexDone, DiffKey
  <2>2. status = "none" /\ status' = "none"
    BY <2>1, NextHInv DEF HInv
  <2> QED
    BY <2>1, <2>2 DEF HAbs!avars
<1>3. CASE Finished \/ UNCHANGED vars
  <2>1. UNCHANGED vars
    BY <1>3 DEF Finished
  <2> QED
    BY <2>1 DEF vars, HAbs!avars
<1> QED
  BY <1>1, <1>2, <1>3 DEF Next

(* compare_header implements its one-step contract: for headers of any    *)
(* size and any metadata, the lines it returns are the abstract diff of    *)
(* the two last-write indexes, whatever order all_keys is visited in.     *)
THEOREM HeaderRefines == Spec => HeaderRefinement
<1>1. Spec => []LInv
  BY InitLInv, NextLInv, PTL DEF Spec
<1> QED
  BY <1>1, InitHRefines, NextHRefines, PTL DEF Spec, HeaderRefinement, HAbs!SafetySpec
-----------------------------------------------------------------------------
(* A non-empty set of positions 1..N has a largest element; from the       *)
(* well-foundedness of < on Nat, applied to the distances N - j.           *)
LEMMA LargestPosition ==
  ASSUME NEW S, NEW N \in Nat, S \subseteq 1..N, S # {}
  PROVE  \E j \in S : \A l \in S : l <= j
<1>1. \A j \in S : N - j \in Nat
  OBVIOUS
<1>2. {N - j : j \in S} \subseteq Nat /\ {N - j : j \in S} # {}
  BY <1>1
<1>3. PICK x \in {N - j : j \in S} : \A y \in {N - j : j \in S} : ~(<<y, x>> \in OpToRel(<, Nat))
  BY <1>2, NatLessThanWellFounded, WFMin
<1>4. \A y \in {N - j : j \in S} : ~(y < x)
  BY <1>2, <1>3 DEF OpToRel
<1>5. PICK j \in S : x = N - j
  OBVIOUS
<1> QED
  BY <1>1, <1>4, <1>5

(* The loop "metas[m.get("Name", "")] = ..." leaves each name the value of *)
(* a Metadata child that has that name: the last one.                      *)
LEMMA LastNamedExists ==
  ASSUME NEW cs \in Seq(MetaRec), NEW n \in NamesOf(cs)
  PROVE  LastNamed(cs, n) \in DOMAIN cs
<1> DEFINE S == {j \in 1..Len(cs) : cs[j].name = n}
<1>1. S \subseteq 1..Len(cs) /\ S # {} /\ Len(cs) \in Nat
  BY DEF NamesOf, S
<1>2. PICK j \in S : \A l \in S : l <= j
  BY <1>1, LargestPosition, Zenon
<1>3. /\ j \in DOMAIN cs /\ cs[j].name = n
      /\ \A l \in DOMAIN cs : l > j => cs[l].name # n
  BY <1>2 DEF S
<1> QED
  BY <1>3 DEF LastNamed

(* The metadata dict of a block maps names to attribute values, which are  *)
(* strings.                                                                *)
LEMMA MetasAreStrings ==
  ASSUME NEW b \in Blocks
  PROVE  /\ Metas(b) = [n \in DOMAIN Metas(b) |-> Metas(b)[n]]
         /\ \A n \in DOMAIN Metas(b) : Metas(b)[n] \in STRING
<1>1. b.metas \in Seq(MetaRec)
  BY BlocksAssumption
<1>2. \A n \in NamesOf(b.metas) : b.metas[LastNamed(b.metas, n)] \in MetaRec
  BY <1>1, LastNamedExists
<1> QED
  BY <1>2 DEF Metas, MetaRec

(* Two different dicts of strings differ in the .get() of some name: a     *)
(* name on one side only reads None on the other, which is no string.      *)
LEMMA GetDiffers ==
  ASSUME NEW f, NEW g,
         f = [x \in DOMAIN f |-> f[x]], g = [x \in DOMAIN g |-> g[x]],
         \A x \in DOMAIN f : f[x] \in STRING,
         \A x \in DOMAIN g : g[x] \in STRING,
         f # g
  PROVE  \E mk \in DOMAIN f \cup DOMAIN g : PyGet(f, mk) # PyGet(g, mk)
<1>1. CASE DOMAIN f = DOMAIN g
  <2>1. PICK x \in DOMAIN f : f[x] # g[x]
    BY <1>1
  <2> QED
    BY <1>1, <2>1 DEF PyGet
<1>2. CASE DOMAIN f # DOMAIN g
  <2>1. PICK x \in DOMAIN f \cup DOMAIN g : ~(x \in DOMAIN f /\ x \in DOMAIN g)
    BY <1>2
  <2> QED
    BY <2>1, NoneAssumption DEF PyGet
<1> QED
  BY <1>1, <1>2
(* Once both index loops are done, every value of an index is the metadata *)
(* dict of a block: a function from names to strings.                      *)
LEMMA IndexValuesAreDicts ==
  ASSUME HInv, pc \in {"diff", "done"}, NEW s \in Sides, NEW k \in DOMAIN cd[s]
  PROVE  /\ cd[s][k] = [n \in DOMAIN cd[s][k] |-> cd[s][k][n]]
         /\ \A n \in DOMAIN cd[s][k] : cd[s][k][n] \in STRING
<1> DEFINE bs == CustomData(hdr[s])
<1>1. bs \in Seq(Blocks) /\ HVisited(s) = Len(bs)
  BY HeadersAreSeqs DEF HInv, TypeOK, HVisited
<1>2. HLastWrite(cd[s], bs, Len(bs))
  BY <1>1 DEF HInv, bs
<1>3. PICK j \in 1..Len(bs) : cd[s][k] = Metas(bs[j])
  BY <1>2 DEF HLastWrite
<1>4. bs[j] \in Blocks
  BY <1>1
<1> QED
  BY <1>3, <1>4, MetasAreStrings

(* Every label line compare_header returns for a changed block comes with  *)
(* at least one line naming a metadata entry that differs, for headers of  *)
(* any size: index values are dicts of strings, and .get() of a name      *)
(* missing on one side is None, which no string equals.                    *)
THEOREM HeaderChangesExplained == Spec => []ChangedKeysExplained
<1>1. LInv => ChangedKeysExplained
  <2> SUFFICES ASSUME LInv, pc = "done", NEW d \in diffs, d = << d[1], "label" >>
               PROVE  \E e \in diffs : DOMAIN e = 1..4 /\ e[1] = d[1]
    BY DEF ChangedKeysExplained
  <2> DEFINE a == cd["rust"]
             b == cd["dotnet"]
  <2>1. HInv /\ pending = {}
    BY DEF LInv, HInv
  <2>2. diffs = UNION {KeyDiffs(a, b, k) : k \in AllKeys}
    BY <2>1 DEF LInv, DInv
  <2>3. PICK k \in AllKeys : d \in KeyDiffs(a, b, k)
    BY <2>2
  <2>4. k \in DOMAIN a /\ k \in DOMAIN b /\ a[k] # b[k] /\ d[1] = k
    <3>1. CASE k \notin DOMAIN b
      BY <2>3, <3>1 DEF KeyDiffs
    <3>2. CASE k \in DOMAIN b /\ k \notin DOMAIN a
      BY <2>3, <3>2 DEF KeyDiffs
    <3>3. CASE k \in DOMAIN b /\ k \in DOMAIN a /\ a[k] = b[k]
      BY <2>3, <3>3 DEF KeyDiffs
    <3>4. CASE k \in DOMAIN b /\ k \in DOMAIN a /\ a[k] # b[k]
      BY <2>3, <3>4 DEF KeyDiffs
    <3> QED
      BY <3>1, <3>2, <3>3, <3>4
  <2>5. /\ a[k] = [n \in DOMAIN a[k] |-> a[k][n]] /\ \A n \in DOMAIN a[k] : a[k][n] \in STRING
        /\ b[k] = [n \in DOMAIN b[k] |-> b[k][n]] /\ \A n \in DOMAIN b[k] : b[k][n] \in STRING
    BY <2>1, <2>4, IndexValuesAreDicts DEF Sides
  <2>6. PICK mk \in DOMAIN a[k] \cup DOMAIN b[k] : PyGet(a[k], mk) # PyGet(b[k], mk)
    BY <2>4, <2>5, GetDiffers
  <2> DEFINE e == << k, mk, PyGet(a[k], mk), PyGet(b[k], mk) >>
  <2>7. e \in KeyDiffs(a, b, k)
    BY <2>4, <2>6 DEF KeyDiffs
  <2>8. e \in diffs
    BY <2>2, <2>7
  <2> QED
    BY <2>4, <2>8
<1> QED
  BY <1>1, InitLInv, NextLInv, PTL DEF Spec
=============================================================================
