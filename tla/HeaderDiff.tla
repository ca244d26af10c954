------------------------------ MODULE HeaderDiff ------------------------------
(***************************************************************************)
(* The Header Differ: compare_header in tools/compare_dacpacs.py.  Each    *)
(* side's <Header> (or None when model.xml has no Header) is indexed by    *)
(* index_custom_data, one CustomData block per step: the block's key is    *)
(* (Category, Type), its value the dict Metadata Name -> Value, and a key  *)
(* seen before is overwritten without a warning.  Then every key of either *)
(* index is visited: a key on one side only gives a "missing" line, a key  *)
(* whose two metadata dicts differ a label line and one line per metadata  *)
(* name whose .get() values differ.  The status is "ok" when no line was   *)
(* written.                                                                *)
(*                                                                         *)
(* Attribute values are members of small sets; the "" that a missing       *)
(* Category, Type, Name or Value attribute reads as is one of them.  The   *)
(* diff lines are tuples: their wording is left out.                       *)
(***************************************************************************)
EXTENDS Integers, Sequences, FiniteSets, Functions, PyDict

CONSTANTS
  Blocks,      \* the CustomData blocks a header may contain
  NoHeader,    \* root.find("Header") returned None
  MaxBlocks    \* the largest number of CustomData blocks in one header

MetaRec == [name : STRING, value : STRING]

ASSUME BlocksAssumption ==
  Blocks \subseteq [category : STRING, type : STRING, metas : Seq(MetaRec)]
ASSUME NoHeaderAssumption == NoHeader \notin Seq(Blocks)
ASSUME NoneAssumption == None \notin STRING
ASSUME MaxBlocksAssumption == MaxBlocks \in Nat

Sides == {"rust", "dotnet"}

(* The <Header> elements a run may compare.                                *)
Headers == {NoHeader} \cup UNION {[1..n -> Blocks] : n \in 0..MaxBlocks}

(* header.findall("CustomData"), or nothing when header is None.           *)
CustomData(h) == IF h = NoHeader THEN << >> ELSE h

(* (cd.get("Category", ""), cd.get("Type", "")).                           *)
BlockKey(b) == << b.category, b.type >>

(* Every key a block of Blocks can have.                                   *)
BlockKeys == {BlockKey(b) : b \in Blocks}

(* The dict "metas[m.get("Name", "")] = m.get("Value", "")" builds.        *)
Metas(b) == [n \in NamesOf(b.metas) |-> b.metas[LastNamed(b.metas, n)].value]

VARIABLES
  hdr,       \* hdr[s]: side s's <Header>, or NoHeader
  pc,        \* "index", "diff" or "done"
  side,      \* the side index_custom_data runs on while pc = "index"
  i,         \* position of the next CustomData block it visits
  cd,        \* cd[s]: the dict index_custom_data builds, key -> metas
  pending,   \* the keys of all_keys not yet visited
  diffs,     \* the diff lines written so far
  status     \* the status returned: "none" before the return

vars == << hdr, pc, side, i, cd, pending, diffs, status >>

Init ==
  /\ hdr \in [Sides -> Headers]
  /\ pc = "index"
  /\ side = "rust"
  /\ i = 1
  /\ cd = [s \in Sides |-> << >>]
  /\ pending = {}
  /\ diffs = {}
  /\ status = "none"

(* One iteration of the loop of index_custom_data on side `side`.          *)
IndexBlock ==
  /\ pc = "index"
  /\ i <= Len(CustomData(hdr[side]))
  /\ LET b == CustomData(hdr[side])[i]
     IN  cd' = [cd EXCEPT ![side] = Put(@, BlockKey(b), Metas(b))]
  /\ i' = i + 1
  /\ UNCHANGED << hdr, pc, side, pending, diffs, status >>

(* Mutant: the loop position not reset for the dotnet index.             *)
IndexDoneNoReset ==
  /\ pc = "index"
  /\ i > Len(CustomData(hdr[side]))
  /\ IF side = "rust"
       THEN /\ side' = "dotnet"
            /\ UNCHANGED << pc, pending, i >>
       ELSE /\ pc' = "diff"
            /\ pending' = DOMAIN cd["rust"] \cup DOMAIN cd["dotnet"]
            /\ UNCHANGED << side, i >>
  /\ UNCHANGED << hdr, cd, diffs, status >>

(* index_custom_data returns: the rust index is followed by the dotnet     *)
(* one, after which all_keys is the union of the two key sets.             *)
IndexDone ==
  /\ pc = "index"
  /\ i > Len(CustomData(hdr[side]))
  /\ IF side = "rust"
       THEN /\ side' = "dotnet"
            /\ i' = 1
            /\ UNCHANGED << pc, pending >>
       ELSE /\ pc' = "diff"
            /\ pending' = DOMAIN cd["rust"] \cup DOMAIN cd["dotnet"]
            /\ UNCHANGED << side, i >>
  /\ UNCHANGED << hdr, cd, diffs, status >>

(* Mutant: a key present on both sides is never compared.               *)
KeyDiffsPresenceOnly(a, b, key) ==
  IF key \notin DOMAIN b THEN {<< key, "missing_in_dotnet" >>}
  ELSE IF key \notin DOMAIN a THEN {<< key, "missing_in_rust" >>}
  ELSE {}

(* Mutant: the metadata names of the rust block only are compared.      *)
KeyDiffsRustMetasOnly(a, b, key) ==
  IF key \notin DOMAIN b THEN {<< key, "missing_in_dotnet" >>}
  ELSE IF key \notin DOMAIN a THEN {<< key, "missing_in_rust" >>}
  ELSE IF a[key] # b[key]
    THEN {<< key, "label" >>} \cup
         { << key, mk, PyGet(a[key], mk), PyGet(b[key], mk) >> :
             mk \in {mk \in DOMAIN a[key] :
                       PyGet(a[key], mk) # PyGet(b[key], mk)} }
  ELSE {}

(* Mutant: the metadata values read with .get(mk, ""), so that a name   *)
(* present with an empty value on one side only compares equal.         *)
KeyDiffsGetDefault(a, b, key) ==
  LET Get(d, mk) == IF mk \in DOMAIN d THEN d[mk] ELSE ""
  IN  IF key \notin DOMAIN b THEN {<< key, "missing_in_dotnet" >>}
      ELSE IF key \notin DOMAIN a THEN {<< key, "missing_in_rust" >>}
      ELSE IF a[key] # b[key]
        THEN {<< key, "label" >>} \cup
             { << key, mk, Get(a[key], mk), Get(b[key], mk) >> :
                 mk \in {mk \in DOMAIN a[key] \cup DOMAIN b[key] :
                           Get(a[key], mk) # Get(b[key], mk)} }
      ELSE {}

(* The lines the body of "for key in all_keys" appends for one key, with   *)
(* a = cd_a (rust) and b = cd_b (dotnet).                                  *)
KeyDiffs(a, b, key) ==
  IF key \notin DOMAIN b THEN {<< key, "missing_in_dotnet" >>}
  ELSE IF key \notin DOMAIN a THEN {<< key, "missing_in_rust" >>}
  ELSE IF a[key] # b[key]
    THEN {<< key, "label" >>} \cup
         { << key, mk, PyGet(a[key], mk), PyGet(b[key], mk) >> :
             mk \in {mk \in DOMAIN a[key] \cup DOMAIN b[key] :
                       PyGet(a[key], mk) # PyGet(b[key], mk)} }
  ELSE {}

(* One iteration of the loop over all_keys.  The code visits the keys in   *)
(* sorted order; the lines form a set here, so any key may come next.     *)
DiffKey ==
  /\ pc = "diff"
  /\ \E key \in pending :
       /\ pending' = pending \ {key}
       /\ diffs' = diffs \cup KeyDiffs(cd["rust"], cd["dotnet"], key)
  /\ UNCHANGED << hdr, pc, side, i, cd, status >>

(* compare_header returns ("ok", []) when no line was written.             *)
DiffDone ==
  /\ pc = "diff"
  /\ pending = {}
  /\ pc' = "done"
  /\ status' = IF diffs = {} THEN "ok" ELSE "different"
  /\ UNCHANGED << hdr, side, i, cd, pending, diffs >>

Finished ==
  /\ pc = "done"
  /\ UNCHANGED vars

Next == IndexBlock \/ IndexDone \/ DiffKey \/ DiffDone \/ Finished

Spec == Init /\ [][Next]_vars /\ WF_vars(Next)

-----------------------------------------------------------------------------
(* The index of a header as a definition: each key to the metadata of the  *)
(* last block with that key.                                               *)
LastBlock(h, k) ==
  CHOOSE j \in DOMAIN h : /\ BlockKey(h[j]) = k
                          /\ \A l \in DOMAIN h : l > j => BlockKey(h[l]) # k
HIndex(h) ==
  LET bs == CustomData(h)
  IN  [k \in {BlockKey(bs[j]) : j \in DOMAIN bs} |-> Metas(bs[LastBlock(bs, k)])]

(* The blocks a header holds, as (key, metadata) pairs.                    *)
BlockSet(h) == {<< BlockKey(b), Metas(b) >> : b \in Range(CustomData(h))}

(* Type correctness of the comparison state.                               *)
TypeOK ==
  /\ hdr \in [Sides -> Headers]
  /\ pc \in {"index", "diff", "done"}
  /\ side \in Sides
  /\ i \in 1..(Len(CustomData(hdr[side])) + 1)
  /\ DOMAIN cd = Sides
  /\ \A s \in Sides : DOMAIN cd[s] \subseteq BlockKeys
  /\ pending \subseteq DOMAIN cd["rust"] \cup DOMAIN cd["dotnet"]
  /\ status \in {"none", "ok", "different"}

(* When compare_header returns, the keys it wrote lines for are exactly    *)
(* the keys on which the two last-write indexes disagree (present on one   *)
(* side only, or with different metadata), and the status is "ok" exactly *)
(* when the two indexes are equal.                                         *)
HeaderReportExact ==
  pc = "done" =>
    LET ia == HIndex(hdr["rust"])
        ib == HIndex(hdr["dotnet"])
    IN  /\ {d[1] : d \in diffs} =
             {k \in DOMAIN ia \cup DOMAIN ib :
                k \notin DOMAIN ia \cap DOMAIN ib \/ ia[k] # ib[k]}
        /\ (status = "ok") <=> (ia = ib)

(* A block reported as changed is always explained: next to the label     *)
(* line of a key compare_header writes at least one metadata line for it.  *)
(* This rests on cd_a[key].get(mk) returning None for a name the block     *)
(* lacks, which no metadata value equals.                                  *)
ChangedKeysExplained ==
  pc = "done" =>
    \A d \in diffs :
      d = << d[1], "label" >> =>
        \E e \in diffs : DOMAIN e = 1..4 /\ e[1] = d[1]

(* Section 4.6: the status is "identical" only when no block-level         *)
(* difference exists: a header with a block the other lacks is not "ok".   *)
(* index_custom_data keeps the last of two blocks with one key and drops   *)
(* the other without a warning.                                            *)
HeaderOkMeansSameBlocks ==
  (pc = "done" /\ status = "ok") => BlockSet(hdr["rust"]) = BlockSet(hdr["dotnet"])

-----------------------------------------------------------------------------
(* The refinement mapping onto the one-step contract HeaderDiffAbstract:   *)
(* the abstract comparison has happened once the loops are done, and its  *)
(* lines and status are those compare_header returns.                      *)
HAbs == INSTANCE HeaderDiffAbstract WITH
          done  <- pc = "done",
          lines <- IF pc = "done" THEN diffs ELSE {}

(* compare_header implements its contract: whatever order the keys of     *)
(* all_keys are visited in, the lines it returns are exactly those of the  *)
(* diff of the two last-write indexes (missing keys, the label of each    *)
(* changed key and one line per differing metadata name), and no line is  *)
(* visible before it returns.                                              *)
HeaderRefinement == HAbs!SafetySpec
=============================================================================
