------------------------- MODULE HeaderDiffAbstract -------------------------
(***************************************************************************)
(* What compare_header promises, in one step: from the two <Header>        *)
(* elements to the status and the set of diff lines, computed from the    *)
(* two indexes index_custom_data returns.  An index is described by what   *)
(* it is (each (Category, Type) key to the metadata dict of the last       *)
(* block with that key), and the lines by the keys and metadata names     *)
(* they are about, not by the loop over all_keys that writes them.         *)
(* HeaderDiff is the two loops, and it implements this specification      *)
(* under the mapping given there.                                          *)
(*                                                                         *)
(* How a block is read (its key and its metadata dict) is a parameter:    *)
(* HeaderDiff instantiates it with the attribute reads of                  *)
(* index_custom_data.                                                      *)
(***************************************************************************)
EXTENDS Integers, Sequences, PyDict

CONSTANTS
  Headers,        \* the <Header> elements a run may compare
  CustomData(_),  \* header.findall("CustomData"), or nothing for None
  BlockKey(_),    \* (cd.get("Category", ""), cd.get("Type", ""))
  Metas(_)        \* the dict Metadata Name -> Value of a block

Sides == {"rust", "dotnet"}

VARIABLES
  hdr,     \* hdr[s]: side s's <Header>
  done,    \* compare_header has returned
  lines,   \* the diff lines it returned
  status   \* the status it returned: "none" before the return

avars == << hdr, done, lines, status >>

(* The position of the last block of bs whose key is k.                    *)
LastBlock(bs, k) ==
  CHOOSE j \in DOMAIN bs : /\ BlockKey(bs[j]) = k
                           /\ \A l \in DOMAIN bs : l > j => BlockKey(bs[l]) # k

(* The dict index_custom_data returns for the blocks bs.                   *)
Index(bs) == [k \in {BlockKey(bs[j]) : j \in DOMAIN bs} |-> Metas(bs[LastBlock(bs, k)])]

(* The keys present on both sides whose metadata dicts differ.             *)
Changed(ia, ib) == {k \in DOMAIN ia \cap DOMAIN ib : ia[k] # ib[k]}

(* The metadata names of a changed key whose .get() values differ.         *)
ChangedMetas(ia, ib, k) ==
  {mk \in DOMAIN ia[k] \cup DOMAIN ib[k] : PyGet(ia[k], mk) # PyGet(ib[k], mk)}

(* The lines of the diff of two indexes: a key on one side only, the label *)
(* of a changed key, and one line per metadata name that differs in it.    *)
HeaderLines(ia, ib) ==
  {<< k, "missing_in_dotnet" >> : k \in DOMAIN ia \ DOMAIN ib}
  \cup {<< k, "missing_in_rust" >> : k \in DOMAIN ib \ DOMAIN ia}
  \cup {<< k, "label" >> : k \in Changed(ia, ib)}
  \cup UNION {{<< k, mk, PyGet(ia[k], mk), PyGet(ib[k], mk) >> :
                  mk \in ChangedMetas(ia, ib, k)} : k \in Changed(ia, ib)}

Init ==
  /\ hdr \in [Sides -> Headers]
  /\ done = FALSE
  /\ lines = {}
  /\ status = "none"

(* compare_header on the two headers, in one step.                         *)
Compare ==
  /\ ~done
  /\ lines' = HeaderLines(Index(CustomData(hdr["rust"])), Index(CustomData(hdr["dotnet"])))
  /\ status' = IF lines' = {} THEN "ok" ELSE "different"
  /\ done' = TRUE
  /\ UNCHANGED hdr

SafetySpec == Init /\ [][Compare]_avars

Spec == SafetySpec /\ WF_avars(Compare)
=============================================================================
