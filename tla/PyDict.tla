-------------------------------- MODULE PyDict --------------------------------
(***************************************************************************)
(* The Python dict operations tools/compare_dacpacs.py builds its indexes *)
(* with: d.get(k), d[k] = v, and the dict a loop over XML children builds  *)
(* when it assigns one entry per child, keyed by the child's name.         *)
(***************************************************************************)
EXTENDS Integers, Sequences

CONSTANT None    \* Python's None: an attribute, child or key that is absent

(* d.get(k): the value, or None when k is not a key.                       *)
PyGet(d, k) == IF k \in DOMAIN d THEN d[k] ELSE None

(* Mutant: index.setdefault(k, v), the first value of a key kept.        *)
PutFirstWins(d, k, v) == IF k \in DOMAIN d THEN d ELSE [x \in DOMAIN d \cup {k} |-> IF x = k THEN v ELSE d[x]]

(* d[k] = v on a dict d, as a function with a growing domain.              *)
Put(d, k, v) == [x \in DOMAIN d \cup {k} |-> IF x = k THEN v ELSE d[x]]

(* The dict a loop "d[c.name] = f(c)" over the children cs builds: a name *)
(* seen twice keeps the value of its last occurrence.                      *)
LastNamed(cs, n) ==
  CHOOSE i \in DOMAIN cs : cs[i].name = n
                           /\ \A j \in DOMAIN cs : j > i => cs[j].name # n
NamesOf(cs) == {cs[i].name : i \in DOMAIN cs}
=============================================================================
