---------------------------- MODULE Canonicalizer ----------------------------
(***************************************************************************)
(* The Canonicalizer: strip_ns, xml_to_canonical and compare_simple_xml in *)
(* tools/compare_dacpacs.py, which compare DacMetadata.xml and             *)
(* [Content_Types].xml.  A document is flattened into a list of (path,     *)
(* signature) pairs, visiting the children of every node sorted by their   *)
(* own signature, and two documents are equal iff their lists are.         *)
(*                                                                         *)
(* A Node is what ElementTree gives: a tag in a namespace (or in none), an *)
(* attribute dict, a text (None, or a word with or without surrounding     *)
(* whitespace) and the child nodes in document order.  The joined strings  *)
(* of the code are tuples: the path is the sequence of stripped tags and a *)
(* signature the tuple of its parts.  Python sorts signatures as strings;  *)
(* the model sorts them by a fixed total order on the signatures of Nodes. *)
(* Whether the two flattened lists are equal does not depend on which     *)
(* total order is used, because both sides are sorted by the same one and *)
(* the path of a child's own pair marks where its block starts.            *)
(*                                                                         *)
(* SimpleXmlCompare is the call of compare_simple_xml as a state machine. *)
(* This module declares RECURSIVE operators and is used by TLC only.       *)
(***************************************************************************)
EXTENDS Integers, Sequences, FiniteSets, Functions, PyDict

CONSTANTS
  MsNs,     \* the namespace NS that strip_ns removes
  Nodes,    \* every node that may occur in a document, at any depth
  Absent    \* os.path.exists(path) is false

(* strip_ns(elem.tag): "{NS}tag" becomes "tag"; a tag in no namespace is   *)
(* "tag" already; a tag in another namespace keeps it.                     *)
StripNs(n) == IF n.ns \in {MsNs, None} THEN n.tag ELSE << n.ns, n.tag >>

(* (elem.text or "").strip()                                               *)
Text(n) == IF n.text = None THEN "" ELSE n.text.word

(* xml_to_canonical(elem): the stripped tag, "k=v" for the attributes in   *)
(* key order (the dict itself), and "text=..." when the text is not empty. *)
XmlToCanonical(n) ==
  << StripNs(n), n.attrs >> \o (IF Text(n) = "" THEN << >> ELSE << Text(n) >>)

-----------------------------------------------------------------------------
(* A fixed total order on the signatures: their position in a sequence     *)
(* that lists each of them once.                                           *)
RECURSIVE Listing(_)
Listing(S) ==
  IF S = {} THEN << >>
  ELSE LET x == CHOOSE x \in S : TRUE IN << x >> \o Listing(S \ {x})

SigList == Listing({XmlToCanonical(n) : n \in Nodes})

Rank(sig) == CHOOSE j \in DOMAIN SigList : SigList[j] = sig

(* Insert c after every node of the sorted list cs whose key is not        *)
(* greater, so that nodes with equal keys keep their order.                *)
RECURSIVE InsertBySig(_, _)
InsertBySig(c, cs) ==
  IF cs = << >> \/ Rank(XmlToCanonical(c)) < Rank(XmlToCanonical(Head(cs)))
    THEN << c >> \o cs
    ELSE << Head(cs) >> \o InsertBySig(c, Tail(cs))

(* sorted(elem, key=lambda c: xml_to_canonical(c)): Python's sort is       *)
(* stable, so children with equal signatures stay in document order.       *)
RECURSIVE SortBySig(_)
SortBySig(cs) ==
  IF cs = << >> THEN << >>
  ELSE InsertBySig(cs[Len(cs)], SortBySig(SubSeq(cs, 1, Len(cs) - 1)))

RECURSIVE Flatten(_, _), FlattenAll(_, _)

(* Mutant: the children visited in document order.                       *)
FlattenUnsorted(n, path) ==
  LET cur == Append(path, StripNs(n))
  IN  << << cur, XmlToCanonical(n) >> >> \o FlattenAll(n.children, cur)

(* flatten(elem, path): the node's own (path, signature) pair, then the    *)
(* lists of its children in signature order.                               *)
Flatten(n, path) ==
  LET cur == Append(path, StripNs(n))
  IN  << << cur, XmlToCanonical(n) >> >> \o FlattenAll(SortBySig(n.children), cur)

(* result.extend(flatten(child, current)) for each child in turn.         *)
FlattenAll(cs, path) ==
  IF cs = << >> THEN << >> ELSE Flatten(Head(cs), path) \o FlattenAll(Tail(cs), path)

(* compare_simple_xml(path_a, path_b): the status it returns (None when    *)
(* neither file exists).                                                   *)
CompareSimpleXml(a, b) ==
  IF a = Absent /\ b = Absent THEN None
  ELSE IF a = Absent THEN "missing_in_rust"
  ELSE IF b = Absent THEN "missing_in_dotnet"
  ELSE IF Flatten(a, << >>) = Flatten(b, << >>) THEN "ok"
  ELSE "different"

-----------------------------------------------------------------------------
(* A document up to the order of siblings: its signature with the bag of   *)
(* its children's, recursively.  Two documents are reorderings of one     *)
(* another iff these are equal.                                            *)
RECURSIVE Unordered(_)
Unordered(n) ==
  LET ch == n.children
  IN  << XmlToCanonical(n),
         [u \in {Unordered(ch[j]) : j \in DOMAIN ch} |->
            Cardinality({j \in DOMAIN ch : Unordered(ch[j]) = u})] >>

SameDocument(a, b) ==
  \/ a = Absent /\ b = Absent
  \/ a # Absent /\ b # Absent /\ Unordered(a) = Unordered(b)

(* No node of the document has two children with one signature.           *)
RECURSIVE DistinctSiblings(_)
DistinctSiblings(n) ==
  /\ \A j, l \in DOMAIN n.children :
       j # l => XmlToCanonical(n.children[j]) # XmlToCanonical(n.children[l])
  /\ \A j \in DOMAIN n.children : DistinctSiblings(n.children[j])

=============================================================================
