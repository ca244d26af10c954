------------------------------ MODULE CompareRun ------------------------------
(***************************************************************************)
(* The Report Aggregator and run driver: main and compare_text_files in    *)
(* tools/compare_dacpacs.py.  The two unpacked directories are functions   *)
(* from file names to contents (Absent when the file does not exist).      *)
(* main records a status per tracked file in file_results, in the order of *)
(* the code: Origin.xml (skipped), the two simple XML files, the two text  *)
(* files, the unexpected files, model.xml; then it folds the statuses and  *)
(* the model.xml results into the exit code.                               *)
(*                                                                         *)
(* The comparators are composed by what they were shown to compute: the   *)
(* simple XML files by compare_simple_xml of the Canonicalizer, the header *)
(* by the last-write indexes HeaderDiff's HeaderReportExact relates to its *)
(* status, the elements by ModelDiffAbstract, which ModelDiff refines.     *)
(* A text file is a sequence of lines, each a word with or without         *)
(* trailing whitespace; a Binary file cannot be decoded, and reading it    *)
(* raises UnicodeDecodeError, which nothing in main catches.               *)
(*                                                                         *)
(* The report lines, print_report and the diff texts are formatting and    *)
(* are left out.  This module reaches RECURSIVE operators; TLC only.       *)
(***************************************************************************)
EXTENDS Integers, Sequences, FiniteSets, Functions, PyDict, TLC

CONSTANTS
  \* the constants of the composed comparators
  MsNs, Nodes, Absent,
  Blocks, NoHeader, MaxBlocks,
  Types, Names, PropNames, Values, RelNames, Targets, Exts, Fingerprints,
  AnnTypes, Elements, MaxLen,
  \* the driver's own
  Unknown,    \* names of files outside known_files that a directory may hold
  Binary,     \* the content of a file that is not valid text
  Contents    \* Contents[s][f]: the contents file f may have on side s

C  == INSTANCE Canonicalizer
DE == INSTANCE DacElements

(* Only the constant operators of the two model.xml comparators are used;  *)
(* their variables are bound to their initial values.                      *)
HD == INSTANCE HeaderDiff WITH
        hdr <- [s \in {"rust", "dotnet"} |-> NoHeader], pc <- "index",
        side <- "rust", i <- 1, cd <- [s \in {"rust", "dotnet"} |-> << >>],
        pending <- {}, diffs <- {}, status <- "none"
MD == INSTANCE ModelDiffAbstract WITH
        ElementKey <- DE!ElementKey, DiffElement <- DE!DiffElement,
        doc <- [s \in {"rust", "dotnet"} |-> << >>], done <- FALSE,
        missing <- {}, extra <- {}, differences <- << >>

Sides == {"rust", "dotnet"}

Origin      == "Origin.xml"
SimpleXml   == << "DacMetadata.xml", "[Content_Types].xml" >>
TextFiles   == << "predeploy.sql", "postdeploy.sql" >>
ModelXml    == "model.xml"
KnownFiles  == {Origin, ModelXml} \cup Range(SimpleXml) \cup Range(TextFiles)
FileNames   == KnownFiles \cup Unknown

UnexpectedLabel       == "(unexpected files)"
UnexpectedDotnetLabel == "(unexpected files in dotnet)"

(* The directories side s may be: one content of Contents[s][f] per file.  *)
RECURSIVE Choices(_, _)
Choices(s, fs) ==
  IF fs = {} THEN {<< >>}
  ELSE LET f == CHOOSE f \in fs : TRUE
       IN  {(f :> c) @@ d : c \in Contents[s][f], d \in Choices(s, fs \ {f})}
Dirs(s) == Choices(s, FileNames)

-----------------------------------------------------------------------------
(* compare_text_files(path_a, path_b): the existence checks, then the two  *)
(* reads, then the comparison of the rstripped lines.  "raise" stands for  *)
(* the UnicodeDecodeError that reading a Binary file raises.               *)
Rstrip(t) == [j \in DOMAIN t |-> t[j].word]

CompareTextFiles(a, b) ==
  IF a = Absent /\ b = Absent THEN None
  ELSE IF a = Absent THEN "missing_in_rust"
  ELSE IF b = Absent THEN "missing_in_dotnet"
  ELSE IF a = Binary \/ b = Binary THEN "raise"
  ELSE IF Rstrip(a) = Rstrip(b) THEN "ok"
  ELSE "different"

(* compare_model_xml(model_a, model_b) on two parsed model.xml files: the *)
(* header status and results["elements"].                                  *)
CompareModelXml(ma, mb) ==
  [header |-> IF HD!HIndex(ma.header) = HD!HIndex(mb.header) THEN "ok" ELSE "different"]
  @@ MD!CompareResult(ma.model, mb.model)

-----------------------------------------------------------------------------
VARIABLES
  dir,        \* dir[s][f]: the content of file f in side s's directory
  pc,         \* the part of main that runs next
  j,          \* position in the current list of file names
  results,    \* file_results: label -> status
  unknown,    \* the names of unknown_both not yet compared
  model,      \* model_results: None, or the result of compare_model_xml
  exit        \* the exit status: None before sys.exit or an uncaught raise

vars == << dir, pc, j, results, unknown, model, exit >>

Init ==
  /\ \E da \in Dirs("rust"), db \in Dirs("dotnet") :
       dir = [s \in Sides |-> IF s = "rust" THEN da ELSE db]
  /\ pc = "origin"
  /\ j = 1
  /\ results = << >>
  /\ unknown = {}
  /\ model = None
  /\ exit = None

(* file_results["Origin.xml"] = ("ok", ...): Origin.xml is never read.     *)
SkipOrigin ==
  /\ pc = "origin"
  /\ results' = Put(results, Origin, "ok")
  /\ pc' = "simple"
  /\ UNCHANGED << dir, j, unknown, model, exit >>

(* Mutant: the "if status is not None" guard dropped.                    *)
CompareSimpleAll ==
  /\ pc = "simple"
  /\ j <= Len(SimpleXml)
  /\ LET f == SimpleXml[j]
     IN  results' = Put(results, f, C!CompareSimpleXml(dir["rust"][f], dir["dotnet"][f]))
  /\ j' = j + 1
  /\ UNCHANGED << dir, pc, unknown, model, exit >>

(* One iteration of the simple XML loop.                                   *)
CompareSimple ==
  /\ pc = "simple"
  /\ j <= Len(SimpleXml)
  /\ LET f  == SimpleXml[j]
         st == C!CompareSimpleXml(dir["rust"][f], dir["dotnet"][f])
     IN  results' = IF st = None THEN results ELSE Put(results, f, st)
  /\ j' = j + 1
  /\ UNCHANGED << dir, pc, unknown, model, exit >>

SimpleDone ==
  /\ pc = "simple"
  /\ j > Len(SimpleXml)
  /\ pc' = "text"
  /\ j' = 1
  /\ UNCHANGED << dir, results, unknown, model, exit >>

(* The uncaught UnicodeDecodeError: the run ends with status 1 and prints  *)
(* no report.                                                              *)
Raise ==
  /\ pc' = "raised"
  /\ exit' = 1
  /\ UNCHANGED << dir, j, results, unknown, model >>

(* One iteration of the text file loop.                                    *)
CompareText ==
  /\ pc = "text"
  /\ j <= Len(TextFiles)
  /\ LET f  == TextFiles[j]
         st == CompareTextFiles(dir["rust"][f], dir["dotnet"][f])
     IN  IF st = "raise" THEN Raise
         ELSE /\ results' = IF st = None THEN results ELSE Put(results, f, st)
              /\ j' = j + 1
              /\ UNCHANGED << dir, pc, unknown, model, exit >>

(* Mutant: the dotnet-only files always written under the first label.   *)
UnexpectedOneLabel ==
  /\ pc = "text"
  /\ j > Len(TextFiles)
  /\ LET Present(s) == {f \in FileNames : dir[s][f] # Absent}
         onlyRust   == (Present("rust") \ Present("dotnet")) \ KnownFiles
         onlyDotnet == (Present("dotnet") \ Present("rust")) \ KnownFiles
         r1 == IF onlyRust # {} THEN Put(results, UnexpectedLabel, "different")
               ELSE results
     IN  /\ results' = IF onlyDotnet # {} THEN Put(r1, UnexpectedLabel, "different") ELSE r1
         /\ unknown' = (Present("rust") \cap Present("dotnet")) \ KnownFiles
  /\ pc' = "unknown"
  /\ UNCHANGED << dir, j, model, exit >>

(* The text loop ends; the unexpected files are listed: the names outside  *)
(* known_files present on one side only get one "different" entry per     *)
(* side, the second under another label when the first is taken.          *)
Unexpected ==
  /\ pc = "text"
  /\ j > Len(TextFiles)
  /\ LET Present(s) == {f \in FileNames : dir[s][f] # Absent}
         onlyRust   == (Present("rust") \ Present("dotnet")) \ KnownFiles
         onlyDotnet == (Present("dotnet") \ Present("rust")) \ KnownFiles
         r1 == IF onlyRust # {} THEN Put(results, UnexpectedLabel, "different")
               ELSE results
         label == IF UnexpectedLabel \notin DOMAIN r1 THEN UnexpectedLabel
                  ELSE UnexpectedDotnetLabel
     IN  /\ results' = IF onlyDotnet # {} THEN Put(r1, label, "different") ELSE r1
         /\ unknown' = (Present("rust") \cap Present("dotnet")) \ KnownFiles
  /\ pc' = "unknown"
  /\ UNCHANGED << dir, j, model, exit >>

(* One iteration of the loop over unknown_both (in sorted order; the       *)
(* entries are keyed by name, so any order gives the same file_results).   *)
CompareUnknown ==
  /\ pc = "unknown"
  /\ \E f \in unknown :
       LET st == CompareTextFiles(dir["rust"][f], dir["dotnet"][f])
       IN  IF st = "raise" THEN Raise
           ELSE /\ results' = IF st \notin {None, "ok"} THEN Put(results, f, st)
                              ELSE results
                /\ unknown' = unknown \ {f}
                /\ UNCHANGED << dir, pc, j, model, exit >>

(* The model.xml branch: compare_model_xml when both exist, else the elif  *)
(* chain, which tests model_a first.                                       *)
CompareModel ==
  /\ pc = "unknown"
  /\ unknown = {}
  /\ LET ma == dir["rust"][ModelXml]
         mb == dir["dotnet"][ModelXml]
     IN  IF ma # Absent /\ mb # Absent
           THEN /\ model' = CompareModelXml(ma, mb)
                /\ UNCHANGED results
         ELSE IF ma = Absent
           THEN /\ results' = Put(results, ModelXml, "missing_in_rust")
                /\ UNCHANGED model
         ELSE /\ results' = Put(results, ModelXml, "missing_in_dotnet")
              /\ UNCHANGED model
  /\ pc' = "exit"
  /\ UNCHANGED << dir, j, unknown, exit >>

(* Mutant: the list of changed elements not looked at.                   *)
HasDiffsNoElementDiffs(r, m) ==
  \/ \E l \in DOMAIN r \ {Origin} : r[l] \notin {"ok", None}
  \/ /\ m # None
     /\ \/ m.header # "ok"
        \/ m.missing # {} \/ m.extra # {}

(* has_diffs: a status other than ok or None under a label other than      *)
(* Origin.xml, a header status other than ok, or any missing, extra or     *)
(* changed element; then sys.exit(1 if has_diffs else 0).                  *)
HasDiffs(r, m) ==
  \/ \E l \in DOMAIN r \ {Origin} : r[l] \notin {"ok", None}
  \/ /\ m # None
     /\ \/ m.header # "ok"
        \/ m.missing # {} \/ m.extra # {} \/ m.differences # << >>

Exit ==
  /\ pc = "exit"
  /\ exit' = IF HasDiffs(results, model) THEN 1 ELSE 0
  /\ pc' = "exited"
  /\ UNCHANGED << dir, j, results, unknown, model >>

(* The process has ended.                                                  *)
Ended ==
  /\ pc \in {"exited", "raised"}
  /\ UNCHANGED vars

Next ==
  \/ SkipOrigin \/ CompareSimple \/ SimpleDone \/ CompareText \/ Unexpected
  \/ CompareUnknown \/ CompareModel \/ Exit \/ Ended

Spec == Init /\ [][Next]_vars /\ WF_vars(Next)

-----------------------------------------------------------------------------
(* What each tracked artifact should count as: a simple XML file the same  *)
(* document up to sibling order, a text file the same lines up to trailing *)
(* whitespace, model.xml the same last-write header index and no missing,  *)
(* extra or changed element; a file on one side only always differs.       *)
SameText(a, b) ==
  \/ a = Absent /\ b = Absent
  \/ /\ a \notin {Absent, Binary} /\ b \notin {Absent, Binary}
     /\ Rstrip(a) = Rstrip(b)

SameModelXml(a, b) ==
  \/ a = Absent /\ b = Absent
  \/ /\ a # Absent /\ b # Absent
     /\ HD!HIndex(a.header) = HD!HIndex(b.header)
     /\ MD!CompareResult(a.model, b.model)
          = [missing |-> {}, extra |-> {}, differences |-> << >>]

ArtifactDiffers ==
  \/ \E f \in Range(SimpleXml) : ~C!SameDocument(dir["rust"][f], dir["dotnet"][f])
  \/ \E f \in Range(TextFiles) \cup Unknown : ~SameText(dir["rust"][f], dir["dotnet"][f])
  \/ ~SameModelXml(dir["rust"][ModelXml], dir["dotnet"][ModelXml])

(* A simple XML document the Canonicalizer compares exactly.               *)
Canonical(n) == n = Absent \/ C!DistinctSiblings(n)

OnlyIn(f, s) == dir[s][f] # Absent /\ \A o \in Sides \ {s} : dir[o][f] = Absent

Other(s) == IF s = "rust" THEN "dotnet" ELSE "rust"

(* Type correctness of the driver state.                                   *)
TypeOK ==
  /\ \A s \in Sides : \A f \in FileNames : dir[s][f] \in Contents[s][f]
  /\ pc \in {"origin", "simple", "text", "unknown", "exit", "exited", "raised"}
  /\ j \in 1..(Len(SimpleXml) + 1)
  /\ unknown \subseteq Unknown
  /\ \A l \in DOMAIN results :
       results[l] \in {"ok", "different", "missing_in_rust", "missing_in_dotnet"}
  /\ exit \in {None, 0, 1}

(* Spec section 6: the run exits 1 exactly when some tracked artifact      *)
(* differs, is missing on one side, or model.xml has a header difference   *)
(* or missing, extra or changed elements; Origin.xml never counts.  Checked *)
(* over the three loops, the unexpected-file lists, the model.xml branch   *)
(* and has_diffs together, when model.xml exists on some side and the      *)
(* simple XML documents have no two siblings with one signature.           *)
ExitCodeCorrect ==
  (/\ pc = "exited"
   /\ \E s \in Sides : dir[s][ModelXml] # Absent
   /\ \A s \in Sides : \A f \in Range(SimpleXml) : Canonical(dir[s][f]))
    => ((exit = 1) <=> ArtifactDiffers)

(* Spec section 8, missing-file detection: a tracked file present on one   *)
(* side only gets the status naming the side it is missing from, and the   *)
(* unexpected files of each side get an entry of their own, so that those  *)
(* of one side never overwrite those of the other.                         *)
MissingFileDetected ==
  pc = "exited" =>
    /\ \A f \in Range(SimpleXml) \cup Range(TextFiles) \cup {ModelXml} :
         \A s \in Sides :
           OnlyIn(f, s) => PyGet(results, f) = "missing_in_" \o Other(s)
    /\ Cardinality(DOMAIN results \cap {UnexpectedLabel, UnexpectedDotnetLabel})
         = Cardinality({s \in Sides : \E f \in Unknown : OnlyIn(f, s)})

(* Spec section 8, reflexivity: comparing a pair of identical directories  *)
(* ends with exit status 0.                                                *)
Reflexivity ==
  (dir["rust"] = dir["dotnet"] /\ pc \in {"exited", "raised"}) => exit = 0
=============================================================================
