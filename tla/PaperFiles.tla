----------------------------- MODULE PaperFiles -----------------------------
(***************************************************************************)
(* The two data files as the pipeline replaces them, each as a whole: the  *)
(* readers are built on this, and Pipeline is shown to keep to it.         *)
(*                                                                         *)
(* The content of a file is the number of its version, 0 while the file is *)
(* missing.                                                                *)
(***************************************************************************)
EXTENDS Integers

CONSTANTS
    Files,          \* papers.json and papers_archive.json
    Current,        \* papers.json
    MaxVersion      \* bound: how often a file is replaced

ASSUME FileAssumption == Current \in Files /\ MaxVersion \in Nat \ {0}

Versions == 0..MaxVersion

VARIABLES
    disk,       \* disk[f]: the version of file f
    saving      \* save_results has replaced papers.json only

fileVars == <<disk, saving>>

FilesInit == disk \in [Files -> {0, 1}] /\ saving = FALSE

-----------------------------------------------------------------------------
(* save_results: an atomic rename of papers.json, then of the archive.     *)

Replace(f) ==
    /\ disk[f] < MaxVersion
    /\ disk' = [disk EXCEPT ![f] = @ + 1]

SaveCurrent == ~saving /\ Replace(Current) /\ saving' = TRUE
SaveArchive == saving /\ saving' = FALSE /\ \E f \in Files \ {Current} : Replace(f)

\* The pipeline dies between the two: the next run starts over.
SaveInterrupted == saving /\ saving' = FALSE /\ UNCHANGED disk

Save == SaveCurrent \/ SaveArchive \/ SaveInterrupted

FilesSpec == FilesInit /\ [][Save]_fileVars
=============================================================================
