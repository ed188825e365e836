----------------------------- MODULE Publication -----------------------------
(***************************************************************************)
(* publishing.py: after a run of the pipeline, execute_pipeline sends      *)
(* papers.json and then papers_archive.json to a GitHub repository, each   *)
(* with the sha that the repository had for it just before.  There is one  *)
(* run at a time, with its publication (JobRequirements, LegacyRuntime).   *)
(*                                                                         *)
(* The content of a file is the number of the run that wrote it, or minus  *)
(* the number of the commit of somebody else that did; its sha says the    *)
(* same, whoever commits it.                                               *)
(***************************************************************************)
EXTENDS Integers

CONSTANTS
    Files,          \* OUTPUT_NAMES
    First,          \* the one of them that is sent first
    MaxRuns,        \* bound: runs of the pipeline
    MaxLost,        \* bound: requests without an answer
    MaxForeign      \* bound: commits of others

Second == CHOOSE f \in Files : f # First

ASSUME PublicationAssumption ==
    /\ First \in Files /\ Second \in Files /\ Files = {First, Second} /\ First # Second
    /\ MaxRuns \in Nat /\ MaxLost \in Nat /\ MaxForeign \in Nat

Missing == 0

VARIABLES
    runs,       \* runs that saved something
    disk,       \* disk[f]: the content of f in DATA_DIR
    repo,       \* repo[f]: its content in the repository
    committed,  \* history: committed[f]: the contents it has had there
    touched,    \* history: the files others have committed since our own PUT
    at,         \* what _publish_one does next
    file,       \* the file it is called for
    raw,        \* what it read from DATA_DIR
    sha,        \* what the repository answered, Missing for 404
    result,     \* what publish_outputs returned for the last run
    late,       \* requests whose answer nobody waits for any more
    lost, foreigns

callVars == <<at, file, raw, sha, result>>
publishVars == <<runs, disk, repo, committed, touched, callVars, late, lost, foreigns>>

PublishInit ==
    /\ runs = 0 /\ disk = [f \in Files |-> Missing]
    /\ repo = [f \in Files |-> Missing] /\ committed = [f \in Files |-> {}] /\ touched = {}
    /\ at = "idle" /\ file = First /\ raw = Missing /\ sha = Missing /\ result = "none"
    /\ late = {} /\ lost = 0 /\ foreigns = 0

\* The contents API replaces a file whose sha is the one in the request.
Commit(f, content) ==
    /\ repo' = [repo EXCEPT ![f] = content]
    /\ committed' = [committed EXCEPT ![f] = @ \cup {content}]

-----------------------------------------------------------------------------
(* execute_pipeline.                                                       *)

\* A run that saved both files and ended well is published; one that the
\* safety guard stopped changes nothing here.
RunSaves ==
    /\ at = "idle" /\ runs < MaxRuns /\ runs' = runs + 1
    /\ disk' = [f \in Files |-> runs']
    /\ at' = "read" /\ file' = First /\ result' = "none"
    /\ UNCHANGED <<repo, committed, touched, raw, sha, late, lost, foreigns>>

\* One that was stopped between the two files is not.
RunIsStopped ==
    /\ at = "idle" /\ runs < MaxRuns /\ runs' = runs + 1
    /\ disk' = [disk EXCEPT ![First] = runs'] /\ result' = "none"
    /\ UNCHANGED <<repo, committed, touched, at, file, raw, sha, late, lost, foreigns>>

-----------------------------------------------------------------------------
(* _publish_one, for one file after the other.                             *)

Read ==
    /\ at = "read" /\ at' = "get" /\ raw' = disk[file]
    /\ UNCHANGED <<runs, disk, repo, committed, touched, file, sha, result, late, lost, foreigns>>

Get ==
    /\ at = "get" /\ at' = "put" /\ sha' = repo[file]
    /\ UNCHANGED <<runs, disk, repo, committed, touched, file, raw, result, late, lost, foreigns>>

Fail == at' = "idle" /\ result' = "failed"

\* Any exception but a 404 ends publish_outputs, and nothing is tried again.
GetFails ==
    /\ at = "get" /\ lost < MaxLost /\ lost' = lost + 1 /\ Fail
    /\ UNCHANGED <<runs, disk, repo, committed, touched, file, raw, sha, late, foreigns>>

Sent ==
    IF file = First THEN at' = "read" /\ file' = Second /\ UNCHANGED result
                    ELSE at' = "idle" /\ result' = "published" /\ UNCHANGED file

\* Mutation: a refused request counts as one whose content is there already.
ConflictIgnored ==
    /\ at = "put" /\ repo[file] # sha /\ Sent
    /\ UNCHANGED <<runs, disk, repo, committed, touched, raw, sha, late, lost, foreigns>>

\* The repository refuses a sha that is not the file's any more.
Conflict ==
    /\ at = "put" /\ repo[file] # sha /\ Fail
    /\ UNCHANGED <<runs, disk, repo, committed, touched, file, raw, sha, late, lost, foreigns>>

\* Mutation: a lost request is given up for its file and the loop goes on.
PutIsIgnored ==
    /\ at = "put" /\ lost < MaxLost /\ lost' = lost + 1 /\ Sent
    /\ late' = late \cup {[file |-> file, content |-> raw, sha |-> sha]}
    /\ UNCHANGED <<runs, disk, repo, committed, touched, raw, sha, foreigns>>

\* No answer in time, or the process ends: the request may still arrive.
PutIsLost ==
    /\ at = "put" /\ lost < MaxLost /\ lost' = lost + 1 /\ Fail
    /\ late' = late \cup {[file |-> file, content |-> raw, sha |-> sha]}
    /\ UNCHANGED <<runs, disk, repo, committed, touched, file, raw, sha, foreigns>>

Put ==
    /\ at = "put" /\ repo[file] = sha /\ Commit(file, raw) /\ Sent
    /\ touched' = touched \ {file}
    /\ UNCHANGED <<runs, disk, raw, sha, late, lost, foreigns>>

-----------------------------------------------------------------------------
(* The repository.                                                         *)

LateArrives ==
    \E r \in late :
        /\ late' = late \ {r}
        /\ IF repo[r.file] = r.sha THEN Commit(r.file, r.content)
                                   ELSE UNCHANGED <<repo, committed>>
        /\ UNCHANGED <<runs, disk, touched, callVars, lost, foreigns>>

\* Somebody else changes a file, or puts back what it was once.
ForeignCommit ==
    /\ foreigns < MaxForeign /\ foreigns' = foreigns + 1
    /\ \E f \in Files :
        /\ \E content \in committed[f] \cup {-foreigns'} : Commit(f, content)
        /\ touched' = touched \cup {f}
    /\ UNCHANGED <<runs, disk, callVars, late, lost>>

PublishStep == Read \/ Get \/ GetFails \/ Conflict \/ PutIsLost \/ Put

-----------------------------------------------------------------------------
\* What publish_outputs calls published stays so: until the next run the
\* repository has both files as this run saved them, but for those that others
\* have committed after our PUT.  A request of an earlier publication that comes
\* late changes nothing, and a refused or lost request is never called done
\* (publish_outputs, _publish_one).
PublishedStays ==
    result = "published" => \A f \in Files : repo[f] = disk[f] \/ f \in touched

\* Without commits of others the archive of the repository is never ahead of
\* its papers.json, whichever requests are lost or late and whichever runs are
\* stopped: they are sent in this order and a failure ends the publication.
PublishedInOrder == foreigns = 0 => repo[Second] <= repo[First]
=============================================================================
