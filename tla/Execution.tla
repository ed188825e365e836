------------------------------ MODULE Execution ------------------------------
(***************************************************************************)
(* jobs.py: execute_pipeline, which JobWorkers and LegacyRuntime run one   *)
(* at a time.  The subprocess has the papers analysed and saves the two    *)
(* files; only when it ended well within its time are they published.      *)
(***************************************************************************)
EXTENDS AnalysisLoop, Publication

VARIABLE saved      \* the run has come to save_results

executionVars == <<vars, publishVars, saved>>

ExecutionInit == Init /\ PublishInit /\ saved = FALSE

\* The subprocess analyses, or is killed by its timeout.
Analyse ==
    /\ ~saved /\ (Go \/ Killed)
    /\ UNCHANGED <<publishVars, saved>>

\* It saves, all or, if it is stopped in between, only papers.json.
SaveResults ==
    /\ status = "done" /\ ~saved /\ saved' = TRUE
    /\ RunSaves \/ RunIsStopped
    /\ UNCHANGED vars

\* publish_outputs, in the process that waited for the subprocess.
Publish == PublishStep /\ UNCHANGED <<vars, saved>>

\* The next job, when this one is over.
NextRun ==
    /\ at = "idle"
    /\ status = "done" => saved
    /\ runs < MaxRuns /\ Begin /\ saved' = FALSE
    /\ UNCHANGED publishVars

Others == (LateArrives \/ ForeignCommit) /\ UNCHANGED <<vars, saved>>

ExecutionNext == Analyse \/ SaveResults \/ Publish \/ NextRun \/ Others

ExecutionSpec == ExecutionInit /\ [][ExecutionNext]_executionVars
=============================================================================
