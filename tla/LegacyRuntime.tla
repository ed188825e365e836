---------------------------- MODULE LegacyRuntime ----------------------------
(***************************************************************************)
(* legacy.py: the web processes of one host without Redis.  One of them    *)
(* owns the daily scheduler, by an flock on .legacy-scheduler.lock, and    *)
(* one analysis runs at a time, by a flag in each process and an flock on  *)
(* .legacy-analysis.lock.  The lifespan of main.py calls start and stop;   *)
(* processes come and go as uvicorn's workers and rolling deploys do.      *)
(*                                                                         *)
(* A process is in one attempt to be elected at most: start makes one, the *)
(* election thread exists only after it, and _state_lock is free for both. *)
(* An attempt sets self._election_file with the lock and self.scheduler    *)
(* with the scheduler, so that neither needs a variable.                   *)
(***************************************************************************)
EXTENDS Integers, FiniteSets

CONSTANTS
    Procs,          \* the web processes of the host
    NoProc,         \* a lock nobody holds
    Faults,         \* bound: the kinds of failure that happen
    MaxFaults,      \* bound: how many of these kinds in one behaviour
    MaxStarts       \* bound: how often processes are started

FaultKinds == {"try", "schedule", "join", "open", "thread", "unlock", "death"}

ASSUME LegacyAssumption ==
    /\ NoProc \notin Procs /\ Faults \subseteq FaultKinds
    /\ MaxFaults \in Nat /\ MaxStarts \in Nat

VARIABLES
    life,       \* life[p]: where the lifespan of process p is
    election,   \* election[p]: where its attempt to be elected is
    scheduler,  \* the processes in which a scheduler runs
    office,     \* who holds the flock on .legacy-scheduler.lock
    flag,       \* the processes whose self._thread_lock is taken
    run,        \* run[p]: where the legacy-analysis thread of p is
    analysis,   \* who holds the flock on .legacy-analysis.lock
    faults,     \* the kinds of failure that have happened
    starts      \* processes started so far

electionVars == <<life, election, scheduler, office, starts>>
runVars == <<flag, run, analysis>>
vars == <<electionVars, runVars, faults>>

Init ==
    /\ life = [p \in Procs |-> "down"] /\ election = [p \in Procs |-> "none"]
    /\ scheduler = {} /\ office = NoProc
    /\ flag = {} /\ run = [p \in Procs |-> "none"] /\ analysis = NoProc
    /\ faults = {} /\ starts = 0

NoFault == UNCHANGED faults
Fault(kind) ==
    /\ kind \in Faults /\ Cardinality(faults \cup {kind}) <= MaxFaults
    /\ faults' = faults \cup {kind}

Live(p, from, to) == life[p] = from /\ life' = [life EXCEPT ![p] = to]
Elect(p, from, to) == election[p] = from /\ election' = [election EXCEPT ![p] = to]
Run(p, from, to) == run[p] = from /\ run' = [run EXCEPT ![p] = to]

-----------------------------------------------------------------------------
(* start, _election_loop and _try_elect.                                   *)

Start(p) ==
    /\ starts < MaxStarts /\ starts' = starts + 1
    /\ Live(p, "down", "starting") /\ Elect(p, "none", "trying")
    /\ UNCHANGED <<scheduler, office, runVars>> /\ NoFault

\* _stop_election.wait times out, or the event of stop ends the thread.
Wake(p) ==
    /\ Elect(p, "waiting", IF life[p] = "serving" THEN "trying" ELSE "none")
    /\ UNCHANGED <<life, scheduler, office, starts, runVars>> /\ NoFault

\* The attempt of start ends: the process serves, elected or not.
Attempted(p, from, to) ==
    /\ Elect(p, from, to)
    /\ life' = IF life[p] = "starting" THEN [life EXCEPT ![p] = "serving"] ELSE life
    /\ UNCHANGED <<starts, runVars>>

\* Mutation: the lock is taken without looking who has it.
TakeOfficeBlindly(p) ==
    /\ Elect(p, "trying", "locked") /\ office' = p
    /\ UNCHANGED <<life, scheduler, starts, runVars>> /\ NoFault

TakeOffice(p) ==
    /\ Elect(p, "trying", "locked") /\ office = NoProc /\ office' = p
    /\ UNCHANGED <<life, scheduler, starts, runVars>> /\ NoFault

\* Mutation: start begins no election thread when it has lost.
LoseForGood(p) ==
    /\ office # NoProc /\ Attempted(p, "trying", "none")
    /\ UNCHANGED <<scheduler, office>> /\ NoFault

\* BlockingIOError: start begins the election thread, which waits again.
Lose(p) ==
    /\ office # NoProc /\ Attempted(p, "trying", "waiting")
    /\ UNCHANGED <<scheduler, office>> /\ NoFault

Schedule(p) ==
    /\ Attempted(p, "locked", "none") /\ scheduler' = scheduler \cup {p}
    /\ UNCHANGED office /\ NoFault

\* mkdir, open or flock raise, or the scheduler cannot be made or started,
\* with the lock taken: nobody in this process tries again, neither start,
\* which ends before its thread, nor the thread.
AttemptFails(p) ==
    /\ \/ Attempted(p, "trying", "none") /\ Fault("try")
       \/ Attempted(p, "locked", "none") /\ Fault("schedule")
    /\ UNCHANGED <<scheduler, office>>

-----------------------------------------------------------------------------
(* stop, and the end of a process.                                         *)

Stop(p) ==
    /\ Live(p, "serving", "joining")
    /\ UNCHANGED <<election, scheduler, office, starts, runVars>> /\ NoFault

\* join returns; by its timeout if an attempt takes more than 2 seconds.
Joined(p) ==
    /\ Live(p, "joining", "shutdown")
    /\ IF election[p] = "none" THEN NoFault ELSE Fault("join")
    /\ UNCHANGED <<election, scheduler, office, starts, runVars>>

Shutdown(p) ==
    /\ Live(p, "shutdown", "unlocking") /\ scheduler' = scheduler \ {p}
    /\ UNCHANGED <<election, office, starts, runVars>> /\ NoFault

\* Who holds a lock once p has unlocked or closed its file.
Without(p, holder) == IF holder = p THEN NoProc ELSE holder

Unlock(p) ==
    /\ Live(p, "unlocking", "leaving") /\ office' = Without(p, office)
    /\ UNCHANGED <<election, scheduler, starts, runVars>> /\ NoFault

\* The kernel closes the files of the process, which gives its locks up, and
\* its threads end.  The pipeline is a process of its own, which goes on without
\* the lock; nothing here sees it any more.
Gone(p) ==
    /\ life[p] # "down" /\ life' = [life EXCEPT ![p] = "down"]
    /\ election' = [election EXCEPT ![p] = "none"]
    /\ scheduler' = scheduler \ {p} /\ office' = Without(p, office)
    /\ flag' = flag \ {p} /\ run' = [run EXCEPT ![p] = "none"]
    /\ analysis' = Without(p, analysis)
    /\ UNCHANGED starts

Exit(p) == life[p] = "leaving" /\ Gone(p) /\ NoFault
Die(p) == Gone(p) /\ Fault("death")

-----------------------------------------------------------------------------
(* dispatch and its thread.                                                *)

\* Called by the trigger endpoint and by the scheduler; start of the thread
\* may raise, after the flag was taken.
Dispatch(p) ==
    /\ life[p] = "serving" \/ p \in scheduler
    /\ p \notin flag /\ flag' = flag \cup {p}
    /\ \/ Run(p, "none", "opening") /\ NoFault
       \/ UNCHANGED run /\ Fault("thread")
    /\ UNCHANGED <<electionVars, analysis>>

\* Another process holds the file, or it cannot be opened.
CannotRun == (analysis # NoProc /\ NoFault) \/ Fault("open")

\* Mutation: the thread returns before its finally.
RefusedSilently(p) ==
    /\ CannotRun /\ Run(p, "opening", "none")
    /\ UNCHANGED <<electionVars, flag, analysis>>

Refused(p) ==
    /\ CannotRun /\ Run(p, "opening", "releasing")
    /\ UNCHANGED <<electionVars, flag, analysis>>

\* Mutation: the pipeline runs without the file lock.
RunUnlocked(p) ==
    /\ Run(p, "opening", "running") /\ analysis = NoProc
    /\ UNCHANGED <<electionVars, flag, analysis>> /\ NoFault

RunPipeline(p) ==
    /\ Run(p, "opening", "running") /\ analysis = NoProc /\ analysis' = p
    /\ UNCHANGED <<electionVars, flag>> /\ NoFault

\* execute_pipeline returns or raises, after its timeout at the latest.
PipelineEnds(p) ==
    /\ Run(p, "running", "unlocking")
    /\ UNCHANGED <<electionVars, flag, analysis>> /\ NoFault

\* Mutation: the file is neither unlocked nor closed.
LeaveLocked(p) ==
    /\ Run(p, "unlocking", "releasing")
    /\ UNCHANGED <<electionVars, flag, analysis>> /\ NoFault

\* If LOCK_UN raises, close gives the lock up, and the flag is never reached.
UnlockFile(p) ==
    /\ \/ Run(p, "unlocking", "releasing") /\ NoFault
       \/ Run(p, "unlocking", "none") /\ Fault("unlock")
    /\ analysis' = NoProc
    /\ UNCHANGED <<electionVars, flag>>

ReleaseFlag(p) ==
    /\ Run(p, "releasing", "none") /\ flag' = flag \ {p}
    /\ UNCHANGED <<electionVars, analysis>> /\ NoFault

-----------------------------------------------------------------------------
ElectionStep(p) == Wake(p) \/ TakeOffice(p) \/ Lose(p) \/ Schedule(p)
StopStep(p) == Joined(p) \/ Shutdown(p) \/ Unlock(p) \/ Exit(p)
RunStep(p) ==
    Refused(p) \/ RunPipeline(p) \/ PipelineEnds(p) \/ UnlockFile(p) \/ ReleaseFlag(p)

Next ==
    \E p \in Procs :
        \/ Start(p) \/ Stop(p) \/ Dispatch(p) \/ AttemptFails(p) \/ Die(p)
        \/ ElectionStep(p) \/ StopStep(p) \/ RunStep(p)

Spec == Init /\ [][Next]_vars

\* Threads go on, and a pipeline ends.  Nothing starts, stops or is
\* dispatched because it has to.
FairSpec ==
    Spec /\ \A p \in Procs :
        WF_vars(ElectionStep(p)) /\ WF_vars(StopStep(p)) /\ WF_vars(RunStep(p))

-----------------------------------------------------------------------------
\* The states of the variables; a held lock belongs to a live process, that
\* of the analysis to one whose thread is between open and close (dispatch).
TypeOK ==
    /\ life \in [Procs -> {"down", "starting", "serving", "joining",
                           "shutdown", "unlocking", "leaving"}]
    /\ election \in [Procs -> {"none", "waiting", "trying", "locked"}]
    /\ run \in [Procs -> {"none", "opening", "running", "unlocking", "releasing"}]
    /\ scheduler \in SUBSET Procs /\ flag \in SUBSET Procs
    /\ office \in {p \in Procs : life[p] # "down"} \cup {NoProc}
    /\ analysis \in {p \in Procs : run[p] \in {"running", "unlocking"}} \cup {NoProc}
    /\ faults \in SUBSET FaultKinds /\ starts \in Nat

\* At most one scheduler runs among the processes that have not given the
\* lock back on their way out, and one that runs there still is of an attempt
\* that outlived its join, however starts, retries, stops, failures and deaths
\* interleave (start: "Elect exactly one scheduler across local web worker
\* processes").
OneScheduler ==
    /\ \A p, q \in scheduler : life[p] # "leaving" /\ life[q] # "leaving" => p = q
    /\ \A p \in scheduler : life[p] = "leaving" => "join" \in faults

\* No two web processes run a pipeline at once, and one that does has its
\* flag, so that it starts no second one itself (dispatch).
SingleFlight ==
    /\ \A p, q \in Procs : run[p] = "running" /\ run[q] = "running" => p = q
    /\ \A p \in Procs : run[p] # "none" => p \in flag

\* As long as some process goes on serving, and no attempt has raised, some
\* scheduler runs: the office passes on when its owner stops or dies (start:
\* "Retry election so scheduling transfers after it exits").
OfficeIsFilled ==
    (/\ \E p \in Procs : <>[](life[p] = "serving")
     /\ [](faults \cap {"try", "schedule"} = {}))
        => []<>(scheduler # {})

\* The flag of a process is always given back, so that a trigger it refuses is
\* accepted later, unless its thread did not start or its last unlock raised.
FlagIsReturned ==
    [](faults \cap {"thread", "unlock"} = {}) => \A p \in Procs : []<>(p \notin flag)
=============================================================================
