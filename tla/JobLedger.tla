----------------------------- MODULE JobLedger -----------------------------
(***************************************************************************)
(* What the analysis queue of jobs.py promises about one job, with no      *)
(* Redis, no tokens, no clock and no workers: a job is submitted once,     *)
(* leased at most MaxAttempts times, and what became of it is final.       *)
(***************************************************************************)
EXTENDS Naturals

CONSTANTS
    Jobs,         \* job identifiers
    Inherited,    \* jobs already leased when the system starts
    Waiting,      \* jobs already queued when the system starts
    MaxAttempts   \* JOB_MAX_ATTEMPTS

VARIABLES
    status,       \* status[j]: where the job is
    deliveries    \* deliveries[j]: how many times it has been leased

ledgerVars == <<status, deliveries>>

Statuses == {"unknown", "queued", "leased", "done", "dead"}

LedgerInit ==
    /\ status = [j \in Jobs |-> IF j \in Inherited THEN "leased"
                                ELSE IF j \in Waiting THEN "queued" ELSE "unknown"]
    /\ deliveries = [j \in Jobs |-> IF j \in Inherited THEN 1 ELSE 0]

Become(j, from, to) ==
    /\ status[j] = from
    /\ status' = [status EXCEPT ![j] = to]

Submit(j) == Become(j, "unknown", "queued") /\ UNCHANGED deliveries

Lease(j) ==
    /\ Become(j, "queued", "leased")
    /\ deliveries[j] < MaxAttempts
    /\ deliveries' = [deliveries EXCEPT ![j] = @ + 1]

Acknowledge(j) == Become(j, "leased", "done") /\ UNCHANGED deliveries

GiveBack(j) ==
    /\ Become(j, "leased", "queued")
    /\ deliveries[j] < MaxAttempts
    /\ UNCHANGED deliveries

Bury(j) == Become(j, "leased", "dead") /\ UNCHANGED deliveries

LedgerNext ==
    \E j \in Jobs : Submit(j) \/ Lease(j) \/ Acknowledge(j) \/ GiveBack(j) \/ Bury(j)

LedgerSpec == LedgerInit /\ [][LedgerNext]_ledgerVars
=============================================================================
