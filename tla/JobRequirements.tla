-------------------------- MODULE JobRequirements --------------------------
(***************************************************************************)
(* What the queue, the workers and the lock of jobs.py have to guarantee.  *)
(***************************************************************************)
EXTENDS JobWorkers

Tokens == 1..(nextTok - 1)

StoreTypeOK ==
    /\ now \in Nat
    /\ queue \in Seq(Jobs)
    /\ payloads \in [Jobs -> Nat \union {NoPayload, BadPayload}]
    /\ inflight \in [Jobs -> Nat \union {NotLeased}]
    /\ claims \in [Jobs -> Nat]
    /\ dead \subseteq Jobs
    /\ pending \in Jobs \union {NoJob}
    /\ pendingUntil \in Nat
    /\ lock \in Nat
    /\ lockUntil \in Nat
    /\ nextTok \in Nat \ {0}

HistoryTypeOK ==
    /\ done \subseteq Jobs
    /\ deliveries \in [Jobs -> Nat]
    /\ runs \in [Jobs -> Nat]
    /\ reservedAt \in [Jobs -> Nat \union {Never}]

LocalsTypeOK ==
    /\ pc \in [Workers -> Pcs]
    /\ job \in [Workers -> Jobs \union {NoJob}]
    /\ tok \in [Workers -> Nat]
    /\ att \in [Workers -> Nat]
    /\ out \in [Workers -> Outs]
    /\ cutoff \in [Workers -> Int]
    /\ todo \in [Workers -> SUBSET Jobs]
    /\ deadline \in [Workers -> Nat]
    /\ ref \in [Workers -> Refs]
    /\ due \in [Workers -> Nat]

ProcessTypeOK ==
    /\ call \in [Jobs -> Calls]
    /\ LocalsTypeOK
    /\ strays \subseteq [job : Jobs, tok : Nat, ref : {"wait", "lease"}]
    /\ faults \in Nat

\* Every variable of JobStore and JobWorkers holds a value of its kind: the
\* keys of jobs.py hold what its scripts expect to find there.
TypeOK == StoreTypeOK /\ HistoryTypeOK /\ ProcessTypeOK

-----------------------------------------------------------------------------
(* Where a job is.                                                         *)

QueuedOnce == \A i, k \in 1..Len(queue) : queue[i] = queue[k] => i = k

InOnePlace(j) ==
    /\ ~(Queued(j) /\ InFlight(j))
    /\ Settled(j) => ~Active(j)
    /\ ~(j \in done /\ j \in dead)
    /\ payloads[j] # NoPayload <=> Active(j)
    /\ claims[j] # 0 => InFlight(j)

\* A job is in one place at a time: waiting once in QUEUE, leased in INFLIGHT,
\* acknowledged or dead-lettered.  Its payload is there exactly while it can
\* still be delivered and a claim token only while it is leased, so claim-v1
\* never meets an id without a payload and no script loses or doubles a job
\* (jobs.py:26-88).
OnePlace == QueuedOnce /\ \A j \in Jobs : InOnePlace(j)

\* The attempts field counts the claims that came to nothing, whoever ended
\* them (the worker or a recovery), so no job is delivered more than
\* JOB_MAX_ATTEMPTS times (jobs.py:180-183, 279-285).
AttemptsCountDeliveries ==
    \A j \in Jobs :
        /\ deliveries[j] <= MaxAttempts
        /\ payloads[j] >= 0 =>
            payloads[j] = deliveries[j] - IF InFlight(j) THEN 1 ELSE 0

\* A job acknowledged has been through the pipeline (jobs.py:273-274).
AcknowledgedJobsRan == \A j \in done : runs[j] > 0

\* A leased job that carries a token leaves INFLIGHT only by a command of a
\* process that knows this token: the worker that settles its claim, or a
\* recovery whose cutoff is a lease time ago and after the last renewal, so a
\* worker that lost its claim takes nothing from the next (jobs.py:46-75).
LeasesEndByTheirHolder ==
    [][ \A j \in Jobs :
          (InFlight(j) /\ claims[j] # 0 /\ ~InFlight(j)') =>
            \E w \in Workers :
              /\ job[w] = j /\ tok[w] = claims[j]
              /\ \/ pc[w] = "settle"
                 \/ /\ pc[w] = "decide"
                    /\ inflight[j] <= cutoff[w]
                    /\ cutoff[w] <= now - LeaseTTL ]_vars

-----------------------------------------------------------------------------
(* One analysis at a time.                                                 *)

Running == {w \in Workers : pc[w] = "running"}

\* LOCK lets one pipeline run at a time (DEPLOYMENT.md:38-39), whatever
\* crashes, lost replies, dead refreshers and recoveries happen, as long as a
\* run is shorter than the time to live of the lock or the refresher lives.
OneAnalysis == \A v, w \in Running : v = w

\* A run without a fault leaves no lock behind: as long as nothing has failed
\* LOCK is held by a run that is going to release it (jobs.py:237-241).
NoLeakedLock ==
    (faults = 0 /\ lock # 0) =>
        \E w \in Workers : pc[w] \in {"running", "release"} /\ tok[w] = lock

\* While its refresher lives a run keeps LOCK and its claim, however long it
\* takes: no second pipeline starts and its job is not delivered a second time
\* meanwhile (jobs.py:226-232).
RunnersKeepTheirClaim ==
    \A w \in Running : ref[w] # "off" => lock = tok[w] /\ claims[job[w]] = tok[w]

-----------------------------------------------------------------------------
(* Deduplication.                                                          *)

\* PENDING never names a job that is acknowledged or dead, which would refuse
\* calls for nothing until it expires, and without a fault it names a job that
\* is being enqueued, waits or is leased (jobs.py:52, 73, 110-120).
PendingNamesLiveJob ==
    pending # NoJob =>
        /\ ~Settled(pending)
        /\ faults = 0 => Active(pending) \/ call[pending] = "reserved"

\* Two analyses both accepted and both unfinished were accepted at least the
\* deduplication time apart (jobs.py:109-111): the key's expiry is the only way
\* around it.
Accepted(j) == call[j] = "ok" /\ Active(j)

DedupWindow ==
    \A j, k \in Jobs :
        (Accepted(j) /\ Accepted(k) /\ j # k /\ reservedAt[j] <= reservedAt[k])
            => reservedAt[j] + DedupTTL <= reservedAt[k]

-----------------------------------------------------------------------------
(* The queue implements the ledger.                                        *)

StatusOf(j) ==
    IF j \in done THEN "done"
    ELSE IF j \in dead THEN "dead"
    ELSE IF InFlight(j) THEN "leased"
    ELSE IF Queued(j) THEN "queued"
    ELSE "unknown"

Ledger == INSTANCE JobLedger WITH
    Inherited <- Orphans,
    Waiting <- Malformed \ Orphans,
    status <- [j \in Jobs |-> StatusOf(j)]

\* Every behaviour of the store and its processes is one of the ledger: jobs
\* are submitted once, delivered at most MaxAttempts times, and what became of
\* them is final.
LedgerImplemented == Ledger!LedgerSpec

-----------------------------------------------------------------------------
(* Nothing is forgotten.                                                   *)

\* No step that takes the code less than a tick is waiting to be taken.
Quiet ==
    /\ strays = {}
    /\ \A j \in Jobs : call[j] \notin {"reserved", "undo"}
    /\ \A w \in Workers :
        \/ pc[w] = "running"
        \/ pc[w] = "idle" /\ queue = <<>> /\ Expired(now - LeaseTTL) = {}

\* A tick is ten minutes: the steps between two Redis commands take none.
PromptNext == Next /\ (now' # now => Quiet)
PromptSpec == Init /\ [][PromptNext]_vars

\* The processes are scheduled, docker restarts a worker, a run ends by its
\* timeout and the clock goes on.  Nobody has to call enqueue_analysis and
\* nothing has to fail.
Fairness ==
    /\ \A w \in Workers :
        /\ WF_vars(Start(w))
        /\ WF_vars(WorkerStep(w))
        /\ WF_vars(Run(w))
        /\ WF_vars(RefresherStep(w))
    /\ WF_vars(StrayStep)
    /\ \A j \in Jobs : WF_vars(Push(j)) /\ WF_vars(Undo(j))
    /\ WF_vars(Tick /\ Quiet)

FairSpec == PromptSpec /\ Fairness

\* Time enough for every attempt at every job to run, and for a lease to expire
\* after every fault.  A job active later than that before the clock stops need
\* not be settled.
SettleTime == Cardinality(Jobs \ Malformed) * MaxAttempts * RunMax + MaxFaults * LeaseTTL
InTime == now + SettleTime <= MaxTime

\* Every job in the queue or in flight is in the end acknowledged or
\* dead-lettered, whatever dies and whatever reply is lost on the way
\* (DEPLOYMENT.md:42-46).
EveryJobSettles == \A j \in Jobs : (Active(j) /\ InTime) ~> Settled(j)

\* A well-formed job is only given up after the pipeline has tried it: the
\* queue is "at-least-once" (DEPLOYMENT.md:42, 121).
NoJobBuriedUnrun == \A j \in dead \ (Orphans \union Malformed) : runs[j] > 0
=============================================================================
