----------------------------- MODULE JobWorkers -----------------------------
(***************************************************************************)
(* The processes of jobs.py around the store: the callers of               *)
(* enqueue_analysis (web trigger and scheduler), the workers with their    *)
(* lock refresher threads and their orphan recovery, the passing of time,  *)
(* and the faults the code meets: a Redis command that raises, whether or  *)
(* not Redis had applied it, a process that dies at any point.             *)
(*                                                                         *)
(* A step ends where the code issues the next Redis command, so every      *)
(* interleaving of two commands of different processes is a behaviour.     *)
(***************************************************************************)
EXTENDS JobStore

CONSTANTS
    Workers,
    RunMax,         \* PIPELINE_TIMEOUT_SECONDS and the publication, in ticks
    RefreshEvery,   \* the refresher's interval: a third of the shorter TTL
    MaxAttempts,    \* JOB_MAX_ATTEMPTS
    MaxTime,        \* bound: the clock stops here
    MaxFaults       \* bound: deaths and failing Redis commands together

ASSUME RunAssumption ==
    /\ RunMax \in Nat \ {0}
    /\ RefreshEvery \in Nat \ {0}
    /\ MaxAttempts \in Nat \ {0}

ASSUME BoundAssumption == MaxTime \in Nat /\ MaxFaults \in Nat

VARIABLES
    call,       \* call[j]: where the call of enqueue_analysis for j stands
    pc,         \* pc[w]: what worker w does next
    job, tok,   \* job_id and claim_token of the job w handles
    att,        \* the attempts field of the payload w has read
    out,        \* how the handling of job[w] went
    cutoff,     \* the cutoff of the running scan, requeue or dead-letter
    todo,       \* the ids zrangebyscore returned and the scan has still to do
    deadline,   \* when the subprocess of w is killed at the latest
    ref,        \* the refresher thread of w
    due,        \* when that thread wakes up
    strays,     \* refreshers that outlived join(timeout=2), and their next step
    faults      \* how many faults have happened

claimVars == <<job, tok, att>>
scanVars == <<cutoff, todo>>
runVars == <<deadline, ref, due>>
workerVars == <<pc, job, tok, att, out, cutoff, todo, deadline, ref, due>>
vars == <<storeVars, call, workerVars, strays, faults>>

Calls == {"none", "reserved", "undo", "ok", "refused", "failed"}

\* "boot"     started, about to run the recovery that precedes the loop
\* "adopt"    recovery, about to adopt the next id of todo
\* "read"     recovery, about to read the payload of job
\* "decide"   recovery, about to requeue or dead-letter job
\* "idle"     at the head of the loop of worker_main
\* "claimed"  about to take LOCK
\* "running"  execute_pipeline in progress
\* "release"  in the finally of _run_job, about to delete LOCK
\* "settle"   about to ack, requeue or dead-letter job
Pcs == {"down", "boot", "adopt", "read", "decide", "idle", "claimed", "running",
        "release", "settle"}
Outs == {"ok", "error", "invalid"}
Refs == {"off", "wait", "lease"}

\* Jobs that enqueue_analysis may create: the others were there at the start.
Fresh == Jobs \ (Orphans \union Malformed)

Init ==
    /\ StoreInit
    /\ call = [j \in Jobs |-> "none"]
    /\ pc = [w \in Workers |-> "down"]
    /\ job = [w \in Workers |-> NoJob] /\ tok = [w \in Workers |-> 0]
    /\ att = [w \in Workers |-> 0] /\ out = [w \in Workers |-> "ok"]
    /\ cutoff = [w \in Workers |-> NoCutoff] /\ todo = [w \in Workers |-> {}]
    /\ deadline = [w \in Workers |-> 0]
    /\ ref = [w \in Workers |-> "off"] /\ due = [w \in Workers |-> 0]
    /\ strays = {}
    /\ faults = 0

Fault ==
    /\ faults < MaxFaults
    /\ faults' = faults + 1

-----------------------------------------------------------------------------
(* enqueue_analysis, one call per fresh job.                               *)

CallStep(j, from, to) ==
    /\ call[j] = from
    /\ call' = [call EXCEPT ![j] = to]
    /\ UNCHANGED <<now, inflight, claims, dead, lockKey, nextTok, done,
                   deliveries, runs, workerVars, strays>>

\* SET PENDING NX EX: taken, or found taken and the caller told so.
Reserve(j) ==
    /\ j \in Fresh
    /\ CallStep(j, "none", "reserved")
    /\ SetPending(j)
    /\ reservedAt' = [reservedAt EXCEPT ![j] = now]
    /\ UNCHANGED <<queue, payloads, faults>>

Refuse(j) ==
    /\ j \in Fresh
    /\ pending # NoJob
    /\ CallStep(j, "none", "refused")
    /\ UNCHANGED <<queue, payloads, pendingKey, reservedAt, faults>>

\* The SET raises, outside the try: nobody deletes the key if it was set.
ReserveFault(j) ==
    /\ j \in Fresh
    /\ CallStep(j, "none", "failed")
    /\ Fault
    /\ \/ SetPending(j)
       \/ UNCHANGED pendingKey
    /\ UNCHANGED <<queue, payloads, reservedAt>>

\* The transaction that stores the payload and pushes the id.
Push(j) ==
    /\ CallStep(j, "reserved", "ok")
    /\ PushScript(j)
    /\ UNCHANGED <<pendingKey, reservedAt, faults>>

\* The transaction raises: the job may be queued all the same.
PushFault(j) ==
    /\ CallStep(j, "reserved", "undo")
    /\ Fault
    /\ \/ PushScript(j)
       \/ UNCHANGED <<queue, payloads>>
    /\ UNCHANGED <<pendingKey, reservedAt>>

\* The except clause takes the reservation back and re-raises.
Undo(j) ==
    /\ CallStep(j, "undo", "failed")
    /\ DropPending(j)
    /\ UNCHANGED <<queue, payloads, reservedAt, faults>>

\* The caller's process dies, or the delete of the except clause raises.
CallerDies(j) ==
    /\ \E from \in {"reserved", "undo"} : CallStep(j, from, "failed")
    /\ Fault
    /\ UNCHANGED <<queue, payloads, pendingKey, reservedAt>>

-----------------------------------------------------------------------------
(* A worker's moves.                                                       *)

NoClaim(w) ==
    /\ job' = [job EXCEPT ![w] = NoJob]
    /\ tok' = [tok EXCEPT ![w] = 0]
    /\ att' = [att EXCEPT ![w] = 0]

NoRun(w) ==
    /\ deadline' = [deadline EXCEPT ![w] = 0]
    /\ ref' = [ref EXCEPT ![w] = "off"]
    /\ due' = [due EXCEPT ![w] = 0]

\* To the head of the loop, or out of the process: every local is forgotten.
Forget(w, to) ==
    /\ pc' = [pc EXCEPT ![w] = to]
    /\ NoClaim(w)
    /\ out' = [out EXCEPT ![w] = "ok"]
    /\ cutoff' = [cutoff EXCEPT ![w] = NoCutoff]
    /\ todo' = [todo EXCEPT ![w] = {}]
    /\ NoRun(w)

\* On to the next id of the scan, which ends when there is none.
NextOrphan(w, rest) ==
    /\ pc' = [pc EXCEPT ![w] = IF rest = {} THEN "idle" ELSE "adopt"]
    /\ todo' = [todo EXCEPT ![w] = rest]
    /\ cutoff' = [cutoff EXCEPT ![w] = IF rest = {} THEN NoCutoff ELSE @]
    /\ NoClaim(w)
    /\ out' = [out EXCEPT ![w] = "ok"]
    /\ UNCHANGED runVars

\* The handling of the job raised or returned: what remains is to settle it.
\* The time.time() that _requeue is given after an error is not read before now;
\* the other outcomes use the default cutoff.
Conclude(w, o) ==
    /\ pc' = [pc EXCEPT ![w] = "settle"]
    /\ out' = [out EXCEPT ![w] = o]
    /\ cutoff' = [cutoff EXCEPT ![w] = IF o = "error" THEN now ELSE NoCutoff]
    /\ NoRun(w)
    /\ UNCHANGED <<claimVars, todo>>

\* docker compose starts the process (restart: unless-stopped).
Start(w) ==
    /\ pc[w] = "down"
    /\ pc' = [pc EXCEPT ![w] = "boot"]
    /\ UNCHANGED <<storeVars, call, claimVars, out, scanVars, runVars, strays, faults>>

\* SIGTERM: the loop ends when the current job is settled.
Stop(w) ==
    /\ pc[w] = "idle"
    /\ Forget(w, "down")
    /\ Fault
    /\ UNCHANGED <<storeVars, call, strays>>

\* The process dies, killed or by an exception that worker_main does not
\* catch: a Redis error in the recovery, in _claim or in the except clauses.
\* The container takes the subprocess along.
Crash(w) ==
    /\ pc[w] # "down"
    /\ Forget(w, "down")
    /\ Fault
    /\ UNCHANGED <<storeVars, call, strays>>

-----------------------------------------------------------------------------
(* _recover_orphans, at the start and every 30 seconds of the loop.        *)

Expired(c) == {j \in Jobs : CanAdopt(j, c)}

RunScan(w) ==
    /\ cutoff' = [cutoff EXCEPT ![w] = IF Expired(now - LeaseTTL) = {} THEN NoCutoff
                                       ELSE now - LeaseTTL]
    /\ todo' = [todo EXCEPT ![w] = Expired(now - LeaseTTL)]
    /\ pc' = [pc EXCEPT ![w] = IF Expired(now - LeaseTTL) = {} THEN "idle" ELSE "adopt"]
    /\ UNCHANGED <<storeVars, call, claimVars, out, runVars, strays, faults>>

\* Mutation: recovery at the start only.
ScanOnce(w) == pc[w] = "boot" /\ RunScan(w)

Scan(w) == pc[w] \in {"boot", "idle"} /\ RunScan(w)

Adopt(w, j) ==
    /\ pc[w] = "adopt"
    /\ j \in todo[w]
    /\ AdoptScript(j, nextTok, cutoff[w])
    /\ nextTok' = IF claims[j] = 0 THEN nextTok + 1 ELSE nextTok
    /\ pc' = [pc EXCEPT ![w] = "read"]
    /\ job' = [job EXCEPT ![w] = j]
    /\ tok' = [tok EXCEPT ![w] = claims'[j]]
    /\ todo' = [todo EXCEPT ![w] = @ \ {j}]
    /\ UNCHANGED <<now, pendingKey, lockKey, history, call, att, out, cutoff,
                   runVars, strays, faults>>

\* adopt-orphan returned nil: renewed or settled since the scan.
SkipOrphan(w, j) ==
    /\ pc[w] = "adopt"
    /\ j \in todo[w]
    /\ ~CanAdopt(j, cutoff[w])
    /\ NextOrphan(w, todo[w] \ {j})
    /\ UNCHANGED <<storeVars, call, strays, faults>>

\* hget of the payload: a record with attempts, or missing or malformed.
ReadAs(w, a, o) ==
    /\ pc' = [pc EXCEPT ![w] = "decide"]
    /\ att' = [att EXCEPT ![w] = a]
    /\ out' = [out EXCEPT ![w] = o]
    /\ UNCHANGED <<storeVars, call, job, tok, scanVars, runVars, strays, faults>>

\* Mutation: nobody looks whether the payload is still there.
ReadUnchecked(w) == pc[w] = "read" /\ ReadAs(w, payloads[job[w]], "error")

ReadOrphan(w) ==
    /\ pc[w] = "read"
    /\ \/ payloads[job[w]] >= 0 /\ ReadAs(w, payloads[job[w]], "error")
       \/ payloads[job[w]] < 0 /\ ReadAs(w, 0, "invalid")

-----------------------------------------------------------------------------
(* worker_main and _run_job.                                               *)

Claim(w, j) ==
    /\ pc[w] = "idle"
    /\ ClaimScript(j, nextTok)
    /\ nextTok' = nextTok + 1
    /\ deliveries' = [deliveries EXCEPT ![j] = @ + 1]
    /\ job' = [job EXCEPT ![w] = j]
    /\ tok' = [tok EXCEPT ![w] = nextTok]
    /\ \/ /\ payloads[j] >= 0
          /\ pc' = [pc EXCEPT ![w] = "claimed"]
          /\ att' = [att EXCEPT ![w] = payloads[j]]
          /\ UNCHANGED out
       \/ /\ payloads[j] = BadPayload
          /\ pc' = [pc EXCEPT ![w] = "settle"]
          /\ out' = [out EXCEPT ![w] = "invalid"]
          /\ UNCHANGED att
    /\ UNCHANGED <<now, pendingKey, lockKey, done, runs, reservedAt, call,
                   scanVars, runVars, strays, faults>>

\* SET LOCK NX EX, then the refresher and the subprocess are started.
TakeLock(w) ==
    /\ pc[w] = "claimed"
    /\ SetLock(tok[w])
    /\ runs' = [runs EXCEPT ![job[w]] = @ + 1]
    /\ pc' = [pc EXCEPT ![w] = "running"]
    /\ deadline' = [deadline EXCEPT ![w] = now + RunMax]
    /\ ref' = [ref EXCEPT ![w] = "wait"]
    /\ due' = [due EXCEPT ![w] = now + RefreshEvery]
    /\ UNCHANGED <<now, jobKeys, pendingKey, nextTok, done, deliveries, reservedAt,
                   call, claimVars, out, scanVars, strays, faults>>

\* Mutation: a busy lock counts as success.
LockBusyIgnored(w) ==
    /\ pc[w] = "claimed"
    /\ lock # 0
    /\ Conclude(w, "ok")
    /\ UNCHANGED <<storeVars, call, strays, faults>>

\* LockBusy is an Exception like any other to worker_main.
LockBusy(w) ==
    /\ pc[w] = "claimed"
    /\ lock # 0
    /\ Conclude(w, "error")
    /\ UNCHANGED <<storeVars, call, strays, faults>>

\* The SET raises: if it was applied nobody will release the lock.
LockFault(w) ==
    /\ pc[w] = "claimed"
    /\ Conclude(w, "error")
    /\ Fault
    /\ \/ SetLock(tok[w])
       \/ UNCHANGED lockKey
    /\ UNCHANGED <<now, jobKeys, pendingKey, nextTok, history, call, strays>>

\* execute_pipeline returns or raises and the refresher is told to stop.  A
\* refresher that is between its wait and its last command may outlive the join.
Awake(w) == ref[w] = "lease" \/ (ref[w] = "wait" /\ due[w] <= now)

Finish(w, o) ==
    /\ pc[w] = "running"
    /\ pc' = [pc EXCEPT ![w] = "release"]
    /\ out' = [out EXCEPT ![w] = o]
    /\ NoRun(w)
    /\ \/ UNCHANGED strays
       \/ /\ Awake(w)
          /\ strays' = strays \union {[job |-> job[w], tok |-> tok[w], ref |-> ref[w]]}
    /\ UNCHANGED <<storeVars, call, claimVars, scanVars, faults>>

\* Mutation: the lock is released after a success only, not in a finally.
ReleaseOnSuccess(w) ==
    /\ pc[w] = "release"
    /\ IF out[w] = "ok" THEN DropLock(tok[w]) ELSE UNCHANGED lockKey
    /\ Conclude(w, out[w])
    /\ UNCHANGED <<now, jobKeys, pendingKey, nextTok, history, call, strays, faults>>

Release(w) ==
    /\ pc[w] = "release"
    /\ DropLock(tok[w])
    /\ Conclude(w, out[w])
    /\ UNCHANGED <<now, jobKeys, pendingKey, nextTok, history, call, strays, faults>>

\* The delete raises in the finally: the error replaces the run's outcome.
ReleaseFault(w) ==
    /\ pc[w] = "release"
    /\ Fault
    /\ \/ DropLock(tok[w])
       \/ UNCHANGED lockKey
    /\ Conclude(w, "error")
    /\ UNCHANGED <<now, jobKeys, pendingKey, nextTok, history, call, strays>>

-----------------------------------------------------------------------------
(* The refresher thread of _run_job.                                       *)

RenewLock(w) ==
    /\ pc[w] = "running"
    /\ ref[w] = "wait"
    /\ due[w] <= now
    /\ \/ /\ RenewLockScript(tok[w])
          /\ ref' = [ref EXCEPT ![w] = "lease"]
       \/ /\ lock # tok[w]
          /\ ref' = [ref EXCEPT ![w] = "off"]
          /\ UNCHANGED lockKey
    /\ UNCHANGED <<now, jobKeys, pendingKey, nextTok, history, call, pc, claimVars,
                   out, scanVars, deadline, due, strays, faults>>

RenewLease(w) ==
    /\ pc[w] = "running"
    /\ ref[w] = "lease"
    /\ \/ RenewLeaseScript(job[w], tok[w])
       \/ /\ ~HoldsClaim(job[w], tok[w])
          /\ UNCHANGED jobKeys
    /\ ref' = [ref EXCEPT ![w] = "wait"]
    /\ due' = [due EXCEPT ![w] = now + RefreshEvery]
    /\ UNCHANGED <<now, pendingKey, lockKey, nextTok, history, call, pc, claimVars,
                   out, scanVars, deadline, strays, faults>>

\* An exception ends the thread; the run goes on without it.
RefresherDies(w) ==
    /\ pc[w] = "running"
    /\ ref[w] # "off"
    /\ Fault
    /\ ref' = [ref EXCEPT ![w] = "off"]
    /\ UNCHANGED <<storeVars, call, pc, claimVars, out, scanVars, deadline, due, strays>>

\* The same two steps, taken by a refresher that outlived its run.
StrayLock(s) ==
    /\ s \in strays
    /\ s.ref = "wait"
    /\ \/ /\ RenewLockScript(s.tok)
          /\ strays' = (strays \ {s}) \union {[s EXCEPT !.ref = "lease"]}
       \/ /\ lock # s.tok
          /\ strays' = strays \ {s}
          /\ UNCHANGED lockKey
    /\ UNCHANGED <<now, jobKeys, pendingKey, nextTok, history, call, workerVars, faults>>

StrayLease(s) ==
    /\ s \in strays
    /\ s.ref = "lease"
    /\ \/ RenewLeaseScript(s.job, s.tok)
       \/ /\ ~HoldsClaim(s.job, s.tok)
          /\ UNCHANGED jobKeys
    /\ strays' = strays \ {s}
    /\ UNCHANGED <<now, pendingKey, lockKey, nextTok, history, call, workerVars, faults>>

-----------------------------------------------------------------------------
(* How a claim ends: in worker_main ("settle") or in the recovery          *)
(* ("decide").                                                             *)

\* On with the loop of the recovery, or with that of worker_main.
MoveOn(w) == IF pc[w] = "decide" THEN NextOrphan(w, todo[w]) ELSE Forget(w, "idle")

\* An ack refused for its token is not looked at.
Ack(w) ==
    /\ pc[w] = "settle"
    /\ out[w] = "ok"
    /\ \/ /\ AckScript(job[w], tok[w])
          /\ done' = done \union {job[w]}
       \/ /\ ~HoldsClaim(job[w], tok[w])
          /\ UNCHANGED <<jobKeys, pendingKey, done>>
    /\ MoveOn(w)
    /\ UNCHANGED <<now, lockKey, nextTok, deliveries, runs, reservedAt, call,
                   strays, faults>>

\* The ack raises and its worker goes on as if the pipeline had failed.
AckFault(w) ==
    /\ pc[w] = "settle"
    /\ out[w] = "ok"
    /\ Fault
    /\ \/ /\ AckScript(job[w], tok[w])
          /\ done' = done \union {job[w]}
       \/ UNCHANGED <<jobKeys, pendingKey, done>>
    /\ Conclude(w, "error")
    /\ UNCHANGED <<now, lockKey, nextTok, deliveries, runs, reservedAt, call, strays>>

MayRetry(w) == out[w] = "error" /\ att[w] + 1 < MaxAttempts

\* The recovery requeues with the cutoff of its scan, worker_main with the time
\* it reads some time before the script runs.
RequeueCutoffs(w) == IF pc[w] = "decide" THEN {cutoff[w]} ELSE cutoff[w]..now

RequeueWith(w, attempts) ==
    /\ pc[w] \in {"decide", "settle"}
    /\ MayRetry(w)
    /\ \E c \in RequeueCutoffs(w) :
          \/ RequeueScript(job[w], tok[w], attempts, c)
          \/ /\ ~CanRequeue(job[w], tok[w], c)
             /\ UNCHANGED <<jobKeys, pendingKey>>
    /\ MoveOn(w)
    /\ UNCHANGED <<now, lockKey, nextTok, history, call, strays, faults>>

\* Mutation: the attempt is not counted.
RequeueUncounted(w) == RequeueWith(w, att[w])

Requeue(w) == RequeueWith(w, att[w] + 1)

\* Only the recovery bounds its dead-lettering by its cutoff.
BuryCutoff(w) == IF pc[w] = "decide" THEN cutoff[w] ELSE NoCutoff

DeadLetter(w) ==
    /\ pc[w] \in {"decide", "settle"}
    /\ out[w] # "ok"
    /\ ~MayRetry(w)
    /\ \/ DeadScript(job[w], tok[w], BuryCutoff(w))
       \/ /\ ~CanBury(job[w], tok[w], BuryCutoff(w))
          /\ UNCHANGED <<jobKeys, pendingKey>>
    /\ MoveOn(w)
    /\ UNCHANGED <<now, lockKey, nextTok, history, call, strays, faults>>

-----------------------------------------------------------------------------
(* Time and the specification.                                             *)

\* A run is over by its deadline, and a refresher that lives wakes up in time.
Tick ==
    /\ now < MaxTime
    /\ \A w \in Workers : pc[w] = "running" => now < deadline[w] /\ ~Awake(w)
    /\ Advance
    /\ UNCHANGED <<jobKeys, nextTok, history, call, workerVars, strays, faults>>

CallerNext(j) ==
    \/ Reserve(j) \/ Refuse(j) \/ ReserveFault(j)
    \/ Push(j) \/ PushFault(j) \/ Undo(j) \/ CallerDies(j)

WorkerStep(w) ==
    \/ Scan(w) \/ ReadOrphan(w)
    \/ \E j \in Jobs : Adopt(w, j) \/ SkipOrphan(w, j) \/ Claim(w, j)
    \/ TakeLock(w) \/ LockBusy(w) \/ Release(w)
    \/ Ack(w) \/ Requeue(w) \/ DeadLetter(w)

RefresherStep(w) == RenewLock(w) \/ RenewLease(w)
StrayStep == \E s \in strays : StrayLock(s) \/ StrayLease(s)
Run(w) == \E o \in Outs : Finish(w, o)

WorkerFault(w) ==
    \/ Stop(w) \/ Crash(w) \/ LockFault(w) \/ ReleaseFault(w) \/ AckFault(w)
    \/ RefresherDies(w)

Next ==
    \/ \E j \in Jobs : CallerNext(j)
    \/ \E w \in Workers : Start(w) \/ WorkerStep(w) \/ Run(w) \/ RefresherStep(w)
                          \/ WorkerFault(w)
    \/ StrayStep
    \/ Tick

Spec == Init /\ [][Next]_vars
=============================================================================
