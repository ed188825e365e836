------------------------------ MODULE JobStore ------------------------------
(***************************************************************************)
(* The Redis side of jobs.py: the seven keys the processes share and, one  *)
(* operator each, the Lua scripts and commands they run on them.  Redis    *)
(* runs a script atomically, so each operator is one step.  A script that  *)
(* returns 0 or nil has no operator: the caller sees its condition false   *)
(* and the store stays as it is.                                           *)
(*                                                                         *)
(* Time is counted in ticks of the length a refresher sleeps (600 seconds  *)
(* by default).  Tokens, uuid4 values in the code, are numbers handed out  *)
(* in order; 0 is no token.                                                *)
(***************************************************************************)
EXTENDS Integers, Sequences, FiniteSets

CONSTANTS
    Jobs,         \* job identifiers, one for each call of enqueue_analysis
    NoJob,        \* the pending key is absent, or a worker handles no job
    Orphans,      \* jobs in flight at the start with no claim token (written
                  \* by a release without tokens, adopt-orphan exists for them)
    Malformed,    \* jobs found at the start whose payload is not a JSON object
    Leftover,     \* the queue at the start: malformed jobs somebody pushed
    LockTTL,      \* PIPELINE_LOCK_TTL_SECONDS
    LeaseTTL,     \* JOB_LEASE_SECONDS
    DedupTTL      \* JOB_DEDUP_TTL_SECONDS

ASSUME JobsAssumption ==
    /\ NoJob \notin Jobs
    /\ Orphans \subseteq Jobs
    /\ Malformed \subseteq Jobs

ASSUME LeftoverAssumption ==
    /\ Leftover \in Seq(Malformed \ Orphans)
    /\ \A i, k \in 1..Len(Leftover) : Leftover[i] = Leftover[k] => i = k
    /\ \A j \in Malformed \ Orphans : \E i \in 1..Len(Leftover) : Leftover[i] = j

ASSUME TTLAssumption ==
    /\ LockTTL \in Nat \ {0}
    /\ LeaseTTL \in Nat \ {0}
    /\ DedupTTL \in Nat \ {0}

VARIABLES
    now,            \* time.time() and Redis' own clock, in ticks
    queue,          \* QUEUE: the head is the end rpop and rpush work on
    payloads,       \* PAYLOADS: the attempts field, or NoPayload or BadPayload
    inflight,       \* INFLIGHT: the score (time of the last lease), or NotLeased
    claims,         \* CLAIMS: the token of the current claim, 0 for none
    dead,           \* DEAD: the jobs with a dead-letter entry
    pending,        \* PENDING: the job that holds the deduplication key
    pendingUntil,   \* when PENDING expires
    lock,           \* LOCK: token of the run that holds it, 0 when free
    lockUntil,      \* when LOCK expires
    nextTok,        \* the next fresh token
    done,           \* history: the jobs acknowledged
    deliveries,     \* history: how many times a job was claimed
    runs,           \* history: how many times its pipeline was started
    reservedAt      \* history: when its PENDING was set

jobKeys == <<queue, payloads, inflight, claims, dead>>
pendingKey == <<pending, pendingUntil>>
lockKey == <<lock, lockUntil>>
history == <<done, deliveries, runs, reservedAt>>
storeVars == <<now, queue, payloads, inflight, claims, dead, pending,
               pendingUntil, lock, lockUntil, nextTok, done, deliveries, runs,
               reservedAt>>

NoPayload == -1
BadPayload == -2
NotLeased == -1
NoCutoff == -1      \* the default of _dead_letter: whatever the score
Never == -1

\* Scores start at the age of the orphans, which have just expired at the start.
Epoch == LeaseTTL

Queued(j) == \E i \in 1..Len(queue) : queue[i] = j
InFlight(j) == inflight[j] # NotLeased
Active(j) == Queued(j) \/ InFlight(j)
Settled(j) == j \in done \/ j \in dead

StoreInit ==
    /\ now = Epoch
    /\ queue = Leftover
    /\ payloads = [j \in Jobs |-> IF j \in Malformed THEN BadPayload
                                  ELSE IF j \in Orphans THEN 0 ELSE NoPayload]
    /\ inflight = [j \in Jobs |-> IF j \in Orphans THEN 0 ELSE NotLeased]
    /\ claims = [j \in Jobs |-> 0]
    /\ dead = {}
    /\ pending = NoJob /\ pendingUntil = 0
    /\ lock = 0 /\ lockUntil = 0
    /\ nextTok = 1
    /\ done = {}
    /\ deliveries = [j \in Jobs |-> IF j \in Orphans THEN 1 ELSE 0]
    /\ runs = [j \in Jobs |-> 0]
    /\ reservedAt = [j \in Jobs |-> Never]

-----------------------------------------------------------------------------
(* PENDING and LOCK: strings with an expiry, compare-and-delete, expiry.   *)

\* Mutation: SET without NX.
SetPendingAlways(j) ==
    /\ pending' = j
    /\ pendingUntil' = now + DedupTTL

SetPending(j) ==
    /\ pending = NoJob
    /\ pending' = j
    /\ pendingUntil' = now + DedupTTL

DropPending(j) ==
    /\ pending' = IF pending = j THEN NoJob ELSE pending
    /\ pendingUntil' = IF pending = j THEN 0 ELSE pendingUntil

SetLock(t) ==
    /\ lock = 0
    /\ lock' = t
    /\ lockUntil' = now + LockTTL

RenewLockScript(t) ==
    /\ lock = t
    /\ lockUntil' = now + LockTTL
    /\ UNCHANGED lock

\* Mutation: delete without compare.
DropAnyLock(t) == lock' = 0 /\ lockUntil' = 0

DropLock(t) ==
    /\ lock' = IF lock = t THEN 0 ELSE lock
    /\ lockUntil' = IF lock = t THEN 0 ELSE lockUntil

\* The clock advances and Redis drops the keys whose time has come.
Advance ==
    /\ now' = now + 1
    /\ pending' = IF pendingUntil <= now' THEN NoJob ELSE pending
    /\ pendingUntil' = IF pendingUntil <= now' THEN 0 ELSE pendingUntil
    /\ lock' = IF lockUntil <= now' THEN 0 ELSE lock
    /\ lockUntil' = IF lockUntil <= now' THEN 0 ELSE lockUntil

-----------------------------------------------------------------------------
(* The queue.                                                              *)

\* The transaction of enqueue_analysis: hset of the payload, then lpush.
PushScript(j) ==
    /\ payloads' = [payloads EXCEPT ![j] = 0]
    /\ queue' = Append(queue, j)
    /\ UNCHANGED <<inflight, claims, dead>>

\* claim-v1 pops at most ten ids, dead-letters those whose payload is gone and
\* leases the first that has one.
Loaded == {i \in 1..Len(queue) : i <= 10 /\ payloads[queue[i]] # NoPayload}
FirstLoaded == CHOOSE i \in Loaded : \A k \in Loaded : i <= k

ClaimScript(j, t) ==
    /\ Loaded # {}
    /\ j = queue[FirstLoaded]
    /\ queue' = SubSeq(queue, FirstLoaded + 1, Len(queue))
    /\ dead' = dead \union {queue[i] : i \in 1..(FirstLoaded - 1)}
    /\ inflight' = [inflight EXCEPT ![j] = now]
    /\ claims' = [claims EXCEPT ![j] = t]
    /\ UNCHANGED payloads

\* The condition under which ack, requeue and dead-letter recognise the caller.
HoldsClaim(j, t) == claims[j] = t /\ t # 0

\* zrem and hdel of the claim.
EndLease(j) ==
    /\ inflight' = [inflight EXCEPT ![j] = NotLeased]
    /\ claims' = [claims EXCEPT ![j] = 0]

RemoveJob(j) ==
    /\ EndLease(j)
    /\ payloads' = [payloads EXCEPT ![j] = NoPayload]

\* Mutations of ack-v1: without the comparison of the token, and without the
\* deletion of PENDING.
AckAnyToken(j, t) ==
    RemoveJob(j) /\ DropPending(j) /\ UNCHANGED <<queue, dead>>

AckKeepsPending(j, t) ==
    HoldsClaim(j, t) /\ RemoveJob(j) /\ UNCHANGED <<queue, dead, pendingKey>>

AckScript(j, t) ==
    /\ HoldsClaim(j, t)
    /\ RemoveJob(j)
    /\ DropPending(j)
    /\ UNCHANGED <<queue, dead>>

\* requeue-v1: only a lease not renewed since the cutoff may be given back.
\* Mutation: whoever asks may.
RequeueUnchecked(j, t, c) == TRUE

CanRequeue(j, t, c) == HoldsClaim(j, t) /\ InFlight(j) /\ inflight[j] <= c

RequeueScript(j, t, attempts, c) ==
    /\ CanRequeue(j, t, c)
    /\ EndLease(j)
    /\ payloads' = [payloads EXCEPT ![j] = attempts]
    /\ queue' = <<j>> \o queue
    /\ UNCHANGED <<dead, pendingKey>>

CanBury(j, t, c) ==
    HoldsClaim(j, t) /\ InFlight(j) /\ (c = NoCutoff \/ inflight[j] <= c)

DeadScript(j, t, c) ==
    /\ CanBury(j, t, c)
    /\ RemoveJob(j)
    /\ dead' = dead \union {j}
    /\ DropPending(j)
    /\ UNCHANGED queue

\* Mutations of renew-lease-v1: without token and XX, and without the zadd.
RenewAnyLease(j, t) ==
    /\ inflight' = [inflight EXCEPT ![j] = now]
    /\ UNCHANGED <<queue, payloads, claims, dead>>

RenewNoLease(j, t) == HoldsClaim(j, t) /\ UNCHANGED jobKeys

\* renew-lease-v1: XX, so a lease that is gone is not brought back.
RenewLeaseScript(j, t) ==
    /\ HoldsClaim(j, t)
    /\ inflight' = [inflight EXCEPT ![j] = IF InFlight(j) THEN now ELSE @]
    /\ UNCHANGED <<queue, payloads, claims, dead>>

\* adopt-orphan-v1 gives an expired lease a token unless it has one, and tells
\* the caller the token the lease has.
CanAdopt(j, c) == InFlight(j) /\ inflight[j] <= c

AdoptScript(j, t, c) ==
    /\ CanAdopt(j, c)
    /\ claims' = [claims EXCEPT ![j] = IF @ = 0 THEN t ELSE @]
    /\ UNCHANGED <<queue, payloads, inflight, dead>>
=============================================================================
