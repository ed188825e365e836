------------------------------ MODULE JobProofs ------------------------------
(***************************************************************************)
(* Proofs about JobWorkers for any jobs, workers, times to live, limits    *)
(* and bounds that satisfy the assumptions of JobStore and JobWorkers.     *)
(*                                                                         *)
(* First the types, that no two analyses overlap, and where each job is;   *)
(* then what the attempts count, what the ledger of JobLedger is told, who *)
(* ends a lease, what is acknowledged, that the lock is not leaked, what a *)
(* deduplication key stands for, and that a run whose refresher lives      *)
(* keeps the lock and its claim.                                           *)
(***************************************************************************)
EXTENDS JobRequirements, SequenceTheorems, TLAPS

\* The states of a worker in which it handles a job.
Handling == {"read", "decide", "claimed", "running", "release", "settle"}

BusyWithAJob == \A w \in Workers : pc[w] \in Handling => job[w] \in Jobs

TypeInv == TypeOK /\ BusyWithAJob

\* The steps of a worker that leave Redis alone.
LocalStep(w) ==
    \/ Start(w) \/ Stop(w) \/ Crash(w) \/ Scan(w) \/ ReadOrphan(w) \/ LockBusy(w)
    \/ Run(w) \/ RefresherDies(w) \/ \E j \in Jobs : SkipOrphan(w, j)

\* Next by cases, for the proofs that go through them one by one.
LEMMA NextCases ==
  ASSUME Next
  PROVE  \/ \E j \in Jobs : CallerNext(j)
         \/ \E w \in Workers, j \in Jobs : Adopt(w, j) \/ Claim(w, j)
         \/ \E w \in Workers :
              \/ LocalStep(w)
              \/ TakeLock(w) \/ LockFault(w) \/ Release(w) \/ ReleaseFault(w)
              \/ RenewLock(w) \/ RenewLease(w)
              \/ Ack(w) \/ AckFault(w) \/ Requeue(w) \/ DeadLetter(w)
         \/ \E s \in strays : StrayLock(s) \/ StrayLease(s)
         \/ Tick
  BY DEF Next, WorkerStep, RefresherStep, WorkerFault, StrayStep, LocalStep

\* A nonempty set of the positions claim-v1 looks at has a first one.
LEMMA FirstOfTen ==
  ASSUME NEW S \in SUBSET (1..10), S # {}
  PROVE  \E i \in S : \A k \in S : i <= k
<1> SUFFICES ASSUME \A i \in S : \E k \in S : k < i
             PROVE  FALSE
  OBVIOUS
<1>1. 1 \notin S
  OBVIOUS
<1>2. 2 \notin S /\ 3 \notin S /\ 4 \notin S
  BY <1>1
<1>3. 5 \notin S /\ 6 \notin S /\ 7 \notin S
  BY <1>1, <1>2
<1>4. 8 \notin S /\ 9 \notin S /\ 10 \notin S
  BY <1>1, <1>2, <1>3
<1>5. S \subseteq 1..10 /\ \E i \in S : i \in 1..10
  OBVIOUS
<1> QED
  BY <1>1, <1>2, <1>3, <1>4, <1>5

LEMMA FirstIsLoaded ==
  ASSUME Loaded # {}
  PROVE  FirstLoaded \in Loaded /\ \A k \in Loaded : FirstLoaded <= k
<1>1. Loaded \in SUBSET (1..10)
  BY DEF Loaded
<1>2. \E i \in Loaded : \A k \in Loaded : i <= k
  BY <1>1, FirstOfTen
<1> QED
  BY <1>2 DEF FirstLoaded

-----------------------------------------------------------------------------
(* Type correctness.                                                       *)

LEMMA InitType == Init => TypeInv
  BY JobsAssumption, LeftoverAssumption, TTLAssumption
  DEF Init, StoreInit, TypeInv, TypeOK, StoreTypeOK, HistoryTypeOK, ProcessTypeOK,
      LocalsTypeOK, BusyWithAJob, Handling, NoPayload, BadPayload, NotLeased, Never, NoCutoff, Epoch,
      Calls, Pcs, Outs, Refs

\* What claim-v1 leaves of the queue, and what it dead-letters, are jobs.
LEMMA ClaimType ==
  ASSUME StoreTypeOK, NEW j, NEW t \in Nat, ClaimScript(j, t)
  PROVE  /\ j \in Jobs /\ payloads[j] # NoPayload
         /\ FirstLoaded \in 1..Len(queue)
         /\ queue' \in Seq(Jobs) /\ dead' \subseteq Jobs
         /\ inflight' \in [Jobs -> Nat \union {NotLeased}]
         /\ claims' \in [Jobs -> Nat]
<1>1. FirstLoaded \in 1..Len(queue) /\ payloads[queue[FirstLoaded]] # NoPayload
  BY FirstIsLoaded DEF ClaimScript, Loaded
<1>2. \A i \in 1..Len(queue) : queue[i] \in Jobs
  BY DEF StoreTypeOK
<1>3. queue' \in Seq(Jobs)
  BY <1>1 DEF ClaimScript, StoreTypeOK
<1>4. j \in Jobs /\ payloads[j] # NoPayload
  BY <1>1, <1>2 DEF ClaimScript
<1>5. dead' \subseteq Jobs
  <2>1. \A i \in 1..(FirstLoaded - 1) : i \in 1..Len(queue)
    BY <1>1, LenProperties DEF StoreTypeOK
  <2> QED
    BY <1>2, <2>1 DEF ClaimScript, StoreTypeOK
<1>6. inflight' \in [Jobs -> Nat \union {NotLeased}] /\ claims' \in [Jobs -> Nat]
  BY DEF ClaimScript, StoreTypeOK
<1> QED
  BY <1>1, <1>3, <1>4, <1>5, <1>6

LEMMA CallerStoreType ==
  ASSUME TypeInv, NEW j \in Jobs, CallerNext(j)
  PROVE  StoreTypeOK'
<1> USE TTLAssumption DEF CallStep, lockKey, pendingKey, TypeInv, TypeOK, StoreTypeOK
<1>1. CASE Reserve(j) \/ ReserveFault(j) \/ Refuse(j)
  BY <1>1 DEF Reserve, ReserveFault, Refuse, SetPending
<1>2. CASE Push(j)
  BY <1>2 DEF Push, PushScript
<1>3. CASE PushFault(j)
  <2>1. CASE PushScript(j)
    BY <1>3, <2>1 DEF PushFault, PushScript
  <2>2. CASE UNCHANGED <<queue, payloads>>
    BY <1>3, <2>2 DEF PushFault
  <2> QED
    BY <1>3, <2>1, <2>2 DEF PushFault
<1>4. CASE Undo(j) \/ CallerDies(j)
  BY <1>4 DEF Undo, CallerDies, DropPending
<1> QED
  BY <1>1, <1>2, <1>3, <1>4 DEF CallerNext

LEMMA StoreType ==
  ASSUME TypeInv, Next
  PROVE  StoreTypeOK'
<1> USE DEF TypeInv, TypeOK, storeVars, jobKeys, lockKey, pendingKey, history
<1>1. ASSUME NEW j \in Jobs, CallerNext(j)
      PROVE  StoreTypeOK'
  BY <1>1, CallerStoreType
<1>2. ASSUME NEW w \in Workers, NEW j \in Jobs, Adopt(w, j) \/ Claim(w, j)
      PROVE  StoreTypeOK'
  <2>1. CASE Adopt(w, j)
    BY <2>1 DEF Adopt, AdoptScript, StoreTypeOK
  <2>2. CASE Claim(w, j)
    <3>1. ClaimScript(j, nextTok) /\ nextTok \in Nat
      BY <2>2 DEF Claim, StoreTypeOK
    <3>2. /\ queue' \in Seq(Jobs) /\ dead' \subseteq Jobs
          /\ inflight' \in [Jobs -> Nat \union {NotLeased}]
          /\ claims' \in [Jobs -> Nat]
      BY <3>1, ClaimType
    <3>3. payloads' = payloads
      BY <3>1 DEF ClaimScript
    <3> QED
      BY <2>2, <3>1, <3>2, <3>3 DEF Claim, StoreTypeOK
  <2> QED
    BY <1>2, <2>1, <2>2
<1>3. ASSUME NEW w \in Workers, LocalStep(w)
      PROVE  StoreTypeOK'
  BY <1>3 DEF LocalStep, Start, Stop, Crash, Scan, RunScan, ReadOrphan, ReadAs, LockBusy,
              Run, Finish, RefresherDies, SkipOrphan, StoreTypeOK
<1>4. ASSUME NEW w \in Workers,
             \/ TakeLock(w) \/ LockFault(w) \/ Release(w) \/ ReleaseFault(w)
             \/ RenewLock(w) \/ RenewLease(w)
      PROVE  StoreTypeOK'
  <2>1. tok[w] \in Nat
    BY DEF ProcessTypeOK, LocalsTypeOK
  <2>2. CASE TakeLock(w) \/ LockFault(w) \/ Release(w) \/ ReleaseFault(w) \/ RenewLock(w)
    <3>1. CASE TakeLock(w) \/ LockFault(w)
      BY <2>1, <3>1, TTLAssumption DEF TakeLock, LockFault, SetLock, StoreTypeOK
    <3>2. CASE Release(w) \/ ReleaseFault(w)
      BY <3>2 DEF Release, ReleaseFault, DropLock, StoreTypeOK
    <3>3. CASE RenewLock(w)
      BY <3>3, TTLAssumption DEF RenewLock, RenewLockScript, StoreTypeOK
    <3> QED
      BY <2>2, <3>1, <3>2, <3>3
  <2>3. CASE RenewLease(w)
    <3>1. inflight' \in [Jobs -> Nat \union {NotLeased}]
      BY <2>3 DEF RenewLease, RenewLeaseScript, StoreTypeOK
    <3>2. UNCHANGED <<now, queue, payloads, claims, dead, pending, pendingUntil,
                      lock, lockUntil, nextTok>>
      BY <2>3 DEF RenewLease, RenewLeaseScript
    <3> QED
      BY <3>1, <3>2 DEF StoreTypeOK
  <2> QED
    BY <1>4, <2>2, <2>3
<1>5. ASSUME NEW w \in Workers, Ack(w) \/ AckFault(w) \/ Requeue(w) \/ DeadLetter(w)
      PROVE  StoreTypeOK'
  <2>1. job[w] \in Jobs /\ att[w] \in Nat
    BY <1>5 DEF Ack, AckFault, Requeue, RequeueWith, DeadLetter, BusyWithAJob, Handling,
                ProcessTypeOK, LocalsTypeOK
  <2>2. CASE AckScript(job[w], tok[w]) /\ (Ack(w) \/ AckFault(w))
    BY <2>1, <2>2
    DEF Ack, AckFault, AckScript, RemoveJob, EndLease, DropPending, StoreTypeOK
  <2>3. CASE UNCHANGED <<jobKeys, pendingKey>>
    BY <1>5, <2>3 DEF Ack, AckFault, Requeue, RequeueWith, DeadLetter, StoreTypeOK
  <2>4. CASE Requeue(w) /\ \E c \in RequeueCutoffs(w) :
                              RequeueScript(job[w], tok[w], att[w] + 1, c)
    <3>1. queue' \in Seq(Jobs)
      BY <2>1, <2>4 DEF RequeueScript, StoreTypeOK
    <3> QED
      BY <2>1, <2>4, <3>1 DEF Requeue, RequeueWith, RequeueScript, EndLease, StoreTypeOK
  <2>5. CASE DeadLetter(w) /\ DeadScript(job[w], tok[w], BuryCutoff(w))
    BY <2>1, <2>5 DEF DeadLetter, DeadScript, RemoveJob, EndLease, DropPending, StoreTypeOK
  <2> QED
    BY <1>5, <2>2, <2>3, <2>4, <2>5 DEF Ack, AckFault, Requeue, RequeueWith, DeadLetter
<1>6. ASSUME NEW s \in strays, StrayLock(s) \/ StrayLease(s)
      PROVE  StoreTypeOK'
  <2>1. CASE StrayLock(s)
    BY <2>1, TTLAssumption DEF StrayLock, RenewLockScript, StoreTypeOK
  <2>2. CASE StrayLease(s)
    <3>1. s.job \in Jobs
      BY DEF ProcessTypeOK
    <3> QED
      BY <2>2, <3>1 DEF StrayLease, RenewLeaseScript, StoreTypeOK
  <2> QED
    BY <1>6, <2>1, <2>2
<1>7. CASE Tick
  BY <1>7 DEF Tick, Advance, StoreTypeOK
<1> QED
  BY <1>1, <1>2, <1>3, <1>4, <1>5, <1>6, <1>7, NextCases

LEMMA HistoryType ==
  ASSUME TypeInv, Next
  PROVE  HistoryTypeOK'
<1> USE DEF TypeInv, TypeOK, HistoryTypeOK, storeVars, history
<1>1. ASSUME NEW j \in Jobs, CallerNext(j)
      PROVE  HistoryTypeOK'
  BY <1>1 DEF CallerNext, CallStep, Reserve, Refuse, ReserveFault, Push, PushFault, Undo,
              CallerDies, StoreTypeOK
<1>2. ASSUME NEW w \in Workers, NEW j \in Jobs, Adopt(w, j) \/ Claim(w, j)
      PROVE  HistoryTypeOK'
  BY <1>2 DEF Adopt, Claim
<1>3. ASSUME NEW w \in Workers, LocalStep(w)
      PROVE  HistoryTypeOK'
  BY <1>3 DEF LocalStep, Start, Stop, Crash, Scan, RunScan, ReadOrphan, ReadAs, LockBusy,
              Run, Finish, RefresherDies, SkipOrphan
<1>4. ASSUME NEW w \in Workers,
             \/ TakeLock(w) \/ LockFault(w) \/ Release(w) \/ ReleaseFault(w)
             \/ RenewLock(w) \/ RenewLease(w)
      PROVE  HistoryTypeOK'
  BY <1>4 DEF TakeLock, LockFault, Release, ReleaseFault, RenewLock, RenewLease
<1>5. ASSUME NEW w \in Workers, Ack(w) \/ AckFault(w) \/ Requeue(w) \/ DeadLetter(w)
      PROVE  HistoryTypeOK'
  <2>1. job[w] \in Jobs
    BY <1>5 DEF Ack, AckFault, Requeue, RequeueWith, DeadLetter, BusyWithAJob, Handling
  <2> QED
    BY <1>5, <2>1 DEF Ack, AckFault, Requeue, RequeueWith, DeadLetter
<1>6. ASSUME NEW s \in strays, StrayLock(s) \/ StrayLease(s)
      PROVE  HistoryTypeOK'
  BY <1>6 DEF StrayLock, StrayLease
<1>7. CASE Tick
  BY <1>7 DEF Tick
<1> QED
  BY <1>1, <1>2, <1>3, <1>4, <1>5, <1>6, <1>7, NextCases

\* What the moves of a worker that concern its locals only leave in them.
LEMMA LocalsType ==
  ASSUME now \in Nat, LocalsTypeOK, NEW w \in Workers,
         \/ \E to \in {"down", "idle"} : Forget(w, to)
         \/ \E rest \in SUBSET Jobs : NextOrphan(w, rest)
         \/ \E o \in Outs : Conclude(w, o)
  PROVE  LocalsTypeOK'
<1> USE DEF LocalsTypeOK, Pcs, Refs, Outs, NoClaim, NoRun, NoCutoff
<1>1. ASSUME NEW to \in {"down", "idle"}, Forget(w, to)
      PROVE  LocalsTypeOK'
  BY <1>1 DEF Forget
<1>2. ASSUME NEW rest \in SUBSET Jobs, NextOrphan(w, rest)
      PROVE  LocalsTypeOK'
  BY <1>2 DEF NextOrphan, runVars
<1>3. ASSUME NEW o \in Outs, Conclude(w, o)
      PROVE  LocalsTypeOK'
  BY <1>3 DEF Conclude, claimVars
<1> QED
  BY <1>1, <1>2, <1>3

LEMMA ProcessType ==
  ASSUME TypeInv, Next
  PROVE  ProcessTypeOK'
<1> USE DEF ProcessTypeOK, Fault
<1>0. now \in Nat /\ nextTok \in Nat /\ LocalsTypeOK
  BY DEF TypeInv, TypeOK, StoreTypeOK
<1>1. ASSUME NEW j \in Jobs, CallerNext(j)
      PROVE  ProcessTypeOK'
  BY <1>1 DEF CallerNext, CallStep, Reserve, Refuse, ReserveFault, Push, PushFault, Undo,
              CallerDies, workerVars, TypeInv, TypeOK, LocalsTypeOK, Calls
<1>2. ASSUME NEW w \in Workers, NEW j \in Jobs, Adopt(w, j) \/ Claim(w, j)
      PROVE  ProcessTypeOK'
  <2>1. claims' \in [Jobs -> Nat] /\ payloads \in [Jobs -> Nat \union {NoPayload, BadPayload}]
    <3>1. StoreTypeOK'
      BY <1>2, StoreType DEF Next, WorkerStep
    <3> QED
      BY <3>1 DEF StoreTypeOK, TypeInv, TypeOK
  <2>2. call' = call /\ strays' = strays /\ faults' = faults
    BY <1>2 DEF Adopt, Claim
  <2>3. ASSUME Adopt(w, j)
        PROVE  LocalsTypeOK'
    <3>1. todo[w] \ {j} \in SUBSET Jobs
      BY <1>0 DEF LocalsTypeOK
    <3>2. todo' \in [Workers -> SUBSET Jobs]
      BY <1>0, <2>3, <3>1 DEF Adopt, LocalsTypeOK
    <3>3. claims'[j] \in Nat
      BY <2>1
    <3>4. tok' \in [Workers -> Nat]
      BY <1>0, <2>3, <3>3 DEF Adopt, LocalsTypeOK
    <3>5. pc' \in [Workers -> Pcs] /\ job' \in [Workers -> Jobs \union {NoJob}]
      BY <1>0, <2>3 DEF Adopt, LocalsTypeOK, Pcs
    <3>6. UNCHANGED <<att, out, cutoff, deadline, ref, due>>
      BY <2>3 DEF Adopt, runVars
    <3> QED
      BY <1>0, <3>2, <3>4, <3>5, <3>6 DEF LocalsTypeOK
  <2>4. ASSUME Claim(w, j)
        PROVE  LocalsTypeOK'
    <3>1. att' \in [Workers -> Nat]
      BY <1>0, <2>1, <2>4 DEF Claim, LocalsTypeOK, NoPayload, BadPayload
    <3>2. pc' \in [Workers -> Pcs] /\ out' \in [Workers -> Outs]
      BY <1>0, <2>4 DEF Claim, LocalsTypeOK, Pcs, Outs
    <3>3. job' \in [Workers -> Jobs \union {NoJob}] /\ tok' \in [Workers -> Nat]
      BY <1>0, <2>4 DEF Claim, LocalsTypeOK
    <3>4. UNCHANGED <<cutoff, todo, deadline, ref, due>>
      BY <2>4 DEF Claim, scanVars, runVars
    <3> QED
      BY <1>0, <3>1, <3>2, <3>3, <3>4 DEF LocalsTypeOK
  <2>5. LocalsTypeOK'
    BY <1>2, <2>3, <2>4
  <2> QED
    BY <2>2, <2>5 DEF TypeInv, TypeOK
<1>3. ASSUME NEW w \in Workers, LocalStep(w)
      PROVE  ProcessTypeOK'
  <2>1. ASSUME Start(w) \/ RefresherDies(w)
        PROVE  LocalsTypeOK'
    BY <1>0, <2>1 DEF Start, RefresherDies, claimVars, scanVars, runVars, LocalsTypeOK, Pcs, Refs
  <2>2. ASSUME Stop(w) \/ Crash(w)
        PROVE  LocalsTypeOK'
    BY <1>0, <2>2, LocalsType DEF Stop, Crash
  <2>3. ASSUME Scan(w)
        PROVE  LocalsTypeOK'
    <3>1. Expired(now - LeaseTTL) \in SUBSET Jobs
      BY DEF Expired
    <3>2. now - LeaseTTL \in Int
      BY <1>0, TTLAssumption
    <3> QED
      BY <1>0, <2>3, <3>1, <3>2
      DEF Scan, RunScan, claimVars, runVars, LocalsTypeOK, Pcs, NoCutoff
  <2>4. ASSUME ReadOrphan(w)
        PROVE  LocalsTypeOK'
    <3>1. job[w] \in Jobs
      BY <2>4 DEF ReadOrphan, ReadAs, BusyWithAJob, Handling, TypeInv
    <3>2. payloads[job[w]] \in Nat \union {-1, -2}
      BY <3>1 DEF TypeInv, TypeOK, StoreTypeOK, NoPayload, BadPayload
    <3>3. payloads[job[w]] >= 0 => payloads[job[w]] \in Nat
      BY <3>2
    <3> QED
      BY <1>0, <2>4, <3>3 DEF ReadOrphan, ReadAs, scanVars, runVars, LocalsTypeOK, Pcs, Outs
  <2>5. ASSUME LockBusy(w)
        PROVE  LocalsTypeOK'
    BY <1>0, <2>5, LocalsType DEF LockBusy, Outs
  <2>6. ASSUME Run(w)
        PROVE  LocalsTypeOK'
    BY <1>0, <2>6 DEF Run, Finish, NoRun, claimVars, scanVars, LocalsTypeOK, Pcs, Refs
  <2>7. ASSUME NEW j \in Jobs, SkipOrphan(w, j)
        PROVE  LocalsTypeOK'
    <3>1. todo[w] \ {j} \in SUBSET Jobs
      BY <1>0 DEF LocalsTypeOK
    <3> QED
      BY <1>0, <2>7, <3>1, LocalsType DEF SkipOrphan
  <2>8. LocalsTypeOK'
    BY <1>3, <2>1, <2>2, <2>3, <2>4, <2>5, <2>6, <2>7 DEF LocalStep
  <2>9. strays' \subseteq [job : Jobs, tok : Nat, ref : {"wait", "lease"}]
    <3>1. CASE UNCHANGED strays
      BY <3>1 DEF TypeInv, TypeOK
    <3>2. CASE /\ pc[w] = "running" /\ Awake(w)
               /\ strays' = strays \union {[job |-> job[w], tok |-> tok[w], ref |-> ref[w]]}
      <4>1. job[w] \in Jobs /\ tok[w] \in Nat /\ ref[w] \in {"wait", "lease"}
        BY <1>0, <3>2 DEF Awake, TypeInv, BusyWithAJob, Handling, LocalsTypeOK
      <4> QED
        BY <3>2, <4>1 DEF TypeInv, TypeOK
    <3> QED
      BY <1>3, <3>1, <3>2 DEF LocalStep, Start, Stop, Crash, Scan, RunScan, ReadOrphan, ReadAs,
                              LockBusy, Run, Finish, RefresherDies, SkipOrphan
  <2>10. call' = call /\ (faults' = faults \/ Fault)
    BY <1>3 DEF LocalStep, Start, Stop, Crash, Scan, RunScan, ReadOrphan, ReadAs, LockBusy,
                Run, Finish, RefresherDies, SkipOrphan
  <2> QED
    BY <2>8, <2>9, <2>10 DEF TypeInv, TypeOK
<1>4. ASSUME NEW w \in Workers, TakeLock(w) \/ RenewLock(w) \/ RenewLease(w)
      PROVE  ProcessTypeOK'
  BY <1>0, <1>4, RunAssumption
  DEF TakeLock, RenewLock, RenewLease, claimVars, scanVars, LocalsTypeOK, Pcs, Refs, TypeInv, TypeOK
<1>5. ASSUME NEW w \in Workers,
             \/ LockFault(w) \/ Release(w) \/ ReleaseFault(w)
             \/ Ack(w) \/ AckFault(w) \/ Requeue(w) \/ DeadLetter(w)
      PROVE  ProcessTypeOK'
  <2>1. out[w] \in Outs /\ todo[w] \in SUBSET Jobs
    BY <1>0 DEF LocalsTypeOK
  <2>2. (\E o \in Outs : Conclude(w, o)) \/ MoveOn(w)
    BY <1>5, <2>1 DEF LockFault, Release, ReleaseFault, Ack, AckFault, Requeue, RequeueWith,
                      DeadLetter, Outs
  <2>3. LocalsTypeOK'
    BY <1>0, <2>1, <2>2, LocalsType DEF MoveOn
  <2> QED
    BY <1>5, <2>3 DEF LockFault, Release, ReleaseFault, Ack, AckFault, Requeue, RequeueWith,
                      DeadLetter, TypeInv, TypeOK
<1>6. ASSUME NEW s \in strays, StrayLock(s) \/ StrayLease(s)
      PROVE  ProcessTypeOK'
  <2>1. s \in [job : Jobs, tok : Nat, ref : {"wait", "lease"}]
    BY DEF TypeInv, TypeOK
  <2>2. [s EXCEPT !.ref = "lease"] \in [job : Jobs, tok : Nat, ref : {"wait", "lease"}]
    BY <2>1
  <2> QED
    BY <1>0, <1>6, <2>2 DEF StrayLock, StrayLease, workerVars, LocalsTypeOK, TypeInv, TypeOK
<1>7. CASE Tick
  BY <1>0, <1>7 DEF Tick, workerVars, LocalsTypeOK, TypeInv, TypeOK
<1> QED
  BY <1>1, <1>2, <1>3, <1>4, <1>5, <1>6, <1>7, NextCases

LEMMA BusyStep ==
  ASSUME TypeInv, Next
  PROVE  BusyWithAJob'
<1> USE DEF BusyWithAJob, Handling, TypeInv, workerVars, claimVars
<1>0. pc \in [Workers -> Pcs] /\ job \in [Workers -> Jobs \union {NoJob}]
  BY DEF TypeOK, ProcessTypeOK, LocalsTypeOK
<1>1. ASSUME NEW j \in Jobs, CallerNext(j)
      PROVE  BusyWithAJob'
  BY <1>1 DEF CallerNext, CallStep, Reserve, Refuse, ReserveFault, Push, PushFault, Undo,
              CallerDies
<1>2. ASSUME NEW w \in Workers, NEW j \in Jobs, Adopt(w, j) \/ Claim(w, j)
      PROVE  BusyWithAJob'
  BY <1>0, <1>2 DEF Adopt, Claim
<1>3. ASSUME NEW w \in Workers, LocalStep(w)
      PROVE  BusyWithAJob'
  BY <1>0, <1>3
  DEF LocalStep, Start, Stop, Crash, Forget, NoClaim, Scan, RunScan, ReadOrphan, ReadAs,
      LockBusy, Conclude, Run, Finish, RefresherDies, SkipOrphan, NextOrphan
<1>4. ASSUME NEW w \in Workers,
             \/ TakeLock(w) \/ LockFault(w) \/ Release(w) \/ ReleaseFault(w)
             \/ RenewLock(w) \/ RenewLease(w)
      PROVE  BusyWithAJob'
  BY <1>0, <1>4
  DEF TakeLock, LockFault, Release, ReleaseFault, RenewLock, RenewLease, Conclude
<1>5. ASSUME NEW w \in Workers, Ack(w) \/ AckFault(w) \/ Requeue(w) \/ DeadLetter(w)
      PROVE  BusyWithAJob'
  BY <1>0, <1>5
  DEF Ack, AckFault, Requeue, RequeueWith, DeadLetter, MoveOn, NextOrphan, Forget, NoClaim,
      Conclude
<1>6. ASSUME NEW s \in strays, StrayLock(s) \/ StrayLease(s)
      PROVE  BusyWithAJob'
  BY <1>6 DEF StrayLock, StrayLease
<1>7. CASE Tick
  BY <1>7 DEF Tick
<1> QED
  BY <1>1, <1>2, <1>3, <1>4, <1>5, <1>6, <1>7, NextCases

LEMMA TypeStep == TypeInv /\ [Next]_vars => TypeInv'
<1>1. CASE TypeInv /\ Next
  BY <1>1, StoreType, HistoryType, ProcessType, BusyStep DEF TypeInv, TypeOK
<1>2. CASE TypeInv /\ UNCHANGED vars
  BY <1>2 DEF vars, storeVars, workerVars, TypeInv, TypeOK, StoreTypeOK, HistoryTypeOK,
              ProcessTypeOK, LocalsTypeOK, BusyWithAJob
<1> QED
  BY <1>1, <1>2

\* The variables of the queue and its processes hold values of their types, and
\* a worker that handles a job has one: no script is called without an id
\* (jobs.py:26-101, 205-288).
THEOREM TypeCorrect == Spec => [](TypeOK /\ BusyWithAJob)
<1>1. TypeInv => TypeOK /\ BusyWithAJob
  BY DEF TypeInv
<1> QED
  BY <1>1, InitType, TypeStep, PTL DEF Spec

-----------------------------------------------------------------------------
(* One analysis at a time.  The lock cannot expire under a run as long as  *)
(* the longest run is shorter than the lock's time to live, whoever renews *)
(* it or does not.  What has to be shown is that nobody else deletes it:   *)
(* only the run that took it knows its token.                              *)

\* The states in which the token of a worker is the one its own claim made.
Owning == {"claimed", "running", "release", "settle"}

TokensAreOwned ==
    /\ \A w \in Workers : pc[w] \in Owning => 0 < tok[w] /\ tok[w] < nextTok
    /\ \A v, w \in Workers :
        (pc[v] \in Owning /\ pc[w] \in Owning /\ tok[v] = tok[w]) => v = w

RunsHoldTheLock ==
    \A w \in Running : /\ lock = tok[w]
                       /\ now <= deadline[w] /\ deadline[w] <= now + RunMax
                       /\ deadline[w] < lockUntil

LockInv == TypeInv /\ TokensAreOwned /\ RunsHoldTheLock

LEMMA TokensStep ==
  ASSUME TypeInv, TokensAreOwned, Next
  PROVE  TokensAreOwned'
<1> USE DEF TokensAreOwned, Owning, storeVars, workerVars, claimVars
<1>0. /\ pc \in [Workers -> Pcs] /\ tok \in [Workers -> Nat]
      /\ nextTok \in Nat \ {0}
  BY DEF TypeInv, TypeOK, ProcessTypeOK, LocalsTypeOK, StoreTypeOK
<1>1. ASSUME NEW j \in Jobs, CallerNext(j)
      PROVE  TokensAreOwned'
  BY <1>1 DEF CallerNext, CallStep, Reserve, Refuse, ReserveFault, Push, PushFault, Undo,
              CallerDies
<1>2. ASSUME NEW w \in Workers, NEW j \in Jobs, Adopt(w, j)
      PROVE  TokensAreOwned'
  <2>1. nextTok' = nextTok \/ nextTok' = nextTok + 1
    BY <1>2 DEF Adopt
  <2>2. \A v \in Workers : pc'[v] \in Owning => v # w /\ pc[v] = pc'[v] /\ tok'[v] = tok[v]
    BY <1>0, <1>2 DEF Adopt
  <2> QED
    BY <1>0, <2>1, <2>2
<1>3. ASSUME NEW w \in Workers, NEW j \in Jobs, Claim(w, j)
      PROVE  TokensAreOwned'
  <2>1. nextTok' = nextTok + 1 /\ tok'[w] = nextTok
    BY <1>0, <1>3 DEF Claim
  <2>2. \A v \in Workers : v # w => pc[v] = pc'[v] /\ tok'[v] = tok[v]
    BY <1>0, <1>3 DEF Claim
  <2> QED
    BY <1>0, <2>1, <2>2
<1>4. ASSUME NEW w \in Workers, LocalStep(w)
      PROVE  TokensAreOwned'
  <2>1. nextTok' = nextTok
    BY <1>4 DEF LocalStep, Start, Stop, Crash, Scan, RunScan, ReadOrphan, ReadAs, LockBusy,
                Run, Finish, RefresherDies, SkipOrphan
  <2>2. \A v \in Workers : pc'[v] \in Owning => pc[v] \in Owning /\ tok'[v] = tok[v]
    BY <1>0, <1>4
    DEF LocalStep, Start, Stop, Crash, Forget, NoClaim, Scan, RunScan, ReadOrphan, ReadAs,
        LockBusy, Conclude, Run, Finish, RefresherDies, SkipOrphan, NextOrphan
  <2> QED
    BY <2>1, <2>2
<1>5. ASSUME NEW w \in Workers,
             \/ TakeLock(w) \/ LockFault(w) \/ Release(w) \/ ReleaseFault(w)
             \/ RenewLock(w) \/ RenewLease(w)
      PROVE  TokensAreOwned'
  BY <1>0, <1>5
  DEF TakeLock, LockFault, Release, ReleaseFault, RenewLock, RenewLease, Conclude
<1>6. ASSUME NEW w \in Workers, Ack(w) \/ AckFault(w) \/ Requeue(w) \/ DeadLetter(w)
      PROVE  TokensAreOwned'
  <2>1. nextTok' = nextTok
    BY <1>6 DEF Ack, AckFault, Requeue, RequeueWith, DeadLetter
  <2>2. \A v \in Workers : pc'[v] \in Owning => pc[v] \in Owning /\ tok'[v] = tok[v]
    BY <1>0, <1>6
    DEF Ack, AckFault, Requeue, RequeueWith, DeadLetter, MoveOn, NextOrphan, Forget, NoClaim,
        Conclude
  <2> QED
    BY <2>1, <2>2
<1>7. ASSUME NEW s \in strays, StrayLock(s) \/ StrayLease(s)
      PROVE  TokensAreOwned'
  BY <1>7 DEF StrayLock, StrayLease
<1>8. CASE Tick
  BY <1>8 DEF Tick
<1> QED
  BY <1>1, <1>2, <1>3, <1>4, <1>5, <1>6, <1>7, <1>8, NextCases

LEMMA LockStep ==
  ASSUME RunMax < LockTTL, TypeInv, TokensAreOwned, RunsHoldTheLock, Next
  PROVE  RunsHoldTheLock'
<1> USE DEF RunsHoldTheLock, Running, storeVars, workerVars, claimVars, lockKey
<1>0. /\ pc \in [Workers -> Pcs] /\ tok \in [Workers -> Nat]
      /\ deadline \in [Workers -> Nat]
      /\ now \in Nat /\ lock \in Nat /\ lockUntil \in Nat
  BY DEF TypeInv, TypeOK, ProcessTypeOK, LocalsTypeOK, StoreTypeOK
<1>1. RunMax \in Nat /\ LockTTL \in Nat
  BY RunAssumption, TTLAssumption
\* A step that leaves lock and clock alone and lets nobody start a run.
<1>2. ASSUME UNCHANGED <<now, lock, lockUntil>>,
             \A v \in Workers : pc'[v] = "running" =>
                 pc[v] = "running" /\ tok'[v] = tok[v] /\ deadline'[v] = deadline[v]
      PROVE  RunsHoldTheLock'
  BY <1>2
<1>3. ASSUME NEW j \in Jobs, CallerNext(j)
      PROVE  RunsHoldTheLock'
  BY <1>3 DEF CallerNext, CallStep, Reserve, Refuse, ReserveFault, Push, PushFault, Undo,
              CallerDies
<1>4. ASSUME NEW w \in Workers, NEW j \in Jobs, Adopt(w, j) \/ Claim(w, j)
      PROVE  RunsHoldTheLock'
  BY <1>0, <1>2, <1>4 DEF Adopt, Claim, runVars
<1>5. ASSUME NEW w \in Workers, LocalStep(w)
      PROVE  RunsHoldTheLock'
  BY <1>0, <1>2, <1>5
  DEF LocalStep, Start, Stop, Crash, Forget, NoClaim, NoRun, Scan, RunScan, ReadOrphan, ReadAs,
      LockBusy, Conclude, Run, Finish, RefresherDies, SkipOrphan, NextOrphan, runVars
<1>6. ASSUME NEW w \in Workers, TakeLock(w)
      PROVE  RunsHoldTheLock'
  <2>1. \A v \in Workers : pc[v] # "running"
    BY <1>0, <1>6 DEF TakeLock, SetLock, TokensAreOwned, Owning
  <2> QED
    BY <1>0, <1>1, <1>6, <2>1 DEF TakeLock, SetLock
<1>7. ASSUME NEW w \in Workers, LockFault(w)
      PROVE  RunsHoldTheLock'
  <2>1. CASE UNCHANGED lockKey
    BY <1>0, <1>2, <1>7, <2>1 DEF LockFault, Conclude, NoRun
  <2>2. CASE SetLock(tok[w])
    <3>1. \A v \in Workers : pc[v] # "running"
      BY <1>0, <2>2 DEF SetLock, TokensAreOwned, Owning
    <3> QED
      BY <1>0, <1>7, <3>1 DEF LockFault, Conclude
  <2> QED
    BY <1>7, <2>1, <2>2 DEF LockFault
<1>8. ASSUME NEW w \in Workers, Release(w) \/ ReleaseFault(w)
      PROVE  RunsHoldTheLock'
  <2>1. \A v \in Workers : pc[v] = "running" => v # w /\ tok[v] # tok[w]
    BY <1>8 DEF Release, ReleaseFault, TokensAreOwned, Owning
  <2>2. \A v \in Workers : pc'[v] = "running" =>
           pc[v] = "running" /\ tok'[v] = tok[v] /\ deadline'[v] = deadline[v]
    BY <1>0, <1>8 DEF Release, ReleaseFault, Conclude, NoRun
  <2>3. CASE \A v \in Workers : pc[v] # "running"
    BY <2>2, <2>3
  <2>4. CASE \E v \in Workers : pc[v] = "running"
    <3>1. lock # tok[w]
      BY <2>1, <2>4
    <3>2. UNCHANGED <<now, lock, lockUntil>>
      BY <1>8, <3>1 DEF Release, ReleaseFault, DropLock
    <3> QED
      BY <1>2, <2>2, <3>2
  <2> QED
    BY <2>3, <2>4
<1>9. ASSUME NEW t, lock = t, RenewLockScript(t), UNCHANGED <<now, pc, tok, deadline>>
      PROVE  RunsHoldTheLock'
  BY <1>0, <1>1, <1>9 DEF RenewLockScript
<1>10. ASSUME NEW w \in Workers, RenewLock(w) \/ RenewLease(w)
       PROVE  RunsHoldTheLock'
  BY <1>2, <1>9, <1>10 DEF RenewLock, RenewLease, RenewLockScript
<1>11. ASSUME NEW w \in Workers, Ack(w) \/ AckFault(w) \/ Requeue(w) \/ DeadLetter(w)
       PROVE  RunsHoldTheLock'
  BY <1>0, <1>2, <1>11
  DEF Ack, AckFault, Requeue, RequeueWith, DeadLetter, MoveOn, NextOrphan, Forget, NoClaim,
      NoRun, Conclude, runVars
<1>12. ASSUME NEW s \in strays, StrayLock(s) \/ StrayLease(s)
       PROVE  RunsHoldTheLock'
  BY <1>2, <1>9, <1>12 DEF StrayLock, StrayLease, RenewLockScript
<1>13. CASE Tick
  <2>1. \A v \in Workers : pc[v] = "running" => now + 1 <= deadline[v]
    BY <1>0, <1>13 DEF Tick
  <2>2. now' = now + 1 /\ UNCHANGED <<pc, tok, deadline>>
    BY <1>13 DEF Tick, Advance
  <2>3. ASSUME NEW v \in Workers, pc[v] = "running"
        PROVE  UNCHANGED <<lock, lockUntil>>
    BY <1>0, <1>13, <2>1, <2>2, <2>3 DEF Tick, Advance
  <2> QED
    BY <1>0, <1>1, <2>1, <2>2, <2>3
<1> QED
  BY <1>3, <1>4, <1>5, <1>6, <1>7, <1>8, <1>10, <1>11, <1>12, <1>13, NextCases

\* At most one pipeline runs at a time, whatever dies, fails or outlives its
\* run, provided that a run is shorter than the lock's time to live: the
\* renewals are not needed for it (jobs.py:217-241, DEPLOYMENT.md:38-39).
THEOREM AtMostOneAnalysis ==
  ASSUME RunMax < LockTTL
  PROVE  Spec => []OneAnalysis
<1>1. Init => LockInv
  BY InitType DEF Init, LockInv, TokensAreOwned, Owning, RunsHoldTheLock, Running
<1>2. LockInv /\ [Next]_vars => LockInv'
  <2>1. CASE LockInv /\ Next
    BY <2>1, TypeStep, TokensStep, LockStep DEF LockInv
  <2>2. CASE LockInv /\ UNCHANGED vars
    BY <2>2, TypeStep
    DEF LockInv, TokensAreOwned, RunsHoldTheLock, Running, vars, storeVars, workerVars
  <2> QED
    BY <2>1, <2>2
<1>3. LockInv => OneAnalysis
  BY DEF LockInv, TokensAreOwned, Owning, RunsHoldTheLock, OneAnalysis, Running
<1> QED
  BY <1>1, <1>2, <1>3, PTL DEF Spec

-----------------------------------------------------------------------------
(* A job is in one place.  A script moves one job, which has to be queued  *)
(* or leased for it, so the only thing to know about the processes is that *)
(* a job not yet pushed is neither.                                        *)

\* A job whose call has not pushed it has left no trace, and only fresh jobs
\* have calls.
NotYetPushed ==
    \A j \in Jobs :
        /\ call[j] # "none" => j \in Fresh
        /\ (j \in Fresh /\ call[j] \in {"none", "reserved"}) => ~Active(j) /\ ~Settled(j)

PlaceInv == TypeInv /\ OnePlace /\ NotYetPushed

\* Job k is where it was.
Untouched(k) ==
    /\ Queued(k)' <=> Queued(k)
    /\ inflight'[k] = inflight[k] /\ payloads'[k] = payloads[k] /\ claims'[k] = claims[k]
    /\ k \in done' <=> k \in done
    /\ k \in dead' <=> k \in dead

\* The scripts add to the queue at either end and take from its head.
LEMMA AppendQueued ==
  ASSUME StoreTypeOK, QueuedOnce, NEW j \in Jobs, ~Queued(j), queue' = Append(queue, j)
  PROVE  QueuedOnce' /\ \A k \in Jobs : Queued(k)' <=> Queued(k) \/ k = j
<1>1. /\ Len(queue) \in Nat /\ Len(queue') = Len(queue) + 1
      /\ \A i \in 1..Len(queue) : queue'[i] = queue[i]
      /\ queue'[Len(queue) + 1] = j
  BY DEF StoreTypeOK
<1> QED
  BY <1>1 DEF QueuedOnce, Queued

LEMMA PrependQueued ==
  ASSUME StoreTypeOK, QueuedOnce, NEW j \in Jobs, ~Queued(j), queue' = <<j>> \o queue
  PROVE  QueuedOnce' /\ \A k \in Jobs : Queued(k)' <=> Queued(k) \/ k = j
<1>1. /\ Len(queue) \in Nat /\ Len(queue') = Len(queue) + 1
      /\ \A i \in 1..Len(queue) : queue'[i + 1] = queue[i]
      /\ queue'[1] = j
  BY DEF StoreTypeOK
<1>2. \A i \in 1..Len(queue') : i = 1 \/ (i - 1 \in 1..Len(queue) /\ queue'[i] = queue[i - 1])
  BY <1>1
<1>3. QueuedOnce'
  BY <1>1, <1>2 DEF QueuedOnce, Queued
<1>4. ASSUME NEW k \in Jobs
      PROVE  Queued(k)' <=> Queued(k) \/ k = j
  <2>1. ASSUME Queued(k)'
        PROVE  Queued(k) \/ k = j
    BY <1>1, <1>2, <2>1 DEF Queued
  <2>2. ASSUME Queued(k)
        PROVE  Queued(k)'
    <3>1. PICK i \in 1..Len(queue) : queue[i] = k
      BY <2>2 DEF Queued
    <3>2. i + 1 \in 1..Len(queue') /\ queue'[i + 1] = k
      BY <1>1, <3>1
    <3> QED
      BY <3>2 DEF Queued
  <2>3. 1 \in 1..Len(queue')
    BY <1>1
  <2>4. j = k => Queued(k)'
    BY <1>1, <2>3 DEF Queued
  <2> QED
    BY <2>1, <2>2, <2>4
<1> QED
  BY <1>3, <1>4

\* What follows the head of a sequence, position by position.
LEMMA WithoutHead ==
  ASSUME NEW S, NEW s \in Seq(S), Len(s) > 0
  PROVE  LET t == SubSeq(s, 2, Len(s))
         IN  Len(t) = Len(s) - 1 /\ \A i \in 1..(Len(s) - 1) : t[i] = s[i + 1]
<1> DEFINE n == Len(s)
           t == SubSeq(s, 2, Len(s))
<1>1. n \in Nat /\ n > 0
  BY LenProperties
<1>2. \A i \in 2..n : s[i] \in S
  BY <1>1, ElementOfSeq
<1>3. /\ Len(t) = IF 2 <= n THEN n - 2 + 1 ELSE 0
      /\ \A i \in 1..(n - 2 + 1) : t[i] = s[2 + i - 1]
  BY <1>1, <1>2, SubSeqProperties
<1> HIDE DEF n, t
<1>4. Len(t) = n - 1
  BY <1>1, <1>3
<1>5. ASSUME NEW i \in 1..(n - 1)
      PROVE  t[i] = s[i + 1]
  <2>1. i \in 1..(n - 2 + 1) /\ 2 + i - 1 = i + 1
    BY <1>1
  <2> QED
    BY <1>3, <2>1
<1> QED
  BY <1>4, <1>5 DEF n, t

LEMMA HeadClaimed ==
  ASSUME StoreTypeOK, QueuedOnce, Len(queue) > 0, queue' = SubSeq(queue, 2, Len(queue))
  PROVE  QueuedOnce' /\ \A k \in Jobs : Queued(k)' <=> Queued(k) /\ k # queue[1]
<1>1. queue \in Seq(Jobs) /\ Len(queue) \in Nat
  BY DEF StoreTypeOK
<1>2. Len(queue') = Len(queue) - 1 /\ \A i \in 1..(Len(queue) - 1) : queue'[i] = queue[i + 1]
  BY <1>1, WithoutHead
<1>3. \A i \in 1..Len(queue) : i = 1 \/ (i - 1 \in 1..Len(queue') /\ queue'[i - 1] = queue[i])
  BY <1>1, <1>2
<1>4. \A i \in 1..Len(queue') : i + 1 \in 1..Len(queue) /\ queue'[i] = queue[i + 1]
  BY <1>1, <1>2
<1>5. QueuedOnce'
  BY <1>1, <1>2, <1>4 DEF QueuedOnce
<1>6. ASSUME NEW k \in Jobs
      PROVE  Queued(k)' <=> Queued(k) /\ k # queue[1]
  <2>1. ASSUME NEW i \in 1..Len(queue'), queue'[i] = k
        PROVE  Queued(k) /\ k # queue[1]
    BY <1>1, <1>2, <1>4, <2>1 DEF QueuedOnce, Queued
  <2>2. ASSUME Queued(k), k # queue[1]
        PROVE  Queued(k)'
    BY <1>3, <2>2 DEF Queued
  <2> QED
    BY <2>1, <2>2 DEF Queued
<1> QED
  BY <1>5, <1>6

\* While every queued job has a payload claim-v1 takes the head of the queue
\* and buries nothing.
LEMMA ClaimTakesHead ==
  ASSUME TypeInv, OnePlace, NEW j \in Jobs, NEW t \in Nat, ClaimScript(j, t)
  PROVE  /\ Len(queue) > 0 /\ j = queue[1] /\ Queued(j)
         /\ queue' = SubSeq(queue, 2, Len(queue))
         /\ dead' = dead
<1>1. FirstLoaded \in 1..Len(queue) /\ Loaded # {}
  BY ClaimType DEF TypeInv, TypeOK, ClaimScript
<1>2. Len(queue) \in Nat /\ queue[1] \in Jobs /\ 1 \in 1..Len(queue)
  BY <1>1 DEF TypeInv, TypeOK, StoreTypeOK
<1>3. 1 \in Loaded
  BY <1>2 DEF OnePlace, InOnePlace, Active, Queued, Loaded
<1>4. FirstLoaded = 1
  BY <1>1, <1>3, FirstIsLoaded
<1> QED
  BY <1>2, <1>4 DEF ClaimScript, Queued

\* A step that moves one job, which was queued or leased, and no other.
LEMMA OneJobMoves ==
  ASSUME PlaceInv, call' = call, QueuedOnce', NEW j \in Jobs, Active(j), InOnePlace(j)',
         \A k \in Jobs \ {j} : Untouched(k)
  PROVE  OnePlace' /\ NotYetPushed'
<1>1. ASSUME NEW k \in Jobs \ {j}
      PROVE  InOnePlace(k)' /\ (Active(k)' <=> Active(k)) /\ (Settled(k)' <=> Settled(k))
  BY <1>1 DEF PlaceInv, OnePlace, InOnePlace, Untouched, Active, Settled, InFlight
<1> QED
  BY <1>1 DEF PlaceInv, OnePlace, NotYetPushed

LEMMA NoJobMoves ==
  ASSUME PlaceInv, call' = call, UNCHANGED <<queue, payloads, claims, dead, done>>,
         \A k \in Jobs : InFlight(k)' <=> InFlight(k)
  PROVE  OnePlace' /\ NotYetPushed'
  BY DEF PlaceInv, OnePlace, QueuedOnce, InOnePlace, NotYetPushed, Active, Settled, Queued

LEMMA CallerPlaces ==
  ASSUME PlaceInv, NEW j \in Jobs, CallerNext(j)
  PROVE  OnePlace' /\ NotYetPushed'
<1> USE DEF CallStep, workerVars
<1>1. call \in [Jobs -> Calls] /\ StoreTypeOK
  BY DEF PlaceInv, TypeInv, TypeOK, ProcessTypeOK
<1>2. CASE UNCHANGED <<queue, payloads>>
  <2>1. UNCHANGED <<queue, payloads, inflight, claims, dead, done>>
    BY <1>2 DEF CallerNext, Reserve, Refuse, ReserveFault, Push, PushFault, Undo, CallerDies
  <2>2. OnePlace'
    BY <2>1 DEF PlaceInv, OnePlace, QueuedOnce, InOnePlace, Active, Settled, Queued, InFlight
  <2>3. /\ j \in Fresh
        /\ call'[j] \in {"none", "reserved"} => call[j] = "none"
        /\ \A k \in Jobs \ {j} : call'[k] = call[k]
    BY <1>1 DEF PlaceInv, NotYetPushed, CallerNext, Reserve, Refuse, ReserveFault, Push,
                PushFault, Undo, CallerDies
  <2> QED
    BY <2>1, <2>2, <2>3 DEF PlaceInv, NotYetPushed, Active, Settled, Queued, InFlight
<1>3. CASE PushScript(j) /\ (Push(j) \/ PushFault(j))
  <2>1. call[j] = "reserved" /\ call'[j] \in {"ok", "undo"}
    BY <1>1, <1>3 DEF Push, PushFault
  <2>2. j \in Fresh /\ ~Active(j) /\ ~Settled(j)
    BY <2>1 DEF PlaceInv, NotYetPushed
  <2>3. QueuedOnce' /\ \A k \in Jobs : Queued(k)' <=> Queued(k) \/ k = j
    BY <1>1, <1>3, <2>2, AppendQueued DEF PushScript, Active, PlaceInv, OnePlace
  <2>4. \A k \in Jobs \ {j} : Untouched(k) /\ call'[k] = call[k]
    BY <1>1, <1>3, <2>3 DEF Push, PushFault, PushScript, Untouched, StoreTypeOK
  <2>5. InOnePlace(j)'
    BY <1>1, <1>3, <2>2, <2>3
    DEF Push, PushFault, PushScript, PlaceInv, OnePlace, InOnePlace, Active, Settled, InFlight,
        StoreTypeOK, NoPayload
  <2>6. ASSUME NEW k \in Jobs \ {j}
        PROVE  InOnePlace(k)' /\ (Active(k)' <=> Active(k)) /\ (Settled(k)' <=> Settled(k))
    BY <2>4, <2>6 DEF PlaceInv, OnePlace, InOnePlace, Untouched, Active, Settled, InFlight
  <2> QED
    BY <2>1, <2>2, <2>3, <2>4, <2>5, <2>6 DEF PlaceInv, OnePlace, NotYetPushed
<1> QED
  BY <1>2, <1>3 DEF CallerNext, Reserve, Refuse, ReserveFault, Push, PushFault, Undo, CallerDies

\* The three ways a claim ends, each of which needs the token of a leased job.
LEMMA ClaimEnds ==
  ASSUME PlaceInv, call' = call, NEW j \in Jobs, NEW t \in Nat, HoldsClaim(j, t),
         \/ /\ AckScript(j, t)
            /\ done' = done \union {j}
         \/ \E a \in Nat, c \in Int : RequeueScript(j, t, a, c) /\ done' = done
         \/ \E c \in Int : DeadScript(j, t, c) /\ done' = done
  PROVE  OnePlace' /\ NotYetPushed'
<1>1. StoreTypeOK /\ InFlight(j) /\ ~Queued(j) /\ ~Settled(j) /\ Active(j)
  BY DEF HoldsClaim, PlaceInv, TypeInv, TypeOK, OnePlace, InOnePlace, Active
<1>2. CASE UNCHANGED queue
  <2>1. /\ RemoveJob(j)
        /\ \/ done' = done \union {j} /\ dead' = dead
           \/ done' = done /\ dead' = dead \union {j}
    BY <1>1, <1>2 DEF AckScript, DeadScript, RequeueScript, Queued
  <2>2. InOnePlace(j)'
    BY <1>1, <1>2, <2>1
    DEF RemoveJob, EndLease, InOnePlace, Active, Settled, InFlight, Queued, StoreTypeOK
  <2>3. \A k \in Jobs \ {j} : Untouched(k)
    BY <1>1, <1>2, <2>1 DEF RemoveJob, EndLease, Untouched, Queued, StoreTypeOK
  <2> QED
    BY <1>1, <1>2, <2>2, <2>3, OneJobMoves DEF PlaceInv, OnePlace, QueuedOnce
<1>3. ASSUME NEW a \in Nat, NEW c \in Int, RequeueScript(j, t, a, c), done' = done
      PROVE  OnePlace' /\ NotYetPushed'
  <2>1. QueuedOnce' /\ \A k \in Jobs : Queued(k)' <=> Queued(k) \/ k = j
    BY <1>1, <1>3, PrependQueued DEF RequeueScript, PlaceInv, OnePlace
  <2>2. InOnePlace(j)'
    BY <1>1, <1>3, <2>1
    DEF RequeueScript, EndLease, InOnePlace, Active, Settled, InFlight, StoreTypeOK, NoPayload
  <2>3. \A k \in Jobs \ {j} : Untouched(k)
    BY <1>1, <1>3, <2>1 DEF RequeueScript, EndLease, Untouched, StoreTypeOK
  <2> QED
    BY <1>1, <2>1, <2>2, <2>3, OneJobMoves
<1> QED
  BY <1>2, <1>3 DEF AckScript, DeadScript

\* A renewal changes the time of a lease, not whether there is one.
LEMMA RenewalPlaces ==
  ASSUME PlaceInv, call' = call, done' = done, NEW j \in Jobs, NEW t, RenewLeaseScript(j, t)
  PROVE  OnePlace' /\ NotYetPushed'
<1>1. \A k \in Jobs : InFlight(k)' <=> InFlight(k)
  BY DEF RenewLeaseScript, InFlight, NotLeased, PlaceInv, TypeInv, TypeOK, StoreTypeOK
<1> QED
  BY <1>1, NoJobMoves DEF RenewLeaseScript

LEMMA PlaceStep ==
  ASSUME PlaceInv, Next
  PROVE  OnePlace' /\ NotYetPushed'
<1> USE DEF storeVars, jobKeys, history, InFlight
<1>1. ASSUME NEW j \in Jobs, CallerNext(j)
      PROVE  OnePlace' /\ NotYetPushed'
  BY <1>1, CallerPlaces
<1>2. ASSUME NEW w \in Workers, NEW j \in Jobs, Adopt(w, j)
      PROVE  OnePlace' /\ NotYetPushed'
  <2>1. InOnePlace(j)' /\ Active(j) /\ QueuedOnce' /\ \A k \in Jobs \ {j} : Untouched(k)
    BY <1>2 DEF Adopt, AdoptScript, CanAdopt, PlaceInv, TypeInv, TypeOK, StoreTypeOK, OnePlace,
                QueuedOnce, InOnePlace, Untouched, Active, Settled, Queued
  <2> QED
    BY <1>2, <2>1, OneJobMoves DEF Adopt
<1>3. ASSUME NEW w \in Workers, NEW j \in Jobs, Claim(w, j)
      PROVE  OnePlace' /\ NotYetPushed'
  <2>1. StoreTypeOK /\ nextTok \in Nat \ {0} /\ ClaimScript(j, nextTok)
    BY <1>3 DEF Claim, PlaceInv, TypeInv, TypeOK, StoreTypeOK
  <2>2. Len(queue) > 0 /\ j = queue[1] /\ Queued(j) /\ dead' = dead
        /\ queue' = SubSeq(queue, 2, Len(queue))
    BY <2>1, ClaimTakesHead DEF PlaceInv
  <2>3. QueuedOnce' /\ \A k \in Jobs : Queued(k)' <=> Queued(k) /\ k # j
    BY <2>1, <2>2, HeadClaimed DEF PlaceInv, OnePlace
  <2>4. done' = done /\ call' = call /\ payloads' = payloads
    BY <1>3 DEF Claim, ClaimScript
  <2>5. inflight'[j] = now /\ now \in Nat
    BY <2>1 DEF ClaimScript, StoreTypeOK
  <2>6. InOnePlace(j)' /\ Active(j)
    BY <2>2, <2>3, <2>4, <2>5 DEF InOnePlace, PlaceInv, OnePlace, Active, Settled, NotLeased
  <2>7. \A k \in Jobs \ {j} : Untouched(k)
    BY <2>1, <2>2, <2>3, <2>4 DEF ClaimScript, Untouched, StoreTypeOK
  <2> QED
    BY <2>3, <2>4, <2>6, <2>7, OneJobMoves
<1>4. ASSUME NEW w \in Workers, LocalStep(w)
      PROVE  OnePlace' /\ NotYetPushed'
  <2>1. UNCHANGED <<storeVars, call>>
    BY <1>4 DEF LocalStep, Start, Stop, Crash, Scan, RunScan, ReadOrphan, ReadAs, LockBusy,
                Run, Finish, RefresherDies, SkipOrphan
  <2> QED
    BY <2>1, NoJobMoves
<1>5. ASSUME NEW w \in Workers,
             \/ TakeLock(w) \/ LockFault(w) \/ Release(w) \/ ReleaseFault(w) \/ RenewLock(w)
      PROVE  OnePlace' /\ NotYetPushed'
  BY <1>5, NoJobMoves DEF TakeLock, LockFault, Release, ReleaseFault, RenewLock
<1>6. ASSUME NEW w \in Workers, RenewLease(w)
      PROVE  OnePlace' /\ NotYetPushed'
  <2>1. job[w] \in Jobs
    BY <1>6 DEF RenewLease, PlaceInv, TypeInv, BusyWithAJob, Handling
  <2> QED
    BY <1>6, <2>1, RenewalPlaces, NoJobMoves DEF RenewLease
<1>7. ASSUME NEW w \in Workers, Ack(w) \/ AckFault(w) \/ Requeue(w) \/ DeadLetter(w)
      PROVE  OnePlace' /\ NotYetPushed'
  <2>1. job[w] \in Jobs /\ tok[w] \in Nat /\ att[w] \in Nat /\ cutoff[w] \in Int /\ now \in Nat
    BY <1>7 DEF Ack, AckFault, Requeue, RequeueWith, DeadLetter, PlaceInv, TypeInv, BusyWithAJob,
                Handling, TypeOK, StoreTypeOK, ProcessTypeOK, LocalsTypeOK
  <2>2. call' = call
    BY <1>7 DEF Ack, AckFault, Requeue, RequeueWith, DeadLetter
  <2>3. CASE UNCHANGED <<jobKeys, done>>
    BY <2>2, <2>3, NoJobMoves
  <2>4. CASE AckScript(job[w], tok[w]) /\ done' = done \union {job[w]}
    BY <2>1, <2>2, <2>4, ClaimEnds DEF AckScript
  <2>5. CASE Requeue(w) /\ \E c \in RequeueCutoffs(w) :
                              RequeueScript(job[w], tok[w], att[w] + 1, c)
    <3>1. RequeueCutoffs(w) \subseteq Int /\ done' = done
      BY <2>1, <2>5 DEF RequeueCutoffs, Requeue, RequeueWith
    <3>2. PICK c \in Int : RequeueScript(job[w], tok[w], att[w] + 1, c)
      BY <2>5, <3>1
    <3>3. att[w] + 1 \in Nat /\ HoldsClaim(job[w], tok[w])
      BY <2>1, <3>2 DEF RequeueScript, CanRequeue
    <3> QED
      BY <2>1, <2>2, <3>1, <3>2, <3>3, ClaimEnds
  <2>6. CASE DeadLetter(w) /\ DeadScript(job[w], tok[w], BuryCutoff(w))
    <3>1. BuryCutoff(w) \in Int /\ done' = done /\ HoldsClaim(job[w], tok[w])
      BY <2>1, <2>6 DEF BuryCutoff, NoCutoff, DeadLetter, DeadScript, CanBury
    <3> QED
      BY <2>1, <2>2, <2>6, <3>1, ClaimEnds
  <2> QED
    BY <1>7, <2>3, <2>4, <2>5, <2>6 DEF Ack, AckFault, Requeue, RequeueWith, DeadLetter
<1>8. ASSUME NEW s \in strays, StrayLock(s) \/ StrayLease(s)
      PROVE  OnePlace' /\ NotYetPushed'
  <2>1. s.job \in Jobs
    BY DEF PlaceInv, TypeInv, TypeOK, ProcessTypeOK
  <2> QED
    BY <1>8, <2>1, RenewalPlaces, NoJobMoves DEF StrayLock, StrayLease
<1>9. CASE Tick
  BY <1>9, NoJobMoves DEF Tick
<1> QED
  BY <1>1, <1>2, <1>3, <1>4, <1>5, <1>6, <1>7, <1>8, <1>9, NextCases

LEMMA PlacesAtFirst == Init => OnePlace /\ NotYetPushed
<1> SUFFICES ASSUME Init
             PROVE  OnePlace /\ NotYetPushed
  OBVIOUS
<1> USE DEF Init, StoreInit
<1>1. \A j \in Jobs : Queued(j) <=> j \in Malformed \ Orphans
  BY LeftoverAssumption, JobsAssumption DEF Queued
<1>2. \A j \in Jobs : InFlight(j) <=> j \in Orphans
  BY DEF InFlight, NotLeased
<1>3. QueuedOnce
  BY LeftoverAssumption DEF QueuedOnce
<1>4. \A j \in Jobs : InOnePlace(j)
  BY <1>1, <1>2 DEF InOnePlace, Active, Settled, NoPayload, BadPayload
<1>5. NotYetPushed
  BY <1>1, <1>2 DEF NotYetPushed, Fresh, Active, Settled
<1> QED
  BY <1>3, <1>4, <1>5 DEF OnePlace

LEMMA PlaceInvariant == (Init => PlaceInv) /\ (PlaceInv /\ [Next]_vars => PlaceInv')
<1>1. Init => PlaceInv
  BY InitType, PlacesAtFirst DEF PlaceInv
<1>2. CASE PlaceInv /\ Next
  BY <1>1, <1>2, TypeStep, PlaceStep DEF PlaceInv
<1>3. CASE PlaceInv /\ UNCHANGED vars
  BY <1>1, <1>3, TypeStep, NoJobMoves DEF PlaceInv, vars, storeVars, InFlight
<1> QED
  BY <1>1, <1>2, <1>3

\* A job is never in two places, nor without a payload where it needs one,
\* whatever fails and whoever acts on an old claim (jobs.py:26-88).
THEOREM EveryJobInOnePlace == Spec => []OnePlace
<1>1. PlaceInv => OnePlace
  BY DEF PlaceInv
<1> QED
  BY <1>1, PlaceInvariant, PTL DEF Spec

-----------------------------------------------------------------------------
(* The steps by what they do to a job.                                     *)

Acks(w) ==
    /\ pc[w] = "settle" /\ out[w] = "ok"
    /\ AckScript(job[w], tok[w])
    /\ done' = done \union {job[w]}

GivesBack(w, c) ==
    /\ pc[w] \in {"decide", "settle"} /\ MayRetry(w)
    /\ RequeueScript(job[w], tok[w], att[w] + 1, c)
    /\ done' = done

Buries(w) ==
    /\ pc[w] \in {"decide", "settle"} /\ out[w] # "ok" /\ ~MayRetry(w)
    /\ DeadScript(job[w], tok[w], BuryCutoff(w))
    /\ done' = done

\* Worker w ends the lease of its job.
Ends(w) == Acks(w) \/ (\E c \in RequeueCutoffs(w) : GivesBack(w, c)) \/ Buries(w)

Pushes(j) == PushScript(j) /\ (Push(j) \/ PushFault(j))
Renews(j, t) == RenewLeaseScript(j, t)
JobsStay == UNCHANGED <<jobKeys, done, deliveries>>

LEMMA EndCases ==
  ASSUME NEW w \in Workers, Ack(w) \/ AckFault(w) \/ Requeue(w) \/ DeadLetter(w)
  PROVE  JobsStay \/ (Ends(w) /\ UNCHANGED <<deliveries, call>>)
<1> USE DEF JobsStay, Ends
<1>1. CASE Ack(w) \/ AckFault(w)
  BY <1>1 DEF Ack, AckFault, Acks, AckScript
<1>2. CASE Requeue(w)
  <2>1. PICK c \in RequeueCutoffs(w) :
          \/ RequeueScript(job[w], tok[w], att[w] + 1, c)
          \/ UNCHANGED <<jobKeys, pendingKey>>
    BY <1>2 DEF Requeue, RequeueWith
  <2> QED
    BY <1>2, <2>1 DEF Requeue, RequeueWith, GivesBack, history
<1>3. CASE DeadLetter(w)
  BY <1>3 DEF DeadLetter, Buries, history
<1> QED
  BY <1>1, <1>2, <1>3

\* Every step moves one job or none.
LEMMA JobCases ==
  ASSUME Next
  PROVE  \/ JobsStay
         \/ \E j \in Jobs : Pushes(j) /\ UNCHANGED <<done, deliveries>>
         \/ \E w \in Workers, j \in Jobs : Claim(w, j)
         \/ \E w \in Workers, j \in Jobs : Adopt(w, j)
         \/ \E j, t : Renews(j, t) /\ UNCHANGED <<done, deliveries, call>>
         \/ \E w \in Workers : Ends(w) /\ UNCHANGED <<deliveries, call>>
<1> USE DEF JobsStay, storeVars, jobKeys, history, Renews
<1>1. ASSUME NEW j \in Jobs, CallerNext(j)
      PROVE  JobsStay \/ (Pushes(j) /\ UNCHANGED <<done, deliveries>>)
  BY <1>1 DEF CallerNext, CallStep, Reserve, Refuse, ReserveFault, Push, PushFault, Undo,
              CallerDies, Pushes
<1>2. ASSUME NEW w \in Workers, LocalStep(w)
      PROVE  JobsStay
  BY <1>2 DEF LocalStep, Start, Stop, Crash, Scan, RunScan, ReadOrphan, ReadAs, LockBusy,
              Run, Finish, RefresherDies, SkipOrphan
<1>3. ASSUME NEW w \in Workers,
             \/ TakeLock(w) \/ LockFault(w) \/ Release(w) \/ ReleaseFault(w) \/ RenewLock(w)
      PROVE  JobsStay
  BY <1>3 DEF TakeLock, LockFault, Release, ReleaseFault, RenewLock
<1>4. ASSUME NEW w \in Workers, RenewLease(w)
      PROVE  JobsStay \/ \E j, t : Renews(j, t) /\ UNCHANGED <<done, deliveries, call>>
  BY <1>4 DEF RenewLease
<1>5. ASSUME NEW w \in Workers, Ack(w) \/ AckFault(w) \/ Requeue(w) \/ DeadLetter(w)
      PROVE  JobsStay \/ (Ends(w) /\ UNCHANGED <<deliveries, call>>)
  BY <1>5, EndCases
<1>6. ASSUME NEW s \in strays, StrayLock(s) \/ StrayLease(s)
      PROVE  JobsStay \/ \E j, t : Renews(j, t) /\ UNCHANGED <<done, deliveries, call>>
  BY <1>6 DEF StrayLock, StrayLease
<1>7. CASE Tick
  BY <1>7 DEF Tick
<1> QED
  BY <1>1, <1>2, <1>3, <1>4, <1>5, <1>6, <1>7, NextCases

\* What ending a lease does to its job: it leaves INFLIGHT with its token, to
\* be acknowledged, queued again or dead, and no other job is concerned.
LEMMA EndsMoves ==
  ASSUME PlaceInv, NEW w \in Workers, Ends(w), NEW j, j = job[w]
  PROVE  /\ j \in Jobs /\ HoldsClaim(j, tok[w]) /\ InFlight(j)
         /\ ~InFlight(j)' /\ claims'[j] = 0
         /\ \A k \in Jobs \ {j} : Untouched(k)
         /\ \/ /\ Acks(w)
               /\ payloads'[j] = NoPayload /\ ~Queued(j)'
               /\ j \in done' /\ dead' = dead
            \/ /\ MayRetry(w)
               /\ payloads'[j] = att[w] + 1 /\ Queued(j)'
               /\ done' = done /\ dead' = dead
            \/ /\ payloads'[j] = NoPayload /\ ~Queued(j)'
               /\ done' = done /\ j \in dead'
<1>1. j \in Jobs /\ StoreTypeOK
  BY DEF Ends, Acks, GivesBack, Buries, PlaceInv, TypeInv, TypeOK, BusyWithAJob, Handling
<1>2. HoldsClaim(j, tok[w]) /\ EndLease(j)
  BY DEF Ends, Acks, GivesBack, Buries, AckScript, RequeueScript, CanRequeue, DeadScript, CanBury,
         RemoveJob
<1>3. InFlight(j) /\ ~Queued(j) /\ ~Settled(j)
  BY <1>1, <1>2 DEF HoldsClaim, PlaceInv, OnePlace, InOnePlace, Active
<1>4. ~InFlight(j)' /\ claims'[j] = 0
      /\ \A k \in Jobs \ {j} : inflight'[k] = inflight[k] /\ claims'[k] = claims[k]
  BY <1>1, <1>2 DEF EndLease, InFlight, StoreTypeOK
<1>5. CASE Acks(w) \/ Buries(w)
  <2>1. RemoveJob(j) /\ UNCHANGED queue
        /\ \/ Acks(w) /\ done' = done \union {j} /\ dead' = dead
           \/ done' = done /\ dead' = dead \union {j}
    BY <1>5 DEF Acks, Buries, AckScript, DeadScript
  <2>2. ~Queued(j)' /\ payloads'[j] = NoPayload /\ \A k \in Jobs \ {j} : Untouched(k)
    BY <1>1, <1>3, <1>4, <2>1 DEF RemoveJob, Untouched, Queued, StoreTypeOK
  <2> QED
    BY <1>1, <1>2, <1>3, <1>4, <2>1, <2>2
<1>6. ASSUME NEW c \in RequeueCutoffs(w), GivesBack(w, c)
      PROVE  /\ MayRetry(w) /\ payloads'[j] = att[w] + 1 /\ Queued(j)'
             /\ done' = done /\ dead' = dead
             /\ \A k \in Jobs \ {j} : Untouched(k)
  <2>1. QueuedOnce' /\ \A k \in Jobs : Queued(k)' <=> Queued(k) \/ k = j
    BY <1>1, <1>3, <1>6, PrependQueued DEF GivesBack, RequeueScript, PlaceInv, OnePlace
  <2> QED
    BY <1>1, <1>4, <1>6, <2>1 DEF GivesBack, RequeueScript, Untouched, StoreTypeOK
<1> QED
  BY <1>1, <1>2, <1>3, <1>4, <1>5, <1>6 DEF Ends

\* What a claim does: the head of the queue becomes a lease with a new token.
LEMMA ClaimMoves ==
  ASSUME PlaceInv, NEW w \in Workers, NEW j \in Jobs, Claim(w, j)
  PROVE  /\ Queued(j) /\ ~InFlight(j) /\ ~Queued(j)' /\ InFlight(j)'
         /\ inflight'[j] = now /\ claims'[j] = nextTok /\ payloads'[j] = payloads[j]
         /\ \A k \in Jobs \ {j} : Untouched(k)
         /\ done' = done /\ dead' = dead /\ call' = call
         /\ deliveries' = [deliveries EXCEPT ![j] = @ + 1]
<1>1. StoreTypeOK /\ nextTok \in Nat \ {0} /\ ClaimScript(j, nextTok)
  BY DEF Claim, PlaceInv, TypeInv, TypeOK, StoreTypeOK
<1>2. Len(queue) > 0 /\ j = queue[1] /\ Queued(j) /\ dead' = dead
      /\ queue' = SubSeq(queue, 2, Len(queue))
  BY <1>1, ClaimTakesHead DEF PlaceInv
<1>3. QueuedOnce' /\ \A k \in Jobs : Queued(k)' <=> Queued(k) /\ k # j
  BY <1>1, <1>2, HeadClaimed DEF PlaceInv, OnePlace
<1>4. /\ inflight' = [inflight EXCEPT ![j] = now] /\ claims' = [claims EXCEPT ![j] = nextTok]
      /\ payloads' = payloads
      /\ inflight \in [Jobs -> Nat \union {NotLeased}] /\ claims \in [Jobs -> Nat]
  BY <1>1 DEF ClaimScript, StoreTypeOK
<1>5. now \in Nat /\ now # NotLeased
  BY <1>1 DEF StoreTypeOK, NotLeased
<1>6. \A k \in Jobs \ {j} : Untouched(k)
  BY <1>2, <1>3, <1>4 DEF Claim, Untouched
<1>7. ~InFlight(j) /\ InFlight(j)'
  BY <1>2, <1>4, <1>5 DEF PlaceInv, OnePlace, InOnePlace, InFlight
<1> QED
  BY <1>2, <1>3, <1>4, <1>6, <1>7 DEF Claim

\* What a push does: a fresh job that was nowhere is queued.
LEMMA PushMoves ==
  ASSUME PlaceInv, NEW j \in Jobs, Pushes(j)
  PROVE  /\ j \in Fresh /\ call[j] = "reserved" /\ call'[j] \in {"ok", "undo"}
         /\ ~Active(j) /\ ~Settled(j) /\ Queued(j)' /\ payloads'[j] = 0
         /\ \A k \in Jobs \ {j} : Untouched(k) /\ call'[k] = call[k]
         /\ UNCHANGED <<inflight, claims, dead>>
<1>1. StoreTypeOK /\ call \in [Jobs -> Calls]
  BY DEF PlaceInv, TypeInv, TypeOK, ProcessTypeOK
<1>2. call[j] = "reserved" /\ call'[j] \in {"ok", "undo"} /\ done' = done
      /\ \A k \in Jobs \ {j} : call'[k] = call[k]
  BY <1>1 DEF Pushes, Push, PushFault, CallStep
<1>3. j \in Fresh /\ ~Active(j) /\ ~Settled(j)
  BY <1>2 DEF PlaceInv, NotYetPushed
<1>4. QueuedOnce' /\ \A k \in Jobs : Queued(k)' <=> Queued(k) \/ k = j
  BY <1>1, <1>3, AppendQueued DEF Pushes, PushScript, Active, PlaceInv, OnePlace
<1>5. payloads' = [payloads EXCEPT ![j] = 0] /\ UNCHANGED <<inflight, claims, dead>>
  BY DEF Pushes, PushScript
<1> QED
  BY <1>1, <1>2, <1>3, <1>4, <1>5 DEF Untouched, StoreTypeOK

-----------------------------------------------------------------------------
(* The attempts of a payload count the deliveries that came to nothing.    *)
(* Whoever ends a lease writes what it has read plus one, so what it has   *)
(* read has to be what is there while it holds the claim: nobody else can  *)
(* have written it in between without a new token.                         *)

\* Worker w has read the attempts of its job.
Decided(w) ==
    \/ pc[w] \in {"claimed", "running", "release"}
    \/ pc[w] \in {"decide", "settle"} /\ out[w] # "invalid"

TokensHandedOut ==
    /\ \A j \in Jobs : claims[j] < nextTok
    /\ \A w \in Workers : pc[w] \in Handling => 0 < tok[w] /\ tok[w] < nextTok

AttemptsRead ==
    \A w \in Workers : Decided(w) /\ HoldsClaim(job[w], tok[w]) => payloads[job[w]] = att[w]

\* A queued job may be delivered once more, and one not yet pushed has not been.
AttemptsLeft ==
    \A j \in Jobs :
        /\ Queued(j) => deliveries[j] < MaxAttempts
        /\ j \in Fresh /\ call[j] \in {"none", "reserved"} => deliveries[j] = 0

AttemptInv ==
    /\ PlaceInv /\ TokensHandedOut
    /\ AttemptsRead /\ AttemptsLeft /\ AttemptsCountDeliveries

\* Worker w goes on with the claim it has.
Keeps(w) == pc[w] \in Handling /\ job'[w] = job[w] /\ tok'[w] = tok[w]

\* Where the claim of a worker and the attempts it has read come from.
LEMMA ClaimsKept ==
  ASSUME TypeInv, Next, NEW w \in Workers
  PROVE  /\ pc'[w] \in Handling => Keeps(w) \/ \E j \in Jobs : Claim(w, j) \/ Adopt(w, j)
         /\ Decided(w)' =>
              \/ Decided(w) /\ Keeps(w) /\ att'[w] = att[w]
              \/ ReadOrphan(w) \/ \E j \in Jobs : Claim(w, j)
<1> DEFINE Goal ==
      /\ pc'[w] \in Handling => Keeps(w) \/ \E j \in Jobs : Claim(w, j) \/ Adopt(w, j)
      /\ Decided(w)' =>
           \/ Decided(w) /\ Keeps(w) /\ att'[w] = att[w]
           \/ ReadOrphan(w) \/ \E j \in Jobs : Claim(w, j)
<1> USE DEF Decided, Keeps, Handling, workerVars, claimVars
<1>0. /\ pc \in [Workers -> Pcs] /\ job \in [Workers -> Jobs \union {NoJob}]
      /\ tok \in [Workers -> Nat] /\ att \in [Workers -> Nat] /\ out \in [Workers -> Outs]
  BY DEF TypeInv, TypeOK, ProcessTypeOK, LocalsTypeOK
<1>1. ASSUME NEW j \in Jobs, CallerNext(j)
      PROVE  Goal
  BY <1>1 DEF CallerNext, CallStep, Reserve, Refuse, ReserveFault, Push, PushFault, Undo,
              CallerDies
<1>2. ASSUME NEW v \in Workers, NEW j \in Jobs, Adopt(v, j) \/ Claim(v, j)
      PROVE  Goal
  <2>1. CASE v = w
    BY <1>0, <1>2, <2>1 DEF Adopt
  <2>2. CASE v # w
    BY <1>0, <1>2, <2>2 DEF Adopt, Claim
  <2> QED
    BY <2>1, <2>2
<1>3. ASSUME NEW v \in Workers, LocalStep(v)
      PROVE  Goal
  <2>1. CASE ReadOrphan(v)
    BY <1>0, <2>1 DEF ReadOrphan, ReadAs
  <2>2. CASE Start(v) \/ Stop(v) \/ Crash(v) \/ Scan(v) \/ \E j \in Jobs : SkipOrphan(v, j)
    BY <1>0, <2>2 DEF Start, Stop, Crash, Scan, RunScan, SkipOrphan, NextOrphan, Forget, NoClaim
  <2>3. CASE LockBusy(v) \/ Run(v) \/ RefresherDies(v)
    BY <1>0, <2>3 DEF LockBusy, Run, Finish, RefresherDies, Conclude
  <2> QED
    BY <1>3, <2>1, <2>2, <2>3 DEF LocalStep
<1>4. ASSUME NEW v \in Workers,
             \/ TakeLock(v) \/ LockFault(v) \/ Release(v) \/ ReleaseFault(v)
             \/ RenewLock(v) \/ RenewLease(v)
      PROVE  Goal
  BY <1>0, <1>4
  DEF TakeLock, LockFault, Release, ReleaseFault, RenewLock, RenewLease, Conclude
<1>5. ASSUME NEW v \in Workers, Ack(v) \/ AckFault(v) \/ Requeue(v) \/ DeadLetter(v)
      PROVE  Goal
  BY <1>0, <1>5
  DEF Ack, AckFault, Requeue, RequeueWith, DeadLetter, MoveOn, NextOrphan, Forget, NoClaim,
      Conclude
<1>6. ASSUME NEW s \in strays, StrayLock(s) \/ StrayLease(s)
      PROVE  Goal
  BY <1>6 DEF StrayLock, StrayLease
<1>7. CASE Tick
  BY <1>7 DEF Tick
<1> QED
  BY <1>1, <1>2, <1>3, <1>4, <1>5, <1>6, <1>7, NextCases

\* Tokens are handed out in order.
LEMMA TokenCounts ==
  ASSUME TypeInv, Next
  PROVE  /\ nextTok' \in Nat /\ nextTok <= nextTok'
         /\ \A w \in Workers, j \in Jobs : Claim(w, j) => nextTok' = nextTok + 1
         /\ \A w \in Workers, j \in Jobs : Adopt(w, j) /\ claims[j] = 0 => nextTok' = nextTok + 1
<1>0. nextTok \in Nat
  BY DEF TypeInv, TypeOK, StoreTypeOK
<1>1. nextTok' = nextTok \/ nextTok' = nextTok + 1
  <2> USE DEF storeVars
  <2>1. ASSUME NEW j \in Jobs, CallerNext(j)
        PROVE  nextTok' = nextTok
    BY <2>1 DEF CallerNext, CallStep, Reserve, Refuse, ReserveFault, Push, PushFault, Undo,
                CallerDies
  <2>2. ASSUME NEW w \in Workers, NEW j \in Jobs, Adopt(w, j) \/ Claim(w, j)
        PROVE  nextTok' = nextTok \/ nextTok' = nextTok + 1
    BY <2>2 DEF Adopt, Claim
  <2>3. ASSUME NEW w \in Workers, LocalStep(w)
        PROVE  nextTok' = nextTok
    BY <2>3 DEF LocalStep, Start, Stop, Crash, Scan, RunScan, ReadOrphan, ReadAs, LockBusy,
                Run, Finish, RefresherDies, SkipOrphan
  <2>4. ASSUME NEW w \in Workers,
               \/ TakeLock(w) \/ LockFault(w) \/ Release(w) \/ ReleaseFault(w)
               \/ RenewLock(w) \/ RenewLease(w)
               \/ Ack(w) \/ AckFault(w) \/ Requeue(w) \/ DeadLetter(w)
        PROVE  nextTok' = nextTok
    BY <2>4 DEF TakeLock, LockFault, Release, ReleaseFault, RenewLock, RenewLease, Ack, AckFault,
                Requeue, RequeueWith, DeadLetter
  <2>5. ASSUME NEW s \in strays, StrayLock(s) \/ StrayLease(s)
        PROVE  nextTok' = nextTok
    BY <2>5 DEF StrayLock, StrayLease
  <2>6. CASE Tick
    BY <2>6 DEF Tick
  <2> QED
    BY <2>1, <2>2, <2>3, <2>4, <2>5, <2>6, NextCases
<1> QED
  BY <1>0, <1>1 DEF Claim, Adopt

\* What an adoption does: the lease has a token from now on.
LEMMA AdoptMoves ==
  ASSUME PlaceInv, NEW w \in Workers, NEW j \in Jobs, Adopt(w, j)
  PROVE  /\ InFlight(j) /\ inflight[j] <= cutoff[w]
         /\ claims' = [claims EXCEPT ![j] = IF @ = 0 THEN nextTok ELSE @]
         /\ pc'[w] = "read" /\ job'[w] = j /\ tok'[w] = claims'[j]
         /\ UNCHANGED <<queue, payloads, inflight, dead, done, deliveries, call>>
  BY DEF Adopt, AdoptScript, CanAdopt, history, PlaceInv, TypeInv, TypeOK, ProcessTypeOK,
         LocalsTypeOK

LEMMA TokensKept ==
  ASSUME PlaceInv, TokensHandedOut, Next
  PROVE  TokensHandedOut'
<1>0. /\ TypeInv /\ claims \in [Jobs -> Nat] /\ nextTok \in Nat \ {0} /\ tok \in [Workers -> Nat]
      /\ nextTok' \in Nat /\ nextTok <= nextTok'
  BY TokenCounts DEF PlaceInv, TypeInv, TypeOK, StoreTypeOK, ProcessTypeOK, LocalsTypeOK
<1>1. \A j \in Jobs : claims'[j] \in Nat /\ claims'[j] < nextTok'
  <2>1. CASE UNCHANGED claims
    BY <1>0, <2>1 DEF TokensHandedOut
  <2>2. ASSUME NEW w \in Workers, NEW j \in Jobs, Claim(w, j)
        PROVE  \A k \in Jobs : claims'[k] \in Nat /\ claims'[k] < nextTok'
    BY <1>0, <2>2, ClaimMoves, TokenCounts DEF TokensHandedOut, Untouched
  <2>3. ASSUME NEW w \in Workers, NEW j \in Jobs, Adopt(w, j)
        PROVE  \A k \in Jobs : claims'[k] \in Nat /\ claims'[k] < nextTok'
    BY <1>0, <2>3, AdoptMoves, TokenCounts DEF TokensHandedOut
  <2>4. ASSUME NEW w \in Workers, Ends(w)
        PROVE  \A k \in Jobs : claims'[k] \in Nat /\ claims'[k] < nextTok'
    BY <1>0, <2>4, EndsMoves DEF TokensHandedOut, Untouched
  <2> QED
    BY <2>1, <2>2, <2>3, <2>4, JobCases, PushMoves DEF JobsStay, jobKeys, Renews, RenewLeaseScript
<1>2. ASSUME NEW w \in Workers, pc'[w] \in Handling
      PROVE  0 < tok'[w] /\ tok'[w] < nextTok'
  <2>1. CASE Keeps(w)
    BY <1>0, <2>1 DEF Keeps, TokensHandedOut
  <2>2. ASSUME NEW j \in Jobs, Claim(w, j)
        PROVE  0 < tok'[w] /\ tok'[w] < nextTok'
    BY <1>0, <2>2, TokenCounts DEF Claim
  <2>3. ASSUME NEW j \in Jobs, Adopt(w, j)
        PROVE  0 < tok'[w] /\ tok'[w] < nextTok'
    BY <1>0, <1>1, <2>3, AdoptMoves
  <2> QED
    BY <1>0, <1>2, <2>1, <2>2, <2>3, ClaimsKept
<1> QED
  BY <1>1, <1>2 DEF TokensHandedOut

\* A claim that stands under an old token has stood, and nobody has written the
\* payload of its job.
LEMMA OldClaim ==
  ASSUME AttemptInv, Next, NEW j \in Jobs, NEW t \in Nat, 0 < t, t < nextTok, claims'[j] = t
  PROVE  claims[j] = t /\ payloads'[j] = payloads[j]
<1>0. PlaceInv /\ claims \in [Jobs -> Nat] /\ nextTok \in Nat
  BY DEF AttemptInv, PlaceInv, TypeInv, TypeOK, StoreTypeOK
<1>1. CASE JobsStay
  BY <1>1 DEF JobsStay, jobKeys
<1>2. ASSUME NEW k \in Jobs, Pushes(k)
      PROVE  claims[j] = t /\ payloads'[j] = payloads[j]
  <2>1. claims[j] = t /\ ~Active(k) /\ (k # j => payloads'[j] = payloads[j])
    BY <1>0, <1>2, PushMoves DEF Untouched
  <2>2. Active(j)
    BY <1>0, <2>1 DEF PlaceInv, OnePlace, InOnePlace, Active
  <2> QED
    BY <2>1, <2>2
<1>3. ASSUME NEW w \in Workers, NEW k \in Jobs, Claim(w, k)
      PROVE  claims[j] = t /\ payloads'[j] = payloads[j]
  BY <1>0, <1>3, ClaimMoves DEF Untouched
<1>4. ASSUME NEW w \in Workers, NEW k \in Jobs, Adopt(w, k)
      PROVE  claims[j] = t /\ payloads'[j] = payloads[j]
  BY <1>0, <1>4, AdoptMoves
<1>5. ASSUME NEW k, NEW u, Renews(k, u)
      PROVE  claims[j] = t /\ payloads'[j] = payloads[j]
  BY <1>5 DEF Renews, RenewLeaseScript
<1>6. ASSUME NEW w \in Workers, Ends(w)
      PROVE  claims[j] = t /\ payloads'[j] = payloads[j]
  BY <1>0, <1>6, EndsMoves DEF Untouched
<1> QED
  BY <1>1, <1>2, <1>3, <1>4, <1>5, <1>6, JobCases

LEMMA AttemptsReadKept ==
  ASSUME AttemptInv, Next
  PROVE  AttemptsRead'
<1>0. /\ TypeInv /\ PlaceInv /\ TokensHandedOut /\ AttemptsRead
      /\ pc \in [Workers -> Pcs] /\ job \in [Workers -> Jobs \union {NoJob}]
      /\ tok \in [Workers -> Nat] /\ att \in [Workers -> Nat] /\ out \in [Workers -> Outs]
      /\ payloads \in [Jobs -> Nat \union {NoPayload, BadPayload}]
  BY DEF AttemptInv, PlaceInv, TypeInv, TypeOK, StoreTypeOK, ProcessTypeOK, LocalsTypeOK
<1> SUFFICES ASSUME NEW w \in Workers, Decided(w)', HoldsClaim(job[w], tok[w])'
             PROVE  payloads'[job'[w]] = att'[w]
  BY DEF AttemptsRead
<1>1. CASE Decided(w) /\ Keeps(w) /\ att'[w] = att[w]
  <2>1. job[w] \in Jobs /\ tok[w] \in Nat /\ 0 < tok[w] /\ tok[w] < nextTok
    BY <1>0, <1>1 DEF Keeps, TokensHandedOut, TypeInv, BusyWithAJob
  <2>2. claims[job[w]] = tok[w] /\ payloads'[job[w]] = payloads[job[w]]
    BY <1>1, <2>1, OldClaim DEF Keeps, HoldsClaim
  <2> QED
    BY <1>0, <1>1, <2>1, <2>2 DEF AttemptsRead, HoldsClaim, Keeps
<1>2. CASE ReadOrphan(w)
  <2>1. payloads' = payloads /\ job' = job
    BY <1>2 DEF ReadOrphan, ReadAs, storeVars
  <2> QED
    BY <1>0, <1>2, <2>1 DEF ReadOrphan, ReadAs, Decided
<1>3. ASSUME NEW j \in Jobs, Claim(w, j)
      PROVE  payloads'[job'[w]] = att'[w]
  <2>1. payloads'[j] = payloads[j] /\ job'[w] = j
    BY <1>0, <1>3, ClaimMoves DEF Claim
  <2> QED
    BY <1>0, <1>3, <2>1 DEF Claim, Decided
<1> QED
  BY <1>0, <1>1, <1>2, <1>3, ClaimsKept

\* A call does not go back, and only its push queues a job.
LEMMA CallsGoOn ==
  ASSUME TypeInv, Next, NEW j \in Jobs, call'[j] \in {"none", "reserved"}
  PROVE  call[j] \in {"none", "reserved"}
<1>0. call \in [Jobs -> Calls]
  BY DEF TypeInv, TypeOK, ProcessTypeOK
<1>1. ASSUME NEW k \in Jobs, CallerNext(k)
      PROVE  call[j] \in {"none", "reserved"}
  BY <1>0, <1>1 DEF CallerNext, CallStep, Reserve, Refuse, ReserveFault, Push, PushFault, Undo,
                    CallerDies
<1>2. CASE UNCHANGED call
  BY <1>2
<1>3. ASSUME NEW w \in Workers, LocalStep(w)
      PROVE  UNCHANGED call
  BY <1>3 DEF LocalStep, Start, Stop, Crash, Scan, RunScan, ReadOrphan, ReadAs, LockBusy,
              Run, Finish, RefresherDies, SkipOrphan
<1>4. ASSUME NEW w \in Workers,
             \/ TakeLock(w) \/ LockFault(w) \/ Release(w) \/ ReleaseFault(w)
             \/ RenewLock(w) \/ RenewLease(w)
             \/ Ack(w) \/ AckFault(w) \/ Requeue(w) \/ DeadLetter(w)
             \/ \E k \in Jobs : Adopt(w, k) \/ Claim(w, k)
      PROVE  UNCHANGED call
  BY <1>4 DEF TakeLock, LockFault, Release, ReleaseFault, RenewLock, RenewLease, Ack, AckFault,
              Requeue, RequeueWith, DeadLetter, Adopt, Claim
<1>5. ASSUME NEW s \in strays, StrayLock(s) \/ StrayLease(s)
      PROVE  UNCHANGED call
  BY <1>5 DEF StrayLock, StrayLease
<1>6. CASE Tick
  BY <1>6 DEF Tick
<1> QED
  BY <1>1, <1>2, <1>3, <1>4, <1>5, <1>6, NextCases

\* What the attempts of job j say, and how many deliveries it has left.
CountsOf(j) ==
    /\ deliveries[j] <= MaxAttempts
    /\ payloads[j] >= 0 => payloads[j] = deliveries[j] - IF InFlight(j) THEN 1 ELSE 0
    /\ Queued(j) => deliveries[j] < MaxAttempts

LEMMA CountsStay ==
  ASSUME NEW j \in Jobs, CountsOf(j), Untouched(j), deliveries'[j] = deliveries[j]
  PROVE  CountsOf(j)'
  BY DEF CountsOf, Untouched, InFlight

LEMMA CountsKept ==
  ASSUME AttemptInv, Next, NEW j \in Jobs
  PROVE  CountsOf(j)'
<1>0. /\ PlaceInv /\ CountsOf(j) /\ \A k \in Jobs : deliveries[k] \in Nat
      /\ deliveries \in [Jobs -> Nat] /\ MaxAttempts \in Nat \ {0}
      /\ payloads \in [Jobs -> Nat \union {NoPayload, BadPayload}]
      /\ inflight \in [Jobs -> Nat \union {NotLeased}] /\ now \in Nat
  BY RunAssumption DEF AttemptInv, AttemptsCountDeliveries, AttemptsLeft, CountsOf, PlaceInv,
                       TypeInv, TypeOK, StoreTypeOK, HistoryTypeOK
<1>1. CASE JobsStay
  BY <1>0, <1>1 DEF JobsStay, jobKeys, CountsOf, InFlight, Queued
<1>2. ASSUME NEW k \in Jobs, Pushes(k), UNCHANGED <<done, deliveries>>
      PROVE  CountsOf(j)'
  <2>1. CASE j = k
    <3>1. payloads'[j] = 0 /\ ~InFlight(j)'
      BY <1>0, <1>2, <2>1, PushMoves DEF Active, InFlight
    <3>2. deliveries'[j] = 0
      BY <1>0, <1>2, <2>1, PushMoves DEF AttemptInv, AttemptsLeft
    <3>3. 0 <= MaxAttempts /\ 0 < MaxAttempts
      BY <1>0
    <3>4. (IF InFlight(j) THEN 1 ELSE 0)' = 0
      BY <3>1
    <3>5. (deliveries[j] - IF InFlight(j) THEN 1 ELSE 0)' = 0
      <4>1. \A d, n : d = 0 /\ n = 0 => d - n = 0
        OBVIOUS
      <4> QED
        BY <3>2, <3>4, <4>1
    <3> QED
      BY <3>1, <3>2, <3>3, <3>5 DEF CountsOf
  <2>2. CASE j # k
    BY <1>0, <1>2, <2>2, PushMoves, CountsStay
  <2> QED
    BY <2>1, <2>2
<1>3. ASSUME NEW w \in Workers, NEW k \in Jobs, Claim(w, k)
      PROVE  CountsOf(j)'
  <2>1. CASE j = k
    <3>1. /\ Queued(j) /\ ~InFlight(j) /\ ~Queued(j)' /\ InFlight(j)'
          /\ payloads'[j] = payloads[j] /\ deliveries'[j] = deliveries[j] + 1
      BY <1>0, <1>3, <2>1, ClaimMoves
    <3> QED
      BY <1>0, <3>1 DEF CountsOf
  <2>2. CASE j # k
    BY <1>0, <1>3, <2>2, ClaimMoves, CountsStay
  <2> QED
    BY <2>1, <2>2
<1>4. ASSUME NEW w \in Workers, NEW k \in Jobs, Adopt(w, k)
      PROVE  CountsOf(j)'
  BY <1>0, <1>4, AdoptMoves DEF CountsOf, InFlight, Queued
<1>5. ASSUME NEW k, NEW t, Renews(k, t), UNCHANGED <<done, deliveries>>
      PROVE  CountsOf(j)'
  <2>1. InFlight(j)' <=> InFlight(j)
    BY <1>0, <1>5 DEF Renews, RenewLeaseScript, InFlight, NotLeased
  <2> QED
    BY <1>0, <1>5, <2>1 DEF Renews, RenewLeaseScript, CountsOf, Queued
<1>6. ASSUME NEW w \in Workers, Ends(w), UNCHANGED deliveries
      PROVE  CountsOf(j)'
  <2>1. CASE j = job[w]
    <3>1. InFlight(j) /\ ~InFlight(j)' /\ HoldsClaim(j, tok[w])
      BY <1>0, <1>6, <2>1, EndsMoves
    <3>2. CASE payloads'[j] = NoPayload /\ ~Queued(j)'
      BY <1>0, <1>6, <3>1, <3>2 DEF CountsOf, NoPayload
    <3>3. CASE MayRetry(w) /\ payloads'[j] = att[w] + 1
      <4>1. payloads[j] = att[w] /\ att[w] \in Nat
        BY <1>0, <1>6, <2>1, <3>1, <3>3
        DEF AttemptInv, AttemptsRead, Decided, MayRetry, Ends, Acks, GivesBack, Buries, PlaceInv,
            TypeInv, TypeOK, ProcessTypeOK, LocalsTypeOK
      <4> QED
        BY <1>0, <1>6, <3>1, <3>3, <4>1 DEF CountsOf, MayRetry
    <3> QED
      BY <1>0, <1>6, <2>1, <3>2, <3>3, EndsMoves
  <2>2. CASE j # job[w]
    BY <1>0, <1>6, <2>2, EndsMoves, CountsStay
  <2> QED
    BY <2>1, <2>2
<1> QED
  BY <1>1, <1>2, <1>3, <1>4, <1>5, <1>6, JobCases

LEMMA AttemptStep ==
  ASSUME AttemptInv, Next
  PROVE  AttemptInv'
<1>1. PlaceInv' /\ TokensHandedOut'
  BY PlaceInvariant, TokensKept DEF AttemptInv
<1>2. AttemptsRead' /\ AttemptsCountDeliveries' /\ \A j \in Jobs : (Queued(j) => deliveries[j] < MaxAttempts)'
  BY AttemptsReadKept, CountsKept DEF CountsOf, AttemptsCountDeliveries
<1>3. ASSUME NEW j \in Fresh, call'[j] \in {"none", "reserved"}
      PROVE  deliveries'[j] = 0
  <2>1. j \in Jobs /\ call[j] \in {"none", "reserved"} /\ deliveries[j] = 0 /\ ~Active(j)
    BY <1>3, CallsGoOn DEF AttemptInv, PlaceInv, AttemptsLeft, NotYetPushed, Fresh
  <2>2. deliveries \in [Jobs -> Nat] /\ PlaceInv
    BY DEF AttemptInv, PlaceInv, TypeInv, TypeOK, HistoryTypeOK
  <2>3. ASSUME NEW w \in Workers, NEW k \in Jobs, Claim(w, k)
        PROVE  deliveries'[j] = deliveries[j]
    BY <2>1, <2>2, <2>3, ClaimMoves DEF Active
  <2>4. ASSUME NEW w \in Workers, NEW k \in Jobs, Adopt(w, k)
        PROVE  deliveries'[j] = deliveries[j]
    BY <2>2, <2>4, AdoptMoves
  <2> QED
    BY <2>1, <2>3, <2>4, JobCases DEF JobsStay
<1> QED
  BY <1>1, <1>2, <1>3 DEF AttemptInv, AttemptsLeft

LEMMA AttemptInvariant == (Init => AttemptInv) /\ (AttemptInv /\ [Next]_vars => AttemptInv')
<1>1. ASSUME Init
      PROVE  AttemptInv
  <2>1. PlaceInv
    BY <1>1, PlaceInvariant
  <2>2. TokensHandedOut /\ AttemptsRead
    BY <1>1 DEF Init, StoreInit, TokensHandedOut, AttemptsRead, Decided, Handling
  <2>3. AttemptsLeft /\ AttemptsCountDeliveries
    <3>1. \A j \in Jobs : Queued(j) => j \notin Orphans
      BY <1>1, LeftoverAssumption DEF Init, StoreInit, Queued
    <3>2. MaxAttempts \in Nat \ {0}
      BY RunAssumption
    <3> QED
      BY <1>1, <3>1, <3>2
      DEF Init, StoreInit, AttemptsLeft, AttemptsCountDeliveries, Fresh, InFlight, NotLeased,
          NoPayload, BadPayload
  <2> QED
    BY <2>1, <2>2, <2>3 DEF AttemptInv
<1>2. CASE AttemptInv /\ Next
  BY <1>1, <1>2, AttemptStep
<1>3. CASE AttemptInv /\ UNCHANGED vars
  <2>1. PlaceInv'
    BY <1>3, PlaceInvariant DEF AttemptInv
  <2> QED
    BY <1>1, <1>3, <2>1
    DEF AttemptInv, TokensHandedOut, AttemptsRead, Decided, HoldsClaim, AttemptsLeft, Queued,
        AttemptsCountDeliveries, InFlight, vars, storeVars, workerVars
<1> QED
  BY <1>1, <1>2, <1>3

\* No job is delivered more than JOB_MAX_ATTEMPTS times, and its payload counts
\* the deliveries that came to nothing, although a worker and any number of
\* recoveries may hold the same claim at once (jobs.py:180-183, 279-285).
THEOREM AttemptsAreCounted == Spec => []AttemptsCountDeliveries
<1>1. AttemptInv => AttemptsCountDeliveries
  BY DEF AttemptInv
<1> QED
  BY <1>1, AttemptInvariant, PTL DEF Spec

-----------------------------------------------------------------------------
(* The queue implements JobLedger.                                         *)

LEMMA StatusStays ==
  ASSUME NEW j \in Jobs, Untouched(j)
  PROVE  StatusOf(j)' = StatusOf(j)
  BY DEF Untouched, StatusOf, InFlight

\* A step that moves one job moves its status alone.
LEMMA LedgerMove ==
  ASSUME NEW j \in Jobs, \A k \in Jobs \ {j} : Untouched(k), NEW from, NEW to,
         StatusOf(j) = from, StatusOf(j)' = to
  PROVE  Ledger!Become(j, from, to)
<1> DEFINE status == [k \in Jobs |-> StatusOf(k)]
<1>1. status' = [status EXCEPT ![j] = to]
  BY StatusStays
<1> QED
  BY <1>1 DEF Ledger!Become

LEMMA LedgerStep ==
  ASSUME AttemptInv, Next
  PROVE  Ledger!LedgerNext \/ UNCHANGED <<[j \in Jobs |-> StatusOf(j)], deliveries>>
<1>0. /\ PlaceInv /\ deliveries \in [Jobs -> Nat]
      /\ inflight \in [Jobs -> Nat \union {NotLeased}] /\ now \in Nat
  BY DEF AttemptInv, PlaceInv, TypeInv, TypeOK, StoreTypeOK, HistoryTypeOK
<1>1. CASE JobsStay
  BY <1>1 DEF JobsStay, jobKeys, StatusOf, InFlight, Queued
<1>2. ASSUME NEW j \in Jobs, Pushes(j), UNCHANGED <<done, deliveries>>
      PROVE  Ledger!LedgerNext
  <2>1. StatusOf(j) = "unknown" /\ StatusOf(j)' = "queued"
    BY <1>0, <1>2, PushMoves DEF StatusOf, Active, Settled, InFlight
  <2>2. Ledger!Submit(j)
    BY <1>0, <1>2, <2>1, PushMoves, LedgerMove DEF Ledger!Submit
  <2> QED
    BY <2>2 DEF Ledger!LedgerNext
<1>3. ASSUME NEW w \in Workers, NEW j \in Jobs, Claim(w, j)
      PROVE  Ledger!LedgerNext
  <2>1. StatusOf(j) = "queued" /\ StatusOf(j)' = "leased"
    BY <1>0, <1>3, ClaimMoves DEF StatusOf, PlaceInv, OnePlace, InOnePlace, Active, Settled
  <2>2. Ledger!Become(j, "queued", "leased")
    BY <1>0, <1>3, <2>1, ClaimMoves, LedgerMove
  <2>3. deliveries[j] < MaxAttempts /\ deliveries' = [deliveries EXCEPT ![j] = @ + 1]
    BY <1>0, <1>3, ClaimMoves DEF AttemptInv, AttemptsLeft
  <2> QED
    BY <2>2, <2>3 DEF Ledger!Lease, Ledger!LedgerNext
<1>4. ASSUME NEW w \in Workers, NEW j \in Jobs, Adopt(w, j)
      PROVE  UNCHANGED <<[k \in Jobs |-> StatusOf(k)], deliveries>>
  BY <1>0, <1>4, AdoptMoves DEF StatusOf, InFlight, Queued
<1>5. ASSUME NEW j, NEW t, Renews(j, t), UNCHANGED <<done, deliveries>>
      PROVE  UNCHANGED <<[k \in Jobs |-> StatusOf(k)], deliveries>>
  <2>1. \A k \in Jobs : InFlight(k)' <=> InFlight(k)
    BY <1>0, <1>5 DEF Renews, RenewLeaseScript, InFlight, NotLeased
  <2> QED
    BY <1>5, <2>1 DEF Renews, RenewLeaseScript, StatusOf, Queued
<1>6. ASSUME NEW w \in Workers, Ends(w), UNCHANGED deliveries
      PROVE  Ledger!LedgerNext
  <2> DEFINE j == job[w]
  <2>0. j \in Jobs
    BY <1>0, <1>6, EndsMoves
  <2>1. PICK i \in Jobs : i = j
    BY <2>0
  <2>2. StatusOf(i) = "leased" /\ \A k \in Jobs \ {i} : Untouched(k)
    BY <1>0, <1>6, <2>1, EndsMoves DEF StatusOf, PlaceInv, OnePlace, InOnePlace, Active, Settled
  <2>3. i \notin done /\ i \notin dead /\ ~InFlight(i)'
    BY <1>0, <1>6, <2>1, EndsMoves DEF PlaceInv, OnePlace, InOnePlace, Active, Settled
  <2>4. CASE i \in done'
    <3>1. Ledger!Become(i, "leased", "done")
      BY <2>2, <2>4, LedgerMove DEF StatusOf
    <3> QED
      BY <1>6, <3>1 DEF Ledger!Acknowledge, Ledger!LedgerNext
  <2>5. CASE done' = done /\ i \in dead'
    <3>1. Ledger!Become(i, "leased", "dead")
      BY <2>2, <2>3, <2>5, LedgerMove DEF StatusOf
    <3> QED
      BY <1>6, <3>1 DEF Ledger!Bury, Ledger!LedgerNext
  <2>6. CASE MayRetry(w) /\ payloads'[i] = att[w] + 1 /\ Queued(i)' /\ done' = done /\ dead' = dead
    <3>1. Ledger!Become(i, "leased", "queued")
      BY <2>2, <2>3, <2>6, LedgerMove DEF StatusOf
    <3>2. deliveries'[i] < MaxAttempts
      <4>1. CountsOf(i)'
        BY CountsKept
      <4> QED
        BY <2>6, <4>1 DEF CountsOf
    <3> QED
      BY <1>6, <3>1, <3>2 DEF Ledger!GiveBack, Ledger!LedgerNext
  <2> QED
    BY <1>0, <1>6, <2>1, <2>4, <2>5, <2>6, EndsMoves
<1> QED
  BY <1>1, <1>2, <1>3, <1>4, <1>5, <1>6, JobCases

LEMMA LedgerAtFirst == Init => Ledger!LedgerInit
<1> SUFFICES ASSUME Init
             PROVE  Ledger!LedgerInit
  OBVIOUS
<1>1. \A j \in Jobs : Queued(j) <=> j \in Malformed \ Orphans
  BY LeftoverAssumption, JobsAssumption DEF Init, StoreInit, Queued
<1>2. \A j \in Jobs : InFlight(j) <=> j \in Orphans
  BY DEF Init, StoreInit, InFlight, NotLeased
<1> QED
  BY <1>1, <1>2 DEF Init, StoreInit, Ledger!LedgerInit, StatusOf

\* The store, the processes around it and all their faults are an implementation
\* of the ledger: a job is submitted once, leased at most JOB_MAX_ATTEMPTS times,
\* and what became of it is final (jobs.py:26-130, 168-288).
THEOREM LedgerIsImplemented == Spec => LedgerImplemented
<1>1. AttemptInv /\ [Next]_vars => [Ledger!LedgerNext]_(Ledger!ledgerVars)
  <2>1. CASE AttemptInv /\ Next
    BY <2>1, LedgerStep DEF Ledger!ledgerVars
  <2>2. CASE UNCHANGED vars
    BY <2>2 DEF vars, storeVars, Ledger!ledgerVars, StatusOf, InFlight, Queued
  <2> QED
    BY <2>1, <2>2
<1> QED
  BY <1>1, LedgerAtFirst, AttemptInvariant, PTL DEF Spec, LedgerImplemented, Ledger!LedgerSpec

-----------------------------------------------------------------------------
(* Who ends a lease.                                                       *)

\* A recovery looks a lease time back from the moment of its scan.
CutoffsPassed ==
    /\ LeaseTTL <= now
    /\ \A w \in Workers : pc[w] \in {"adopt", "read", "decide"} =>
            0 <= cutoff[w] /\ cutoff[w] <= now - LeaseTTL

LEMMA CutoffsKept ==
  ASSUME TypeInv, CutoffsPassed, Next
  PROVE  CutoffsPassed'
<1> USE DEF CutoffsPassed, storeVars, workerVars, scanVars
<1>0. /\ now \in Nat /\ LeaseTTL \in Nat /\ NoCutoff = -1
      /\ pc \in [Workers -> Pcs] /\ cutoff \in [Workers -> Int]
  BY TTLAssumption DEF TypeInv, TypeOK, StoreTypeOK, ProcessTypeOK, LocalsTypeOK, NoCutoff
<1>1. ASSUME NEW j \in Jobs, CallerNext(j)
      PROVE  CutoffsPassed'
  BY <1>1 DEF CallerNext, CallStep, Reserve, Refuse, ReserveFault, Push, PushFault, Undo,
              CallerDies
<1>2. ASSUME NEW w \in Workers, NEW j \in Jobs, Adopt(w, j) \/ Claim(w, j)
      PROVE  CutoffsPassed'
  BY <1>0, <1>2 DEF Adopt, Claim
<1>3. ASSUME NEW w \in Workers, LocalStep(w)
      PROVE  CutoffsPassed'
  <2>1. CASE Scan(w)
    BY <1>0, <2>1 DEF Scan, RunScan
  <2>2. CASE Start(w) \/ Stop(w) \/ Crash(w) \/ LockBusy(w) \/ Run(w) \/ RefresherDies(w)
    BY <1>0, <2>2 DEF Start, Stop, Crash, Forget, LockBusy, Conclude, Run, Finish, RefresherDies
  <2>3. CASE ReadOrphan(w) \/ \E j \in Jobs : SkipOrphan(w, j)
    BY <1>0, <2>3 DEF ReadOrphan, ReadAs, SkipOrphan, NextOrphan
  <2> QED
    BY <1>3, <2>1, <2>2, <2>3 DEF LocalStep
<1>4. ASSUME NEW w \in Workers,
             \/ TakeLock(w) \/ LockFault(w) \/ Release(w) \/ ReleaseFault(w)
             \/ RenewLock(w) \/ RenewLease(w)
      PROVE  CutoffsPassed'
  BY <1>0, <1>4
  DEF TakeLock, LockFault, Release, ReleaseFault, RenewLock, RenewLease, Conclude
<1>5. ASSUME NEW w \in Workers, Ack(w) \/ AckFault(w) \/ Requeue(w) \/ DeadLetter(w)
      PROVE  CutoffsPassed'
  BY <1>0, <1>5
  DEF Ack, AckFault, Requeue, RequeueWith, DeadLetter, MoveOn, NextOrphan, Forget, Conclude
<1>6. ASSUME NEW s \in strays, StrayLock(s) \/ StrayLease(s)
      PROVE  CutoffsPassed'
  BY <1>6 DEF StrayLock, StrayLease
<1>7. CASE Tick
  BY <1>0, <1>7 DEF Tick, Advance
<1> QED
  BY <1>1, <1>2, <1>3, <1>4, <1>5, <1>6, <1>7, NextCases

LEMMA CutoffInvariant ==
    /\ Init => CutoffsPassed
    /\ TypeInv /\ CutoffsPassed /\ [Next]_vars => CutoffsPassed'
<1>1. Init => CutoffsPassed
  BY TTLAssumption DEF Init, StoreInit, CutoffsPassed, Epoch
<1>2. CASE TypeInv /\ CutoffsPassed /\ Next
  BY <1>1, <1>2, CutoffsKept
<1>3. CASE CutoffsPassed /\ UNCHANGED vars
  BY <1>1, <1>3 DEF CutoffsPassed, vars, storeVars, workerVars
<1> QED
  BY <1>1, <1>2, <1>3

\* Worker w is entitled to end the lease of job j.
EndsLease(w, j) ==
    /\ job[w] = j /\ tok[w] = claims[j]
    /\ \/ pc[w] = "settle"
       \/ /\ pc[w] = "decide"
          /\ inflight[j] <= cutoff[w]
          /\ cutoff[w] <= now - LeaseTTL

LEMMA EndsRightly ==
  ASSUME PlaceInv, CutoffsPassed, Next,
         NEW j \in Jobs, InFlight(j), ~InFlight(j)'
  PROVE  \E w \in Workers : EndsLease(w, j)
<1>0. inflight \in [Jobs -> Nat \union {NotLeased}] /\ now \in Nat
  BY DEF PlaceInv, TypeInv, TypeOK, StoreTypeOK
<1>1. ASSUME UNCHANGED inflight
      PROVE  FALSE
  BY <1>1 DEF InFlight
<1>2. ASSUME NEW w \in Workers, NEW k \in Jobs, Claim(w, k)
      PROVE  FALSE
  BY <1>2, ClaimMoves DEF Untouched, InFlight
<1>3. ASSUME NEW k, NEW t, Renews(k, t)
      PROVE  FALSE
  BY <1>0, <1>3 DEF Renews, RenewLeaseScript, InFlight, NotLeased
<1>4. ASSUME NEW w \in Workers, Ends(w)
      PROVE  EndsLease(w, j)
  <2>1. j = job[w] /\ HoldsClaim(j, tok[w]) /\ pc[w] \in {"settle", "decide"}
    BY <1>4, EndsMoves DEF Untouched, InFlight, Ends, Acks, GivesBack, Buries
  <2>2. ASSUME pc[w] = "decide"
        PROVE  inflight[j] <= cutoff[w]
    <3>1. CASE \E c \in RequeueCutoffs(w) : GivesBack(w, c)
      BY <2>1, <2>2, <3>1 DEF GivesBack, RequeueScript, CanRequeue, RequeueCutoffs
    <3>2. CASE Buries(w)
      BY <2>1, <2>2, <3>2 DEF Buries, DeadScript, CanBury, BuryCutoff, NoCutoff, CutoffsPassed
    <3> QED
      BY <1>4, <2>2, <3>1, <3>2 DEF Ends, Acks
  <2> QED
    BY <2>1, <2>2 DEF EndsLease, HoldsClaim, CutoffsPassed
<1> QED
  BY <1>1, <1>2, <1>3, <1>4, JobCases, PushMoves, AdoptMoves DEF JobsStay, jobKeys

\* A lease that carries a token ends by the worker that settles this claim or by
\* a recovery that found it unrenewed for a lease time: whoever lost its claim
\* takes nothing from the next (jobs.py:46-75).
THEOREM LeasesEndRightly == Spec => LeasesEndByTheirHolder
<1>1. ASSUME PlaceInv, CutoffsPassed, [Next]_vars, NEW j \in Jobs,
             InFlight(j), claims[j] # 0, ~InFlight(j)'
      PROVE  \E w \in Workers : EndsLease(w, j)
  <2>1. CASE Next
    BY <1>1, <2>1, EndsRightly
  <2>2. CASE UNCHANGED vars
    BY <1>1, <2>2 DEF vars, storeVars, InFlight
  <2> QED
    BY <1>1, <2>1, <2>2
<1>2. PlaceInv => TypeInv
  BY DEF PlaceInv
<1>3. PlaceInv /\ CutoffsPassed /\ [Next]_vars =>
        [\A j \in Jobs :
          (InFlight(j) /\ claims[j] # 0 /\ ~InFlight(j)') =>
            \E w \in Workers :
              /\ job[w] = j /\ tok[w] = claims[j]
              /\ \/ pc[w] = "settle"
                 \/ /\ pc[w] = "decide"
                    /\ inflight[j] <= cutoff[w]
                    /\ cutoff[w] <= now - LeaseTTL]_vars
  BY <1>1 DEF EndsLease
<1> QED
  BY <1>2, <1>3, PlaceInvariant, CutoffInvariant, PTL DEF Spec, LeasesEndByTheirHolder

-----------------------------------------------------------------------------
(* What is acknowledged has run, and what has run gives LOCK back.         *)

\* A job that is to be acknowledged has been through the pipeline.
RunsCounted ==
    \A w \in Workers :
        pc[w] \in {"running", "release"} \/ (pc[w] = "settle" /\ out[w] = "ok") => runs[job[w]] > 0

RanInv == TypeInv /\ RunsCounted /\ AcknowledgedJobsRan

LEMMA RanStep ==
  ASSUME RanInv, Next
  PROVE  RunsCounted' /\ AcknowledgedJobsRan'
<1> DEFINE Goal == RunsCounted' /\ AcknowledgedJobsRan'
<1> USE DEF RanInv, RunsCounted, AcknowledgedJobsRan, storeVars, history, workerVars, claimVars
<1>0. /\ pc \in [Workers -> Pcs] /\ job \in [Workers -> Jobs \union {NoJob}]
      /\ out \in [Workers -> Outs] /\ runs \in [Jobs -> Nat] /\ done \subseteq Jobs
      /\ \A w \in Workers : pc[w] \in Handling => job[w] \in Jobs
  BY DEF TypeInv, TypeOK, HistoryTypeOK, ProcessTypeOK, LocalsTypeOK, BusyWithAJob
<1>1. ASSUME NEW j \in Jobs, CallerNext(j)
      PROVE  Goal
  BY <1>1 DEF CallerNext, CallStep, Reserve, Refuse, ReserveFault, Push, PushFault, Undo,
              CallerDies
<1>2. ASSUME NEW w \in Workers, NEW j \in Jobs, Adopt(w, j) \/ Claim(w, j)
      PROVE  Goal
  BY <1>0, <1>2 DEF Adopt, Claim
<1>3. ASSUME NEW w \in Workers, LocalStep(w)
      PROVE  Goal
  BY <1>0, <1>3
  DEF LocalStep, Start, Stop, Crash, Forget, NoClaim, Scan, RunScan, ReadOrphan, ReadAs,
      LockBusy, Conclude, Run, Finish, RefresherDies, SkipOrphan, NextOrphan
<1>4. ASSUME NEW w \in Workers, TakeLock(w)
      PROVE  Goal
  <2>1. job[w] \in Jobs /\ runs' = [runs EXCEPT ![job[w]] = @ + 1] /\ done' = done
        /\ pc' = [pc EXCEPT ![w] = "running"] /\ UNCHANGED <<job, out>>
    BY <1>0, <1>4 DEF TakeLock, Handling
  <2>2. \A j \in Jobs : runs'[j] \in Nat /\ (runs[j] > 0 \/ j = job[w] => runs'[j] > 0)
    BY <1>0, <2>1
  <2>3. \A v \in Workers : v # w /\ pc[v] \in {"running", "release", "settle"} => job[v] \in Jobs
    BY <1>0 DEF Handling
  <2> QED
    BY <1>0, <2>1, <2>2, <2>3
<1>5. ASSUME NEW w \in Workers,
             \/ LockFault(w) \/ Release(w) \/ ReleaseFault(w) \/ RenewLock(w) \/ RenewLease(w)
      PROVE  Goal
  BY <1>0, <1>5 DEF LockFault, Release, ReleaseFault, RenewLock, RenewLease, Conclude
<1>6. ASSUME NEW w \in Workers, Ack(w) \/ AckFault(w) \/ Requeue(w) \/ DeadLetter(w)
      PROVE  Goal
  <2>1. RunsCounted' /\ runs' = runs
    BY <1>0, <1>6
    DEF Ack, AckFault, Requeue, RequeueWith, DeadLetter, MoveOn, NextOrphan, Forget, NoClaim,
        Conclude
  <2>2. done' = done \/ (pc[w] = "settle" /\ out[w] = "ok" /\ done' = done \union {job[w]})
    BY <1>6 DEF Ack, AckFault, Requeue, RequeueWith, DeadLetter
  <2> QED
    BY <2>1, <2>2
<1>7. ASSUME NEW s \in strays, StrayLock(s) \/ StrayLease(s)
      PROVE  Goal
  BY <1>7 DEF StrayLock, StrayLease
<1>8. CASE Tick
  BY <1>8 DEF Tick
<1> QED
  BY <1>1, <1>2, <1>3, <1>4, <1>5, <1>6, <1>7, <1>8, NextCases

\* No job is acknowledged whose pipeline has not been started, whichever of its
\* deliveries acknowledges it (jobs.py:273-274).
THEOREM OnlyRunsAreAcknowledged == Spec => []AcknowledgedJobsRan
<1>1. Init => RanInv
  BY InitType DEF Init, StoreInit, RanInv, RunsCounted, AcknowledgedJobsRan
<1>2. RanInv /\ [Next]_vars => RanInv'
  <2>1. CASE RanInv /\ Next
    BY <2>1, TypeStep, RanStep DEF RanInv
  <2>2. CASE RanInv /\ UNCHANGED vars
    BY <2>2, TypeStep
    DEF RanInv, RunsCounted, AcknowledgedJobsRan, vars, storeVars, workerVars
  <2> QED
    BY <2>1, <2>2
<1>3. RanInv => AcknowledgedJobsRan
  BY DEF RanInv
<1> QED
  BY <1>1, <1>2, <1>3, PTL DEF Spec

LEMMA LockIsReturned ==
  ASSUME TypeInv, NoLeakedLock, Next
  PROVE  NoLeakedLock'
<1> USE DEF NoLeakedLock, Fault, storeVars, workerVars, claimVars, lockKey
<1>0. /\ pc \in [Workers -> Pcs] /\ tok \in [Workers -> Nat] /\ faults \in Nat
  BY DEF TypeInv, TypeOK, ProcessTypeOK, LocalsTypeOK
<1>1. ASSUME NEW j \in Jobs, CallerNext(j)
      PROVE  NoLeakedLock'
  BY <1>0, <1>1 DEF CallerNext, CallStep, Reserve, Refuse, ReserveFault, Push, PushFault, Undo,
                    CallerDies
<1>2. ASSUME UNCHANGED <<lock, faults>>,
             \A w \in Workers : pc[w] \in {"running", "release"} =>
                 pc'[w] \in {"running", "release"} /\ tok'[w] = tok[w]
      PROVE  NoLeakedLock'
  BY <1>2
<1>3. ASSUME NEW w \in Workers, NEW j \in Jobs, Adopt(w, j) \/ Claim(w, j)
      PROVE  NoLeakedLock'
  BY <1>0, <1>2, <1>3 DEF Adopt, Claim
<1>4. ASSUME NEW w \in Workers, LocalStep(w)
      PROVE  NoLeakedLock'
  <2>1. CASE Start(w) \/ Scan(w) \/ ReadOrphan(w) \/ LockBusy(w) \/ Run(w) \/ \E j \in Jobs : SkipOrphan(w, j)
    BY <1>0, <1>2, <2>1
    DEF Start, Scan, RunScan, ReadOrphan, ReadAs, LockBusy, Conclude, Run, Finish, SkipOrphan,
        NextOrphan, NoClaim
  <2>2. CASE Stop(w) \/ Crash(w) \/ RefresherDies(w)
    BY <1>0, <2>2 DEF Stop, Crash, RefresherDies
  <2> QED
    BY <1>4, <2>1, <2>2 DEF LocalStep
<1>5. ASSUME NEW w \in Workers, TakeLock(w)
      PROVE  NoLeakedLock'
  BY <1>0, <1>5 DEF TakeLock, SetLock
<1>6. ASSUME NEW w \in Workers, LockFault(w) \/ ReleaseFault(w) \/ AckFault(w)
      PROVE  NoLeakedLock'
  BY <1>0, <1>6 DEF LockFault, ReleaseFault, AckFault
<1>7. ASSUME NEW w \in Workers, Release(w)
      PROVE  NoLeakedLock'
  BY <1>0, <1>7 DEF Release, DropLock, Conclude
<1>8. ASSUME NEW w \in Workers, RenewLock(w) \/ RenewLease(w)
      PROVE  NoLeakedLock'
  BY <1>2, <1>8 DEF RenewLock, RenewLockScript, RenewLease
<1>9. ASSUME NEW w \in Workers, Ack(w) \/ Requeue(w) \/ DeadLetter(w)
      PROVE  NoLeakedLock'
  BY <1>0, <1>2, <1>9
  DEF Ack, Requeue, RequeueWith, DeadLetter, MoveOn, NextOrphan, Forget, NoClaim
<1>10. ASSUME NEW s \in strays, StrayLock(s) \/ StrayLease(s)
       PROVE  NoLeakedLock'
  BY <1>2, <1>10 DEF StrayLock, StrayLease, RenewLockScript
<1>11. CASE Tick
  BY <1>0, <1>11 DEF Tick, Advance
<1> QED
  BY <1>1, <1>3, <1>4, <1>5, <1>6, <1>7, <1>8, <1>9, <1>10, <1>11, NextCases

\* As long as nothing has failed LOCK is held by a run that is going to release
\* it, for any number of workers and any times (jobs.py:237-241).
THEOREM LockIsNeverLeaked == Spec => []NoLeakedLock
<1>1. Init => TypeInv /\ NoLeakedLock
  BY InitType DEF Init, StoreInit, NoLeakedLock
<1>2. TypeInv /\ NoLeakedLock /\ [Next]_vars => TypeInv' /\ NoLeakedLock'
  <2>1. CASE TypeInv /\ NoLeakedLock /\ Next
    BY <2>1, TypeStep, LockIsReturned
  <2>2. CASE TypeInv /\ NoLeakedLock /\ UNCHANGED vars
    BY <2>2, TypeStep DEF NoLeakedLock, vars, storeVars, workerVars
  <2> QED
    BY <2>1, <2>2
<1> QED
  BY <1>1, <1>2, PTL DEF Spec

-----------------------------------------------------------------------------
(* Deduplication: what happens to PENDING, and to the calls it refuses.    *)

LEMMA KeyCases ==
  ASSUME Next
  PROVE  \/ UNCHANGED <<now, pendingKey>>
         \/ \E j \in Jobs : Reserve(j) \/ (ReserveFault(j) /\ SetPending(j)) \/ Undo(j)
         \/ \E w \in Workers : (Acks(w) \/ Buries(w)) /\ UNCHANGED <<now, call, reservedAt>>
         \/ Tick
<1> USE DEF storeVars, pendingKey, history
<1>1. ASSUME NEW j \in Jobs, CallerNext(j)
      PROVE  \/ UNCHANGED <<now, pendingKey>>
             \/ Reserve(j) \/ (ReserveFault(j) /\ SetPending(j)) \/ Undo(j)
  BY <1>1 DEF CallerNext, CallStep, Refuse, ReserveFault, Push, PushFault, CallerDies
<1>2. ASSUME NEW w \in Workers,
             \/ LocalStep(w) \/ TakeLock(w) \/ LockFault(w) \/ Release(w) \/ ReleaseFault(w)
             \/ RenewLock(w) \/ RenewLease(w) \/ \E j \in Jobs : Adopt(w, j) \/ Claim(w, j)
      PROVE  UNCHANGED <<now, pendingKey>>
  BY <1>2
  DEF LocalStep, Start, Stop, Crash, Scan, RunScan, ReadOrphan, ReadAs, LockBusy, Run, Finish,
      RefresherDies, SkipOrphan, TakeLock, LockFault, Release, ReleaseFault, RenewLock,
      RenewLease, Adopt, Claim
<1>3. ASSUME NEW w \in Workers, Ack(w) \/ AckFault(w)
      PROVE  \/ UNCHANGED <<now, pendingKey>>
             \/ Acks(w) /\ UNCHANGED <<now, call, reservedAt>>
  BY <1>3 DEF Ack, AckFault, Acks
<1>4. ASSUME NEW w \in Workers, Requeue(w)
      PROVE  UNCHANGED <<now, pendingKey>>
  BY <1>4 DEF Requeue, RequeueWith, RequeueScript
<1>5. ASSUME NEW w \in Workers, DeadLetter(w)
      PROVE  \/ UNCHANGED <<now, pendingKey>>
             \/ Buries(w) /\ UNCHANGED <<now, call, reservedAt>>
  BY <1>5 DEF DeadLetter, Buries
<1>6. ASSUME NEW s \in strays, StrayLock(s) \/ StrayLease(s)
      PROVE  UNCHANGED <<now, pendingKey>>
  BY <1>6 DEF StrayLock, StrayLease
<1> QED
  BY <1>1, <1>2, <1>3, <1>4, <1>5, <1>6, NextCases

LEMMA CallCases ==
  ASSUME Next
  PROVE  \/ \E j \in Jobs : CallerNext(j)
         \/ UNCHANGED <<call, reservedAt>> /\ (faults' = faults \/ Fault)
<1> USE DEF storeVars, history
<1>1. ASSUME NEW w \in Workers, LocalStep(w)
      PROVE  UNCHANGED <<call, reservedAt>> /\ (faults' = faults \/ Fault)
  BY <1>1 DEF LocalStep, Start, Stop, Crash, Scan, RunScan, ReadOrphan, ReadAs, LockBusy, Run,
              Finish, RefresherDies, SkipOrphan
<1>2. ASSUME NEW w \in Workers,
             \/ TakeLock(w) \/ LockFault(w) \/ Release(w) \/ ReleaseFault(w)
             \/ RenewLock(w) \/ RenewLease(w) \/ \E j \in Jobs : Adopt(w, j) \/ Claim(w, j)
      PROVE  UNCHANGED <<call, reservedAt>> /\ (faults' = faults \/ Fault)
  BY <1>2 DEF TakeLock, LockFault, Release, ReleaseFault, RenewLock, RenewLease, Adopt, Claim
<1>3. ASSUME NEW w \in Workers, Ack(w) \/ AckFault(w) \/ Requeue(w) \/ DeadLetter(w)
      PROVE  UNCHANGED <<call, reservedAt>> /\ (faults' = faults \/ Fault)
  BY <1>3 DEF Ack, AckFault, Requeue, RequeueWith, DeadLetter
<1>4. ASSUME NEW s \in strays, StrayLock(s) \/ StrayLease(s)
      PROVE  UNCHANGED <<call, reservedAt>> /\ (faults' = faults \/ Fault)
  BY <1>4 DEF StrayLock, StrayLease
<1>5. CASE Tick
  BY <1>5 DEF Tick
<1> QED
  BY <1>1, <1>2, <1>3, <1>4, <1>5, NextCases

\* An acknowledgement or a burial ends the activity of the job.
LEMMA SettlingMoves ==
  ASSUME PlaceInv, Next, NEW w \in Workers, Acks(w) \/ Buries(w), NEW j, j = job[w]
  PROVE  j \in Jobs /\ Active(j) /\ ~Active(j)'
<1>1. Ends(w)
  BY DEF Ends
<1>2. RemoveJob(job[w]) /\ payloads \in [Jobs -> Nat \union {NoPayload, BadPayload}]
  BY DEF Acks, Buries, AckScript, DeadScript, PlaceInv, TypeInv, TypeOK, StoreTypeOK
<1>3. j \in Jobs /\ InFlight(j) /\ ~InFlight(j)' /\ payloads'[j] = NoPayload
  BY <1>1, <1>2, EndsMoves DEF RemoveJob
<1>4. InOnePlace(j)'
  BY <1>3, PlaceInvariant DEF PlaceInv, OnePlace
<1> QED
  BY <1>3, <1>4 DEF InOnePlace, Active

\* A job becomes active by its push, and is settled, never to be active again,
\* by an acknowledgement or a burial that takes its key back.
LEMMA ActivityCases ==
  ASSUME PlaceInv, Next, NEW j \in Jobs
  PROVE  \/ (Active(j)' <=> Active(j)) /\ (Settled(j)' <=> Settled(j))
         \/ Pushes(j) /\ Active(j)' /\ ~Settled(j)'
         \/ \E w \in Workers : /\ j = job[w] /\ (Acks(w) \/ Buries(w))
                               /\ Active(j) /\ ~Active(j)'
<1> DEFINE Same == (Active(j)' <=> Active(j)) /\ (Settled(j)' <=> Settled(j))
<1>0. /\ inflight \in [Jobs -> Nat \union {NotLeased}] /\ now \in Nat
  BY DEF PlaceInv, TypeInv, TypeOK, StoreTypeOK
<1>1. ASSUME Untouched(j)
      PROVE  Same
  BY <1>1 DEF Untouched, Active, Settled, InFlight
<1>2. CASE JobsStay
  BY <1>2 DEF JobsStay, jobKeys, Active, Settled, InFlight, Queued
<1>3. ASSUME NEW k \in Jobs, Pushes(k), UNCHANGED <<done, deliveries>>
      PROVE  Same \/ (Pushes(j) /\ Active(j)' /\ ~Settled(j)')
  BY <1>1, <1>3, PushMoves DEF Active, Settled
<1>4. ASSUME NEW w \in Workers, NEW k \in Jobs, Claim(w, k)
      PROVE  Same
  BY <1>1, <1>4, ClaimMoves DEF Active, Settled
<1>5. ASSUME NEW w \in Workers, NEW k \in Jobs, Adopt(w, k)
      PROVE  Same
  BY <1>5, AdoptMoves DEF Active, Settled, InFlight, Queued
<1>6. ASSUME NEW k, NEW t, Renews(k, t), UNCHANGED <<done, deliveries, call>>
      PROVE  Same
  <2>1. InFlight(j)' <=> InFlight(j)
    BY <1>0, <1>6 DEF Renews, RenewLeaseScript, InFlight, NotLeased
  <2> QED
    BY <1>6, <2>1 DEF Renews, RenewLeaseScript, Active, Settled, Queued
<1>7. ASSUME NEW w \in Workers, Ends(w)
      PROVE  Same \/ (j = job[w] /\ (Acks(w) \/ Buries(w)) /\ Active(j) /\ ~Active(j)')
  <2>1. CASE j # job[w]
    BY <1>1, <1>7, <2>1, EndsMoves
  <2>2. CASE j = job[w] /\ ~(Acks(w) \/ Buries(w))
    <3>1. PICK c \in RequeueCutoffs(w) : GivesBack(w, c)
      BY <1>7, <2>2 DEF Ends
    <3>2. payloads'[j] = att[w] + 1 /\ att[w] \in Nat
      BY <2>2, <3>1 DEF GivesBack, RequeueScript, PlaceInv, TypeInv, TypeOK, StoreTypeOK,
                        ProcessTypeOK, LocalsTypeOK
    <3>3. InFlight(j) /\ Queued(j)' /\ done' = done /\ dead' = dead
      BY <1>7, <2>2, <3>1, <3>2, EndsMoves DEF NoPayload, GivesBack, RequeueScript
    <3> QED
      BY <3>3 DEF Active, Settled
  <2>3. CASE j = job[w] /\ (Acks(w) \/ Buries(w))
    BY <2>3, SettlingMoves
  <2> QED
    BY <2>1, <2>2, <2>3
<1> QED
  BY <1>2, <1>3, <1>4, <1>5, <1>6, <1>7, JobCases

LEMMA PendingStep ==
  ASSUME PlaceInv, PendingNamesLiveJob, Next
  PROVE  PendingNamesLiveJob'
<1>0. /\ call \in [Jobs -> Calls] /\ faults \in Nat
      /\ pending \in Jobs \union {NoJob} /\ pending' \in Jobs \union {NoJob}
  <2>1. PlaceInv'
    BY PlaceInvariant
  <2> QED
    BY <2>1 DEF PlaceInv, TypeInv, TypeOK, StoreTypeOK, ProcessTypeOK
<1>1. ASSUME NEW j \in Jobs, Active(j), Settled(j)
      PROVE  FALSE
  BY <1>1 DEF PlaceInv, OnePlace, InOnePlace
<1> SUFFICES ASSUME NEW p \in Jobs, pending' = p
             PROVE  ~Settled(p)' /\ (faults' = 0 => Active(p)' \/ call'[p] = "reserved")
  BY <1>0 DEF PendingNamesLiveJob
<1>2. faults' = faults \/ faults' = faults + 1
  BY CallCases DEF Fault, CallerNext, Reserve, Refuse, ReserveFault, Push, PushFault, Undo,
                   CallerDies
\* The key is new.
<1>3. CASE /\ call[p] = "none" /\ p \in Fresh
           /\ call'[p] = "reserved" \/ faults' = faults + 1
  <2>1. ~Active(p) /\ ~Settled(p) /\ ~Pushes(p)
    BY <1>3, PushMoves DEF PlaceInv, NotYetPushed
  <2>2. ~Settled(p)'
    BY <2>1, ActivityCases
  <2> QED
    BY <1>0, <1>3, <2>2
\* The key has been there.
<1>4. CASE pending = p
  <2>1. ~Settled(p) /\ (faults = 0 => Active(p) \/ call[p] = "reserved")
    BY <1>4, JobsAssumption DEF PendingNamesLiveJob
  <2>2. ASSUME NEW w \in Workers, p = job[w], Acks(w) \/ Buries(w)
        PROVE  FALSE
    BY <1>4, <2>2, JobsAssumption DEF Acks, Buries, AckScript, DeadScript, DropPending
  <2>3. call[p] = "reserved" => call'[p] = "reserved" \/ Pushes(p) \/ faults' = faults + 1
    <3>1. ASSUME NEW j \in Jobs, CallerNext(j)
          PROVE  call[p] = "reserved" => call'[p] = "reserved" \/ Pushes(p) \/ faults' = faults + 1
      BY <1>0, <3>1 DEF CallerNext, CallStep, Reserve, Refuse, ReserveFault, Push, PushFault,
                        Undo, CallerDies, Pushes, Fault
    <3> QED
      BY <3>1, CallCases
  <2>4. \/ (Active(p)' <=> Active(p)) /\ (Settled(p)' <=> Settled(p))
        \/ Pushes(p) /\ Active(p)' /\ ~Settled(p)'
    BY <2>2, ActivityCases
  <2>5. CASE Pushes(p) /\ Active(p)' /\ ~Settled(p)'
    BY <2>5
  <2>6. CASE ~Pushes(p)
    <3>1. faults' = 0 => faults = 0 /\ faults' # faults + 1
      BY <1>0, <1>2
    <3> QED
      BY <2>1, <2>3, <2>4, <2>6, <3>1
  <2>7. CASE Pushes(p) /\ ~Active(p)'
    BY <2>4, <2>7, PushMoves DEF Active
  <2> QED
    BY <2>1, <2>4, <2>5, <2>6, <2>7
<1>5. pending = p \/ /\ call[p] = "none" /\ p \in Fresh
                     /\ call'[p] = "reserved" \/ faults' = faults + 1
  <2>1. ASSUME NEW j \in Jobs, Reserve(j) \/ (ReserveFault(j) /\ SetPending(j))
        PROVE  p = j /\ call[p] = "none" /\ p \in Fresh
               /\ (call'[p] = "reserved" \/ faults' = faults + 1)
    BY <1>0, <2>1 DEF Reserve, ReserveFault, SetPending, CallStep, Fault
  <2>2. ASSUME NEW j \in Jobs, Undo(j)
        PROVE  pending = p
    BY <2>2, JobsAssumption DEF Undo, DropPending
  <2>3. ASSUME NEW w \in Workers, Acks(w) \/ Buries(w)
        PROVE  pending = p
    BY <2>3, JobsAssumption DEF Acks, Buries, AckScript, DeadScript, DropPending
  <2>4. CASE Tick
    BY <2>4, JobsAssumption DEF Tick, Advance
  <2> QED
    BY <2>1, <2>2, <2>3, <2>4, KeyCases DEF pendingKey
<1> QED
  BY <1>3, <1>4, <1>5

\* The deduplication key never names a job that is acknowledged or dead, and as
\* long as nothing has failed it names one that is being enqueued, waits or is
\* leased: every script that settles a job takes the key back with it
\* (jobs.py:52, 73, 110-120).
THEOREM PendingIsLive == Spec => []PendingNamesLiveJob
<1>1. Init => PendingNamesLiveJob
  BY DEF Init, StoreInit, PendingNamesLiveJob
<1>2. PlaceInv /\ PendingNamesLiveJob /\ [Next]_vars => PendingNamesLiveJob'
  <2>1. CASE PlaceInv /\ PendingNamesLiveJob /\ Next
    BY <2>1, PendingStep
  <2>2. CASE PendingNamesLiveJob /\ UNCHANGED vars
    BY <2>2 DEF PendingNamesLiveJob, vars, storeVars, workerVars, Settled, Active, Queued, InFlight
  <2> QED
    BY <2>1, <2>2
<1> QED
  BY <1>1, <1>2, PlaceInvariant, PTL DEF Spec

\* The call for j has the reservation, or has been accepted and j is not done.
Holding(j) == call[j] = "reserved" \/ Accepted(j)

\* Its key is there until its time is up.
KeysStand ==
    \A j \in Jobs : Holding(j) =>
        /\ reservedAt[j] \in Nat
        /\ \/ pending = j /\ pendingUntil = reservedAt[j] + DedupTTL
           \/ reservedAt[j] + DedupTTL <= now

HoldingsApart ==
    \A j, k \in Jobs :
        (Holding(j) /\ Holding(k) /\ j # k /\ reservedAt[j] <= reservedAt[k])
            => reservedAt[j] + DedupTTL <= reservedAt[k]

DedupInv == PlaceInv /\ KeysStand /\ HoldingsApart

\* A job that holds a reservation has held it, under a key that is there until
\* its time is up, or has just got it.
LEMMA HoldingCases ==
  ASSUME PlaceInv, Next, NEW j \in Jobs, Holding(j)'
  PROVE  \/ Reserve(j)
         \/ /\ Holding(j) /\ reservedAt'[j] = reservedAt[j]
            /\ pending = j => \/ UNCHANGED pendingKey
                              \/ pendingUntil <= now'
<1>0. /\ call \in [Jobs -> Calls] /\ reservedAt \in [Jobs -> Nat \union {Never}]
      /\ NoJob \notin Jobs /\ call'[j] \in {"reserved", "ok"}
  BY JobsAssumption DEF PlaceInv, TypeInv, TypeOK, HistoryTypeOK, ProcessTypeOK, Holding, Accepted
<1>1. ASSUME ~Reserve(j)
      PROVE  call[j] \in {"reserved", "ok"} /\ reservedAt'[j] = reservedAt[j]
             /\ (call[j] = "ok" => call'[j] = "ok")
  <2>1. ASSUME NEW k \in Jobs, CallerNext(k)
        PROVE  call[j] \in {"reserved", "ok"} /\ reservedAt'[j] = reservedAt[j]
               /\ (call[j] = "ok" => call'[j] = "ok")
    BY <1>0, <1>1, <2>1
    DEF CallerNext, CallStep, Reserve, Refuse, ReserveFault, Push, PushFault, Undo, CallerDies
  <2> QED
    BY <1>0, <2>1, CallCases
<1>2. ASSUME ~Reserve(j)
      PROVE  Holding(j)
  <2>1. CASE call[j] = "ok"
    <3>1. ~Pushes(j) /\ Active(j)'
      BY <1>0, <1>1, <1>2, <2>1, PushMoves DEF Holding, Accepted
    <3>2. Active(j)
      BY <3>1, ActivityCases
    <3> QED
      BY <2>1, <3>2 DEF Holding, Accepted
  <2>2. CASE call[j] = "reserved"
    BY <2>2 DEF Holding
  <2> QED
    BY <1>1, <1>2, <2>1, <2>2
<1>3. ASSUME ~Reserve(j), pending = j
      PROVE  UNCHANGED pendingKey \/ pendingUntil <= now'
  <2>1. ASSUME NEW k \in Jobs, Reserve(k) \/ (ReserveFault(k) /\ SetPending(k))
        PROVE  FALSE
    BY <1>0, <1>3, <2>1 DEF Reserve, SetPending
  <2>2. ASSUME NEW k \in Jobs, Undo(k)
        PROVE  UNCHANGED pendingKey
    <3>1. k # j
      BY <1>0, <2>2 DEF Undo, CallStep
    <3> QED
      BY <1>3, <2>2, <3>1 DEF Undo, DropPending, pendingKey
  <2>3. ASSUME NEW w \in Workers, Acks(w) \/ Buries(w), UNCHANGED call
        PROVE  UNCHANGED pendingKey
    <3>1. j # job[w]
      <4>1. j = job[w] => ~Active(j)' /\ Active(j)
        BY <2>3, SettlingMoves
      <4>2. Active(j) => call[j] # "reserved"
        BY DEF PlaceInv, NotYetPushed
      <4> QED
        BY <2>3, <4>1, <4>2 DEF Holding, Accepted
    <3> QED
      BY <1>3, <2>3, <3>1 DEF Acks, Buries, AckScript, DeadScript, DropPending, pendingKey
  <2>4. CASE Tick
    BY <2>4 DEF Tick, Advance, pendingKey
  <2> QED
    BY <2>1, <2>2, <2>3, <2>4, KeyCases
<1> QED
  BY <1>1, <1>2, <1>3

LEMMA DedupStep ==
  ASSUME DedupInv, Next
  PROVE  KeysStand' /\ HoldingsApart'
<1>0. /\ PlaceInv /\ KeysStand /\ HoldingsApart
      /\ now \in Nat /\ now' \in Nat /\ pendingUntil \in Nat /\ DedupTTL \in Nat \ {0}
      /\ reservedAt \in [Jobs -> Nat \union {Never}] /\ NoJob \notin Jobs
  <2>1. PlaceInv'
    BY PlaceInvariant DEF DedupInv
  <2> QED
    BY <2>1, TTLAssumption, JobsAssumption
    DEF DedupInv, PlaceInv, TypeInv, TypeOK, StoreTypeOK, HistoryTypeOK
<1>1. now <= now'
  BY <1>0, KeyCases DEF Tick, Advance, Reserve, ReserveFault, Undo, CallStep
<1>2. ASSUME NEW j \in Jobs, Reserve(j)
      PROVE  /\ pending = NoJob /\ pending' = j /\ pendingUntil' = now + DedupTTL
             /\ reservedAt'[j] = now /\ now' = now
  BY <1>0, <1>2 DEF Reserve, SetPending, CallStep
<1>3. ASSUME NEW j \in Jobs, Holding(j)'
      PROVE  /\ reservedAt'[j] \in Nat
             /\ \/ pending' = j /\ pendingUntil' = reservedAt'[j] + DedupTTL
                \/ reservedAt'[j] + DedupTTL <= now'
  <2>1. CASE Reserve(j)
    BY <1>0, <1>2, <2>1
  <2>2. CASE /\ Holding(j) /\ reservedAt'[j] = reservedAt[j]
             /\ pending = j => UNCHANGED pendingKey \/ pendingUntil <= now'
    BY <1>0, <1>1, <2>2 DEF KeysStand, pendingKey
  <2> QED
    BY <1>0, <1>3, <2>1, <2>2, HoldingCases
<1>4. ASSUME NEW j \in Jobs, NEW k \in Jobs, Holding(j)', Holding(k)', j # k,
             reservedAt'[j] <= reservedAt'[k]
      PROVE  reservedAt'[j] + DedupTTL <= reservedAt'[k]
  <2>1. CASE Reserve(j)
    <3>1. ~Reserve(k)
      BY <1>0, <1>2, <1>4, <2>1
    <3>2. Holding(k) /\ reservedAt'[k] = reservedAt[k]
      BY <1>0, <1>4, <3>1, HoldingCases
    <3>3. reservedAt[k] \in Nat /\ reservedAt[k] + DedupTTL <= now
      BY <1>0, <1>2, <2>1, <3>2 DEF KeysStand
    <3> QED
      BY <1>0, <1>2, <1>4, <2>1, <3>2, <3>3
  <2>2. CASE ~Reserve(j)
    <3>1. Holding(j) /\ reservedAt'[j] = reservedAt[j] /\ reservedAt[j] \in Nat
      BY <1>0, <1>4, <2>2, HoldingCases DEF KeysStand
    <3>2. CASE Reserve(k)
      <4>1. pending = NoJob /\ reservedAt'[k] = now
        BY <1>2, <3>2
      <4> QED
        BY <1>0, <3>1, <4>1 DEF KeysStand
    <3>3. CASE ~Reserve(k)
      BY <1>0, <1>4, <3>1, <3>3, HoldingCases DEF HoldingsApart
    <3> QED
      BY <3>2, <3>3
  <2> QED
    BY <2>1, <2>2
<1> QED
  BY <1>3, <1>4 DEF KeysStand, HoldingsApart

\* Two analyses accepted and not yet done were accepted at least the
\* deduplication time apart, whatever failed and whoever took a key back in
\* between (jobs.py:105-129).
THEOREM AcceptedApart == Spec => []DedupWindow
<1>1. Init => DedupInv
  <2>1. Init => KeysStand /\ HoldingsApart
    BY DEF Init, KeysStand, HoldingsApart, Holding, Accepted
  <2> QED
    BY <2>1, PlaceInvariant DEF DedupInv
<1>2. DedupInv /\ [Next]_vars => DedupInv'
  <2>1. CASE DedupInv /\ Next
    BY <2>1, DedupStep, PlaceInvariant DEF DedupInv
  <2>2. CASE DedupInv /\ UNCHANGED vars
    <3>1. \A j \in Jobs : Holding(j)' <=> Holding(j)
      BY <2>2 DEF Holding, Accepted, Active, Queued, InFlight, vars, storeVars
    <3>2. UNCHANGED <<now, pending, pendingUntil, reservedAt>>
      BY <2>2 DEF vars, storeVars
    <3> QED
      BY <2>2, <3>1, <3>2, PlaceInvariant DEF DedupInv, KeysStand, HoldingsApart
  <2> QED
    BY <2>1, <2>2
<1>3. DedupInv => DedupWindow
  BY DEF DedupInv, HoldingsApart, Holding, DedupWindow
<1> QED
  BY <1>1, <1>2, <1>3, PTL DEF Spec

-----------------------------------------------------------------------------
(* A run whose refresher lives.  The steps between two Redis commands take *)
(* no time (PromptSpec), so the lease and LOCK are never older than the    *)
(* refresher's interval, which is shorter than their times to live.        *)

LeasesOfTheTime == \A j \in Jobs : inflight[j] <= now

\* A job just claimed has been leased now.
ClaimsAreNew ==
    \A w \in Workers : pc[w] = "claimed" => claims[job[w]] = tok[w] /\ inflight[job[w]] = now

\* What the refresher of w has renewed, and when it is going to do so again.
Refreshed(w) ==
    /\ lock = tok[w] /\ claims[job[w]] = tok[w]
    /\ ref[w] = "wait" => /\ now <= due[w] /\ due[w] <= inflight[job[w]] + RefreshEvery
                          /\ due[w] + LockTTL <= lockUntil + RefreshEvery
    /\ ref[w] = "lease" => /\ now <= inflight[job[w]] + RefreshEvery
                           /\ now + LockTTL <= lockUntil

RunsAreRefreshed == \A w \in Workers : pc[w] = "running" /\ ref[w] # "off" => Refreshed(w)

RefreshInv ==
    /\ PlaceInv /\ TokensAreOwned /\ CutoffsPassed
    /\ LeasesOfTheTime /\ lockUntil <= now + LockTTL
    /\ ClaimsAreNew /\ RunsAreRefreshed

LEMMA RefreshTypes ==
  ASSUME RefreshInv
  PROVE  /\ pc \in [Workers -> Pcs] /\ job \in [Workers -> Jobs \union {NoJob}]
         /\ tok \in [Workers -> Nat] /\ ref \in [Workers -> Refs] /\ due \in [Workers -> Nat]
         /\ inflight \in [Jobs -> Nat \union {NotLeased}] /\ claims \in [Jobs -> Nat]
         /\ now \in Nat /\ lock \in Nat /\ lockUntil \in Nat /\ NotLeased = -1
         /\ LockTTL \in Nat \ {0} /\ LeaseTTL \in Nat \ {0} /\ RefreshEvery \in Nat
         /\ \A w \in Workers : pc[w] \in Handling => job[w] \in Jobs
  BY TTLAssumption, RunAssumption
  DEF RefreshInv, PlaceInv, TypeInv, TypeOK, StoreTypeOK, ProcessTypeOK, LocalsTypeOK,
      BusyWithAJob, NotLeased

LEMMA TimeCases == Next => Tick \/ now' = now
<1>1. ASSUME NEW j \in Jobs, Reserve(j) \/ ReserveFault(j) \/ Undo(j)
      PROVE  now' = now
  BY <1>1 DEF Reserve, ReserveFault, Undo, CallStep
<1> QED
  BY <1>1, KeyCases

\* Where a worker that has just claimed a job or runs one comes from.
LEMMA RunCases ==
  ASSUME TypeInv, Next, NEW w \in Workers
  PROVE  /\ pc'[w] = "claimed" =>
              \/ \E j \in Jobs : Claim(w, j)
              \/ pc[w] = "claimed" /\ Keeps(w)
         /\ pc'[w] = "running" /\ ref'[w] # "off" =>
              \/ TakeLock(w) \/ RenewLock(w) \/ RenewLease(w)
              \/ /\ pc[w] = "running" /\ Keeps(w)
                 /\ ref'[w] = ref[w] /\ due'[w] = due[w]
<1> DEFINE Goal ==
      /\ pc'[w] = "claimed" =>
           \/ \E j \in Jobs : Claim(w, j)
           \/ pc[w] = "claimed" /\ Keeps(w)
      /\ pc'[w] = "running" /\ ref'[w] # "off" =>
           \/ TakeLock(w) \/ RenewLock(w) \/ RenewLease(w)
           \/ /\ pc[w] = "running" /\ Keeps(w)
              /\ ref'[w] = ref[w] /\ due'[w] = due[w]
<1> USE DEF Keeps, Handling, workerVars, claimVars, runVars
<1>0. /\ pc \in [Workers -> Pcs] /\ job \in [Workers -> Jobs \union {NoJob}]
      /\ tok \in [Workers -> Nat] /\ ref \in [Workers -> Refs] /\ due \in [Workers -> Nat]
  BY DEF TypeInv, TypeOK, ProcessTypeOK, LocalsTypeOK
<1>1. ASSUME NEW j \in Jobs, CallerNext(j)
      PROVE  Goal
  BY <1>1 DEF CallerNext, CallStep, Reserve, Refuse, ReserveFault, Push, PushFault, Undo,
              CallerDies
<1>2. ASSUME NEW v \in Workers, NEW j \in Jobs, Adopt(v, j) \/ Claim(v, j)
      PROVE  Goal
  <2>1. CASE v = w
    BY <1>0, <1>2, <2>1 DEF Adopt, Claim
  <2>2. CASE v # w
    BY <1>0, <1>2, <2>2 DEF Adopt, Claim
  <2> QED
    BY <2>1, <2>2
<1>3. ASSUME NEW v \in Workers, LocalStep(v)
      PROVE  Goal
  <2>1. CASE Start(v) \/ Stop(v) \/ Crash(v) \/ Scan(v) \/ \E j \in Jobs : SkipOrphan(v, j)
    BY <1>0, <2>1 DEF Start, Stop, Crash, Scan, RunScan, SkipOrphan, NextOrphan, Forget, NoClaim,
                      NoRun
  <2>2. CASE ReadOrphan(v) \/ LockBusy(v) \/ Run(v) \/ RefresherDies(v)
    BY <1>0, <2>2 DEF ReadOrphan, ReadAs, LockBusy, Run, Finish, RefresherDies, Conclude, NoRun
  <2> QED
    BY <1>3, <2>1, <2>2 DEF LocalStep
<1>4. ASSUME NEW v \in Workers, TakeLock(v) \/ RenewLock(v) \/ RenewLease(v)
      PROVE  Goal
  <2>1. CASE v = w
    BY <1>0, <1>4, <2>1 DEF TakeLock, RenewLock, RenewLease
  <2>2. CASE v # w
    BY <1>0, <1>4, <2>2 DEF TakeLock, RenewLock, RenewLease
  <2> QED
    BY <2>1, <2>2
<1>5. ASSUME NEW v \in Workers, LockFault(v) \/ Release(v) \/ ReleaseFault(v)
      PROVE  Goal
  BY <1>0, <1>5 DEF LockFault, Release, ReleaseFault, Conclude, NoRun
<1>6. ASSUME NEW v \in Workers, Ack(v) \/ AckFault(v) \/ Requeue(v) \/ DeadLetter(v)
      PROVE  Goal
  BY <1>0, <1>6
  DEF Ack, AckFault, Requeue, RequeueWith, DeadLetter, MoveOn, NextOrphan, Forget, NoClaim,
      NoRun, Conclude
<1>7. ASSUME NEW s \in strays, StrayLock(s) \/ StrayLease(s)
      PROVE  Goal
  BY <1>7 DEF StrayLock, StrayLease
<1>8. CASE Tick
  BY <1>8 DEF Tick
<1> QED
  BY <1>1, <1>2, <1>3, <1>4, <1>5, <1>6, <1>7, <1>8, NextCases

\* Nobody else touches the lock of a run, unless to renew it.
LEMMA LockKept ==
  ASSUME TypeInv, TokensAreOwned, Next, now' = now,
         NEW w \in Workers, pc[w] = "running", pc'[w] = "running", lock = tok[w]
  PROVE  lock' = lock /\ (lockUntil' = lockUntil \/ lockUntil' = now + LockTTL)
<1> DEFINE Goal == lock' = lock /\ (lockUntil' = lockUntil \/ lockUntil' = now + LockTTL)
<1> USE DEF storeVars, lockKey
<1>0. /\ pc \in [Workers -> Pcs] /\ tok \in [Workers -> Nat] /\ now \in Nat
      /\ lock # 0
  BY DEF TypeInv, TypeOK, StoreTypeOK, ProcessTypeOK, LocalsTypeOK, TokensAreOwned, Owning
<1>1. ASSUME NEW j \in Jobs, CallerNext(j)
      PROVE  Goal
  BY <1>1 DEF CallerNext, CallStep, Reserve, Refuse, ReserveFault, Push, PushFault, Undo,
              CallerDies
<1>2. ASSUME NEW v \in Workers,
             \/ LocalStep(v) \/ RenewLease(v)
             \/ Ack(v) \/ AckFault(v) \/ Requeue(v) \/ DeadLetter(v)
             \/ \E j \in Jobs : Adopt(v, j) \/ Claim(v, j)
      PROVE  Goal
  BY <1>2
  DEF LocalStep, Start, Stop, Crash, Scan, RunScan, ReadOrphan, ReadAs, LockBusy, Run, Finish,
      RefresherDies, SkipOrphan, RenewLease, Ack, AckFault, Requeue, RequeueWith, DeadLetter,
      Adopt, Claim
<1>3. ASSUME NEW v \in Workers, TakeLock(v) \/ LockFault(v)
      PROVE  Goal
  BY <1>0, <1>3 DEF TakeLock, LockFault, SetLock
<1>4. ASSUME NEW v \in Workers, Release(v) \/ ReleaseFault(v)
      PROVE  Goal
  <2>1. pc[v] = "release" /\ v # w
    BY <1>4 DEF Release, ReleaseFault
  <2>2. tok[v] # lock
    BY <2>1 DEF TokensAreOwned, Owning
  <2> QED
    BY <1>4, <2>2 DEF Release, ReleaseFault, DropLock
<1>5. ASSUME NEW v \in Workers, RenewLock(v)
      PROVE  Goal
  BY <1>5 DEF RenewLock, RenewLockScript
<1>6. ASSUME NEW s \in strays, StrayLock(s) \/ StrayLease(s)
      PROVE  Goal
  BY <1>6 DEF StrayLock, StrayLease, RenewLockScript
<1>7. CASE Tick
  BY <1>0, <1>7 DEF Tick, Advance
<1> QED
  BY <1>1, <1>2, <1>3, <1>4, <1>5, <1>6, <1>7, NextCases

\* While the lease of a worker that is about to run, or runs, is younger than the
\* lease time, nobody takes its claim away, and only a renewal touches the lease.
LEMMA LeaseStands ==
  ASSUME RefreshInv, Next, NEW w \in Workers,
         pc[w] \in {"claimed", "running"},
         NEW j, j = job[w], claims[j] = tok[w], now < inflight[j] + LeaseTTL
  PROVE  claims'[j] = tok[w] /\ (inflight'[j] = inflight[j] \/ inflight'[j] = now)
<1>0. /\ j \in Jobs /\ PlaceInv /\ CutoffsPassed /\ TokensAreOwned
      /\ now \in Nat /\ LeaseTTL \in Nat \ {0} /\ claims[j] # 0 /\ InFlight(j)
      /\ inflight \in [Jobs -> Nat \union {NotLeased}] /\ claims \in [Jobs -> Nat]
  <2>1. tok[w] # 0
    BY DEF RefreshInv, TokensAreOwned, Owning
  <2>2. j \in Jobs /\ OnePlace
    BY RefreshTypes DEF Handling, RefreshInv, PlaceInv
  <2> QED
    BY <2>1, <2>2, RefreshTypes DEF RefreshInv, OnePlace, InOnePlace
<1>1. CASE JobsStay
  BY <1>1 DEF JobsStay, jobKeys
<1>2. ASSUME NEW k \in Jobs, Pushes(k)
      PROVE  UNCHANGED <<inflight, claims>>
  BY <1>0, <1>2, PushMoves
<1>3. ASSUME NEW v \in Workers, NEW k \in Jobs, Claim(v, k)
      PROVE  Untouched(j)
  <2>1. k # j
    BY <1>0, <1>3, ClaimMoves
  <2> QED
    BY <1>0, <1>3, <2>1, ClaimMoves
<1>4. ASSUME NEW v \in Workers, NEW k \in Jobs, Adopt(v, k)
      PROVE  claims'[j] = claims[j] /\ inflight' = inflight
  BY <1>0, <1>4, AdoptMoves
<1>5. ASSUME NEW k, NEW t, Renews(k, t)
      PROVE  claims' = claims /\ (inflight'[j] = inflight[j] \/ inflight'[j] = now)
  BY <1>0, <1>5 DEF Renews, RenewLeaseScript
<1>6. ASSUME NEW v \in Workers, Ends(v)
      PROVE  Untouched(j)
  <2>1. CASE j # job[v]
    BY <1>0, <1>6, <2>1, EndsMoves
  <2>2. CASE j = job[v]
    <3>1. ~InFlight(j)'
      BY <1>0, <1>6, <2>2, EndsMoves
    <3>2. PICK u \in Workers : EndsLease(u, j)
      BY <1>0, <3>1, EndsRightly
    <3>3. CASE pc[u] = "settle"
      <4>1. u = w
        BY <1>0, <3>2, <3>3 DEF EndsLease, TokensAreOwned, Owning
      <4> QED
        BY <3>3, <4>1
    <3>4. CASE inflight[j] <= cutoff[u] /\ cutoff[u] <= now - LeaseTTL /\ pc[u] = "decide"
      <4>1. cutoff[u] \in Int /\ inflight[j] \in Int
        BY <1>0 DEF PlaceInv, TypeInv, TypeOK, ProcessTypeOK, LocalsTypeOK, NotLeased
      <4> QED
        BY <1>0, <3>4, <4>1
    <3> QED
      BY <3>2, <3>3, <3>4 DEF EndsLease
  <2> QED
    BY <2>1, <2>2
<1> QED
  BY <1>1, <1>2, <1>3, <1>4, <1>5, <1>6, JobCases DEF Untouched

\* Leases are given and renewed at the time it is.
LEMMA LeasesAreOfTheTime ==
  ASSUME RefreshInv, Next
  PROVE  LeasesOfTheTime'
<1>0. /\ PlaceInv /\ now \in Nat /\ now' \in Nat /\ now <= now' /\ NotLeased = -1
      /\ inflight \in [Jobs -> Nat \union {NotLeased}] /\ \A j \in Jobs : inflight[j] <= now
  BY RefreshTypes, TimeCases DEF RefreshInv, LeasesOfTheTime, Tick, Advance
<1> SUFFICES ASSUME NEW j \in Jobs
             PROVE  inflight'[j] \in {inflight[j], now, NotLeased}
  BY <1>0 DEF LeasesOfTheTime
<1>1. CASE UNCHANGED inflight
  BY <1>1
<1>2. ASSUME NEW v \in Workers, NEW k \in Jobs, Claim(v, k)
      PROVE  inflight'[j] \in {inflight[j], now}
  BY <1>0, <1>2, ClaimMoves DEF Untouched
<1>3. ASSUME NEW k, NEW t, Renews(k, t)
      PROVE  inflight'[j] \in {inflight[j], now}
  BY <1>0, <1>3 DEF Renews, RenewLeaseScript
<1>4. ASSUME NEW v \in Workers, Ends(v)
      PROVE  inflight'[j] \in {inflight[j], NotLeased}
  <2>1. CASE j = job[v]
    BY <1>0, <1>4, <2>1, EndsMoves DEF InFlight
  <2>2. CASE j # job[v]
    BY <1>0, <1>4, <2>2, EndsMoves DEF Untouched
  <2> QED
    BY <2>1, <2>2
<1>5. \/ UNCHANGED inflight
      \/ \E v \in Workers, k \in Jobs : Claim(v, k)
      \/ \E k, t : Renews(k, t)
      \/ \E v \in Workers : Ends(v)
  BY <1>0, JobCases, PushMoves, AdoptMoves DEF JobsStay, jobKeys
<1> QED
  BY <1>1, <1>2, <1>3, <1>4, <1>5

\* LOCK is never given longer than its time to live.
LEMMA LockEnds ==
  ASSUME TypeInv, lockUntil <= now + LockTTL, Next
  PROVE  lockUntil' <= now' + LockTTL
<1> USE DEF storeVars, lockKey
<1>0. now \in Nat /\ lockUntil \in Nat /\ LockTTL \in Nat
  BY TTLAssumption DEF TypeInv, TypeOK, StoreTypeOK
<1>1. ASSUME NEW j \in Jobs, CallerNext(j)
      PROVE  UNCHANGED <<now, lockUntil>>
  BY <1>1 DEF CallerNext, CallStep, Reserve, Refuse, ReserveFault, Push, PushFault, Undo,
              CallerDies
<1>2. ASSUME NEW v \in Workers,
             \/ LocalStep(v) \/ RenewLease(v)
             \/ Ack(v) \/ AckFault(v) \/ Requeue(v) \/ DeadLetter(v)
             \/ \E j \in Jobs : Adopt(v, j) \/ Claim(v, j)
      PROVE  UNCHANGED <<now, lockUntil>>
  BY <1>2
  DEF LocalStep, Start, Stop, Crash, Scan, RunScan, ReadOrphan, ReadAs, LockBusy, Run, Finish,
      RefresherDies, SkipOrphan, RenewLease, Ack, AckFault, Requeue, RequeueWith, DeadLetter,
      Adopt, Claim
<1>3. ASSUME NEW v \in Workers,
             TakeLock(v) \/ LockFault(v) \/ Release(v) \/ ReleaseFault(v) \/ RenewLock(v)
      PROVE  now' = now /\ (lockUntil' = lockUntil \/ lockUntil' = 0 \/ lockUntil' = now + LockTTL)
  BY <1>3 DEF TakeLock, LockFault, Release, ReleaseFault, RenewLock, SetLock, DropLock,
              RenewLockScript
<1>4. ASSUME NEW s \in strays, StrayLock(s) \/ StrayLease(s)
      PROVE  now' = now /\ (lockUntil' = lockUntil \/ lockUntil' = now + LockTTL)
  BY <1>4 DEF StrayLock, StrayLease, RenewLockScript
<1>5. CASE Tick
  <2>1. now' = now + 1 /\ (lockUntil' = lockUntil \/ lockUntil' = 0)
    BY <1>5 DEF Tick, Advance
  <2> QED
    BY <1>0, <2>1
<1>6. \/ now' = now /\ (lockUntil' = lockUntil \/ lockUntil' = 0 \/ lockUntil' = now + LockTTL)
      \/ lockUntil' <= now' + LockTTL
  BY <1>1, <1>2, <1>3, <1>4, <1>5, NextCases
<1> QED
  BY <1>0, <1>6

LEMMA RefreshStep ==
  ASSUME RefreshEvery < LockTTL, RefreshEvery < LeaseTTL,
         RefreshInv, Next, now' # now => Quiet
  PROVE  ClaimsAreNew' /\ RunsAreRefreshed'
<1>0. /\ PlaceInv /\ TypeInv /\ TokensAreOwned /\ LeasesOfTheTime /\ lockUntil <= now + LockTTL
      /\ ClaimsAreNew /\ RunsAreRefreshed
      /\ pc \in [Workers -> Pcs] /\ ref \in [Workers -> Refs] /\ due \in [Workers -> Nat]
      /\ now \in Nat /\ lockUntil \in Nat /\ LockTTL \in Nat \ {0} /\ LeaseTTL \in Nat \ {0}
      /\ RefreshEvery \in Nat /\ \A j \in Jobs : inflight[j] \in Int
  BY RefreshTypes DEF RefreshInv, PlaceInv
<1>1. ASSUME NEW w \in Workers, pc[w] \in {"claimed", "running"},
             pc[w] = "running" => ref[w] # "off"
      PROVE  /\ job[w] \in Jobs /\ claims[job[w]] = tok[w] /\ now < inflight[job[w]] + LeaseTTL
             /\ inflight[job[w]] <= now /\ claims'[job[w]] = tok[w]
             /\ inflight'[job[w]] = inflight[job[w]] \/ inflight'[job[w]] = now
  <2>1. job[w] \in Jobs
    BY <1>1, RefreshTypes DEF Handling
  <2>2. claims[job[w]] = tok[w] /\ now < inflight[job[w]] + LeaseTTL
    <3>1. CASE pc[w] = "claimed"
      BY <1>0, <2>1, <3>1 DEF ClaimsAreNew
    <3>2. CASE pc[w] = "running"
      <4>1. Refreshed(w) /\ ref[w] \in {"wait", "lease"}
        BY <1>0, <1>1, <3>2 DEF RunsAreRefreshed, Refs
      <4> QED
        BY <1>0, <2>1, <4>1 DEF Refreshed
    <3> QED
      BY <1>1, <3>1, <3>2
  <2> QED
    BY <1>0, <1>1, <2>1, <2>2, LeaseStands DEF LeasesOfTheTime
<1>2. ASSUME NEW w \in Workers, pc'[w] = "claimed"
      PROVE  claims'[job'[w]] = tok'[w] /\ inflight'[job'[w]] = now'
  <2>1. ASSUME NEW j \in Jobs, Claim(w, j)
        PROVE  claims'[job'[w]] = tok'[w] /\ inflight'[job'[w]] = now'
    <3>1. job'[w] = j /\ tok'[w] = nextTok /\ now' = now
      BY <2>1, RefreshTypes DEF Claim
    <3> QED
      BY <1>0, <2>1, <3>1, ClaimMoves
  <2>2. CASE pc[w] = "claimed" /\ Keeps(w)
    <3>1. now' = now
      BY <2>2 DEF Quiet
    <3>2. inflight[job[w]] = now
      BY <1>0, <2>2 DEF ClaimsAreNew
    <3> QED
      BY <1>1, <2>2, <3>1, <3>2 DEF Keeps
  <2> QED
    BY <1>0, <1>2, <2>1, <2>2, RunCases
<1>3. ASSUME NEW w \in Workers, pc'[w] = "running", ref'[w] # "off"
      PROVE  Refreshed(w)'
  <2>1. CASE TakeLock(w)
    <3>1. /\ pc[w] = "claimed" /\ job' = job /\ tok' = tok /\ now' = now /\ claims' = claims
          /\ inflight' = inflight /\ lock' = tok[w] /\ lockUntil' = now + LockTTL
          /\ ref'[w] = "wait" /\ due'[w] = now + RefreshEvery
      BY <1>0, <2>1 DEF TakeLock, SetLock, jobKeys, claimVars
    <3>2. claims[job[w]] = tok[w] /\ inflight[job[w]] = now
      BY <1>0, <3>1 DEF ClaimsAreNew
    <3> QED
      BY <1>0, <3>1, <3>2 DEF Refreshed
  <2>2. CASE RenewLock(w)
    <3>1. /\ pc[w] = "running" /\ ref[w] = "wait" /\ due[w] <= now
          /\ job' = job /\ tok' = tok /\ now' = now /\ claims' = claims /\ inflight' = inflight
      BY <2>2 DEF RenewLock, jobKeys, claimVars
    <3>2. Refreshed(w)
      BY <1>0, <3>1 DEF RunsAreRefreshed
    <3>3. lock' = tok[w] /\ lockUntil' = now + LockTTL /\ ref'[w] = "lease"
      BY <1>0, <1>3, <2>2 DEF RenewLock, RenewLockScript
    <3>4. job[w] \in Jobs
      BY <1>1, <3>1
    <3> QED
      BY <1>0, <3>1, <3>2, <3>3, <3>4 DEF Refreshed
  <2>3. CASE RenewLease(w)
    <3>1. /\ pc[w] = "running" /\ ref[w] = "lease"
          /\ job' = job /\ tok' = tok /\ now' = now
          /\ lock' = lock /\ lockUntil' = lockUntil
          /\ ref'[w] = "wait" /\ due'[w] = now + RefreshEvery
      BY <1>0, <2>3 DEF RenewLease, lockKey, claimVars
    <3>2. Refreshed(w) /\ job[w] \in Jobs /\ claims[job[w]] = tok[w] /\ tok[w] # 0
      BY <1>0, <1>1, <3>1 DEF RunsAreRefreshed, TokensAreOwned, Owning
    <3>3. InFlight(job[w])
      BY <1>0, <3>2 DEF PlaceInv, OnePlace, InOnePlace
    <3>4. claims' = claims /\ inflight'[job[w]] = now
      BY <2>3, <3>2, <3>3, RefreshTypes DEF RenewLease, RenewLeaseScript, HoldsClaim
    <3> QED
      BY <1>0, <3>1, <3>2, <3>4 DEF Refreshed
  <2>4. CASE pc[w] = "running" /\ Keeps(w) /\ ref'[w] = ref[w] /\ due'[w] = due[w]
    <3>1. Refreshed(w) /\ ref[w] \in {"wait", "lease"}
      BY <1>0, <1>3, <2>4 DEF RunsAreRefreshed, Refs
    <3>2. /\ job[w] \in Jobs /\ job'[w] = job[w] /\ tok'[w] = tok[w] /\ claims'[job[w]] = tok[w]
          /\ inflight[job[w]] <= now
          /\ inflight'[job[w]] = inflight[job[w]] \/ inflight'[job[w]] = now
      BY <1>1, <1>3, <2>4 DEF Keeps
    <3>3. CASE now' = now
      <4>1. lock' = lock /\ (lockUntil' = lockUntil \/ lockUntil' = now + LockTTL)
        BY <1>0, <1>3, <2>4, <3>1, <3>3, LockKept DEF Refreshed
      <4> QED
        BY <1>0, <2>4, <3>1, <3>2, <3>3, <4>1 DEF Refreshed
    <3>4. CASE Tick
      <4>1. now' = now + 1 /\ inflight' = inflight /\ ref[w] = "wait" /\ now + 1 <= due[w]
        BY <1>0, <2>4, <3>1, <3>4 DEF Tick, Advance, Awake, jobKeys
      <4>2. now + 1 < lockUntil
        BY <1>0, <3>1, <4>1 DEF Refreshed
      <4>3. lock' = lock /\ lockUntil' = lockUntil
        BY <1>0, <3>4, <4>1, <4>2 DEF Tick, Advance
      <4> QED
        BY <1>0, <2>4, <3>1, <3>2, <4>1, <4>3 DEF Refreshed
    <3> QED
      BY <3>3, <3>4, TimeCases
  <2> QED
    BY <1>0, <1>3, <2>1, <2>2, <2>3, <2>4, RunCases
<1> QED
  BY <1>2, <1>3 DEF ClaimsAreNew, RunsAreRefreshed

\* A run whose refresher lives keeps LOCK and its claim, however long it takes:
\* nobody starts a second pipeline or takes its job for an orphan meanwhile.  The
\* refresher sleeps a third of the shorter time to live (jobs.py:226-232).
THEOREM RunnersStayInCharge ==
  ASSUME RefreshEvery < LockTTL, RefreshEvery < LeaseTTL
  PROVE  PromptSpec => []RunnersKeepTheirClaim
<1>1. Init => RefreshInv
  <2>1. Init => TokensAreOwned /\ LeasesOfTheTime /\ ClaimsAreNew /\ RunsAreRefreshed
                /\ lockUntil <= now + LockTTL
    BY TTLAssumption
    DEF Init, StoreInit, TokensAreOwned, Owning, LeasesOfTheTime, ClaimsAreNew, RunsAreRefreshed,
        NotLeased, Epoch
  <2> QED
    BY <2>1, PlaceInvariant, CutoffInvariant DEF RefreshInv
<1>2. RefreshInv /\ [PromptNext]_vars => RefreshInv'
  <2>1. CASE RefreshInv /\ PromptNext
    <3>1. Next /\ (now' # now => Quiet) /\ PlaceInv /\ TypeInv /\ CutoffsPassed
      BY <2>1 DEF PromptNext, RefreshInv, PlaceInv
    <3>2. PlaceInv' /\ TokensAreOwned' /\ CutoffsPassed'
      BY <2>1, <3>1, PlaceInvariant, TokensStep, CutoffInvariant DEF RefreshInv
    <3>3. LeasesOfTheTime' /\ lockUntil' <= now' + LockTTL
      BY <2>1, <3>1, LeasesAreOfTheTime, LockEnds DEF RefreshInv
    <3>4. ClaimsAreNew' /\ RunsAreRefreshed'
      BY <2>1, <3>1, RefreshStep
    <3> QED
      BY <3>2, <3>3, <3>4 DEF RefreshInv
  <2>2. CASE RefreshInv /\ UNCHANGED vars
    <3>1. PlaceInv' /\ CutoffsPassed'
      BY <2>2, PlaceInvariant, CutoffInvariant DEF RefreshInv, PlaceInv
    <3> QED
      BY <2>2, <3>1
      DEF RefreshInv, TokensAreOwned, LeasesOfTheTime, ClaimsAreNew, RunsAreRefreshed, Refreshed,
          vars, storeVars, workerVars
  <2> QED
    BY <2>1, <2>2
<1>3. RefreshInv => RunnersKeepTheirClaim
  BY DEF RefreshInv, RunsAreRefreshed, Refreshed, RunnersKeepTheirClaim, Running
<1> QED
  BY <1>1, <1>2, <1>3, PTL DEF PromptSpec
=============================================================================
