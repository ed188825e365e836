--------------------------- MODULE PaperRepository ---------------------------
(***************************************************************************)
(* data_store.py: PaperRepository.get, step by step.  A web process keeps  *)
(* a snapshot of each file under the signature it was read at, a lock lets *)
(* one of its threads at a time fill it, and the processes share a Redis   *)
(* cache, which may fail or forget at any time.                            *)
(*                                                                         *)
(* A signature (inode, mtime, size) tells the versions of a file apart, so *)
(* it is the version number.  A step is one access to shared state.        *)
(***************************************************************************)
EXTENDS PaperReads

CONSTANTS
    Replicas,       \* web processes
    Home,           \* Home[t]: the process of thread t
    NoReader        \* nobody holds the lock of a repository

ASSUME HomeAssumption ==
    /\ Home \in [Readers -> Replicas]
    /\ NoReader \notin Readers

Nothing == -1       \* no snapshot, or Redis has nothing under the key

VARIABLES
    snapshot,   \* snapshot[r][f]: signature and content process r keeps
    shared,     \* shared[f][s]: the content Redis has for file f, signature s
    holder,     \* holder[r]: the thread that has the lock of process r
    at,         \* at[t]: what thread t does next
    raw         \* raw[t]: the bytes it has read

vars == <<fileVars, callVars, snapshot, shared, holder, at, raw>>

Init ==
    /\ FilesInit /\ CallsInit
    /\ snapshot = [r \in Replicas |-> [f \in Files |-> [sig |-> Nothing, content |-> 0]]]
    /\ shared = [f \in Files |-> [s \in Versions |-> Nothing]]
    /\ holder = [r \in Replicas |-> NoReader]
    /\ at = [t \in Readers |-> "idle"]
    /\ raw = [t \in Readers |-> 0]

Go(t, place) == at' = [at EXCEPT ![t] = place]

\* get returns v and forgets its locals.
Answer(t, v) ==
    /\ Go(t, "got")
    /\ value' = [value EXCEPT ![t] = v]
    /\ raw' = [raw EXCEPT ![t] = 0]
    /\ UNCHANGED <<fileVars, asked, floor>>

Step(t, place) == Go(t, place) /\ UNCHANGED <<fileVars, callVars>>

Kept(t) == snapshot[Home[t]][asked[t]]
Hit(t) == Kept(t).sig = floor[t]

\* stat: the signature, which is the floor of the call, or OSError.
Stat(t, f) ==
    /\ Call(t, f)
    /\ Go(t, IF disk[f] = 0 THEN "absent" ELSE "check")
    /\ UNCHANGED <<snapshot, shared, holder, raw>>

Absent(t) ==
    /\ at[t] = "absent"
    /\ Answer(t, 0)
    /\ UNCHANGED <<snapshot, shared, holder>>

\* The look at the snapshot without the lock.
Check(t) ==
    /\ at[t] = "check"
    /\ \/ Hit(t) /\ Answer(t, Kept(t).content)
       \/ ~Hit(t) /\ Step(t, "lock") /\ UNCHANGED raw
    /\ UNCHANGED <<snapshot, shared, holder>>

\* Mutation: no look back at the signature under the lock.
LockAnyHit(t) ==
    /\ at[t] = "lock"
    /\ holder[Home[t]] = NoReader
    /\ \/ /\ Kept(t).sig # Nothing
          /\ Answer(t, Kept(t).content)
          /\ UNCHANGED holder
       \/ /\ Kept(t).sig = Nothing
          /\ Step(t, "ask")
          /\ holder' = [holder EXCEPT ![Home[t]] = t]
          /\ UNCHANGED raw
    /\ UNCHANGED <<snapshot, shared>>

\* The lock is taken and the snapshot looked at again.
Lock(t) ==
    /\ at[t] = "lock"
    /\ holder[Home[t]] = NoReader
    /\ \/ Hit(t) /\ Answer(t, Kept(t).content) /\ UNCHANGED holder
       \/ /\ ~Hit(t)
          /\ Step(t, "ask")
          /\ holder' = [holder EXCEPT ![Home[t]] = t]
          /\ UNCHANGED raw
    /\ UNCHANGED <<snapshot, shared>>

\* Redis answers with what it has under the key, or not at all.
Ask(t) ==
    /\ at[t] = "ask"
    /\ \/ /\ shared[asked[t]][floor[t]] # Nothing
          /\ Step(t, "store")
          /\ raw' = [raw EXCEPT ![t] = shared[asked[t]][floor[t]]]
       \/ Step(t, "read") /\ UNCHANGED raw
    /\ UNCHANGED <<snapshot, shared, holder>>

\* The bytes are those the file has now.
ReadBytes(t) ==
    /\ at[t] = "read"
    /\ Step(t, "share")
    /\ raw' = [raw EXCEPT ![t] = disk[asked[t]]]
    /\ UNCHANGED <<snapshot, shared, holder>>

\* setex under the signature, or a failure that is passed over.
Share(t) ==
    /\ at[t] = "share"
    /\ Step(t, "store")
    /\ \/ shared' = [shared EXCEPT ![asked[t]][floor[t]] = raw[t]]
       \/ UNCHANGED shared
    /\ UNCHANGED <<snapshot, holder, raw>>

\* Mutation: the lock stays taken.
StoreAndKeepLock(t) ==
    /\ at[t] = "store"
    /\ Answer(t, raw[t])
    /\ snapshot' = [snapshot EXCEPT ![Home[t]][asked[t]] =
                      [sig |-> floor[t], content |-> raw[t]]]
    /\ UNCHANGED <<shared, holder>>

\* The bytes are parsed and kept, and the lock is released.
Store(t) ==
    /\ at[t] = "store"
    /\ Answer(t, raw[t])
    /\ snapshot' = [snapshot EXCEPT ![Home[t]][asked[t]] =
                      [sig |-> floor[t], content |-> raw[t]]]
    /\ holder' = [holder EXCEPT ![Home[t]] = NoReader]
    /\ UNCHANGED shared

Leave(t) ==
    /\ Collect(t)
    /\ Go(t, "idle")
    /\ UNCHANGED <<snapshot, shared, holder, raw>>

\* CACHE_TTL_SECONDS is over, or Redis lost the key.
Expire(f, s) ==
    /\ shared[f][s] # Nothing
    /\ shared' = [shared EXCEPT ![f][s] = Nothing]
    /\ UNCHANGED <<fileVars, callVars, snapshot, holder, at, raw>>

GetStep(t) ==
    Absent(t) \/ Check(t) \/ Lock(t) \/ Ask(t) \/ ReadBytes(t) \/ Share(t) \/ Store(t)

Next ==
    \/ Save /\ UNCHANGED <<callVars, snapshot, shared, holder, at, raw>>
    \/ \E f \in Files, s \in Versions : Expire(f, s)
    \/ \E t \in Readers : GetStep(t) \/ Leave(t) \/ \E f \in Files : Stat(t, f)

Spec == Init /\ [][Next]_vars

\* A thread that runs get is scheduled.
FairSpec == Spec /\ \A t \in Readers : WF_vars(GetStep(t))

-----------------------------------------------------------------------------
\* get returns a content the file has had since the call began: neither a
\* snapshot an overtaken thread has put back, nor what Redis kept, nor a file
\* replaced between stat and read shows a reader the past (data_store.py:56-99).
Promise == INSTANCE PaperReads
ReadsAreFresh == Promise!ReadsSpec

\* Every call returns, whatever Redis does and however the threads of the
\* process meet at the lock: "an unavailable cache never makes the API
\* unavailable" (data_store.py:20-22).
EveryCallReturns == \A t \in Readers : asked[t] # NoFile ~> value[t] # Unread
=============================================================================
