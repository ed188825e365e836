--------------------------- MODULE RepositoryProofs ---------------------------
(***************************************************************************)
(* Proofs about PaperRepository for any files, processes, threads and      *)
(* number of versions: PaperRepository.get of data_store.py keeps to what  *)
(* PaperReads promises its callers.                                        *)
(***************************************************************************)
EXTENDS PaperRepository, TLAPS

Places == {"idle", "absent", "check", "lock", "ask", "read", "share", "store", "got"}

\* The places under the lock of the repository.
Filling == {"ask", "read", "share", "store"}

Types ==
    /\ disk \in [Files -> Versions]
    /\ asked \in [Readers -> Files \cup {NoFile}]
    /\ floor \in [Readers -> Versions]
    /\ value \in [Readers -> Versions \cup {Unread}]
    /\ snapshot \in [Replicas -> [Files -> [sig : Versions \cup {Nothing}, content : Versions]]]
    /\ shared \in [Files -> [Versions -> Versions \cup {Nothing}]]
    /\ holder \in [Replicas -> Readers \cup {NoReader}]
    /\ at \in [Readers -> Places]
    /\ raw \in [Readers -> Versions]

\* A thread is in a call from stat to its end, and has no answer before it has
\* got one.
Calling ==
    \A t \in Readers :
        /\ at[t] = "idle" <=> asked[t] = NoFile
        /\ at[t] # "got" => value[t] = Unread
        /\ at[t] = "absent" => floor[t] = 0

\* The content v, kept or read under signature s, is one that f has had since
\* it had this signature.
Since(f, s, v) == s <= v /\ v <= disk[f]

CallsSince == \A t \in Readers : at[t] # "idle" => floor[t] <= disk[asked[t]]
BytesSince ==
    \A t \in Readers : at[t] \in {"share", "store"} => Since(asked[t], floor[t], raw[t])
SnapshotsSince ==
    \A r \in Replicas, f \in Files :
        snapshot[r][f].sig # Nothing => Since(f, snapshot[r][f].sig, snapshot[r][f].content)
SharedSince ==
    \A f \in Files, s \in Versions : shared[f][s] # Nothing => Since(f, s, shared[f][s])

ReadInv == Types /\ Calling /\ CallsSince /\ BytesSince /\ SnapshotsSince /\ SharedSince

\* A thread is at one of the places under the lock exactly while it holds it.
LockHeld == \A t \in Readers : at[t] \in Filling <=> holder[Home[t]] = t

-----------------------------------------------------------------------------
LEMMA Initially == Init => ReadInv /\ LockHeld
  BY FileAssumption, HomeAssumption, ReadAssumption
  DEF Init, FilesInit, CallsInit, ReadInv, Types, Calling, CallsSince, BytesSince,
      SnapshotsSince, SharedSince, LockHeld, Places, Filling, Versions, Unread, Nothing

LEMMA NextCases ==
  ASSUME Next
  PROVE  \/ Save /\ UNCHANGED <<callVars, snapshot, shared, holder, at, raw>>
         \/ \E f \in Files, s \in Versions : Expire(f, s)
         \/ \E t \in Readers : \/ Absent(t) \/ Check(t) \/ Lock(t) \/ Ask(t) \/ ReadBytes(t)
                               \/ Share(t) \/ Store(t) \/ Leave(t)
                               \/ \E f \in Files : Stat(t, f)
  BY DEF Next, GetStep

LEMMA Replacing ==
  ASSUME Types, NEW g \in Files, Replace(g)
  PROVE  disk' \in [Files -> Versions] /\ \A f \in Files : disk[f] <= disk'[f]
<1>1. MaxVersion \in Nat /\ disk \in [Files -> 0..MaxVersion]
  BY FileAssumption DEF Types, Versions
<1>2. disk[g] + 1 \in 0..MaxVersion
  BY <1>1 DEF Replace
<1> QED
  BY <1>1, <1>2 DEF Replace, Versions

\* A file only goes on to later versions.
LEMMA SavesGoOn ==
  ASSUME Types, Save
  PROVE  disk' \in [Files -> Versions] /\ \A f \in Files : disk[f] <= disk'[f]
<1>1. CASE UNCHANGED disk
  BY <1>1, FileAssumption DEF Types, Versions
<1>2. CASE \E f \in Files : Replace(f)
  BY <1>2, Replacing
<1> QED
  BY <1>1, <1>2, FileAssumption DEF Save, SaveCurrent, SaveArchive, SaveInterrupted

LEMMA SaveStep ==
  ASSUME ReadInv, LockHeld, Save, UNCHANGED <<callVars, snapshot, shared, holder, at, raw>>
  PROVE  ReadInv' /\ LockHeld'
<1>1. disk' \in [Files -> Versions] /\ \A f \in Files : disk[f] <= disk'[f]
  BY SavesGoOn DEF ReadInv
<1>2. Versions \subseteq Nat /\ \A f \in Files : disk[f] \in Nat /\ disk'[f] \in Nat
  <2>1. Versions \subseteq Nat
    BY FileAssumption DEF Versions
  <2> QED
    BY <1>1, <2>1 DEF ReadInv, Types
<1>3. Types' /\ Calling' /\ LockHeld'
  BY <1>1 DEF ReadInv, Types, Calling, LockHeld, callVars
<1>4. \A t \in Readers : at[t] # "idle" => asked[t] \in Files
  BY DEF ReadInv, Types, Calling
<1>5. \A f \in Files, s, v \in Versions : Since(f, s, v) => Since(f, s, v)'
  BY <1>1, <1>2 DEF Since
<1>6. CallsSince'
  <2>1. \A t \in Readers : floor[t] \in Nat
    BY <1>2 DEF ReadInv, Types
  <2> QED
    BY <1>1, <1>2, <1>4, <2>1 DEF ReadInv, CallsSince, callVars
<1>7. BytesSince'
  BY <1>4, <1>5 DEF ReadInv, Types, BytesSince, callVars
<1>8. SnapshotsSince'
  BY <1>5 DEF ReadInv, Types, SnapshotsSince
<1>9. SharedSince'
  BY <1>5 DEF ReadInv, Types, SharedSince
<1> QED
  BY <1>3, <1>6, <1>7, <1>8, <1>9 DEF ReadInv

LEMMA CallStep ==
  ASSUME ReadInv, LockHeld, NEW t \in Readers, NEW f \in Files, Stat(t, f)
  PROVE  ReadInv' /\ LockHeld'
<1>1. disk[f] \in Versions /\ disk[f] \in Nat /\ f # NoFile
  BY FileAssumption, ReadAssumption DEF ReadInv, Types, Versions
<1>2. at[t] = "idle" /\ at' = [at EXCEPT ![t] = IF disk[f] = 0 THEN "absent" ELSE "check"]
  BY DEF Stat, Call, Go, ReadInv, Calling
<1>3. Types' /\ UNCHANGED <<disk, snapshot, shared, holder, raw, value>>
  BY <1>1, <1>2 DEF ReadInv, Types, Places, Stat, Call, fileVars
<1>4. Calling' /\ LockHeld'
  BY <1>1, <1>2, <1>3 DEF ReadInv, Types, Calling, LockHeld, Filling, Stat, Call
<1>5. CallsSince' /\ BytesSince'
  BY <1>1, <1>2, <1>3 DEF ReadInv, Types, CallsSince, BytesSince, Since, Stat, Call
<1>6. SnapshotsSince' /\ SharedSince'
  BY <1>3 DEF ReadInv, SnapshotsSince, SharedSince, Since
<1> QED
  BY <1>3, <1>4, <1>5, <1>6 DEF ReadInv

\* A thread has an answer when it gives one that its file has had since the
\* call began, and if it has the lock it gives it back.
LEMMA AnswerStep ==
  ASSUME ReadInv, NEW t \in Readers, NEW v \in Versions,
         at[t] \notin {"idle", "got"}, Answer(t, v),
         UNCHANGED <<snapshot, shared>>
  PROVE  /\ at' = [at EXCEPT ![t] = "got"]
         /\ holder' \in [Replicas -> Readers \cup {NoReader}] => ReadInv'
<1>1. UNCHANGED <<disk, asked, floor>> /\ at' = [at EXCEPT ![t] = "got"]
  BY DEF Answer, Go, fileVars
<1>2. 0 \in Versions
  BY FileAssumption DEF Versions
<1>3. ASSUME holder' \in [Replicas -> Readers \cup {NoReader}]
      PROVE  Types'
  BY <1>1, <1>2, <1>3 DEF ReadInv, Types, Places, Answer
<1>4. Calling'
  BY <1>1 DEF ReadInv, Types, Calling, Answer
<1>5. CallsSince' /\ SnapshotsSince' /\ SharedSince'
  BY <1>1 DEF ReadInv, Types, CallsSince, SnapshotsSince, SharedSince, Since
<1>6. BytesSince'
  BY <1>1 DEF ReadInv, Types, BytesSince, Since, Answer
<1> QED
  BY <1>1, <1>3, <1>4, <1>5, <1>6 DEF ReadInv

\* What a thread that is in a call knows of its file.
LEMMA InCall ==
  ASSUME ReadInv, NEW t \in Readers, at[t] # "idle"
  PROVE  /\ asked[t] \in Files /\ floor[t] \in Versions /\ disk[asked[t]] \in Versions
         /\ floor[t] <= disk[asked[t]]
         /\ Home[t] \in Replicas
         /\ Hit(t) => Kept(t).content \in Versions
                        /\ Since(asked[t], floor[t], Kept(t).content)
<1>1. asked[t] \in Files /\ floor[t] \in Versions /\ disk[asked[t]] \in Versions
  BY DEF ReadInv, Types, Calling
<1>2. Home[t] \in Replicas /\ floor[t] # Nothing
  BY <1>1, HomeAssumption, FileAssumption DEF Versions, Nothing
<1>3. snapshot[Home[t]][asked[t]].content \in Versions
  BY <1>1, <1>2 DEF ReadInv, Types
<1> QED
  BY <1>1, <1>2, <1>3 DEF ReadInv, CallsSince, SnapshotsSince, Hit, Kept

\* A thread that goes on in its call and leaves the file and the call alone.
LEMMA GoesOn ==
  ASSUME ReadInv, LockHeld, NEW t \in Readers, at[t] \notin {"idle", "got"},
         NEW place \in Filling \cup {"lock"}, Step(t, place),
         raw' \in [Readers -> Versions],
         \A u \in Readers \ {t} : raw'[u] = raw[u],
         place \in {"share", "store"} => Since(asked[t], floor[t], raw'[t]),
         UNCHANGED snapshot,
         shared' \in [Files -> [Versions -> Versions \cup {Nothing}]],
         SharedSince',
         \/ UNCHANGED holder /\ (at[t] \in Filling <=> place \in Filling)
         \/ /\ holder[Home[t]] = NoReader /\ place \in Filling
            /\ holder' = [holder EXCEPT ![Home[t]] = t]
  PROVE  ReadInv' /\ LockHeld'
<1>1. /\ UNCHANGED <<disk, asked, floor, value>>
      /\ at' = [at EXCEPT ![t] = place]
      /\ place \in Places \ {"idle", "absent", "got"}
  BY DEF Step, Go, fileVars, callVars, Filling, Places
<1>2. Home \in [Readers -> Replicas] /\ NoReader \notin Readers
  BY HomeAssumption
<1>3. Types' /\ Calling'
  BY <1>1, <1>2 DEF ReadInv, Types, Calling
<1>4. CallsSince' /\ SnapshotsSince'
  BY <1>1 DEF ReadInv, Types, CallsSince, SnapshotsSince, Since
<1>5. BytesSince'
  BY <1>1 DEF ReadInv, Types, BytesSince, Since
<1>6. ASSUME NEW u \in Readers
      PROVE  at'[u] \in Filling <=> holder'[Home[u]] = u
  <2>1. Home[u] \in Replicas /\ Home[t] \in Replicas /\ u # NoReader
    BY <1>2
  <2>2. at[u] \in Filling <=> holder[Home[u]] = u
    BY DEF LockHeld
  <2>3. at[t] \in Filling <=> holder[Home[t]] = t
    BY DEF LockHeld
  <2>4. at'[u] = IF u = t THEN place ELSE at[u]
    BY <1>1 DEF ReadInv, Types
  <2>5. \/ UNCHANGED holder /\ (at[t] \in Filling <=> place \in Filling)
        \/ /\ holder[Home[t]] = NoReader /\ place \in Filling
           /\ holder'[Home[u]] = IF Home[u] = Home[t] THEN t ELSE holder[Home[u]]
    BY <2>1 DEF ReadInv, Types
  <2> QED
    BY <2>1, <2>2, <2>3, <2>4, <2>5
<1> QED
  BY <1>3, <1>4, <1>5, <1>6 DEF ReadInv, LockHeld

\* The thread gives an answer, with the lock if it holds it.
LEMMA AnswerLock ==
  ASSUME ReadInv, LockHeld, NEW t \in Readers, at[t] \notin {"idle", "got"},
         at' = [at EXCEPT ![t] = "got"],
         \/ UNCHANGED holder /\ at[t] \notin Filling
         \/ holder' = [holder EXCEPT ![Home[t]] = NoReader] /\ at[t] \in Filling
  PROVE  LockHeld' /\ holder' \in [Replicas -> Readers \cup {NoReader}]
<1>1. Home \in [Readers -> Replicas] /\ NoReader \notin Readers
  BY HomeAssumption
<1>2. holder' \in [Replicas -> Readers \cup {NoReader}]
  BY DEF ReadInv, Types
<1>3. ASSUME NEW u \in Readers
      PROVE  at'[u] \in Filling <=> holder'[Home[u]] = u
  <2>1. Home[u] \in Replicas /\ Home[t] \in Replicas /\ u # NoReader
    BY <1>1
  <2>2. at[u] \in Filling <=> holder[Home[u]] = u
    BY DEF LockHeld
  <2>3. at[t] \in Filling <=> holder[Home[t]] = t
    BY DEF LockHeld
  <2>4. at'[u] = IF u = t THEN "got" ELSE at[u]
    BY DEF ReadInv, Types
  <2>5. \/ UNCHANGED holder /\ at[t] \notin Filling
        \/ /\ at[t] \in Filling
           /\ holder'[Home[u]] = IF Home[u] = Home[t] THEN NoReader ELSE holder[Home[u]]
    BY <2>1 DEF ReadInv, Types
  <2>6. "got" \notin Filling
    BY DEF Filling
  <2> QED
    BY <2>1, <2>2, <2>3, <2>4, <2>5, <2>6
<1> QED
  BY <1>2, <1>3 DEF LockHeld

\* Each of the steps of get keeps the invariant.
LEMMA GetSteps ==
  ASSUME ReadInv, LockHeld, NEW t \in Readers,
         Absent(t) \/ Check(t) \/ Lock(t) \/ Ask(t) \/ ReadBytes(t) \/ Share(t) \/ Store(t)
  PROVE  ReadInv' /\ LockHeld'
<1>0. at[t] \notin {"idle", "got"}
  BY DEF Absent, Check, Lock, Ask, ReadBytes, Share, Store
<1> USE <1>0, InCall
<1>1. UNCHANGED raw => raw' \in [Readers -> Versions] /\ UNCHANGED raw
  BY DEF ReadInv, Types
<1>2. UNCHANGED <<shared, disk>> =>
        SharedSince' /\ shared' \in [Files -> [Versions -> Versions \cup {Nothing}]]
  BY DEF ReadInv, Types, SharedSince, Since
<1>3. ASSUME NEW v \in Versions, Answer(t, v), UNCHANGED <<snapshot, shared>>,
             \/ UNCHANGED holder /\ at[t] \notin Filling
             \/ holder' = [holder EXCEPT ![Home[t]] = NoReader] /\ at[t] \in Filling
      PROVE  ReadInv' /\ LockHeld'
  BY <1>3, AnswerStep, AnswerLock
<1>4. CASE Absent(t)
  BY <1>3, <1>4, FileAssumption DEF Absent, Filling, Versions
<1>5. CASE Check(t)
  <2>1. CASE Hit(t) /\ Answer(t, Kept(t).content)
    BY <1>3, <1>5, <2>1 DEF Check, Filling
  <2>2. CASE Step(t, "lock") /\ UNCHANGED raw
    BY <1>1, <1>2, <1>5, <2>2, GoesOn DEF Check, Step, fileVars, Filling
  <2> QED
    BY <1>5, <2>1, <2>2 DEF Check
<1>6. CASE Lock(t)
  <2>1. CASE Hit(t) /\ Answer(t, Kept(t).content) /\ UNCHANGED holder
    BY <1>3, <1>6, <2>1 DEF Lock, Filling
  <2>2. CASE /\ Step(t, "ask") /\ UNCHANGED raw
             /\ holder' = [holder EXCEPT ![Home[t]] = t]
    BY <1>1, <1>2, <1>6, <2>2, GoesOn DEF Lock, Step, fileVars, Filling
  <2> QED
    BY <1>6, <2>1, <2>2 DEF Lock
<1>7. CASE Ask(t)
  <2>1. CASE /\ shared[asked[t]][floor[t]] # Nothing /\ Step(t, "store")
             /\ raw' = [raw EXCEPT ![t] = shared[asked[t]][floor[t]]]
    <3>1. /\ shared[asked[t]][floor[t]] \in Versions
          /\ Since(asked[t], floor[t], shared[asked[t]][floor[t]])
      BY <2>1 DEF ReadInv, Types, SharedSince
    <3>2. /\ raw' \in [Readers -> Versions]
          /\ raw'[t] = shared[asked[t]][floor[t]]
          /\ \A u \in Readers \ {t} : raw'[u] = raw[u]
      BY <2>1, <3>1 DEF ReadInv, Types
    <3> QED
      BY <1>2, <1>7, <2>1, <3>1, <3>2, GoesOn DEF Ask, Step, fileVars, Filling
  <2>2. CASE Step(t, "read") /\ UNCHANGED raw
    BY <1>1, <1>2, <1>7, <2>2, GoesOn DEF Ask, Step, fileVars, Filling
  <2> QED
    BY <1>7, <2>1, <2>2 DEF Ask
<1>8. CASE ReadBytes(t)
  <2>1. /\ raw' \in [Readers -> Versions]
        /\ raw'[t] = disk[asked[t]]
        /\ \A u \in Readers \ {t} : raw'[u] = raw[u]
    BY <1>8 DEF ReadBytes, ReadInv, Types
  <2>2. Since(asked[t], floor[t], raw'[t])
    BY <2>1, FileAssumption DEF Since, Versions
  <2> QED
    BY <1>2, <1>8, <2>1, <2>2, GoesOn DEF ReadBytes, Step, fileVars, Filling
<1>9. CASE Share(t)
  <2>1. Since(asked[t], floor[t], raw[t]) /\ raw[t] \in Versions
    BY <1>9 DEF Share, ReadInv, Types, BytesSince
  <2>2. CASE shared' = [shared EXCEPT ![asked[t]][floor[t]] = raw[t]]
    <3>1. shared' \in [Files -> [Versions -> Versions \cup {Nothing}]]
      BY <2>1, <2>2 DEF ReadInv, Types
    <3>2. ASSUME NEW f \in Files, NEW s \in Versions
          PROVE  \/ shared'[f][s] = shared[f][s]
                 \/ f = asked[t] /\ s = floor[t] /\ shared'[f][s] = raw[t]
      BY <2>2 DEF ReadInv, Types
    <3>3. SharedSince'
      BY <1>9, <2>1, <3>2 DEF Share, Step, fileVars, ReadInv, SharedSince, Since
    <3> QED
      BY <1>1, <1>9, <2>1, <3>1, <3>3, GoesOn DEF Share, Filling
  <2> QED
    BY <1>1, <1>2, <1>9, <2>1, <2>2, GoesOn DEF Share, Step, fileVars, Filling
<1>10. CASE Store(t)
  <2>1. Since(asked[t], floor[t], raw[t]) /\ raw[t] \in Versions
    BY <1>10 DEF Store, ReadInv, Types, BytesSince
  <2>2. UNCHANGED <<disk, asked, floor, shared>>
    BY <1>10 DEF Store, Answer, fileVars
  <2>3. LockHeld' /\ holder' \in [Replicas -> Readers \cup {NoReader}]
    BY <1>10, AnswerLock DEF Store, Answer, Go, Filling
  <2>4. ASSUME NEW r \in Replicas, NEW f \in Files
        PROVE  \/ snapshot'[r][f] = snapshot[r][f]
               \/ f = asked[t] /\ snapshot'[r][f] = [sig |-> floor[t], content |-> raw[t]]
    BY <1>10 DEF Store, ReadInv, Types
  <2>5. SnapshotsSince'
    BY <2>1, <2>2, <2>4 DEF ReadInv, SnapshotsSince, Since
  <2>6. snapshot' \in [Replicas ->
                         [Files -> [sig : Versions \cup {Nothing}, content : Versions]]]
    BY <1>10, <2>1 DEF Store, ReadInv, Types
  <2>7. Types'
    BY <1>10, <2>1, <2>2, <2>3, <2>6, FileAssumption
    DEF Store, Answer, Go, ReadInv, Types, Places, Versions
  <2>8. Calling' /\ CallsSince' /\ BytesSince' /\ SharedSince'
    BY <1>10, <2>2 DEF Store, Answer, Go, ReadInv, Types, Calling, CallsSince, BytesSince,
                       SharedSince, Since
  <2> QED
    BY <2>3, <2>5, <2>7, <2>8 DEF ReadInv
<1> QED
  BY <1>4, <1>5, <1>6, <1>7, <1>8, <1>9, <1>10

LEMMA OtherSteps ==
  ASSUME ReadInv, LockHeld,
         \/ \E t \in Readers : Leave(t)
         \/ \E f \in Files, s \in Versions : Expire(f, s)
  PROVE  ReadInv' /\ LockHeld'
<1>1. ASSUME NEW t \in Readers, Leave(t)
      PROVE  ReadInv' /\ LockHeld'
  <2>1. at[t] = "got" /\ at' = [at EXCEPT ![t] = "idle"]
    BY <1>1 DEF Leave, Collect, Go, ReadInv, Calling, Types, Unread
  <2>2. 0 \in Versions
    BY FileAssumption DEF Versions
  <2>3. Types' /\ UNCHANGED <<disk, snapshot, shared, holder, raw>>
    BY <1>1, <2>1, <2>2 DEF Leave, Collect, fileVars, ReadInv, Types, Places
  <2>4. Calling' /\ LockHeld'
    BY <1>1, <2>1, <2>3 DEF Leave, Collect, ReadInv, Types, Calling, LockHeld, Filling
  <2>5. CallsSince' /\ BytesSince'
    BY <1>1, <2>1, <2>3 DEF Leave, Collect, ReadInv, Types, CallsSince, BytesSince, Since
  <2>6. SnapshotsSince' /\ SharedSince'
    BY <2>3 DEF ReadInv, SnapshotsSince, SharedSince, Since
  <2> QED
    BY <2>3, <2>4, <2>5, <2>6 DEF ReadInv
<1>2. ASSUME NEW f \in Files, NEW s \in Versions, Expire(f, s)
      PROVE  ReadInv' /\ LockHeld'
  <2>1. UNCHANGED <<disk, asked, floor, value, snapshot, holder, at, raw>>
    BY <1>2 DEF Expire, fileVars, callVars
  <2>2. /\ shared' \in [Files -> [Versions -> Versions \cup {Nothing}]]
        /\ \A g \in Files, v \in Versions :
             shared'[g][v] = shared[g][v] \/ shared'[g][v] = Nothing
    BY <1>2 DEF Expire, ReadInv, Types
  <2>3. SharedSince'
    BY <2>1, <2>2 DEF ReadInv, SharedSince, Since
  <2> QED
    BY <2>1, <2>2, <2>3
    DEF ReadInv, LockHeld, Types, Calling, CallsSince, BytesSince, SnapshotsSince, Since
<1> QED
  BY <1>1, <1>2

LEMMA ReadStep == ReadInv /\ LockHeld /\ [Next]_vars => ReadInv' /\ LockHeld'
<1>1. CASE ReadInv /\ LockHeld /\ Next
  BY <1>1, NextCases, SaveStep, CallStep, GetSteps, OtherSteps
<1>2. CASE ReadInv /\ LockHeld /\ UNCHANGED vars
  BY <1>2 DEF vars, fileVars, callVars, ReadInv, LockHeld, Types, Calling, CallsSince,
              BytesSince, SnapshotsSince, SharedSince, Since
<1> QED
  BY <1>1, <1>2

\* In a process one thread at a time asks Redis for a file, reads it or keeps
\* it: the others wait for the lock (data_store.py:72-99).
THEOREM OneThreadFills ==
  Spec => [](\A t, u \in Readers :
                at[t] \in Filling /\ at[u] \in Filling /\ Home[t] = Home[u] => t = u)
<1>1. LockHeld => \A t, u \in Readers :
          at[t] \in Filling /\ at[u] \in Filling /\ Home[t] = Home[u] => t = u
  BY DEF LockHeld
<1> QED
  BY <1>1, Initially, ReadStep, PTL DEF Spec

-----------------------------------------------------------------------------
(* Every step of get is one of PaperReads, or none of its steps.           *)

\* An answer between the signature of the call and that of the file now is
\* what PaperReads allows.
LEMMA AnswerReturns ==
  ASSUME ReadInv, NEW t \in Readers, NEW v \in Versions, at[t] \notin {"idle", "got"},
         Answer(t, v), Since(asked[t], floor[t], v)
  PROVE  Promise!Return(t)
<1>1. v \in floor[t]..disk[asked[t]]
  BY InCall, FileAssumption DEF Since, Versions
<1> QED
  BY <1>1 DEF Promise!Return, Promise!Unread, Promise!fileVars, Answer, fileVars, ReadInv, Calling,
              Unread

LEMMA GetRefines ==
  ASSUME ReadInv, NEW t \in Readers,
         Absent(t) \/ Check(t) \/ Lock(t) \/ Ask(t) \/ ReadBytes(t) \/ Share(t) \/ Store(t)
  PROVE  Promise!Return(t) \/ UNCHANGED <<fileVars, callVars>>
<1>0. at[t] \notin {"idle", "got"}
  BY DEF Absent, Check, Lock, Ask, ReadBytes, Share, Store
<1>1. CASE \E place \in Places : Step(t, place)
  BY <1>1 DEF Step
<1>2. CASE Absent(t)
  <2>1. 0 \in Versions /\ Since(asked[t], floor[t], 0)
    BY <1>0, <1>2, InCall, FileAssumption DEF Absent, ReadInv, Calling, Since, Versions
  <2> QED
    BY <1>0, <1>2, <2>1, AnswerReturns DEF Absent
<1>3. CASE Hit(t) /\ Answer(t, Kept(t).content)
  BY <1>0, <1>3, InCall, AnswerReturns
<1>4. CASE Store(t)
  <2>1. raw[t] \in Versions /\ Since(asked[t], floor[t], raw[t])
    BY <1>4 DEF Store, ReadInv, Types, BytesSince
  <2> QED
    BY <1>0, <1>4, <2>1, AnswerReturns DEF Store
<1> QED
  BY <1>1, <1>2, <1>3, <1>4 DEF Check, Lock, Ask, ReadBytes, Share, Places

\* PaperRepository.get implements PaperReads: what it returns is a content that
\* the file has had since the call began, however many threads and processes
\* fill and overtake each other's snapshots, and whatever Redis has or loses
\* (data_store.py:56-99).
THEOREM GetKeepsItsPromise == Spec => ReadsAreFresh
<1>1. Init => Promise!FilesInit /\ Promise!CallsInit
  BY DEF Init, FilesInit, CallsInit, Unread, Promise!FilesInit, Promise!CallsInit, Promise!Unread
<1>2. ReadInv /\ [Next]_vars => [Promise!ReadsNext]_<<Promise!fileVars, Promise!callVars>>
  <2> SUFFICES ASSUME ReadInv, Next
               PROVE  Promise!ReadsNext \/ UNCHANGED <<Promise!fileVars, Promise!callVars>>
    BY DEF vars, fileVars, callVars, Promise!fileVars, Promise!callVars
  <2>2. CASE Save /\ UNCHANGED <<callVars, snapshot, shared, holder, at, raw>>
    BY <2>2
    DEF Save, SaveCurrent, SaveArchive, SaveInterrupted, Replace, Promise!ReadsNext, Promise!Save,
        Promise!SaveCurrent, Promise!SaveArchive, Promise!SaveInterrupted, Promise!Replace,
        callVars, Promise!callVars
  <2>3. CASE \E f \in Files, s \in Versions : Expire(f, s)
    BY <2>3 DEF Expire, fileVars, callVars, Promise!fileVars, Promise!callVars
  <2>4. ASSUME NEW t \in Readers,
               \/ Absent(t) \/ Check(t) \/ Lock(t) \/ Ask(t) \/ ReadBytes(t)
               \/ Share(t) \/ Store(t)
        PROVE  Promise!ReadsNext \/ UNCHANGED <<Promise!fileVars, Promise!callVars>>
    <3>1. Promise!Return(t) => Promise!ReadsNext
      BY DEF Promise!ReadsNext, Promise!ReaderNext
    <3>2. UNCHANGED <<fileVars, callVars>> => UNCHANGED <<Promise!fileVars, Promise!callVars>>
      BY DEF fileVars, callVars, Promise!fileVars, Promise!callVars
    <3> QED
      BY <2>4, <3>1, <3>2, GetRefines
  <2>5. ASSUME NEW t \in Readers, Leave(t)
        PROVE  Promise!ReadsNext
    BY <2>5 DEF Leave, Collect, Unread, fileVars, Promise!ReadsNext, Promise!ReaderNext,
                Promise!Collect, Promise!Unread, Promise!fileVars
  <2>6. ASSUME NEW t \in Readers, NEW f \in Files, Stat(t, f)
        PROVE  Promise!ReadsNext
    BY <2>6 DEF Stat, Call, fileVars, Promise!ReadsNext, Promise!ReaderNext, Promise!Call,
                Promise!fileVars
  <2> QED
    BY <2>2, <2>3, <2>4, <2>5, <2>6, NextCases
<1> QED
  BY <1>1, <1>2, Initially, ReadStep, PTL DEF Spec, ReadsAreFresh, Promise!ReadsSpec
=============================================================================
