---------------------------- MODULE ServiceProofs ----------------------------
(***************************************************************************)
(* Proofs about PaperService for any threads, kinds of request, sizes of   *)
(* the caches and number of versions, and about Corpus, what the tools     *)
(* answer from one version, for any papers, finitely many dates, any       *)
(* number of papers of a date, queries and limits.                         *)
(***************************************************************************)
EXTENDS PaperService, Corpus, FiniteSetTheorems, SequenceTheorems, WellFoundedInduction, TLAPS

Pairs == [Files -> Int]
Places == {"idle", "version", "version2", "lookup", "data", "respond"}
CacheEntries == [key : Kinds, ver : Pairs, body : Pairs]
MemoEntries == [ver : Pairs, body : Pairs]

Types ==
    /\ disk \in [Files -> Nat]
    /\ mix \in SUBSET Kinds
    /\ at \in [Readers -> Places] /\ kind \in [Readers -> Kinds]
    /\ got \in [Readers -> Pairs] /\ ver \in [Readers -> Pairs] /\ since \in [Readers -> Pairs]
    /\ cache \in Seq(CacheEntries)
    /\ memo \in SUBSET MemoEntries /\ IsFiniteSet(memo)

\* Thread t serves a tool.
Tool(t) == at[t] # "idle" /\ kind[t] = "mcp"

\* Where a tool can be, and that it has the data of no file before it looks it up.
ToolPlaces ==
    \A t \in Readers :
        /\ at[t] \in {"version", "lookup"} => kind[t] = "mcp"
        /\ at[t] = "respond" => kind[t] # "mcp"
        /\ at[t] = "idle" \/ (Tool(t) /\ at[t] # "data") => got[t] = NothingRead

\* The files when the request began are at most what its version says, as far
\* as it has asked for it, and this is at most what the files are now.
VersionsSince ==
    \A t \in Readers, f \in Files :
        /\ since[t][f] <= disk[f]
        /\ ver[t][f] <= disk[f]
        /\ Tool(t) /\ (at[t] \in {"lookup", "data"} \/ (at[t] = "version2" /\ f = Current)) =>
               since[t][f] <= ver[t][f]
        /\ Tool(t) /\ got[t][f] # Unread => ver[t][f] <= got[t][f]

\* What is kept under a version is as new as the version at least.
MemoSince == \A m \in memo : AtLeast(m.body, m.ver)

ServiceInv == Types /\ ToolPlaces /\ VersionsSince /\ MemoSince /\ CachesBounded

-----------------------------------------------------------------------------
LEMMA Initially == Init => ServiceInv
<1> SUFFICES ASSUME Init
             PROVE  ServiceInv
  OBVIOUS
<1>1. IsFiniteSet({}) /\ Cardinality({}) = 0
  BY FS_EmptySet
<1>2. Types /\ ToolPlaces /\ VersionsSince /\ MemoSince
  BY <1>1, ServiceAssumption
  DEF Init, FilesInit, Types, Pairs, Places, Kinds, ToolPlaces, VersionsSince, MemoSince, Tool,
      NothingRead, NoPair, Unread
<1>3. CachesBounded
  BY <1>1, ServiceAssumption DEF Init, CachesBounded
<1> QED
  BY <1>2, <1>3 DEF ServiceInv

\* A full cache makes room, and a key is in it once.
LEMMA PutBounded ==
  ASSUME Types, CachesBounded, NEW e \in CacheEntries, cache' = Put(Trim(cache), e)
  PROVE  /\ cache' \in Seq(CacheEntries) /\ Len(cache') <= CacheMax
         /\ \A i, k \in 1..Len(cache') : cache'[i].key = cache'[k].key => i = k
<1> DEFINE c == Trim(cache)
<1>1. /\ c \in Seq(CacheEntries) /\ Len(c) \in Nat /\ Len(c) + 1 <= CacheMax
      /\ \A i, k \in 1..Len(c) : c[i].key = c[k].key => i = k
  <2>0. cache \in Seq(CacheEntries) /\ Len(cache) \in Nat /\ CacheMax \in Nat \ {0}
        /\ Len(cache) <= CacheMax
    BY ServiceAssumption DEF Types, CachesBounded
  <2>1. CASE Len(cache) >= CacheMax
    <3>1. cache # <<>> /\ c = Tail(cache)
      BY <2>0, <2>1 DEF Trim
    <3>2. c \in Seq(CacheEntries) /\ Len(c) = Len(cache) - 1
          /\ \A i \in 1..Len(c) : c[i] = cache[i + 1]
      BY <2>0, <3>1, HeadTailProperties
    <3> HIDE DEF c
    <3>3. \A i \in 1..Len(c) : i + 1 \in 1..Len(cache)
      BY <2>0, <3>2
    <3>4. ASSUME NEW i \in 1..Len(c), NEW k \in 1..Len(c), c[i].key = c[k].key
          PROVE  i = k
      <4>1. cache[i + 1].key = cache[k + 1].key
        BY <3>2, <3>4
      <4>2. i + 1 = k + 1
        BY <3>3, <4>1 DEF CachesBounded
      <4> QED
        BY <4>2
    <3> QED
      BY <2>0, <3>2, <3>4
  <2>2. CASE ~(Len(cache) >= CacheMax)
    BY <2>0, <2>2 DEF Trim, CachesBounded
  <2> QED
    BY <2>1, <2>2
<1> HIDE DEF c
<1>2. cache' = Put(c, e) /\ CacheMax \in Nat
  BY ServiceAssumption DEF c
<1>3. CASE \E i \in 1..Len(c) : c[i].key = e.key
  <2>1. cache' = [i \in 1..Len(c) |-> IF c[i].key = e.key THEN e ELSE c[i]]
    BY <1>2, <1>3 DEF Put
  <2>2. cache' \in Seq(CacheEntries) /\ Len(cache') = Len(c)
    BY <1>1, <2>1
  <2>3. \A i \in 1..Len(c) : cache'[i].key = c[i].key
    BY <1>1, <2>1
  <2> QED
    BY <1>1, <1>2, <2>2, <2>3
<1>4. CASE ~\E i \in 1..Len(c) : c[i].key = e.key
  <2>1. cache' = Append(c, e)
    BY <1>2, <1>4 DEF Put
  <2>2. /\ cache' \in Seq(CacheEntries) /\ Len(cache') = Len(c) + 1
        /\ cache'[Len(c) + 1] = e
        /\ \A i \in 1..Len(c) : cache'[i] = c[i]
    BY <1>1, <2>1
  <2>3. \A i \in 1..Len(cache') : i \in 1..Len(c) \/ i = Len(c) + 1
    BY <1>1, <2>2
  <2> QED
    BY <1>1, <1>2, <1>4, <2>2, <2>3
<1> QED
  BY <1>3, <1>4

\* lru_cache keeps one entry more or one instead of another.
LEMMA KeepBounded ==
  ASSUME IsFiniteSet(memo), CachesBounded, NEW e, memo' \in Keep(memo, e)
  PROVE  /\ memo' \subseteq memo \cup {e} /\ IsFiniteSet(memo')
         /\ Cardinality(memo') <= MemoMax
         /\ \A x, y \in memo' : x.ver = y.ver => x = y
<1>0. MemoMax \in Nat \ {0} /\ Cardinality(memo) \in Nat /\ Cardinality(memo) <= MemoMax
      /\ \A x, y \in memo : x.ver = y.ver => x = y
  BY ServiceAssumption, FS_CardinalityType DEF CachesBounded
<1>1. CASE \E x \in memo : x.ver = e.ver
  BY <1>0, <1>1 DEF Keep
<1>2. CASE /\ ~\E x \in memo : x.ver = e.ver
           /\ Cardinality(memo) < MemoMax
  <2>1. memo' = memo \cup {e} /\ e \notin memo
    BY <1>2 DEF Keep
  <2>2. IsFiniteSet(memo') /\ Cardinality(memo') = Cardinality(memo) + 1
    BY <2>1, FS_AddElement
  <2>3. \A x, y \in memo' : x.ver = y.ver => x = y
    BY <1>0, <1>2, <2>1
  <2> QED
    BY <1>0, <1>2, <2>1, <2>2, <2>3
<1>3. CASE /\ ~\E x \in memo : x.ver = e.ver
           /\ ~(Cardinality(memo) < MemoMax)
  <2>1. PICK x \in memo : memo' = (memo \ {x}) \cup {e}
    BY <1>3 DEF Keep
  <2> DEFINE m == memo \ {x}
  <2>2. IsFiniteSet(m) /\ Cardinality(m) = Cardinality(memo) - 1
    BY FS_RemoveElement
  <2>3. memo' = m \cup {e} /\ e \notin m
    BY <1>3, <2>1
  <2> HIDE DEF m
  <2>4. IsFiniteSet(memo') /\ Cardinality(memo') = Cardinality(memo)
    <3>1. IsFiniteSet(m \cup {e}) /\ Cardinality(m \cup {e}) = Cardinality(m) + 1
      BY <2>2, <2>3, FS_AddElement
    <3> QED
      BY <1>0, <2>2, <2>3, <3>1
  <2>5. \A y, z \in memo' : y.ver = z.ver => y = z
    BY <1>0, <1>3, <2>1
  <2> QED
    BY <1>0, <2>1, <2>4, <2>5
<1> QED
  BY <1>1, <1>2, <1>3

-----------------------------------------------------------------------------
LEMMA NextCases ==
  ASSUME Next
  PROVE  \/ Save /\ UNCHANGED <<mix, requestVars, cache, memo>>
         \/ \E t \in Readers : \/ Fetch(t) \/ VersionCurrent(t) \/ VersionArchive(t)
                               \/ Respond(t) \/ Lookup(t) \/ Memoise(t)
                               \/ \E k \in mix : Begin(t, k)
  BY DEF Next, RequestStep

\* A file only goes on to later versions.
LEMMA SavesGoOn ==
  ASSUME Types, Save
  PROVE  disk' \in [Files -> Nat] /\ \A f \in Files : disk[f] <= disk'[f]
<1>1. CASE UNCHANGED disk
  BY <1>1 DEF Types
<1>2. CASE \E f \in Files : Replace(f)
  BY <1>2 DEF Replace, Types
<1> QED
  BY <1>1, <1>2, FileAssumption DEF Save, SaveCurrent, SaveArchive, SaveInterrupted

LEMMA SaveStep ==
  ASSUME ServiceInv, Save, UNCHANGED <<mix, requestVars, cache, memo>>
  PROVE  ServiceInv'
<1>1. disk' \in [Files -> Nat] /\ \A f \in Files : disk[f] <= disk'[f]
  BY SavesGoOn DEF ServiceInv
<1>2. Types' /\ ToolPlaces' /\ MemoSince' /\ CachesBounded'
  BY <1>1 DEF ServiceInv, Types, ToolPlaces, Tool, MemoSince, AtLeast, CachesBounded, requestVars
<1>3. VersionsSince'
  <2>1. \A t \in Readers, f \in Files :
            /\ since[t][f] \in Int /\ ver[t][f] \in Int /\ disk[f] \in Int /\ disk'[f] \in Int
    BY <1>1 DEF ServiceInv, Types, Pairs
  <2> QED
    BY <1>1, <2>1 DEF ServiceInv, VersionsSince, Tool, requestVars
<1> QED
  BY <1>2, <1>3 DEF ServiceInv

LEMMA BeginStep ==
  ASSUME ServiceInv, NEW t \in Readers, NEW k \in mix, Begin(t, k)
  PROVE  ServiceInv'
<1>1. k \in Kinds /\ UNCHANGED <<disk, mix, got, ver, cache, memo>> /\ at[t] = "idle"
      /\ got[t] = NothingRead
  BY DEF ServiceInv, Types, ToolPlaces, Begin, fileVars
<1>2. Types' /\ ToolPlaces' /\ MemoSince' /\ CachesBounded'
  <2>1. disk \in Pairs /\ NoPair \in Pairs
    BY DEF ServiceInv, Types, Pairs, NoPair
  <2> QED
    BY <1>1, <2>1 DEF ServiceInv, Types, Places, Pairs, ToolPlaces, Tool, Kinds, MemoSince, AtLeast,
       CachesBounded, Begin, Go
<1>3. VersionsSince'
  BY <1>1 DEF ServiceInv, Types, Places, Pairs, VersionsSince, Tool, Begin, Go, NoPair, NothingRead,
     Unread
<1> QED
  BY <1>2, <1>3 DEF ServiceInv

LEMMA FetchStep ==
  ASSUME ServiceInv, NEW t \in Readers, Fetch(t)
  PROVE  ServiceInv'
<1>1. NextFile(t) \in Files /\ UNCHANGED <<disk, mix, at, kind, ver, since, cache, memo>>
      /\ at[t] = "data" /\ got' = [got EXCEPT ![t][NextFile(t)] = disk[NextFile(t)]]
  BY ServiceAssumption DEF Fetch, NextFile, fileVars
<1>2. Types' /\ ToolPlaces' /\ MemoSince' /\ CachesBounded'
  BY <1>1 DEF ServiceInv, Types, Pairs, ToolPlaces, Tool, MemoSince, AtLeast, CachesBounded
<1>3. VersionsSince'
  BY <1>1 DEF ServiceInv, Types, Pairs, VersionsSince, Tool
<1> QED
  BY <1>2, <1>3 DEF ServiceInv

LEMMA VersionCurrentStep ==
  ASSUME ServiceInv, NEW t \in Readers, VersionCurrent(t)
  PROVE  ServiceInv'
<1>1. /\ UNCHANGED <<disk, mix, kind, got, since, cache, memo>> /\ Current \in Files
      /\ at' = [at EXCEPT ![t] = "version2"] /\ ver' = [ver EXCEPT ![t][Current] = disk[Current]]
      /\ at[t] = "version" \/ kind[t] # "mcp"
  BY FileAssumption DEF VersionCurrent, StatStep, Go, fileVars
<1>2. Types'
  BY <1>1 DEF ServiceInv, Types, Places, Pairs
<1>3. ToolPlaces'
  BY <1>1 DEF ServiceInv, Types, ToolPlaces, Tool
<1>4. MemoSince' /\ CachesBounded'
  BY <1>1 DEF ServiceInv, MemoSince, AtLeast, CachesBounded
<1>5. VersionsSince'
  <2>1. Tool(t) => got[t] = NothingRead
    BY <1>1 DEF ServiceInv, ToolPlaces, Tool
  <2> QED
    BY <1>1, <2>1, SMTT(40) DEF ServiceInv, Types, Pairs, VersionsSince, Tool, NothingRead
<1> QED
  BY <1>2, <1>3, <1>4, <1>5 DEF ServiceInv

LEMMA VersionArchiveStep ==
  ASSUME ServiceInv, NEW t \in Readers, VersionArchive(t)
  PROVE  ServiceInv'
<1> DEFINE to == IF kind[t] = "mcp" THEN "lookup" ELSE "respond"
<1>1. UNCHANGED <<disk, mix, kind, got, since, cache, memo>> /\ Archive \in Files
      /\ Files = {Current, Archive} /\ at[t] = "version2"
      /\ at' = [at EXCEPT ![t] = to] /\ ver' = [ver EXCEPT ![t][Archive] = disk[Archive]]
  BY ServiceAssumption DEF VersionArchive, StatStep, Go, fileVars
<1>2. Types'
  <2>1. to \in Places
    BY DEF Places
  <2> HIDE DEF to
  <2>2. at' \in [Readers -> Places]
    BY <1>1, <2>1 DEF ServiceInv, Types
  <2>3. ver' \in [Readers -> Pairs]
    BY <1>1, SMTT(40) DEF ServiceInv, Types, Pairs
  <2> QED
    BY <1>1, <2>2, <2>3 DEF ServiceInv, Types
<1>3. ToolPlaces'
  BY <1>1 DEF ServiceInv, Types, ToolPlaces, Tool
<1>4. MemoSince' /\ CachesBounded'
  BY <1>1 DEF ServiceInv, MemoSince, AtLeast, CachesBounded
<1>5. VersionsSince'
  <2>1. Tool(t) => got[t] = NothingRead
    BY <1>1 DEF ServiceInv, ToolPlaces, Tool
  <2> QED
    BY <1>1, <2>1, SMTT(40) DEF ServiceInv, Types, Pairs, VersionsSince, Tool, NothingRead
<1> QED
  BY <1>2, <1>3, <1>4, <1>5 DEF ServiceInv

-----------------------------------------------------------------------------
\* A request that has been answered leaves nothing of itself.
LEMMA DoneStep ==
  ASSUME ServiceInv, NEW t \in Readers, Done(t)
  PROVE  /\ disk' \in [Files -> Nat] /\ mix' \in SUBSET Kinds
         /\ at' \in [Readers -> Places] /\ kind' \in [Readers -> Kinds]
         /\ got' \in [Readers -> Pairs] /\ ver' \in [Readers -> Pairs]
         /\ since' \in [Readers -> Pairs]
         /\ ToolPlaces' /\ VersionsSince'
<1>1. NoPair \in Pairs /\ NothingRead \in Pairs
  BY DEF Pairs, NoPair, NothingRead, Unread
<1>2. UNCHANGED <<disk, mix>> /\ \A f \in Files : NoPair[f] = 0 /\ disk[f] \in Nat
  BY DEF ServiceInv, Types, Done, fileVars, NoPair
<1>3. /\ disk' \in [Files -> Nat] /\ mix' \in SUBSET Kinds
      /\ at' \in [Readers -> Places] /\ kind' \in [Readers -> Kinds]
      /\ got' \in [Readers -> Pairs] /\ ver' \in [Readers -> Pairs]
      /\ since' \in [Readers -> Pairs]
  BY <1>1, <1>2 DEF ServiceInv, Types, Places, Kinds, Done, Go
<1>4. ToolPlaces'
  BY DEF ServiceInv, Types, ToolPlaces, Tool, Done, Go
<1>5. VersionsSince'
  BY <1>2 DEF ServiceInv, Types, VersionsSince, Tool, Done, Go
<1> QED
  BY <1>3, <1>4, <1>5

LEMMA RespondStep ==
  ASSUME ServiceInv, NEW t \in Readers, Respond(t)
  PROVE  ServiceInv'
<1> DEFINE e == [key |-> kind[t], ver |-> Version(t), body |-> Data(t)]
<1>1. Done(t) /\ UNCHANGED memo /\ (UNCHANGED cache \/ cache' = Put(Trim(cache), e))
  BY DEF Respond
<1>2. e \in CacheEntries
  <2>1. ASSUME NEW pair \in Pairs, NEW k \in Kinds
        PROVE  Part(k, pair) \in Pairs
    <3>1. Archive \in Files /\ pair \in [Files -> Int]
      BY ServiceAssumption DEF Pairs
    <3>2. [pair EXCEPT ![Archive] = 0] \in [Files -> Int]
      BY <3>1
    <3> QED
      BY <3>2 DEF Part, Pairs
  <2>2. kind[t] \in Kinds /\ ver[t] \in Pairs /\ got[t] \in Pairs
    BY DEF ServiceInv, Types
  <2> QED
    BY <2>1, <2>2 DEF CacheEntries, Version, Data
<1>3. /\ cache' \in Seq(CacheEntries) /\ Len(cache') <= CacheMax
      /\ \A i, k \in 1..Len(cache') : cache'[i].key = cache'[k].key => i = k
  <2>1. CASE UNCHANGED cache
    BY <2>1 DEF ServiceInv, Types, CachesBounded
  <2>2. CASE cache' = Put(Trim(cache), e)
    BY <1>2, <2>2, PutBounded DEF ServiceInv
  <2> QED
    BY <1>1, <2>1, <2>2
<1>4. /\ disk' \in [Files -> Nat] /\ mix' \in SUBSET Kinds
      /\ at' \in [Readers -> Places] /\ kind' \in [Readers -> Kinds]
      /\ got' \in [Readers -> Pairs] /\ ver' \in [Readers -> Pairs]
      /\ since' \in [Readers -> Pairs]
      /\ ToolPlaces' /\ VersionsSince'
  BY <1>1, DoneStep
<1>5. Types'
  BY <1>1, <1>3, <1>4 DEF ServiceInv, Types
<1>6. MemoSince' /\ CachesBounded'
  BY <1>1, <1>3 DEF ServiceInv, MemoSince, AtLeast, CachesBounded
<1> QED
  BY <1>4, <1>5, <1>6 DEF ServiceInv

LEMMA LookupStep ==
  ASSUME ServiceInv, NEW t \in Readers, Lookup(t)
  PROVE  ServiceInv'
<1>1. UNCHANGED <<cache, memo>> /\ at[t] = "lookup"
  BY DEF Lookup
<1>2. MemoSince' /\ CachesBounded'
  BY <1>1 DEF ServiceInv, MemoSince, AtLeast, CachesBounded
<1>3. CASE Done(t)
  <2>1. /\ disk' \in [Files -> Nat] /\ mix' \in SUBSET Kinds
        /\ at' \in [Readers -> Places] /\ kind' \in [Readers -> Kinds]
        /\ got' \in [Readers -> Pairs] /\ ver' \in [Readers -> Pairs]
        /\ since' \in [Readers -> Pairs]
        /\ ToolPlaces' /\ VersionsSince'
    BY <1>3, DoneStep
  <2> QED
    BY <1>1, <1>2, <2>1 DEF ServiceInv, Types
<1>4. CASE Go(t, "data") /\ UNCHANGED <<fileVars, mix, kind, got, ver, since>>
  <2>1. Types' /\ ToolPlaces'
    BY <1>1, <1>4 DEF ServiceInv, Types, Places, ToolPlaces, Tool, Go, fileVars
  <2>2. VersionsSince'
    BY <1>1, <1>4 DEF ServiceInv, Types, ToolPlaces, VersionsSince, Tool, Go, fileVars
  <2> QED
    BY <1>2, <2>1, <2>2 DEF ServiceInv
<1> QED
  BY <1>3, <1>4 DEF Lookup

LEMMA MemoiseStep ==
  ASSUME ServiceInv, NEW t \in Readers, Memoise(t)
  PROVE  ServiceInv'
<1> DEFINE e == [ver |-> ver[t], body |-> got[t]]
<1>1. Done(t) /\ UNCHANGED cache /\ Loaded(t) /\ memo' \in Keep(memo, e)
  BY DEF Memoise, Key
<1>2. e \in MemoEntries /\ AtLeast(e.body, e.ver)
  <2>1. Tool(t) /\ \A f \in Files : got[t][f] # Unread
    BY <1>1 DEF Loaded, Complete, Have, Tool
  <2> QED
    BY <2>1 DEF ServiceInv, Types, MemoEntries, VersionsSince, AtLeast, Pairs
<1>3. /\ memo' \subseteq memo \cup {e} /\ IsFiniteSet(memo')
      /\ Cardinality(memo') <= MemoMax
      /\ \A x, y \in memo' : x.ver = y.ver => x = y
  <2> HIDE DEF e
  <2> QED
    BY <1>1, KeepBounded DEF ServiceInv, Types
<1>4. /\ disk' \in [Files -> Nat] /\ mix' \in SUBSET Kinds
      /\ at' \in [Readers -> Places] /\ kind' \in [Readers -> Kinds]
      /\ got' \in [Readers -> Pairs] /\ ver' \in [Readers -> Pairs]
      /\ since' \in [Readers -> Pairs]
      /\ ToolPlaces' /\ VersionsSince'
  BY <1>1, DoneStep
<1> HIDE DEF e
<1>5. Types'
  BY <1>1, <1>2, <1>3, <1>4 DEF ServiceInv, Types
<1>6. MemoSince' /\ CachesBounded'
  BY <1>1, <1>2, <1>3 DEF ServiceInv, MemoSince, AtLeast, CachesBounded
<1> QED
  BY <1>4, <1>5, <1>6 DEF ServiceInv

LEMMA ServiceStep ==
  ASSUME ServiceInv, [Next]_vars
  PROVE  ServiceInv'
<1>1. CASE UNCHANGED vars
  BY <1>1 DEF ServiceInv, Types, ToolPlaces, VersionsSince, MemoSince, CachesBounded, Tool, AtLeast,
     vars, fileVars, requestVars
<1>2. CASE Next
  BY <1>2, NextCases, SaveStep, BeginStep, FetchStep, VersionCurrentStep, VersionArchiveStep,
     RespondStep, LookupStep, MemoiseStep
<1> QED
  BY <1>1, <1>2

-----------------------------------------------------------------------------
\* The cached responses of main.py and the memo of mcp_server.py keep to their
\* sizes, with one entry for a key, for any number of threads: what a full one
\* drops is dropped before the new entry is put in (main.py:182-189).
THEOREM CachesStayBounded == Spec => []CachesBounded
<1>1. ServiceInv => CachesBounded
  BY DEF ServiceInv
<1> QED
  BY <1>1, Initially, ServiceStep, PTL DEF Spec

\* What a tool of mcp_server.py is about to answer is at least as new as the
\* files were when its request began, however many publications and requests
\* are side by side: the version is asked for before the data.
THEOREM McpAnswersStayFresh == Spec => []McpAnswersAreFresh
<1>1. ASSUME ServiceInv
      PROVE  McpAnswersAreFresh
  <2> SUFFICES ASSUME NEW t \in Readers, NEW body \in McpAnswers(t), NEW f \in Files
               PROVE  body[f] >= since[t][f]
    BY DEF McpAnswersAreFresh, AtLeast
  <2>0. since[t][f] \in Int /\ ver[t][f] \in Int
    BY <1>1 DEF ServiceInv, Types, Pairs
  <2>1. CASE body \in Remembered(t) /\ at[t] = "lookup"
    <3>1. since[t][f] <= ver[t][f]
      BY <1>1, <2>1 DEF ServiceInv, ToolPlaces, VersionsSince, Tool
    <3>2. PICK m \in memo : m.ver = ver[t] /\ m.body = body
      BY <2>1 DEF Remembered
    <3>3. body[f] >= ver[t][f] /\ body[f] \in Int
      BY <1>1, <3>2 DEF ServiceInv, Types, MemoEntries, Pairs, MemoSince, AtLeast
    <3> QED
      BY <2>0, <3>1, <3>3
  <2>2. CASE body = got[t] /\ Loaded(t)
    <3>1. Tool(t) /\ at[t] = "data" /\ got[t][f] # Unread /\ got[t][f] \in Int
      BY <1>1, <2>2 DEF Loaded, Complete, Have, Tool, ServiceInv, Types, Pairs
    <3>2. since[t][f] <= ver[t][f] /\ ver[t][f] <= got[t][f]
      BY <1>1, <3>1 DEF ServiceInv, VersionsSince
    <3> QED
      BY <2>0, <2>2, <3>1, <3>2
  <2> QED
    BY <2>1, <2>2 DEF McpAnswers
<1> QED
  BY <1>1, Initially, ServiceStep, PTL DEF Spec

-----------------------------------------------------------------------------
(* What the tools answer.                                                  *)

\* The two files, as the pipeline writes them.
FilesWritten ==
    /\ DOMAIN archive \subseteq Dates /\ \A d \in DOMAIN archive : archive[d] \in Blocks
    /\ current.date \in Dates \cup {NoDate} /\ current.papers \in Blocks
    /\ current.date = NoDate => current.papers = <<>>

Copies == [item : Items, date : Dates]

\* What papers.json and the archive have of a date.
InCurrent(d) == IF current.date = d THEN current.papers ELSE <<>>
InArchive(d, b) == IF b /\ d \in DOMAIN archive THEN archive[d] ELSE <<>>

LEMMA BlocksAreSequences ==
  ASSUME NEW s \in Blocks
  PROVE  /\ s \in Seq(Items) /\ Len(s) \in Nat /\ DOMAIN s = 1..Len(s)
         /\ \A i, j \in 1..Len(s) : s[i].id = s[j].id => i = j
<1>1. PICK m \in 0..PerDate : s \in [1..m -> Items]
  BY DEF Blocks, SeqOf
<1>2. m \in Nat
  BY <1>1, CorpusAssumption
<1> QED
  BY <1>1, <1>2 DEF Blocks

LEMMA ListsAreBlocks ==
  ASSUME FilesWritten, NEW d, NEW b \in BOOLEAN
  PROVE  InCurrent(d) \in Blocks /\ InArchive(d, b) \in Blocks
<1>1. <<>> \in Blocks
  <2>1. <<>> \in [1..0 -> Items] /\ Len(<<>>) = 0
    OBVIOUS
  <2>2. 0 \in 0..PerDate
    BY CorpusAssumption
  <2>3. <<>> \in SeqOf(Items, PerDate)
    BY <2>1, <2>2 DEF SeqOf
  <2> QED
    BY <2>1, <2>3 DEF Blocks
<1> QED
  BY <1>1 DEF FilesWritten, InCurrent, InArchive

LEMMA DatedIsSequence ==
  ASSUME NEW s \in Blocks, NEW d \in Dates
  PROVE  /\ Dated(s, d) \in Seq(Copies) /\ Len(Dated(s, d)) = Len(s)
         /\ \A n \in 1..Len(s) : Dated(s, d)[n] = [item |-> s[n], date |-> d]
<1>1. s \in Seq(Items) /\ Len(s) \in Nat
  BY BlocksAreSequences
<1>2. \A n \in 1..Len(s) : [item |-> s[n], date |-> d] \in Copies
  BY <1>1 DEF Copies
<1>3. Dated(s, d) \in Seq(Copies)
  BY <1>1, <1>2, IsASeq DEF Dated
<1> QED
  BY <1>1, <1>3 DEF Dated

\* Papers.json comes first, then the archive.
LEMMA AtIsSequence ==
  ASSUME FilesWritten, NEW d \in Dates, NEW b \in BOOLEAN
  PROVE  /\ Len(InCurrent(d)) \in Nat /\ Len(InArchive(d, b)) \in Nat
         /\ At(d, b) \in Seq(Copies)
         /\ Len(At(d, b)) = Len(InCurrent(d)) + Len(InArchive(d, b))
         /\ \A n \in 1..Len(At(d, b)) :
              /\ n <= Len(InCurrent(d)) => At(d, b)[n] = [item |-> InCurrent(d)[n], date |-> d]
              /\ n > Len(InCurrent(d)) =>
                   At(d, b)[n] = [item |-> InArchive(d, b)[n - Len(InCurrent(d))], date |-> d]
<1> DEFINE c == InCurrent(d)
           a == InArchive(d, b)
<1>1. c \in Blocks /\ a \in Blocks
  BY ListsAreBlocks
<1>2. At(d, b) = Dated(c, d) \o Dated(a, d)
  BY DEF At, InCurrent, InArchive
<1> HIDE DEF c, a
<1>3. Len(c) \in Nat /\ Len(a) \in Nat
  BY <1>1, BlocksAreSequences
<1>4. /\ Dated(c, d) \in Seq(Copies) /\ Len(Dated(c, d)) = Len(c)
      /\ \A n \in 1..Len(c) : Dated(c, d)[n] = [item |-> c[n], date |-> d]
  BY <1>1, DatedIsSequence
<1>5. /\ Dated(a, d) \in Seq(Copies) /\ Len(Dated(a, d)) = Len(a)
      /\ \A n \in 1..Len(a) : Dated(a, d)[n] = [item |-> a[n], date |-> d]
  BY <1>1, DatedIsSequence
<1>6. /\ At(d, b) \in Seq(Copies) /\ Len(At(d, b)) = Len(c) + Len(a)
      /\ \A n \in 1..(Len(c) + Len(a)) :
           At(d, b)[n] = IF n <= Len(c) THEN Dated(c, d)[n] ELSE Dated(a, d)[n - Len(c)]
  BY <1>2, <1>4, <1>5, ConcatProperties
<1>7. ASSUME NEW n \in 1..Len(At(d, b)), n <= Len(c)
      PROVE  At(d, b)[n] = [item |-> c[n], date |-> d]
  <2>1. n \in 1..(Len(c) + Len(a)) /\ n \in 1..Len(c)
    BY <1>3, <1>6, <1>7
  <2>2. At(d, b)[n] = Dated(c, d)[n]
    BY <1>6, <1>7, <2>1
  <2> QED
    BY <1>4, <2>1, <2>2
<1>8. ASSUME NEW n \in 1..Len(At(d, b)), n > Len(c)
      PROVE  At(d, b)[n] = [item |-> a[n - Len(c)], date |-> d]
  <2>1. n \in 1..(Len(c) + Len(a)) /\ n - Len(c) \in 1..Len(a) /\ ~(n <= Len(c))
    BY <1>3, <1>6, <1>8
  <2>2. At(d, b)[n] = Dated(a, d)[n - Len(c)]
    BY <1>6, <2>1
  <2> QED
    BY <1>5, <2>1, <2>2
<1> QED
  BY <1>3, <1>6, <1>7, <1>8 DEF c, a

LEMMA ElementsAreDated ==
  ASSUME FilesWritten, NEW d \in Dates, NEW b \in BOOLEAN, NEW n \in 1..Len(At(d, b))
  PROVE  At(d, b)[n] \in Copies /\ At(d, b)[n].date = d /\ n \in Nat
<1>1. Len(At(d, b)) \in Nat /\ Len(InCurrent(d)) \in Nat
  BY AtIsSequence
<1>2. At(d, b)[n] \in Copies
  <2>1. At(d, b) \in Seq(Copies)
    BY AtIsSequence
  <2> QED
    BY <2>1, ElementOfSeq
<1>3. n <= Len(InCurrent(d)) \/ n > Len(InCurrent(d))
  BY <1>1
<1>4. At(d, b)[n].date = d
  <2>1. CASE n <= Len(InCurrent(d))
    <3>1. At(d, b)[n] = [item |-> InCurrent(d)[n], date |-> d]
      BY <2>1, AtIsSequence
    <3> QED
      BY <3>1
  <2>2. CASE n > Len(InCurrent(d))
    <3>1. At(d, b)[n] = [item |-> InArchive(d, b)[n - Len(InCurrent(d))], date |-> d]
      BY <2>2, AtIsSequence
    <3> QED
      BY <3>1
  <2> QED
    BY <1>3, <2>1, <2>2
<1> QED
  BY <1>2, <1>4

LEMMA SlotIs ==
  ASSUME NEW b \in BOOLEAN, NEW p
  PROVE  p \in Slots(b) <=> \E d \in Dates : \E n \in 1..Len(At(d, b)) : p = <<d, n>>
  BY DEF Slots

LEMMA CopiesOfSlots ==
  ASSUME FilesWritten, NEW b \in BOOLEAN, NEW p \in Slots(b)
  PROVE  /\ p = <<p[1], p[2]>> /\ p[1] \in Dates /\ p[2] \in Nat /\ p[2] \in 1..Len(At(p[1], b))
         /\ Copy(p, b) \in Copies /\ Copy(p, b).date = p[1]
<1>1. PICK d \in Dates : \E n \in 1..Len(At(d, b)) : p = <<d, n>>
  BY SlotIs
<1>2. PICK n \in 1..Len(At(d, b)) : p = <<d, n>>
  BY <1>1
<1>3. At(d, b)[n] \in Copies /\ At(d, b)[n].date = d /\ n \in Nat
  BY ElementsAreDated
<1> QED
  BY <1>2, <1>3 DEF Copy

LEMMA ListedCopies ==
  ASSUME FilesWritten, NEW d \in Dates, NEW b \in BOOLEAN, NEW g
  PROVE  g \in ToSet(At(d, b)) <=> \E p \in Slots(b) : p[1] = d /\ Copy(p, b) = g
<1>1. DOMAIN At(d, b) = 1..Len(At(d, b))
  <2>1. At(d, b) \in Seq(Copies)
    BY AtIsSequence
  <2> QED
    BY <2>1, LenProperties
<1>2. g \in ToSet(At(d, b)) <=> \E n \in 1..Len(At(d, b)) : At(d, b)[n] = g
  BY <1>1 DEF ToSet
<1>3. ASSUME NEW n \in 1..Len(At(d, b)), At(d, b)[n] = g
      PROVE  \E p \in Slots(b) : p[1] = d /\ Copy(p, b) = g
  <2>1. <<d, n>> \in Slots(b)
    BY SlotIs
  <2> QED
    BY <1>3, <2>1 DEF Copy
<1>4. ASSUME NEW p \in Slots(b), p[1] = d, Copy(p, b) = g
      PROVE  \E n \in 1..Len(At(d, b)) : At(d, b)[n] = g
  BY <1>4, CopiesOfSlots DEF Copy
<1> QED
  BY <1>2, <1>3, <1>4

\* Induction, with the property as the set of the numbers that have it.
LEMMA FromZero ==
  ASSUME NEW T, 0 \in T, \A n \in Nat : n \in T => n + 1 \in T
  PROVE  \A n \in Nat : n \in T
<1>1. SUFFICES ASSUME NEW n \in Nat, n \notin T
      PROVE  FALSE
  OBVIOUS
<1> DEFINE M == Nat \ T
<1>2. M \subseteq Nat /\ M # {}
  BY <1>1
<1>3. PICK x \in M : \A y \in M : ~(<<y, x>> \in OpToRel(<, Nat))
  BY <1>2, NatLessThanWellFounded, WFMin
<1>4. x \in Nat /\ x \notin T
  OBVIOUS
<1>5. x - 1 \in Nat
  BY <1>4
<1>6. <<x - 1, x>> \in OpToRel(<, Nat)
  BY <1>4, <1>5 DEF OpToRel
<1>7. x - 1 \in T
  BY <1>3, <1>5, <1>6
<1>8. x - 1 + 1 \in T
  BY <1>5, <1>7
<1> QED
  BY <1>4, <1>8

LEMMA Smallest ==
  ASSUME NEW S \in SUBSET Nat, S # {}
  PROVE  \E n \in S : \A m \in S : n <= m
<1>1. S \subseteq Nat
  OBVIOUS
<1>2. PICK n \in S : \A m \in S : ~(<<m, n>> \in OpToRel(<, Nat))
  BY <1>1, NatLessThanWellFounded, WFMin
<1>3. ASSUME NEW m \in S
      PROVE  n <= m
  <2>1. m \in Nat /\ n \in Nat
    OBVIOUS
  <2>2. m < n => <<m, n>> \in OpToRel(<, Nat)
    BY <2>1 DEF OpToRel
  <2>3. ~(m < n)
    BY <1>2, <2>2
  <2> QED
    BY <2>1, <2>3
<1> QED
  BY <1>3

\* Of finitely many dates one is the newest.
LEMMA Newest ==
  ASSUME NEW S \in SUBSET Nat, IsFiniteSet(S), S # {}
  PROVE  \E n \in S : \A m \in S : m <= n
<1> DEFINE HasNewest(D) == \E n \in D : \A m \in D : m <= n
           T == {k \in Nat : \A D \in SUBSET Nat :
                    IsFiniteSet(D) /\ Cardinality(D) = k /\ D # {} => HasNewest(D)}
<1>1. 0 \in T
  BY FS_EmptySet
<1>2. ASSUME NEW k \in Nat, k \in T
      PROVE  k + 1 \in T
  <2>1. SUFFICES ASSUME NEW D \in SUBSET Nat, IsFiniteSet(D), Cardinality(D) = k + 1, D # {}
                 PROVE  HasNewest(D)
    OBVIOUS
  <2>2. PICK x \in D : TRUE
    BY <2>1
  <2> DEFINE E == D \ {x}
  <2>3. E \in SUBSET Nat /\ IsFiniteSet(E) /\ Cardinality(E) = k
    <3>1. IsFiniteSet(E) /\ Cardinality(E) = Cardinality(D) - 1
      BY <2>1, <2>2, FS_RemoveElement
    <3> QED
      BY <2>1, <3>1
  <2>4. CASE E = {}
    <3>1. \A m \in D : m = x
      BY <2>4
    <3> QED
      BY <3>1
  <2>5. CASE E # {}
    <3>1. PICK n \in E : \A m \in E : m <= n
      BY <1>2, <2>3, <2>5
    <3>2. x \in Nat /\ n \in Nat /\ n \in D
      BY <2>3
    <3>3. CASE x <= n
      <4>1. \A m \in D : m <= n
        BY <3>1, <3>3
      <4> QED
        BY <3>2, <4>1
    <3>4. CASE ~(x <= n)
      <4>1. ASSUME NEW m \in D PROVE m <= x
        <5>1. m = x \/ m \in E
          OBVIOUS
        <5>2. m \in Nat
          OBVIOUS
        <5> QED
          BY <3>1, <3>2, <3>4, <5>1, <5>2
      <4> QED
        BY <4>1
    <3> QED
      BY <3>3, <3>4
  <2> QED
    BY <2>4, <2>5
<1>3. Cardinality(S) \in Nat
  BY FS_CardinalityType
<1>4. Cardinality(S) \in T
  <2> HIDE DEF T
  <2> QED
    BY <1>1, <1>2, <1>3, FromZero
<1> QED
  BY <1>4

SameId(p, q, b) == Copy(p, b).item.id = Copy(q, b).item.id

\* Among some of the slots one is before all others.
LEMMA FirstSlot ==
  ASSUME FilesWritten, NEW b \in BOOLEAN, NEW S \in SUBSET Slots(b), S # {}
  PROVE  \E p \in S : \A q \in S : p[1] >= q[1] /\ (p = q \/ Before(p, q)) /\ ~Before(q, p)
<1> DEFINE D == {q[1] : q \in S}
<1>1. \A q \in S : q = <<q[1], q[2]>> /\ q[1] \in Dates /\ q[2] \in Nat
  BY CopiesOfSlots
<1>2. D \in SUBSET Nat /\ IsFiniteSet(D) /\ D # {}
  <2>1. D \in SUBSET Dates
    BY <1>1
  <2>2. IsFiniteSet(D)
    BY <2>1, CorpusAssumption, FS_Subset
  <2>3. D # {}
    OBVIOUS
  <2> QED
    BY <2>1, <2>2, <2>3, CorpusAssumption
<1>3. PICK d \in D : \A e \in D : e <= d
  <2> HIDE DEF D
  <2> QED
    BY <1>2, Newest
<1> DEFINE N == {q[2] : q \in {r \in S : r[1] = d}}
<1>4. N \in SUBSET Nat /\ N # {}
  BY <1>1
<1>5. PICK n \in N : \A m \in N : n <= m
  <2> HIDE DEF N
  <2> QED
    BY <1>4, Smallest
<1>6. PICK p \in S : p[1] = d /\ p[2] = n
  OBVIOUS
<1>7. ASSUME NEW q \in S
      PROVE  p[1] >= q[1] /\ (p = q \/ Before(p, q)) /\ ~Before(q, p)
  <2>1. q[1] \in D /\ p[1] = d /\ (q[1] = d => q[2] \in N)
    BY <1>6
  <2>2. q[1] <= d /\ (q[1] = d => n <= q[2])
    BY <1>3, <1>5, <2>1
  <2>3. q[1] \in Nat /\ q[2] \in Nat /\ p[1] \in Nat /\ p[2] \in Nat
    BY <1>1, CorpusAssumption
  <2>4. p = <<p[1], p[2]>> /\ q = <<q[1], q[2]>>
    BY <1>1
  <2>5. ~(q[1] > p[1]) /\ ~(q[1] = p[1] /\ q[2] < p[2])
    BY <1>6, <2>1, <2>2, <2>3
  <2>6. q[1] < p[1] \/ (q[1] = p[1] /\ (q[2] = p[2] \/ p[2] < q[2]))
    BY <1>6, <2>1, <2>2, <2>3
  <2> QED
    BY <2>3, <2>4, <2>5, <2>6 DEF Before
<1> QED
  BY <1>7

\* Every paper is listed, with its first copy.
LEMMA FirstCopyListed ==
  ASSUME FilesWritten, NEW b \in BOOLEAN, NEW p \in Slots(b)
  PROVE  \E q \in FirstOfEach(b) :
            SameId(q, p, b) /\ q[1] >= p[1] /\ (q = p \/ Before(q, p))
<1> DEFINE S == {r \in Slots(b) : SameId(r, p, b)}
<1>1. S \in SUBSET Slots(b) /\ p \in S
  BY DEF SameId
<1>2. PICK q \in S : \A r \in S : q[1] >= r[1] /\ (q = r \/ Before(q, r)) /\ ~Before(r, q)
  <2> HIDE DEF S
  <2> QED
    BY <1>1, FirstSlot
<1>3. q \in FirstOfEach(b)
  BY <1>2 DEF FirstOfEach, SameId
<1> QED
  BY <1>1, <1>2, <1>3

-----------------------------------------------------------------------------
\* No id is listed twice.
LEMMA ListedOnce ==
  ASSUME FilesWritten, NEW b \in BOOLEAN, NEW f \in AllPapers(b), NEW g \in AllPapers(b),
         f.item.id = g.item.id
  PROVE  f = g
<1>1. PICK p \in FirstOfEach(b) : f = Copy(p, b)
  BY DEF AllPapers
<1>2. PICK q \in FirstOfEach(b) : g = Copy(q, b)
  BY DEF AllPapers
<1>3. p \in Slots(b) /\ q \in Slots(b) /\ ~Before(p, q) /\ ~Before(q, p)
  BY <1>1, <1>2 DEF FirstOfEach
<1>4. /\ p = <<p[1], p[2]>> /\ p[1] \in Nat /\ p[2] \in Nat
      /\ q = <<q[1], q[2]>> /\ q[1] \in Nat /\ q[2] \in Nat
  BY <1>3, CopiesOfSlots, CorpusAssumption
<1>5. p[1] = q[1] /\ p[2] = q[2]
  BY <1>3, <1>4 DEF Before
<1> QED
  BY <1>1, <1>2, <1>4, <1>5

\* The first copy is as new as any other.
LEMMA FirstIsNewest ==
  ASSUME FilesWritten, NEW b \in BOOLEAN, NEW p \in FirstOfEach(b), NEW q \in Slots(b),
         SameId(q, p, b)
  PROVE  q[1] <= p[1] /\ (q[1] = p[1] => p[2] <= q[2])
<1>1. p \in Slots(b) /\ ~Before(q, p)
  BY DEF FirstOfEach, SameId
<1>2. p[1] \in Nat /\ p[2] \in Nat /\ q[1] \in Nat /\ q[2] \in Nat
  BY <1>1, CopiesOfSlots, CorpusAssumption
<1> QED
  BY <1>1, <1>2 DEF Before

\* On its date a copy of papers.json is before one of the archive.
LEMMA CurrentComesFirst ==
  ASSUME FilesWritten, NEW b \in BOOLEAN, NEW p \in FirstOfEach(b), NEW q \in Slots(b),
         SameId(q, p, b), q[1] = p[1], Stored(Copy(q, b), FALSE)
  PROVE  Copy(q, b) = Copy(p, b)
<1> DEFINE d == p[1]  c == InCurrent(d)
<1>1. p \in Slots(b) /\ p[2] <= q[2]
  BY FirstIsNewest DEF FirstOfEach
<1>2. /\ d \in Dates /\ p[2] \in 1..Len(At(d, b)) /\ q[2] \in 1..Len(At(d, b))
      /\ Copy(p, b).date = d /\ Copy(q, b).date = d /\ Copy(q, b) \in Copies
  BY <1>1, CopiesOfSlots
<1>3. d = current.date /\ Copy(q, b).item \in ToSet(current.papers)
  BY <1>2 DEF Stored
<1>4. c = current.papers /\ c \in Blocks
  BY <1>3 DEF InCurrent, FilesWritten
<1>5. DOMAIN c = 1..Len(c) /\ \A i, j \in 1..Len(c) : c[i].id = c[j].id => i = j
  BY <1>4, BlocksAreSequences
<1>6. PICK k \in 1..Len(c) : c[k] = Copy(q, b).item
  BY <1>3, <1>4, <1>5 DEF ToSet
<1>7. Len(c) \in Nat /\ Len(InArchive(d, b)) \in Nat
      /\ Len(At(d, b)) = Len(c) + Len(InArchive(d, b))
  BY <1>2, AtIsSequence
<1>8. k \in 1..Len(At(d, b)) /\ k <= Len(c)
  BY <1>7
<1>9. <<d, k>> \in Slots(b)
  BY <1>2, <1>8, SlotIs
<1>10. Copy(<<d, k>>, b) = [item |-> c[k], date |-> d]
  BY <1>2, <1>8, AtIsSequence DEF Copy
<1>11. SameId(<<d, k>>, p, b)
  BY <1>6, <1>10 DEF SameId
<1>12. p[2] <= k
  BY <1>9, <1>11, FirstIsNewest
<1>13. p[2] \in 1..Len(c)
  BY <1>2, <1>7, <1>8, <1>12
<1>14. Copy(p, b) = [item |-> c[p[2]], date |-> d]
  <2>1. p[2] <= Len(c)
    BY <1>7, <1>13
  <2>2. At(d, b)[p[2]] = [item |-> c[p[2]], date |-> d]
    BY <1>2, <2>1, AtIsSequence, ZenonT(40)
  <2> QED
    BY <2>2 DEF Copy
<1>15. c[p[2]].id = c[k].id
  BY <1>6, <1>14 DEF SameId
<1>16. Copy(p, b).item = Copy(q, b).item
  BY <1>5, <1>6, <1>13, <1>14, <1>15
<1>17. Copy(p, b) \in Copies
  BY <1>1, CopiesOfSlots
<1> QED
  BY <1>2, <1>16, <1>17 DEF Copies

-----------------------------------------------------------------------------
(* What the last call has answered.                                        *)

BestFound(query, b) == {f \in SearchCandidates(query, b) : Score(f.item, query) > 0}

FirstHits(id) ==
    LET hits == {p \in FirstOfEach(TRUE) : Matches(Copy(p, TRUE).item.id, id)}
    IN  {Copy(p, TRUE) : p \in {h \in hits : \A k \in hits : ~Before(k, h)}}

DatesCounted ==
    {[date |-> d, count |-> Counted(d)] : d \in (DOMAIN archive \cup {current.date}) \ {NoDate}}

Answered ==
    /\ call.tool = "search" =>
        /\ call.query \in Queries /\ call.limit \in Limits /\ call.inArchive \in BOOLEAN
        /\ answer \in Best(BestFound(call.query, call.inArchive), call.query, call.limit)
    /\ call.tool = "fetch" => call.id \in Ids /\ answer = FirstHits(call.id)
    /\ call.tool = "recent_papers" => answer \in Best(Listed(call.date), <<>>, call.limit)
    /\ call.tool = "available_dates" => answer = DatesCounted

CorpusInv == FilesWritten /\ Answered

LEMMA CorpusStarts == CorpusInit => CorpusInv
<1> SUFFICES ASSUME CorpusInit
             PROVE  CorpusInv
  OBVIOUS
<1>1. Answered
  BY DEF CorpusInit, Answered
<1>2. DOMAIN archive \subseteq Dates /\ \A d \in DOMAIN archive : archive[d] \in Blocks
  <2>1. PICK ds \in SUBSET Dates : archive \in [ds -> Blocks]
    BY DEF CorpusInit
  <2> QED
    BY <2>1
<1>3. <<>> \in Blocks
  <2>1. <<>> \in [1..0 -> Items] /\ Len(<<>>) = 0
    OBVIOUS
  <2>2. 0 \in 0..PerDate
    BY CorpusAssumption
  <2>3. <<>> \in SeqOf(Items, PerDate)
    BY <2>1, <2>2 DEF SeqOf
  <2> QED
    BY <2>1, <2>3 DEF Blocks
<1>4. /\ current.date \in Dates \cup {NoDate} /\ current.papers \in Blocks
      /\ current.date = NoDate => current.papers = <<>>
  <2>1. CASE current = [date |-> NoDate, papers |-> <<>>]
    BY <1>3, <2>1
  <2>2. ASSUME NEW d \in Dates, NEW s \in Blocks, current = [date |-> d, papers |-> s]
        PROVE  /\ current.date \in Dates \cup {NoDate} /\ current.papers \in Blocks
               /\ current.date = NoDate => current.papers = <<>>
    BY <2>2, CorpusAssumption
  <2> QED
    BY <2>1, <2>2 DEF CorpusInit
<1> QED
  BY <1>1, <1>2, <1>4 DEF CorpusInv, FilesWritten

\* The files are read and never written: what they hold stays the same.
LEMMA SameCopies ==
  ASSUME current' = current, archive' = archive, NEW b
  PROVE  /\ \A d : At(d, b)' = At(d, b)
         /\ Slots(b)' = Slots(b) /\ \A p : Copy(p, b)' = Copy(p, b)
<1>1. ASSUME NEW d
      PROVE  At(d, b)' = At(d, b)
  BY DEF At, Dated
<1>2. ASSUME NEW p
      PROVE  Copy(p, b)' = Copy(p, b)
  BY <1>1 DEF Copy
<1>3. Slots(b)' = Slots(b)
  BY <1>1 DEF Slots
<1> QED
  BY <1>1, <1>2, <1>3

LEMMA SameListing ==
  ASSUME current' = current, archive' = archive, NEW b
  PROVE  FirstOfEach(b)' = FirstOfEach(b) /\ AllPapers(b)' = AllPapers(b)
<1>1. Slots(b)' = Slots(b) /\ \A p : Copy(p, b)' = Copy(p, b)
  BY SameCopies
<1>2. FirstOfEach(b)' = FirstOfEach(b)
  BY <1>1 DEF FirstOfEach, Before
<1> QED
  BY <1>1, <1>2 DEF AllPapers

LEMMA SameAnswers ==
  ASSUME current' = current, archive' = archive
  PROVE  /\ \A q, b : BestFound(q, b)' = BestFound(q, b)
         /\ \A id : FirstHits(id)' = FirstHits(id)
         /\ \A d : Listed(d)' = Listed(d)
         /\ DatesCounted' = DatesCounted
<1>1. ASSUME NEW q, NEW b
      PROVE  BestFound(q, b)' = BestFound(q, b)
  <2>1. AllPapers(b)' = AllPapers(b)
    BY SameListing
  <2>2. SearchCandidates(q, b)' = SearchCandidates(q, b)
    BY <2>1 DEF SearchCandidates
  <2> QED
    BY <2>2 DEF BestFound
<1>2. ASSUME NEW id
      PROVE  FirstHits(id)' = FirstHits(id)
  <2>1. FirstOfEach(TRUE)' = FirstOfEach(TRUE) /\ \A p : Copy(p, TRUE)' = Copy(p, TRUE)
    BY SameListing, SameCopies
  <2> QED
    BY <2>1 DEF FirstHits
<1>3. ASSUME NEW d
      PROVE  Listed(d)' = Listed(d)
  <2>1. AllPapers(TRUE)' = AllPapers(TRUE)
    BY SameListing
  <2> QED
    BY <2>1 DEF Listed
<1>4. DatesCounted' = DatesCounted
  <2>1. ASSUME NEW d
        PROVE  Counted(d)' = Counted(d)
    BY DEF Counted
  <2> QED
    BY <2>1 DEF DatesCounted
<1> QED
  BY <1>1, <1>2, <1>3, <1>4

LEMMA CorpusSteps == CorpusInv /\ [CorpusNext]_corpusVars => CorpusInv'
<1> SUFFICES ASSUME CorpusInv, [CorpusNext]_corpusVars
             PROVE  CorpusInv'
  OBVIOUS
<1>1. current' = current /\ archive' = archive
  BY DEF CorpusNext, corpusVars, Search, FetchPaper, RecentPapers, AvailableDates, PaperStats, Return
<1>2. FilesWritten'
  BY <1>1 DEF CorpusInv, FilesWritten
<1>3. /\ \A q, b : BestFound(q, b)' = BestFound(q, b)
      /\ \A id : FirstHits(id)' = FirstHits(id)
      /\ \A d : Listed(d)' = Listed(d)
      /\ DatesCounted' = DatesCounted
  BY <1>1, SameAnswers
<1>4. ASSUME NEW query \in Queries, NEW limit \in Limits, NEW b \in BOOLEAN,
             Search(query, limit, b)
      PROVE  Answered'
  <2>1. /\ call' = [tool |-> "search", query |-> query, limit |-> limit, inArchive |-> b]
        /\ answer' \in Best(BestFound(query, b), query, limit)
    BY <1>4 DEF Search, BestFound
  <2>2. /\ call'.tool = "search" /\ call'.query = query /\ call'.limit = limit
        /\ call'.inArchive = b
    BY <2>1
  <2>3. answer' \in Best(BestFound(query, b)', query, limit)
    BY <1>3, <2>1
  <2>4. answer' \in Best(BestFound(call.query, call.inArchive)', call'.query, call'.limit)
    BY <1>3, <2>1, <2>2
  <2> QED
    BY <2>2, <2>4, ZenonT(40)
    DEF Answered, Best, Better, Score, PhrasePoints, HasPhrase, Haystack, Venue, Hits,
        Counts, Times, Matched, Holds, Term
<1>5. ASSUME NEW id \in Ids, FetchPaper(id)
      PROVE  Answered'
  <2>1. call' = [tool |-> "fetch", id |-> id] /\ answer' = FirstHits(id)
    BY <1>5 DEF FetchPaper, FirstHits
  <2>2. call'.tool = "fetch" /\ call'.id = id
    BY <2>1
  <2>3. answer' = FirstHits(call.id)'
    BY <1>3, <2>1, <2>2
  <2> QED
    BY <2>2, <2>3 DEF Answered
<1>6. ASSUME NEW date \in Dates \cup {NoDate}, NEW limit \in Limits, RecentPapers(date, limit)
      PROVE  Answered'
  <2>1. /\ call'.tool = "recent_papers" /\ call'.date = date /\ call'.limit = limit
        /\ answer' \in Best(Listed(date), <<>>, limit)
    BY <1>6 DEF RecentPapers
  <2>2. answer' \in Best(Listed(call.date)', <<>>, call'.limit)
    BY <1>3, <2>1
  <2> QED
    BY <2>1, <2>2, ZenonT(40)
    DEF Answered, Best, Better, Score, PhrasePoints, HasPhrase, Haystack, Venue, Hits,
        Counts, Times, Matched, Holds, Term
<1>7. ASSUME AvailableDates
      PROVE  Answered'
  <2>1. call'.tool = "available_dates" /\ answer' = DatesCounted
    BY <1>7 DEF AvailableDates, DatesCounted
  <2> QED
    BY <1>3, <2>1 DEF Answered
<1>8. ASSUME NEW date \in Dates \cup {NoDate}, PaperStats(date)
      PROVE  Answered'
  <2>1. call'.tool = "paper_stats"
    BY <1>8 DEF PaperStats
  <2> QED
    BY <2>1 DEF Answered
<1>9. ASSUME Return
      PROVE  Answered'
  <2>1. call'.tool = "none"
    BY <1>9 DEF Return
  <2> QED
    BY <2>1 DEF Answered
<1>10. ASSUME UNCHANGED corpusVars
       PROVE  Answered'
  <2>1. call' = call /\ answer' = answer
    BY <1>10 DEF corpusVars
  <2>2. ASSUME call.tool = "search"
        PROVE  Answered'
    <3>1. PICK query, limit, b : query = call.query /\ limit = call.limit /\ b = call.inArchive
      OBVIOUS
    <3>2. /\ query \in Queries /\ limit \in Limits /\ b \in BOOLEAN
          /\ answer \in Best(BestFound(query, b), query, limit)
      BY <2>2, <3>1 DEF CorpusInv, Answered
    <3>3. /\ call'.tool = "search" /\ call'.query = query /\ call'.limit = limit
          /\ call'.inArchive = b
      BY <2>1, <2>2, <3>1
    <3>4. answer' \in Best(BestFound(query, b)', query, limit)
      BY <1>3, <2>1, <3>2
    <3>5. answer' \in Best(BestFound(call.query, call.inArchive)', call'.query, call'.limit)
      BY <3>3, <3>4
    <3> QED
      BY <3>2, <3>3, <3>5, ZenonT(40)
      DEF Answered, Best, Better, Score, PhrasePoints, HasPhrase, Haystack, Venue, Hits,
          Counts, Times, Matched, Holds, Term
  <2>3. ASSUME call.tool = "fetch"
        PROVE  Answered'
    <3>1. PICK id : id = call.id
      OBVIOUS
    <3>2. id \in Ids /\ answer = FirstHits(id)
      BY <2>3, <3>1 DEF CorpusInv, Answered
    <3>3. call'.tool = "fetch" /\ call'.id = id
      BY <2>1, <2>3, <3>1
    <3>4. answer' = FirstHits(call.id)'
      BY <1>3, <2>1, <3>2, <3>3
    <3> QED
      BY <3>2, <3>3, <3>4 DEF Answered
  <2>4. ASSUME call.tool = "recent_papers"
        PROVE  Answered'
    <3>1. PICK date, limit : date = call.date /\ limit = call.limit
      OBVIOUS
    <3>2. answer \in Best(Listed(date), <<>>, limit)
      BY <2>4, <3>1 DEF CorpusInv, Answered
    <3>3. /\ call'.tool = "recent_papers" /\ call'.date = date /\ call'.limit = limit
      BY <2>1, <2>4, <3>1
    <3>4. answer' \in Best(Listed(call.date)', <<>>, call'.limit)
      BY <1>3, <2>1, <3>2, <3>3
    <3> QED
      BY <3>3, <3>4, ZenonT(40)
      DEF Answered, Best, Better, Score, PhrasePoints, HasPhrase, Haystack, Venue, Hits,
          Counts, Times, Matched, Holds, Term
  <2>5. ASSUME call.tool = "available_dates"
        PROVE  Answered'
    <3>1. call'.tool = "available_dates" /\ answer' = DatesCounted
      BY <2>1, <2>5 DEF CorpusInv, Answered
    <3> QED
      BY <1>3, <3>1 DEF Answered
  <2>6. ASSUME call.tool \notin {"search", "fetch", "recent_papers", "available_dates"}
        PROVE  Answered'
    BY <2>1, <2>6 DEF Answered
  <2> QED
    BY <2>2, <2>3, <2>4, <2>5, <2>6
<1>11. Answered'
  BY <1>4, <1>5, <1>6, <1>7, <1>8, <1>9, <1>10 DEF CorpusNext
<1> QED
  BY <1>2, <1>11 DEF CorpusInv

-----------------------------------------------------------------------------
\* A tool that answers with papers answers with papers of the list.
Whole == call.tool = "search" => call.inArchive

LEMMA AnswersAreListed ==
  ASSUME CorpusInv, call.tool \in {"search", "fetch", "recent_papers"}
  PROVE  answer \subseteq AllPapers(Whole) /\ Whole \in BOOLEAN
<1>1. CASE call.tool = "search"
  <2>1. Whole = call.inArchive /\ call.inArchive \in BOOLEAN
    BY <1>1 DEF CorpusInv, Answered, Whole
  <2>2. answer \subseteq BestFound(call.query, call.inArchive)
    BY <1>1 DEF CorpusInv, Answered, Best
  <2>3. BestFound(call.query, call.inArchive) \subseteq AllPapers(call.inArchive)
    BY DEF BestFound, SearchCandidates
  <2> QED
    BY <2>1, <2>2, <2>3
<1>2. CASE call.tool = "fetch"
  <2>1. Whole = TRUE
    BY <1>2 DEF Whole
  <2>2. answer = FirstHits(call.id)
    BY <1>2 DEF CorpusInv, Answered
  <2>3. FirstHits(call.id) \subseteq AllPapers(TRUE)
    BY DEF FirstHits, AllPapers
  <2> QED
    BY <2>1, <2>2, <2>3
<1>3. CASE call.tool = "recent_papers"
  <2>1. Whole = TRUE
    BY <1>3 DEF Whole
  <2>2. answer \subseteq Listed(call.date)
    BY <1>3 DEF CorpusInv, Answered, Best
  <2>3. Listed(call.date) \subseteq AllPapers(TRUE)
    BY DEF Listed
  <2> QED
    BY <2>1, <2>2, <2>3
<1> QED
  BY <1>1, <1>2, <1>3

\* A slot that is first has the value that stands for its id.
LEMMA ListedCopyOf ==
  ASSUME FilesWritten, NEW b \in BOOLEAN, NEW f \in AllPapers(b)
  PROVE  \E p \in FirstOfEach(b) : /\ p \in Slots(b) /\ Copy(p, b) = f
                                   /\ f \in Copies /\ f.date = p[1] /\ p[1] \in Nat
<1>1. PICK p \in FirstOfEach(b) : f = Copy(p, b)
  BY DEF AllPapers
<1>2. p \in Slots(b)
  BY DEF FirstOfEach
<1> QED
  BY <1>1, <1>2, CopiesOfSlots, CorpusAssumption

LEMMA NewestAreAnswered ==
  ASSUME CorpusInv, NEW f \in Papers, NEW d \in Dates, NEW g \in ToSet(At(d, Whole)),
         g.item.id = f.item.id
  PROVE  /\ g.date <= f.date
         /\ g \in Papers => g = f
         /\ g.date = f.date /\ Stored(g, FALSE) => g = f
<1>1. /\ Papers = answer /\ answer \subseteq AllPapers(Whole) /\ Whole \in BOOLEAN
      /\ FilesWritten
  <2>1. call.tool \in {"search", "fetch", "recent_papers"}
    BY DEF Papers
  <2> QED
    BY <2>1, AnswersAreListed DEF Papers, CorpusInv
<1>2. PICK b \in BOOLEAN : b = Whole
  BY <1>1
<1>3. f \in AllPapers(b) /\ g \in ToSet(At(d, b))
  BY <1>1, <1>2
<1>4. PICK p \in FirstOfEach(b) : /\ p \in Slots(b) /\ Copy(p, b) = f
                                  /\ f.date = p[1] /\ p[1] \in Nat
  BY <1>1, <1>3, ListedCopyOf
<1>5. PICK q \in Slots(b) : q[1] = d /\ Copy(q, b) = g
  BY <1>1, <1>3, ListedCopies
<1>6. SameId(q, p, b) /\ g.date = q[1]
  BY <1>1, <1>4, <1>5, CopiesOfSlots DEF SameId
<1>7. g.date <= f.date
  BY <1>1, <1>4, <1>6, FirstIsNewest
<1>8. g \in Papers => g = f
  BY <1>1, <1>2, <1>3, ListedOnce
<1>9. ASSUME g.date = f.date, Stored(g, FALSE)
      PROVE  g = f
  BY <1>1, <1>4, <1>5, <1>6, <1>9, CurrentComesFirst
<1> QED
  BY <1>7, <1>8, <1>9

LEMMA NewestIsFetched ==
  ASSUME CorpusInv, call.tool = "fetch", NEW g \in AllStored, g.item.id.base = call.id.base
  PROVE  \E f \in answer : f.item.id.base = call.id.base /\ f.date >= g.date
<1> DEFINE hits == {h \in FirstOfEach(TRUE) : Matches(Copy(h, TRUE).item.id, call.id)}
<1>1. FilesWritten /\ answer = FirstHits(call.id)
  BY DEF CorpusInv, Answered
<1>2. PICK d \in Dates : g \in ToSet(At(d, TRUE))
  BY DEF AllStored
<1>3. PICK p \in Slots(TRUE) : p[1] = d /\ Copy(p, TRUE) = g
  BY <1>1, <1>2, ListedCopies
<1>4. PICK q \in FirstOfEach(TRUE) : SameId(q, p, TRUE) /\ q[1] >= p[1]
  BY <1>1, FirstCopyListed
<1>5. q \in hits
  BY <1>3, <1>4 DEF SameId, Matches
<1>6. hits \in SUBSET Slots(TRUE)
  BY DEF FirstOfEach
<1>7. PICK h \in hits : \A k \in hits : h[1] >= k[1] /\ (h = k \/ Before(h, k)) /\ ~Before(k, h)
  <2> HIDE DEF hits
  <2> QED
    BY <1>1, <1>5, <1>6, FirstSlot
<1>8. Copy(h, TRUE) \in answer
  BY <1>1, <1>7 DEF FirstHits
<1>9. Copy(h, TRUE).item.id.base = call.id.base
  BY DEF Matches
<1>10. Copy(h, TRUE).date = h[1] /\ g.date = p[1] /\ h[1] \in Nat /\ q[1] \in Nat /\ p[1] \in Nat
  <2>1. h \in Slots(TRUE) /\ q \in Slots(TRUE)
    BY <1>5, <1>6
  <2> QED
    BY <1>1, <1>3, <2>1, CopiesOfSlots, CorpusAssumption
<1>11. h[1] >= q[1] /\ q[1] >= p[1]
  BY <1>4, <1>5, <1>7
<1>12. Copy(h, TRUE).date >= g.date
  <2> HIDE DEF hits
  <2>1. h[1] >= p[1]
    BY <1>10, <1>11
  <2> QED
    BY <1>10, <2>1
<1> QED
  BY <1>8, <1>9, <1>12

\* The tools answer with the newest copy of a paper (mcp_server.py:41-78 and
\* 220-242): papers.json goes before the archive on its date, a newer date
\* before an older one, no id is answered twice, and whichever version of
\* the id it is asked for, fetch finds the paper on the newest date that has
\* one.
THEOREM NewestCopiesAreAnswered == CorpusSpec => []NewestCopies
<1>1. CorpusInv => NewestCopies
  BY NewestAreAnswered, NewestIsFetched DEF NewestCopies, Whole
<1> QED
  BY <1>1, CorpusStarts, CorpusSteps, PTL DEF CorpusSpec

-----------------------------------------------------------------------------
\* There are finitely many slots.
LEMMA SlotsAreFinite ==
  ASSUME FilesWritten, NEW b \in BOOLEAN
  PROVE  IsFiniteSet(Slots(b)) /\ IsFiniteSet(AllPapers(b))
<1> DEFINE Of(d) == {d} \X (1..Len(At(d, b)))
           All == {Of(d) : d \in Dates}
           image == [d \in Dates |-> Of(d)]
           values == [p \in FirstOfEach(b) |-> Copy(p, b)]
<1>1. ASSUME NEW d \in Dates
      PROVE  IsFiniteSet(Of(d))
  <2>1. Len(At(d, b)) \in Nat
    BY AtIsSequence
  <2>2. 1 \in Int /\ Len(At(d, b)) \in Int
    BY <2>1
  <2>3. IsFiniteSet(1..Len(At(d, b)))
    BY <2>2, FS_Interval
  <2>4. IsFiniteSet({d})
    BY FS_Singleton
  <2> QED
    BY <2>3, <2>4, FS_Product
<1>2. IsFiniteSet(All)
  <2>1. image \in Surjection(Dates, All)
    BY DEF Surjection
  <2> HIDE DEF image, All
  <2> QED
    BY <2>1, FS_Surjection, CorpusAssumption
<1>3. \A T \in All : IsFiniteSet(T)
  BY <1>1
<1>4. Slots(b) = UNION All
  BY DEF Slots
<1>5. IsFiniteSet(Slots(b))
  <2> HIDE DEF All
  <2> QED
    BY <1>2, <1>3, <1>4, FS_UNION
<1>6. IsFiniteSet(FirstOfEach(b))
  <2>1. FirstOfEach(b) \in SUBSET Slots(b)
    BY DEF FirstOfEach
  <2> QED
    BY <1>5, <2>1, FS_Subset
<1>7. values \in Surjection(FirstOfEach(b), AllPapers(b))
  BY DEF Surjection, AllPapers
<1>8. IsFiniteSet(AllPapers(b))
  <2> HIDE DEF values
  <2> QED
    BY <1>6, <1>7, FS_Surjection
<1> QED
  BY <1>5, <1>8

\* A sequence goes on in one that is put behind it.
LEMMA Beginning ==
  ASSUME NEW W, NEW s \in Seq(W), NEW t \in Seq(W)
  PROVE  /\ s \o t \in Seq(W) /\ Len(s) \in Nat /\ Len(s \o t) \in Nat
         /\ Len(s) <= Len(s \o t)
         /\ \A n \in 1..Len(s) : n \in 1..Len(s \o t) /\ (s \o t)[n] = s[n]
<1>1. PICK x \in Nat, y \in Nat : x = Len(s) /\ y = Len(t)
  BY LenProperties
<1>2. /\ s \o t \in Seq(W) /\ Len(s \o t) = x + y
      /\ \A n \in 1..(x + y) : (s \o t)[n] = IF n <= x THEN s[n] ELSE t[n - x]
  BY <1>1, ConcatProperties
<1>3. \A n \in 1..x : n \in 1..(x + y) /\ n <= x
  OBVIOUS
<1>4. x <= x + y /\ x + y \in Nat
  OBVIOUS
<1> QED
  BY <1>1, <1>2, <1>3, <1>4

\* The text of a paper begins with its title.
LEMMA HaystackIsSequence ==
  ASSUME NEW item \in Items
  PROVE  /\ Len(item.title) \in Nat /\ Len(Haystack(item)) \in Nat
         /\ Len(item.title) <= Len(Haystack(item))
         /\ \A n \in 1..Len(item.title) : Haystack(item)[n] = item.title[n]
<1> DEFINE W == ToSet(item.title) \cup ToSet(item.text) \cup ToSet(item.tags)
                    \cup {[word |-> item.venue, end |-> " "]}
<1>1. item.title \in Seq(W) /\ item.text \in Seq(W) /\ item.tags \in Seq(W)
  <2>1. \A t \in {item.title, item.text, item.tags} : t \in Seq(ToSet(t)) /\ ToSet(t) \subseteq W
    BY CorpusAssumption
  <2> HIDE DEF W
  <2> QED
    BY <2>1, SeqMonotonic
<1>2. Venue(item) \in Seq(W)
  BY DEF Venue
<1> HIDE DEF W
<1>3. PICK one : one = item.title \o item.text
  OBVIOUS
<1>4. PICK two : two = one \o item.tags
  OBVIOUS
<1>5. Haystack(item) = two \o Venue(item)
  BY <1>3, <1>4 DEF Haystack
<1>6. /\ one \in Seq(W) /\ Len(item.title) \in Nat /\ Len(one) \in Nat
      /\ Len(item.title) <= Len(one)
      /\ \A n \in 1..Len(item.title) : n \in 1..Len(one) /\ one[n] = item.title[n]
  BY <1>1, <1>3, Beginning
<1>7. /\ two \in Seq(W) /\ Len(two) \in Nat /\ Len(one) <= Len(two)
      /\ \A n \in 1..Len(one) : n \in 1..Len(two) /\ two[n] = one[n]
  BY <1>1, <1>4, <1>6, Beginning
<1>8. /\ Len(Haystack(item)) \in Nat /\ Len(two) <= Len(Haystack(item))
      /\ \A n \in 1..Len(two) : Haystack(item)[n] = two[n]
  BY <1>2, <1>5, <1>7, Beginning
<1>9. Len(item.title) <= Len(Haystack(item))
  BY <1>6, <1>7, <1>8
<1>10. \A n \in 1..Len(item.title) : Haystack(item)[n] = item.title[n]
  BY <1>6, <1>7, <1>8, Zenon
<1> QED
  BY <1>6, <1>8, <1>9, <1>10

\* A phrase of the title is one of the whole text.
LEMMA PhraseOfTitle ==
  ASSUME NEW item \in Items, NEW query \in Queries, HasPhrase(item.title, query)
  PROVE  HasPhrase(Haystack(item), query)
<1> DEFINE Is(token, n) ==
        /\ token.word = query[n].word
        /\ token.end = query[n].end \/ (n = Len(query) /\ query[n].end = " ")
<1>1. PICK start \in 0..Len(item.title) :
        start + Len(query) <= Len(item.title)
            /\ \A n \in 1..Len(query) : Is(item.title[start + n], n)
  BY DEF HasPhrase
<1>2. PICK q \in Nat : q = Len(query)
  BY CorpusAssumption, LenProperties
<1>3. PICK x \in Nat, y \in Nat :
        /\ x = Len(item.title) /\ y = Len(Haystack(item)) /\ x <= y
        /\ \A n \in 1..x : Haystack(item)[n] = item.title[n]
  BY HaystackIsSequence
<1>4. start \in 0..x /\ start + q <= x
  BY <1>1, <1>2, <1>3
<1>5. ASSUME NEW n \in 1..Len(query)
      PROVE  Is(Haystack(item)[start + n], n)
  <2>1. n \in 1..q
    BY <1>2
  <2>2. start + n \in 1..x
    BY <1>4, <2>1
  <2>3. Haystack(item)[start + n] = item.title[start + n]
    BY <1>3, <2>2
  <2> QED
    BY <1>1, <2>3
<1>6. start \in 0..y /\ start + q <= y
  BY <1>3, <1>4
<1>7. start \in 0..Len(Haystack(item)) /\ start + Len(query) <= Len(Haystack(item))
  BY <1>2, <1>3, <1>6
<1> QED
  BY <1>5, <1>7 DEF HasPhrase

\* What a query finds in a text is finite.
LEMMA FindsAreFinite ==
  ASSUME NEW query \in Queries, NEW text
  PROVE  /\ IsFiniteSet(Hits(text, query)) /\ IsFiniteSet(Counts(text, query))
         /\ IsFiniteSet(Matched(text, query))
<1> DEFINE term == [n \in Hits(text, query) |-> Term(query[n])]
<1>1. Len(query) \in Nat
  BY CorpusAssumption, LenProperties
<1>2. IsFiniteSet(1..Len(query)) /\ IsFiniteSet(1..4)
  <2>1. 1 \in Int /\ 4 \in Int /\ Len(query) \in Int
    BY <1>1
  <2> QED
    BY <2>1, FS_Interval
<1>3. Hits(text, query) \in SUBSET (1..Len(query))
  BY DEF Hits
<1>4. IsFiniteSet(Hits(text, query))
  BY <1>2, <1>3, FS_Subset
<1>5. Counts(text, query) \in SUBSET ((1..Len(query)) \X (1..4))
  BY DEF Counts
<1>6. IsFiniteSet((1..Len(query)) \X (1..4))
  BY <1>2, FS_Product
<1>7. IsFiniteSet(Counts(text, query))
  BY <1>5, <1>6, FS_Subset
<1>8. term \in Surjection(Hits(text, query), Matched(text, query))
  BY DEF Surjection, Matched
<1> HIDE DEF term
<1>9. IsFiniteSet(Matched(text, query))
  BY <1>4, <1>8, FS_Surjection
<1> QED
  BY <1>4, <1>7, <1>9

\* A term is there when it is there once.
LEMMA CountsHits ==
  ASSUME NEW item \in Items, NEW query \in Queries, NEW n \in 1..Len(query)
  PROVE  n \in Hits(Haystack(item), query) <=> <<n, 1>> \in Counts(Haystack(item), query)
<1> DEFINE text == Haystack(item)
           M == {m \in 1..Len(text) : Holds(text[m], Term(query[n]))}
<1>1. Len(text) \in Nat
  BY HaystackIsSequence
<1>2. IsFiniteSet(1..Len(text))
  BY <1>1, FS_Interval
<1>3. M \in SUBSET (1..Len(text))
  OBVIOUS
<1>4. IsFiniteSet(M)
  <2> HIDE DEF text, M
  <2> QED
    BY <1>2, <1>3, FS_Subset
<1>5. Cardinality(M) \in Nat /\ (Cardinality(M) = 0 <=> M = {})
  <2> HIDE DEF M
  <2> QED
    BY <1>4, FS_CardinalityType, FS_EmptySet
<1>6. n \in Hits(text, query) <=> M # {}
  BY DEF Hits
<1>7. <<n, 1>> \in Counts(text, query) <=> 1 <= Cardinality(M)
  <2>1. Times(text, Term(query[n])) = Cardinality(M)
    BY DEF Times
  <2>2. <<n, 1>> \in (1..Len(query)) \X (1..4) /\ <<n, 1>>[1] = n /\ <<n, 1>>[2] = 1
    OBVIOUS
  <2> HIDE DEF M, text
  <2> QED
    BY <2>1, <2>2 DEF Counts
<1> HIDE DEF M, text
<1>8. n \in Hits(text, query) <=> <<n, 1>> \in Counts(text, query)
  BY <1>5, <1>6, <1>7
<1> QED
  BY <1>8 DEF text

\* What the parts of a score are worth.
LEMMA ScoreIsSum ==
  ASSUME NEW item \in Items, NEW query \in Queries, query # <<>>
  PROVE  /\ PhrasePoints(item, query) \in Nat
         /\ Cardinality(Hits(item.title, query)) \in Nat
         /\ Cardinality(Hits(item.tags, query)) \in Nat
         /\ Cardinality(Hits(Venue(item), query)) \in Nat
         /\ Cardinality(Counts(Haystack(item), query)) \in Nat
         /\ Cardinality(Matched(Haystack(item), query)) \in Nat
         /\ Score(item, query) =
                PhrasePoints(item, query)
                    + 10 * Cardinality(Hits(item.title, query))
                    + 8 * Cardinality(Hits(item.tags, query))
                    + 6 * Cardinality(Hits(Venue(item), query))
                    + 2 * Cardinality(Counts(Haystack(item), query))
                    + 3 * Cardinality(Matched(Haystack(item), query))
<1>1. PhrasePoints(item, query) \in Nat
  BY DEF PhrasePoints
<1>2. \A text : /\ Cardinality(Hits(text, query)) \in Nat
                /\ Cardinality(Counts(text, query)) \in Nat
                /\ Cardinality(Matched(text, query)) \in Nat
  BY FindsAreFinite, FS_CardinalityType
<1>3. Score(item, query) =
                PhrasePoints(item, query)
                    + 10 * Cardinality(Hits(item.title, query))
                    + 8 * Cardinality(Hits(item.tags, query))
                    + 6 * Cardinality(Hits(Venue(item), query))
                    + 2 * Cardinality(Counts(Haystack(item), query))
                    + 3 * Cardinality(Matched(Haystack(item), query))
  BY DEF Score
<1> QED
  BY <1>1, <1>2, <1>3

\* A paper that has a term of the query scores more than nothing.
LEMMA TermScores ==
  ASSUME NEW query \in Queries, NEW item \in Items,
         Terms(Haystack(item)) \cap Terms(query) # {}
  PROVE  Score(item, query) > 0
<1> DEFINE S == Matched(Haystack(item), query)
<1>1. PICK n \in 1..Len(query) : Term(query[n]) \in Terms(Haystack(item))
  BY DEF Terms
<1>2. query # <<>>
  <2>1. Len(<<>>) = 0
    OBVIOUS
  <2> QED
    BY <1>1, <2>1
<1>3. n \in Hits(Haystack(item), query)
  BY <1>1 DEF Hits, Holds, Terms
<1>4. S # {}
  BY <1>3 DEF Matched
<1>5. IsFiniteSet(S)
  BY FindsAreFinite
<1>6. Cardinality(S) \in Nat /\ Cardinality(S) # 0
  <2> HIDE DEF S
  <2> QED
    BY <1>4, <1>5, FS_EmptySet, FS_CardinalityType
<1>7. Score(item, query) > 0
  <2>1. PICK m \in Nat : m = Cardinality(S) /\ m # 0
    BY <1>6
  <2> HIDE DEF S
  <2>2. \E r \in Nat : Score(item, query) = r + 3 * m
    <3> DEFINE p == PhrasePoints(item, query)
               t == Cardinality(Hits(item.title, query))
               s == Cardinality(Hits(item.tags, query))
               v == Cardinality(Hits(Venue(item), query))
               c == Cardinality(Counts(Haystack(item), query))
    <3>1. p \in Nat /\ t \in Nat /\ s \in Nat /\ v \in Nat /\ c \in Nat
      BY <1>2, ScoreIsSum
    <3>2. Score(item, query) = p + 10 * t + 8 * s + 6 * v + 2 * c + 3 * m
      BY <1>2, <2>1, ScoreIsSum, Zenon DEF S
    <3> HIDE DEF p, t, s, v, c
    <3>3. p + 10 * t + 8 * s + 6 * v + 2 * c \in Nat
      BY <3>1
    <3> QED
      BY <3>2, <3>3
  <2> QED
    BY <2>1, <2>2
<1> QED
  BY <1>7

\* Of two finite sets the larger has no fewer, and more when they differ.
LEMMA MoreOfMore ==
  ASSUME NEW S, NEW T, IsFiniteSet(T), S \subseteq T
  PROVE  Cardinality(S) <= Cardinality(T) /\ (~(T \subseteq S) => Cardinality(S) # Cardinality(T))
<1>1. S \in SUBSET T
  OBVIOUS
<1> QED
  BY <1>1, FS_Subset

\* Who has all that another has scores no less, and more when it has more.
LEMMA HasAllScoresMore ==
  ASSUME NEW f \in Items, NEW g \in Items, NEW query \in Queries, HasAll(g, f, query)
  PROVE  /\ Score(f, query) \in Nat /\ Score(g, query) \in Nat
         /\ Score(f, query) <= Score(g, query)
         /\ ~HasAll(f, g, query) => Score(f, query) < Score(g, query)
<1>1. CASE query = <<>>
  <2>1. Score(f, query) = 2 /\ Score(g, query) = 2
    BY <1>1 DEF Score
  <2>2. Len(query) = 0
    BY <1>1
  <2>3. \A text : Hits(text, query) = {} /\ Counts(text, query) = {}
    BY <2>2 DEF Hits, Counts
  <2>4. \A item \in Items : HasPhrase(item.title, query) /\ HasPhrase(Haystack(item), query)
    BY <2>2, HaystackIsSequence DEF HasPhrase
  <2>5. HasAll(f, g, query)
    BY <2>3, <2>4 DEF HasAll
  <2> QED
    BY <2>1, <2>5
<1>2. CASE query # <<>>
  <2>1. /\ HasPhrase(f.title, query) => HasPhrase(g.title, query)
        /\ HasPhrase(Haystack(f), query) => HasPhrase(Haystack(g), query)
        /\ Hits(f.title, query) \subseteq Hits(g.title, query)
        /\ Hits(f.tags, query) \subseteq Hits(g.tags, query)
        /\ Hits(Venue(f), query) \subseteq Hits(Venue(g), query)
        /\ Counts(Haystack(f), query) \subseteq Counts(Haystack(g), query)
    BY DEF HasAll
  <2>2. Matched(Haystack(f), query) \subseteq Matched(Haystack(g), query)
    <3>1. ASSUME NEW n \in Hits(Haystack(f), query)
          PROVE  n \in Hits(Haystack(g), query)
      <4>1. n \in 1..Len(query)
        BY DEF Hits
      <4> QED
        BY <2>1, <4>1, CountsHits
    <3> QED
      BY <3>1 DEF Matched
  <2>3. /\ PhrasePoints(f, query) <= PhrasePoints(g, query)
        /\ PhrasePoints(f, query) = PhrasePoints(g, query) =>
                /\ HasPhrase(g.title, query) => HasPhrase(f.title, query)
                /\ HasPhrase(Haystack(g), query) => HasPhrase(Haystack(f), query)
    BY <2>1, PhraseOfTitle DEF PhrasePoints
  <2>4. \A text : /\ IsFiniteSet(Hits(text, query)) /\ IsFiniteSet(Counts(text, query))
                  /\ IsFiniteSet(Matched(text, query))
    BY FindsAreFinite
  <2>5. /\ Cardinality(Hits(f.title, query)) <= Cardinality(Hits(g.title, query))
        /\ Cardinality(Hits(f.tags, query)) <= Cardinality(Hits(g.tags, query))
        /\ Cardinality(Hits(Venue(f), query)) <= Cardinality(Hits(Venue(g), query))
        /\ Cardinality(Counts(Haystack(f), query)) <= Cardinality(Counts(Haystack(g), query))
        /\ Cardinality(Matched(Haystack(f), query)) <= Cardinality(Matched(Haystack(g), query))
    BY <2>1, <2>2, <2>4, MoreOfMore
  <2>6. ASSUME PhrasePoints(f, query) = PhrasePoints(g, query),
               Cardinality(Hits(f.title, query)) = Cardinality(Hits(g.title, query)),
               Cardinality(Hits(f.tags, query)) = Cardinality(Hits(g.tags, query)),
               Cardinality(Hits(Venue(f), query)) = Cardinality(Hits(Venue(g), query)),
               Cardinality(Counts(Haystack(f), query)) = Cardinality(Counts(Haystack(g), query))
        PROVE  HasAll(f, g, query)
    <3>1. /\ Hits(g.title, query) \subseteq Hits(f.title, query)
          /\ Hits(g.tags, query) \subseteq Hits(f.tags, query)
          /\ Hits(Venue(g), query) \subseteq Hits(Venue(f), query)
          /\ Counts(Haystack(g), query) \subseteq Counts(Haystack(f), query)
      BY <2>1, <2>4, <2>6, MoreOfMore
    <3> QED
      BY <2>3, <2>6, <3>1 DEF HasAll
  <2>7. /\ Score(f, query) \in Nat /\ Score(g, query) \in Nat
        /\ Score(f, query) <= Score(g, query)
        /\ Score(f, query) = Score(g, query) =>
                /\ PhrasePoints(f, query) = PhrasePoints(g, query)
                /\ Cardinality(Hits(f.title, query)) = Cardinality(Hits(g.title, query))
                /\ Cardinality(Hits(f.tags, query)) = Cardinality(Hits(g.tags, query))
                /\ Cardinality(Hits(Venue(f), query)) = Cardinality(Hits(Venue(g), query))
                /\ Cardinality(Counts(Haystack(f), query)) = Cardinality(Counts(Haystack(g), query))
    <3> DEFINE p(i) == PhrasePoints(i, query)
               t(i) == Cardinality(Hits(i.title, query))
               s(i) == Cardinality(Hits(i.tags, query))
               v(i) == Cardinality(Hits(Venue(i), query))
               c(i) == Cardinality(Counts(Haystack(i), query))
               m(i) == Cardinality(Matched(Haystack(i), query))
    <3>1. \A i \in {f, g} :
            /\ p(i) \in Nat /\ t(i) \in Nat /\ s(i) \in Nat
            /\ v(i) \in Nat /\ c(i) \in Nat /\ m(i) \in Nat
      BY <1>2, ScoreIsSum
    <3>2. \A i \in {f, g} :
            Score(i, query) = p(i) + 10 * t(i) + 8 * s(i) + 6 * v(i) + 2 * c(i) + 3 * m(i)
      BY <1>2, ScoreIsSum, Zenon
    <3>3. /\ p(f) <= p(g) /\ t(f) <= t(g) /\ s(f) <= s(g)
          /\ v(f) <= v(g) /\ c(f) <= c(g) /\ m(f) <= m(g)
      BY <2>3, <2>5
    <3> HIDE DEF p, t, s, v, c, m
    <3>4. /\ Score(f, query) \in Nat /\ Score(g, query) \in Nat
          /\ Score(f, query) <= Score(g, query)
          /\ Score(f, query) = Score(g, query) =>
                p(f) = p(g) /\ t(f) = t(g) /\ s(f) = s(g) /\ v(f) = v(g) /\ c(f) = c(g)
      <4>1. \A i \in {f, g} : \E r \in Nat :
                /\ r = 10 * t(i) + 8 * s(i) + 6 * v(i) + 2 * c(i) + 3 * m(i)
                /\ Score(i, query) = p(i) + r
        BY <3>1, <3>2
      <4> QED
        BY <3>1, <3>3, <4>1
    <3> QED
      BY <3>4 DEF p, t, s, v, c
  <2> QED
    BY <2>6, <2>7
<1> QED
  BY <1>1, <1>2

\* Who surpasses another goes before it.
LEMMA SurpassingIsBetter ==
  ASSUME NEW f, NEW g, f.item \in Items, g.item \in Items, NEW query \in Queries,
         Surpasses(g, f, query)
  PROVE  Better(g, f, query)
<1>1. CASE ~HasAll(f.item, g.item, query)
  <2>1. Score(f.item, query) < Score(g.item, query)
        /\ Score(f.item, query) \in Nat /\ Score(g.item, query) \in Nat
    BY <1>1, HasAllScoresMore DEF Surpasses
  <2>2. Score(g.item, query) > Score(f.item, query)
    BY <2>1
  <2> QED
    BY <2>2 DEF Better
<1>2. CASE HasAll(f.item, g.item, query)
  <2>1. /\ Score(f.item, query) <= Score(g.item, query)
        /\ Score(g.item, query) <= Score(f.item, query)
        /\ Score(f.item, query) \in Nat /\ Score(g.item, query) \in Nat
    BY <1>2, HasAllScoresMore DEF Surpasses
  <2>2. Score(g.item, query) = Score(f.item, query) /\ g.date > f.date
    BY <1>2, <2>1 DEF Surpasses
  <2> QED
    BY <2>2 DEF Better
<1> QED
  BY <1>1, <1>2
\* Without a newer copy it is one of those that the search ranks.
LEMMA TermIsFound ==
  ASSUME FilesWritten, NEW query \in Queries, NEW b \in BOOLEAN,
         NEW d \in Dates, NEW g \in ToSet(At(d, b)),
         Terms(Haystack(g.item)) \cap Terms(query) # {},
         ~\E e \in Dates : \E h \in ToSet(At(e, b)) :
            h.item.id = g.item.id /\ (e > d \/ (e = d /\ h # g))
  PROVE  g \in BestFound(query, b)
<1>1. PICK p \in Slots(b) : p[1] = d /\ Copy(p, b) = g
  BY ListedCopies
<1>2. PICK q \in FirstOfEach(b) : SameId(q, p, b) /\ q[1] >= p[1]
  BY FirstCopyListed
<1>3. q \in Slots(b)
  BY DEF FirstOfEach
<1>4. q[1] \in Dates /\ Copy(q, b) \in ToSet(At(q[1], b))
  BY <1>3, CopiesOfSlots, ListedCopies
<1>5. ~(q[1] > d) /\ ~(q[1] = d /\ Copy(q, b) # g)
  BY <1>1, <1>2, <1>4 DEF SameId
<1>6. q[1] \in Nat /\ d \in Nat
  BY <1>4, CorpusAssumption
<1>7. Copy(q, b) = g
  BY <1>1, <1>2, <1>5, <1>6
<1>8. g \in AllPapers(b)
  BY <1>7 DEF AllPapers
<1>9. g.item \in Items
  BY <1>3, <1>7, CopiesOfSlots DEF Copies
<1>10. Score(g.item, query) > 0
  BY <1>9, TermScores
<1> QED
  BY <1>8, <1>10 DEF BestFound, SearchCandidates

\* Whoever is left out gives way to as many as were asked for.
LEMMA LeftOutForBetter ==
  ASSUME NEW C, IsFiniteSet(C), NEW query, NEW limit \in Nat,
         NEW s \in Best(C, query, limit), NEW g \in C, g \notin s
  PROVE  Cardinality(s) = limit /\ \A f \in s : ~Better(g, f, query)
<1>1. /\ s \in SUBSET C
      /\ Cardinality(s) = IF limit < Cardinality(C) THEN limit ELSE Cardinality(C)
      /\ \A f \in s, h \in C \ s : ~Better(h, f, query)
  BY DEF Best
<1>2. Cardinality(s) # Cardinality(C)
  BY <1>1, FS_Subset
<1> QED
  BY <1>1, <1>2

LEMMA BetterAreAnswered ==
  ASSUME CorpusInv, call.tool = "search", NEW d \in Dates, NEW g \in ToSet(At(d, call.inArchive)),
         Terms(Haystack(g.item)) \cap Terms(call.query) # {},
         ~\E e \in Dates : \E h \in ToSet(At(e, call.inArchive)) :
            h.item.id = g.item.id /\ (e > d \/ (e = d /\ h # g)),
         ~\E f \in answer : f.item.id = g.item.id
  PROVE  Cardinality(answer) = call.limit /\ \A f \in answer : ~Surpasses(g, f, call.query)
<1>1. PICK query, limit, b : query = call.query /\ limit = call.limit /\ b = call.inArchive
  OBVIOUS
<1>2. /\ FilesWritten /\ query \in Queries /\ limit \in Nat /\ b \in BOOLEAN
      /\ answer \in Best(BestFound(query, b), query, limit)
  BY <1>1, CorpusAssumption DEF CorpusInv, Answered
<1>3. g \in BestFound(query, b)
  BY <1>1, <1>2, TermIsFound
<1>4. IsFiniteSet(BestFound(query, b))
  <2>1. BestFound(query, b) \in SUBSET AllPapers(b)
    BY DEF BestFound, SearchCandidates
  <2> QED
    BY <1>2, <2>1, SlotsAreFinite, FS_Subset
<1>5. g \notin answer
  OBVIOUS
<1>6. Cardinality(answer) = limit /\ \A f \in answer : ~Better(g, f, query)
  BY <1>2, <1>3, <1>4, <1>5, LeftOutForBetter
<1>7. \A f \in AllPapers(b) : f.item \in Items
  <2>1. \A p \in FirstOfEach(b) : Copy(p, b).item \in Items
    BY <1>2, CopiesOfSlots DEF FirstOfEach, Copies
  <2> QED
    BY <2>1 DEF AllPapers
<1>8. g \in AllPapers(b) /\ answer \subseteq AllPapers(b)
  BY <1>2, <1>3 DEF Best, BestFound, SearchCandidates
<1>9. \A f \in answer : ~Surpasses(g, f, query)
  BY <1>2, <1>6, <1>7, <1>8, SurpassingIsBetter
<1> QED
  BY <1>1, <1>6, <1>9

\* A paper that matches a search is answered unless a newer copy is listed
\* or as many others are, none of which it surpasses (mcp_server.py:81-100
\* and 139-217): neither what leaves copies out nor the points of _score nor
\* the cut at the limit prefers a paper in which the query finds less.
THEOREM NoneIsSurpassed == CorpusSpec => []NoneSurpassed
<1>1. CorpusInv => NoneSurpassed
  BY BetterAreAnswered DEF NoneSurpassed
<1> QED
  BY <1>1, CorpusStarts, CorpusSteps, PTL DEF CorpusSpec

-----------------------------------------------------------------------------
\* What a date is counted with: papers.json or the archive, which agree
\* where both have it.
BlockOf(d) == IF d = current.date THEN current.papers ELSE archive[d]

LEMMA BlockIsListed ==
  ASSUME FilesWritten, ~Torn, NEW d \in (DOMAIN archive \cup {current.date}) \ {NoDate}
  PROVE  /\ d \in Dates /\ BlockOf(d) \in Blocks
         /\ ToSet(At(d, TRUE)) = {[item |-> BlockOf(d)[n], date |-> d] : n \in 1..Len(BlockOf(d))}
<1> DEFINE s == BlockOf(d)  c == InCurrent(d)  a == InArchive(d, TRUE)
<1>1. d \in Dates
  BY DEF FilesWritten
<1>2. s \in Blocks
  BY DEF FilesWritten, BlockOf
<1>3. c = s \/ (c = <<>> /\ a = s)
  BY DEF BlockOf, InCurrent, InArchive
<1>4. a = s \/ a = <<>>
  BY DEF BlockOf, InCurrent, InArchive, Torn
<1>5. /\ Len(c) \in Nat /\ Len(a) \in Nat
      /\ At(d, TRUE) \in Seq(Copies)
      /\ Len(At(d, TRUE)) = Len(c) + Len(a)
      /\ \A n \in 1..Len(At(d, TRUE)) :
           /\ n <= Len(c) => At(d, TRUE)[n] = [item |-> c[n], date |-> d]
           /\ n > Len(c) => At(d, TRUE)[n] = [item |-> a[n - Len(c)], date |-> d]
  BY <1>1, AtIsSequence
<1>6. Len(<<>>) = 0
  OBVIOUS
<1>7. DOMAIN At(d, TRUE) = 1..Len(At(d, TRUE))
  BY <1>5, LenProperties
<1> HIDE DEF s, c, a
<1>8. ASSUME NEW n \in 1..Len(At(d, TRUE))
      PROVE  \E m \in 1..Len(s) : At(d, TRUE)[n] = [item |-> s[m], date |-> d]
  <2>1. PICK x \in Nat, y \in Nat : Len(c) = x /\ Len(a) = y
    BY <1>5
  <2>2. n \in 1..(x + y)
    BY <1>5, <2>1
  <2>3. CASE n <= x
    <3>1. n \in 1..x
      BY <2>2, <2>3
    <3>2. At(d, TRUE)[n] = [item |-> c[n], date |-> d]
      BY <1>5, <2>1, <2>3
    <3>3. c = s
      BY <1>3, <1>6, <2>1, <3>1
    <3> QED
      BY <2>1, <3>1, <3>2, <3>3
  <2>4. CASE n > x
    <3>1. n - x \in 1..y
      BY <2>2, <2>4
    <3>2. At(d, TRUE)[n] = [item |-> a[n - x], date |-> d]
      BY <1>5, <2>1, <2>4
    <3>3. a = s
      BY <1>4, <1>6, <2>1, <3>1
    <3> QED
      BY <2>1, <3>1, <3>2, <3>3
  <2>5. n <= x \/ n > x
    BY <2>2
  <2> QED
    BY <2>3, <2>4, <2>5
<1>9. ASSUME NEW m \in 1..Len(s)
      PROVE  \E n \in 1..Len(At(d, TRUE)) : At(d, TRUE)[n] = [item |-> s[m], date |-> d]
  <2>1. PICK x \in Nat, y \in Nat : Len(c) = x /\ Len(a) = y
    BY <1>5
  <2>2. Len(At(d, TRUE)) = x + y
    BY <1>5, <2>1
  <2>3. CASE c = s
    <3>1. m \in 1..x
      BY <2>1, <2>3
    <3>2. m \in 1..(x + y) /\ m <= x
      BY <3>1
    <3>3. At(d, TRUE)[m] = [item |-> c[m], date |-> d]
      BY <1>5, <2>1, <2>2, <3>2
    <3> QED
      BY <2>2, <2>3, <3>2, <3>3
  <2>4. CASE c = <<>> /\ a = s
    <3>1. x = 0 /\ m \in 1..y
      BY <1>6, <2>1, <2>4
    <3>2. m \in 1..(x + y) /\ m > x /\ m - x = m
      BY <3>1
    <3>3. At(d, TRUE)[m] = [item |-> a[m], date |-> d]
      BY <1>5, <2>1, <2>2, <3>2
    <3> QED
      BY <2>2, <2>4, <3>2, <3>3
  <2> QED
    BY <1>3, <2>3, <2>4
<1>10. ToSet(At(d, TRUE)) = {[item |-> s[n], date |-> d] : n \in 1..Len(s)}
  <2>1. ToSet(At(d, TRUE)) = {At(d, TRUE)[n] : n \in 1..Len(At(d, TRUE))}
    BY <1>7 DEF ToSet
  <2>2. ASSUME NEW g \in ToSet(At(d, TRUE))
        PROVE  g \in {[item |-> s[n], date |-> d] : n \in 1..Len(s)}
    <3>1. PICK n \in 1..Len(At(d, TRUE)) : g = At(d, TRUE)[n]
      BY <2>1
    <3>2. PICK m \in 1..Len(s) : At(d, TRUE)[n] = [item |-> s[m], date |-> d]
      BY <1>8
    <3> QED
      BY <3>1, <3>2
  <2>3. ASSUME NEW g \in {[item |-> s[n], date |-> d] : n \in 1..Len(s)}
        PROVE  g \in ToSet(At(d, TRUE))
    <3>1. PICK m \in 1..Len(s) : g = [item |-> s[m], date |-> d]
      OBVIOUS
    <3>2. PICK n \in 1..Len(At(d, TRUE)) : At(d, TRUE)[n] = [item |-> s[m], date |-> d]
      BY <1>9
    <3> QED
      BY <2>1, <3>1, <3>2
  <2> QED
    BY <2>2, <2>3
<1> QED
  BY <1>1, <1>2, <1>10 DEF s

\* As many papers as the block is long: it has no id twice.
LEMMA BlockIsCounted ==
  ASSUME NEW s \in Blocks, NEW d
  PROVE  /\ IsFiniteSet({[item |-> s[n], date |-> d] : n \in 1..Len(s)})
         /\ Cardinality({[item |-> s[n], date |-> d] : n \in 1..Len(s)}) = Len(s)
<1> DEFINE P == {[item |-> s[n], date |-> d] : n \in 1..Len(s)}
           f == [n \in 1..Len(s) |-> [item |-> s[n], date |-> d]]
<1>1. Len(s) \in Nat /\ \A i, j \in 1..Len(s) : s[i].id = s[j].id => i = j
  BY BlocksAreSequences
<1>2. f \in Surjection(1..Len(s), P)
  BY DEF Surjection
<1>3. f \in Injection(1..Len(s), P)
  <2>1. f \in [1..Len(s) -> P]
    OBVIOUS
  <2>2. ASSUME NEW i \in 1..Len(s), NEW j \in 1..Len(s), f[i] = f[j]
        PROVE  i = j
    <3>1. f[i].item = s[i] /\ f[j].item = s[j]
      OBVIOUS
    <3>2. s[i].id = s[j].id
      BY <2>2, <3>1
    <3> QED
      BY <1>1, <3>2
  <2> HIDE DEF f, P
  <2> QED
    BY <2>1, <2>2 DEF Injection, IsInjective
<1>4. 1 \in Int /\ Len(s) \in Int
  BY <1>1
<1>5. IsFiniteSet(1..Len(s)) /\ Cardinality(1..Len(s)) = Len(s)
  <2>1. Cardinality(1..Len(s)) = IF 1 > Len(s) THEN 0 ELSE Len(s) - 1 + 1
    BY <1>4, FS_Interval
  <2>2. IsFiniteSet(1..Len(s))
    BY <1>4, FS_Interval
  <2> QED
    BY <1>1, <2>1, <2>2
<1>6. IsFiniteSet(P) /\ Cardinality(P) = Cardinality(1..Len(s))
  <2> HIDE DEF f, P
  <2> QED
    BY <1>2, <1>3, <1>5, FS_Surjection
<1> QED
  BY <1>5, <1>6

\* A date lists what no newer date has again.
LEMMA ListedOfDate ==
  ASSUME FilesWritten, ~Torn, NEW d \in (DOMAIN archive \cup {current.date}) \ {NoDate}
  PROVE  Listed(d) = ToSet(At(d, TRUE)) \
                        {f \in ToSet(At(d, TRUE)) :
                            \E g \in AllStored : g.item.id = f.item.id /\ g.date > f.date}
<1> DEFINE P == ToSet(At(d, TRUE))
           Newer(f) == \E g \in AllStored : g.item.id = f.item.id /\ g.date > f.date
<1>1. /\ d \in Dates /\ BlockOf(d) \in Blocks
      /\ P = {[item |-> BlockOf(d)[n], date |-> d] : n \in 1..Len(BlockOf(d))}
  BY BlockIsListed
<1>2. ASSUME NEW f \in Listed(d)
      PROVE  f \in P /\ ~Newer(f)
  <2>1. f \in AllPapers(TRUE) /\ f.date = d
    BY DEF Listed
  <2>2. PICK p \in FirstOfEach(TRUE) : /\ p \in Slots(TRUE) /\ Copy(p, TRUE) = f
                                       /\ f.date = p[1] /\ p[1] \in Nat
    BY <2>1, ListedCopyOf
  <2>3. f \in P
    BY <1>1, <2>1, <2>2, ListedCopies
  <2>4. ASSUME NEW g \in AllStored, g.item.id = f.item.id, g.date > f.date
        PROVE  FALSE
    <3>1. PICK e \in Dates : g \in ToSet(At(e, TRUE))
      BY DEF AllStored
    <3>2. PICK q \in Slots(TRUE) : q[1] = e /\ Copy(q, TRUE) = g
      BY <3>1, ListedCopies
    <3>3. SameId(q, p, TRUE) /\ g.date = q[1]
      BY <2>2, <2>4, <3>2, CopiesOfSlots DEF SameId
    <3>4. q[1] <= p[1]
      BY <3>3, FirstIsNewest
    <3>5. q[1] \in Nat
      BY <3>2, CorpusAssumption
    <3> QED
      BY <2>2, <2>4, <3>3, <3>4, <3>5
  <2> QED
    BY <2>3, <2>4
<1>3. ASSUME NEW f \in P, ~Newer(f)
      PROVE  f \in Listed(d)
  <2>1. PICK p \in Slots(TRUE) : p[1] = d /\ Copy(p, TRUE) = f
    BY <1>1, ListedCopies
  <2>2. PICK q \in FirstOfEach(TRUE) : SameId(q, p, TRUE) /\ q[1] >= p[1]
    BY FirstCopyListed
  <2>3. q \in Slots(TRUE)
    BY DEF FirstOfEach
  <2>4. PICK g : g = Copy(q, TRUE)
    OBVIOUS
  <2>5. /\ q[1] \in Dates /\ g.date = q[1] /\ f.date = d /\ g \in ToSet(At(q[1], TRUE))
    BY <2>1, <2>3, <2>4, CopiesOfSlots, ListedCopies
  <2>6. g \in AllStored /\ g.item.id = f.item.id
    BY <2>1, <2>2, <2>4, <2>5 DEF AllStored, SameId
  <2>7. ~(g.date > f.date)
    BY <1>3, <2>6
  <2>8. q[1] = d
    <3>1. q[1] \in Nat /\ d \in Nat
      BY <1>1, <2>5, CorpusAssumption
    <3> QED
      BY <2>1, <2>2, <2>5, <2>7, <3>1
  <2>9. PICK n \in 1..Len(BlockOf(d)) : g = [item |-> BlockOf(d)[n], date |-> d]
    BY <1>1, <2>5, <2>8
  <2>10. PICK m \in 1..Len(BlockOf(d)) : f = [item |-> BlockOf(d)[m], date |-> d]
    BY <1>1
  <2>11. BlockOf(d)[n].id = BlockOf(d)[m].id
    BY <2>6, <2>9, <2>10
  <2>12. n = m
    BY <1>1, <2>11, BlocksAreSequences
  <2>13. f = g
    BY <2>9, <2>10, <2>12
  <2>14. f \in AllPapers(TRUE)
    BY <2>4, <2>13 DEF AllPapers
  <2> QED
    BY <2>5, <2>14 DEF Listed
<1>4. Listed(d) = P \ {f \in P : Newer(f)}
  <2> HIDE DEF P, Newer
  <2> QED
    BY <1>2, <1>3
<1> QED
  BY <1>4

LEMMA CountIsListed ==
  ASSUME CorpusInv, call.tool = "available_dates", ~Torn, NEW c \in answer
  PROVE  c.count = Cardinality(Listed(c.date))
                     + Cardinality({f \in ToSet(At(c.date, TRUE)) :
                         \E g \in AllStored : g.item.id = f.item.id /\ g.date > f.date})
<1>1. FilesWritten /\ answer = DatesCounted
  BY DEF CorpusInv, Answered
<1>2. PICK d \in (DOMAIN archive \cup {current.date}) \ {NoDate} :
        c = [date |-> d, count |-> Counted(d)]
  BY <1>1 DEF DatesCounted
<1>3. c.date = d /\ c.count = Len(BlockOf(d))
  BY <1>2 DEF Counted, BlockOf
<1> DEFINE P == ToSet(At(d, TRUE))
           N == {f \in P : \E g \in AllStored : g.item.id = f.item.id /\ g.date > f.date}
<1>4. IsFiniteSet(P) /\ Cardinality(P) = Len(BlockOf(d))
  <2>1. /\ BlockOf(d) \in Blocks
        /\ P = {[item |-> BlockOf(d)[n], date |-> d] : n \in 1..Len(BlockOf(d))}
    BY <1>1, BlockIsListed
  <2>2. PICK block \in Blocks : block = BlockOf(d)
    BY <2>1
  <2>3. P = {[item |-> block[n], date |-> d] : n \in 1..Len(block)}
    BY <2>1, <2>2, Zenon
  <2>4. /\ IsFiniteSet({[item |-> block[n], date |-> d] : n \in 1..Len(block)})
        /\ Cardinality({[item |-> block[n], date |-> d] : n \in 1..Len(block)}) = Len(block)
    BY BlockIsCounted, Zenon
  <2> HIDE DEF P
  <2> QED
    BY <2>2, <2>3, <2>4, Zenon
<1>5. Listed(d) = P \ N
  <2>1. d \in (DOMAIN archive \cup {current.date}) \ {NoDate} /\ FilesWritten /\ ~Torn
    BY <1>1
  <2>2. Listed(d) = ToSet(At(d, TRUE)) \
                        {f \in ToSet(At(d, TRUE)) :
                            \E g \in AllStored : g.item.id = f.item.id /\ g.date > f.date}
    <3> HIDE DEF P, N
    <3> QED
      BY <2>1, ListedOfDate, Zenon
  <2> QED
    BY <2>2
<1>6. P \cap N = N /\ N \in SUBSET P
  OBVIOUS
<1> HIDE DEF P, N
<1>7. Cardinality(P \ N) = Cardinality(P) - Cardinality(N)
  <2>1. IsFiniteSet(P)
    BY <1>4
  <2>2. Cardinality(P \ N) = Cardinality(P) - Cardinality(P \cap N)
    BY <2>1, FS_Difference, Zenon
  <2> QED
    BY <1>6, <2>2, Zenon
<1>8. Cardinality(P) \in Nat /\ Cardinality(N) \in Nat
  <2>1. IsFiniteSet(P) /\ IsFiniteSet(N)
    BY <1>4, <1>6, FS_Subset
  <2> QED
    BY <2>1, FS_CardinalityType
<1>9. Len(BlockOf(d)) = Cardinality(Listed(d)) + Cardinality(N)
  BY <1>4, <1>5, <1>7, <1>8
<1> QED
  BY <1>3, <1>9 DEF P, N

\* available_dates and recent_papers agree on a date (mcp_server.py:245-304):
\* what the one counts and the other does not list, a newer date has again.
\* Where papers.json and the archive differ on their common date, after a
\* run that was stopped between them, nothing is said.
THEOREM CountsAgree == CorpusSpec => []CountsAreListed
<1>1. CorpusInv => CountsAreListed
  BY CountIsListed DEF CountsAreListed
<1> QED
  BY <1>1, CorpusStarts, CorpusSteps, PTL DEF CorpusSpec
=============================================================================
