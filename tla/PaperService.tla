----------------------------- MODULE PaperService -----------------------------
(***************************************************************************)
(* The requests a web process serves from its PaperRepository:             *)
(* GET /api/papers and GET /api/dates of main.py, with the bodies that     *)
(* _cached_json keeps, and the tools of mcp_server.py, with what lru_cache *)
(* keeps of _all_papers_versioned.  The two order their steps differently: *)
(* main.py gets the data and then asks for the version, mcp_server.py asks *)
(* for the version first.                                                  *)
(*                                                                         *)
(* A request is "current" (/api/papers), "dates" (/api/dates; /api/papers  *)
(* of a date works like it, under a key of its own) or "mcp".              *)
(***************************************************************************)
EXTENDS PaperFiles, Sequences, FiniteSets

CONSTANTS
    Readers,    \* the threads that serve requests
    Mixes,      \* bound: kinds of request that are made side by side; the caches of
                \* main.py and of mcp_server.py have nothing in common
    CacheMax,   \* RESPONSE_CACHE_MAX_ENTRIES
    MemoMax     \* maxsize of the lru_cache

Archive == CHOOSE f \in Files : f # Current
Kinds == {"current", "dates", "mcp"}

ASSUME ServiceAssumption ==
    /\ Files = {Current, Archive}
    /\ Mixes \subseteq SUBSET Kinds
    /\ CacheMax \in Nat \ {0} /\ MemoMax \in Nat \ {0}

VARIABLES
    mix,        \* the kinds of request that are made
    at,         \* at[t]: what thread t does next
    kind,       \* kind[t]: the request it serves
    got,        \* got[t][f]: the content of f its request has, or Unread
    ver,        \* ver[t]: what repository.version() returned
    since,      \* history: the files as they were when the request of a tool began
    cache,      \* _response_cache, oldest key first
    memo        \* what lru_cache keeps, by version

requestVars == <<at, kind, got, ver, since>>
vars == <<fileVars, mix, requestVars, cache, memo>>

NoPair == [f \in Files |-> 0]
Unread == -1
NothingRead == [f \in Files |-> Unread]

Init ==
    /\ FilesInit /\ mix \in Mixes
    /\ at = [t \in Readers |-> "idle"]
    /\ kind = [t \in Readers |-> "current"]
    /\ got = [t \in Readers |-> NothingRead]
    /\ ver = [t \in Readers |-> NoPair]
    /\ since = [t \in Readers |-> NoPair]
    /\ cache = <<>>
    /\ memo = {}

Go(t, place) == at' = [at EXCEPT ![t] = place]

Begin(t, k) ==
    /\ at[t] = "idle"
    /\ Go(t, IF k = "mcp" THEN "version" ELSE "data")
    /\ kind' = [kind EXCEPT ![t] = k]
    /\ since' = [since EXCEPT ![t] = IF k = "mcp" THEN disk ELSE NoPair]
    /\ UNCHANGED <<fileVars, mix, got, ver, cache, memo>>

-----------------------------------------------------------------------------
(* repository.current() and repository.archive(), in this order.  By       *)
(* PaperReads each gives a content the file has at some moment of the      *)
(* call, and that moment is the step here.                                 *)

Have(t) == {f \in Files : got[t][f] # Unread}

Complete(t) == Have(t) = Files

NextFile(t) == IF Current \in Have(t) THEN Archive ELSE Current

Fetch(t) ==
    /\ at[t] = "data"
    /\ ~Complete(t)
    /\ got' = [got EXCEPT ![t][NextFile(t)] = disk[NextFile(t)]]
    /\ UNCHANGED <<fileVars, mix, at, kind, ver, since, cache, memo>>

(* repository.version(): one stat for each file.                           *)

\* The handlers of main.py go on in the event loop, one at a time, once the
\* thread pool has the data.
InLoop(t) == kind[t] # "mcp" /\ at[t] \in {"version2", "respond"}

StatStep(t, f, to) ==
    /\ ver' = [ver EXCEPT ![t][f] = disk[f]]
    /\ Go(t, to)
    /\ UNCHANGED <<fileVars, mix, kind, got, since, cache, memo>>

VersionCurrent(t) ==
    /\ \/ at[t] = "version"
       \/ /\ kind[t] # "mcp" /\ at[t] = "data" /\ Complete(t)
          /\ \A u \in Readers : ~InLoop(u)
    /\ StatStep(t, Current, "version2")

VersionArchive(t) ==
    /\ at[t] = "version2"
    /\ StatStep(t, Archive, IF kind[t] = "mcp" THEN "lookup" ELSE "respond")

\* The answer is made and the thread is free.
Done(t) ==
    /\ Go(t, "idle")
    /\ kind' = [kind EXCEPT ![t] = "current"]
    /\ got' = [got EXCEPT ![t] = NothingRead]
    /\ ver' = [ver EXCEPT ![t] = NoPair]
    /\ since' = [since EXCEPT ![t] = NoPair]
    /\ UNCHANGED <<fileVars, mix>>

-----------------------------------------------------------------------------
(* main.py: the end of get_papers and dates, and _cached_json.             *)

\* /api/papers depends on papers.json alone, the others on both files.
Part(k, pair) == IF k = "current" THEN [pair EXCEPT ![Archive] = 0] ELSE pair
Version(t) == Part(kind[t], ver[t])
Data(t) == Part(kind[t], got[t])

\* "No papers available yet" is never cached.
NoPapers(t) == kind[t] = "current" /\ got[t][Current] = 0

Entries(c) == {c[i] : i \in 1..Len(c)}
Found(t) == \E e \in Entries(cache) : e.key = kind[t] /\ e.ver = Version(t)

\* Mutation: the limit is not looked at.
Untrimmed(c) == c

\* A full cache drops its oldest entry even when it is to replace another.
Trim(c) == IF Len(c) >= CacheMax THEN Tail(c) ELSE c
Put(c, e) ==
    IF \E i \in 1..Len(c) : c[i].key = e.key
    THEN [i \in 1..Len(c) |-> IF c[i].key = e.key THEN e ELSE c[i]]
    ELSE Append(c, e)

Respond(t) ==
    /\ at[t] = "respond"
    /\ Done(t)
    /\ \/ (NoPapers(t) \/ Found(t)) /\ UNCHANGED cache
       \/ /\ ~NoPapers(t) /\ ~Found(t)
          /\ cache' = Put(Trim(cache), [key |-> kind[t], ver |-> Version(t), body |-> Data(t)])
    /\ UNCHANGED memo

-----------------------------------------------------------------------------
(* mcp_server.py: _all_papers_versioned under lru_cache.                   *)

Remembered(t) == {m.body : m \in {x \in memo : x.ver = ver[t]}}

Lookup(t) ==
    /\ at[t] = "lookup"
    /\ \/ Remembered(t) # {} /\ Done(t)
       \/ /\ Remembered(t) = {}
          /\ Go(t, "data")
          /\ UNCHANGED <<fileVars, mix, kind, got, ver, since>>
    /\ UNCHANGED <<cache, memo>>

\* lru_cache keeps the result unless another thread was faster.  Which entry a
\* full one drops depends on the order of their uses: any of them here.
Keep(m, e) ==
    IF \E x \in m : x.ver = e.ver THEN {m}
    ELSE IF Cardinality(m) < MemoMax THEN {m \union {e}}
    ELSE {(m \ {x}) \union {e} : x \in m}

\* Mutation: the result is filed under the version the files have by then.
KeyAfterwards(t) == disk

Key(t) == ver[t]

Loaded(t) == kind[t] = "mcp" /\ at[t] = "data" /\ Complete(t)

Memoise(t) ==
    /\ Loaded(t)
    /\ Done(t)
    /\ memo' \in Keep(memo, [ver |-> Key(t), body |-> got[t]])
    /\ UNCHANGED cache

-----------------------------------------------------------------------------
RequestStep(t) ==
    \/ Fetch(t) \/ VersionCurrent(t) \/ VersionArchive(t)
    \/ Respond(t) \/ Lookup(t) \/ Memoise(t)

Next ==
    \/ Save /\ UNCHANGED <<mix, requestVars, cache, memo>>
    \/ \E t \in Readers : RequestStep(t) \/ \E k \in mix : Begin(t, k)

Spec == Init /\ [][Next]_vars

-----------------------------------------------------------------------------
\* _response_cache respects RESPONSE_CACHE_MAX_ENTRIES and lru_cache its
\* maxsize, with one entry for a key, whatever threads do to them in which
\* order (main.py:182-189, mcp_server.py:41).
CachesBounded ==
    /\ Len(cache) <= CacheMax
    /\ \A i, k \in 1..Len(cache) : cache[i].key = cache[k].key => i = k
    /\ Cardinality(memo) <= MemoMax
    /\ \A x, y \in memo : x.ver = y.ver => x = y

AtLeast(p, q) == \A f \in Files : p[f] >= q[f]

\* What a tool is about to answer is never older than the files were when its
\* request began: what lru_cache keeps under a version is at least as new as
\* this version, because the version is read first (mcp_server.py:37-46).
McpAnswers(t) ==
    {body \in Remembered(t) : at[t] = "lookup"} \cup {body \in {got[t]} : Loaded(t)}

McpAnswersAreFresh ==
    \A t \in Readers : \A body \in McpAnswers(t) : AtLeast(body, since[t])
=============================================================================
