----------------------------- MODULE RateLimiter -----------------------------
(***************************************************************************)
(* main.py: the middleware counts the requests of each client and kind of  *)
(* path, in Redis by windows of the clock, or, without Redis or when it    *)
(* raises, in a table of the process by a sliding window.                  *)
(*                                                                         *)
(* Time passes in ticks, PerSecond of them in a second; Retry-After and    *)
(* the windows are in seconds.                                             *)
(***************************************************************************)
EXTENDS Integers, Sequences, SequencesExt, FiniteSets, FiniteSetsExt

CONSTANTS
    Keys,           \* "mcp:", "trigger:" and "api:" with a client
    Window,         \* Window[k]: seconds
    Limit,          \* Limit[k]: requests in a window
    RedisKeys,      \* bound: the keys asked for where Redis counts, each by itself
    MaxKeys,        \* LOCAL_RATE_LIMIT_MAX_KEYS
    StaleAfter,     \* seconds: the 300 of _local_rate_limit
    PerSecond,
    Threads,        \* of the pool that run_in_threadpool uses
    Lag,            \* bound: ticks a thread takes with a time it has read
    MaxCount,       \* bound: a window that has had as many requests gets no more
    MaxFaults,      \* bound: calls of Redis that raise, and deaths of the process
    MaxTime         \* bound

ASSUME RateAssumption ==
    /\ Keys # {} /\ IsFiniteSet(Threads)
    /\ Window \in [Keys -> Nat \ {0}] /\ Limit \in [Keys -> Nat \ {0}]
    /\ RedisKeys \subseteq Keys /\ MaxKeys \in Nat \ {0} /\ PerSecond \in Nat \ {0}
    /\ StaleAfter \in Nat /\ \A k \in Keys : Window[k] <= StaleAfter
    /\ Lag \in Nat /\ MaxCount \in Nat /\ MaxFaults \in Nat /\ MaxTime \in Nat

Ticks(seconds) == seconds * PerSecond
Never == MaxTime + Ticks(StaleAfter + 1) + 1
Buckets == 0..MaxTime
Places == {"shared", "local"}

VARIABLES
    now,
    shared,     \* REDIS_URL is set
    counter,    \* counter[k][b]: the Redis key of bucket b, its count and end
    history,    \* _local_request_history
    at,         \* at[t]: what thread t does next
    key,        \* key[t]: the key of its request
    asked,      \* asked[t]: the time it has read
    count,      \* count[t]: what INCR answered
    faults,     \* calls of Redis that raised, and deaths
    granted,    \* history: granted[k][b]: requests that Redis let through
    grants,     \* history: grants[k]: when this table let the last ones through
    told,       \* history: told[i][k]: from when place i lets k through again
    spoiled     \* history: counters whose opener raised or died before its EXPIRE

threadVars == <<at, key, asked, count>>
historyVars == <<granted, grants, told, spoiled>>
vars == <<now, shared, counter, history, threadVars, faults, historyVars>>

Absent == [count |-> 0, ends |-> Never]
NoHistory == [k \in {} |-> <<>>]
AnyKey == CHOOSE k \in Keys : TRUE

Init ==
    /\ now = 0 /\ shared \in BOOLEAN /\ history = NoHistory /\ faults = 0
    /\ counter = [k \in Keys |-> [b \in Buckets |-> Absent]]
    /\ at = [t \in Threads |-> "idle"] /\ key = [t \in Threads |-> AnyKey]
    /\ asked = [t \in Threads |-> 0] /\ count = [t \in Threads |-> 0]
    /\ granted = [k \in Keys |-> [b \in Buckets |-> 0]]
    /\ grants = [k \in Keys |-> <<>>]
    /\ told = [i \in Places |-> [k \in Keys |-> Never]] /\ spoiled = {}

Goes(t, from, to) == at[t] = from /\ at' = [at EXCEPT ![t] = to]

\* The request is answered, and what the thread had read is gone.
Ends(t, from) ==
    /\ Goes(t, from, "idle") /\ key' = [key EXCEPT ![t] = AnyKey]
    /\ asked' = [asked EXCEPT ![t] = 0] /\ count' = [count EXCEPT ![t] = 0]

-----------------------------------------------------------------------------
(* operational_middleware and _rate_limited.                               *)

\* The reading of time.time() or, without Redis, of time.monotonic().
Ask(t) ==
    /\ Goes(t, "idle", IF shared THEN "incr" ELSE "table")
    /\ \E k \in IF shared THEN RedisKeys ELSE Keys :
        /\ counter[k][now \div Ticks(Window[k])].count < MaxCount
        /\ key' = [key EXCEPT ![t] = k]
    /\ asked' = [asked EXCEPT ![t] = now] /\ count' = [count EXCEPT ![t] = 0]
    /\ UNCHANGED <<now, shared, counter, history, faults, historyVars>>

BucketOf(t) == asked[t] \div Ticks(Window[key[t]])

\* What Redis has: a key past its end is gone.
Held(k, b) == IF counter[k][b].ends <= now THEN Absent ELSE counter[k][b]

\* Who is told to come back when; a promise ends with the next request that is let through.
Tell(i, k, from) == told' = [told EXCEPT ![i][k] = IF from < @ THEN from ELSE @]
Withdraw(i, k) == told' = [told EXCEPT ![i][k] = Never]

Increment(k, b) == [Held(k, b) EXCEPT !.count = @ + 1]

\* Mutation: INCR is taken to answer with the value before it.
OpensFromZero(c) == c.count = 0

Opens(c) == c.count = 1

Incr(t) ==
    LET k == key[t]  b == BucketOf(t)  c == Increment(k, b)
    IN  /\ Goes(t, "incr", IF Opens(c) THEN "expire" ELSE "answer")
        /\ counter' = [counter EXCEPT ![k][b] = c] /\ count' = [count EXCEPT ![t] = c.count]
        /\ IF c.count <= Limit[k] THEN Withdraw("shared", k) ELSE UNCHANGED told
        /\ UNCHANGED <<now, shared, history, key, asked, faults, granted, grants, spoiled>>

\* Mutation: the key ends with its window.
EndOfWindow(k) == now + Ticks(Window[k])

EndOfCounter(k) == now + Ticks(Window[k] + 1)

\* EXPIRE of a key that is gone does nothing.
Ended(k, b) ==
    IF Held(k, b) = Absent THEN Absent ELSE [Held(k, b) EXCEPT !.ends = EndOfCounter(k)]

Expire(t) ==
    LET k == key[t]  b == BucketOf(t)
    IN  /\ Goes(t, "expire", "answer") /\ counter' = [counter EXCEPT ![k][b] = Ended(k, b)]
        /\ UNCHANGED <<now, shared, history, key, asked, count, faults, historyVars>>

\* Mutation: what has passed of the window.
Elapsed(t) == (now \div PerSecond) % Window[key[t]]

\* time.time() is read again.
Rest(t) == Window[key[t]] - ((now \div PerSecond) % Window[key[t]])

Answer(t) ==
    LET k == key[t]  b == BucketOf(t)
    IN  /\ Ends(t, "answer")
        /\ IF count[t] > Limit[k]
           THEN Tell("shared", k, now + Ticks(Rest(t))) /\ UNCHANGED granted
           ELSE UNCHANGED told /\ granted' = [granted EXCEPT ![k][b] = @ + 1]
        /\ UNCHANGED <<now, shared, counter, history, faults, grants, spoiled>>

Spoil(k, b) == spoiled' = spoiled \cup {<<k, b>>}

\* A call of Redis raises, before or after it took effect: the request goes to
\* the table, which reads time.monotonic().
FallBack(t) ==
    LET k == key[t]  b == BucketOf(t)  c == Increment(k, b)
    IN  /\ faults < MaxFaults /\ faults' = faults + 1
        /\ \/ Goes(t, "incr", "table") /\ UNCHANGED <<counter, spoiled>>
           \/ /\ Goes(t, "incr", "table") /\ counter' = [counter EXCEPT ![k][b] = c]
              /\ IF Opens(c) THEN Spoil(k, b) ELSE UNCHANGED spoiled
           \/ Goes(t, "expire", "table") /\ UNCHANGED counter /\ Spoil(k, b)
           \/ /\ Goes(t, "expire", "table") /\ UNCHANGED spoiled
              /\ counter' = [counter EXCEPT ![k][b] = Ended(k, b)]
        /\ asked' = [asked EXCEPT ![t] = now] /\ count' = [count EXCEPT ![t] = 0]
        /\ Withdraw("shared", k)
        /\ UNCHANGED <<now, shared, history, key, granted, grants>>

\* The process dies, its threads and its table with it; Redis keeps what it has.
Die ==
    /\ faults < MaxFaults /\ faults' = faults + 1
    /\ at' = [t \in Threads |-> "idle"] /\ key' = [t \in Threads |-> AnyKey]
    /\ asked' = [t \in Threads |-> 0] /\ count' = [t \in Threads |-> 0]
    /\ history' = NoHistory /\ grants' = [k \in Keys |-> <<>>]
    /\ spoiled' = spoiled \cup {<<key[t], BucketOf(t)>> : t \in {u \in Threads : at[u] = "expire"}}
    /\ UNCHANGED <<now, shared, counter, granted, told>>

-----------------------------------------------------------------------------
(* _local_rate_limit, which reads the time before it takes the lock.       *)

Stale(n) == {k \in DOMAIN history : Last(history[k]) <= n - Ticks(StaleAfter)}

\* Mutation: the table is full when it has more than MaxKeys.
Overfull(ks) == Cardinality(ks) > MaxKeys

Full(ks) == Cardinality(ks) >= MaxKeys

\* The keys that stay when k comes at n, before k is added.
Kept(k, n) ==
    DOMAIN history \ (IF k \notin DOMAIN history /\ Full(DOMAIN history) THEN Stale(n) ELSE {})

\* The times of h that a request at n still counts: those behind the first
\* one that is in the window, whatever their order.
Recent(h, n, w) ==
    LET inside == {i \in 1..Len(h) : h[i] > n - w}
    IN  IF inside = {} THEN <<>> ELSE SubSeq(h, Min(inside), Len(h))

RetrySeconds(h, n, w) == Max({1, (h[1] + w - n) \div PerSecond + 1})

Grant(k, kept, h, n) ==
    /\ history' = [j \in kept \cup {k} |-> IF j = k THEN Append(h, n) ELSE history[j]]
    /\ grants' = [grants EXCEPT ![k] =
                    LET all == Append(@, now)
                    IN  IF Len(all) > Limit[k] + 1 THEN Tail(all) ELSE all]
    /\ Withdraw("local", k)

\* The body under _local_rate_lock.  A full table refuses a new key for its
\* whole window, without a place for it then.
Decide(t) ==
    LET k == key[t]  n == asked[t]  w == Ticks(Window[k])
        kept == Kept(k, n)
        h == IF k \in kept THEN Recent(history[k], n, w) ELSE <<>>
    IN  /\ Ends(t, "table")
        /\ \/ /\ k \notin kept /\ Full(kept)
              /\ history' = [j \in kept |-> history[j]]
              /\ Withdraw("local", k) /\ UNCHANGED grants
           \/ /\ k \in kept \/ ~Full(kept)
              /\ Len(h) >= Limit[k]
              /\ history' = [j \in kept |-> IF j = k THEN h ELSE history[j]]
              /\ Tell("local", k, now + Ticks(RetrySeconds(h, n, w))) /\ UNCHANGED grants
           \/ /\ k \in kept \/ ~Full(kept)
              /\ Len(h) < Limit[k] /\ Grant(k, kept, h, n)
        /\ UNCHANGED <<now, shared, counter, faults, granted, spoiled>>

\* A tick, unless a thread has had the time it read for Lag of them.
Tick ==
    /\ now < MaxTime /\ now' = now + 1
    /\ \A t \in Threads : at[t] # "idle" => now < asked[t] + Lag
    /\ UNCHANGED <<shared, counter, history, threadVars, faults, historyVars>>

Next ==
    \/ \E t \in Threads :
        Ask(t) \/ Incr(t) \/ Expire(t) \/ Answer(t) \/ FallBack(t) \/ Decide(t)
    \/ Die \/ Tick

Spec == Init /\ [][Next]_vars

-----------------------------------------------------------------------------
\* Redis lets no more than the limit through in a window of the clock,
\* although its counter comes and goes: a request that is counted a second
\* late still finds it (_rate_limited, "window + 1").
GrantsPerWindow == \A k \in Keys, b \in Buckets : granted[k][b] <= Limit[k]

\* The table of a process has MaxKeys keys at most (README.md: "hard cap for
\* fallback per-process client buckets"), and one request more than the limit
\* takes it a whole window, but for the time a thread may wait for the lock:
\* neither the keys it drops nor times that were appended out of order let
\* more through.
LocalRate ==
    /\ Cardinality(DOMAIN history) <= MaxKeys
    /\ \A k \in Keys : Len(grants[k]) = Limit[k] + 1 =>
        Last(grants[k]) - Head(grants[k]) >= Ticks(Window[k]) - Lag

\* The counters that Redis keeps for ever are those whose opener raised or died
\* between its INCR and its EXPIRE: no later request gives them an end, and
\* nothing else leaves one without (_rate_limited).
CountersEnd ==
    \A k \in Keys, b \in Buckets :
        Held(k, b).count > 0 /\ Held(k, b).ends = Never =>
            \/ <<k, b>> \in spoiled
            \/ \E t \in Threads : at[t] = "expire" /\ key[t] = k /\ BucketOf(t) = b

\* A client that comes back after the Retry-After it was told is refused
\* again only if another request of its was let through since then, a call
\* of Redis has raised where Redis counts, or the table is full where it
\* does (_rate_limited, _local_rate_limit); so also by a process that has
\* taken the place of one that died.
RetryAfterIsKept ==
    [][\A i \in Places, k \in Keys :
        ~Die /\ told[i][k] # Never /\ told'[i][k] # Never =>
            \A t \in Threads :
                at[t] = (IF i = "shared" THEN "answer" ELSE "table") /\ at'[t] = "idle"
                    /\ key[t] = k => asked[t] < told[i][k]]_vars
=============================================================================
