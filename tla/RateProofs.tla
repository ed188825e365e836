------------------------------ MODULE RateProofs ------------------------------
(***************************************************************************)
(* Proofs about RateLimiter for any keys, windows and limits, any number   *)
(* of threads and any size of the table.                                   *)
(***************************************************************************)
EXTENDS RateLimiter, FiniteSetTheorems, SequenceTheorems, WellFoundedInduction, TLAPS

(* Of numbers and sequences.                                               *)

LEMMA DivBounds ==
  ASSUME NEW a \in Nat, NEW w \in Nat \ {0}
  PROVE  /\ a \div w \in Nat /\ a % w \in 0..(w - 1)
         /\ a = w * (a \div w) + (a % w)
<1>1. a \div w \in Int /\ a \div w >= 0
  OBVIOUS
<1>2. a % w \in 0..(w - 1)
  OBVIOUS
<1>3. a = w * (a \div w) + (a % w)
  OBVIOUS
<1> QED
  BY <1>1, <1>2, <1>3

\* The rest of the window of n, b being its bucket or one before, takes until the
\* next begins, although Retry-After is in seconds.
LEMMA RoomInWindow ==
  ASSUME NEW n \in Nat, NEW w \in Nat \ {0}, NEW p \in Nat \ {0}, NEW b \in Nat, b * (w * p) <= n
  PROVE  (b + 1) * (w * p) <= n + (w - ((n \div p) % w)) * p
<1>1. PICK s \in Nat : s = n \div p /\ s * p <= n /\ n < (s + 1) * p
  <2>1. n \div p \in Nat /\ n % p \in 0..(p - 1) /\ n = p * (n \div p) + (n % p)
    BY DivBounds
  <2>2. ASSUME NEW s \in Nat, NEW m \in 0..(p - 1), n = p * s + m
        PROVE  s * p <= n /\ n < (s + 1) * p
    BY <2>2
  <2> QED
    BY <2>1, <2>2
<1>2. b * w <= s
  <2>1. (b * w) * p < (s + 1) * p
    BY <1>1
  <2>2. b * w \in Nat /\ s + 1 \in Nat
    OBVIOUS
  <2>3. ASSUME NEW x \in Nat, NEW y \in Nat, x * p < y * p
        PROVE  x < y
    BY <2>3
  <2> QED
    BY <1>1, <2>1, <2>2, <2>3
<1>3. PICK q \in Nat, m \in 0..(w - 1) : m = s % w /\ s = w * q + m
  BY DivBounds, ZenonT(40)
<1>4. b <= q
  <2>1. w * b < w * (q + 1)
    BY <1>2, <1>3
  <2> QED
    BY <2>1
<1>5. (b + 1) * w <= s + w - m
  <2>1. (b + 1) * w <= (q + 1) * w
    BY <1>4
  <2> QED
    BY <1>3, <2>1
<1>6. (b + 1) * w * p <= (s + w - m) * p
  BY <1>5
<1>7. (s + w - m) * p = s * p + (w - m) * p
  BY <1>3
<1>8. (b + 1) * w * p <= n + (w - m) * p
  BY <1>1, <1>6, <1>7
<1> QED
  BY <1>1, <1>3, <1>8

LEMMA Smallest ==
  ASSUME NEW S \in SUBSET Nat, S # {}
  PROVE  Min(S) \in S /\ \A y \in S : Min(S) <= y
<1>1. PICK x \in S : \A y \in S : ~(<<y, x>> \in OpToRel(<, Nat))
  BY NatLessThanWellFounded, WFMin
<1>2. \A y \in S : ~(y < x)
  BY <1>1 DEF OpToRel
<1>3. \E i \in S : \A y \in S : i <= y
  BY <1>2
<1> QED
  BY <1>3 DEF Min

\* r is h without its first d times, which are out of the window w of n.
Behind(r, h, n, w, d) ==
    /\ r \in Seq(Nat) /\ Len(r) = Len(h) - d
    /\ \A i \in 1..(Len(h) - d) : r[i] = h[d + i]
    /\ \A i \in 1..d : h[i] <= n - w
    /\ d < Len(h) => h[d + 1] > n - w

LEMMA RecentSuffix ==
  ASSUME NEW h \in Seq(Nat), NEW n \in Int, NEW w \in Int
  PROVE  \E d \in 0..Len(h) : Behind(Recent(h, n, w), h, n, w, d)
<1> DEFINE inside == {i \in 1..Len(h) : h[i] > n - w}
<1>0. Len(h) \in Nat /\ \A i \in 1..Len(h) : h[i] \in Nat
  OBVIOUS
<1>1. CASE inside = {}
  <2>1. Recent(h, n, w) = <<>>
    BY <1>1 DEF Recent
  <2>2. \A i \in 1..Len(h) : h[i] <= n - w
    BY <1>0, <1>1
  <2>3. Len(h) \in 0..Len(h)
    BY <1>0
  <2>4. Behind(<<>>, h, n, w, Len(h))
    BY <1>0, <2>2 DEF Behind
  <2> QED
    BY <2>1, <2>3, <2>4
<1>2. CASE inside # {}
  <2>1. inside \in SUBSET Nat
    OBVIOUS
  <2>2. PICK m : m = Min(inside)
    OBVIOUS
  <2>3. m \in inside /\ \A i \in inside : m <= i
    BY <1>2, <2>1, <2>2, Smallest
  <2>4. Recent(h, n, w) = SubSeq(h, m, Len(h))
    BY <1>2, <2>2 DEF Recent
  <2>5. PICK d \in 0..Len(h) : m = d + 1 /\ d < Len(h) /\ h[m] > n - w
    <3>1. m - 1 \in 0..Len(h) /\ m = (m - 1) + 1 /\ m - 1 < Len(h)
      BY <1>0, <2>3
    <3> QED
      BY <2>3, <3>1
  <2>6. \A i \in 1..d : h[i] <= n - w
    BY <1>0, <2>3, <2>5, SMTT(40)
  <2>7. /\ SubSeq(h, m, Len(h)) \in Seq(Nat) /\ Len(SubSeq(h, m, Len(h))) = Len(h) - d
        /\ \A i \in 1..(Len(h) - d) : SubSeq(h, m, Len(h))[i] = h[d + i]
    BY <1>0, <2>5
  <2>8. Behind(SubSeq(h, m, Len(h)), h, n, w, d)
    BY <2>5, <2>6, <2>7 DEF Behind
  <2> QED
    BY <2>4, <2>8
<1> QED
  BY <1>1, <1>2

\* Of the times a key was let through the last m + 1 are kept.
LastOnes(g, x, m) == LET all == Append(g, x) IN IF Len(all) > m + 1 THEN Tail(all) ELSE all

\* f is all, which has one more than n times, without the first e.
Without(f, all, n, m, e) ==
    /\ Len(f) + e = n + 1 /\ (e = 1 => n = m + 1)
    /\ \A i \in 1..Len(f) : f[i] = all[i + e]

LEMMA LastOnesAre ==
  ASSUME NEW T, NEW g \in Seq(T), NEW x \in T, NEW m \in Nat, Len(g) <= m + 1
  PROVE  /\ LastOnes(g, x, m) \in Seq(T) /\ Len(LastOnes(g, x, m)) <= m + 1
         /\ \E e \in 0..1 : Without(LastOnes(g, x, m), Append(g, x), Len(g), m, e)
<1>1. PICK all : all = Append(g, x)
  OBVIOUS
<1>2. all \in Seq(T) /\ Len(all) = Len(g) + 1 /\ Len(all) \in Nat
  BY <1>1
<1>3. PICK new : new = LastOnes(g, x, m)
  OBVIOUS
<1>4. CASE Len(all) > m + 1
  <2>1. new = Tail(all)
    BY <1>1, <1>3, <1>4 DEF LastOnes
  <2>2. new \in Seq(T) /\ Len(new) + 1 = Len(all) /\ \A i \in 1..Len(new) : new[i] = all[i + 1]
    BY <1>2, <1>4, <2>1
  <2>3. Len(new) <= m + 1 /\ 1 \in 0..1 /\ Len(g) = m + 1
    BY <1>2, <1>4, <2>2
  <2>4. Without(new, all, Len(g), m, 1)
    BY <1>2, <2>2, <2>3 DEF Without
  <2> QED
    BY <1>1, <1>3, <2>2, <2>3, <2>4
<1>5. CASE ~(Len(all) > m + 1)
  <2>1. new = all
    BY <1>1, <1>3, <1>5 DEF LastOnes
  <2>2. Len(new) <= m + 1
    BY <1>2, <1>5, <2>1
  <2>3. Len(new) + 0 = Len(g) + 1 /\ \A i \in 1..Len(new) : new[i] = all[i + 0]
    BY <1>2, <2>1
  <2>4. new \in Seq(T) /\ 0 \in 0..1
    BY <1>2, <2>1
  <2>5. Without(new, all, Len(g), m, 0)
    BY <2>3 DEF Without
  <2> QED
    BY <1>1, <1>3, <2>2, <2>4, <2>5
<1> QED
  BY <1>4, <1>5

LEMMA WindowTicks ==
  ASSUME NEW k \in Keys
  PROVE  /\ Window[k] \in Nat \ {0} /\ Limit[k] \in Nat \ {0} /\ PerSecond \in Nat \ {0}
         /\ Ticks(Window[k]) = Window[k] * PerSecond /\ Ticks(Window[k]) \in Nat \ {0}
         /\ Ticks(Window[k]) <= Ticks(StaleAfter) /\ Ticks(StaleAfter) \in Nat
         /\ Ticks(Window[k] + 1) = Ticks(Window[k]) + PerSecond
         /\ MaxTime \in Nat /\ Never \in Nat /\ MaxTime + Ticks(Window[k] + 1) < Never
<1>1. /\ Window[k] \in Nat \ {0} /\ Limit[k] \in Nat \ {0} /\ PerSecond \in Nat \ {0}
      /\ StaleAfter \in Nat /\ Window[k] <= StaleAfter /\ MaxTime \in Nat
  BY RateAssumption
<1>2. ASSUME NEW a \in Nat, NEW b \in Nat, a <= b
      PROVE  a * PerSecond <= b * PerSecond /\ a * PerSecond \in Nat
  BY <1>1, <1>2
<1>3. Window[k] * PerSecond # 0
  BY <1>1
<1>4. (Window[k] + 1) * PerSecond = Window[k] * PerSecond + PerSecond
  BY <1>1
<1>5. /\ Window[k] * PerSecond <= StaleAfter * PerSecond
      /\ (Window[k] + 1) * PerSecond <= (StaleAfter + 1) * PerSecond
      /\ StaleAfter * PerSecond \in Nat /\ (StaleAfter + 1) * PerSecond \in Nat
      /\ Window[k] * PerSecond \in Nat /\ (Window[k] + 1) * PerSecond \in Nat
  BY <1>1, <1>2
<1> HIDE DEF Ticks
<1> QED
  BY <1>1, <1>3, <1>4, <1>5 DEF Ticks, Never

-----------------------------------------------------------------------------
(* The states of the variables.                                            *)

Waiting == {"incr", "expire", "answer", "table"}

RateTypeOK ==
    /\ now \in 0..MaxTime /\ shared \in BOOLEAN
    /\ counter \in [Keys -> [Buckets -> [count : Nat, ends : Nat]]]
    /\ DOMAIN history \subseteq Keys
    /\ \A k \in DOMAIN history : history[k] \in Seq(Nat)
    /\ at \in [Threads -> Waiting \cup {"idle"}] /\ key \in [Threads -> Keys]
    /\ asked \in [Threads -> 0..MaxTime] /\ count \in [Threads -> Nat]
    /\ granted \in [Keys -> [Buckets -> Nat]] /\ grants \in [Keys -> Seq(0..MaxTime)]
    /\ \A k \in Keys : Len(grants[k]) <= Limit[k] + 1
    /\ told \in [Places -> [Keys -> Nat]] /\ spoiled \subseteq Keys \X Buckets

\* A thread has the time it read for no longer than Lag.
ReadLately == \A t \in Threads : at[t] \in Waiting => asked[t] <= now /\ now <= asked[t] + Lag

LEMMA LargerOfTwo ==
  ASSUME NEW a \in Int, NEW b \in Int
  PROVE  Max({a, b}) \in {a, b} /\ a <= Max({a, b}) /\ b <= Max({a, b})
<1>1. \E x \in {a, b} : \A y \in {a, b} : x >= y
  OBVIOUS
<1> QED
  BY <1>1 DEF Max

\* The bucket of a time it has read.
LEMMA BucketBounds ==
  ASSUME RateTypeOK, NEW t \in Threads
  PROVE  /\ key[t] \in Keys /\ asked[t] \in 0..MaxTime /\ BucketOf(t) \in Buckets
         /\ BucketOf(t) * Ticks(Window[key[t]]) <= asked[t]
         /\ asked[t] < (BucketOf(t) + 1) * Ticks(Window[key[t]])
<1>1. key[t] \in Keys /\ asked[t] \in 0..MaxTime /\ MaxTime \in Nat
  BY RateAssumption DEF RateTypeOK
<1>2. PICK w \in Nat \ {0} : w = Ticks(Window[key[t]])
  BY <1>1, WindowTicks
<1>3. PICK b \in Nat, m \in 0..(w - 1) : b = asked[t] \div w /\ asked[t] = w * b + m
  <2>1. asked[t] \in Nat
    BY <1>1
  <2> QED
    BY <2>1, DivBounds
<1>4. b <= w * b
  BY <1>2, <1>3
<1>5. b * w <= asked[t] /\ asked[t] < (b + 1) * w
  BY <1>1, <1>3
<1> QED
  BY <1>1, <1>2, <1>3, <1>4, <1>5 DEF BucketOf, Buckets

\* What the body under _local_rate_lock does for key k at the time n it was
\* asked for: other keys stay as they are or are dropped for their age, and k is
\* turned away without a place, refused, or let through behind the times h.
TurnedAway(k) ==
    /\ k \notin DOMAIN history /\ k \notin DOMAIN history' /\ grants' = grants
    /\ Withdraw("local", k)

Refused(k, n) ==
    /\ k \in DOMAIN history /\ DOMAIN history' = DOMAIN history /\ grants' = grants
    /\ history'[k] = Recent(history[k], n, Ticks(Window[k])) /\ Len(history'[k]) >= Limit[k]
    /\ Tell("local", k, now + Ticks(RetrySeconds(history'[k], n, Ticks(Window[k]))))

LetIn(k, n, h) ==
    /\ h = IF k \in DOMAIN history THEN Recent(history[k], n, Ticks(Window[k])) ELSE <<>>
    /\ k \in DOMAIN history \/ ~Full(DOMAIN history' \ {k})
    /\ Len(h) < Limit[k] /\ k \in DOMAIN history' /\ history'[k] = Append(h, n)
    /\ grants' = [grants EXCEPT ![k] = LastOnes(grants[k], now, Limit[k])]
    /\ Withdraw("local", k)

LEMMA DecideCases ==
  ASSUME RateTypeOK, NEW t \in Threads, Decide(t), NEW k, k = key[t], NEW n, n = asked[t]
  PROVE  /\ k \in Keys /\ n \in 0..MaxTime /\ at[t] = "table"
         /\ DOMAIN history' \subseteq DOMAIN history \cup {k}
         /\ \A j \in DOMAIN history' \ {k} : history'[j] = history[j]
         /\ \A j \in DOMAIN history \ DOMAIN history' :
                j # k /\ history[j][Len(history[j])] <= n - Ticks(StaleAfter)
         /\ TurnedAway(k) \/ Refused(k, n) \/ \E h \in Seq(Nat) : LetIn(k, n, h)
<1>w. PICK w : w = Ticks(Window[k])
  OBVIOUS
<1> DEFINE kept == Kept(k, n)
           h == IF k \in kept THEN Recent(history[k], n, w) ELSE <<>>
<1>0. /\ k \in Keys /\ n \in 0..MaxTime /\ at[t] = "table" /\ n \in Int /\ w \in Int
      /\ \A j \in DOMAIN history : history[j] \in Seq(Nat)
      /\ Limit[k] \in Nat \ {0}
  <2>1. at[t] = "table"
    BY DEF Decide, Ends, Goes
  <2>2. k \in Keys /\ n \in 0..MaxTime /\ n \in Int
    BY BucketBounds
  <2>3. w \in Nat \ {0} /\ Limit[k] \in Nat \ {0}
    BY <1>w, <2>2, WindowTicks
  <2> QED
    BY <2>1, <2>2, <2>3 DEF RateTypeOK
<1>1. /\ kept \subseteq DOMAIN history /\ (k \in kept <=> k \in DOMAIN history)
      /\ k \in DOMAIN history => kept = DOMAIN history
      /\ \A j \in DOMAIN history \ kept :
            j # k /\ history[j][Len(history[j])] <= n - Ticks(StaleAfter)
  BY DEF Kept, Stale, Last
<1>2. h \in Seq(Nat)
  <2>1. CASE k \in kept
    <3>1. history[k] \in Seq(Nat)
      BY <1>0, <1>1, <2>1
    <3>2. Recent(history[k], n, w) \in Seq(Nat)
      BY <1>0, <3>1, RecentSuffix DEF Behind
    <3> QED
      BY <2>1, <3>2
  <2>2. CASE k \notin kept
    BY <2>2
  <2> QED
    BY <2>1, <2>2
<1>3. CASE /\ k \notin kept
           /\ history' = [j \in kept |-> history[j]]
           /\ Withdraw("local", k) /\ UNCHANGED grants
  BY <1>0, <1>1, <1>3 DEF TurnedAway
<1>4. CASE /\ Len(h) >= Limit[k]
           /\ history' = [j \in kept |-> IF j = k THEN h ELSE history[j]]
           /\ Tell("local", k, now + Ticks(RetrySeconds(h, n, w))) /\ UNCHANGED grants
  <2>1. k \in kept
    BY <1>0, <1>4
  <2>2. kept = DOMAIN history /\ h = Recent(history[k], n, w) /\ history'[k] = h
        /\ DOMAIN history' = DOMAIN history
    BY <1>1, <1>4, <2>1
  <2>3. \A j \in DOMAIN history' \ {k} : history'[j] = history[j]
    BY <1>4, <2>2
  <2> HIDE DEF h, kept
  <2> QED
    BY <1>0, <1>1, <1>w, <1>4, <2>1, <2>2, <2>3 DEF Refused
<1>5. CASE /\ k \in kept \/ ~Full(kept)
           /\ Len(h) < Limit[k] /\ Grant(k, kept, h, n)
  <2>1. /\ DOMAIN history' = kept \cup {k} /\ history'[k] = Append(h, n)
        /\ \A j \in DOMAIN history' \ {k} : history'[j] = history[j]
        /\ grants' = [grants EXCEPT ![k] = LastOnes(grants[k], now, Limit[k])]
        /\ Withdraw("local", k)
    BY <1>5 DEF Grant, LastOnes
  <2>2. k \notin kept => DOMAIN history' \ {k} = kept
    BY <2>1
  <2>3. h = IF k \in DOMAIN history THEN Recent(history[k], n, w) ELSE <<>>
    BY <1>1
  <2> HIDE DEF h, kept
  <2> QED
    BY <1>0, <1>1, <1>2, <1>w, <1>5, <2>1, <2>2, <2>3 DEF LetIn
<1> QED
  BY <1>w, <1>3, <1>4, <1>5 DEF Decide

\* Retry-After leads out of the window, or behind its first time.
LEMMA RestTicks ==
  ASSUME RateTypeOK, NEW t \in Threads, NEW k, k = key[t]
  PROVE  /\ Rest(t) \in Nat /\ Ticks(Rest(t)) \in Nat \ {0}
         /\ \A b \in Nat : b * Ticks(Window[k]) <= now =>
                (b + 1) * Ticks(Window[k]) <= now + Ticks(Rest(t))
<1>0. k \in Keys /\ now \in Nat
  BY BucketBounds DEF RateTypeOK
<1>1. PICK w \in Nat \ {0}, p \in Nat \ {0} :
        w = Window[k] /\ p = PerSecond /\ Ticks(Window[k]) = w * p
  BY <1>0, WindowTicks
<1>2. PICK s \in Nat : s = now \div p
  BY <1>0, <1>1, DivBounds
<1>3. PICK m \in 0..(w - 1) : m = s % w
  BY <1>1, <1>2, DivBounds
<1>4. Rest(t) = w - m /\ Ticks(Rest(t)) = (w - m) * p
  BY <1>1, <1>2, <1>3 DEF Rest, Ticks
<1>5. w - m \in Nat \ {0} /\ (w - m) * p \in Nat \ {0}
  <2>1. w - m \in Nat \ {0}
    BY <1>3
  <2>2. \A a \in Nat \ {0}, b \in Nat \ {0} : a * b \in Nat \ {0}
    OBVIOUS
  <2> QED
    BY <1>1, <2>1, <2>2
<1>6. ASSUME NEW b \in Nat, b * (w * p) <= now
      PROVE  (b + 1) * (w * p) <= now + (w - m) * p
  BY <1>0, <1>1, <1>2, <1>3, <1>6, RoomInWindow
<1> QED
  BY <1>1, <1>4, <1>5, <1>6

LEMMA RetryTicks ==
  ASSUME NEW k \in Keys, NEW h \in Seq(Nat), Len(h) > 0, NEW n \in Nat,
         NEW w, w = Ticks(Window[k]), h[1] > n - w
  PROVE  /\ Ticks(RetrySeconds(h, n, w)) \in Nat \ {0}
         /\ h[1] + w < n + Ticks(RetrySeconds(h, n, w))
<1>0. PICK p \in Nat \ {0}, v \in Nat : p = PerSecond /\ v = w
  BY WindowTicks
<1>1. PICK g \in Nat : g = h[1] /\ g + v - n > 0
  <2>1. h[1] \in Nat
    OBVIOUS
  <2> QED
    BY <1>0, <2>1
<1>2. PICK x \in Nat : x = g + v - n
  BY <1>0, <1>1
<1>3. PICK q : q = x \div p
  OBVIOUS
<1>4. q \in Nat /\ x < p * (q + 1)
  <2>1. PICK m \in 0..(p - 1) : q \in Nat /\ x = p * q + m
    BY <1>2, <1>3, DivBounds
  <2> QED
    BY <2>1
<1>5. PICK r \in Nat : r = RetrySeconds(h, n, w) /\ q + 1 <= r
  <2>1. q + 1 \in Int /\ 1 \in Int
    BY <1>4
  <2>2. PICK r : r = Max({1, q + 1})
    OBVIOUS
  <2>3. r \in {1, q + 1} /\ q + 1 <= r
    BY <2>1, <2>2, LargerOfTwo
  <2>4. RetrySeconds(h, n, w) = r
    BY <1>0, <1>1, <1>2, <1>3, <2>2 DEF RetrySeconds
  <2> QED
    BY <1>4, <2>3, <2>4
<1>6. p * (q + 1) <= p * r
  BY <1>4, <1>5, SMTT(40)
<1>7. x < p * r /\ p * r \in Nat \ {0}
  <2>1. p * (q + 1) \in Nat /\ p * r \in Nat
    BY <1>4
  <2>2. ASSUME NEW y \in Nat, NEW z \in Nat, x < y, y <= z
        PROVE  x < z /\ z \in Nat \ {0}
    BY <2>2
  <2> QED
    BY <1>4, <1>6, <2>1, <2>2
<1>8. Ticks(RetrySeconds(h, n, w)) = p * r
  BY <1>0, <1>5 DEF Ticks
<1>9. ASSUME NEW y \in Nat \ {0}, x < y
      PROVE  g + v < n + y
  BY <1>2, <1>9
<1> QED
  BY <1>0, <1>1, <1>7, <1>8, <1>9

LEMMA TypesAtFirst == Init => RateTypeOK
<1> SUFFICES ASSUME Init
             PROVE  RateTypeOK
  OBVIOUS
<1>1. AnyKey \in Keys
  BY RateAssumption DEF AnyKey
<1>2. Never \in Nat /\ MaxTime \in Nat
  BY RateAssumption, WindowTicks
<1>3. Absent \in [count : Nat, ends : Nat]
  BY <1>2 DEF Absent
<1>4. grants \in [Keys -> Seq(0..MaxTime)] /\ \A k \in Keys : Len(grants[k]) <= Limit[k] + 1
  <2>1. <<>> \in Seq(0..MaxTime) /\ Len(<<>>) = 0
    OBVIOUS
  <2>2. \A k \in Keys : 0 <= Limit[k] + 1
    BY RateAssumption
  <2> QED
    BY <2>1, <2>2 DEF Init
<1>5. DOMAIN history = {} /\ now \in 0..MaxTime /\ 0 \in 0..MaxTime
  BY <1>2 DEF Init, NoHistory
<1>6. counter \in [Keys -> [Buckets -> [count : Nat, ends : Nat]]]
  BY <1>3 DEF Init
<1> QED
  BY <1>1, <1>2, <1>4, <1>5, <1>6 DEF Init, RateTypeOK, Waiting

LEMMA TypesOfParts ==
  ASSUME RateTypeOK
  PROVE  /\ AnyKey \in Keys /\ Never \in Nat /\ MaxTime \in Nat /\ RedisKeys \subseteq Keys
         /\ now \in Nat /\ 0 \in 0..MaxTime /\ MaxTime < Never
         /\ Absent \in [count : Nat, ends : Nat]
         /\ \A k \in Keys, b \in Buckets :
               /\ Held(k, b) \in [count : Nat, ends : Nat]
               /\ Increment(k, b) \in [count : Nat, ends : Nat]
         /\ \A i \in Places, k \in Keys, from \in Nat :
               Tell(i, k, from) \/ Withdraw(i, k) => told' \in [Places -> [Keys -> Nat]]
<1>1. AnyKey \in Keys /\ RedisKeys \subseteq Keys /\ MaxTime \in Nat
  BY RateAssumption DEF AnyKey
<1>2. Never \in Nat /\ MaxTime < Never
  <2>1. Window[AnyKey] \in Nat \ {0} /\ PerSecond \in Nat \ {0}
    BY <1>1, WindowTicks
  <2>2. Ticks(Window[AnyKey] + 1) \in Nat
    <3>1. Ticks(Window[AnyKey]) + PerSecond \in Nat
      BY <1>1, <2>1, WindowTicks
    <3> QED
      BY <1>1, <3>1, WindowTicks
  <2> QED
    BY <1>1, <2>2, WindowTicks
<1>3. now \in Nat /\ 0 \in 0..MaxTime
  BY <1>1 DEF RateTypeOK
<1>4. Absent \in [count : Nat, ends : Nat]
  BY <1>2 DEF Absent
<1>5. ASSUME NEW k \in Keys, NEW b \in Buckets
      PROVE  /\ Held(k, b) \in [count : Nat, ends : Nat]
             /\ Increment(k, b) \in [count : Nat, ends : Nat]
  <2>1. counter[k][b] \in [count : Nat, ends : Nat]
    BY DEF RateTypeOK
  <2>2. Held(k, b) \in [count : Nat, ends : Nat]
    BY <1>4, <2>1 DEF Held
  <2> QED
    BY <2>2 DEF Increment
<1>6. ASSUME NEW i \in Places, NEW k \in Keys, NEW from \in Nat, Tell(i, k, from) \/ Withdraw(i, k)
      PROVE  told' \in [Places -> [Keys -> Nat]]
  <2>1. told \in [Places -> [Keys -> Nat]] /\ told[i][k] \in Nat
    BY DEF RateTypeOK
  <2>2. PICK x \in Nat : told' = [told EXCEPT ![i][k] = x]
    BY <1>2, <1>6, <2>1 DEF Tell, Withdraw
  <2> QED
    BY <2>1, <2>2
<1> QED
  BY <1>1, <1>2, <1>3, <1>4, <1>5, <1>6

\* Where thread t is after a step of its.
LEMMA TypesOfThreads ==
  ASSUME RateTypeOK, NEW t \in Threads, NEW from, NEW to
  PROVE  /\ Goes(t, from, to) /\ to \in Waiting =>
                at' \in [Threads -> Waiting \cup {"idle"}]
         /\ Ends(t, from) =>
                /\ at' \in [Threads -> Waiting \cup {"idle"}] /\ key' \in [Threads -> Keys]
                /\ asked' \in [Threads -> 0..MaxTime] /\ count' \in [Threads -> Nat]
<1>1. AnyKey \in Keys /\ 0 \in 0..MaxTime
  BY TypesOfParts
<1>2. Goes(t, from, to) /\ to \in Waiting => at' \in [Threads -> Waiting \cup {"idle"}]
  BY DEF RateTypeOK, Goes
<1>3. Goes(t, from, "idle") => at' \in [Threads -> Waiting \cup {"idle"}]
  BY DEF RateTypeOK, Goes
<1>4. Ends(t, from) => /\ key' \in [Threads -> Keys] /\ asked' \in [Threads -> 0..MaxTime]
                       /\ count' \in [Threads -> Nat]
  BY <1>1 DEF RateTypeOK, Ends
<1> QED
  BY <1>2, <1>3, <1>4 DEF Ends

LEMMA TypesOfTable ==
  ASSUME RateTypeOK, NEW t \in Threads, Decide(t)
  PROVE  /\ DOMAIN history' \subseteq Keys /\ \A k \in DOMAIN history' : history'[k] \in Seq(Nat)
         /\ grants' \in [Keys -> Seq(0..MaxTime)] /\ told' \in [Places -> [Keys -> Nat]]
         /\ \A j \in Keys : Len(grants'[j]) <= Limit[j] + 1
<1>1. PICK k, n, w : k = key[t] /\ n = asked[t] /\ w = Ticks(Window[k])
  OBVIOUS
<1>2. /\ k \in Keys /\ n \in 0..MaxTime /\ DOMAIN history' \subseteq DOMAIN history \cup {k}
      /\ \A j \in DOMAIN history' \ {k} : history'[j] = history[j]
  BY <1>1, DecideCases
<1>3. w \in Nat \ {0} /\ Limit[k] \in Nat \ {0} /\ MaxTime \in Nat /\ n \in Nat /\ now \in Nat
  <2>1. MaxTime \in Nat /\ now \in Nat
    BY TypesOfParts
  <2> QED
    BY <1>1, <1>2, <2>1, WindowTicks
<1>4. "local" \in Places
  BY DEF Places
<1>5. /\ DOMAIN history \subseteq Keys /\ \A j \in DOMAIN history : history[j] \in Seq(Nat)
      /\ grants \in [Keys -> Seq(0..MaxTime)] /\ now \in 0..MaxTime
      /\ \A j \in Keys : Len(grants[j]) <= Limit[j] + 1
  BY DEF RateTypeOK
<1>6. /\ k \in DOMAIN history' => history'[k] \in Seq(Nat)
      /\ grants' \in [Keys -> Seq(0..MaxTime)] /\ told' \in [Places -> [Keys -> Nat]]
      /\ \A j \in Keys : Len(grants'[j]) <= Limit[j] + 1
  <2>1. CASE TurnedAway(k)
    <3>1. told' \in [Places -> [Keys -> Nat]]
      BY <1>2, <1>3, <1>4, <2>1, TypesOfParts DEF TurnedAway
    <3> QED
      BY <1>5, <2>1, <3>1 DEF TurnedAway
  <2>2. CASE Refused(k, n)
    <3>1. PICK h \in Seq(Nat) : h = history[k]
      BY <1>5, <2>2 DEF Refused
    <3>0. PICK r : r = history'[k]
      OBVIOUS
    <3>2. PICK d \in 0..Len(h) :
            /\ r \in Seq(Nat) /\ Len(r) = Len(h) - d
            /\ \A i \in 1..(Len(h) - d) : r[i] = h[d + i]
            /\ d < Len(h) => h[d + 1] > n - w
      <4>1. n \in Int /\ w \in Int /\ r = Recent(h, n, w)
        BY <1>1, <1>3, <2>2, <3>0, <3>1 DEF Refused
      <4> QED
        BY <4>1, RecentSuffix DEF Behind
    <3>3. Len(r) > 0 /\ r[1] > n - w
      <4>1. Len(r) >= Limit[k]
        BY <2>2, <3>0 DEF Refused
      <4>2. Len(h) \in Nat /\ d < Len(h) /\ Len(r) > 0
        <5>1. Len(h) \in Nat /\ d \in Nat /\ Limit[k] \in Nat \ {0} /\ Len(r) = Len(h) - d
          BY <1>3, <3>2
        <5> QED
          BY <4>1, <5>1
      <4>3. r[1] = h[d + 1]
        BY <3>2, <4>2, SMTT(40)
      <4> QED
        BY <3>2, <4>2, <4>3
    <3>4. Ticks(RetrySeconds(r, n, w)) \in Nat
      BY <1>1, <1>2, <1>3, <3>2, <3>3, RetryTicks
    <3>5. now + Ticks(RetrySeconds(r, n, w)) \in Nat
      BY <1>3, <3>4
    <3>6. told' \in [Places -> [Keys -> Nat]]
      BY <1>1, <1>2, <1>4, <2>2, <3>0, <3>5, TypesOfParts DEF Refused
    <3> QED
      BY <1>5, <2>2, <3>0, <3>2, <3>6 DEF Refused
  <2>3. ASSUME NEW h \in Seq(Nat), LetIn(k, n, h)
        PROVE  /\ history'[k] \in Seq(Nat)
               /\ grants' \in [Keys -> Seq(0..MaxTime)] /\ told' \in [Places -> [Keys -> Nat]]
               /\ \A j \in Keys : Len(grants'[j]) <= Limit[j] + 1
    <3>1. PICK T, g : T = 0..MaxTime /\ g = grants[k]
      OBVIOUS
    <3>2. PICK new : new = LastOnes(g, now, Limit[k])
      OBVIOUS
    <3>3. grants' = [grants EXCEPT ![k] = new]
      BY <2>3, <3>1, <3>2 DEF LetIn
    <3>4. g \in Seq(T) /\ now \in T /\ Limit[k] \in Nat /\ Len(g) <= Limit[k] + 1
      BY <1>2, <1>3, <1>5, <3>1
    <3>5. new \in Seq(T) /\ Len(new) <= Limit[k] + 1
      BY <3>2, <3>4, LastOnesAre
    <3>6. grants' \in [Keys -> Seq(0..MaxTime)]
      BY <1>2, <1>5, <3>1, <3>3, <3>5
    <3>7. \A j \in Keys : Len(grants'[j]) <= Limit[j] + 1
      BY <1>2, <1>5, <3>3, <3>5
    <3>8. told' \in [Places -> [Keys -> Nat]]
      BY <1>2, <1>3, <1>4, <2>3, TypesOfParts DEF LetIn
    <3>9. history'[k] \in Seq(Nat)
      BY <1>3, <2>3 DEF LetIn
    <3> QED
      BY <3>6, <3>7, <3>8, <3>9
  <2>4. TurnedAway(k) \/ Refused(k, n) \/ \E h \in Seq(Nat) : LetIn(k, n, h)
    BY <1>1, DecideCases
  <2> QED
    BY <2>1, <2>2, <2>3, <2>4
<1> QED
  BY <1>2, <1>5, <1>6

\* What a call of Redis that raises leaves.
LEMMA FallBackCases ==
  ASSUME NEW t \in Threads, FallBack(t)
  PROVE  \/ at[t] = "incr" /\ counter' = counter /\ spoiled' = spoiled
         \/ at[t] = "expire" /\ counter' = counter /\ Spoil(key[t], BucketOf(t))
         \/ /\ at[t] = "incr"
            /\ counter' = [counter EXCEPT ![key[t]][BucketOf(t)] = Increment(key[t], BucketOf(t))]
            /\ IF Opens(Increment(key[t], BucketOf(t))) THEN Spoil(key[t], BucketOf(t))
                                                         ELSE spoiled' = spoiled
         \/ /\ at[t] = "expire" /\ spoiled' = spoiled
            /\ counter' = [counter EXCEPT ![key[t]][BucketOf(t)] = Ended(key[t], BucketOf(t))]
  BY DEF FallBack, Goes

LEMMA TypeOfEnded ==
  ASSUME RateTypeOK, NEW k \in Keys, NEW b \in Buckets
  PROVE  Ended(k, b) \in [count : Nat, ends : Nat]
<1>1. EndOfCounter(k) \in Nat
  <2>1. /\ Ticks(Window[k]) \in Nat /\ PerSecond \in Nat
        /\ Ticks(Window[k] + 1) = Ticks(Window[k]) + PerSecond /\ now \in Nat
    BY WindowTicks, TypesOfParts
  <2> QED
    BY <2>1 DEF EndOfCounter
<1>2. Held(k, b) \in [count : Nat, ends : Nat] /\ Absent \in [count : Nat, ends : Nat]
  BY TypesOfParts
<1>3. [Held(k, b) EXCEPT !.ends = EndOfCounter(k)] \in [count : Nat, ends : Nat]
  BY <1>1, <1>2
<1> QED
  BY <1>2, <1>3 DEF Ended

\* A death leaves what Redis has, and of the process nothing.
LEMMA DeathLeaves ==
  ASSUME RateTypeOK, Die
  PROVE  /\ \A t \in Threads : at'[t] = "idle"
         /\ DOMAIN history' = {} /\ \A k \in Keys : grants'[k] = <<>>
         /\ UNCHANGED <<now, shared, counter, granted, told>>
         /\ spoiled \subseteq spoiled' /\ spoiled' \subseteq Keys \X Buckets
         /\ \A t \in Threads : at[t] = "expire" => <<key[t], BucketOf(t)>> \in spoiled'
<1>1. \A t \in Threads : <<key[t], BucketOf(t)>> \in Keys \X Buckets
  BY BucketBounds
<1>2. spoiled \subseteq Keys \X Buckets
  BY DEF RateTypeOK
<1>3. DOMAIN history' = {}
  BY DEF Die, NoHistory
<1> QED
  BY <1>1, <1>2, <1>3 DEF Die

LEMMA TypesKept == RateTypeOK /\ [Next]_vars => RateTypeOK'
<1> SUFFICES ASSUME RateTypeOK, [Next]_vars
             PROVE  RateTypeOK'
  OBVIOUS
<1>0. /\ AnyKey \in Keys /\ RedisKeys \subseteq Keys /\ now \in Nat /\ 0 \in 0..MaxTime
      /\ MaxTime \in Nat /\ "shared" \in Places
      /\ Absent \in [count : Nat, ends : Nat]
  BY TypesOfParts DEF Places
<1>1. ASSUME NEW t \in Threads, Ask(t)
      PROVE  RateTypeOK'
  <2>1. PICK to \in Waiting : Goes(t, "idle", to)
    BY <1>1 DEF Ask, Waiting
  <2>2. at' \in [Threads -> Waiting \cup {"idle"}]
    BY <2>1, TypesOfThreads
  <2>3. key' \in [Threads -> Keys] /\ asked' \in [Threads -> 0..MaxTime] /\ count' \in [Threads -> Nat]
    BY <1>0, <1>1 DEF Ask, RateTypeOK
  <2> QED
    BY <1>1, <2>2, <2>3 DEF Ask, RateTypeOK, historyVars
<1>3. ASSUME NEW t \in Threads, Incr(t)
      PROVE  RateTypeOK'
  <2>1. key[t] \in Keys /\ BucketOf(t) \in Buckets
    BY BucketBounds
  <2>2. PICK c \in [count : Nat, ends : Nat] : c = Increment(key[t], BucketOf(t))
    BY <2>1, TypesOfParts
  <2>3. counter' \in [Keys -> [Buckets -> [count : Nat, ends : Nat]]] /\ count' \in [Threads -> Nat]
    BY <1>3, <2>1, <2>2 DEF Incr, RateTypeOK
  <2>4. Withdraw("shared", key[t]) => told' \in [Places -> [Keys -> Nat]]
    BY <1>0, <2>1, TypesOfParts
  <2>5. told' \in [Places -> [Keys -> Nat]]
    BY <1>3, <2>4 DEF Incr, RateTypeOK
  <2>6. at' \in [Threads -> Waiting \cup {"idle"}]
    BY <1>3 DEF Incr, Goes, RateTypeOK, Waiting
  <2> QED
    BY <1>3, <2>3, <2>5, <2>6 DEF Incr, RateTypeOK
<1>4. ASSUME NEW t \in Threads, Expire(t)
      PROVE  RateTypeOK'
  <2>1. key[t] \in Keys /\ BucketOf(t) \in Buckets
    BY BucketBounds
  <2>3. PICK c \in [count : Nat, ends : Nat] :
            counter' = [counter EXCEPT ![key[t]][BucketOf(t)] = c]
    BY <1>4, <2>1, TypeOfEnded DEF Expire
  <2>4. counter' \in [Keys -> [Buckets -> [count : Nat, ends : Nat]]]
    BY <2>1, <2>3 DEF RateTypeOK
  <2>5. at' \in [Threads -> Waiting \cup {"idle"}]
    BY <1>4 DEF Expire, Goes, RateTypeOK, Waiting
  <2> QED
    BY <1>4, <2>4, <2>5 DEF Expire, RateTypeOK, historyVars
<1>5. ASSUME NEW t \in Threads, Answer(t)
      PROVE  RateTypeOK'
  <2>1. key[t] \in Keys /\ BucketOf(t) \in Buckets
    BY BucketBounds
  <2>2. now + Ticks(Rest(t)) \in Nat
    <3>1. Ticks(Rest(t)) \in Nat
      BY RestTicks
    <3> QED
      BY <1>0, <3>1
  <2>3. Tell("shared", key[t], now + Ticks(Rest(t))) => told' \in [Places -> [Keys -> Nat]]
    BY <1>0, <2>1, <2>2, TypesOfParts
  <2>4. told' \in [Places -> [Keys -> Nat]]
    BY <1>5, <2>3 DEF Answer, RateTypeOK
  <2>5. granted' \in [Keys -> [Buckets -> Nat]]
    <3>1. granted \in [Keys -> [Buckets -> Nat]] /\ granted[key[t]][BucketOf(t)] + 1 \in Nat
      BY <2>1 DEF RateTypeOK
    <3>2. \/ granted' = granted
          \/ granted' = [granted EXCEPT ![key[t]][BucketOf(t)] = granted[key[t]][BucketOf(t)] + 1]
      BY <1>5 DEF Answer
    <3> QED
      BY <2>1, <3>1, <3>2
  <2>6. /\ at' \in [Threads -> Waiting \cup {"idle"}] /\ key' \in [Threads -> Keys]
        /\ asked' \in [Threads -> 0..MaxTime] /\ count' \in [Threads -> Nat]
    BY <1>5, TypesOfThreads DEF Answer
  <2> QED
    BY <1>5, <2>4, <2>5, <2>6 DEF Answer, RateTypeOK
<1>6. ASSUME NEW t \in Threads, FallBack(t)
      PROVE  RateTypeOK'
  <2>1. key[t] \in Keys /\ BucketOf(t) \in Buckets
    BY BucketBounds
  <2>2. told' \in [Places -> [Keys -> Nat]]
    <3>1. Withdraw("shared", key[t]) /\ 0 \in Nat
      BY <1>6 DEF FallBack
    <3> QED
      BY <1>0, <2>1, <3>1, TypesOfParts
  <2>3. counter' \in [Keys -> [Buckets -> [count : Nat, ends : Nat]]]
    <3>1. /\ Increment(key[t], BucketOf(t)) \in [count : Nat, ends : Nat]
          /\ Ended(key[t], BucketOf(t)) \in [count : Nat, ends : Nat]
      BY <2>1, TypesOfParts, TypeOfEnded
    <3>2. \/ counter' = counter
          \/ \E c \in [count : Nat, ends : Nat] :
                counter' = [counter EXCEPT ![key[t]][BucketOf(t)] = c]
      BY <1>6, <3>1, FallBackCases
    <3>3. counter \in [Keys -> [Buckets -> [count : Nat, ends : Nat]]]
      BY DEF RateTypeOK
    <3>4. \A c \in [count : Nat, ends : Nat] : [counter EXCEPT ![key[t]][BucketOf(t)] = c]
            \in [Keys -> [Buckets -> [count : Nat, ends : Nat]]]
      BY <2>1, <3>3
    <3> QED
      BY <3>2, <3>3, <3>4
  <2>4. at' \in [Threads -> Waiting \cup {"idle"}]
    BY <1>6 DEF FallBack, Goes, RateTypeOK, Waiting
  <2>5. asked' \in [Threads -> 0..MaxTime] /\ count' \in [Threads -> Nat] /\ key' \in [Threads -> Keys]
    BY <1>0, <1>6 DEF FallBack, RateTypeOK
  <2>6. spoiled' \subseteq Keys \X Buckets
    <3>1. spoiled \subseteq Keys \X Buckets /\ <<key[t], BucketOf(t)>> \in Keys \X Buckets
      BY <2>1 DEF RateTypeOK
    <3>2. spoiled' = spoiled \/ Spoil(key[t], BucketOf(t))
      BY <1>6, FallBackCases
    <3> QED
      BY <3>1, <3>2 DEF Spoil
  <2>7. /\ now' = now /\ shared' = shared /\ history' = history /\ granted' = granted
        /\ grants' = grants
    BY <1>6 DEF FallBack
  <2> QED
    BY <2>2, <2>3, <2>4, <2>5, <2>6, <2>7 DEF RateTypeOK
<1>7. ASSUME NEW t \in Threads, Decide(t)
      PROVE  RateTypeOK'
  <2>1. /\ DOMAIN history' \subseteq Keys /\ \A k \in DOMAIN history' : history'[k] \in Seq(Nat)
        /\ grants' \in [Keys -> Seq(0..MaxTime)] /\ told' \in [Places -> [Keys -> Nat]]
        /\ \A k \in Keys : Len(grants'[k]) <= Limit[k] + 1
    BY <1>7, TypesOfTable
  <2>2. /\ at' \in [Threads -> Waiting \cup {"idle"}] /\ key' \in [Threads -> Keys]
        /\ asked' \in [Threads -> 0..MaxTime] /\ count' \in [Threads -> Nat]
    BY <1>7, TypesOfThreads DEF Decide
  <2>3. UNCHANGED <<now, shared, counter, granted, spoiled>>
    BY <1>7 DEF Decide
  <2> QED
    BY <2>1, <2>2, <2>3 DEF RateTypeOK
<1>8. CASE Tick
  <2>1. now' \in 0..MaxTime
    BY <1>0, <1>8 DEF Tick
  <2> QED
    BY <1>8, <2>1 DEF Tick, RateTypeOK, threadVars, historyVars
<1>9. CASE UNCHANGED vars
  BY <1>9 DEF vars, threadVars, historyVars, RateTypeOK
<1>10. CASE Die
  <2>1. /\ at' \in [Threads -> Waiting \cup {"idle"}] /\ key' \in [Threads -> Keys]
        /\ asked' \in [Threads -> 0..MaxTime] /\ count' \in [Threads -> Nat]
    BY <1>0, <1>10 DEF Die
  <2>2. grants' \in [Keys -> Seq(0..MaxTime)] /\ \A k \in Keys : Len(grants'[k]) <= Limit[k] + 1
    <3>1. \A k \in Keys : grants'[k] = <<>> /\ Limit[k] \in Nat
      BY <1>10, DeathLeaves, RateAssumption
    <3>2. <<>> \in Seq(0..MaxTime) /\ Len(<<>>) = 0
      OBVIOUS
    <3>3. grants' \in [Keys -> Seq(0..MaxTime)]
      BY <1>10, <3>2 DEF Die
    <3> QED
      BY <3>1, <3>2, <3>3
  <2> QED
    BY <1>10, <2>1, <2>2, DeathLeaves DEF RateTypeOK
<1> QED
  BY <1>1, <1>3, <1>4, <1>5, <1>6, <1>7, <1>8, <1>9, <1>10 DEF Next

\* Counters, table and requests keep their types (main.py:77-115).
THEOREM RateTypes == Spec => []RateTypeOK
<1> QED
  BY TypesAtFirst, TypesKept, PTL DEF Spec

\* A step of t leaves the other threads where they are, with what they have read.
LEMMA OthersStay ==
  ASSUME RateTypeOK, NEW t \in Threads,
         Ask(t) \/ Incr(t) \/ Expire(t) \/ Answer(t) \/ FallBack(t) \/ Decide(t),
         NEW u \in Threads, u # t
  PROVE  /\ at'[u] = at[u] /\ key'[u] = key[u] /\ asked'[u] = asked[u] /\ count'[u] = count[u]
         /\ BucketOf(u)' = BucketOf(u)
<1>0. /\ at \in [Threads -> Waiting \cup {"idle"}] /\ key \in [Threads -> Keys]
      /\ asked \in [Threads -> 0..MaxTime] /\ count \in [Threads -> Nat]
  BY DEF RateTypeOK
<1>1. at'[u] = at[u] /\ key'[u] = key[u] /\ asked'[u] = asked[u] /\ count'[u] = count[u]
  <2>1. at'[u] = at[u]
    BY <1>0 DEF Ask, Incr, Expire, Answer, FallBack, Decide, Ends, Goes
  <2>2. key'[u] = key[u]
    BY <1>0 DEF Ask, Incr, Expire, Answer, FallBack, Decide, Ends
  <2>3. asked'[u] = asked[u]
    BY <1>0 DEF Ask, Incr, Expire, Answer, FallBack, Decide, Ends
  <2>4. count'[u] = count[u]
    BY <1>0 DEF Ask, Incr, Expire, Answer, FallBack, Decide, Ends
  <2> QED
    BY <2>1, <2>2, <2>3, <2>4
<1> QED
  BY <1>1 DEF BucketOf

-----------------------------------------------------------------------------
(* The counters come to an end.                                            *)

\* Thread t handles a request that counter b of key k counts, or will.
Handles(t, k, b) == key[t] = k /\ BucketOf(t) = b

\* A counter without an end is about to get one, unless its opener raised or died.
EndsAreComing ==
    \A k \in Keys, b \in Buckets :
        LET c == counter[k][b]
        IN  /\ c.count = 0 => c.ends = Never
            /\ c.count > 0 /\ c.ends = Never =>
                \/ <<k, b>> \in spoiled
                \/ \E t \in Threads : at[t] = "expire" /\ Handles(t, k, b)

LEMMA HeldIs ==
  ASSUME RateTypeOK, EndsAreComing, NEW k \in Keys, NEW b \in Buckets
  PROVE  /\ Held(k, b) = Absent \/ Held(k, b) = counter[k][b]
         /\ Held(k, b).count = 0 => Held(k, b) = Absent
         /\ Absent.count = 0 /\ Absent.ends = Never
         /\ counter[k][b] \in [count : Nat, ends : Nat]
<1>1. counter[k][b] \in [count : Nat, ends : Nat]
  BY DEF RateTypeOK
<1>2. counter[k][b].count = 0 => counter[k][b].ends = Never
  BY DEF EndsAreComing
<1>3. counter[k][b].count = 0 => counter[k][b] = Absent
  BY <1>1, <1>2 DEF Absent
<1> QED
  BY <1>1, <1>3 DEF Held, Absent

\* What INCR and EXPIRE make of a counter.
LEMMA IncrementIs ==
  ASSUME RateTypeOK, EndsAreComing, NEW k \in Keys, NEW b \in Buckets
  PROVE  /\ Increment(k, b) \in [count : Nat, ends : Nat]
         /\ Increment(k, b).count = Held(k, b).count + 1
         /\ Increment(k, b).ends = Held(k, b).ends
         /\ ~Opens(Increment(k, b)) => /\ Held(k, b) = counter[k][b]
                                       /\ counter[k][b].count > 0
<1>1. Held(k, b) \in [count : Nat, ends : Nat]
  BY TypesOfParts
<1>2. /\ Increment(k, b) \in [count : Nat, ends : Nat]
      /\ Increment(k, b).count = Held(k, b).count + 1 /\ Increment(k, b).ends = Held(k, b).ends
  BY <1>1 DEF Increment
<1>3. ~Opens(Increment(k, b)) => Held(k, b).count # 0
  BY <1>1, <1>2 DEF Opens
<1> QED
  BY <1>1, <1>2, <1>3, HeldIs

LEMMA EndedIs ==
  ASSUME RateTypeOK, EndsAreComing, NEW k \in Keys, NEW b \in Buckets
  PROVE  /\ Ended(k, b) \in [count : Nat, ends : Nat]
         /\ \/ Held(k, b) = Absent /\ Ended(k, b) = Absent
            \/ /\ Held(k, b) = counter[k][b] /\ counter[k][b].count # 0
               /\ Ended(k, b).count = counter[k][b].count
               /\ Ended(k, b).ends = EndOfCounter(k) /\ EndOfCounter(k) # Never
<1>1. EndOfCounter(k) # Never
  <2>1. /\ MaxTime + Ticks(Window[k] + 1) < Never /\ Never \in Nat
        /\ Ticks(Window[k] + 1) = Ticks(Window[k]) + PerSecond
        /\ Ticks(Window[k]) \in Nat /\ PerSecond \in Nat
    BY WindowTicks
  <2>2. now \in Nat /\ MaxTime \in Nat /\ now <= MaxTime
    <3>1. now \in 0..MaxTime /\ MaxTime \in Nat
      BY TypesOfParts DEF RateTypeOK
    <3> QED
      BY <3>1
  <2>3. ASSUME NEW w \in Nat, NEW p \in Nat, NEW n \in Nat, MaxTime + (w + p) < n
        PROVE  now + (w + p) # n
    BY <2>2, <2>3
  <2>4. EndOfCounter(k) = now + (Ticks(Window[k]) + PerSecond)
    BY <2>1 DEF EndOfCounter
  <2>5. MaxTime + (Ticks(Window[k]) + PerSecond) < Never
    BY <2>1
  <2> QED
    BY <2>1, <2>3, <2>4, <2>5
<1>2. Held(k, b) \in [count : Nat, ends : Nat]
  BY TypesOfParts
<1>3. CASE Held(k, b) = Absent
  BY <1>3, TypeOfEnded DEF Ended
<1>4. CASE Held(k, b) # Absent
  <2>1. Held(k, b) = counter[k][b] /\ counter[k][b].count # 0
    BY <1>4, HeldIs
  <2>2. Ended(k, b) = [Held(k, b) EXCEPT !.ends = EndOfCounter(k)]
    BY <1>4 DEF Ended
  <2>3. Ended(k, b).count = Held(k, b).count /\ Ended(k, b).ends = EndOfCounter(k)
    BY <1>2, <2>2
  <2> QED
    BY <1>1, <2>1, <2>3, TypeOfEnded
<1> QED
  BY <1>3, <1>4

LEMMA EndsComeAtFirst == Init => EndsAreComing
  BY DEF Init, EndsAreComing, Absent

LEMMA EndsKeepComing == RateTypeOK /\ EndsAreComing /\ [Next]_vars => EndsAreComing'
<1> SUFFICES ASSUME RateTypeOK, EndsAreComing, [Next]_vars, NEW k \in Keys, NEW b \in Buckets
             PROVE  /\ counter'[k][b].count = 0 => counter'[k][b].ends = Never
                    /\ counter'[k][b].count > 0 /\ counter'[k][b].ends = Never =>
                        \/ <<k, b>> \in spoiled'
                        \/ \E t \in Threads : at'[t] = "expire" /\ Handles(t, k, b)'
  BY DEF EndsAreComing
<1>0. /\ counter[k][b].count = 0 => counter[k][b].ends = Never
      /\ counter[k][b].count > 0 /\ counter[k][b].ends = Never =>
            \/ <<k, b>> \in spoiled
            \/ \E t \in Threads : at[t] = "expire" /\ Handles(t, k, b)
  BY DEF EndsAreComing
<1>1. counter \in [Keys -> [Buckets -> [count : Nat, ends : Nat]]]
  BY DEF RateTypeOK
\* Another thread that is about to give the counter its end still is.
<1>2. ASSUME NEW t \in Threads,
             Ask(t) \/ Incr(t) \/ Expire(t) \/ Answer(t) \/ FallBack(t) \/ Decide(t),
             NEW u \in Threads, u # t, at[u] = "expire", Handles(u, k, b)
      PROVE  at'[u] = "expire" /\ Handles(u, k, b)'
  BY <1>2, OthersStay DEF Handles
<1>3. ASSUME NEW t \in Threads, Ask(t) \/ Answer(t) \/ Decide(t)
      PROVE  /\ at[t] # "expire" /\ counter' = counter /\ spoiled' = spoiled
  BY <1>3 DEF Ask, Answer, Decide, Ends, Goes, historyVars
<1>4. ASSUME NEW t \in Threads, Ask(t) \/ Answer(t) \/ Decide(t)
      PROVE  /\ counter'[k][b].count = 0 => counter'[k][b].ends = Never
             /\ counter'[k][b].count > 0 /\ counter'[k][b].ends = Never =>
                 \/ <<k, b>> \in spoiled'
                 \/ \E u \in Threads : at'[u] = "expire" /\ Handles(u, k, b)'
  BY <1>0, <1>2, <1>3, <1>4
<1>5. ASSUME NEW t \in Threads, Incr(t)
      PROVE  /\ counter'[k][b].count = 0 => counter'[k][b].ends = Never
             /\ counter'[k][b].count > 0 /\ counter'[k][b].ends = Never =>
                 \/ <<k, b>> \in spoiled'
                 \/ \E u \in Threads : at'[u] = "expire" /\ Handles(u, k, b)'
  <2>1. /\ at[t] = "incr" /\ spoiled' = spoiled /\ key' = key /\ asked' = asked
        /\ counter' = [counter EXCEPT ![key[t]][BucketOf(t)] = Increment(key[t], BucketOf(t))]
        /\ at' = [at EXCEPT ![t] = IF Opens(Increment(key[t], BucketOf(t)))
                                   THEN "expire" ELSE "answer"]
    BY <1>5 DEF Incr, Goes
  <2>2. key[t] \in Keys /\ BucketOf(t) \in Buckets
    BY BucketBounds
  <2>3. CASE ~Handles(t, k, b)
    <3>1. counter'[k][b] = counter[k][b]
      BY <1>1, <2>1, <2>2, <2>3 DEF Handles
    <3> QED
      BY <1>0, <1>2, <1>5, <2>1, <3>1
  <2>4. CASE Handles(t, k, b)
    <3>1. counter'[k][b] = Increment(k, b)
      BY <1>1, <2>1, <2>2, <2>4 DEF Handles
    <3>2. Handles(t, k, b)'
      BY <2>1, <2>4 DEF Handles, BucketOf
    <3>3. Increment(k, b).count = Held(k, b).count + 1 /\ Held(k, b) \in [count : Nat, ends : Nat]
      BY IncrementIs, TypesOfParts
    <3>4. counter'[k][b].count # 0
      BY <3>1, <3>3
    <3>5. CASE Opens(Increment(k, b))
      <4>1. at'[t] = "expire"
        BY <2>1, <2>4, <3>5 DEF Handles, RateTypeOK
      <4> QED
        BY <3>2, <3>4, <4>1
    <3>6. CASE ~Opens(Increment(k, b))
      <4>1. counter'[k][b].ends = counter[k][b].ends /\ counter[k][b].count > 0
        BY <3>1, <3>6, IncrementIs
      <4> QED
        BY <1>0, <1>2, <1>5, <2>1, <3>4, <4>1
    <3> QED
      BY <3>5, <3>6
  <2> QED
    BY <2>3, <2>4
\* EXPIRE takes effect, and is answered or not.
<1>6. ASSUME NEW t \in Threads, Expire(t) \/ FallBack(t), spoiled' = spoiled,
             counter' = [counter EXCEPT ![key[t]][BucketOf(t)] = Ended(key[t], BucketOf(t))]
      PROVE  /\ counter'[k][b].count = 0 => counter'[k][b].ends = Never
             /\ counter'[k][b].count > 0 /\ counter'[k][b].ends = Never =>
                 \/ <<k, b>> \in spoiled'
                 \/ \E u \in Threads : at'[u] = "expire" /\ Handles(u, k, b)'
  <2>1. key[t] \in Keys /\ BucketOf(t) \in Buckets
    BY BucketBounds
  <2>2. CASE ~Handles(t, k, b)
    <3>1. counter'[k][b] = counter[k][b]
      BY <1>1, <1>6, <2>1, <2>2 DEF Handles
    <3> QED
      BY <1>0, <1>2, <1>6, <2>2, <3>1
  <2>3. CASE Handles(t, k, b)
    <3>1. counter'[k][b] = Ended(k, b)
      BY <1>1, <1>6, <2>1, <2>3 DEF Handles
    <3> QED
      BY <3>1, EndedIs, HeldIs
  <2> QED
    BY <2>2, <2>3
<1>7. ASSUME NEW t \in Threads, FallBack(t)
      PROVE  /\ counter'[k][b].count = 0 => counter'[k][b].ends = Never
             /\ counter'[k][b].count > 0 /\ counter'[k][b].ends = Never =>
                 \/ <<k, b>> \in spoiled'
                 \/ \E u \in Threads : at'[u] = "expire" /\ Handles(u, k, b)'
  <2>1. key[t] \in Keys /\ BucketOf(t) \in Buckets
    BY BucketBounds
  <2>2. CASE at[t] = "expire" /\ counter' = counter /\ Spoil(key[t], BucketOf(t))
    <3>1. Handles(t, k, b) => <<k, b>> \in spoiled'
      BY <2>2 DEF Spoil, Handles
    <3>2. spoiled \subseteq spoiled'
      BY <2>2 DEF Spoil
    <3> QED
      BY <1>0, <1>2, <1>7, <2>2, <3>1, <3>2
  <2>3. CASE at[t] # "expire" /\ counter' = counter /\ spoiled' = spoiled
    BY <1>0, <1>2, <1>7, <2>3
  <2>4. CASE /\ at[t] = "incr"
             /\ counter' = [counter EXCEPT ![key[t]][BucketOf(t)] = Increment(key[t], BucketOf(t))]
             /\ IF Opens(Increment(key[t], BucketOf(t))) THEN Spoil(key[t], BucketOf(t))
                                                          ELSE spoiled' = spoiled
    <3>1. spoiled \subseteq spoiled'
      BY <2>4 DEF Spoil
    <3>2. CASE ~Handles(t, k, b)
      <4>1. counter'[k][b] = counter[k][b]
        BY <1>1, <2>1, <2>4, <3>2 DEF Handles
      <4> QED
        BY <1>0, <1>2, <1>7, <2>4, <3>1, <4>1
    <3>3. CASE Handles(t, k, b)
      <4>1. counter'[k][b] = Increment(k, b)
        BY <1>1, <2>1, <2>4, <3>3 DEF Handles
      <4>2. /\ Increment(k, b).count = Held(k, b).count + 1
            /\ Held(k, b) \in [count : Nat, ends : Nat]
        BY IncrementIs, TypesOfParts
      <4>3. counter'[k][b].count # 0
        BY <4>1, <4>2
      <4>4. CASE Opens(Increment(k, b))
        <5>1. <<k, b>> \in spoiled'
          BY <2>4, <3>3, <4>4 DEF Handles, Spoil
        <5> QED
          BY <4>3, <5>1
      <4>5. CASE ~Opens(Increment(k, b))
        <5>1. counter'[k][b].ends = counter[k][b].ends /\ counter[k][b].count > 0
          BY <4>1, <4>5, IncrementIs
        <5> QED
          BY <1>0, <1>2, <1>7, <2>4, <3>1, <4>3, <5>1
      <4> QED
        BY <4>4, <4>5
    <3> QED
      BY <3>2, <3>3
  <2> QED
    BY <1>6, <1>7, <2>2, <2>3, <2>4, FallBackCases
<1>8. CASE Tick \/ UNCHANGED vars
  BY <1>0, <1>8 DEF Tick, vars, threadVars, historyVars, Handles, BucketOf
<1>9. CASE Die
  <2>1. /\ counter' = counter /\ spoiled \subseteq spoiled'
        /\ \A t \in Threads : at[t] = "expire" => <<key[t], BucketOf(t)>> \in spoiled'
    BY <1>9, DeathLeaves
  <2>2. (\E t \in Threads : at[t] = "expire" /\ Handles(t, k, b)) => <<k, b>> \in spoiled'
    BY <2>1 DEF Handles
  <2> QED
    BY <1>0, <2>1, <2>2
<1>10. ASSUME NEW t \in Threads, Expire(t)
       PROVE  /\ spoiled' = spoiled
              /\ counter' = [counter EXCEPT ![key[t]][BucketOf(t)] = Ended(key[t], BucketOf(t))]
  BY <1>10 DEF Expire, historyVars
<1> QED
  BY <1>4, <1>5, <1>6, <1>7, <1>8, <1>9, <1>10 DEF Next

\* Redis keeps no counter for ever but those whose opener raised or died before
\* its EXPIRE: until then a thread that has opened one is there to give it its
\* end (main.py:109-111).
THEOREM CountersComeToAnEnd == Spec => []CountersEnd
<1>1. RateTypeOK /\ EndsAreComing => CountersEnd
  <2> SUFFICES ASSUME RateTypeOK, EndsAreComing, NEW k \in Keys, NEW b \in Buckets,
                      Held(k, b).count > 0, Held(k, b).ends = Never
               PROVE  \/ <<k, b>> \in spoiled
                      \/ \E t \in Threads : at[t] = "expire" /\ key[t] = k /\ BucketOf(t) = b
    BY DEF CountersEnd
  <2>1. Held(k, b) = counter[k][b]
    BY HeldIs
  <2> QED
    BY <2>1 DEF EndsAreComing, Handles
<1> QED
  BY <1>1, TypesAtFirst, TypesKept, EndsComeAtFirst, EndsKeepComing, PTL DEF Spec

-----------------------------------------------------------------------------
(* No window lets through more than its limit, if a thread takes no longer *)
(* with the time it read than the second that EXPIRE adds.                 *)

LEMMA ReadLatelyAtFirst == Init => ReadLately
  BY DEF Init, ReadLately, Waiting

LEMMA ReadLatelyKept == RateTypeOK /\ ReadLately /\ [Next]_vars => ReadLately'
<1> SUFFICES ASSUME RateTypeOK, ReadLately, [Next]_vars, NEW u \in Threads, at'[u] \in Waiting
             PROVE  asked'[u] <= now' /\ now' <= asked'[u] + Lag
  BY DEF ReadLately
<1>0. /\ at \in [Threads -> Waiting \cup {"idle"}] /\ asked \in [Threads -> 0..MaxTime]
      /\ now \in Nat /\ MaxTime \in Nat /\ Lag \in Nat /\ asked[u] \in Nat
      /\ at[u] \in Waiting => asked[u] <= now /\ now <= asked[u] + Lag
  <2>1. now \in Nat /\ MaxTime \in Nat
    BY TypesOfParts
  <2>2. at \in [Threads -> Waiting \cup {"idle"}] /\ asked \in [Threads -> 0..MaxTime]
    BY DEF RateTypeOK
  <2> QED
    BY <2>1, <2>2, RateAssumption DEF ReadLately
<1>1. ASSUME NEW t \in Threads, Ask(t) \/ Incr(t) \/ Expire(t) \/ Answer(t) \/ FallBack(t) \/ Decide(t)
      PROVE  asked'[u] <= now' /\ now' <= asked'[u] + Lag
  <2>1. now' = now
    BY <1>1 DEF Ask, Incr, Expire, Answer, FallBack, Decide
  <2>2. CASE u # t
    <3>1. at'[u] = at[u] /\ asked'[u] = asked[u]
      BY <1>1, <2>2, OthersStay
    <3> QED
      BY <1>0, <2>1, <3>1
  <2>3. CASE u = t /\ (Ask(t) \/ FallBack(t))
    <3>1. asked'[u] = now
      BY <1>0, <2>3 DEF Ask, FallBack
    <3> QED
      BY <1>0, <2>1, <3>1
  <2>4. CASE u = t /\ (Incr(t) \/ Expire(t))
    <3>1. asked'[u] = asked[u] /\ at[u] \in Waiting
      BY <2>4 DEF Incr, Expire, Goes, Waiting
    <3> QED
      BY <1>0, <2>1, <3>1
  <2>5. CASE u = t /\ (Answer(t) \/ Decide(t))
    <3>1. at'[u] = "idle"
      BY <1>0, <2>5 DEF Answer, Decide, Ends, Goes
    <3> QED
      BY <3>1 DEF Waiting
  <2> QED
    BY <1>1, <2>2, <2>3, <2>4, <2>5
<1>2. CASE Tick
  <2>1. now' = now + 1 /\ at'[u] = at[u] /\ asked'[u] = asked[u]
        /\ (at[u] # "idle" => now < asked[u] + Lag)
    BY <1>2 DEF Tick, threadVars
  <2>2. at[u] # "idle"
    BY <2>1 DEF Waiting
  <2> QED
    BY <1>0, <2>1, <2>2
<1>3. CASE UNCHANGED vars
  BY <1>0, <1>3 DEF vars, threadVars
<1>4. ~Die
  BY DeathLeaves DEF Waiting
<1> QED
  BY <1>1, <1>2, <1>3, <1>4 DEF Next

\* A counter ends a second after its window at the earliest.
CountersOutlast ==
    \A k \in Keys, b \in Buckets :
        LET c == counter[k][b]
        IN  c.count > 0 => c.ends = Never \/ (b + 1) * Ticks(Window[k]) + PerSecond <= c.ends

LEMMA OutlastAtFirst == Init => CountersOutlast
  BY DEF Init, CountersOutlast, Absent

\* Products of numbers that are not known.
LEMMA EndOfBucket ==
  ASSUME NEW b \in Nat, NEW w \in Nat
  PROVE  (b + 1) * w = b * w + w /\ b * w \in Nat /\ (b + 1) * w \in Nat
  OBVIOUS

LEMMA OutlastKept ==
  RateTypeOK /\ EndsAreComing /\ ReadLately /\ CountersOutlast /\ [Next]_vars => CountersOutlast'
<1> SUFFICES ASSUME RateTypeOK, EndsAreComing, ReadLately, CountersOutlast, [Next]_vars,
                    NEW k \in Keys, NEW b \in Buckets, counter'[k][b].count > 0
             PROVE  \/ counter'[k][b].ends = Never
                    \/ (b + 1) * Ticks(Window[k]) + PerSecond <= counter'[k][b].ends
  BY DEF CountersOutlast
<1> DEFINE Late(c) == c.ends = Never \/ (b + 1) * Ticks(Window[k]) + PerSecond <= c.ends
<1>0. counter[k][b].count > 0 => Late(counter[k][b])
  BY DEF CountersOutlast
<1>1. Late(Increment(k, b))
  <2>1. CASE Held(k, b) = Absent
    BY <2>1, IncrementIs, HeldIs
  <2>2. CASE Held(k, b) # Absent
    <3>1. Held(k, b) = counter[k][b] /\ counter[k][b].count # 0
      BY <2>2, HeldIs
    <3>2. counter[k][b].count > 0
      BY <3>1, HeldIs
    <3>3. Increment(k, b).ends = counter[k][b].ends
      BY <3>1, IncrementIs
    <3> QED
      BY <1>0, <3>2, <3>3
  <2> QED
    BY <2>1, <2>2
<1>2. counter \in [Keys -> [Buckets -> [count : Nat, ends : Nat]]]
  BY DEF RateTypeOK
<1>3. CASE counter' = counter
  BY <1>0, <1>3
<1>4. ASSUME NEW t \in Threads,
             counter' = [counter EXCEPT ![key[t]][BucketOf(t)] = Increment(key[t], BucketOf(t))]
      PROVE  Late(counter'[k][b])
  <2>1. counter'[k][b] = counter[k][b] \/ counter'[k][b] = Increment(k, b)
    BY <1>2, <1>4, BucketBounds
  <2> QED
    BY <1>0, <1>1, <2>1
<1>5. ASSUME NEW t \in Threads, at[t] = "expire",
             counter' = [counter EXCEPT ![key[t]][BucketOf(t)] = Ended(key[t], BucketOf(t))]
      PROVE  Late(counter'[k][b])
  <2>2. CASE ~(key[t] = k /\ BucketOf(t) = b)
    <3>1. counter'[k][b] = counter[k][b]
      BY <1>2, <1>5, <2>2, BucketBounds
    <3> QED
      BY <1>0, <3>1
  <2>3. CASE key[t] = k /\ BucketOf(t) = b
    <3>1. counter'[k][b] = Ended(k, b)
      BY <1>2, <1>5, <2>3
    <3>2. counter'[k][b] = Absent \/ counter'[k][b].ends = EndOfCounter(k)
      BY <3>1, EndedIs
    <3>3. (b + 1) * Ticks(Window[k]) + PerSecond <= EndOfCounter(k)
      <4>1. PICK w \in Nat, p \in Nat :
                w = Ticks(Window[k]) /\ p = PerSecond /\ Ticks(Window[k] + 1) = w + p
        BY WindowTicks
      <4>2. b * w <= asked[t] /\ b \in Nat /\ asked[t] \in Nat
        BY <2>3, <4>1, BucketBounds DEF Buckets
      <4>3. asked[t] <= now /\ now \in Nat
        BY <1>5, TypesOfParts DEF ReadLately, Waiting
      <4>4. PICK x \in Nat : x = b * w /\ (b + 1) * w = x + w
        BY <4>1, <4>2, EndOfBucket
      <4>5. x + w + p <= now + (w + p)
        BY <4>1, <4>2, <4>3, <4>4
      <4>6. EndOfCounter(k) = now + (w + p)
        BY <4>1 DEF EndOfCounter
      <4> QED
        BY <4>1, <4>4, <4>5, <4>6
    <3> QED
      BY <3>2, <3>3, HeldIs
  <2> QED
    BY <2>2, <2>3
<1>6. ASSUME NEW t \in Threads,
             Ask(t) \/ Incr(t) \/ Expire(t) \/ Answer(t) \/ FallBack(t) \/ Decide(t)
      PROVE  \/ counter' = counter
             \/ counter' = [counter EXCEPT ![key[t]][BucketOf(t)] = Increment(key[t], BucketOf(t))]
             \/ /\ at[t] = "expire"
                /\ counter' = [counter EXCEPT ![key[t]][BucketOf(t)] = Ended(key[t], BucketOf(t))]
  <2>1. CASE FallBack(t)
    BY <2>1, FallBackCases
  <2> QED
    BY <1>6, <2>1 DEF Ask, Incr, Expire, Goes, Answer, Decide
<1>7. Tick \/ Die \/ UNCHANGED vars => counter' = counter
  BY DEF Tick, Die, vars
<1> QED
  BY <1>3, <1>4, <1>5, <1>6, <1>7 DEF Next

\* A request still finds the counter of its window.
LEMMA StillHeld ==
  ASSUME RateTypeOK, EndsAreComing, ReadLately, CountersOutlast, Lag <= PerSecond,
         NEW t \in Threads, at[t] \in Waiting
  PROVE  Held(key[t], BucketOf(t)) = counter[key[t]][BucketOf(t)]
<1>1. PICK k \in Keys, b \in Buckets : k = key[t] /\ b = BucketOf(t)
  BY BucketBounds
<1>2. PICK w \in Nat, p \in Nat : w = Ticks(Window[k]) /\ p = PerSecond
  BY WindowTicks
<1>3. /\ asked[t] \in Nat /\ now \in Nat /\ Lag \in Nat /\ b \in Nat
      /\ now <= asked[t] + Lag /\ asked[t] < (b + 1) * w
  <2>1. asked[t] \in Nat /\ asked[t] < (b + 1) * w /\ b \in Nat
    BY <1>1, <1>2, BucketBounds DEF Buckets
  <2>2. now \in Nat /\ Lag \in Nat /\ now <= asked[t] + Lag
    BY RateAssumption, TypesOfParts DEF ReadLately
  <2> QED
    BY <2>1, <2>2
<1>4. PICK x \in Nat : x = (b + 1) * w
  BY <1>2, <1>3, EndOfBucket
<1>5. now < x + p
  BY <1>2, <1>3, <1>4
<1>6. counter[k][b].ends \in Nat /\ counter[k][b].count \in Nat
  BY DEF RateTypeOK
<1>7. now < Never
  <2>1. now \in 0..MaxTime /\ MaxTime \in Nat /\ Never \in Nat /\ MaxTime < Never
    BY TypesOfParts DEF RateTypeOK
  <2> QED
    BY <2>1
<1>8. ~(counter[k][b].ends <= now)
  <2>1. CASE counter[k][b].count = 0 \/ counter[k][b].ends = Never
    <3>1. counter[k][b].ends = Never
      BY <2>1 DEF EndsAreComing
    <3> QED
      BY <1>3, <1>6, <1>7, <3>1
  <2>2. CASE ~(counter[k][b].count = 0 \/ counter[k][b].ends = Never)
    <3>1. x + p <= counter[k][b].ends
      BY <1>2, <1>4, <1>6, <2>2 DEF CountersOutlast
    <3> QED
      BY <1>2, <1>3, <1>5, <1>6, <3>1
  <2> QED
    BY <2>1, <2>2
<1> QED
  BY <1>1, <1>8 DEF Held

\* The requests that Redis counts among the first and has not answered yet.
LetThrough(k, b) ==
    {t \in Threads : at[t] \in {"expire", "answer"} /\ Handles(t, k, b) /\ count[t] <= Limit[k]}

GrantsCounted ==
    \A k \in Keys, b \in Buckets :
        /\ granted[k][b] + Cardinality(LetThrough(k, b)) <= Limit[k]
        /\ granted[k][b] + Cardinality(LetThrough(k, b)) <= counter[k][b].count

LEMMA SameButOne ==
  ASSUME NEW L, NEW M, NEW t, IsFiniteSet(L), L \ {t} = M \ {t}
  PROVE  /\ Cardinality(L) \in Nat /\ Cardinality(M) \in Nat
         /\ t \in M /\ t \notin L => Cardinality(M) = Cardinality(L) + 1
         /\ t \notin M /\ t \in L => Cardinality(M) = Cardinality(L) - 1
         /\ (t \in M <=> t \in L) => Cardinality(M) = Cardinality(L)
<1>1. Cardinality(L) \in Nat
  BY FS_CardinalityType
<1>2. CASE t \in M /\ t \notin L
  <2>1. M = L \cup {t}
    BY <1>2
  <2> QED
    BY <1>1, <1>2, <2>1, FS_AddElement, SMTT(40)
<1>3. CASE t \notin M /\ t \in L
  <2>1. M = L \ {t}
    BY <1>3
  <2>2. Cardinality(L \ {t}) = Cardinality(L) - 1
    BY <1>3, FS_RemoveElement
  <2>3. Cardinality(L \ {t}) \in Nat
    <3>1. IsFiniteSet(L \ {t})
      BY FS_Subset
    <3> QED
      BY <3>1, FS_CardinalityType
  <2> QED
    BY <1>1, <1>3, <2>1, <2>2, <2>3
<1>4. CASE t \in M <=> t \in L
  <2>1. M = L
    BY <1>4
  <2> QED
    BY <1>1, <1>4, <2>1
<1> QED
  BY <1>1, <1>2, <1>3, <1>4

LEMMA GrantsCountedAtFirst == Init => GrantsCounted
<1> SUFFICES ASSUME Init, NEW k \in Keys, NEW b \in Buckets
             PROVE  /\ granted[k][b] + Cardinality(LetThrough(k, b)) <= Limit[k]
                    /\ granted[k][b] + Cardinality(LetThrough(k, b)) <= counter[k][b].count
  BY DEF GrantsCounted
<1>1. LetThrough(k, b) = {}
  BY DEF Init, LetThrough
<1>2. granted[k][b] = 0 /\ counter[k][b].count = 0 /\ Limit[k] \in Nat
  BY RateAssumption DEF Init, Absent
<1>3. Cardinality({}) = 0
  BY FS_EmptySet
<1> QED
  BY <1>1, <1>2, <1>3

\* A step of t lets only t in or out.
LEMMA LetThroughMoves ==
  ASSUME RateTypeOK, NEW t \in Threads,
         Ask(t) \/ Incr(t) \/ Expire(t) \/ Answer(t) \/ FallBack(t) \/ Decide(t),
         NEW k \in Keys, NEW b \in Buckets
  PROVE  /\ IsFiniteSet(LetThrough(k, b))
         /\ LetThrough(k, b)' \ {t} = LetThrough(k, b) \ {t}
<1>1. IsFiniteSet(LetThrough(k, b))
  <2>1. LetThrough(k, b) \subseteq Threads
    BY DEF LetThrough
  <2> QED
    BY <2>1, RateAssumption, FS_Subset
<1>2. ASSUME NEW u \in Threads, u # t
      PROVE  u \in LetThrough(k, b)' <=> u \in LetThrough(k, b)
  <2>1. at'[u] = at[u] /\ count'[u] = count[u] /\ (Handles(u, k, b)' <=> Handles(u, k, b))
    BY <1>2, OthersStay DEF Handles
  <2> QED
    BY <2>1 DEF LetThrough
<1>3. LetThrough(k, b) \subseteq Threads /\ LetThrough(k, b)' \subseteq Threads
  BY DEF LetThrough
<1> QED
  BY <1>1, <1>2, <1>3

LEMMA GrantsCountedKept ==
  ASSUME RateTypeOK, EndsAreComing, ReadLately, CountersOutlast, GrantsCounted, Lag <= PerSecond,
         [Next]_vars
  PROVE  GrantsCounted'
<1> SUFFICES ASSUME NEW k \in Keys, NEW b \in Buckets
             PROVE  /\ granted'[k][b] + Cardinality(LetThrough(k, b)') <= Limit[k]
                    /\ granted'[k][b] + Cardinality(LetThrough(k, b)') <= counter'[k][b].count
  BY DEF GrantsCounted
<1> DEFINE L == LetThrough(k, b)
           n == Cardinality(L)
           m == Cardinality(L')
           Counted == granted'[k][b] + m <= Limit[k] /\ granted'[k][b] + m <= counter'[k][b].count
<1>0. /\ granted[k][b] \in Nat /\ counter[k][b].count \in Nat /\ Limit[k] \in Nat
      /\ granted[k][b] + n <= Limit[k] /\ granted[k][b] + n <= counter[k][b].count
  <2>1. granted[k][b] \in Nat /\ counter[k][b].count \in Nat
    BY DEF RateTypeOK
  <2> QED
    BY <2>1, RateAssumption DEF GrantsCounted
<1>1. /\ counter \in [Keys -> [Buckets -> [count : Nat, ends : Nat]]]
      /\ granted \in [Keys -> [Buckets -> Nat]]
      /\ at \in [Threads -> Waiting \cup {"idle"}] /\ count \in [Threads -> Nat]
  BY DEF RateTypeOK
<1>2. ASSUME NEW t \in Threads,
             Ask(t) \/ Incr(t) \/ Expire(t) \/ Answer(t) \/ FallBack(t) \/ Decide(t)
      PROVE  /\ n \in Nat /\ m \in Nat
             /\ t \in L' /\ t \notin L => m = n + 1
             /\ t \notin L' /\ t \in L => m = n - 1
             /\ (t \in L' <=> t \in L) => m = n
  <2>1. IsFiniteSet(L) /\ L \ {t} = L' \ {t}
    BY <1>2, LetThroughMoves
  <2> QED
    BY <2>1, SameButOne
\* Redis counts the request of t.
<1>3. ASSUME NEW t \in Threads, at[t] \in Waiting, key[t] = k, BucketOf(t) = b
      PROVE  /\ Held(k, b) = counter[k][b] /\ Increment(k, b).count = counter[k][b].count + 1
             /\ Increment(k, b).count \in Nat
  <2>1. Held(k, b) = counter[k][b]
    BY <1>3, StillHeld
  <2> QED
    BY <1>0, <2>1, IncrementIs
<1>4. ASSUME NEW t \in Threads, Ask(t) \/ Decide(t)
      PROVE  Counted
  <2>1. counter' = counter /\ granted' = granted
    BY <1>4 DEF Ask, Decide, historyVars
  <2>2. t \notin L /\ t \notin L'
    BY <1>1, <1>4 DEF Ask, Decide, Ends, Goes, LetThrough
  <2>3. m = n /\ n \in Nat
    BY <1>2, <1>4, <2>2
  <2> QED
    BY <1>0, <2>1, <2>3
<1>5. ASSUME NEW t \in Threads, Incr(t)
      PROVE  Counted
  <2>1. /\ at[t] = "incr" /\ key' = key /\ asked' = asked /\ granted' = granted
        /\ at' = [at EXCEPT ![t] = IF Opens(Increment(key[t], BucketOf(t)))
                                   THEN "expire" ELSE "answer"]
        /\ counter' = [counter EXCEPT ![key[t]][BucketOf(t)] = Increment(key[t], BucketOf(t))]
        /\ count' = [count EXCEPT ![t] = Increment(key[t], BucketOf(t)).count]
    BY <1>5 DEF Incr, Goes
  <2>2. t \notin L
    BY <2>1 DEF LetThrough
  <2>3. Handles(t, k, b)' <=> key[t] = k /\ BucketOf(t) = b
    BY <2>1 DEF Handles, BucketOf
  <2>4. CASE ~(key[t] = k /\ BucketOf(t) = b)
    <3>1. t \notin L'
      BY <2>3, <2>4 DEF LetThrough
    <3>2. counter'[k][b] = counter[k][b]
      BY <1>1, <2>1, <2>4, BucketBounds
    <3>3. m = n /\ n \in Nat
      BY <1>2, <1>5, <2>2, <3>1
    <3> QED
      BY <1>0, <2>1, <3>2, <3>3
  <2>5. CASE key[t] = k /\ BucketOf(t) = b
    <3>1. PICK c : c = Increment(k, b)
      OBVIOUS
    <3>2. c.count = counter[k][b].count + 1 /\ c.count \in Nat
      BY <1>3, <2>1, <2>5, <3>1 DEF Waiting
    <3>3. counter'[k][b] = c /\ count'[t] = c.count /\ at'[t] \in {"expire", "answer"}
      BY <1>1, <2>1, <2>5, <3>1
    <3>4. t \in L' <=> c.count <= Limit[k]
      BY <2>3, <2>5, <3>3 DEF LetThrough
    <3>5. CASE c.count <= Limit[k]
      <4>1. m = n + 1 /\ n \in Nat
        BY <1>2, <1>5, <2>2, <3>4, <3>5
      <4> QED
        BY <1>0, <2>1, <3>2, <3>3, <3>5, <4>1
    <3>6. CASE ~(c.count <= Limit[k])
      <4>1. m = n /\ n \in Nat
        BY <1>2, <1>5, <2>2, <3>4, <3>6
      <4> QED
        BY <1>0, <2>1, <3>2, <3>3, <4>1
    <3> QED
      BY <3>5, <3>6
  <2> QED
    BY <2>4, <2>5
<1>6. ASSUME NEW t \in Threads, Expire(t)
      PROVE  Counted
  <2>1. /\ at[t] = "expire" /\ key' = key /\ asked' = asked /\ granted' = granted
        /\ count' = count /\ at' = [at EXCEPT ![t] = "answer"]
        /\ counter' = [counter EXCEPT ![key[t]][BucketOf(t)] =
                IF Held(key[t], BucketOf(t)) = Absent THEN Absent
                ELSE [Held(key[t], BucketOf(t)) EXCEPT !.ends = EndOfCounter(key[t])]]
    BY <1>6 DEF Expire, Ended, Goes, historyVars
  <2>2. t \in L' <=> t \in L
    <3>1. at'[t] = "answer"
      BY <1>1, <2>1
    <3>2. Handles(t, k, b)' <=> Handles(t, k, b)
      BY <2>1 DEF Handles, BucketOf
    <3> QED
      BY <2>1, <3>1, <3>2 DEF LetThrough
  <2>3. m = n /\ n \in Nat
    BY <1>2, <1>6, <2>2
  <2>4. counter'[k][b].count = counter[k][b].count
    <3>1. CASE ~(key[t] = k /\ BucketOf(t) = b)
      BY <1>1, <2>1, <3>1, BucketBounds
    <3>2. CASE key[t] = k /\ BucketOf(t) = b
      <4>1. Held(k, b) = counter[k][b]
        BY <1>3, <2>1, <3>2 DEF Waiting
      <4>2. counter'[k][b] = IF Held(k, b) = Absent THEN Absent
                             ELSE [Held(k, b) EXCEPT !.ends = EndOfCounter(k)]
        BY <1>1, <2>1, <3>2
      <4>3. Held(k, b) \in [count : Nat, ends : Nat]
        BY TypesOfParts
      <4>4. counter'[k][b].count = Held(k, b).count
        BY <4>2, <4>3
      <4> QED
        BY <4>1, <4>4
    <3> QED
      BY <3>1, <3>2
  <2> QED
    BY <1>0, <2>1, <2>3, <2>4
<1>7. ASSUME NEW t \in Threads, Answer(t)
      PROVE  Counted
  <2>1. /\ at[t] = "answer" /\ counter' = counter
        /\ \/ count[t] > Limit[key[t]] /\ granted' = granted
           \/ /\ ~(count[t] > Limit[key[t]])
              /\ granted' = [granted EXCEPT ![key[t]][BucketOf(t)] = granted[key[t]][BucketOf(t)] + 1]
    BY <1>7 DEF Answer, Ends, Goes
  <2>2. t \notin L'
    <3>1. at'[t] = "idle"
      BY <1>1, <1>7 DEF Answer, Ends, Goes
    <3> QED
      BY <3>1 DEF LetThrough
  <2>3. t \in L <=> key[t] = k /\ BucketOf(t) = b /\ count[t] <= Limit[k]
    BY <2>1 DEF LetThrough, Handles
  <2>4. count[t] \in Nat
    BY <1>1
  <2>5. CASE t \in L
    <3>1. granted'[k][b] = granted[k][b] + 1
      <4>1. ~(count[t] > Limit[key[t]])
        BY <1>0, <2>3, <2>4, <2>5
      <4> QED
        BY <1>1, <2>1, <2>3, <2>5, <4>1
    <3>2. m = n - 1 /\ n \in Nat
      BY <1>2, <1>7, <2>2, <2>5
    <3> QED
      BY <1>0, <2>1, <3>1, <3>2
  <2>6. CASE t \notin L
    <3>1. granted'[k][b] = granted[k][b]
      <4>1. CASE key[t] = k /\ BucketOf(t) = b
        <5>1. count[t] > Limit[key[t]]
          BY <1>0, <2>3, <2>4, <2>6, <4>1
        <5> QED
          BY <2>1, <5>1
      <4>2. CASE ~(key[t] = k /\ BucketOf(t) = b)
        BY <1>1, <2>1, <4>2, BucketBounds
      <4> QED
        BY <4>1, <4>2
    <3>2. m = n /\ n \in Nat
      BY <1>2, <1>7, <2>2, <2>6
    <3> QED
      BY <1>0, <2>1, <3>1, <3>2
  <2> QED
    BY <2>5, <2>6
<1>8. ASSUME NEW t \in Threads, FallBack(t)
      PROVE  Counted
  <2>1. /\ at[t] \in {"incr", "expire"} /\ granted' = granted
        /\ \/ counter' = counter
           \/ counter' = [counter EXCEPT ![key[t]][BucketOf(t)] = Increment(key[t], BucketOf(t))]
           \/ counter' = [counter EXCEPT ![key[t]][BucketOf(t)] = Ended(key[t], BucketOf(t))]
    BY <1>8, FallBackCases DEF FallBack
  <2>2. t \notin L'
    <3>1. at'[t] = "table"
      BY <1>1, <1>8 DEF FallBack, Goes
    <3> QED
      BY <3>1 DEF LetThrough
  <2>3. m \in Nat /\ n \in Nat /\ m <= n
    BY <1>2, <1>8, <2>2
  <2>4. counter'[k][b].count \in Nat /\ counter'[k][b].count >= counter[k][b].count
    <3>1. CASE ~(key[t] = k /\ BucketOf(t) = b)
      <4>1. counter'[k][b] = counter[k][b]
        BY <1>1, <2>1, <3>1, BucketBounds
      <4> QED
        BY <1>0, <4>1
    <3>2. CASE key[t] = k /\ BucketOf(t) = b
      <4>1. \/ counter'[k][b] = counter[k][b] \/ counter'[k][b] = Increment(k, b)
            \/ counter'[k][b] = Ended(k, b)
        BY <1>1, <2>1, <3>2
      <4>2. Held(k, b) = counter[k][b] /\ Increment(k, b).count = counter[k][b].count + 1
        BY <1>3, <2>1, <3>2 DEF Waiting
      <4>3. Ended(k, b).count = counter[k][b].count
        BY <4>2, EndedIs
      <4> QED
        BY <1>0, <4>1, <4>2, <4>3
    <3> QED
      BY <3>1, <3>2
  <2> QED
    BY <1>0, <2>1, <2>3, <2>4
<1>9. CASE Tick \/ UNCHANGED vars
  <2>1. L' = L /\ granted' = granted /\ counter' = counter
    BY <1>9 DEF Tick, vars, threadVars, historyVars, LetThrough, Handles, BucketOf
  <2> QED
    BY <1>0, <2>1
<1>10. CASE Die
  <2>1. L' = {} /\ granted' = granted /\ counter' = counter
    BY <1>10, DeathLeaves DEF LetThrough
  <2>2. m = 0
    BY <2>1, FS_EmptySet
  <2>3. n \in Nat
    <3>1. L \subseteq Threads
      BY DEF LetThrough
    <3> QED
      BY <3>1, RateAssumption, FS_Subset, FS_CardinalityType
  <2> QED
    BY <1>0, <2>1, <2>2, <2>3
<1> QED
  BY <1>4, <1>5, <1>6, <1>7, <1>8, <1>9, <1>10 DEF Next

\* Redis lets no more than the limit through in a window of the clock, as long as
\* no thread takes more than a second between reading the clock and its answer:
\* the counter that INCR finds is then still the one of the window
\* (main.py:107-112).
THEOREM WindowsKeepTheirLimit ==
  ASSUME Lag <= PerSecond
  PROVE  Spec => []GrantsPerWindow
<1> DEFINE Inv == RateTypeOK /\ EndsAreComing /\ ReadLately /\ CountersOutlast /\ GrantsCounted
<1>1. Init => Inv
  BY TypesAtFirst, EndsComeAtFirst, ReadLatelyAtFirst, OutlastAtFirst, GrantsCountedAtFirst
<1>2. Inv /\ [Next]_vars => Inv'
  BY TypesKept, EndsKeepComing, ReadLatelyKept, OutlastKept, GrantsCountedKept
<1>3. Inv => GrantsPerWindow
  <2> SUFFICES ASSUME RateTypeOK, GrantsCounted, NEW k \in Keys, NEW b \in Buckets
               PROVE  granted[k][b] <= Limit[k]
    BY DEF GrantsPerWindow
  <2>1. Cardinality(LetThrough(k, b)) \in Nat
    <3>1. LetThrough(k, b) \subseteq Threads
      BY DEF LetThrough
    <3> QED
      BY <3>1, RateAssumption, FS_Subset, FS_CardinalityType
  <2>2. granted[k][b] \in Nat /\ Limit[k] \in Nat
    BY RateAssumption DEF RateTypeOK
  <2> QED
    BY <2>1, <2>2 DEF GrantsCounted
<1> QED
  BY <1>1, <1>2, <1>3, PTL DEF Spec

-----------------------------------------------------------------------------
(* Who comes back when he was told to.                                     *)

LEMMA ToldIs ==
  ASSUME RateTypeOK, NEW i \in Places, NEW k \in Keys, NEW from
  PROVE  /\ Tell(i, k, from) => told'[i][k] = IF from < told[i][k] THEN from ELSE told[i][k]
         /\ Withdraw(i, k) => told'[i][k] = Never
         /\ Tell(i, k, from) \/ Withdraw(i, k) =>
                \A j \in Places, l \in Keys : j # i \/ l # k => told'[j][l] = told[j][l]
         /\ told[i][k] \in Nat
<1>1. told \in [Places -> [Keys -> Nat]]
  BY DEF RateTypeOK
<1> QED
  BY <1>1 DEF Tell, Withdraw

\* No counter is of a window to come.
CountedLately ==
    \A k \in Keys, b \in Buckets : counter[k][b].count > 0 => b * Ticks(Window[k]) <= now

LEMMA CountedAtFirst == Init => CountedLately
  BY DEF Init, CountedLately, Absent

\* What a step does to a count: it is what it was, or one more, for the request of t.
LEMMA CountSteps ==
  ASSUME RateTypeOK, EndsAreComing, [Next]_vars, NEW k \in Keys, NEW b \in Buckets
  PROVE  \/ counter'[k][b].count = counter[k][b].count
         \/ counter'[k][b].count = 0
         \/ \E t \in Threads : /\ Incr(t) \/ FallBack(t)
                               /\ key[t] = k /\ BucketOf(t) = b /\ at[t] \in Waiting
<1>1. counter \in [Keys -> [Buckets -> [count : Nat, ends : Nat]]]
  BY DEF RateTypeOK
<1>2. ASSUME NEW t \in Threads, Incr(t) \/ FallBack(t)
      PROVE  \/ counter'[k][b].count = counter[k][b].count
             \/ key[t] = k /\ BucketOf(t) = b /\ at[t] \in Waiting
  <2>1. /\ at[t] \in Waiting
        /\ \/ counter' = counter
           \/ counter' = [counter EXCEPT ![key[t]][BucketOf(t)] = Increment(key[t], BucketOf(t))]
           \/ counter' = [counter EXCEPT ![key[t]][BucketOf(t)] = Ended(key[t], BucketOf(t))]
    BY <1>2, FallBackCases DEF Incr, Goes, Waiting
  <2>2. ~(key[t] = k /\ BucketOf(t) = b) => counter'[k][b] = counter[k][b]
    BY <1>1, <2>1, BucketBounds
  <2> QED
    BY <2>1, <2>2
<1>3. ASSUME NEW t \in Threads, Expire(t)
      PROVE  counter'[k][b].count = counter[k][b].count \/ counter'[k][b].count = 0
  <2>1. counter' = [counter EXCEPT ![key[t]][BucketOf(t)] = Ended(key[t], BucketOf(t))]
    BY <1>3 DEF Expire
  <2>2. counter'[k][b] = counter[k][b] \/ counter'[k][b] = Ended(k, b)
    BY <1>1, <2>1, BucketBounds
  <2> QED
    BY <2>2, EndedIs, HeldIs
<1>4. ASSUME NEW t \in Threads, Ask(t) \/ Answer(t) \/ Decide(t)
      PROVE  counter' = counter
  BY <1>4 DEF Ask, Answer, Decide
<1>5. Tick \/ Die \/ UNCHANGED vars => counter' = counter
  BY DEF Tick, Die, vars
<1> QED
  BY <1>2, <1>3, <1>4, <1>5 DEF Next

LEMMA NowGrows ==
  ASSUME RateTypeOK, [Next]_vars
  PROVE  now' = now \/ (now' = now + 1 /\ Tick)
<1>1. ASSUME NEW t \in Threads, Ask(t) \/ Incr(t) \/ Expire(t) \/ Answer(t) \/ FallBack(t) \/ Decide(t)
      PROVE  now' = now
  BY <1>1 DEF Ask, Incr, Expire, Answer, FallBack, Decide
<1>2. (Tick => now' = now + 1) /\ (Die \/ UNCHANGED vars => now' = now)
  BY DEF Tick, Die, vars
<1> QED
  BY <1>1, <1>2 DEF Next

LEMMA CountedKept ==
  RateTypeOK /\ EndsAreComing /\ ReadLately /\ CountedLately /\ [Next]_vars => CountedLately'
<1> SUFFICES ASSUME RateTypeOK, EndsAreComing, ReadLately, CountedLately, [Next]_vars,
                    NEW k \in Keys, NEW b \in Buckets, counter'[k][b].count > 0
             PROVE  b * Ticks(Window[k]) <= now'
  BY DEF CountedLately
<1>1. PICK w \in Nat, x \in Nat : w = Ticks(Window[k]) /\ x = b * w
  BY WindowTicks, EndOfBucket DEF Buckets
<1>2. now \in Nat /\ now' \in Nat /\ now <= now'
  <2>1. now \in Nat
    BY TypesOfParts
  <2> QED
    BY <2>1, NowGrows
<1>3. CASE counter'[k][b].count = counter[k][b].count
  <2>1. x <= now
    BY <1>1, <1>3 DEF CountedLately
  <2> QED
    BY <1>1, <1>2, <2>1
<1>4. ASSUME NEW t \in Threads, key[t] = k, BucketOf(t) = b, at[t] \in Waiting
      PROVE  b * Ticks(Window[k]) <= now'
  <2>1. x <= asked[t] /\ asked[t] \in Nat /\ asked[t] <= now
    BY <1>1, <1>4, BucketBounds DEF ReadLately
  <2> QED
    BY <1>1, <1>2, <2>1
<1> QED
  BY <1>3, <1>4, CountSteps

\* What Redis has counted lies before the time a client was told, and so do the
\* requests it is about to answer.
SharedPromise ==
    \A k \in Keys : told["shared"][k] # Never =>
        /\ \A b \in Buckets :
            counter[k][b].count > 0 => (b + 1) * Ticks(Window[k]) <= told["shared"][k]
        /\ \A t \in Threads :
            at[t] \in {"expire", "answer"} /\ key[t] = k => asked[t] < told["shared"][k]

LEMMA SharedAtFirst == Init => SharedPromise
<1> SUFFICES ASSUME Init, NEW k \in Keys
             PROVE  told["shared"][k] = Never
  BY DEF SharedPromise
<1> QED
  BY DEF Init, Places

LEMMA SharedKept ==
  ASSUME RateTypeOK, EndsAreComing, ReadLately, CountedLately, SharedPromise, [Next]_vars
  PROVE  SharedPromise'
<1> SUFFICES ASSUME NEW k \in Keys, told'["shared"][k] # Never
             PROVE  /\ \A b \in Buckets : counter'[k][b].count > 0 =>
                            (b + 1) * Ticks(Window[k]) <= told'["shared"][k]
                    /\ \A u \in Threads : at'[u] \in {"expire", "answer"} /\ key'[u] = k =>
                            asked'[u] < told'["shared"][k]
  BY DEF SharedPromise
<1> DEFINE before == told["shared"][k]
           after == told'["shared"][k]
<1>0. "shared" \in Places /\ before \in Nat /\ now \in Nat
  <2>1. "shared" \in Places
    BY DEF Places
  <2> QED
    BY <2>1, ToldIs, TypesOfParts
<1>1. ASSUME before # Never
      PROVE  /\ \A b \in Buckets : counter[k][b].count > 0 =>
                        (b + 1) * Ticks(Window[k]) <= before
             /\ \A u \in Threads : at[u] \in {"expire", "answer"} /\ key[u] = k =>
                        asked[u] < before
  BY <1>1 DEF SharedPromise
<1>2. ASSUME NEW b \in Buckets
      PROVE  /\ (b + 1) * Ticks(Window[k]) \in Nat /\ b * Ticks(Window[k]) \in Nat
             /\ counter[k][b].count \in Nat
  <2>1. b \in Nat /\ Ticks(Window[k]) \in Nat
    BY WindowTicks DEF Buckets
  <2> QED
    BY <2>1, EndOfBucket DEF RateTypeOK
<1>3. /\ at \in [Threads -> Waiting \cup {"idle"}] /\ key \in [Threads -> Keys]
      /\ asked \in [Threads -> 0..MaxTime] /\ MaxTime \in Nat
  BY TypesOfParts DEF RateTypeOK
<1>4. ASSUME NEW t \in Threads, Answer(t), key[t] = k, after # before
      PROVE  /\ \A b \in Buckets : counter'[k][b].count > 0 => (b + 1) * Ticks(Window[k]) <= after
             /\ \A u \in Threads : at'[u] \in {"expire", "answer"} /\ key'[u] = k => asked'[u] < after
  <2>1. /\ counter' = counter /\ at'[t] = "idle"
        /\ UNCHANGED told \/ Tell("shared", k, now + Ticks(Rest(t)))
    BY <1>3, <1>4 DEF Answer, Ends, Goes
  <2>2. PICK r \in Nat \ {0} : r = Ticks(Rest(t)) /\ after = now + r
    BY <1>0, <1>4, <2>1, RestTicks, ToldIs
  <2>3. ASSUME NEW b \in Buckets, counter'[k][b].count > 0
        PROVE  (b + 1) * Ticks(Window[k]) <= after
    <3>1. b \in Nat /\ b * Ticks(Window[k]) <= now
      BY <2>1, <2>3 DEF Buckets, CountedLately
    <3> QED
      BY <1>4, <2>2, <3>1, RestTicks
  <2>4. ASSUME NEW u \in Threads, at'[u] \in {"expire", "answer"}
        PROVE  asked'[u] < after
    <3>1. at'[u] = at[u] /\ asked'[u] = asked[u]
      BY <1>4, <2>1, <2>4, OthersStay
    <3>2. asked[u] <= now /\ asked[u] \in Nat
      BY <1>3, <2>4, <3>1 DEF ReadLately, Waiting
    <3> QED
      BY <1>0, <2>2, <3>1, <3>2
  <2> QED
    BY <2>3, <2>4
\* Every other step leaves the promise for k, if it does not withdraw it.
<1>5. ASSUME NEW t \in Threads, Ask(t) \/ Incr(t) \/ Expire(t) \/ Answer(t) \/ FallBack(t) \/ Decide(t),
             after # before
      PROVE  Answer(t) /\ key[t] = k
  <2>1. CASE Incr(t) \/ FallBack(t)
    <3>1. told' = told \/ Withdraw("shared", key[t])
      BY <2>1 DEF Incr, FallBack
    <3> QED
      BY <1>0, <1>3, <1>5, <3>1, ToldIs
  <2>2. CASE Ask(t) \/ Expire(t)
    BY <1>5, <2>2 DEF Ask, Expire, historyVars
  <2>3. CASE Decide(t)
    <3>1. PICK n : n = asked[t]
      OBVIOUS
    <3>2. \/ TurnedAway(key[t]) \/ Refused(key[t], n)
          \/ \E h \in Seq(Nat) : LetIn(key[t], n, h)
      BY <2>3, <3>1, DecideCases
    <3>3. Withdraw("local", key[t]) \/ \E from : Tell("local", key[t], from)
      BY <3>2 DEF TurnedAway, Refused, LetIn
    <3> QED
      BY <1>0, <1>3, <1>5, <3>3, ToldIs DEF Places
  <2>4. CASE Answer(t)
    <3>1. told' = told \/ Tell("shared", key[t], now + Ticks(Rest(t)))
      BY <2>4 DEF Answer
    <3> QED
      BY <1>0, <1>3, <1>5, <2>4, <3>1, ToldIs
  <2> QED
    BY <1>5, <2>1, <2>2, <2>3, <2>4
\* A request that Redis counts now finds others before it, or the promise is withdrawn.
<1>6. ASSUME NEW t \in Threads, Incr(t) \/ FallBack(t), key[t] = k, after = before
      PROVE  Incr(t) /\ counter[k][BucketOf(t)].count > 0
  <2>1. ~Withdraw("shared", k)
    BY <1>0, <1>6, ToldIs
  <2>2. Incr(t) /\ ~(Increment(k, BucketOf(t)).count <= Limit[k])
    BY <1>6, <2>1 DEF Incr, FallBack
  <2>3. PICK b \in Buckets : b = BucketOf(t)
    BY BucketBounds
  <2>4. ~Opens(Increment(k, b))
    <3>1. Limit[k] \in Nat \ {0} /\ Increment(k, b) \in [count : Nat, ends : Nat]
      BY RateAssumption, IncrementIs
    <3> QED
      BY <2>2, <2>3, <3>1 DEF Opens
  <2> QED
    BY <2>2, <2>3, <2>4, IncrementIs
<1>7. CASE after = before
  <2>1. ASSUME NEW b \in Buckets, counter'[k][b].count > 0
        PROVE  (b + 1) * Ticks(Window[k]) <= after
    <3>1. counter[k][b].count > 0
      <4>1. counter'[k][b].count # 0
        BY <2>1
      <4>2. ASSUME NEW t \in Threads, Incr(t) \/ FallBack(t), key[t] = k, BucketOf(t) = b
            PROVE  counter[k][b].count > 0
        BY <1>6, <1>7, <4>2
      <4> QED
        BY <2>1, <4>1, <4>2, CountSteps
    <3> QED
      BY <1>1, <1>7, <3>1
  <2>2. ASSUME NEW u \in Threads, at'[u] \in {"expire", "answer"}, key'[u] = k
        PROVE  asked'[u] < after
    <3>1. CASE at[u] \in {"expire", "answer"} /\ key[u] = k /\ asked'[u] = asked[u]
      BY <1>1, <1>7, <2>2, <3>1
    <3>2. CASE Incr(u)
      <4>1. key[u] = k /\ asked'[u] = asked[u]
        BY <2>2, <3>2 DEF Incr
      <4>2. PICK b \in Buckets : b = BucketOf(u)
        BY BucketBounds
      <4>3. (b + 1) * Ticks(Window[k]) <= before
        BY <1>1, <1>6, <1>7, <3>2, <4>1, <4>2
      <4>4. asked[u] < (b + 1) * Ticks(Window[k]) /\ asked[u] \in Nat
        BY <1>3, <4>1, <4>2, BucketBounds
      <4> QED
        BY <1>0, <1>2, <1>7, <4>1, <4>3, <4>4
    <3>3. ASSUME NEW t \in Threads, t # u,
                 Ask(t) \/ Incr(t) \/ Expire(t) \/ Answer(t) \/ FallBack(t) \/ Decide(t)
          PROVE  at[u] \in {"expire", "answer"} /\ key[u] = k /\ asked'[u] = asked[u]
      BY <2>2, <3>3, OthersStay
    <3>4. CASE Ask(u) \/ Expire(u) \/ Answer(u) \/ FallBack(u) \/ Decide(u)
      <4>1. Expire(u)
        BY <1>3, <2>2, <3>4 DEF Ask, Answer, FallBack, Decide, Ends, Goes
      <4> QED
        BY <2>2, <3>1, <4>1 DEF Expire, Goes
    <3>5. CASE Tick \/ UNCHANGED vars
      BY <2>2, <3>1, <3>5 DEF Tick, vars, threadVars
    <3>6. ~Die
      BY <2>2, DeathLeaves
    <3> QED
      BY <3>1, <3>2, <3>3, <3>4, <3>5, <3>6 DEF Next
  <2> QED
    BY <2>1, <2>2
<1>8. Tick \/ Die \/ UNCHANGED vars => after = before
  BY DEF Tick, Die, vars, historyVars
<1> QED
  BY <1>4, <1>5, <1>7, <1>8 DEF Next

\* The table keeps at most Limit times for a key, none of them to come.
TableOK ==
    /\ IsFiniteSet(DOMAIN history) /\ Cardinality(DOMAIN history) <= MaxKeys
    /\ \A k \in DOMAIN history :
        /\ Len(history[k]) \in 1..Limit[k]
        /\ \A i \in 1..Len(history[k]) : history[k][i] <= now

LEMMA TableAtFirst == Init => TableOK
<1> SUFFICES ASSUME Init
             PROVE  TableOK
  OBVIOUS
<1>1. DOMAIN history = {}
  BY DEF Init, NoHistory
<1>2. IsFiniteSet({}) /\ Cardinality({}) = 0 /\ MaxKeys \in Nat
  BY RateAssumption, FS_EmptySet
<1> QED
  BY <1>1, <1>2 DEF TableOK

\* The numbers of a thread at the table, and what Recent leaves of a key's times.
LEMMA AtTheTable ==
  ASSUME RateTypeOK, ReadLately, TableOK, NEW t \in Threads, Decide(t),
         NEW k, k = key[t], NEW n, n = asked[t]
  PROVE  /\ k \in Keys /\ n \in Nat /\ now \in Nat /\ Lag \in Nat /\ n <= now /\ now <= n + Lag
         /\ Ticks(Window[k]) \in Nat /\ Limit[k] \in Nat \ {0} /\ now' = now
         /\ k \in DOMAIN history =>
                /\ history[k] \in Seq(Nat) /\ Len(history[k]) \in 1..Limit[k]
                /\ \A i \in 1..Len(history[k]) : history[k][i] <= now
                /\ Len(Recent(history[k], n, Ticks(Window[k]))) >= Limit[k] =>
                    /\ Recent(history[k], n, Ticks(Window[k])) = history[k]
                    /\ Len(history[k]) = Limit[k] /\ history[k][1] > n - Ticks(Window[k])
<1>1. /\ k \in Keys /\ n \in 0..MaxTime /\ at[t] = "table" /\ MaxTime \in Nat /\ now \in Nat
  <2>1. at[t] = "table"
    BY DEF Decide, Ends, Goes
  <2> QED
    BY <2>1, BucketBounds, TypesOfParts
<1>2. n \in Nat /\ Lag \in Nat /\ n <= now /\ now <= n + Lag /\ now' = now
  BY <1>1, RateAssumption DEF ReadLately, Waiting, Decide
<1>3. PICK w \in Nat : w = Ticks(Window[k])
  BY <1>1, WindowTicks
<1>4. Limit[k] \in Nat \ {0}
  BY <1>1, WindowTicks
<1>5. ASSUME k \in DOMAIN history
      PROVE  /\ history[k] \in Seq(Nat) /\ Len(history[k]) \in 1..Limit[k]
             /\ \A i \in 1..Len(history[k]) : history[k][i] <= now
  BY <1>5 DEF RateTypeOK, TableOK
<1>6. ASSUME k \in DOMAIN history, Len(Recent(history[k], n, w)) >= Limit[k]
      PROVE  /\ Recent(history[k], n, w) = history[k]
             /\ Len(history[k]) = Limit[k] /\ history[k][1] > n - w
  <2>1. PICK h, r : h \in Seq(Nat) /\ h = history[k] /\ r = Recent(h, n, w)
    BY <1>5, <1>6
  <2>0. n \in Int /\ w \in Int
    BY <1>2, <1>3
  <2>b. PICK d \in 0..Len(h) : Behind(r, h, n, w, d)
    BY <2>0, <2>1, RecentSuffix
  <2>2. /\ r \in Seq(Nat) /\ Len(r) = Len(h) - d
        /\ \A i \in 1..(Len(h) - d) : r[i] = h[d + i]
        /\ d < Len(h) => h[d + 1] > n - w
    BY <2>b DEF Behind
  <2>3. Len(h) \in Nat /\ Len(h) <= Limit[k] /\ Len(r) >= Limit[k]
    BY <1>4, <1>5, <1>6, <2>1
  <2>4. d = 0 /\ Len(h) = Limit[k] /\ Len(r) = Len(h) /\ d < Len(h)
    BY <1>4, <2>2, <2>3
  <2>5. h[1] > n - w
    BY <2>2, <2>4
  <2>6. r = h
    <3>1. ASSUME NEW i \in 1..Len(h)
          PROVE  r[i] = h[i]
      <4>1. i \in 1..(Len(h) - d) /\ d + i = i
        BY <2>3, <2>4
      <4> QED
        BY <2>2, <4>1
    <3>2. r \in [1..Len(h) -> Nat] /\ h \in [1..Len(h) -> Nat]
      BY <2>1, <2>2, <2>4, SMTT(40)
    <3> QED
      BY <3>1, <3>2
  <2> QED
    BY <2>1, <2>4, <2>5, <2>6
<1> QED
  BY <1>1, <1>2, <1>3, <1>4, <1>5, <1>6

\* What a request finds of its key's times.
LEMMA LetInTimes ==
  ASSUME RateTypeOK, NEW k \in Keys, NEW n \in Nat, NEW h \in Seq(Nat),
         h = IF k \in DOMAIN history THEN Recent(history[k], n, Ticks(Window[k])) ELSE <<>>,
         NEW old, old = IF k \in DOMAIN history THEN history[k] ELSE <<>>
  PROVE  /\ old \in Seq(Nat)
         /\ \E d \in 0..Len(old) : Behind(h, old, n, Ticks(Window[k]), d)
<1>1. PICK w \in Nat : w = Ticks(Window[k])
  BY WindowTicks
<1>2. CASE k \in DOMAIN history
  <2>1. old \in Seq(Nat) /\ h = Recent(old, n, w) /\ n \in Int /\ w \in Int
    BY <1>1, <1>2 DEF RateTypeOK
  <2>2. \E d \in 0..Len(old) : Behind(Recent(old, n, w), old, n, w, d)
    BY <2>1, RecentSuffix
  <2> QED
    BY <1>1, <2>1, <2>2
<1>3. CASE k \notin DOMAIN history
  <2>1. old = <<>> /\ h = <<>>
    BY <1>3
  <2>2. Len(old) = 0 /\ old \in Seq(Nat) /\ 0 \in 0..Len(old)
    BY <2>1
  <2>3. Behind(h, old, n, Ticks(Window[k]), 0)
    BY <2>1, <2>2 DEF Behind
  <2> QED
    BY <2>2, <2>3
<1> QED
  BY <1>2, <1>3

LEMMA TableKept == RateTypeOK /\ ReadLately /\ TableOK /\ [Next]_vars => TableOK'
<1> SUFFICES ASSUME RateTypeOK, ReadLately, TableOK, [Next]_vars
             PROVE  TableOK'
  OBVIOUS
<1>1. ASSUME NEW t \in Threads, Decide(t)
      PROVE  TableOK'
  <2>1. PICK k, n : k = key[t] /\ n = asked[t]
    OBVIOUS
  <2>2. /\ DOMAIN history' \subseteq DOMAIN history \cup {k}
        /\ \A j \in DOMAIN history' \ {k} : history'[j] = history[j]
        /\ TurnedAway(k) \/ Refused(k, n) \/ \E h \in Seq(Nat) : LetIn(k, n, h)
    BY <1>1, <2>1, DecideCases
  <2>3. /\ k \in Keys /\ n \in Nat /\ now \in Nat /\ n <= now /\ now' = now
        /\ Limit[k] \in Nat \ {0}
    BY <1>1, <2>1, AtTheTable
  <2>4. IsFiniteSet(DOMAIN history) /\ Cardinality(DOMAIN history) <= MaxKeys /\ MaxKeys \in Nat \ {0}
    BY RateAssumption DEF TableOK
  <2>5. IsFiniteSet(DOMAIN history') /\ Cardinality(DOMAIN history') <= MaxKeys
    <3>1. CASE DOMAIN history' \subseteq DOMAIN history
      <4>1. /\ IsFiniteSet(DOMAIN history')
            /\ Cardinality(DOMAIN history') <= Cardinality(DOMAIN history)
        BY <2>4, <3>1, FS_Subset
      <4>2. Cardinality(DOMAIN history') \in Nat /\ Cardinality(DOMAIN history) \in Nat
        BY <2>4, <4>1, FS_CardinalityType
      <4> QED
        BY <2>4, <4>1, <4>2
    <3>2. CASE ~(DOMAIN history' \subseteq DOMAIN history)
      <4>1. PICK S : S = DOMAIN history' \ {k}
        OBVIOUS
      <4>2. S \subseteq DOMAIN history /\ DOMAIN history' = S \cup {k} /\ k \notin S
            /\ k \notin DOMAIN history
        BY <2>2, <3>2, <4>1
      <4>3. IsFiniteSet(S)
        BY <2>4, <4>2, FS_Subset
      <4>4. Cardinality(S) \in Nat /\ IsFiniteSet(S \cup {k}) /\ Cardinality(S \cup {k}) = Cardinality(S) + 1
        BY <4>2, <4>3, FS_CardinalityType, FS_AddElement
      <4>5. ~Full(S)
        BY <2>2, <4>1, <4>2 DEF TurnedAway, Refused, LetIn
      <4> QED
        BY <2>4, <4>2, <4>4, <4>5 DEF Full
    <3> QED
      BY <3>1, <3>2
  <2>6. ASSUME NEW j \in DOMAIN history'
        PROVE  /\ Len(history'[j]) \in 1..Limit[j]
               /\ \A i \in 1..Len(history'[j]) : history'[j][i] <= now'
    <3>1. CASE j # k
      BY <2>2, <2>3, <2>6, <3>1 DEF TableOK
    <3>2. CASE j = k /\ Refused(k, n)
      <4>1. history'[k] = history[k] /\ k \in DOMAIN history
        BY <1>1, <2>1, <3>2, AtTheTable DEF Refused
      <4> QED
        BY <2>3, <3>2, <4>1 DEF TableOK
    <3>3. ASSUME NEW h \in Seq(Nat), LetIn(k, n, h), j = k
          PROVE  /\ Len(history'[j]) \in 1..Limit[j]
                 /\ \A i \in 1..Len(history'[j]) : history'[j][i] <= now'
      <4>1. PICK old : old = IF k \in DOMAIN history THEN history[k] ELSE <<>>
        OBVIOUS
      <4>2. PICK d \in 0..Len(old) : old \in Seq(Nat) /\ Behind(h, old, n, Ticks(Window[k]), d)
        <5>1. /\ h = IF k \in DOMAIN history THEN Recent(history[k], n, Ticks(Window[k])) ELSE <<>>
              /\ k \in Keys /\ n \in Nat
          BY <2>3, <3>3 DEF LetIn
        <5> QED
          BY <4>1, <5>1, LetInTimes
      <4>3. \A i \in 1..Len(old) : old[i] <= now
        <5>1. CASE k \in DOMAIN history
          BY <4>1, <5>1 DEF TableOK
        <5>2. CASE k \notin DOMAIN history
          BY <4>1, <5>2
        <5> QED
          BY <5>1, <5>2
      <4>4. ASSUME NEW i \in 1..Len(h)
            PROVE  h[i] <= now
        <5>1. i \in 1..(Len(old) - d) /\ d + i \in 1..Len(old) /\ h[i] = old[d + i]
          BY <4>2 DEF Behind
        <5> QED
          BY <4>3, <5>1
      <4>5. history'[k] = Append(h, n) /\ Len(h) < Limit[k]
        BY <3>3 DEF LetIn
      <4>6. Len(Append(h, n)) \in 1..Limit[k]
        BY <2>3, <4>5
      <4>7. \A i \in 1..Len(Append(h, n)) : Append(h, n)[i] <= now
        BY <2>3, <4>4
      <4> QED
        BY <2>3, <3>3, <4>5, <4>6, <4>7
    <3>4. CASE j = k /\ TurnedAway(k)
      BY <2>6, <3>4 DEF TurnedAway
    <3> QED
      BY <2>2, <3>1, <3>2, <3>3, <3>4
  <2> QED
    BY <2>5, <2>6 DEF TableOK
<1>2. CASE history' = history
  <2>1. now \in Nat /\ now' \in Nat /\ now <= now'
    <3>1. now \in Nat
      BY TypesOfParts
    <3> QED
      BY <3>1, NowGrows
  <2>2. ASSUME NEW k \in DOMAIN history
        PROVE  /\ Len(history[k]) \in 1..Limit[k]
               /\ \A i \in 1..Len(history[k]) : history[k][i] <= now'
    <3>1. /\ history[k] \in Seq(Nat) /\ Len(history[k]) \in 1..Limit[k]
          /\ \A i \in 1..Len(history[k]) : history[k][i] <= now
      BY DEF TableOK, RateTypeOK
    <3>2. \A i \in 1..Len(history[k]) : history[k][i] \in Nat
      BY <3>1
    <3> QED
      BY <2>1, <3>1, <3>2
  <2> QED
    BY <1>2, <2>2 DEF TableOK
<1>3. ASSUME NEW t \in Threads, Ask(t) \/ Incr(t) \/ Expire(t) \/ Answer(t) \/ FallBack(t)
      PROVE  history' = history
  BY <1>3 DEF Ask, Incr, Expire, Answer, FallBack
<1>4. Tick \/ UNCHANGED vars => history' = history
  BY DEF Tick, vars
<1>5. CASE Die
  <2>1. DOMAIN history' = {}
    BY <1>5, DeathLeaves
  <2>2. IsFiniteSet({}) /\ Cardinality({}) = 0 /\ 0 <= MaxKeys
    BY RateAssumption, FS_EmptySet
  <2> QED
    BY <2>1, <2>2 DEF TableOK
<1> QED
  BY <1>1, <1>2, <1>3, <1>4, <1>5 DEF Next

\* Where the table has told a client to come back, that many stand in the
\* way, the first of them until then.
LocalPromise ==
    \A k \in Keys : told["local"][k] # Never /\ k \in DOMAIN history =>
        /\ Len(history[k]) = Limit[k]
        /\ history[k][1] + Ticks(Window[k]) < told["local"][k]

LEMMA LocalAtFirst == Init => LocalPromise
<1> SUFFICES ASSUME Init, NEW k \in Keys
             PROVE  told["local"][k] = Never
  BY DEF LocalPromise
<1> QED
  BY DEF Init, Places

LEMMA LocalKept ==
  ASSUME RateTypeOK, ReadLately, TableOK, LocalPromise, [Next]_vars
  PROVE  LocalPromise'
<1> SUFFICES ASSUME NEW k \in Keys, told'["local"][k] # Never, k \in DOMAIN history'
             PROVE  /\ Len(history'[k]) = Limit[k]
                    /\ history'[k][1] + Ticks(Window[k]) < told'["local"][k]
  BY DEF LocalPromise
<1>0. "local" \in Places /\ "shared" \in Places /\ told["local"][k] \in Nat /\ key \in [Threads -> Keys]
  <2>1. "local" \in Places /\ "shared" \in Places
    BY DEF Places
  <2> QED
    BY <2>1, ToldIs DEF RateTypeOK
<1>1. ASSUME told'["local"][k] = told["local"][k], k \in DOMAIN history, history'[k] = history[k]
      PROVE  /\ Len(history'[k]) = Limit[k]
             /\ history'[k][1] + Ticks(Window[k]) < told'["local"][k]
  BY <1>1 DEF LocalPromise
<1>2. ASSUME NEW t \in Threads, Decide(t)
      PROVE  /\ Len(history'[k]) = Limit[k]
             /\ history'[k][1] + Ticks(Window[k]) < told'["local"][k]
  <2>1. PICK j, n : j = key[t] /\ n = asked[t]
    OBVIOUS
  <2>2. /\ DOMAIN history' \subseteq DOMAIN history \cup {j} /\ j \in Keys
        /\ \A i \in DOMAIN history' \ {j} : history'[i] = history[i]
        /\ TurnedAway(j) \/ Refused(j, n) \/ \E h \in Seq(Nat) : LetIn(j, n, h)
    BY <1>2, <2>1, DecideCases
  <2>3. CASE k # j
    <3>1. Withdraw("local", j) \/ \E from : Tell("local", j, from)
      BY <2>2 DEF TurnedAway, Refused, LetIn
    <3>2. told'["local"][k] = told["local"][k]
      BY <1>0, <2>2, <2>3, <3>1, ToldIs
    <3> QED
      BY <1>1, <2>2, <2>3, <3>2
  <2>4. CASE k = j
    <3>1. Refused(k, n)
      BY <1>0, <2>2, <2>4, ToldIs DEF TurnedAway, LetIn
    <3>2. PICK h : h = history[k]
      OBVIOUS
    <3>3. PICK w \in Nat, x \in Nat \ {0} :
            /\ w = Ticks(Window[k]) /\ x = Limit[k] /\ n \in Nat /\ now \in Nat /\ n <= now
      BY <1>2, <2>1, <2>4, AtTheTable
    <3>4. /\ k \in DOMAIN history /\ h \in Seq(Nat) /\ history'[k] = h
          /\ Len(h) = x /\ h[1] > n - w
      BY <1>2, <2>1, <2>4, <3>1, <3>2, <3>3, AtTheTable, SMTT(40) DEF Refused
    <3>5. PICK r \in Nat \ {0} : r = Ticks(RetrySeconds(h, n, w)) /\ h[1] + w < n + r
      BY <3>3, <3>4, RetryTicks
    <3>6. Tell("local", k, now + r)
      BY <3>1, <3>3, <3>4, <3>5 DEF Refused
    <3>7. told'["local"][k] = now + r \/ told'["local"][k] = told["local"][k]
      BY <1>0, <3>6, ToldIs
    <3>8. h[1] \in Nat
      BY <3>3, <3>4
    <3>9. CASE told'["local"][k] = now + r
      <4>1. h[1] + w < now + r
        BY <3>3, <3>5, <3>8
      <4> QED
        BY <3>3, <3>4, <3>9, <4>1
    <3> QED
      BY <1>1, <3>2, <3>4, <3>7, <3>9
  <2> QED
    BY <2>3, <2>4
<1>3. ASSUME NEW t \in Threads, Ask(t) \/ Incr(t) \/ Expire(t) \/ Answer(t) \/ FallBack(t)
      PROVE  history' = history /\ told'["local"][k] = told["local"][k]
  <2>1. history' = history
    BY <1>3 DEF Ask, Incr, Expire, Answer, FallBack
  <2>2. told' = told \/ Withdraw("shared", key[t]) \/ Tell("shared", key[t], now + Ticks(Rest(t)))
    BY <1>3 DEF Ask, Incr, Expire, Answer, FallBack, historyVars
  <2> QED
    BY <1>0, <2>1, <2>2, ToldIs
<1>4. Tick \/ UNCHANGED vars => history' = history /\ told' = told
  BY DEF Tick, vars, historyVars
<1>5. ~Die
  BY DeathLeaves
<1> QED
  BY <1>1, <1>2, <1>3, <1>4, <1>5 DEF Next

\* A client that comes back after the Retry-After it was told finds the times
\* that refused it out of its window, in Redis and in the table
\* (main.py:94, 112).
THEOREM RetryAfterIsHonoured == Spec => RetryAfterIsKept
<1> DEFINE Inv == /\ RateTypeOK /\ EndsAreComing /\ ReadLately /\ CountedLately
                  /\ SharedPromise /\ TableOK /\ LocalPromise
           Honoured == \A i \in Places, k \in Keys :
                ~Die /\ told[i][k] # Never /\ told'[i][k] # Never =>
                    \A t \in Threads :
                        at[t] = (IF i = "shared" THEN "answer" ELSE "table") /\ at'[t] = "idle"
                            /\ key[t] = k => asked[t] < told[i][k]
<1>1. Init => Inv
  BY TypesAtFirst, EndsComeAtFirst, ReadLatelyAtFirst, CountedAtFirst, SharedAtFirst,
     TableAtFirst, LocalAtFirst
<1>2. Inv /\ [Next]_vars => Inv'
  BY TypesKept, EndsKeepComing, ReadLatelyKept, CountedKept, SharedKept, TableKept, LocalKept
<1>3. Inv /\ [Next]_vars => [Honoured]_vars
  <2> SUFFICES ASSUME Inv, [Next]_vars, ~Die, NEW i \in Places, NEW k \in Keys, NEW t \in Threads,
                      told[i][k] # Never, told'[i][k] # Never,
                      at[t] = IF i = "shared" THEN "answer" ELSE "table",
                      at'[t] = "idle", key[t] = k
               PROVE  asked[t] < told[i][k]
    OBVIOUS
  <2>1. CASE i = "shared"
    BY <2>1 DEF SharedPromise
  <2>2. CASE i = "local"
    <3>1. at[t] = "table"
      BY <2>2
    <3>2. Decide(t)
      <4>1. ASSUME NEW u \in Threads, u # t,
                   Ask(u) \/ Incr(u) \/ Expire(u) \/ Answer(u) \/ FallBack(u) \/ Decide(u)
            PROVE  FALSE
        BY <3>1, <4>1, OthersStay
      <4>2. ~(Ask(t) \/ Incr(t) \/ Expire(t) \/ Answer(t) \/ FallBack(t))
        BY <3>1 DEF Ask, Incr, Expire, Answer, FallBack, Ends, Goes
      <4>3. ~(Tick \/ UNCHANGED vars)
        BY <3>1 DEF Tick, vars, threadVars
      <4> QED
        BY <4>1, <4>2, <4>3 DEF Next
    <3>3. PICK n : n = asked[t]
      OBVIOUS
    <3>4. "local" \in Places /\ told["local"][k] \in Nat
      BY <2>2, ToldIs
    <3>5. Refused(k, n)
      <4>1. TurnedAway(k) \/ Refused(k, n) \/ \E h \in Seq(Nat) : LetIn(k, n, h)
        BY <3>2, <3>3, DecideCases
      <4> QED
        BY <2>2, <3>4, <4>1, ToldIs DEF TurnedAway, LetIn
    <3>6. PICK w \in Nat, h \in Seq(Nat) :
            /\ w = Ticks(Window[k]) /\ h = history[k] /\ k \in DOMAIN history
            /\ n \in Nat /\ Len(h) > 0 /\ h[1] > n - w
      <4>1. n \in Nat /\ Ticks(Window[k]) \in Nat /\ Limit[k] \in Nat \ {0}
        BY <3>2, <3>3, AtTheTable
      <4>2. /\ k \in DOMAIN history /\ history[k] \in Seq(Nat) /\ Len(history[k]) = Limit[k]
            /\ history[k][1] > n - Ticks(Window[k])
        BY <3>2, <3>3, <3>5, AtTheTable DEF Refused
      <4> QED
        BY <4>1, <4>2
    <3>7. h[1] + w < told["local"][k]
      BY <2>2, <3>6 DEF LocalPromise
    <3>8. h[1] \in Nat
      BY <3>6
    <3> QED
      BY <2>2, <3>3, <3>4, <3>6, <3>7, <3>8
  <2> QED
    BY <2>1, <2>2 DEF Places
<1> QED
  BY <1>1, <1>2, <1>3, PTL DEF Spec, RetryAfterIsKept

-----------------------------------------------------------------------------
(* The table lets a key through as often as its limit says.                *)

\* The times h in the table are those of the last requests g let through until x,
\* read up to Lag before; those before them are a window w ago; and one more than
\* the limit m takes a window.
Spaced(g, h, x, w, m) ==
    /\ Len(h) <= Len(g) /\ Len(g) <= m + 1
    /\ \A i, j \in 1..Len(g) : i <= j => g[i] <= g[j]
    /\ \A i \in 1..Len(g) : g[i] <= x
    /\ \A i \in 1..(Len(g) - Len(h)) : g[i] + w <= x + Lag
    /\ \A i \in 1..Len(h) : g[Len(g) - Len(h) + i] <= h[i] + Lag
    /\ Len(g) = m + 1 => g[Len(g)] - g[1] >= w - Lag

Times(k) == IF k \in DOMAIN history THEN history[k] ELSE <<>>

TimesAreGrants ==
    \A k \in Keys : Spaced(grants[k], Times(k), now, Ticks(Window[k]), Limit[k])

\* Kept folded where the arithmetic is: the provers mix the two up.
Numbers(g) == g \in Seq(Nat)

\* Time passes.
LEMMA SpacedLater ==
  ASSUME NEW g, NEW h, Numbers(g), Numbers(h), NEW x \in Nat, NEW y \in Nat, x <= y,
         NEW w \in Nat, NEW m \in Nat, Spaced(g, h, x, w, m), Lag \in Nat
  PROVE  Spaced(g, h, y, w, m)
<1>0. \A i \in 1..Len(g) : g[i] \in Nat
  BY DEF Numbers
<1>l. Len(g) \in Nat /\ Len(h) \in Nat
  BY DEF Numbers
<1>1. ASSUME NEW i \in 1..Len(g)
      PROVE  g[i] <= y
  <2>1. g[i] \in Nat /\ g[i] <= x
    BY <1>0 DEF Spaced
  <2> QED
    BY <2>1
<1>2. ASSUME NEW i \in 1..(Len(g) - Len(h))
      PROVE  g[i] + w <= y + Lag
  <2>1. i \in 1..Len(g)
    BY <1>l
  <2>2. g[i] \in Nat /\ g[i] + w <= x + Lag
    BY <1>0, <2>1 DEF Spaced
  <2> QED
    BY <2>2
<1> QED
  BY <1>1, <1>2 DEF Spaced

\* A key is dropped whose last time is a window ago.
LEMMA SpacedDropped ==
  ASSUME NEW g, NEW h, Numbers(g), Numbers(h), NEW x \in Nat, NEW n \in Nat, n <= x,
         NEW w \in Nat, NEW m \in Nat, Spaced(g, h, x, w, m), Lag \in Nat,
         Len(h) > 0, h[Len(h)] <= n - w
  PROVE  Spaced(g, <<>>, x, w, m)
<1>0. /\ \A i \in 1..Len(g) : g[i] \in Nat
      /\ \A i \in 1..Len(h) : h[i] \in Nat
  BY SMTT(40) DEF Numbers
<1>1. Len(g) \in Nat /\ Len(h) \in Nat /\ Len(<<>>) = 0 /\ Len(h) <= Len(g)
  BY DEF Spaced, Numbers
<1>2. g[Len(g)] <= h[Len(h)] + Lag
  <2>1. Len(h) \in 1..Len(h) /\ Len(g) - Len(h) + Len(h) = Len(g)
    BY <1>1
  <2> QED
    BY <2>1 DEF Spaced
<1>3. ASSUME NEW i \in 1..Len(g)
      PROVE  g[i] + w <= x + Lag
  <2>1. Len(g) \in 1..Len(g) /\ i <= Len(g)
    BY <1>1
  <2>2. g[i] <= g[Len(g)]
    BY <2>1 DEF Spaced
  <2>3. g[i] \in Nat /\ g[Len(g)] \in Nat
    BY <1>0, <2>1
  <2>4. h[Len(h)] \in Nat
    BY <1>0, <1>1
  <2> QED
    BY <1>2, <2>2, <2>3, <2>4, SMTT(40)
<1>4. 1..(Len(g) - Len(<<>>)) = 1..Len(g) /\ 1..Len(<<>>) = {}
  BY <1>1
<1> QED
  BY <1>1, <1>3, <1>4 DEF Spaced

\* A request is let through whose key had the times h, r of them in the window.
LEMMA SpacedNext ==
  ASSUME NEW g, NEW h, NEW r, Numbers(g), Numbers(h), Numbers(r), NEW d \in Nat, d <= Len(h),
         NEW x \in Nat, NEW n \in Nat, n <= x, x <= n + Lag, Lag \in Nat,
         NEW w \in Nat, NEW m \in Nat \ {0}, Spaced(g, h, x, w, m), Behind(r, h, n, w, d),
         Len(r) < m
  PROVE  Spaced(LastOnes(g, x, m), Append(r, n), x, w, m)
<1>1. PICK f, all, q : f = LastOnes(g, x, m) /\ all = Append(g, x) /\ q = Append(r, n)
  OBVIOUS
<1>2. PICK l \in Nat, gone \in Nat, c \in Nat :
        l = Len(h) /\ Len(g) = gone + l /\ c = Len(r) /\ l = c + d /\ gone + l <= m + 1
  <2>1. Len(h) \in Nat /\ Len(g) \in Nat /\ Len(h) <= Len(g) /\ Len(g) <= m + 1
    BY DEF Spaced, Numbers
  <2>2. Len(g) - Len(h) \in Nat /\ Len(g) = (Len(g) - Len(h)) + Len(h)
    BY <2>1
  <2>3. Len(r) \in Nat /\ Len(h) = Len(r) + d
    BY <2>1 DEF Behind, Numbers
  <2> QED
    BY <2>1, <2>2, <2>3
<1>3. /\ \A i, j \in 1..(gone + l) : i <= j => g[i] <= g[j]
      /\ \A i \in 1..(gone + l) : g[i] <= x /\ g[i] \in Nat
      /\ \A i \in 1..gone : g[i] + w <= x + Lag
      /\ \A i \in 1..l : g[gone + i] <= h[i] + Lag /\ h[i] \in Nat
  <2>1. Len(g) - Len(h) = gone
    BY <1>2
  <2>2. \A i \in 1..(gone + l) : g[i] \in Nat
    BY <1>2, SMTT(40) DEF Numbers
  <2>3. \A i \in 1..l : h[i] \in Nat
    <3>1. \A i \in 1..Len(h) : h[i] \in Nat
      BY DEF Numbers
    <3> QED
      BY <1>2, <3>1
  <2> QED
    BY <1>2, <2>1, <2>2, <2>3 DEF Spaced
<1>4. /\ \A i \in 1..c : r[i] = h[d + i]
      /\ \A i \in 1..d : h[i] <= n - w
  <2>1. Len(h) - d = c
    BY <1>2
  <2> QED
    BY <2>1 DEF Behind
<1>5. /\ Len(q) = c + 1 /\ q[c + 1] = n /\ \A i \in 1..c : q[i] = r[i]
  BY <1>1, <1>2 DEF Numbers
<1>6. /\ \A i \in 1..(gone + l) : all[i] = g[i]
      /\ all[gone + l + 1] = x
  BY <1>1, <1>2, SMTT(40) DEF Numbers
<1>7. PICK e \in 0..1 : /\ Len(f) \in Nat /\ Len(f) <= m + 1 /\ Len(f) + e = gone + l + 1
                        /\ e = 1 => gone + l = m + 1
                        /\ \A i \in 1..Len(f) : f[i] = all[i + e]
  <2>1. PICK T : T = Nat
    OBVIOUS
  <2>2. g \in Seq(T) /\ x \in T /\ m \in Nat /\ Len(g) <= m + 1
    BY <1>2, <2>1 DEF Numbers
  <2>3. f \in Seq(T) /\ Len(f) <= m + 1
    BY <1>1, <2>2, LastOnesAre
  <2>4. PICK e \in 0..1 : Without(LastOnes(g, x, m), Append(g, x), Len(g), m, e)
    BY <2>2, LastOnesAre
  <2>5. Without(f, all, Len(g), m, e)
    BY <1>1, <2>4
  <2>6. /\ Len(f) + e = Len(g) + 1 /\ (e = 1 => Len(g) = m + 1)
        /\ \A i \in 1..Len(f) : f[i] = all[i + e]
    BY <2>5 DEF Without
  <2>7. Len(f) \in Nat
    BY <2>3
  <2>8. Len(g) = gone + l
    BY <1>2
  <2>9. Len(f) + e = gone + l + 1 /\ (e = 1 => gone + l = m + 1)
    BY <2>6, <2>8
  <2> QED
    BY <2>3, <2>6, <2>7, <2>9
<1>8. PICK u \in Nat : u = gone + d - e /\ Len(f) = u + c + 1 /\ u + e = gone + d
  <2>1. Len(f) \in Nat
    BY <1>7
  <2>2. e = 1 => gone + d >= 1
    BY <1>2, <1>7, SMTT(40)
  <2>3. gone + d - e \in Nat
    BY <1>2, <2>2
  <2> QED
    BY <1>2, <1>7, <2>1, <2>3
\* Where the times of f come from.
<1>i. ASSUME NEW i \in 1..Len(f)
      PROVE  \/ i + e \in 1..(gone + l) /\ f[i] = g[i + e]
             \/ i + e = gone + l + 1 /\ f[i] = x
  <2>1. i \in Nat /\ i >= 1 /\ i <= Len(f)
    BY <1>7
  <2>2. i + e \in 1..(gone + l) \/ i + e = gone + l + 1
    BY <1>7, <2>1
  <2>3. f[i] = all[i + e]
    BY <1>7
  <2> QED
    BY <1>6, <2>2, <2>3
<1>9. \A i, j \in 1..Len(f) : i <= j => f[i] <= f[j]
  <2> SUFFICES ASSUME NEW i \in 1..Len(f), NEW j \in 1..Len(f), i <= j
               PROVE  f[i] <= f[j]
    OBVIOUS
  <2>1. i \in Nat /\ j \in Nat /\ i + e <= j + e
    BY <1>7
  <2>2. CASE j + e = gone + l + 1 /\ f[j] = x
    <3>1. CASE i + e \in 1..(gone + l) /\ f[i] = g[i + e]
      BY <1>3, <2>2, <3>1
    <3>2. CASE i + e = gone + l + 1 /\ f[i] = x
      BY <2>2, <3>2
    <3> QED
      BY <1>i, <3>1, <3>2
  <2>3. CASE j + e \in 1..(gone + l) /\ f[j] = g[j + e]
    <3>1. i + e # gone + l + 1
      BY <2>1, <2>3, SMTT(40)
    <3>2. i + e \in 1..(gone + l) /\ f[i] = g[i + e]
      BY <1>i, <3>1
    <3> QED
      BY <1>3, <2>1, <2>3, <3>2
  <2> QED
    BY <1>i, <2>2, <2>3
<1>10. \A i \in 1..Len(f) : f[i] <= x
  BY <1>i, <1>3, SMTT(40)
<1>11. \A i \in 1..u : f[i] + w <= x + Lag
  <2> SUFFICES ASSUME NEW i \in 1..u
               PROVE  f[i] + w <= x + Lag
    OBVIOUS
  <2>1. i \in 1..Len(f) /\ i + e \in 1..(gone + d) /\ i + e \in 1..(gone + l)
    BY <1>2, <1>8
  <2>2. f[i] = g[i + e] /\ g[i + e] \in Nat
    <3>1. i + e # gone + l + 1
      BY <2>1
    <3> QED
      BY <1>3, <1>i, <2>1, <3>1
  <2>3. CASE i + e <= gone
    <3>1. i + e \in 1..gone
      BY <2>1, <2>3
    <3> QED
      BY <1>3, <2>2, <3>1
  <2>4. CASE ~(i + e <= gone)
    <3>1. PICK j \in 1..d : gone + j = i + e
      <4>1. i + e - gone \in 1..d /\ gone + (i + e - gone) = i + e
        BY <2>1, <2>4
      <4> QED
        BY <4>1
    <3>2. j \in 1..l
      BY <1>2
    <3>3. g[gone + j] <= h[j] + Lag /\ h[j] <= n - w /\ h[j] \in Nat
      BY <1>3, <1>4, <3>2
    <3>4. g[gone + j] = f[i]
      BY <2>2, <3>1
    <3>5. f[i] \in Nat /\ h[j] \in Nat /\ f[i] <= h[j] + Lag /\ h[j] <= n - w
      BY <2>2, <3>3, <3>4
    <3>6. ASSUME NEW a \in Nat, NEW b \in Nat, a <= b + Lag, b <= n - w
          PROVE  a + w <= x + Lag
      BY <3>6
    <3> QED
      BY <3>5, <3>6
  <2> QED
    BY <2>3, <2>4
<1>12. \A i \in 1..(c + 1) : f[u + i] <= q[i] + Lag
  <2> SUFFICES ASSUME NEW i \in 1..(c + 1)
               PROVE  f[u + i] <= q[i] + Lag
    OBVIOUS
  <2>1. u + i \in 1..Len(f) /\ (u + i) + e = gone + (d + i)
    BY <1>2, <1>8
  <2>2. f[u + i] = all[gone + (d + i)]
    BY <1>7, <2>1
  <2>3. CASE i = c + 1
    <3>1. gone + (d + i) = gone + l + 1
      BY <1>2, <2>3
    <3> QED
      BY <1>5, <1>6, <2>2, <2>3, <3>1
  <2>4. CASE i # c + 1
    <3>1. i \in 1..c /\ d + i \in 1..l /\ gone + (d + i) \in 1..(gone + l)
      BY <1>2, <2>4
    <3>2. q[i] = h[d + i]
      BY <1>4, <1>5, <3>1
    <3>3. all[gone + (d + i)] = g[gone + (d + i)]
      BY <1>6, <3>1
    <3>4. g[gone + (d + i)] <= h[d + i] + Lag
      BY <1>3, <3>1
    <3> QED
      BY <2>2, <3>2, <3>3, <3>4
  <2> QED
    BY <2>3, <2>4
<1>13. Len(f) = m + 1 => f[Len(f)] - f[1] >= w - Lag
  <2> SUFFICES ASSUME Len(f) = m + 1
               PROVE  f[Len(f)] - f[1] >= w - Lag
    OBVIOUS
  <2>1. 1 \in 1..u /\ Len(f) \in 1..Len(f) /\ 1 \in 1..Len(f)
    BY <1>2, <1>8
  <2>2. f[1] + w <= x + Lag
    BY <1>11, <2>1
  <2>3. f[Len(f)] = x
    <3>1. f[Len(f)] = all[Len(f) + e] /\ Len(f) + e = gone + l + 1
      BY <1>7, <2>1
    <3> QED
      BY <1>6, <3>1
  <2>4. f[1] \in Nat
    <3>1. f[1] = all[1 + e] /\ 1 + e \in 1..(gone + l)
      BY <1>2, <1>7, <1>8, <2>1
    <3> QED
      BY <1>3, <1>6, <3>1
  <2> QED
    BY <2>2, <2>3, <2>4
<1>14. Len(f) - Len(q) = u /\ Len(q) <= Len(f) /\ Len(q) = c + 1
  BY <1>5, <1>8
<1>15. Spaced(f, q, x, w, m)
  BY <1>7, <1>9, <1>10, <1>11, <1>12, <1>13, <1>14 DEF Spaced
<1> QED
  BY <1>1, <1>15

LEMMA GrantsAtFirst == Init => TimesAreGrants
<1> SUFFICES ASSUME Init, NEW k \in Keys
             PROVE  Spaced(grants[k], Times(k), now, Ticks(Window[k]), Limit[k])
  BY DEF TimesAreGrants
<1>1. grants[k] = <<>> /\ Times(k) = <<>> /\ Len(<<>>) = 0 /\ Limit[k] \in Nat
  BY RateAssumption DEF Init, NoHistory, Times
<1>2. 1..Len(<<>>) = {} /\ 1..(Len(<<>>) - Len(<<>>)) = {} /\ Len(<<>>) # Limit[k] + 1
  BY <1>1
<1> QED
  BY <1>1, <1>2 DEF Spaced

LEMMA GrantsKept ==
  ASSUME RateTypeOK, ReadLately, TableOK, TimesAreGrants, [Next]_vars
  PROVE  TimesAreGrants'
<1> SUFFICES ASSUME NEW k \in Keys
             PROVE  Spaced(grants'[k], Times(k)', now', Ticks(Window[k]), Limit[k])
  BY DEF TimesAreGrants
<1> PICK g, h : g = grants[k] /\ h = Times(k)
  OBVIOUS
<1>0. Ticks(Window[k]) \in Nat /\ Limit[k] \in Nat \ {0}
  BY WindowTicks
<1>1. PICK w \in Nat, m \in Nat \ {0} :
        /\ g = grants[k] /\ h = Times(k) /\ w = Ticks(Window[k]) /\ m = Limit[k]
        /\ Spaced(g, h, now, w, m)
  BY <1>0 DEF TimesAreGrants
<1>2. Numbers(g) /\ Numbers(h) /\ now \in Nat /\ now' \in Nat /\ now <= now' /\ Lag \in Nat
  <2>1. MaxTime \in Nat /\ now \in Nat
    BY TypesOfParts
  <2>2. grants[k] \in Seq(0..MaxTime)
    BY DEF RateTypeOK
  <2>3. grants[k] \in Seq(Nat)
    <3>1. 0..MaxTime \subseteq Nat
      BY <2>1
    <3> QED
      BY <2>2, <3>1, SeqMonotonic
  <2>4. h \in Seq(Nat)
    <3>1. <<>> \in Seq(Nat)
      OBVIOUS
    <3> QED
      BY <1>1, <3>1 DEF Times, RateTypeOK
  <2> QED
    BY <1>1, <2>1, <2>3, <2>4, NowGrows, RateAssumption DEF Numbers
<1>3. CASE history' = history /\ grants' = grants
  <2>1. Times(k)' = h /\ grants'[k] = g
    BY <1>1, <1>3 DEF Times
  <2> QED
    BY <1>1, <1>2, <2>1, SpacedLater
<1>4. ASSUME NEW t \in Threads, Decide(t)
      PROVE  Spaced(grants'[k], Times(k)', now', Ticks(Window[k]), Limit[k])
  <2>1. PICK j, n : j = key[t] /\ n = asked[t]
    OBVIOUS
  <2>2. /\ DOMAIN history' \subseteq DOMAIN history \cup {j} /\ j \in Keys
        /\ \A i \in DOMAIN history' \ {j} : history'[i] = history[i]
        /\ \A i \in DOMAIN history \ DOMAIN history' :
                i # j /\ history[i][Len(history[i])] <= n - Ticks(StaleAfter)
        /\ TurnedAway(j) \/ Refused(j, n) \/ \E r \in Seq(Nat) : LetIn(j, n, r)
    BY <1>4, <2>1, DecideCases
  <2>3. n \in Nat /\ n <= now /\ now <= n + Lag /\ now' = now
    BY <1>4, <2>1, AtTheTable
  <2>4. CASE k # j
    <3>1. grants'[k] = g
      <4>1. grants' = grants \/ \E new : grants' = [grants EXCEPT ![j] = new]
        BY <2>2 DEF TurnedAway, Refused, LetIn
      <4> QED
        BY <1>1, <2>4, <4>1 DEF RateTypeOK
    <3>2. CASE k \in DOMAIN history'
      <4>1. Times(k)' = h
        BY <1>1, <2>2, <2>4, <3>2 DEF Times
      <4> QED
        BY <1>1, <2>3, <3>1, <4>1
    <3>3. CASE k \notin DOMAIN history'
      <4>1. Times(k)' = <<>>
        BY <3>3 DEF Times
      <4>2. CASE k \in DOMAIN history
        <5>1. h = history[k]
          BY <1>1, <4>2 DEF Times
        <5>2. Len(h) > 0 /\ h[Len(h)] <= n - Ticks(StaleAfter)
          BY <2>2, <3>3, <4>2, <5>1 DEF TableOK
        <5>3. h[Len(h)] \in Nat
          BY <1>2, <5>2 DEF Numbers
        <5>4. w <= Ticks(StaleAfter) /\ Ticks(StaleAfter) \in Nat
          BY <1>1, WindowTicks
        <5>5. h[Len(h)] <= n - w
          BY <2>3, <5>2, <5>3, <5>4
        <5>6. Spaced(g, <<>>, now, w, m)
          BY <1>1, <1>2, <2>3, <5>2, <5>5, SpacedDropped
        <5> QED
          BY <1>1, <2>3, <3>1, <4>1, <5>6
      <4>3. CASE k \notin DOMAIN history
        <5>1. h = <<>>
          BY <1>1, <4>3 DEF Times
        <5> QED
          BY <1>1, <2>3, <3>1, <4>1, <5>1
      <4> QED
        BY <4>2, <4>3
    <3> QED
      BY <3>2, <3>3
  <2>5. CASE k = j /\ TurnedAway(k)
    <3>1. Times(k)' = h /\ grants'[k] = g
      BY <1>1, <2>5 DEF TurnedAway, Times
    <3> QED
      BY <1>1, <2>3, <3>1
  <2>6. CASE k = j /\ Refused(k, n)
    <3>1. history'[k] = history[k] /\ k \in DOMAIN history /\ k \in DOMAIN history'
      BY <1>4, <2>1, <2>6, AtTheTable DEF Refused
    <3>2. Times(k)' = h /\ grants'[k] = g
      BY <1>1, <2>6, <3>1 DEF Refused, Times
    <3> QED
      BY <1>1, <2>3, <3>2
  <2>7. ASSUME NEW r \in Seq(Nat), k = j, LetIn(k, n, r)
        PROVE  Spaced(grants'[k], Times(k)', now', Ticks(Window[k]), Limit[k])
    <3>1. /\ r = IF k \in DOMAIN history THEN Recent(history[k], n, Ticks(Window[k])) ELSE <<>>
          /\ Len(r) < m /\ k \in DOMAIN history' /\ history'[k] = Append(r, n)
          /\ grants' = [grants EXCEPT ![k] = LastOnes(grants[k], now, Limit[k])]
      BY <1>1, <2>7 DEF LetIn
    <3>2. PICK d \in 0..Len(h) : Behind(r, h, n, w, d)
      <4>1. h = IF k \in DOMAIN history THEN history[k] ELSE <<>>
        BY <1>1 DEF Times
      <4> QED
        BY <1>1, <2>3, <3>1, <4>1, LetInTimes
    <3>3. d \in Nat /\ d <= Len(h)
      BY <1>2 DEF Numbers
    <3>4. Numbers(r)
      BY DEF Numbers
    <3>5. Spaced(LastOnes(g, now, m), Append(r, n), now, w, m)
      BY <1>1, <1>2, <2>3, <3>1, <3>2, <3>3, <3>4, SpacedNext
    <3>6. Times(k)' = Append(r, n)
      BY <3>1 DEF Times
    <3>7. grants'[k] = LastOnes(g, now, m)
      BY <1>1, <3>1 DEF RateTypeOK
    <3> QED
      BY <1>1, <2>3, <3>5, <3>6, <3>7
  <2> QED
    BY <2>2, <2>4, <2>5, <2>6, <2>7
<1>5. ASSUME NEW t \in Threads, Ask(t) \/ Incr(t) \/ Expire(t) \/ Answer(t) \/ FallBack(t)
      PROVE  history' = history /\ grants' = grants
  BY <1>5 DEF Ask, Incr, Expire, Answer, FallBack, historyVars
<1>6. Tick \/ UNCHANGED vars => history' = history /\ grants' = grants
  BY DEF Tick, vars, historyVars
<1>7. CASE Die
  <2>1. grants'[k] = <<>> /\ Times(k)' = <<>>
    BY <1>7, DeathLeaves DEF Times
  <2>2. Len(<<>>) = 0 /\ 1..Len(<<>>) = {} /\ 1..(Len(<<>>) - Len(<<>>)) = {}
        /\ Len(<<>>) # Limit[k] + 1 /\ Len(<<>>) <= Limit[k] + 1
    BY <1>0
  <2> QED
    BY <2>1, <2>2 DEF Spaced
<1> QED
  BY <1>3, <1>4, <1>5, <1>6, <1>7 DEF Next

\* The table keeps MaxKeys keys at most, and lets a key through no more than its
\* limit in a window, but for the time a thread may wait for the lock
\* (main.py:77-99).
THEOREM TableKeepsItsRate == Spec => []LocalRate
<1> DEFINE Inv == RateTypeOK /\ ReadLately /\ TableOK /\ TimesAreGrants
<1>1. Init => Inv
  BY TypesAtFirst, ReadLatelyAtFirst, TableAtFirst, GrantsAtFirst
<1>2. Inv /\ [Next]_vars => Inv'
  BY TypesKept, ReadLatelyKept, TableKept, GrantsKept
<1>3. Inv => LocalRate
  <2> SUFFICES ASSUME Inv, NEW k \in Keys, Len(grants[k]) = Limit[k] + 1
               PROVE  Last(grants[k]) - Head(grants[k]) >= Ticks(Window[k]) - Lag
    BY DEF LocalRate, TableOK
  <2>1. PICK g : g = grants[k]
    OBVIOUS
  <2>2. Limit[k] \in Nat /\ g \in Seq(0..MaxTime) /\ Len(g) = Limit[k] + 1
    BY <2>1, RateAssumption DEF RateTypeOK
  <2>3. Last(g) = g[Len(g)] /\ Head(g) = g[1]
    BY <2>2 DEF Last
  <2>4. g[Len(g)] - g[1] >= Ticks(Window[k]) - Lag
    BY <2>1, <2>2 DEF TimesAreGrants, Spaced
  <2> QED
    BY <2>1, <2>3, <2>4
<1> QED
  BY <1>1, <1>2, <1>3, PTL DEF Spec
=============================================================================
