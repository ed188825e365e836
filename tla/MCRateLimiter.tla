---------------------------- MODULE MCRateLimiter ----------------------------
EXTENDS RateLimiter, TLC

CONSTANTS api, trigger, t1, t2

\* The trigger has the longest window, as long as a key is kept.
Windows == [k \in Keys |-> IF k = trigger THEN 3 ELSE 1]
Limits == [k \in Keys |-> IF k = trigger THEN 1 ELSE 2]
ThreadSymmetry == Permutations(Threads)
=============================================================================
