---------------------------- MODULE MCRepository ----------------------------
EXTENDS PaperRepository, TLC

CONSTANTS r1, r2, t1, t2, t3

\* Two threads of one process and one of another.
TwoAndOne == t1 :> r1 @@ t2 :> r1 @@ t3 :> r2
\* Two threads of one process.
Together == t1 :> r1 @@ t2 :> r1
=============================================================================
