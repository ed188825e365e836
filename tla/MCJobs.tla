------------------------------- MODULE MCJobs -------------------------------
EXTENDS JobRequirements, TLC

CONSTANTS j1, j2, j3, w1, w2

NoLeftover == <<>>
LeftoverJ3 == <<j3>>

\* Workers are interchangeable, and so are jobs where the start treats them alike.
Symmetry == Permutations(Workers) \union Permutations(Jobs)
=============================================================================
