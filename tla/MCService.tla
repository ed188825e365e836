----------------------------- MODULE MCService -----------------------------
EXTENDS PaperService, TLC

CONSTANTS t1, t2

ReaderSymmetry == Permutations(Readers)
=============================================================================
