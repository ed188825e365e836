------------------------------ MODULE MCLegacy ------------------------------
EXTENDS LegacyRuntime

CONSTANTS p1, p2
=============================================================================
