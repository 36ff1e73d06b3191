---------------------------- MODULE MCClientConn ----------------------------
\* Model-checking instances of ClientConn.
EXTENDS ClientConn, TLC

CONSTANTS c1, c2, c3

\* Calls are interchangeable; used by the runs that check no liveness.
CallSymmetry == Permutations(Calls)
=============================================================================
