----------------------------- MODULE MCSession ------------------------------
\* Model-checking instances of Session.
EXTENDS Session, TLC

CONSTANTS c1, c2, c3, c4

\* Calls are interchangeable; used by runs that check no liveness.
CallSymmetry == Permutations(Calls)
=============================================================================
