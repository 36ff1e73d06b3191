---------------------------- MODULE MCClientSub -----------------------------
\* Model-checking instances of ClientSub.
EXTENDS ClientSub
=============================================================================
