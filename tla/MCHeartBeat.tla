---------------------------- MODULE MCHeartBeat -----------------------------
\* Model-checking instances of HeartBeat.
EXTENDS HeartBeat
=============================================================================
