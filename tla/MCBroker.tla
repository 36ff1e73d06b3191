------------------------------ MODULE MCBroker ------------------------------
\* Model-checking instances of Broker.
EXTENDS Broker, TLC

CONSTANTS k1, k2, s1, s2, m1, m2, i1, i2, q1, t1

\* Messages, subscription objects, ids and connections are interchangeable;
\* used by the runs that check no liveness.  Leaving is Conns in those
\* runs.
BrokerSymmetry == Permutations(Msgs) \cup Permutations(Subs)
                    \cup Permutations(Ids) \cup Permutations(Conns)
=============================================================================
