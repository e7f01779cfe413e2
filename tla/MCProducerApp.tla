---------------------------- MODULE MCProducerApp -----------------------------
EXTENDS ProducerApp

CONSTANTS t1, k1, k2, k3, k4, k5, main

Sha256(k) == <<"sha256", k>>
MainOnly == [t \in Tasks |-> Topics]
==============================================================================
