--------------------------- MODULE MCProducerKeys ----------------------------
EXTENDS ProducerKeys, TLC

CONSTANTS t1, t2, k1, k2, k3, k4, a, b, c

Sha256(k) == <<"sha256", k>>

\* Two tasks call everything on every topic.
ShareAll == [t \in Tasks |-> Topics]

\* a manages t1 and b manages t2, each publishes on both topics, and c only
\* publishes.
OwnOne == [t \in Tasks |-> CASE t = a -> {t1} [] t = b -> {t2} [] OTHER -> {}]

\* Keys are interchangeable: nothing compares them but for equality.
KeySymmetry == Permutations(Keys)
==============================================================================
