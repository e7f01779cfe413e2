------------------------------ MODULE Publishing ------------------------------
(***************************************************************************)
(* What a running producer promises to those who receive its messages and  *)
(* ask for the keys: a key is entered in the store once and stays there as *)
(* it is, and a message is put only when the store can answer for both     *)
(* keys its header names.  ProducerKeys implements it, however its tasks   *)
(* interleave; KeyDelivery uses it.                                        *)
(***************************************************************************)
CONSTANTS
    Topics, Keys, Id(_), None

VARIABLES
    keys,       \* CK id -> (topic, key), or None
    published   \* the messages put on the network

vars == <<keys, published>>

CkIds == {Id(k) : k \in Keys}
Messages == [topic : Topics, ckId : CkIds, nextId : CkIds \cup {None},
             body : Keys]

Init == keys = [id \in CkIds |-> None] /\ published = {}

\* Key k can be fetched by its id, as a key of topic tp.
Registered(k, tp) == keys[Id(k)] = [topic |-> tp, ck |-> k]

Register(k, tp) ==
    /\ keys[Id(k)] = None
    /\ keys' = [keys EXCEPT ![Id(k)] = [topic |-> tp, ck |-> k]]
    /\ UNCHANGED published

Publish(m) ==
    /\ m.ckId = Id(m.body)
    /\ Registered(m.body, m.topic)
    /\ m.nextId # None =>
           \E k \in Keys : m.nextId = Id(k) /\ Registered(k, m.topic)
    /\ published' = published \cup {m}
    /\ UNCHANGED keys

Next == \/ \E k \in Keys, tp \in Topics : Register(k, tp)
        \/ \E m \in Messages : Publish(m)

Spec == Init /\ [][Next]_vars
==============================================================================
