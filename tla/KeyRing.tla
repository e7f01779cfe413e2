------------------------------- MODULE KeyRing -------------------------------
(***************************************************************************)
(* What the content-key store of a producer promises to one topic's        *)
(* publishers: at every moment a topic has at most one current key and at  *)
(* most one next key; a key is installed at most once; rotation promotes   *)
(* exactly the next key and empties the next slot in one indivisible step. *)
(* producer.rs implements this with several store operations per call;     *)
(* ProducerKeys shows when it succeeds.                                    *)
(***************************************************************************)
CONSTANTS
    Topics,     \* the topics a producer publishes on
    Keys,       \* content keys ContentKey::new can draw
    None        \* an empty slot

VARIABLES
    current,    \* the key each topic is published under
    next,       \* the key each topic will be rotated to
    unused      \* keys no topic has been given yet

vars == <<current, next, unused>>

Init ==
    /\ current = [tp \in Topics |-> None]
    /\ next = [tp \in Topics |-> None]
    /\ unused = Keys

\* initialize_content_key: a key nobody holds becomes the topic's current key.
Initialize(tp) ==
    \E k \in unused :
        /\ current' = [current EXCEPT ![tp] = k]
        /\ unused' = unused \ {k}
        /\ UNCHANGED next

\* prepare_next_content_key: a key nobody holds becomes the topic's next key,
\* in place of one prepared before.
Prepare(tp) ==
    \E k \in unused :
        /\ next' = [next EXCEPT ![tp] = k]
        /\ unused' = unused \ {k}
        /\ UNCHANGED current

\* rotate_content_key: the next key becomes current, and is next no more.
Rotate(tp) ==
    /\ next[tp] # None
    /\ current' = [current EXCEPT ![tp] = next[tp]]
    /\ next' = [next EXCEPT ![tp] = None]
    /\ UNCHANGED unused

Next == \E tp \in Topics : Initialize(tp) \/ Prepare(tp) \/ Rotate(tp)

Spec == Init /\ [][Next]_vars
==============================================================================
