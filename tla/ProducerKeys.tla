---------------------------- MODULE ProducerKeys -----------------------------
(***************************************************************************)
(* The content keys of a Producer (src/src/producer.rs) and its            *)
(* InMemoryContentKeyStore.  Producer is Clone and every method takes      *)
(* &self, so any number of tasks drive one store.  Each store operation is *)
(* one atomic read-copy-update of one of three maps; between two of them   *)
(* every other task may run.  A task's progress through initialize_,       *)
(* prepare_next_ and rotate_content_key, and through the publishing        *)
(* sequence get_current / get_next / encrypt / put, is kept in tasks[t].   *)
(*                                                                         *)
(* The two maps of current and next keys hold pairs (content_key.id(),     *)
(* content_key); the id is always that of the key beside it, so only the   *)
(* key is kept and Id is applied where the code reads the pair's id.       *)
(***************************************************************************)
EXTENDS Naturals, FiniteSets

CONSTANTS
    Topics,         \* topics
    Keys,           \* content keys ContentKey::new can draw
    Id(_),          \* ContentKey::id, the SHA-256 of key and nonce
    Tasks,          \* tasks that share the producer
    Manages,        \* the topics whose keys each task initializes and rotates
    InitializeAnyTime, \* FALSE: a topic is initialized before any other
                    \*   call for it, as examples/producer.rs does
    MaxPublished,   \* bound: no publishing starts after so many messages
    None            \* an absent entry, or an unused field

\* SHA-256 is modelled as collision free.
ASSUME IdInjective == \A k, l \in Keys : Id(k) = Id(l) => k = l
ASSUME NoneAssumption ==
    /\ None \notin Keys
    /\ None \notin Topics
    /\ None \notin [topic : Topics, ck : Keys]
    /\ \A k \in Keys : Id(k) # None
ASSUME ManagesAssumption == Manages \in [Tasks -> SUBSET Topics]
ASSUME BoundsAssumption == InitializeAnyTime \in BOOLEAN /\ MaxPublished \in Nat

CkIds == {Id(k) : k \in Keys}

VARIABLES
    keys,           \* CK id -> (topic, key), or None
    currentCks,     \* topic -> its current key, or None
    nextCks,        \* topic -> its next key, or None
    tasks,          \* what each task is in the middle of
    published,      \* the messages put on the network
    elders          \* history: the keys that were added before each key

storeVars == <<keys, currentCks, nextCks>>
vars == <<keys, currentCks, nextCks, tasks, published, elders>>

Idle == [op |-> "idle", topic |-> None, ck |-> None, next |-> None]

\* The operation a task is in and what is left of it to do.
Ops == {"idle",
        "initialize",   \* generated a key, set_current_ck is next
        "prepare",      \* generated a key, set_next_ck is next
        "rotate",       \* read the next key, set_current_ck is next
        "rotated",      \* set the current key, remove_next_ck is next
        "publish",      \* read the current key, get_next_ck is next
        "put"}          \* read both keys, encrypt and put are next

Entries == [topic : Topics, ck : Keys]
Messages == [topic : Topics, ckId : CkIds, nextId : CkIds \cup {None},
             body : Keys]
TaskStates == [op : Ops, topic : Topics \cup {None}, ck : Keys \cup {None},
               next : CkIds \cup {None}]
-----------------------------------------------------------------------------
(* Mistaken forms of the operations, each a slip the properties at the end *)
(* of the module have to notice.  Spec uses none of them.                  *)

\* The key is returned but never inserted.
AddCkForgotten(k, tp) == keys

\* The new map starts out empty instead of as a clone of the current one.
AddCkToEmptyMap(k, tp) ==
    [id \in CkIds |-> IF id = Id(k) THEN [topic |-> tp, ck |-> k] ELSE None]

\* One slot for all topics instead of one per topic.
SetOneCurrentCk(tp, k) == [x \in Topics |-> k]
SetOneNextCk(tp, k) == [x \in Topics |-> k]

\* remove_next_ck does nothing, or clears the map.
KeepNextCk(tp) == nextCks
ClearNextCks(tp) == [x \in Topics |-> None]

\* The header advertises the next key itself.
NextKey(tp) == nextCks[tp]

\* encrypt looks the current key up again instead of using the one it is given.
EncryptWithCurrent(tp, k, nextId) ==
    [topic |-> tp, ckId |-> Id(currentCks[tp]), nextId |-> nextId,
     body |-> currentCks[tp]]
-----------------------------------------------------------------------------
(* InMemoryContentKeyStore: each operation replaces one map. *)

AddCk(k, tp) == [keys EXCEPT ![Id(k)] = [topic |-> tp, ck |-> k]]

SetCurrentCk(tp, k) == [currentCks EXCEPT ![tp] = k]

SetNextCk(tp, k) == [nextCks EXCEPT ![tp] = k]

RemoveNextCk(tp) == [nextCks EXCEPT ![tp] = None]

\* The keys ContentKey::new may return: one that was drawn before never
\* comes again.
Fresh == {k \in Keys : keys[Id(k)] = None}

\* generate_content_key: draw a key and add it to the store; the rest of
\* the call is op.
GenerateContentKey(t, tp, op) ==
    /\ tasks[t] = Idle
    /\ tp \in Manages[t]
    /\ \E k \in Fresh :
        /\ keys' = AddCk(k, tp)
        /\ elders' = [elders EXCEPT ![k] = Keys \ Fresh]
        /\ tasks' = [tasks EXCEPT ![t] =
               [op |-> op, topic |-> tp, ck |-> k, next |-> None]]
    /\ UNCHANGED <<currentCks, nextCks, published>>
-----------------------------------------------------------------------------

Init ==
    /\ keys = [id \in CkIds |-> None]
    /\ currentCks = [tp \in Topics |-> None]
    /\ nextCks = [tp \in Topics |-> None]
    /\ tasks = [t \in Tasks |-> Idle]
    /\ published = {}
    /\ elders = [k \in Keys |-> {}]

\* initialize_content_key: generate, then set_current_ck.
InitializeGenerate(t, tp) ==
    /\ InitializeAnyTime \/ (currentCks[tp] = None /\ nextCks[tp] = None)
    /\ GenerateContentKey(t, tp, "initialize")

InitializeSetCurrent(t) ==
    /\ tasks[t].op = "initialize"
    /\ currentCks' = SetCurrentCk(tasks[t].topic, tasks[t].ck)
    /\ tasks' = [tasks EXCEPT ![t] = Idle]
    /\ UNCHANGED <<keys, nextCks, published, elders>>

\* prepare_next_content_key: generate, then set_next_ck.
PrepareGenerate(t, tp) == GenerateContentKey(t, tp, "prepare")

PrepareSetNext(t) ==
    /\ tasks[t].op = "prepare"
    /\ nextCks' = SetNextCk(tasks[t].topic, tasks[t].ck)
    /\ tasks' = [tasks EXCEPT ![t] = Idle]
    /\ UNCHANGED <<keys, currentCks, published, elders>>

\* rotate_content_key: get_next_ck, set_current_ck and remove_next_ck.  With
\* no next key the call returns ContentKeyNotFoundError and changes nothing.
RotateGetNext(t, tp) ==
    /\ tasks[t] = Idle
    /\ tp \in Manages[t]
    /\ nextCks[tp] # None
    /\ tasks' = [tasks EXCEPT ![t] =
           [op |-> "rotate", topic |-> tp, ck |-> nextCks[tp], next |-> None]]
    /\ UNCHANGED <<storeVars, published, elders>>

RotateSetCurrent(t) ==
    /\ tasks[t].op = "rotate"
    /\ currentCks' = SetCurrentCk(tasks[t].topic, tasks[t].ck)
    /\ tasks' = [tasks EXCEPT ![t].op = "rotated"]
    /\ UNCHANGED <<keys, nextCks, published, elders>>

RotateRemoveNext(t) ==
    /\ tasks[t].op = "rotated"
    /\ nextCks' = RemoveNextCk(tasks[t].topic)
    /\ tasks' = [tasks EXCEPT ![t] = Idle]
    /\ UNCHANGED <<keys, currentCks, published, elders>>

\* Publishing: get_current_content_key, which fails and changes nothing when
\* the topic has no current key, ...
PublishGetCurrent(t, tp) ==
    /\ tasks[t] = Idle
    /\ Cardinality(published) < MaxPublished
    /\ currentCks[tp] # None
    /\ tasks' = [tasks EXCEPT ![t] =
           [op |-> "publish", topic |-> tp, ck |-> currentCks[tp],
            next |-> None]]
    /\ UNCHANGED <<storeVars, published, elders>>

\* ... get_next_content_key, of which the caller keeps the id, ...
NextId(tp) == IF nextCks[tp] = None THEN None ELSE Id(nextCks[tp])

PublishGetNext(t) ==
    /\ tasks[t].op = "publish"
    /\ tasks' = [tasks EXCEPT ![t].op = "put",
                              ![t].next = NextId(tasks[t].topic)]
    /\ UNCHANGED <<storeVars, published, elders>>

\* ... encrypt, which names the keys in the header and seals the body, ...
Encrypt(tp, k, nextId) ==
    [topic |-> tp, ckId |-> Id(k), nextId |-> nextId, body |-> k]

\* ... and put.
PublishPut(t) ==
    /\ tasks[t].op = "put"
    /\ published' = published \cup
           {Encrypt(tasks[t].topic, tasks[t].ck, tasks[t].next)}
    /\ tasks' = [tasks EXCEPT ![t] = Idle]
    /\ UNCHANGED <<storeVars, elders>>

Step(t) ==
    \/ \E tp \in Topics :
           \/ InitializeGenerate(t, tp)
           \/ PrepareGenerate(t, tp)
           \/ RotateGetNext(t, tp)
           \/ PublishGetCurrent(t, tp)
    \/ InitializeSetCurrent(t)
    \/ PrepareSetNext(t)
    \/ RotateSetCurrent(t)
    \/ RotateRemoveNext(t)
    \/ PublishGetNext(t)
    \/ PublishPut(t)

Next == \E t \in Tasks : Step(t)

Spec == Init /\ [][Next]_vars
-----------------------------------------------------------------------------
(* Properties of every use of the producer, however its tasks interleave. *)

\* Every variable has its type: in particular the two fields of a message's
\* header are ids of keys, never keys (producer.rs encrypt).
TypeOK ==
    /\ keys \in [CkIds -> Entries \cup {None}]
    /\ currentCks \in [Topics -> Keys \cup {None}]
    /\ nextCks \in [Topics -> Keys \cup {None}]
    /\ tasks \in [Tasks -> TaskStates]
    /\ published \subseteq Messages
    /\ elders \in [Keys -> SUBSET Keys]

\* Key k can be fetched from the store by its id, as a key of topic tp.
Registered(k, tp) == keys[Id(k)] = [topic |-> tp, ck |-> k]

\* Both ids in the header of a published message can be fetched for ever
\* after: get_ck finds CK-ID with the key the body was encrypted with and
\* Next-CK-ID with a key of the same topic, so a consumer that was given a
\* message can ask for its keys (producer.rs generate_content_key adds the
\* key before initialize_ or prepare_next_content_key shows it to anyone).
Resolvable ==
    \A m \in published :
        /\ m.ckId = Id(m.body)
        /\ Registered(m.body, m.topic)
        /\ m.nextId # None =>
               \E k \in Keys : m.nextId = Id(k) /\ Registered(k, m.topic)

\* An id the store knows keeps its topic and its key: neither a rotation nor
\* a second generate_content_key can make an old message undecryptable, nor
\* move it under another topic's policy.
KeysStable ==
    [][\A id \in CkIds : keys[id] # None => keys'[id] = keys[id]]_vars

Rotated(tp) == \E t \in Tasks : tasks[t].op = "rotated" /\ tasks[t].topic = tp

\* A topic's next key is not its current key, except between the two writes
\* of a rotation (producer.rs rotate_content_key): a new key is installed
\* in one place only, and a rotation leaves none behind as its own successor.
NextDiffersFromCurrent ==
    \A tp \in Topics :
        nextCks[tp] # None /\ nextCks[tp] = currentCks[tp] => Rotated(tp)

\* Whatever its tasks do, the producer keeps the promise that KeyDelivery
\* relies on: keys are entered once, before a message names them.
Promise == INSTANCE Publishing
RefinesPublishing == Promise!Spec
-----------------------------------------------------------------------------
(* Properties of a producer each of whose topics is managed by one task.   *)

SerialManagers ==
    \A t, u \in Tasks : t # u => Manages[t] \cap Manages[u] = {}

\* What a rotation removes is the key it promoted: remove_next_ck never
\* discards a key that prepare_next_content_key has just returned to its
\* caller.  (It does when another task prepares during the rotation.)
RemovesOnlyPromoted ==
    [][\A t \in Tasks :
          LET tp == tasks[t].topic
          IN  tasks[t].op = "rotated" /\ nextCks'[tp] # nextCks[tp]
                  => nextCks[tp] = tasks[t].ck]_vars

Older(k, l) == k \in elders[l]

\* A topic's current key is only ever replaced by one generated after it,
\* however publishing tasks interleave with the rotations.
CurrentAdvances ==
    [][\A tp \in Topics :
          currentCks'[tp] # currentCks[tp] /\ currentCks[tp] # None
              => currentCks[tp] \in elders'[currentCks'[tp]]]_vars

\* The Next-CK-ID a message carries never names a key older than the one the
\* message is encrypted with, although the publishing task reads the two
\* slots one after the other and a rotation may run in between (the two
\* may be equal, or be two rotations apart).
NextIdNotOlder ==
    \A m \in published : m.nextId # None =>
        \E k \in Keys : m.nextId = Id(k) /\ (k = m.body \/ Older(m.body, k))

\* While one task manages each topic, the several writes of initialize_,
\* prepare_next_ and rotate_content_key amount to the indivisible operations
\* of KeyRing.  A rotation takes effect when it sets the current key: until
\* remove_next_ck has run, the stored next key counts as removed.
RingNext == [tp \in Topics |-> IF Rotated(tp) THEN None ELSE nextCks[tp]]

Generating(t) == tasks[t].op \in {"initialize", "prepare"}

RingUnused == Fresh \cup {tasks[t].ck : t \in {u \in Tasks : Generating(u)}}

Ring == INSTANCE KeyRing WITH
    current <- currentCks, next <- RingNext, unused <- RingUnused

RefinesKeyRing == Ring!Spec
==============================================================================
