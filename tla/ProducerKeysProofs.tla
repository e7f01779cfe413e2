-------------------------- MODULE ProducerKeysProofs --------------------------
(***************************************************************************)
(* Theorems about ProducerKeys for any number of topics, keys and tasks.   *)
(*                                                                         *)
(* The first part is about every use of the producer.  Its inductive       *)
(* invariant Inv says that whatever key a task, a slot of the store or a   *)
(* published header holds has been added to the store under that topic,    *)
(* and that a key just generated is known to nobody but its task.          *)
(* The second part is about topics managed by one task each.               *)
(***************************************************************************)
EXTENDS ProducerKeys, TLAPS

\* The keys that can be fetched by their ids as keys of each topic.
Known == [tp \in Topics |-> {k \in Keys : Registered(k, tp)}]

\* What a task holds between two store operations are keys of its topic.
TaskHolds ==
    \A t \in Tasks :
        \/ tasks[t] = Idle
        \/ /\ tasks[t].op \in Ops \ {"idle"}
           /\ tasks[t].topic \in Topics
           /\ tasks[t].ck \in Known[tasks[t].topic]
           /\ tasks[t].next # None =>
                 \E k \in Known[tasks[t].topic] : tasks[t].next = Id(k)

\* What a slot holds is a key of its topic.
SlotsKnown ==
    \A tp \in Topics :
        /\ currentCks[tp] # None => currentCks[tp] \in Known[tp]
        /\ nextCks[tp] # None => nextCks[tp] \in Known[tp]

\* What a header names are keys of the message's topic.
HeadersKnown ==
    \A m \in published :
        /\ m.ckId = Id(m.body)
        /\ m.body \in Known[m.topic]
        /\ m.nextId # None => \E k \in Known[m.topic] : m.nextId = Id(k)

\* A key that is generated but not yet installed is in no slot and in no
\* other task's hands.
GeneratedPrivate ==
    \A t \in Tasks : Generating(t) =>
        /\ \A tp \in Topics : /\ currentCks[tp] # tasks[t].ck
                              /\ nextCks[tp] # tasks[t].ck
        /\ \A u \in Tasks : u # t => tasks[u].ck # tasks[t].ck

Inv ==
    /\ TypeOK
    /\ TaskHolds
    /\ SlotsKnown
    /\ HeadersKnown
    /\ GeneratedPrivate
    /\ NextDiffersFromCurrent
-----------------------------------------------------------------------------
LEMMA IdleType == Idle \in TaskStates
  BY DEF Idle, TaskStates, Ops

LEMMA KnownKeys ==
  \A tp \in Topics : Known[tp] \in SUBSET Keys /\ None \notin Known[tp]
  BY NoneAssumption DEF Known

LEMMA InitInv == Init => Inv
<1> SUFFICES ASSUME Init PROVE Inv
  OBVIOUS
<1>1. TypeOK
  BY IdleType DEF Init, TypeOK
<1>2. TaskHolds
  BY DEF Init, TaskHolds
<1>3. SlotsKnown /\ HeadersKnown /\ NextDiffersFromCurrent
  BY DEF Init, SlotsKnown, HeadersKnown, NextDiffersFromCurrent
<1>4. GeneratedPrivate
  BY DEF Init, GeneratedPrivate, Generating, Idle
<1> QED
  BY <1>1, <1>2, <1>3, <1>4 DEF Inv

\* Adding a fresh key k under tp takes no key from any topic and gives tp one
\* that no topic had.
LEMMA AddCkKnown ==
  ASSUME keys \in [CkIds -> Entries \cup {None}],
         NEW k \in Fresh, NEW tp \in Topics, keys' = AddCk(k, tp)
  PROVE  /\ k \in Keys
         /\ keys' \in [CkIds -> Entries \cup {None}]
         /\ \A x \in Topics : k \notin Known[x]
         /\ \A x \in Topics : Known[x] \subseteq Known'[x]
         /\ k \in Known'[tp]
         /\ \A l \in Keys : keys[Id(l)] # None => keys'[Id(l)] = keys[Id(l)]
<1>1. k \in Keys /\ Id(k) \in CkIds /\ keys[Id(k)] = None
  BY DEF Fresh, CkIds
<1>2. \A l \in Keys : Id(l) \in CkIds
  BY DEF CkIds
<1>3. [topic |-> tp, ck |-> k] \in Entries
  BY <1>1 DEF Entries
<1>4. keys' \in [CkIds -> Entries \cup {None}]
  BY <1>1, <1>3 DEF AddCk
<1>5. keys'[Id(k)] = [topic |-> tp, ck |-> k]
  BY <1>1 DEF AddCk
<1>6. \A l \in Keys : keys[Id(l)] # None => keys'[Id(l)] = keys[Id(l)]
  BY <1>1, <1>2 DEF AddCk
<1>7. \A l \in Keys, x \in Topics :
         Registered(l, x) => keys[Id(l)] # None /\ keys'[Id(l)] = keys[Id(l)]
  BY <1>6, NoneAssumption DEF Registered
<1>8. \A x \in Topics : k \notin Known[x]
  BY <1>1, <1>7 DEF Known
<1>9. \A x \in Topics : Known[x] \subseteq Known'[x]
  BY <1>7 DEF Known, Registered
<1>10. k \in Known'[tp]
  BY <1>1, <1>5 DEF Known, Registered
<1> QED
  BY <1>1, <1>4, <1>6, <1>8, <1>9, <1>10

\* Without an insertion, and as long as no task begins to generate, what is
\* to be shown is only about the slots, the task that moves and the messages.
LEMMA KeysUnchanged == keys' = keys => Known' = Known /\ Fresh' = Fresh
  BY DEF Known, Registered, Fresh

\* generate_content_key leaves the task with a key that nobody else holds.
LEMMA GenerateInv ==
  ASSUME Inv, NEW t \in Tasks, NEW tp \in Topics,
         NEW op \in {"initialize", "prepare"}, GenerateContentKey(t, tp, op)
  PROVE  Inv'
<1>1. PICK k \in Fresh :
         /\ keys' = AddCk(k, tp)
         /\ elders' = [elders EXCEPT ![k] = Keys \ Fresh]
         /\ tasks' = [tasks EXCEPT ![t] =
                [op |-> op, topic |-> tp, ck |-> k, next |-> None]]
  BY DEF GenerateContentKey
<1>2. /\ tasks[t] = Idle
      /\ currentCks' = currentCks
      /\ nextCks' = nextCks
      /\ published' = published
  BY DEF GenerateContentKey
<1>3. TypeOK /\ TaskHolds /\ SlotsKnown /\ HeadersKnown /\ GeneratedPrivate
      /\ NextDiffersFromCurrent
  BY DEF Inv
<1>4. /\ k \in Keys
      /\ keys' \in [CkIds -> Entries \cup {None}]
      /\ \A x \in Topics : k \notin Known[x]
      /\ \A x \in Topics : Known[x] \subseteq Known'[x]
      /\ k \in Known'[tp]
  BY <1>1, <1>3, AddCkKnown DEF TypeOK
<1>5. /\ tasks'[t] = [op |-> op, topic |-> tp, ck |-> k, next |-> None]
      /\ \A u \in Tasks : u # t => tasks'[u] = tasks[u]
  BY <1>1, <1>3 DEF TypeOK
<1>6. TypeOK'
  <2>1. [op |-> op, topic |-> tp, ck |-> k, next |-> None] \in TaskStates
    BY <1>4 DEF TaskStates, Ops
  <2>2. tasks' \in [Tasks -> TaskStates]
    BY <2>1, <1>1, <1>3 DEF TypeOK
  <2>3. elders' \in [Keys -> SUBSET Keys]
    BY <1>1, <1>3 DEF TypeOK
  <2> QED
    BY <2>2, <2>3, <1>2, <1>3, <1>4 DEF TypeOK
<1>7. TaskHolds'
  BY <1>3, <1>4, <1>5 DEF TaskHolds, Ops
<1>8. SlotsKnown'
  BY <1>2, <1>3, <1>4 DEF SlotsKnown
<1>9. HeadersKnown'
  <2>1. \A m \in published : m.topic \in Topics
    BY <1>3 DEF TypeOK, Messages
  <2> QED
    BY <2>1, <1>2, <1>3, <1>4 DEF HeadersKnown
<1>10. GeneratedPrivate'
  <2>1. \A x \in Topics : currentCks[x] # k /\ nextCks[x] # k
    BY <1>3, <1>4, NoneAssumption DEF SlotsKnown
  <2>2. \A u \in Tasks : tasks[u].ck # k
    BY <1>3, <1>4, NoneAssumption DEF TaskHolds, Idle
  <2> QED
    BY <2>1, <2>2, <1>2, <1>3, <1>5 DEF GeneratedPrivate, Generating
<1>11. NextDiffersFromCurrent'
  <2>1. tasks[t].op # "rotated"
    BY <1>2 DEF Idle
  <2> QED
    BY <2>1, <1>2, <1>3, <1>5 DEF NextDiffersFromCurrent, Rotated
<1> QED
  BY <1>6, <1>7, <1>8, <1>9, <1>10, <1>11 DEF Inv

\* Every other step of a task: the keys of the store stay as they are.
LEMMA OtherStepsInv ==
  ASSUME Inv, NEW t \in Tasks,
         \/ \E tp \in Topics : RotateGetNext(t, tp) \/ PublishGetCurrent(t, tp)
         \/ InitializeSetCurrent(t)
         \/ PrepareSetNext(t)
         \/ RotateSetCurrent(t)
         \/ RotateRemoveNext(t)
         \/ PublishGetNext(t)
         \/ PublishPut(t)
  PROVE  Inv'
<1>1. TypeOK /\ TaskHolds /\ SlotsKnown /\ HeadersKnown /\ GeneratedPrivate
      /\ NextDiffersFromCurrent
  BY DEF Inv
<1>2. keys' = keys /\ elders' = elders
  BY DEF RotateGetNext, PublishGetCurrent, InitializeSetCurrent,
         PrepareSetNext, RotateSetCurrent, RotateRemoveNext, PublishGetNext,
         PublishPut, storeVars
<1>3. Known' = Known
  BY <1>2, KeysUnchanged
<1>4. /\ tasks[t].op # "idle" =>
              tasks[t].topic \in Topics /\ tasks[t].ck \in Known[tasks[t].topic]
      /\ \A u \in Tasks : Generating(u) => tasks[u].ck # None
  BY <1>1, KnownKeys DEF TaskHolds, Generating, Idle
<1>5. CASE \E tp \in Topics : RotateGetNext(t, tp)
  <2>1. PICK tp \in Topics : RotateGetNext(t, tp)
    BY <1>5
  <2> DEFINE new == [op |-> "rotate", topic |-> tp, ck |-> nextCks[tp],
                     next |-> None]
  <2>2. /\ tasks' = [tasks EXCEPT ![t] = new]
        /\ tasks[t] = Idle
        /\ nextCks[tp] # None
        /\ UNCHANGED <<currentCks, nextCks, published>>
    BY <2>1 DEF RotateGetNext, storeVars
  <2>3. nextCks[tp] \in Keys /\ nextCks[tp] \in Known[tp]
    BY <2>2, <1>1 DEF TypeOK, SlotsKnown
  <2>4. new \in TaskStates
    BY <2>3 DEF TaskStates, Ops
  <2>5. tasks'[t] = new /\ \A u \in Tasks : u # t => tasks'[u] = tasks[u]
    BY <2>2, <1>1 DEF TypeOK
  <2>6. TypeOK'
    BY <2>2, <2>4, <1>1, <1>2 DEF TypeOK
  <2>7. TaskHolds'
    BY <2>3, <2>5, <1>1, <1>3 DEF TaskHolds, Ops
  <2>8. SlotsKnown' /\ HeadersKnown'
    BY <2>2, <1>1, <1>3 DEF SlotsKnown, HeadersKnown
  <2>9. GeneratedPrivate'
    BY <2>2, <2>5, <1>1 DEF GeneratedPrivate, Generating
  <2>10. NextDiffersFromCurrent'
    BY <2>2, <2>5, <1>1 DEF NextDiffersFromCurrent, Rotated, Idle
  <2> QED
    BY <2>6, <2>7, <2>8, <2>9, <2>10 DEF Inv
<1>6. CASE \E tp \in Topics : PublishGetCurrent(t, tp)
  <2>1. PICK tp \in Topics : PublishGetCurrent(t, tp)
    BY <1>6
  <2> DEFINE new == [op |-> "publish", topic |-> tp, ck |-> currentCks[tp],
                     next |-> None]
  <2>2. /\ tasks' = [tasks EXCEPT ![t] = new]
        /\ tasks[t] = Idle
        /\ currentCks[tp] # None
        /\ UNCHANGED <<currentCks, nextCks, published>>
    BY <2>1 DEF PublishGetCurrent, storeVars
  <2>3. currentCks[tp] \in Keys /\ currentCks[tp] \in Known[tp]
    BY <2>2, <1>1 DEF TypeOK, SlotsKnown
  <2>4. new \in TaskStates
    BY <2>3 DEF TaskStates, Ops
  <2>5. tasks'[t] = new /\ \A u \in Tasks : u # t => tasks'[u] = tasks[u]
    BY <2>2, <1>1 DEF TypeOK
  <2>6. TypeOK'
    BY <2>2, <2>4, <1>1, <1>2 DEF TypeOK
  <2>7. TaskHolds'
    BY <2>3, <2>5, <1>1, <1>3 DEF TaskHolds, Ops
  <2>8. SlotsKnown' /\ HeadersKnown'
    BY <2>2, <1>1, <1>3 DEF SlotsKnown, HeadersKnown
  <2>9. GeneratedPrivate'
    BY <2>2, <2>5, <1>1 DEF GeneratedPrivate, Generating
  <2>10. NextDiffersFromCurrent'
    BY <2>2, <2>5, <1>1 DEF NextDiffersFromCurrent, Rotated, Idle
  <2> QED
    BY <2>6, <2>7, <2>8, <2>9, <2>10 DEF Inv
<1>7. CASE InitializeSetCurrent(t)
  <2>1. /\ tasks[t].op = "initialize"
        /\ currentCks' = [currentCks EXCEPT ![tasks[t].topic] = tasks[t].ck]
        /\ tasks' = [tasks EXCEPT ![t] = Idle]
        /\ UNCHANGED <<nextCks, published>>
    BY <1>7 DEF InitializeSetCurrent, SetCurrentCk
  <2>2. tasks[t].topic \in Topics /\ tasks[t].ck \in Known[tasks[t].topic]
    BY <2>1, <1>4
  <2>3. tasks[t].ck \in Keys
    BY <2>2, KnownKeys
  <2>4. tasks'[t] = Idle /\ \A u \in Tasks : u # t => tasks'[u] = tasks[u]
    BY <2>1, <1>1 DEF TypeOK
  <2>5. TypeOK'
    BY <2>1, <2>2, <2>3, <1>1, <1>2, IdleType DEF TypeOK
  <2>6. TaskHolds'
    BY <2>4, <1>1, <1>3 DEF TaskHolds
  <2>7. SlotsKnown' /\ HeadersKnown'
    BY <2>1, <2>2, <1>1, <1>3 DEF SlotsKnown, HeadersKnown, TypeOK
  <2>8. GeneratedPrivate'
    BY <2>1, <2>2, <2>4, <1>1, <1>4
    DEF GeneratedPrivate, Generating, TypeOK, Idle
  <2>9. NextDiffersFromCurrent'
    <3>1. \A tp \in Topics : nextCks[tp] # tasks[t].ck
      BY <2>1, <1>1 DEF GeneratedPrivate, Generating
    <3>2. \A tp \in Topics : Rotated(tp) => Rotated(tp)'
      BY <2>1, <2>4 DEF Rotated
    <3> QED
      BY <3>1, <3>2, <2>1, <2>2, <1>1 DEF NextDiffersFromCurrent, TypeOK
  <2> QED
    BY <2>5, <2>6, <2>7, <2>8, <2>9 DEF Inv
<1>8. CASE PrepareSetNext(t)
  <2>1. /\ tasks[t].op = "prepare"
        /\ nextCks' = [nextCks EXCEPT ![tasks[t].topic] = tasks[t].ck]
        /\ tasks' = [tasks EXCEPT ![t] = Idle]
        /\ UNCHANGED <<currentCks, published>>
    BY <1>8 DEF PrepareSetNext, SetNextCk
  <2>2. tasks[t].topic \in Topics /\ tasks[t].ck \in Known[tasks[t].topic]
    BY <2>1, <1>4
  <2>3. tasks[t].ck \in Keys
    BY <2>2, KnownKeys
  <2>4. tasks'[t] = Idle /\ \A u \in Tasks : u # t => tasks'[u] = tasks[u]
    BY <2>1, <1>1 DEF TypeOK
  <2>5. TypeOK'
    BY <2>1, <2>2, <2>3, <1>1, <1>2, IdleType DEF TypeOK
  <2>6. TaskHolds'
    BY <2>4, <1>1, <1>3 DEF TaskHolds
  <2>7. SlotsKnown' /\ HeadersKnown'
    BY <2>1, <2>2, <1>1, <1>3 DEF SlotsKnown, HeadersKnown, TypeOK
  <2>8. GeneratedPrivate'
    BY <2>1, <2>2, <2>4, <1>1, <1>4
    DEF GeneratedPrivate, Generating, TypeOK, Idle
  <2>9. NextDiffersFromCurrent'
    <3>1. \A tp \in Topics : currentCks[tp] # tasks[t].ck
      BY <2>1, <1>1 DEF GeneratedPrivate, Generating
    <3>2. \A tp \in Topics : Rotated(tp) => Rotated(tp)'
      BY <2>1, <2>4 DEF Rotated
    <3> QED
      BY <3>1, <3>2, <2>1, <2>2, <1>1 DEF NextDiffersFromCurrent, TypeOK
  <2> QED
    BY <2>5, <2>6, <2>7, <2>8, <2>9 DEF Inv
<1>9. CASE RotateSetCurrent(t)
  <2>1. /\ tasks[t].op = "rotate"
        /\ currentCks' = [currentCks EXCEPT ![tasks[t].topic] = tasks[t].ck]
        /\ tasks' = [tasks EXCEPT ![t].op = "rotated"]
        /\ UNCHANGED <<nextCks, published>>
    BY <1>9 DEF RotateSetCurrent, SetCurrentCk
  <2>2. tasks[t].topic \in Topics /\ tasks[t].ck \in Known[tasks[t].topic]
    BY <2>1, <1>4
  <2>3. tasks[t].ck \in Keys
    BY <2>2, KnownKeys
  <2>4. \A u \in Tasks : u # t => tasks'[u] = tasks[u]
    BY <2>1, <1>1 DEF TypeOK
  <2>5. /\ tasks'[t].op = "rotated"
        /\ tasks'[t].topic = tasks[t].topic
        /\ tasks'[t].ck = tasks[t].ck
        /\ tasks'[t].next = tasks[t].next
        /\ tasks'[t] \in TaskStates
    BY <2>1, <1>1 DEF TypeOK, TaskStates, Ops
  <2>6. TypeOK'
    <3>1. tasks' \in [Tasks -> TaskStates]
      BY <2>1, <2>4, <2>5, <1>1 DEF TypeOK
    <3> QED
      BY <3>1, <2>1, <2>2, <2>3, <1>1, <1>2 DEF TypeOK
  <2>7. TaskHolds'
    <3>1. tasks[t] # Idle
      BY <2>1 DEF Idle
    <3> QED
      BY <3>1, <2>4, <2>5, <1>1, <1>3 DEF TaskHolds, Ops
  <2>8. SlotsKnown' /\ HeadersKnown'
    BY <2>1, <2>2, <1>1, <1>3 DEF SlotsKnown, HeadersKnown, TypeOK
  <2>9. GeneratedPrivate'
    BY <2>1, <2>2, <2>4, <2>5, <1>1 DEF GeneratedPrivate, Generating, TypeOK
  <2>10. NextDiffersFromCurrent'
    BY <2>1, <2>2, <2>4, <2>5, <1>1 DEF NextDiffersFromCurrent, Rotated, TypeOK
  <2> QED
    BY <2>6, <2>7, <2>8, <2>9, <2>10 DEF Inv
<1>10. CASE RotateRemoveNext(t)
  <2>1. /\ tasks[t].op = "rotated"
        /\ nextCks' = [nextCks EXCEPT ![tasks[t].topic] = None]
        /\ tasks' = [tasks EXCEPT ![t] = Idle]
        /\ UNCHANGED <<currentCks, published>>
    BY <1>10 DEF RotateRemoveNext, RemoveNextCk
  <2>2. tasks[t].topic \in Topics
    BY <2>1, <1>4
  <2>3. tasks'[t] = Idle /\ \A u \in Tasks : u # t => tasks'[u] = tasks[u]
    BY <2>1, <1>1 DEF TypeOK
  <2>4. TypeOK'
    BY <2>1, <2>2, <1>1, <1>2, IdleType DEF TypeOK
  <2>5. TaskHolds'
    BY <2>3, <1>1, <1>3 DEF TaskHolds
  <2>6. SlotsKnown' /\ HeadersKnown'
    BY <2>1, <2>2, <1>1, <1>3 DEF SlotsKnown, HeadersKnown, TypeOK
  <2>7. GeneratedPrivate'
    BY <2>1, <2>2, <2>3, <1>1, <1>4
    DEF GeneratedPrivate, Generating, TypeOK, Idle
  <2>8. NextDiffersFromCurrent'
    BY <2>1, <2>2, <2>3, <1>1 DEF NextDiffersFromCurrent, Rotated, TypeOK
  <2> QED
    BY <2>4, <2>5, <2>6, <2>7, <2>8 DEF Inv
<1>11. CASE PublishGetNext(t)
  <2> DEFINE id == NextId(tasks[t].topic)
  <2>1. /\ tasks[t].op = "publish"
        /\ UNCHANGED <<currentCks, nextCks, published>>
    BY <1>11 DEF PublishGetNext, storeVars
  <2>2. tasks' = [tasks EXCEPT ![t].op = "put", ![t].next = id]
    BY <1>11 DEF PublishGetNext
  <2>3. tasks[t].topic \in Topics /\ tasks[t].ck \in Known[tasks[t].topic]
    BY <2>1, <1>4
  <2>4. /\ id \in CkIds \cup {None}
        /\ id # None => \E k \in Known[tasks[t].topic] : id = Id(k)
    BY <2>3, <1>1, KnownKeys DEF NextId, SlotsKnown, CkIds
  <2> HIDE DEF id
  <2>5. \A u \in Tasks : u # t => tasks'[u] = tasks[u]
    BY <2>2, <1>1 DEF TypeOK
  <2>6. /\ tasks'[t].op = "put"
        /\ tasks'[t].topic = tasks[t].topic
        /\ tasks'[t].ck = tasks[t].ck
        /\ tasks'[t].next = id
        /\ tasks'[t] \in TaskStates
    BY <2>2, <2>4, <1>1 DEF TypeOK, TaskStates, Ops
  <2>7. TypeOK'
    <3>1. tasks' \in [Tasks -> TaskStates]
      BY <2>2, <2>5, <2>6, <1>1 DEF TypeOK
    <3> QED
      BY <3>1, <2>1, <1>1, <1>2 DEF TypeOK
  <2>8. TaskHolds'
    BY <2>3, <2>4, <2>5, <2>6, <1>1, <1>3 DEF TaskHolds, Ops
  <2>9. SlotsKnown' /\ HeadersKnown'
    BY <2>1, <1>1, <1>3 DEF SlotsKnown, HeadersKnown
  <2>10. GeneratedPrivate'
    BY <2>1, <2>5, <2>6, <1>1 DEF GeneratedPrivate, Generating
  <2>11. NextDiffersFromCurrent'
    BY <2>1, <2>5, <2>6, <1>1 DEF NextDiffersFromCurrent, Rotated
  <2> QED
    BY <2>7, <2>8, <2>9, <2>10, <2>11 DEF Inv
<1>12. CASE PublishPut(t)
  <2> DEFINE m == Encrypt(tasks[t].topic, tasks[t].ck, tasks[t].next)
  <2>1. /\ tasks[t].op = "put"
        /\ published' = published \cup {m}
        /\ tasks' = [tasks EXCEPT ![t] = Idle]
        /\ UNCHANGED <<currentCks, nextCks>>
    BY <1>12 DEF PublishPut, storeVars
  <2>2. tasks[t].topic \in Topics /\ tasks[t].ck \in Known[tasks[t].topic]
    BY <2>1, <1>4
  <2>3. /\ tasks[t].next \in CkIds \cup {None}
        /\ tasks[t].next # None =>
               \E k \in Known[tasks[t].topic] : tasks[t].next = Id(k)
    BY <2>1, <1>1 DEF TypeOK, TaskStates, TaskHolds, Idle
  <2>4. /\ m.topic = tasks[t].topic
        /\ m.body = tasks[t].ck
        /\ m.ckId = Id(m.body)
        /\ m.nextId = tasks[t].next
        /\ m \in Messages
    BY <2>2, <2>3, KnownKeys DEF Encrypt, Messages, CkIds
  <2>5. tasks'[t] = Idle /\ \A u \in Tasks : u # t => tasks'[u] = tasks[u]
    BY <2>1, <1>1 DEF TypeOK
  <2>6. TypeOK'
    BY <2>1, <2>4, <1>1, <1>2, IdleType DEF TypeOK
  <2>7. TaskHolds'
    BY <2>5, <1>1, <1>3 DEF TaskHolds
  <2>8. SlotsKnown' /\ HeadersKnown'
    BY <2>1, <2>2, <2>3, <2>4, <1>1, <1>3 DEF SlotsKnown, HeadersKnown
  <2>9. GeneratedPrivate'
    BY <2>1, <2>5, <1>1, <1>4 DEF GeneratedPrivate, Generating, Idle
  <2>10. NextDiffersFromCurrent'
    BY <2>1, <2>5, <1>1 DEF NextDiffersFromCurrent, Rotated
  <2> QED
    BY <2>6, <2>7, <2>8, <2>9, <2>10 DEF Inv
<1> QED
  BY <1>5, <1>6, <1>7, <1>8, <1>9, <1>10, <1>11, <1>12

LEMMA NextInv == Inv /\ [Next]_vars => Inv'
<1> SUFFICES ASSUME Inv, [Next]_vars PROVE Inv'
  OBVIOUS
<1>1. CASE Next
  <2>1. PICK t \in Tasks : Step(t)
    BY <1>1 DEF Next
  <2>2. CASE \E tp \in Topics :
                InitializeGenerate(t, tp) \/ PrepareGenerate(t, tp)
    BY <2>2, GenerateInv DEF InitializeGenerate, PrepareGenerate
  <2>3. CASE \/ \E tp \in Topics :
                   RotateGetNext(t, tp) \/ PublishGetCurrent(t, tp)
             \/ InitializeSetCurrent(t)
             \/ PrepareSetNext(t)
             \/ RotateSetCurrent(t)
             \/ RotateRemoveNext(t)
             \/ PublishGetNext(t)
             \/ PublishPut(t)
    BY <2>3, OtherStepsInv
  <2> QED
    BY <2>1, <2>2, <2>3 DEF Step
<1>2. CASE UNCHANGED vars
  <2>1. Known' = Known
    BY <1>2, KeysUnchanged DEF vars
  <2>2. TypeOK' /\ TaskHolds' /\ SlotsKnown' /\ HeadersKnown'
    BY <1>2, <2>1 DEF vars, Inv, TypeOK, TaskHolds, SlotsKnown, HeadersKnown
  <2>3. GeneratedPrivate'
    BY <1>2 DEF vars, Inv, GeneratedPrivate, Generating
  <2>4. NextDiffersFromCurrent'
    BY <1>2 DEF vars, Inv, NextDiffersFromCurrent, Rotated
  <2> QED
    BY <2>2, <2>3, <2>4 DEF Inv
<1> QED
  BY <1>1, <1>2

LEMMA InvCorrect == Spec => []Inv
  BY InitInv, NextInv, PTL DEF Spec
-----------------------------------------------------------------------------
\* Every variable keeps its type, whatever tasks call, in whatever order.
THEOREM TypeCorrect == Spec => []TypeOK
  BY InvCorrect, PTL DEF Inv

\* The ids in the header of a published message stay resolvable at the
\* producer, to the key the body was sealed with and to a key of its topic.
THEOREM ResolvableCorrect == Spec => []Resolvable
<1>1. Inv => Resolvable
  <2> SUFFICES ASSUME Inv, NEW m \in published
               PROVE  /\ m.ckId = Id(m.body)
                      /\ Registered(m.body, m.topic)
                      /\ m.nextId # None =>
                             \E k \in Keys : m.nextId = Id(k)
                                             /\ Registered(k, m.topic)
    BY DEF Resolvable
  <2>1. m.topic \in Topics
    BY DEF Inv, TypeOK, Messages
  <2> QED
    BY <2>1 DEF Inv, HeadersKnown, Known
<1> QED
  BY <1>1, InvCorrect, PTL

\* A topic's next key differs from its current one but within a rotation.
THEOREM NextDiffersCorrect == Spec => []NextDiffersFromCurrent
  BY InvCorrect, PTL DEF Inv

\* No step forgets an id or gives it another key or topic.
THEOREM KeysStableCorrect == Spec => KeysStable
<1>1. TypeOK /\ [Next]_vars =>
         [\A id \in CkIds : keys[id] # None => keys'[id] = keys[id]]_vars
  <2> SUFFICES ASSUME TypeOK, Next, NEW id \in CkIds, keys[id] # None
               PROVE  keys'[id] = keys[id]
    OBVIOUS
  <2>1. PICK t \in Tasks : Step(t)
    BY DEF Next
  <2>2. CASE \E tp \in Topics, op \in {"initialize", "prepare"} :
                GenerateContentKey(t, tp, op)
    <3>1. PICK tp \in Topics, k \in Fresh : keys' = AddCk(k, tp)
      BY <2>2 DEF GenerateContentKey
    <3> QED
      BY <3>1, AddCkKnown DEF TypeOK, CkIds
  <2>3. CASE keys' = keys
    BY <2>3
  <2> QED
    BY <2>1, <2>2, <2>3
    DEF Step, InitializeGenerate, PrepareGenerate, RotateGetNext,
        PublishGetCurrent, InitializeSetCurrent, PrepareSetNext,
        RotateSetCurrent, RotateRemoveNext, PublishGetNext, PublishPut,
        storeVars
<1> QED
  BY <1>1, TypeCorrect, PTL DEF Spec, KeysStable

\* A step of the producer adds a key, puts a message that names registered
\* keys, or changes neither store nor messages.
LEMMA StepPublishes ==
  ASSUME Inv, Next
  PROVE  Promise!Next \/ UNCHANGED Promise!vars
<1>1. TypeOK /\ TaskHolds
  BY DEF Inv
<1>2. PICK t \in Tasks : Step(t)
  BY DEF Next
<1>3. CASE \E tp \in Topics, op \in {"initialize", "prepare"} :
              GenerateContentKey(t, tp, op)
  <2>1. PICK tp \in Topics, k \in Fresh : keys' = AddCk(k, tp)
    BY <1>3 DEF GenerateContentKey
  <2>2. published' = published
    BY <1>3 DEF GenerateContentKey
  <2>3. Promise!Register(k, tp)
    BY <2>1, <2>2 DEF Promise!Register, Fresh, AddCk
  <2>4. k \in Keys
    BY <2>1 DEF Fresh
  <2> QED
    BY <2>3, <2>4 DEF Promise!Next
<1>4. CASE PublishPut(t)
  <2> DEFINE tp == tasks[t].topic
             m == Encrypt(tp, tasks[t].ck, tasks[t].next)
  <2>1. tasks[t] # Idle /\ tasks[t] \in TaskStates
    BY <1>4, <1>1 DEF PublishPut, Idle, TypeOK
  <2>2. /\ tp \in Topics
        /\ tasks[t].ck \in Known[tp]
        /\ tasks[t].next # None =>
              \E k \in Known[tp] : tasks[t].next = Id(k)
    BY <2>1, <1>1 DEF TaskHolds
  <2>3. /\ m.topic = tp /\ m.body = tasks[t].ck
        /\ m.ckId = Id(tasks[t].ck) /\ m.nextId = tasks[t].next
    BY DEF Encrypt
  <2>4. tasks[t].ck \in Keys /\ Id(tasks[t].ck) \in CkIds
    BY <2>2, KnownKeys DEF CkIds
  <2>5. tasks[t].next \in CkIds \cup {None}
    BY <2>1 DEF TaskStates
  <2>6. m \in Promise!Messages
    BY <2>2, <2>4, <2>5 DEF Encrypt, Promise!Messages, Promise!CkIds, CkIds
  <2>7. \A k \in Known[tp] : k \in Keys /\ Promise!Registered(k, tp)
    BY <2>2 DEF Known, Registered, Promise!Registered
  <2>8. published' = published \cup {m} /\ keys' = keys
    BY <1>4 DEF PublishPut, storeVars
  <2>9. m.nextId # None =>
            \E k \in Keys : m.nextId = Id(k) /\ Promise!Registered(k, m.topic)
    BY <2>2, <2>3, <2>7
  <2>10. Promise!Registered(m.body, m.topic)
    BY <2>2, <2>3, <2>7
  <2>11. Promise!Publish(m)
    <3> HIDE DEF m
    <3> QED
      BY <2>3, <2>8, <2>9, <2>10 DEF Promise!Publish
  <2> QED
    BY <2>6, <2>11 DEF Promise!Next
<1>5. CASE \/ \E tp \in Topics : RotateGetNext(t, tp) \/ PublishGetCurrent(t, tp)
           \/ InitializeSetCurrent(t)
           \/ PrepareSetNext(t)
           \/ RotateSetCurrent(t)
           \/ RotateRemoveNext(t)
           \/ PublishGetNext(t)
  BY <1>5
  DEF RotateGetNext, PublishGetCurrent, InitializeSetCurrent, PrepareSetNext,
      RotateSetCurrent, RotateRemoveNext, PublishGetNext, storeVars,
      Promise!vars
<1> QED
  BY <1>2, <1>3, <1>4, <1>5
  DEF Step, InitializeGenerate, PrepareGenerate

\* However its tasks interleave, the producer enters each key once and puts
\* only messages whose keys can be fetched: what KeyDelivery relies on.
THEOREM RefinesPublishingCorrect == Spec => RefinesPublishing
<1>1. Init => Promise!Init
  BY DEF Init, Promise!Init, CkIds, Promise!CkIds
<1>2. Inv /\ [Next]_vars => [Promise!Next]_(Promise!vars)
  BY StepPublishes DEF vars, Promise!vars
<1> QED
  BY <1>1, <1>2, InvCorrect, PTL DEF Spec, RefinesPublishing, Promise!Spec
-----------------------------------------------------------------------------
(* Topics managed by one task each. *)

\* A task works only on topics it manages, and until it has removed the next
\* key it is rotating to, that key stays the next one.
Owned ==
    \A t \in Tasks :
        /\ tasks[t].op \in {"initialize", "prepare", "rotate", "rotated"} =>
               tasks[t].topic \in Manages[t]
        /\ tasks[t].op \in {"rotate", "rotated"} =>
               nextCks[tasks[t].topic] = tasks[t].ck

LEMMA OwnedInv ==
  ASSUME SerialManagers, Inv, Owned, [Next]_vars
  PROVE  Owned'
<1>1. TypeOK /\ TaskHolds
  BY DEF Inv
<1>2. CASE UNCHANGED vars
  BY <1>2 DEF vars, Owned
<1>3. CASE Next
  <2>1. PICK t \in Tasks : Step(t)
    BY <1>3 DEF Next
  <2>2. \A u \in Tasks : u # t => tasks'[u] = tasks[u]
    BY <2>1, <1>1
    DEF Step, InitializeGenerate, PrepareGenerate, GenerateContentKey,
        RotateGetNext, PublishGetCurrent, InitializeSetCurrent,
        PrepareSetNext, RotateSetCurrent, RotateRemoveNext, PublishGetNext,
        PublishPut, TypeOK
  <2>3. ASSUME tasks[t].op \in {"prepare", "rotated"},
               NEW u \in Tasks, u # t,
               tasks[u].op \in {"rotate", "rotated"}
        PROVE  tasks[u].topic # tasks[t].topic
    BY <2>3 DEF Owned, SerialManagers
  <2>4. ASSUME tasks'[t] = Idle,
               \/ nextCks' = nextCks
               \/ /\ tasks[t].op \in {"prepare", "rotated"}
                  /\ \E k : nextCks' = [nextCks EXCEPT ![tasks[t].topic] = k]
        PROVE  Owned'
    BY <2>2, <2>3, <2>4, <1>1 DEF Owned, Idle, TypeOK, TaskHolds
  <2>5. CASE \E tp \in Topics, op \in {"initialize", "prepare"} :
                GenerateContentKey(t, tp, op)
    BY <2>2, <2>5, <1>1 DEF GenerateContentKey, Owned, TypeOK
  <2>6. CASE \E tp \in Topics : RotateGetNext(t, tp)
    BY <2>2, <2>6, <1>1 DEF RotateGetNext, storeVars, Owned, TypeOK
  <2>7. CASE \E tp \in Topics : PublishGetCurrent(t, tp)
    BY <2>2, <2>7, <1>1 DEF PublishGetCurrent, storeVars, Owned, TypeOK
  <2>8. CASE InitializeSetCurrent(t)
    BY <2>4, <2>8, <1>1 DEF InitializeSetCurrent, TypeOK
  <2>9. CASE PrepareSetNext(t)
    BY <2>4, <2>9, <1>1 DEF PrepareSetNext, SetNextCk, TypeOK
  <2>10. CASE RotateSetCurrent(t)
    <3>1. /\ tasks'[t].op = "rotated"
          /\ tasks'[t].topic = tasks[t].topic
          /\ tasks'[t].ck = tasks[t].ck
          /\ nextCks' = nextCks
          /\ tasks[t].op = "rotate"
      BY <2>10, <1>1 DEF RotateSetCurrent, TypeOK, TaskStates
    <3> QED
      BY <3>1, <2>2 DEF Owned
  <2>11. CASE RotateRemoveNext(t)
    BY <2>4, <2>11, <1>1 DEF RotateRemoveNext, RemoveNextCk, TypeOK
  <2>12. CASE PublishGetNext(t)
    <3>1. tasks'[t].op = "put" /\ nextCks' = nextCks
      BY <2>12, <1>1 DEF PublishGetNext, storeVars, TypeOK, TaskStates
    <3> QED
      BY <3>1, <2>2 DEF Owned
  <2>13. CASE PublishPut(t)
    BY <2>4, <2>13, <1>1 DEF PublishPut, storeVars, TypeOK
  <2> QED
    BY <2>1, <2>5, <2>6, <2>7, <2>8, <2>9, <2>10, <2>11, <2>12, <2>13
    DEF Step, InitializeGenerate, PrepareGenerate
<1> QED
  BY <1>2, <1>3

LEMMA SerialInvCorrect ==
  ASSUME SerialManagers
  PROVE  Spec => [](Inv /\ Owned)
<1>1. Init => Owned
  BY DEF Init, Owned, Idle
<1> QED
  BY <1>1, InitInv, NextInv, OwnedInv, PTL DEF Spec

\* What a rotation removes is the key it promoted, if one task manages each
\* topic.
THEOREM RemovesOnlyPromotedCorrect ==
  ASSUME SerialManagers
  PROVE  Spec => RemovesOnlyPromoted
<1>1. Owned => [\A t \in Tasks :
                   LET tp == tasks[t].topic
                   IN  tasks[t].op = "rotated" /\ nextCks'[tp] # nextCks[tp]
                           => nextCks[tp] = tasks[t].ck]_vars
  BY DEF Owned
<1> QED
  BY <1>1, SerialInvCorrect, PTL DEF RemovesOnlyPromoted

\* A step that changes neither slot and moves no task into or out of a
\* rotation's second half or a generated key's hands is invisible.
LEMMA Invisible ==
  ASSUME TypeOK, NEW t \in Tasks,
         \A u \in Tasks : u # t => tasks'[u] = tasks[u],
         tasks[t].op \notin {"initialize", "prepare", "rotated"},
         tasks'[t].op \notin {"initialize", "prepare", "rotated"},
         UNCHANGED <<keys, currentCks, nextCks>>
  PROVE  UNCHANGED <<currentCks, RingNext, RingUnused>>
<1>1. RingNext' = RingNext
  BY DEF RingNext, Rotated
<1>2. RingUnused' = RingUnused
  BY DEF RingUnused, Generating, Fresh
<1> QED
  BY <1>1, <1>2

LEMMA StepRefines ==
  ASSUME SerialManagers, Inv, Owned, Next
  PROVE  Ring!Next \/ UNCHANGED <<currentCks, RingNext, RingUnused>>
<1>1. TypeOK /\ TaskHolds /\ SlotsKnown /\ GeneratedPrivate
  BY DEF Inv
<1>2. PICK t \in Tasks : Step(t)
  BY DEF Next
<1>3. \A u \in Tasks : u # t => tasks'[u] = tasks[u]
  BY <1>2, <1>1
  DEF Step, InitializeGenerate, PrepareGenerate, GenerateContentKey,
      RotateGetNext, PublishGetCurrent, InitializeSetCurrent,
      PrepareSetNext, RotateSetCurrent, RotateRemoveNext, PublishGetNext,
      PublishPut, TypeOK
\* Of the tasks that are rotating, only a topic's manager rotates the topic.
<1>4. ASSUME tasks[t].op \in {"prepare", "rotate"},
             NEW u \in Tasks, tasks[u].op = "rotated"
      PROVE  tasks[u].topic # tasks[t].topic
  <2>1. u # t
    BY <1>4
  <2> QED
    BY <2>1, <1>4 DEF Owned, SerialManagers
<1>5. ASSUME Generating(t), tasks'[t] = Idle, keys' = keys
      PROVE  /\ tasks[t].ck \in RingUnused
             /\ RingUnused' = RingUnused \ {tasks[t].ck}
  <2>1. Fresh' = Fresh
    BY <1>5, KeysUnchanged
  <2>2. tasks[t].topic \in Topics /\ tasks[t].ck \in Known[tasks[t].topic]
    BY <1>5, <1>1 DEF TaskHolds, Generating, Idle
  <2>3. tasks[t].ck \notin Fresh
    <3>1. /\ tasks[t].ck \in Keys
          /\ keys[Id(tasks[t].ck)] =
                 [topic |-> tasks[t].topic, ck |-> tasks[t].ck]
      BY <2>2 DEF Known, Registered
    <3>2. keys[Id(tasks[t].ck)] # None
      BY <2>2, <3>1, NoneAssumption
    <3> QED
      BY <3>2 DEF Fresh
  <2>4. \A u \in Tasks : Generating(u)' <=> u # t /\ Generating(u)
    BY <1>3, <1>5 DEF Generating, Idle
  <2>5. \A u \in Tasks : u # t /\ Generating(u) =>
            tasks'[u].ck = tasks[u].ck /\ tasks[u].ck # tasks[t].ck
    BY <1>3, <1>5, <1>1 DEF GeneratedPrivate
  <2> QED
    BY <2>1, <2>3, <2>4, <2>5, <1>5 DEF RingUnused
<1>6. CASE \E tp \in Topics, op \in {"initialize", "prepare"} :
              GenerateContentKey(t, tp, op)
  <2>1. PICK tp \in Topics, op \in {"initialize", "prepare"}, k \in Fresh :
           /\ tasks[t] = Idle
           /\ keys' = AddCk(k, tp)
           /\ tasks' = [tasks EXCEPT ![t] =
                  [op |-> op, topic |-> tp, ck |-> k, next |-> None]]
           /\ UNCHANGED <<currentCks, nextCks>>
    BY <1>6 DEF GenerateContentKey
  <2>2. tasks'[t].op = op /\ tasks'[t].ck = k /\ tasks[t].op = "idle"
    BY <2>1, <1>1 DEF TypeOK, Idle
  <2>3. RingNext' = RingNext
    BY <2>1, <2>2, <1>3 DEF RingNext, Rotated
  <2>4. Fresh' = Fresh \ {k}
    <3>1. k \in Keys /\ \A l \in Keys : Id(l) \in CkIds
      BY <2>1 DEF Fresh, CkIds
    <3>2. [topic |-> tp, ck |-> k] # None
      BY <3>1, NoneAssumption
    <3>3. \A l \in Keys : l # k => Id(l) # Id(k)
      BY <3>1, IdInjective
    <3> QED
      BY <3>1, <3>2, <3>3, <2>1, <1>1 DEF Fresh, AddCk, TypeOK
  <2>5. \A u \in Tasks : Generating(u)' <=> u = t \/ Generating(u)
    BY <2>2, <1>3 DEF Generating
  <2>6. \A u \in Tasks : Generating(u) => tasks'[u].ck = tasks[u].ck
    BY <2>2, <1>3 DEF Generating
  <2>7. RingUnused' = RingUnused
    BY <2>1, <2>2, <2>4, <2>5, <2>6 DEF RingUnused
  <2> QED
    BY <2>1, <2>3, <2>7
<1>7. CASE \E tp \in Topics : RotateGetNext(t, tp) \/ PublishGetCurrent(t, tp)
  <2>1. /\ tasks[t].op = "idle"
        /\ tasks'[t].op \in {"rotate", "publish"}
        /\ UNCHANGED <<keys, currentCks, nextCks>>
    BY <1>7, <1>1
    DEF RotateGetNext, PublishGetCurrent, storeVars, Idle, TypeOK
  <2> QED
    BY <2>1, <1>1, <1>3, Invisible
<1>8. CASE PublishGetNext(t) \/ PublishPut(t)
  <2>1. /\ tasks[t].op \in {"publish", "put"}
        /\ tasks'[t].op \in {"put", "idle"}
        /\ UNCHANGED <<keys, currentCks, nextCks>>
    BY <1>8, <1>1
    DEF PublishGetNext, PublishPut, storeVars, Idle, TypeOK, TaskStates
  <2> QED
    BY <2>1, <1>1, <1>3, Invisible
<1>9. CASE InitializeSetCurrent(t)
  <2>1. /\ tasks[t].op = "initialize"
        /\ currentCks' = [currentCks EXCEPT ![tasks[t].topic] = tasks[t].ck]
        /\ tasks'[t] = Idle
        /\ keys' = keys
        /\ nextCks' = nextCks
        /\ tasks[t].topic \in Topics
    BY <1>9, <1>1
    DEF InitializeSetCurrent, SetCurrentCk, TypeOK, TaskHolds, Idle
  <2>2. RingNext' = RingNext
    BY <2>1, <1>3 DEF RingNext, Rotated, Idle
  <2>3. /\ tasks[t].ck \in RingUnused
        /\ RingUnused' = RingUnused \ {tasks[t].ck}
    BY <2>1, <1>5 DEF Generating
  <2>4. Ring!Initialize(tasks[t].topic)
    BY <2>1, <2>2, <2>3 DEF Ring!Initialize
  <2> QED
    BY <2>1, <2>4 DEF Ring!Next
<1>10. CASE PrepareSetNext(t)
  <2>1. /\ tasks[t].op = "prepare"
        /\ nextCks' = [nextCks EXCEPT ![tasks[t].topic] = tasks[t].ck]
        /\ tasks'[t] = Idle
        /\ keys' = keys
        /\ currentCks' = currentCks
        /\ tasks[t].topic \in Topics
    BY <1>10, <1>1 DEF PrepareSetNext, SetNextCk, TypeOK, TaskHolds, Idle
  <2>2. \A tp \in Topics : Rotated(tp)' <=> Rotated(tp)
    BY <2>1, <1>3 DEF Rotated, Idle
  <2>3. ~ Rotated(tasks[t].topic)
    BY <2>1, <1>4 DEF Rotated
  <2>4. RingNext' = [RingNext EXCEPT ![tasks[t].topic] = tasks[t].ck]
    BY <2>1, <2>2, <2>3, <1>1 DEF RingNext, TypeOK
  <2>5. /\ tasks[t].ck \in RingUnused
        /\ RingUnused' = RingUnused \ {tasks[t].ck}
    BY <2>1, <1>5 DEF Generating
  <2>6. Ring!Prepare(tasks[t].topic)
    BY <2>1, <2>4, <2>5 DEF Ring!Prepare
  <2> QED
    BY <2>1, <2>6 DEF Ring!Next
<1>11. CASE RotateSetCurrent(t)
  <2> DEFINE tp == tasks[t].topic
  <2>1. /\ tasks[t].op = "rotate"
        /\ currentCks' = [currentCks EXCEPT ![tp] = tasks[t].ck]
        /\ tasks'[t].op = "rotated"
        /\ tasks'[t].topic = tp
        /\ keys' = keys
        /\ nextCks' = nextCks
        /\ tp \in Topics
        /\ tasks[t].ck \in Known[tp]
    BY <1>11, <1>1
    DEF RotateSetCurrent, SetCurrentCk, TypeOK, TaskStates, TaskHolds, Idle
  <2>2. ~ Rotated(tp)
    BY <2>1, <1>4 DEF Rotated
  <2>3. RingNext[tp] = tasks[t].ck /\ RingNext[tp] # None
    BY <2>1, <2>2, KnownKeys DEF RingNext, Owned
  <2>4. \A x \in Topics : Rotated(x)' <=> x = tp \/ Rotated(x)
    BY <2>1, <1>3 DEF Rotated
  <2>5. RingNext' = [RingNext EXCEPT ![tp] = None]
    BY <2>1, <2>4 DEF RingNext
  <2>6. RingUnused' = RingUnused
    BY <2>1, <1>3 DEF RingUnused, Generating, Fresh
  <2>7. Ring!Rotate(tp)
    BY <2>1, <2>3, <2>5, <2>6 DEF Ring!Rotate
  <2> QED
    BY <2>1, <2>7 DEF Ring!Next
<1>12. CASE RotateRemoveNext(t)
  <2> DEFINE tp == tasks[t].topic
  <2>1. /\ tasks[t].op = "rotated"
        /\ nextCks' = [nextCks EXCEPT ![tp] = None]
        /\ tasks'[t] = Idle
        /\ keys' = keys
        /\ currentCks' = currentCks
        /\ tp \in Topics
    BY <1>12, <1>1 DEF RotateRemoveNext, RemoveNextCk, TypeOK, TaskHolds, Idle
  <2>2. Rotated(tp) /\ \A x \in Topics : x # tp => (Rotated(x)' <=> Rotated(x))
    BY <2>1, <1>3 DEF Rotated, Idle
  <2>3. RingNext' = RingNext
    BY <2>1, <2>2, <1>1 DEF RingNext, TypeOK
  <2>4. RingUnused' = RingUnused
    BY <2>1, <1>3 DEF RingUnused, Generating, Fresh, Idle
  <2> QED
    BY <2>1, <2>3, <2>4
<1> QED
  BY <1>2, <1>6, <1>7, <1>8, <1>9, <1>10, <1>11, <1>12
  DEF Step, InitializeGenerate, PrepareGenerate

\* With one task managing each topic, the producer's several store operations
\* per call amount to the indivisible operations of KeyRing.
THEOREM RefinesKeyRingCorrect ==
  ASSUME SerialManagers
  PROVE  Spec => RefinesKeyRing
<1>1. Init => Ring!Init
  <2> SUFFICES ASSUME Init PROVE Ring!Init
    OBVIOUS
  <2>1. RingNext = [tp \in Topics |-> None]
    BY DEF Init, RingNext, Rotated, Idle
  <2>2. Fresh = Keys
    BY DEF Init, Fresh, CkIds
  <2>3. {t \in Tasks : Generating(t)} = {}
    BY DEF Init, Generating, Idle
  <2>4. RingUnused = Keys
    BY <2>2, <2>3 DEF RingUnused
  <2> QED
    BY <2>1, <2>4 DEF Init, Ring!Init
<1>2. Inv /\ Owned /\ [Next]_vars => [Ring!Next]_(Ring!vars)
  <2>1. ASSUME UNCHANGED vars PROVE UNCHANGED Ring!vars
    BY <2>1
    DEF vars, Ring!vars, RingNext, Rotated, RingUnused, Generating, Fresh
  <2> QED
    BY <2>1, StepRefines DEF Ring!vars
<1> QED
  BY <1>1, <1>2, SerialInvCorrect, PTL DEF Spec, RefinesKeyRing, Ring!Spec
-----------------------------------------------------------------------------
(* Topics managed by one task each, and initialized before anything else:  *)
(* the order in which keys are generated.                                  *)

NotOlder(k, l) == k = l \/ Older(l, k)

\* Keys older than an older key are older: elders has all that were added.
EldersAdded ==
    \A k \in Keys :
        /\ elders[k] \subseteq Keys \ Fresh
        /\ \A l \in elders[k] : elders[l] \subseteq elders[k]

\* A topic's next key is no older than its current key, and a key that is about
\* to become either is newer.
SlotsOrdered ==
    /\ \A tp \in Topics :
          currentCks[tp] # None /\ nextCks[tp] # None
              => NotOlder(nextCks[tp], currentCks[tp])
    /\ \A t \in Tasks :
          LET tp == tasks[t].topic
          IN  /\ tasks[t].op = "initialize" =>
                     currentCks[tp] = None /\ nextCks[tp] = None
              /\ tasks[t].op = "prepare" /\ currentCks[tp] # None =>
                     Older(currentCks[tp], tasks[t].ck)

\* A task that publishes has a key that was current, and then the id of one
\* that is no older.
PublishesInOrder ==
    \A t \in Tasks :
        LET tp == tasks[t].topic
        IN  /\ tasks[t].op = "publish" =>
                   currentCks[tp] # None /\ NotOlder(currentCks[tp], tasks[t].ck)
            /\ tasks[t].op = "put" /\ tasks[t].next # None =>
                   \E k \in Keys : /\ tasks[t].next = Id(k)
                                   /\ NotOlder(k, tasks[t].ck)

InOrder == EldersAdded /\ SlotsOrdered /\ PublishesInOrder /\ NextIdNotOlder

LEMMA KnownAdded == \A tp \in Topics : Known[tp] \subseteq Keys \ Fresh
  BY NoneAssumption DEF Known, Registered, Fresh

LEMMA NotOlderTransitive ==
  ASSUME EldersAdded, NEW j \in Keys, NEW k, NEW l,
         NotOlder(j, k), NotOlder(k, l)
  PROVE  NotOlder(j, l)
  BY DEF EldersAdded, NotOlder, Older

\* Generating: the new key is newer than every other, and the order of those is
\* as before.
LEMMA GenerateOrder ==
  ASSUME Inv, EldersAdded, NEW t \in Tasks, NEW tp \in Topics, NEW op,
         NEW k \in Fresh, keys' = AddCk(k, tp),
         elders' = [elders EXCEPT ![k] = Keys \ Fresh]
  PROVE  /\ EldersAdded'
         /\ elders'[k] = Keys \ Fresh
         /\ \A l \in Keys \ Fresh : elders'[l] = elders[l]
<1>1. TypeOK /\ k \in Keys
  BY DEF Inv, Fresh
<1>2. Fresh' \subseteq Fresh /\ k \notin Fresh'
  <2>1. keys'[Id(k)] = [topic |-> tp, ck |-> k]
    BY <1>1 DEF TypeOK, AddCk, CkIds
  <2>2. [topic |-> tp, ck |-> k] # None
    BY <1>1, NoneAssumption
  <2>3. \A l \in Keys : keys[Id(l)] # None => keys'[Id(l)] # None
    BY <1>1, AddCkKnown DEF TypeOK
  <2> QED
    BY <2>1, <2>2, <2>3 DEF Fresh
<1>3. elders'[k] = Keys \ Fresh /\ \A l \in Keys : l # k => elders'[l] = elders[l]
  BY <1>1 DEF TypeOK
<1>4. EldersAdded'
  <2>1. ASSUME NEW l \in Keys PROVE elders'[l] \subseteq Keys \ Fresh'
    BY <1>1, <1>2, <1>3 DEF EldersAdded
  <2>2. ASSUME NEW l \in Keys, NEW j \in elders'[l]
        PROVE  elders'[j] \subseteq elders'[l]
    <3>1. j \in Keys \ Fresh /\ j # k
      BY <1>3, <2>2 DEF EldersAdded
    <3>2. elders'[j] = elders[j] /\ elders[j] \subseteq Keys \ Fresh
      BY <1>3, <3>1 DEF EldersAdded
    <3> QED
      BY <1>3, <2>2, <3>2 DEF EldersAdded
  <2> QED
    BY <2>1, <2>2 DEF EldersAdded
<1> QED
  BY <1>3, <1>4

\* What a header names is no older than its body, in the order of any moment
\* after it was put.
LEMMA HeadersStayInOrder ==
  ASSUME Inv, NextIdNotOlder, published' = published,
         \A l \in Keys \ Fresh : elders'[l] = elders[l]
  PROVE  NextIdNotOlder'
<1>1. ASSUME NEW m \in published, m.nextId # None
      PROVE  \E k \in Keys : m.nextId = Id(k) /\ (k = m.body \/ Older(m.body, k)')
  <2>1. PICK k \in Keys : m.nextId = Id(k) /\ (k = m.body \/ Older(m.body, k))
    BY <1>1 DEF NextIdNotOlder
  <2>2. m.topic \in Topics
    BY DEF Inv, TypeOK, Messages
  <2>3. PICK l \in Known[m.topic] : m.nextId = Id(l)
    BY <1>1 DEF Inv, HeadersKnown
  <2>4. l \in Keys \ Fresh
    BY <2>2, <2>3, KnownAdded
  <2>5. k = l
    BY <2>1, <2>3, <2>4, IdInjective
  <2> QED
    BY <2>1, <2>4, <2>5 DEF Older
<1> QED
  BY <1>1 DEF NextIdNotOlder, Older

LEMMA GenerateInOrder ==
  ASSUME Inv, InOrder, NEW t \in Tasks, NEW tp \in Topics,
         NEW op \in {"initialize", "prepare"}, GenerateContentKey(t, tp, op),
         op = "initialize" => currentCks[tp] = None /\ nextCks[tp] = None
  PROVE  InOrder'
<1>1. PICK k \in Fresh :
         /\ keys' = AddCk(k, tp)
         /\ elders' = [elders EXCEPT ![k] = Keys \ Fresh]
         /\ tasks' = [tasks EXCEPT ![t] =
                [op |-> op, topic |-> tp, ck |-> k, next |-> None]]
  BY DEF GenerateContentKey
<1>2. UNCHANGED <<currentCks, nextCks, published>>
  BY DEF GenerateContentKey
<1>3. TypeOK /\ TaskHolds /\ SlotsKnown
  BY DEF Inv
<1>4. EldersAdded /\ SlotsOrdered /\ PublishesInOrder /\ NextIdNotOlder
  BY DEF InOrder
<1>5. /\ EldersAdded' /\ elders'[k] = Keys \ Fresh
      /\ \A l \in Keys \ Fresh : elders'[l] = elders[l]
  BY <1>1, <1>4, GenerateOrder
<1>6. /\ tasks'[t].op = op /\ tasks'[t].topic = tp /\ tasks'[t].ck = k
      /\ \A u \in Tasks : u # t => tasks'[u] = tasks[u]
  BY <1>1, <1>3 DEF TypeOK
<1>7. \A x \in Topics :
         /\ currentCks[x] # None => currentCks[x] \in Keys \ Fresh
         /\ nextCks[x] # None => nextCks[x] \in Keys \ Fresh
  BY <1>3, KnownAdded DEF SlotsKnown
<1>8. ASSUME NEW u \in Tasks, tasks[u].op # "idle"
      PROVE  /\ tasks[u].topic \in Topics /\ tasks[u].ck \in Keys \ Fresh
             /\ tasks[u].next # None =>
                    \E l \in Keys \ Fresh : tasks[u].next = Id(l)
  BY <1>3, <1>8, KnownAdded DEF TaskHolds, Idle
<1>9. SlotsOrdered'
  <2>1. ASSUME NEW x \in Topics, currentCks[x] # None, nextCks[x] # None
        PROVE  NotOlder(nextCks[x], currentCks[x])'
    BY <1>2, <1>4, <1>5, <1>7, <2>1 DEF SlotsOrdered, NotOlder, Older
  <2>2. ASSUME NEW u \in Tasks, tasks'[u].op = "initialize"
        PROVE  currentCks[tasks'[u].topic] = None /\ nextCks[tasks'[u].topic] = None
    BY <1>4, <1>6, <2>2 DEF SlotsOrdered
  <2>3. ASSUME NEW u \in Tasks, tasks'[u].op = "prepare",
               currentCks[tasks'[u].topic] # None
        PROVE  currentCks[tasks'[u].topic] \in elders'[tasks'[u].ck]
    <3>1. CASE u = t
      BY <1>5, <1>6, <1>7, <2>3, <3>1
    <3>2. CASE u # t
      BY <1>4, <1>5, <1>6, <1>8, <2>3, <3>2 DEF SlotsOrdered, Older
    <3> QED
      BY <3>1, <3>2
  <2> QED
    BY <1>2, <2>1, <2>2, <2>3 DEF SlotsOrdered, Older
<1>10. PublishesInOrder'
  <2>1. ASSUME NEW u \in Tasks, tasks'[u].op = "publish"
        PROVE  /\ currentCks[tasks'[u].topic] # None
               /\ NotOlder(currentCks[tasks[u].topic], tasks[u].ck)'
    <3>1. u # t /\ tasks'[u] = tasks[u]
      BY <1>6, <2>1
    <3> QED
      BY <3>1, <1>2, <1>4, <1>5, <1>7, <1>8, <2>1
      DEF PublishesInOrder, NotOlder, Older
  <2>2. ASSUME NEW u \in Tasks, tasks'[u].op = "put", tasks'[u].next # None
        PROVE  \E l \in Keys : /\ tasks'[u].next = Id(l)
                               /\ l = tasks'[u].ck \/ tasks'[u].ck \in elders'[l]
    <3>1. u # t /\ tasks'[u] = tasks[u]
      BY <1>6, <2>2
    <3>2. PICK l \in Keys : /\ tasks[u].next = Id(l)
                           /\ NotOlder(l, tasks[u].ck)
      BY <3>1, <2>2, <1>4 DEF PublishesInOrder
    <3>3. l \in Keys \ Fresh
      BY <3>1, <3>2, <2>2, <1>8, IdInjective
    <3> QED
      BY <3>1, <3>2, <3>3, <1>5 DEF NotOlder, Older
  <2> QED
    BY <1>2, <2>1, <2>2 DEF PublishesInOrder, NotOlder, Older
<1>11. NextIdNotOlder'
  BY <1>2, <1>4, <1>5, HeadersStayInOrder
<1> QED
  BY <1>5, <1>9, <1>10, <1>11 DEF InOrder

\* A step that generates no key keeps the order of the keys, so that all that is
\* to be shown is about the slots and the task that moves.
LEMMA StepKeepsOrder ==
  ASSUME InOrder, Inv, UNCHANGED <<keys, elders>>
  PROVE  /\ EldersAdded'
         /\ published' = published => NextIdNotOlder'
         /\ \A k, l : NotOlder(k, l)' <=> NotOlder(k, l)
         /\ \A k, l : Older(k, l)' <=> Older(k, l)
<1>1. EldersAdded'
  BY KeysUnchanged DEF InOrder, EldersAdded
<1> QED
  BY <1>1, HeadersStayInOrder DEF InOrder, NotOlder, Older

\* What SlotsOrdered and PublishesInOrder say of one task.
TaskInOrder(t) ==
    LET tp == tasks[t].topic
    IN  /\ tasks[t].op = "initialize" =>
               currentCks[tp] = None /\ nextCks[tp] = None
        /\ tasks[t].op = "prepare" /\ currentCks[tp] # None =>
               Older(currentCks[tp], tasks[t].ck)
        /\ tasks[t].op = "publish" =>
               currentCks[tp] # None /\ NotOlder(currentCks[tp], tasks[t].ck)
        /\ tasks[t].op = "put" /\ tasks[t].next # None =>
               \E k \in Keys : /\ tasks[t].next = Id(k)
                               /\ NotOlder(k, tasks[t].ck)

\* The slots of a topic are in order.
SlotInOrder(tp) ==
    currentCks[tp] # None /\ nextCks[tp] # None
        => NotOlder(nextCks[tp], currentCks[tp])

LEMMA InOrderParts ==
  /\ InOrder <=> /\ EldersAdded /\ NextIdNotOlder
                 /\ \A tp \in Topics : SlotInOrder(tp)
                 /\ \A t \in Tasks : TaskInOrder(t)
  BY DEF InOrder, SlotsOrdered, PublishesInOrder, SlotInOrder, TaskInOrder

\* A task that does not move is in order as long as its topic's slots are as
\* they were.
LEMMA OthersInOrder ==
  ASSUME Inv, InOrder, NEW u \in Tasks, tasks'[u] = tasks[u],
         UNCHANGED <<keys, elders>>,
         tasks[u].op # "idle" =>
            /\ currentCks'[tasks[u].topic] = currentCks[tasks[u].topic]
            /\ nextCks'[tasks[u].topic] = nextCks[tasks[u].topic]
  PROVE  TaskInOrder(u)'
  BY InOrderParts DEF TaskInOrder, NotOlder, Older

\* A topic gets a current key no older than the one before, and none of its
\* manager's calls is under way in another task.
LEMMA SetCurrentInOrder ==
  ASSUME Inv, InOrder, NEW u \in Tasks, tasks'[u] = tasks[u],
         UNCHANGED <<keys, elders, nextCks>>,
         NEW tp \in Topics, NEW k \in Keys,
         currentCks' = [currentCks EXCEPT ![tp] = k],
         currentCks[tp] # None => NotOlder(k, currentCks[tp]),
         tasks[u].topic = tp => tasks[u].op \notin {"initialize", "prepare"}
  PROVE  TaskInOrder(u)'
<1>1. CASE tasks[u].op = "idle" \/ tasks[u].topic # tp
  <2>1. tasks[u].op # "idle" => tasks[u].topic \in Topics
    BY DEF Inv, TaskHolds, Idle
  <2>2. tasks[u].op # "idle" =>
           currentCks'[tasks[u].topic] = currentCks[tasks[u].topic]
    BY <1>1, <2>1 DEF Inv, TypeOK
  <2> QED
    BY <2>2, OthersInOrder
<1>2. CASE tasks[u].op # "idle" /\ tasks[u].topic = tp
  <2>1. currentCks'[tp] = k /\ k # None
    BY NoneAssumption DEF Inv, TypeOK
  <2>2. tasks[u].op = "publish" => NotOlder(k, tasks[u].ck)
    BY <1>2, InOrderParts, NotOlderTransitive DEF TaskInOrder
  <2>3. tasks[u].op = "put" /\ tasks[u].next # None =>
           \E l \in Keys : tasks[u].next = Id(l) /\ NotOlder(l, tasks[u].ck)
    BY InOrderParts DEF TaskInOrder
  <2> QED
    BY <1>2, <2>1, <2>2, <2>3 DEF TaskInOrder, NotOlder, Older
<1> QED
  BY <1>1, <1>2

\* A topic's next key changes, and none of its manager's calls is under way in
\* another task.
LEMMA SetNextInOrder ==
  ASSUME Inv, InOrder, NEW u \in Tasks, tasks'[u] = tasks[u],
         UNCHANGED <<keys, elders, currentCks>>,
         NEW tp \in Topics, NEW k, nextCks' = [nextCks EXCEPT ![tp] = k],
         tasks[u].topic = tp => tasks[u].op # "initialize"
  PROVE  TaskInOrder(u)'
<1>1. tasks[u].op = "initialize" => tasks[u].topic \in Topics
  BY DEF Inv, TaskHolds, Idle
<1>2. tasks[u].op = "initialize" =>
         nextCks'[tasks[u].topic] = nextCks[tasks[u].topic]
  BY <1>1 DEF Inv, TypeOK
<1> QED
  BY <1>2, InOrderParts DEF TaskInOrder, NotOlder, Older

LEMMA InOrderInv ==
  ASSUME SerialManagers, ~ InitializeAnyTime, Inv, Owned, InOrder, [Next]_vars
  PROVE  InOrder'
<1>1. TypeOK /\ TaskHolds /\ SlotsKnown
  BY DEF Inv
<1>2. CASE UNCHANGED vars
  BY <1>2
  DEF vars, InOrder, EldersAdded, Fresh, SlotsOrdered, PublishesInOrder,
      NextIdNotOlder, NotOlder, Older
<1>3. ASSUME NEW t \in Tasks, NEW tp \in Topics,
             InitializeGenerate(t, tp) \/ PrepareGenerate(t, tp)
      PROVE  InOrder'
  BY <1>3, GenerateInOrder, BoundsAssumption
  DEF InitializeGenerate, PrepareGenerate
<1>4. ASSUME NEW t \in Tasks, UNCHANGED <<keys, elders, published>>,
             \A u \in Tasks : u # t => TaskInOrder(u)',
             TaskInOrder(t)', \A tp \in Topics : SlotInOrder(tp)'
      PROVE  InOrder'
  <2>1. EldersAdded' /\ NextIdNotOlder'
    BY <1>4, StepKeepsOrder
  <2>2. \A u \in Tasks : TaskInOrder(u)'
    BY <1>4
  <2>3. EldersAdded' /\ SlotsOrdered' /\ PublishesInOrder' /\ NextIdNotOlder'
    BY <1>4, <2>1, <2>2
    DEF SlotsOrdered, PublishesInOrder, SlotInOrder, TaskInOrder
  <2> QED
    BY <2>3 DEF InOrder
<1>5. ASSUME NEW t \in Tasks, tasks'[t] = Idle
      PROVE  TaskInOrder(t)'
  BY <1>5 DEF TaskInOrder, Idle
<1>6. ASSUME NEW t \in Tasks, Step(t), NEW u \in Tasks, u # t
      PROVE  /\ tasks'[u] = tasks[u]
             /\ /\ tasks[t].op \in {"initialize", "prepare", "rotate", "rotated"}
                /\ tasks[u].op \in {"initialize", "prepare", "rotate", "rotated"}
                => tasks[u].topic # tasks[t].topic
  <2>1. tasks'[u] = tasks[u]
    BY <1>6, <1>1
    DEF Step, InitializeGenerate, PrepareGenerate, GenerateContentKey,
        RotateGetNext, PublishGetCurrent, InitializeSetCurrent,
        PrepareSetNext, RotateSetCurrent, RotateRemoveNext, PublishGetNext,
        PublishPut, TypeOK
  <2> QED
    BY <1>6, <2>1 DEF Owned, SerialManagers
<1>7. ASSUME NEW t \in Tasks, tasks[t].op # "idle"
      PROVE  tasks[t].topic \in Topics /\ tasks[t].ck \in Keys
  BY <1>1, <1>7, KnownKeys DEF TaskHolds, Idle
<1>8. ASSUME NEW t \in Tasks, Step(t), UNCHANGED <<storeVars, elders>>
      PROVE  /\ \A u \in Tasks : u # t => TaskInOrder(u)'
             /\ \A tp \in Topics : SlotInOrder(tp)'
  <2>1. \A u \in Tasks : u # t => TaskInOrder(u)'
    BY <1>6, <1>8, OthersInOrder DEF storeVars
  <2>2. \A tp \in Topics : SlotInOrder(tp)'
    BY <1>8, InOrderParts DEF storeVars, SlotInOrder, NotOlder, Older
  <2> QED
    BY <2>1, <2>2
<1>9. ASSUME NEW t \in Tasks, NEW tp \in Topics,
             RotateGetNext(t, tp) \/ PublishGetCurrent(t, tp)
      PROVE  InOrder'
  <2>1. UNCHANGED <<storeVars, elders, published>> /\ Step(t)
    BY <1>9 DEF RotateGetNext, PublishGetCurrent, Step
  <2>2. TaskInOrder(t)'
    <3>1. CASE RotateGetNext(t, tp)
      BY <1>1, <3>1 DEF RotateGetNext, TypeOK, TaskInOrder
    <3>2. CASE PublishGetCurrent(t, tp)
      BY <1>1, <3>2
      DEF PublishGetCurrent, storeVars, TypeOK, TaskInOrder, NotOlder
    <3> QED
      BY <1>9, <3>1, <3>2
  <2> QED
    BY <2>1, <2>2, <1>4, <1>8 DEF storeVars
<1>10. ASSUME NEW t \in Tasks, PublishGetNext(t)
       PROVE  InOrder'
  <2>1. UNCHANGED <<storeVars, elders, published>> /\ Step(t)
    BY <1>10 DEF PublishGetNext, Step
  <2>2. /\ tasks[t].op = "publish" /\ tasks[t] \in TaskStates
        /\ tasks'[t].op = "put" /\ tasks'[t].next = NextId(tasks[t].topic)
        /\ tasks'[t].ck = tasks[t].ck
    BY <1>1, <1>10 DEF PublishGetNext, TypeOK, TaskStates
  <2>3. /\ tasks[t].topic \in Topics /\ currentCks[tasks[t].topic] # None
        /\ NotOlder(currentCks[tasks[t].topic], tasks[t].ck)
    BY <2>2, <1>7, InOrderParts DEF TaskInOrder
  <2>4. ASSUME tasks'[t].next # None
        PROVE  \E k \in Keys : tasks'[t].next = Id(k) /\ NotOlder(k, tasks[t].ck)
    <3> DEFINE k == nextCks[tasks[t].topic]
    <3>1. k # None /\ tasks'[t].next = Id(k)
      BY <2>2, <2>4 DEF NextId
    <3>2. k \in Keys /\ NotOlder(k, currentCks[tasks[t].topic])
      BY <2>3, <3>1, <1>1, InOrderParts DEF SlotInOrder, TypeOK
    <3>3. NotOlder(k, tasks[t].ck)
      BY <2>3, <3>2, NotOlderTransitive, InOrderParts
    <3> QED
      BY <3>1, <3>2, <3>3
  <2>5. TaskInOrder(t)'
    BY <2>1, <2>2, <2>4 DEF TaskInOrder, NotOlder, Older
  <2> QED
    BY <2>1, <2>5, <1>4, <1>8 DEF storeVars
<1>11. ASSUME NEW t \in Tasks, PublishPut(t)
       PROVE  InOrder'
  <2> DEFINE m == Encrypt(tasks[t].topic, tasks[t].ck, tasks[t].next)
  <2>1. /\ UNCHANGED <<storeVars, elders>> /\ Step(t) /\ tasks'[t] = Idle
        /\ tasks[t].op = "put" /\ published' = published \cup {m}
    BY <1>1, <1>11 DEF PublishPut, Step, TypeOK
  <2>2. m.body = tasks[t].ck /\ m.nextId = tasks[t].next
    BY DEF Encrypt
  <2>3. tasks[t].next # None =>
           \E k \in Keys : tasks[t].next = Id(k) /\ NotOlder(k, tasks[t].ck)
    BY <2>1, InOrderParts DEF TaskInOrder
  <2> HIDE DEF m
  <2>4. NextIdNotOlder'
    <3>1. NextIdNotOlder
      BY DEF InOrder
    <3> QED
      BY <2>1, <2>2, <2>3, <3>1 DEF NextIdNotOlder, NotOlder, Older
  <2>5. EldersAdded'
    BY <2>1, StepKeepsOrder DEF storeVars
  <2>6. (\A u \in Tasks : TaskInOrder(u)') /\ \A tp \in Topics : SlotInOrder(tp)'
    BY <2>1, <1>5, <1>8
  <2> QED
    BY <2>1, <2>4, <2>5, <2>6
    DEF InOrder, SlotsOrdered, PublishesInOrder, SlotInOrder, TaskInOrder
<1>12. ASSUME NEW t \in Tasks, InitializeSetCurrent(t)
       PROVE  InOrder'
  <2> DEFINE tp == tasks[t].topic
             k == tasks[t].ck
  <2>1. /\ UNCHANGED <<keys, nextCks, elders, published>> /\ Step(t)
        /\ tasks'[t] = Idle /\ tasks[t].op = "initialize"
        /\ currentCks' = [currentCks EXCEPT ![tp] = k]
    BY <1>1, <1>12 DEF InitializeSetCurrent, SetCurrentCk, Step, TypeOK
  <2>2. /\ tp \in Topics /\ k \in Keys
        /\ currentCks[tp] = None /\ nextCks[tp] = None
    BY <2>1, <1>7, InOrderParts DEF TaskInOrder
  <2>3. \A x \in Topics : SlotInOrder(x)'
    BY <1>1, <2>1, <2>2, InOrderParts DEF SlotInOrder, NotOlder, Older, TypeOK
  <2>4. \A u \in Tasks : u # t => TaskInOrder(u)'
    <3> HIDE DEF tp, k
    <3>1. \A u \in Tasks : u # t /\ tasks[u].topic = tp =>
             tasks[u].op \notin {"initialize", "prepare"}
      BY <1>6, <2>1 DEF tp
    <3> QED
      BY <1>6, <2>1, <2>2, <3>1, SetCurrentInOrder
  <2> QED
    BY <1>4, <1>5, <2>1, <2>3, <2>4
<1>13. ASSUME NEW t \in Tasks, RotateSetCurrent(t)
       PROVE  InOrder'
  <2> DEFINE tp == tasks[t].topic
             k == tasks[t].ck
  <2>1. /\ UNCHANGED <<keys, nextCks, elders, published>> /\ Step(t)
        /\ tasks[t].op = "rotate" /\ tasks'[t].op = "rotated"
        /\ currentCks' = [currentCks EXCEPT ![tp] = k]
    BY <1>1, <1>13 DEF RotateSetCurrent, SetCurrentCk, Step, TypeOK, TaskStates
  <2>2. tp \in Topics /\ k \in Keys /\ nextCks[tp] = k
    BY <2>1, <1>7 DEF Owned
  <2>3. currentCks[tp] # None => NotOlder(k, currentCks[tp])
    BY <2>2, InOrderParts, NoneAssumption DEF SlotInOrder
  <2>4. \A x \in Topics : SlotInOrder(x)'
    BY <1>1, <2>1, <2>2, InOrderParts DEF SlotInOrder, NotOlder, Older, TypeOK
  <2>5. \A u \in Tasks : u # t => TaskInOrder(u)'
    <3> HIDE DEF tp, k
    <3>1. \A u \in Tasks : u # t /\ tasks[u].topic = tp =>
             tasks[u].op \notin {"initialize", "prepare"}
      BY <1>6, <2>1 DEF tp
    <3> QED
      BY <1>6, <2>1, <2>2, <2>3, <3>1, SetCurrentInOrder
  <2>6. TaskInOrder(t)'
    BY <2>1 DEF TaskInOrder
  <2> QED
    BY <1>4, <2>1, <2>4, <2>5, <2>6
<1>14. ASSUME NEW t \in Tasks, PrepareSetNext(t)
       PROVE  InOrder'
  <2> DEFINE tp == tasks[t].topic
             k == tasks[t].ck
  <2>1. /\ UNCHANGED <<keys, currentCks, elders, published>> /\ Step(t)
        /\ tasks'[t] = Idle /\ tasks[t].op = "prepare"
        /\ nextCks' = [nextCks EXCEPT ![tp] = k]
    BY <1>1, <1>14 DEF PrepareSetNext, SetNextCk, Step, TypeOK
  <2>2. /\ tp \in Topics /\ k \in Keys
        /\ currentCks[tp] # None => Older(currentCks[tp], k)
    BY <2>1, <1>7, InOrderParts DEF TaskInOrder
  <2>3. \A x \in Topics : SlotInOrder(x)'
    BY <1>1, <2>1, <2>2, InOrderParts DEF SlotInOrder, NotOlder, Older, TypeOK
  <2>4. \A u \in Tasks : u # t => TaskInOrder(u)'
    <3> HIDE DEF tp, k
    <3>1. \A u \in Tasks : u # t /\ tasks[u].topic = tp =>
             tasks[u].op # "initialize"
      BY <1>6, <2>1 DEF tp
    <3> QED
      BY <1>6, <2>1, <2>2, <3>1, SetNextInOrder
  <2> QED
    BY <1>4, <1>5, <2>1, <2>3, <2>4
<1>15. ASSUME NEW t \in Tasks, RotateRemoveNext(t)
       PROVE  InOrder'
  <2> DEFINE tp == tasks[t].topic
  <2>1. /\ UNCHANGED <<keys, currentCks, elders, published>> /\ Step(t)
        /\ tasks'[t] = Idle /\ tasks[t].op = "rotated"
        /\ nextCks' = [nextCks EXCEPT ![tp] = None]
    BY <1>1, <1>15 DEF RotateRemoveNext, RemoveNextCk, Step, TypeOK
  <2>2. tp \in Topics
    BY <2>1, <1>7
  <2>3. \A x \in Topics : SlotInOrder(x)'
    BY <1>1, <2>1, <2>2, InOrderParts DEF SlotInOrder, NotOlder, Older, TypeOK
  <2>4. \A u \in Tasks : u # t => TaskInOrder(u)'
    <3> HIDE DEF tp
    <3>1. \A u \in Tasks : u # t /\ tasks[u].topic = tp =>
             tasks[u].op # "initialize"
      BY <1>6, <2>1 DEF tp
    <3> QED
      BY <1>6, <2>1, <2>2, <3>1, SetNextInOrder
  <2> QED
    BY <1>4, <1>5, <2>1, <2>3, <2>4
<1> QED
  BY <1>2, <1>3, <1>9, <1>10, <1>11, <1>12, <1>13, <1>14, <1>15 DEF Next, Step

LEMMA InOrderCorrect ==
  ASSUME SerialManagers, ~ InitializeAnyTime
  PROVE  Spec => [](Inv /\ Owned /\ InOrder)
<1>1. Init => Owned
  BY DEF Init, Owned, Idle
<1>2. Init => InOrder
  BY DEF Init, InOrder, EldersAdded, SlotsOrdered, PublishesInOrder,
         NextIdNotOlder, Idle
<1> QED
  BY <1>1, <1>2, InitInv, NextInv, OwnedInv, InOrderInv, PTL DEF Spec

\* The key a header announces as next is no older than the one the message is
\* encrypted with, although the two are read one after the other while the
\* topic's manager rotates (producer.rs get_current_content_key,
\* get_next_content_key, rotate_content_key).
THEOREM NextIdNotOlderCorrect ==
  ASSUME SerialManagers, ~ InitializeAnyTime
  PROVE  Spec => []NextIdNotOlder
<1>1. InOrder => NextIdNotOlder
  BY DEF InOrder
<1> QED
  BY <1>1, InOrderCorrect, PTL

\* A current key is replaced only by one that was generated after it
\* (producer.rs rotate_content_key).
THEOREM CurrentAdvancesCorrect ==
  ASSUME SerialManagers, ~ InitializeAnyTime
  PROVE  Spec => CurrentAdvances
<1>1. ASSUME Inv, Owned, InOrder, Next, NEW tp \in Topics,
             currentCks'[tp] # currentCks[tp], currentCks[tp] # None
      PROVE  currentCks[tp] \in elders'[currentCks'[tp]]
  <2>1. TypeOK /\ TaskHolds
    BY <1>1 DEF Inv
  <2>2. PICK t \in Tasks : Step(t)
    BY <1>1 DEF Next
  <2>3. InitializeSetCurrent(t) \/ RotateSetCurrent(t)
    BY <1>1, <2>2
    DEF Step, InitializeGenerate, PrepareGenerate, GenerateContentKey,
        RotateGetNext, PublishGetCurrent, PrepareSetNext, RotateRemoveNext,
        PublishGetNext, PublishPut, storeVars
  <2>4. /\ tasks[t].op \in {"initialize", "rotate"} /\ elders' = elders
        /\ currentCks' = [currentCks EXCEPT ![tasks[t].topic] = tasks[t].ck]
    BY <2>3 DEF InitializeSetCurrent, RotateSetCurrent, SetCurrentCk
  <2>5. tasks[t].topic = tp /\ currentCks'[tp] = tasks[t].ck
    BY <1>1, <2>1, <2>4 DEF TypeOK
  <2>6. tasks[t].op = "rotate" /\ nextCks[tp] = tasks[t].ck
    BY <1>1, <2>4, <2>5, InOrderParts DEF TaskInOrder, Owned
  <2>7. tasks[t].ck # None
    BY <2>1, <2>4, KnownKeys DEF TaskHolds, Idle
  <2>8. NotOlder(tasks[t].ck, currentCks[tp])
    BY <1>1, <2>6, <2>7, InOrderParts DEF SlotInOrder
  <2> QED
    BY <1>1, <2>4, <2>5, <2>8 DEF NotOlder, Older
<1>2. Inv /\ Owned /\ InOrder /\ [Next]_vars =>
         [\A tp \in Topics :
             currentCks'[tp] # currentCks[tp] /\ currentCks[tp] # None
                 => currentCks[tp] \in elders'[currentCks'[tp]]]_vars
  BY <1>1
<1> QED
  BY <1>2, InOrderCorrect, PTL DEF Spec, CurrentAdvances
==============================================================================
