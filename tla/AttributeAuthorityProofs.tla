----------------------- MODULE AttributeAuthorityProofs -----------------------
(***************************************************************************)
(* Theorems about AttributeAuthority for any number of clients, queries,   *)
(* updaters and generations of keys.                                       *)
(***************************************************************************)
EXTENDS AttributeAuthority, TLAPS

\* While a handler holds its read guard, the key it has copied is in force.
GuardedKeys ==
    /\ pkHandler.at = "locked" => pkHandler.gen = pk
    /\ skHandler.at = "locked" => skHandler.gen = msk

\* A handler has one of its own queries in hand, which is not yet answered,
\* and attributes that the query's client has had since it asked.
InHand ==
    /\ pkHandler.at \in {"got", "locked"} => pkHandler.query \in PkQueries
    /\ skHandler.at \in {"got", "attributes", "locked"} =>
           /\ skHandler.query \in SkQueries
           /\ query[skHandler.query].st = "waiting"
    /\ skHandler.at \in {"attributes", "locked"} =>
           /\ skHandler.attrs \in AttributeSets
           /\ skHandler.attrs \in held[skHandler.query]

\* The secret-key queries in the queue wait for an answer, each once, and none
\* of them is in hand.
QueueWaiting ==
    \A i \in 1..Len(skQueue) :
        /\ query[skQueue[i]].st = "waiting"
        /\ \A j \in 1..Len(skQueue) : i # j => skQueue[i] # skQueue[j]
        /\ skHandler.at \in {"got", "attributes", "locked"} =>
               skQueue[i] # skHandler.query

\* What the client of a waiting query is registered with now has been noted.
RegisteredHeld ==
    \A q \in SkQueries :
        query[q].st = "waiting" /\ attributes[Request[q].client] # None
            => attributes[Request[q].client] \in held[q]

Inv == /\ TypeOK /\ GuardedKeys /\ InHand
       /\ QueueWaiting /\ RegisteredHeld /\ IssuedAttributesHeld
-----------------------------------------------------------------------------
USE QueriesAssumption, AttributesAssumption, GenerationAssumption

LEMMA ZeroGeneration == 0 \in Generations
  BY DEF Generations

LEMMA HandlerTypes == Starting \in Handlers /\ Receiving \in Handlers
                      /\ Stopped \in Handlers
  BY ZeroGeneration DEF Starting, Receiving, Stopped, Handlers

LEMMA OutcomeTypes ==
  ASSUME NEW st \in {"unsent", "waiting", "replied", "unanswered"}
  PROVE  Outcome(st) \in Outcomes
  BY ZeroGeneration DEF Outcome, Outcomes

LEMMA InitInv == Init => Inv
<1> SUFFICES ASSUME Init PROVE Inv
  OBVIOUS
<1>1. TypeOK
  BY ZeroGeneration, HandlerTypes, OutcomeTypes
  DEF Init, TypeOK, NoUpdate, Updates
<1>2. GuardedKeys /\ InHand
  BY DEF Init, GuardedKeys, InHand, Starting
<1>3. QueueWaiting /\ RegisteredHeld /\ IssuedAttributesHeld
  BY DEF Init, QueueWaiting, RegisteredHeld, IssuedAttributesHeld, Outcome,
         Queries
<1> QED
  BY <1>1, <1>2, <1>3 DEF Inv

\* An update, and a registration.
LEMMA UpdateInv ==
  ASSUME Inv, NEW u \in Updaters, CallUpdate(u) \/ Update(u)
  PROVE  Inv'
<1>1. UNCHANGED <<attributes, pkQueue, skQueue, pkHandler, skHandler, query,
                  held>>
  BY DEF CallUpdate, Update, AskLock, UpdatePk, UpdateMsk
<1>2. /\ TypeOK /\ GuardedKeys /\ InHand
      /\ QueueWaiting /\ RegisteredHeld /\ IssuedAttributesHeld
  BY DEF Inv
<1>3. update[u] \in Updates
  BY <1>2 DEF TypeOK
<1>4. pk' \in Generations /\ msk' \in Generations /\ generation' \in Generations
  BY <1>2, <1>3
  DEF TypeOK, CallUpdate, Update, AskLock, UpdatePk, UpdateMsk, Updates, Generations
<1>5. update' \in [Updaters -> Updates]
  <2>1. CASE CallUpdate(u)
    <3>1. generation + 1 \in Generations
      BY <2>1, <1>2 DEF CallUpdate, TypeOK, Generations
    <3> QED
      BY <2>1, <3>1, <1>2 DEF CallUpdate, TypeOK, Updates
  <2>2. CASE UpdatePk(u)
    <3>1. [update[u] EXCEPT !.at = "askMsk"] \in Updates
      BY <1>3 DEF Updates
    <3> QED
      BY <2>2, <3>1, <1>2 DEF UpdatePk, TypeOK
  <2>3. CASE UpdateMsk(u)
    BY <2>3, <1>2, ZeroGeneration DEF UpdateMsk, TypeOK, NoUpdate, Updates
  <2>4. CASE AskLock(u)
    <3>1. [update[u] EXCEPT !.at = "pk"] \in Updates
          /\ [update[u] EXCEPT !.at = "msk"] \in Updates
      BY <1>3 DEF Updates
    <3> QED
      BY <2>4, <3>1, <1>2 DEF AskLock, TypeOK
  <2> QED
    BY <2>1, <2>2, <2>3, <2>4 DEF Update
<1>6. TypeOK'
  BY <1>1, <1>2, <1>4, <1>5 DEF TypeOK
<1>7. GuardedKeys'
  BY <1>1, <1>2
  DEF GuardedKeys, CallUpdate, Update, AskLock, UpdatePk, UpdateMsk, Readers
<1>8. InHand' /\ QueueWaiting' /\ RegisteredHeld' /\ IssuedAttributesHeld'
  BY <1>1, <1>2 DEF InHand, QueueWaiting, RegisteredHeld, IssuedAttributesHeld
<1> QED
  BY <1>6, <1>7, <1>8 DEF Inv

LEMMA SetAttributesInv ==
  ASSUME Inv, NEW c \in Clients, NEW attrs \in AttributeSets,
         SetAttributes(c, attrs)
  PROVE  Inv'
<1>1. /\ TypeOK /\ GuardedKeys /\ InHand
      /\ QueueWaiting /\ RegisteredHeld /\ IssuedAttributesHeld
  BY DEF Inv
<1>2. UNCHANGED <<pk, msk, generation, update, pkQueue, skQueue, pkHandler,
                  skHandler, query>>
  BY DEF SetAttributes, keyVars
<1>3. \A q \in SkQueries : held[q] \subseteq held'[q]
  BY DEF SetAttributes
<1>4. attributes' \in [Clients -> AttributeSets \cup {None}]
      /\ held' \in [SkQueries -> SUBSET AttributeSets]
  BY <1>1 DEF SetAttributes, TypeOK
<1>5. TypeOK'
  BY <1>1, <1>2, <1>4 DEF TypeOK
<1>6. GuardedKeys' /\ QueueWaiting'
  BY <1>1, <1>2 DEF GuardedKeys, QueueWaiting
<1>7. InHand'
  <2>1. skHandler' = skHandler /\ query' = query /\ pkHandler' = pkHandler
    BY <1>2
  <2> QED
    BY <1>1, <2>1, <1>3 DEF InHand
<1>8. RegisteredHeld'
  BY <1>1, <1>2 DEF RegisteredHeld, SetAttributes, TypeOK, Requests, Queries
<1>9. IssuedAttributesHeld'
  BY <1>1, <1>2, <1>3 DEF IssuedAttributesHeld
<1> QED
  BY <1>5, <1>6, <1>7, <1>8, <1>9 DEF Inv

\* Sending a query touches neither handler, and no query that waits.
LEMMA SendInv ==
  ASSUME Inv, \/ \E q \in PkQueries : SendPk(q)
              \/ \E q \in SkQueries : SendSk(q)
  PROVE  Inv'
<1>1. /\ TypeOK /\ GuardedKeys /\ InHand
      /\ QueueWaiting /\ RegisteredHeld /\ IssuedAttributesHeld
  BY DEF Inv
<1>2. UNCHANGED <<pk, msk, generation, update, attributes, pkHandler,
                  skHandler>>
  BY DEF SendPk, SendSk, keyVars
<1>3. PICK q \in Queries, st \in {"waiting", "unanswered"} :
         /\ query[q].st # "waiting"
         /\ query' = [query EXCEPT ![q] = Outcome(st)]
         /\ \A r \in SkQueries : r # q => held'[r] = held[r]
         /\ \/ skQueue' = skQueue /\ (q \in SkQueries => st = "unanswered")
            \/ skQueue' = Append(skQueue, q) /\ st = "waiting" /\ q \in SkQueries
         /\ attributes[Request[q].client] # None /\ q \in SkQueries
               => attributes[Request[q].client] \in held'[q]
  <2>1. CASE \E r \in PkQueries : SendPk(r)
    <3>1. PICK r \in PkQueries : SendPk(r)
      BY <2>1
    <3>2. skQueue' = skQueue /\ held' = held /\ r \in Queries /\ r \notin SkQueries
          /\ query[r].st # "waiting"
      BY <3>1 DEF SendPk, MaySend, Queries
    <3>3. \E st \in {"waiting", "unanswered"} :
             query' = [query EXCEPT ![r] = Outcome(st)]
      BY <3>1 DEF SendPk
    <3> QED
      BY <3>2, <3>3
  <2>2. CASE \E r \in SkQueries : SendSk(r)
    <3>1. PICK r \in SkQueries : SendSk(r)
      BY <2>2
    <3>2. r \in Queries /\ query[r].st # "waiting"
          /\ held' = [held EXCEPT ![r] =
                         {attributes[Request[r].client]} \ {None}]
      BY <3>1 DEF SendSk, MaySend, Queries
    <3>3. \/ skQueue' = skQueue
             /\ query' = [query EXCEPT ![r] = Outcome("unanswered")]
          \/ skQueue' = Append(skQueue, r)
             /\ query' = [query EXCEPT ![r] = Outcome("waiting")]
      BY <3>1 DEF SendSk
    <3>4. /\ \A s \in SkQueries : s # r => held'[s] = held[s]
          /\ attributes[Request[r].client] # None
                => attributes[Request[r].client] \in held'[r]
      BY <3>1, <3>2, <1>1 DEF TypeOK
    <3> QED
      BY <3>1, <3>2, <3>3, <3>4
  <2> QED
    BY <2>1, <2>2
<1>4. query'[q].st # "replied" /\ \A r \in Queries : r # q => query'[r] = query[r]
  BY <1>1, <1>3 DEF TypeOK, Outcome
<1>5. TypeOK'
  <2>1. query' \in [Queries -> Outcomes]
    BY <1>1, <1>3, OutcomeTypes DEF TypeOK
  <2>2. pkQueue' \in Seq(PkQueries) /\ skQueue' \in Seq(SkQueries)
    <3>1. ASSUME NEW r \in PkQueries, SendPk(r)
          PROVE  pkQueue' \in {pkQueue, Append(pkQueue, r)} /\ skQueue' = skQueue
      BY <3>1 DEF SendPk
    <3>2. ASSUME NEW r \in SkQueries, SendSk(r)
          PROVE  skQueue' \in {skQueue, Append(skQueue, r)} /\ pkQueue' = pkQueue
      BY <3>2 DEF SendSk
    <3>3. pkQueue \in Seq(PkQueries) /\ skQueue \in Seq(SkQueries)
      BY <1>1 DEF TypeOK
    <3>4. \A r \in PkQueries : Append(pkQueue, r) \in Seq(PkQueries)
      BY <3>3
    <3>5. \A r \in SkQueries : Append(skQueue, r) \in Seq(SkQueries)
      BY <3>3
    <3>6. CASE \E r \in PkQueries : SendPk(r)
      BY <3>6, <3>1, <3>3, <3>4
    <3>7. CASE \E r \in SkQueries : SendSk(r)
      BY <3>7, <3>2, <3>3, <3>5
    <3> QED
      BY <3>6, <3>7
  <2>3. held' \in [SkQueries -> SUBSET AttributeSets]
    <3>1. CASE \E r \in PkQueries : SendPk(r)
      BY <3>1, <1>1 DEF SendPk, TypeOK
    <3>2. CASE \E r \in SkQueries : SendSk(r)
      <4>1. PICK r \in SkQueries : SendSk(r)
        BY <3>2
      <4>2. attributes[Request[r].client] \in AttributeSets \cup {None}
        BY <1>1 DEF TypeOK, Requests, Queries
      <4> QED
        BY <4>1, <4>2, <1>1 DEF SendSk, TypeOK
    <3> QED
      BY <3>1, <3>2
  <2> QED
    BY <2>1, <2>2, <2>3, <1>1, <1>2 DEF TypeOK
<1>6. GuardedKeys'
  BY <1>1, <1>2 DEF GuardedKeys
<1>7. InHand'
  BY <1>1, <1>2, <1>3, <1>4 DEF InHand, Queries
<1>8. QueueWaiting'
  <2>1. CASE skQueue' = skQueue
    BY <2>1, <1>1, <1>2, <1>3, <1>4 DEF QueueWaiting, TypeOK, Queries
  <2>2. CASE skQueue' = Append(skQueue, q) /\ st = "waiting" /\ q \in SkQueries
    <3>1. /\ Len(skQueue') = Len(skQueue) + 1
          /\ \A i \in 1..Len(skQueue) : skQueue'[i] = skQueue[i]
          /\ skQueue'[Len(skQueue) + 1] = q
      BY <2>2, <1>1 DEF TypeOK
    <3>2. query'[q].st = "waiting"
      BY <2>2, <1>1, <1>3 DEF TypeOK, Outcome
    <3>3. \A i \in 1..Len(skQueue) : skQueue[i] \in SkQueries /\ skQueue[i] # q
      BY <1>1, <1>3 DEF QueueWaiting, TypeOK
    <3>4. skHandler.at \in {"got", "attributes", "locked"} => skHandler.query # q
      BY <1>1, <1>3 DEF InHand
    <3>5. Len(skQueue) \in Nat
          /\ \A i \in 1..Len(skQueue) : query'[skQueue[i]] = query[skQueue[i]]
      BY <3>3, <1>1, <1>4 DEF TypeOK, Queries
    <3>6. ASSUME NEW i \in 1..Len(skQueue'), i # Len(skQueue) + 1
          PROVE  i \in 1..Len(skQueue)
      BY <3>1, <3>5, <3>6
    <3>7. skHandler' = skHandler
      BY <1>2
    <3>8. SUFFICES ASSUME NEW i \in 1..Len(skQueue')
          PROVE /\ query'[skQueue'[i]].st = "waiting"
                /\ \A j \in 1..Len(skQueue') : i # j => skQueue'[i] # skQueue'[j]
                /\ skHandler.at \in {"got", "attributes", "locked"} =>
                       skQueue'[i] # skHandler.query
      BY <3>7 DEF QueueWaiting
    <3>9. CASE i = Len(skQueue) + 1
      <4>1. skQueue'[i] = q
        BY <3>9, <3>1
      <4>2. ASSUME NEW j \in 1..Len(skQueue'), i # j
            PROVE  skQueue'[j] # q
        <5>1. j \in 1..Len(skQueue)
          BY <4>2, <3>9, <3>6
        <5> QED
          BY <5>1, <3>1, <3>3
      <4>3. \A j \in 1..Len(skQueue') : i # j => skQueue'[i] # skQueue'[j]
        BY <4>1, <4>2
      <4> QED
        BY <4>1, <4>3, <3>2, <3>4
    <3>10. CASE i # Len(skQueue) + 1
      <4>1. i \in 1..Len(skQueue)
        BY <3>10, <3>6
      <4>2. \A j \in 1..Len(skQueue') : i # j => skQueue'[i] # skQueue'[j]
        BY <4>1, <3>1, <3>3, <3>6, <1>1 DEF QueueWaiting
      <4> QED
        BY <4>1, <4>2, <3>1, <3>5, <1>1 DEF QueueWaiting
    <3> QED
      BY <3>9, <3>10
  <2> QED
    BY <1>3, <2>1, <2>2
<1>9. RegisteredHeld'
  BY <1>1, <1>2, <1>3, <1>4 DEF RegisteredHeld, Queries
<1>10. IssuedAttributesHeld'
  BY <1>1, <1>3, <1>4 DEF IssuedAttributesHeld, Queries
<1> QED
  BY <1>5, <1>6, <1>7, <1>8, <1>9, <1>10 DEF Inv
-----------------------------------------------------------------------------
\* The handler of public keys ends no secret-key query.
LEMMA HandlePkInv ==
  ASSUME Inv, HandlePk
  PROVE  Inv'
<1>1. /\ TypeOK /\ GuardedKeys /\ InHand
      /\ QueueWaiting /\ RegisteredHeld /\ IssuedAttributesHeld
  BY DEF Inv
<1>2. UNCHANGED <<pk, msk, generation, update, attributes, skQueue, skHandler,
                  held>>
  BY DEF HandlePk, PkDeclare, PkReceive, PkLock, PkReply, keyVars
<1>3. /\ pkQueue' \in Seq(PkQueries)
      /\ pkHandler' \in Handlers
      /\ pkHandler'.at = "locked" => pkHandler'.gen = pk
      /\ pkHandler'.at \in {"got", "locked"} => pkHandler'.query \in PkQueries
      /\ \/ query' = query
         \/ \E q \in PkQueries, o \in Outcomes :
               query' = [query EXCEPT ![q] = o]
  <2>1. CASE PkDeclare
    BY <2>1, <1>1, HandlerTypes DEF PkDeclare, Receiving, Starting, TypeOK
  <2>2. CASE PkReceive
    <3>1. Head(pkQueue) \in PkQueries /\ Tail(pkQueue) \in Seq(PkQueries)
      BY <2>2, <1>1 DEF PkReceive, TypeOK
    <3>2. Outcome("unanswered") \in Outcomes
      BY OutcomeTypes
    <3>3. CASE Request[Head(pkQueue)].form = "wild"
      BY <2>2, <3>1, <3>2, <3>3, <1>1 DEF PkReceive, TypeOK
    <3>4. CASE Request[Head(pkQueue)].form # "wild"
      BY <2>2, <3>1, <3>4, <1>1 DEF PkReceive, TypeOK, Handlers, Queries
    <3> QED
      BY <3>3, <3>4
  <2>3. CASE PkLock
    BY <2>3, <1>1 DEF PkLock, TypeOK, Handlers, InHand
  <2>4. CASE PkReply
    <3>1. [st |-> "replied", gen |-> pkHandler.gen, attrs |-> None] \in Outcomes
      BY <1>1 DEF TypeOK, Handlers, Outcomes
    <3>2. pkHandler.query \in PkQueries
      BY <2>4, <1>1 DEF PkReply, InHand
    <3>3. query' = [query EXCEPT ![pkHandler.query] =
                       [st |-> "replied", gen |-> pkHandler.gen, attrs |-> None]]
      BY <2>4 DEF PkReply
    <3>4. pkQueue' \in Seq(PkQueries) /\ pkHandler' = Receiving
      BY <2>4, <1>1 DEF PkReply, TypeOK
    <3> QED
      BY <3>1, <3>2, <3>3, <3>4, HandlerTypes DEF Receiving, Starting
  <2> QED
    BY <2>1, <2>2, <2>3, <2>4 DEF HandlePk
<1>4. query' \in [Queries -> Outcomes]
      /\ \A q \in SkQueries : query'[q] = query[q]
  BY <1>1, <1>3 DEF TypeOK, Queries
<1>5. TypeOK'
  BY <1>1, <1>2, <1>3, <1>4 DEF TypeOK
<1>6. GuardedKeys'
  BY <1>1, <1>2, <1>3 DEF GuardedKeys
<1>7. InHand'
  BY <1>1, <1>2, <1>3, <1>4 DEF InHand
<1>8. QueueWaiting'
  <2>1. \A i \in 1..Len(skQueue) : skQueue[i] \in SkQueries
    BY <1>1 DEF TypeOK
  <2> QED
    BY <2>1, <1>1, <1>2, <1>4 DEF QueueWaiting
<1>9. RegisteredHeld' /\ IssuedAttributesHeld'
  BY <1>1, <1>2, <1>4 DEF RegisteredHeld, IssuedAttributesHeld
<1> QED
  BY <1>5, <1>6, <1>7, <1>8, <1>9 DEF Inv
-----------------------------------------------------------------------------
\* What is left of the queue when its first query has been received.
LEMMA SkQueueTail ==
  ASSUME Inv, skQueue # <<>>
  PROVE  /\ Head(skQueue) \in SkQueries
         /\ query[Head(skQueue)].st = "waiting"
         /\ Tail(skQueue) \in Seq(SkQueries)
         /\ \A i \in 1..Len(Tail(skQueue)) :
               /\ Tail(skQueue)[i] \in SkQueries
               /\ Tail(skQueue)[i] # Head(skQueue)
               /\ query[Tail(skQueue)[i]].st = "waiting"
               /\ \A j \in 1..Len(Tail(skQueue)) :
                     i # j => Tail(skQueue)[i] # Tail(skQueue)[j]
<1> DEFINE n == Len(skQueue)
           t == Tail(skQueue)
<1>1. /\ skQueue \in Seq(SkQueries) /\ n \in Nat /\ 1 \in 1..n
      /\ Head(skQueue) = skQueue[1] /\ t \in Seq(SkQueries) /\ Len(t) = n - 1
  BY DEF Inv, TypeOK
<1>2. ASSUME NEW i \in 1..Len(t)
      PROVE  t[i] = skQueue[i + 1] /\ i + 1 \in 1..n /\ i + 1 # 1
  BY <1>1
<1>3. \A i \in 1..n : /\ skQueue[i] \in SkQueries
                     /\ query[skQueue[i]].st = "waiting"
                     /\ \A j \in 1..n : i # j => skQueue[i] # skQueue[j]
  BY <1>1 DEF Inv, QueueWaiting
<1>4. ASSUME NEW i \in 1..Len(t), NEW j \in 1..Len(t), i # j
      PROVE  t[i] # t[j]
  <2>1. i + 1 # j + 1
    BY <1>4, <1>1
  <2> QED
    BY <2>1, <1>2, <1>3
<1>5. ASSUME NEW i \in 1..Len(t)
      PROVE  /\ t[i] \in SkQueries /\ t[i] # Head(skQueue)
             /\ query[t[i]].st = "waiting"
  BY <1>1, <1>2, <1>3
<1> QED
  BY <1>1, <1>3, <1>4, <1>5

\* The end of the handler: nothing is in its hands or in its queue any more,
\* and nothing is answered.
LEMMA SkStopInv ==
  ASSUME Inv, NEW mine, SkStop(mine),
         UNCHANGED <<keyVars, attributes, pkQueue, pkHandler, held>>
  PROVE  Inv'
<1>1. /\ TypeOK /\ GuardedKeys /\ InHand
      /\ QueueWaiting /\ RegisteredHeld /\ IssuedAttributesHeld
  BY DEF Inv
<1>2. UNCHANGED <<pk, msk, generation, update, attributes, pkQueue, pkHandler,
                  held>>
  BY DEF keyVars
<1>3. skQueue' = <<>> /\ skHandler' = Stopped /\ skHandler' \in Handlers
  BY HandlerTypes DEF SkStop
<1>4. skHandler'.at = "stopped" /\ Len(skQueue') = 0
      /\ skQueue' \in Seq(SkQueries)
  BY <1>3 DEF Stopped, Starting
<1>5. query' \in [Queries -> Outcomes]
  BY <1>1, OutcomeTypes DEF SkStop, TypeOK
<1>6. \A q \in Queries :
         query'[q] = query[q] \/ query'[q].st = "unanswered"
  BY DEF SkStop, Outcome
<1>7. TypeOK'
  BY <1>1, <1>2, <1>3, <1>4, <1>5 DEF TypeOK
<1>8. GuardedKeys' /\ InHand' /\ QueueWaiting'
  BY <1>1, <1>2, <1>4 DEF GuardedKeys, InHand, QueueWaiting
<1>9. RegisteredHeld' /\ IssuedAttributesHeld'
  BY <1>1, <1>2, <1>6 DEF RegisteredHeld, IssuedAttributesHeld, Queries
<1> QED
  BY <1>7, <1>8, <1>9 DEF Inv

\* A query is received: dropped, the handler's last, or taken in hand.
LEMMA SkReceiveInv ==
  ASSUME Inv, SkReceive
  PROVE  Inv'
<1> DEFINE q == Head(skQueue)
<1>1. /\ TypeOK /\ GuardedKeys /\ InHand
      /\ QueueWaiting /\ RegisteredHeld /\ IssuedAttributesHeld
  BY DEF Inv
<1>2. UNCHANGED <<pk, msk, generation, update, attributes, pkQueue, pkHandler,
                  held>>
  BY DEF SkReceive, keyVars
<1>3. skHandler.at = "recv" /\ skQueue # <<>>
  BY DEF SkReceive
<1>4. /\ q \in SkQueries /\ q \in Queries /\ query[q].st = "waiting"
      /\ Tail(skQueue) \in Seq(SkQueries)
      /\ \A i \in 1..Len(Tail(skQueue)) :
            /\ Tail(skQueue)[i] \in SkQueries /\ Tail(skQueue)[i] # q
            /\ query[Tail(skQueue)[i]].st = "waiting"
            /\ \A j \in 1..Len(Tail(skQueue)) :
                  i # j => Tail(skQueue)[i] # Tail(skQueue)[j]
  BY <1>3, SkQueueTail DEF Queries
<1>5. CASE SkStop({q})
  BY <1>5, SkStopInv DEF SkReceive
<1>6. CASE /\ skQueue' = Tail(skQueue)
           /\ query' = [query EXCEPT ![q] = Outcome("unanswered")]
           /\ skHandler' = skHandler
  <2>1. query' \in [Queries -> Outcomes]
    BY <1>1, <1>6, OutcomeTypes DEF TypeOK
  <2>2. query'[q].st = "unanswered"
        /\ \A r \in SkQueries : r # q => query'[r] = query[r]
    BY <1>1, <1>4, <1>6 DEF TypeOK, Outcome, Queries
  <2>3. TypeOK'
    BY <1>1, <1>2, <1>4, <1>6, <2>1 DEF TypeOK
  <2>4. GuardedKeys' /\ InHand'
    BY <1>1, <1>2, <1>3, <1>6 DEF GuardedKeys, InHand
  <2>5. QueueWaiting'
    BY <1>3, <1>4, <1>6, <2>2 DEF QueueWaiting
  <2>6. RegisteredHeld' /\ IssuedAttributesHeld'
    BY <1>1, <1>2, <2>2 DEF RegisteredHeld, IssuedAttributesHeld
  <2> QED
    BY <2>3, <2>4, <2>5, <2>6 DEF Inv
<1>7. CASE /\ skQueue' = Tail(skQueue)
           /\ skHandler' = [skHandler EXCEPT !.at = "got", !.query = q]
           /\ query' = query
  <2>1. skHandler' \in Handlers /\ skHandler'.at = "got"
        /\ skHandler'.query = q
    BY <1>1, <1>4, <1>7 DEF TypeOK, Handlers
  <2>2. TypeOK'
    BY <1>1, <1>2, <1>4, <1>7, <2>1 DEF TypeOK
  <2>3. GuardedKeys' /\ InHand'
    BY <1>1, <1>2, <1>4, <1>7, <2>1 DEF GuardedKeys, InHand
  <2>4. QueueWaiting'
    BY <1>4, <1>7, <2>1 DEF QueueWaiting
  <2>5. RegisteredHeld' /\ IssuedAttributesHeld'
    BY <1>1, <1>2, <1>7 DEF RegisteredHeld, IssuedAttributesHeld
  <2> QED
    BY <2>2, <2>3, <2>4, <2>5 DEF Inv
<1> QED
  BY <1>5, <1>6, <1>7 DEF SkReceive

\* The query in hand is dropped, or answered with what it is entitled to.
LEMMA SkFinishInv ==
  ASSUME Inv, NEW o \in Outcomes,
         skHandler.at \in {"got", "attributes", "locked"},
         \/ o.st = "unanswered"
         \/ o.st = "replied" /\ o.attrs \in held[skHandler.query],
         query' = [query EXCEPT ![skHandler.query] = o],
         skHandler' = Receiving,
         UNCHANGED <<keyVars, attributes, pkQueue, skQueue, pkHandler, held>>
  PROVE  Inv'
<1> DEFINE q == skHandler.query
<1>1. /\ TypeOK /\ GuardedKeys /\ InHand
      /\ QueueWaiting /\ RegisteredHeld /\ IssuedAttributesHeld
  BY DEF Inv
<1>2. UNCHANGED <<pk, msk, generation, update, attributes, pkQueue, skQueue,
                  pkHandler, held>>
  BY DEF keyVars
<1>3. skHandler' \in Handlers /\ skHandler'.at = "recv"
  BY HandlerTypes DEF Receiving, Starting
<1>4. q \in SkQueries /\ q \in Queries
  BY <1>1 DEF InHand, Queries
<1>5. query' \in [Queries -> Outcomes] /\ query'[q] = o
      /\ \A r \in SkQueries : r # q => query'[r] = query[r]
  BY <1>1, <1>4 DEF TypeOK, Queries
<1>6. TypeOK'
  BY <1>1, <1>2, <1>3, <1>5 DEF TypeOK
<1>7. GuardedKeys' /\ InHand'
  BY <1>1, <1>2, <1>3 DEF GuardedKeys, InHand
<1>8. QueueWaiting'
  <2>1. \A i \in 1..Len(skQueue) : skQueue[i] \in SkQueries /\ skQueue[i] # q
    BY <1>1 DEF TypeOK, QueueWaiting
  <2> QED
    BY <2>1, <1>1, <1>2, <1>3, <1>5 DEF QueueWaiting
<1>9. RegisteredHeld' /\ IssuedAttributesHeld'
  BY <1>1, <1>2, <1>5 DEF RegisteredHeld, IssuedAttributesHeld
<1> QED
  BY <1>6, <1>7, <1>8, <1>9 DEF Inv

\* The handler goes on with the query in hand.
LEMMA SkProceedInv ==
  ASSUME Inv, skHandler' \in Handlers,
         skHandler.at \in {"got", "attributes"},
         skHandler'.at \in {"attributes", "locked"},
         skHandler'.query = skHandler.query,
         skHandler'.attrs \in AttributeSets,
         skHandler'.attrs \in held[skHandler.query],
         skHandler'.at = "locked" => skHandler'.gen = msk,
         UNCHANGED <<keyVars, attributes, pkQueue, skQueue, pkHandler, query,
                     held>>
  PROVE  Inv'
<1>1. /\ TypeOK /\ GuardedKeys /\ InHand
      /\ QueueWaiting /\ RegisteredHeld /\ IssuedAttributesHeld
  BY DEF Inv
<1>2. UNCHANGED <<pk, msk, generation, update, attributes, pkQueue, skQueue,
                  pkHandler, query, held>>
  BY DEF keyVars
<1>3. TypeOK'
  BY <1>1, <1>2 DEF TypeOK
<1>4. GuardedKeys' /\ InHand'
  BY <1>1, <1>2 DEF GuardedKeys, InHand
<1>5. QueueWaiting' /\ RegisteredHeld' /\ IssuedAttributesHeld'
  BY <1>1, <1>2 DEF QueueWaiting, RegisteredHeld, IssuedAttributesHeld
<1> QED
  BY <1>3, <1>4, <1>5 DEF Inv

\* One case per step of the handler of secret keys.
LEMMA HandleSkInv ==
  ASSUME Inv, HandleSk
  PROVE  Inv'
<1>1. TypeOK /\ GuardedKeys /\ InHand
  BY DEF Inv
<1>2. CASE SkDeclare
  <2>1. /\ skHandler' = Receiving /\ skHandler' \in Handlers
        /\ skHandler'.at = "recv"
        /\ UNCHANGED <<pk, msk, generation, update, attributes, pkQueue,
                       skQueue, pkHandler, query, held>>
    BY <1>2, HandlerTypes DEF SkDeclare, Receiving, Starting, keyVars
  <2>2. QueueWaiting /\ RegisteredHeld /\ IssuedAttributesHeld
    BY DEF Inv
  <2>3. TypeOK'
    BY <1>1, <2>1 DEF TypeOK
  <2>4. GuardedKeys' /\ InHand'
    BY <1>1, <2>1 DEF GuardedKeys, InHand
  <2>5. QueueWaiting' /\ RegisteredHeld' /\ IssuedAttributesHeld'
    BY <2>1, <2>2 DEF QueueWaiting, RegisteredHeld, IssuedAttributesHeld
  <2> QED
    BY <2>3, <2>4, <2>5 DEF Inv
<1>3. CASE SkReceive
  BY <1>3, SkReceiveInv
<1>4. CASE SkGetAttributes
  <2> DEFINE q == skHandler.query
  <2>1. skHandler.at = "got" /\ q \in SkQueries /\ q \in Queries
        /\ query[q].st = "waiting"
    BY <1>1, <1>4 DEF SkGetAttributes, InHand, Queries
  <2>2. UNCHANGED <<keyVars, attributes, pkQueue, skQueue, pkHandler, held>>
    BY <1>4 DEF SkGetAttributes
  <2>3. CASE GetAttributes(q) = None
    <3> DEFINE o == Outcome("unanswered")
    <3>1. query' = [query EXCEPT ![skHandler.query] = o]
          /\ skHandler' = Receiving
      BY <1>4, <2>3 DEF SkGetAttributes
    <3>2. o \in Outcomes /\ o.st = "unanswered"
      BY OutcomeTypes DEF Outcome
    <3>3. skHandler.at \in {"got", "attributes", "locked"}
      BY <2>1
    <3> HIDE DEF o
    <3> QED
      BY <2>2, <3>1, <3>2, <3>3, SkFinishInv
  <2>4. CASE GetAttributes(q) # None
    <3>1. GetAttributes(q) \in AttributeSets /\ GetAttributes(q) \in held[q]
      BY <1>1, <2>1, <2>4
      DEF GetAttributes, Inv, RegisteredHeld, TypeOK, Requests
    <3>2. /\ skHandler' = [skHandler EXCEPT !.at = "attributes",
                                             !.attrs = GetAttributes(q)]
          /\ query' = query
      BY <1>4, <2>4 DEF SkGetAttributes
    <3>3. /\ skHandler' \in Handlers /\ skHandler'.at = "attributes"
          /\ skHandler'.query = q /\ skHandler'.attrs = GetAttributes(q)
      BY <1>1, <3>1, <3>2 DEF TypeOK, Handlers
    <3> QED
      BY <2>1, <2>2, <3>1, <3>2, <3>3, SkProceedInv
  <2> QED
    BY <2>3, <2>4
<1>5. CASE SkLock
  <2>1. /\ skHandler.at = "attributes"
        /\ skHandler.attrs \in AttributeSets
        /\ skHandler.attrs \in held[skHandler.query]
    BY <1>1, <1>5 DEF SkLock, InHand
  <2>2. UNCHANGED <<keyVars, attributes, pkQueue, pkHandler, held>>
    BY <1>5 DEF SkLock
  <2>3. CASE SkStop({skHandler.query})
    BY <2>2, <2>3, SkStopInv
  <2>4. CASE /\ skHandler' = [skHandler EXCEPT !.at = "locked", !.gen = msk]
             /\ skQueue' = skQueue /\ query' = query
    <3>1. /\ skHandler' \in Handlers /\ skHandler'.at = "locked"
          /\ skHandler'.query = skHandler.query /\ skHandler'.gen = msk
          /\ skHandler'.attrs = skHandler.attrs
      BY <1>1, <2>4 DEF TypeOK, Handlers
    <3> QED
      BY <2>1, <2>2, <2>4, <3>1, SkProceedInv
  <2> QED
    BY <1>5, <2>3, <2>4 DEF SkLock
<1>6. CASE SkReply
  <2> DEFINE o == [st |-> "replied", gen |-> skHandler.gen,
                   attrs |-> skHandler.attrs]
  <2>1. skHandler.at = "locked"
        /\ UNCHANGED <<keyVars, attributes, pkQueue, pkHandler, held>>
    BY <1>6 DEF SkReply
  <2>2. o \in Outcomes /\ o.st = "replied"
        /\ o.attrs \in held[skHandler.query]
    BY <1>1, <2>1 DEF TypeOK, Handlers, Outcomes, InHand
  <2>3. CASE /\ query' = [query EXCEPT ![skHandler.query] = o]
             /\ skHandler' = Receiving /\ skQueue' = skQueue
    <3> HIDE DEF o
    <3> QED
      BY <2>1, <2>2, <2>3, SkFinishInv
  <2>4. CASE SkStop({skHandler.query})
    BY <2>1, <2>4, SkStopInv
  <2> QED
    BY <1>6, <2>3, <2>4 DEF SkReply
<1> QED
  BY <1>2, <1>3, <1>4, <1>5, <1>6 DEF HandleSk

LEMMA NextInv == Inv /\ [Next]_vars => Inv'
<1>1. ASSUME Inv, UNCHANGED vars PROVE Inv'
  <2>1. UNCHANGED <<pk, msk, generation, update, attributes, pkQueue, skQueue,
                    pkHandler, skHandler, query, held>>
    BY <1>1 DEF vars
  <2>2. TypeOK' /\ GuardedKeys' /\ InHand'
    BY <1>1, <2>1 DEF Inv, TypeOK, GuardedKeys, InHand
  <2>3. QueueWaiting' /\ RegisteredHeld' /\ IssuedAttributesHeld'
    BY <1>1, <2>1 DEF Inv, QueueWaiting, RegisteredHeld, IssuedAttributesHeld
  <2> QED
    BY <2>2, <2>3 DEF Inv
<1>2. ASSUME Inv, Next PROVE Inv'
  <2>1. CASE \E u \in Updaters : CallUpdate(u) \/ Update(u)
    BY <1>2, <2>1, UpdateInv
  <2>2. CASE \E c \in Clients, attrs \in AttributeSets : SetAttributes(c, attrs)
    BY <1>2, <2>2, SetAttributesInv
  <2>3. CASE \/ \E q \in PkQueries : SendPk(q)
             \/ \E q \in SkQueries : SendSk(q)
    BY <1>2, <2>3, SendInv
  <2>4. CASE HandlePk
    BY <1>2, <2>4, HandlePkInv
  <2>5. CASE HandleSk
    BY <1>2, <2>5, HandleSkInv
  <2> QED
    BY <1>2, <2>1, <2>2, <2>3, <2>4, <2>5 DEF Next
<1> QED
  BY <1>1, <1>2

LEMMA InvCorrect == Spec => []Inv
  BY InitInv, NextInv, PTL DEF Spec

\* The state of the attribute authority has its types.
THEOREM TypeCorrect == Spec => []TypeOK
<1>1. Inv => TypeOK
  BY DEF Inv
<1> QED
  BY <1>1, InvCorrect, PTL

\* However registrations and secret-key queries interleave, a secret key is
\* issued for attributes that its client was registered with since it asked.
THEOREM IssuedAttributesHeldCorrect == Spec => []IssuedAttributesHeld
<1>1. Inv => IssuedAttributesHeld
  BY DEF Inv
<1> QED
  BY <1>1, InvCorrect, PTL

\* What one step answers.  A query is replied to by its own handler only, with
\* the key whose guard the handler holds.
LEMMA RepliesStep ==
  ASSUME Inv, [Next]_vars
  PROVE  /\ \A q \in PkQueries :
               query[q].st # "replied" /\ query'[q].st = "replied"
                   => query'[q].gen = pk
         /\ \A q \in SkQueries :
               query[q].st # "replied" /\ query'[q].st = "replied"
                   => query'[q].gen = msk
<1>1. TypeOK /\ GuardedKeys /\ InHand
  BY DEF Inv
<1>2. PkQueries \subseteq Queries /\ SkQueries \subseteq Queries
  BY DEF Queries
<1>3. CASE \A q \in Queries :
              query'[q] = query[q] \/ query'[q].st # "replied"
  BY <1>2, <1>3
<1>4. CASE PkReply
  <2>1. /\ pkHandler.query \in PkQueries /\ pkHandler.gen = pk
        /\ query' = [query EXCEPT ![pkHandler.query] =
                       [st |-> "replied", gen |-> pkHandler.gen, attrs |-> None]]
    BY <1>1, <1>4 DEF PkReply, InHand, GuardedKeys
  <2>2. query'[pkHandler.query].gen = pk
        /\ \A q \in Queries : q # pkHandler.query => query'[q] = query[q]
    BY <1>1, <1>2, <2>1 DEF TypeOK
  <2>3. pkHandler.query \notin SkQueries
    BY <2>1
  <2> QED
    BY <1>2, <2>2, <2>3
<1>5. ASSUME SkReply, Seals(skHandler.query)
      PROVE  /\ query'[skHandler.query].gen = msk
             /\ skHandler.query \in SkQueries
             /\ \A q \in Queries : q # skHandler.query => query'[q] = query[q]
  <2>1. /\ skHandler.query \in SkQueries /\ skHandler.gen = msk
        /\ query' = [query EXCEPT ![skHandler.query] =
                       [st |-> "replied", gen |-> skHandler.gen,
                        attrs |-> skHandler.attrs]]
    BY <1>1, <1>5 DEF SkReply, InHand, GuardedKeys
  <2> QED
    BY <1>1, <1>2, <2>1 DEF TypeOK
<1>6. ASSUME NEW st \in {"waiting", "unanswered"}, NEW q \in Queries,
             query' = [query EXCEPT ![q] = Outcome(st)]
      PROVE  \A r \in Queries : query'[r] = query[r] \/ query'[r].st # "replied"
  BY <1>1, <1>6 DEF TypeOK, Outcome
<1>7. ASSUME NEW mine, SkStop(mine)
      PROVE  \A r \in Queries : query'[r] = query[r] \/ query'[r].st # "replied"
  BY <1>7 DEF SkStop, Outcome
<1>8. CASE UNCHANGED query
  BY <1>3, <1>8
<1>9. CASE \/ UNCHANGED vars
           \/ \E u \in Updaters : CallUpdate(u) \/ Update(u)
           \/ \E c \in Clients, attrs \in AttributeSets :
                 SetAttributes(c, attrs)
           \/ PkDeclare
           \/ PkLock
           \/ SkDeclare
  BY <1>8, <1>9 DEF vars, CallUpdate, Update, AskLock, UpdatePk, UpdateMsk,
                    SetAttributes, PkDeclare, PkLock, SkDeclare
<1>10. CASE \/ \E q \in PkQueries : SendPk(q)
            \/ \E q \in SkQueries : SendSk(q)
  BY <1>2, <1>3, <1>6, <1>10 DEF SendPk, SendSk
<1>11. CASE PkReceive
  <2>1. Head(pkQueue) \in Queries
    BY <1>1, <1>2, <1>11 DEF PkReceive, TypeOK
  <2> QED
    BY <2>1, <1>3, <1>6, <1>8, <1>11 DEF PkReceive
<1>12. CASE SkReceive
  <2>1. Head(skQueue) \in Queries
    BY <1>1, <1>2, <1>12 DEF SkReceive, TypeOK
  <2> QED
    BY <2>1, <1>3, <1>6, <1>7, <1>8, <1>12 DEF SkReceive
<1>13. CASE SkGetAttributes
  <2>1. skHandler.query \in Queries
    BY <1>1, <1>2, <1>13 DEF SkGetAttributes, InHand
  <2> QED
    BY <2>1, <1>3, <1>6, <1>8, <1>13 DEF SkGetAttributes
<1>14. CASE SkLock
  BY <1>3, <1>7, <1>8, <1>14 DEF SkLock
<1>15. CASE SkReply
  <2>1. CASE Seals(skHandler.query)
    <3>1. skHandler.query \notin PkQueries
      BY <1>5, <1>15, <2>1, QueriesAssumption
    <3> QED
      BY <1>2, <1>5, <1>15, <2>1, <3>1
  <2> QED
    BY <1>3, <1>7, <1>15, <2>1 DEF SkReply
<1> QED
  <2>1. CASE HandlePk
    BY <2>1, <1>4, <1>9, <1>11 DEF HandlePk
  <2>2. CASE HandleSk
    BY <2>2, <1>9, <1>12, <1>13, <1>14, <1>15 DEF HandleSk
  <2> QED
    BY <2>1, <2>2, <1>9, <1>10 DEF Next

\* A reply carries the key that is in force when it is sent: no update comes
\* between a handler's reading the key and its reply.
THEOREM RepliesCurrentCorrect == Spec => RepliesCurrent
<1>1. Inv /\ [Next]_vars =>
         [/\ \A q \in PkQueries :
                query[q].st # "replied" /\ query'[q].st = "replied"
                    => query'[q].gen = pk
          /\ \A q \in SkQueries :
                query[q].st # "replied" /\ query'[q].st = "replied"
                    => query'[q].gen = msk]_vars
  BY RepliesStep
<1> QED
  BY <1>1, InvCorrect, PTL DEF Spec, RepliesCurrent
-----------------------------------------------------------------------------
\* With updates made one at a time, the update under way holds the last pair
\* drawn, which is in force at neither key before the first write and at the
\* public key alone before the second.
Serial ==
    /\ msk <= pk /\ pk <= generation
    /\ KeysMatch
    /\ (\A u \in Updaters : update[u].at = "idle") => pk = generation
    /\ \A u \in Updaters :
          /\ update[u].at \in {"askPk", "pk"} =>
                 update[u].gen = generation /\ pk = msk /\ generation = pk + 1
          /\ update[u].at \in {"askMsk", "msk"} =>
                 update[u].gen = pk /\ pk = generation /\ pk = msk + 1

LEMMA SerialInit == Init => Serial
  BY DEF Init, Serial, KeysMatch, NoUpdate

LEMMA SerialNext ==
  ASSUME SerialUpdates, Inv, Serial, [Next]_vars
  PROVE  Serial'
<1>1. /\ pk \in Nat /\ msk \in Nat /\ generation \in Nat
      /\ update \in [Updaters -> Updates]
  BY DEF Inv, TypeOK, Generations
<1>2. CASE UNCHANGED keyVars
  BY <1>2 DEF Serial, KeysMatch, keyVars
<1>3. ASSUME NEW u \in Updaters, CallUpdate(u) \/ Update(u)
      PROVE  Serial'
  <2>1. \A v \in Updaters : v = u
    BY DEF SerialUpdates
  <2>2. update[u] \in Updates /\ update[u].gen \in Nat
    BY <1>1 DEF Updates, Generations
  <2>3. CASE CallUpdate(u)
    <3>1. update'[u].at = "askPk" /\ update'[u].gen = generation + 1
      BY <1>1, <2>3 DEF CallUpdate
    <3>2. /\ pk' = pk /\ msk' = msk /\ generation' = generation + 1
          /\ pk = msk /\ pk = generation
      BY <2>1, <2>3 DEF CallUpdate, Serial, KeysMatch
    <3> QED
      BY <1>1, <2>1, <3>1, <3>2 DEF Serial, KeysMatch
  <2>4. CASE UpdatePk(u)
    <3>1. update'[u].at = "askMsk" /\ update'[u].gen = update[u].gen
      BY <1>1, <2>2, <2>4 DEF UpdatePk, Updates
    <3>2. pk' = generation /\ msk' = msk /\ generation' = generation
          /\ update[u].gen = generation /\ generation = msk + 1
      BY <2>4 DEF UpdatePk, Serial
    <3> QED
      BY <1>1, <2>1, <3>1, <3>2 DEF Serial, KeysMatch
  <2>5. CASE UpdateMsk(u)
    <3>1. update'[u].at = "idle"
      BY <1>1, <2>5 DEF UpdateMsk, NoUpdate
    <3>2. /\ msk' = pk /\ pk' = pk /\ generation' = generation
          /\ pk = generation
      BY <2>5 DEF UpdateMsk, Serial
    <3> QED
      BY <1>1, <2>1, <3>1, <3>2 DEF Serial, KeysMatch
  <2>6. CASE AskLock(u)
    <3>1. update'[u].gen = update[u].gen
          /\ \/ update[u].at = "askPk" /\ update'[u].at = "pk"
             \/ update[u].at = "askMsk" /\ update'[u].at = "msk"
      BY <1>1, <2>2, <2>6 DEF AskLock, Updates
    <3>2. UNCHANGED <<pk, msk, generation>>
      BY <2>6 DEF AskLock
    <3> QED
      BY <1>1, <2>1, <3>1, <3>2 DEF Serial, KeysMatch
  <2> QED
    BY <1>3, <2>3, <2>4, <2>5, <2>6 DEF Update
<1>4. CASE Next
  BY <1>2, <1>3, <1>4
  DEF Next, SetAttributes, SendPk, SendSk, HandlePk, PkDeclare, PkReceive,
      PkLock, PkReply, HandleSk, SkDeclare, SkReceive, SkGetAttributes,
      SkLock, SkReply
<1>5. CASE UNCHANGED vars
  BY <1>2, <1>5 DEF vars, keyVars
<1> QED
  BY <1>4, <1>5

LEMMA SerialCorrect == ASSUME SerialUpdates PROVE Spec => []Serial
<1>1. Inv /\ Serial /\ [Next]_vars => Serial'
  BY SerialNext
<1> QED
  BY <1>1, InvCorrect, SerialInit, PTL DEF Spec

\* The step of KeyPair that one of the authority stands for.
LEMMA KeyPairStep ==
  ASSUME Inv, Serial, [Next]_vars
  PROVE  [Pair!Next]_(Pair!vars)
<1>1. CASE UNCHANGED <<pk, msk>>
  BY <1>1 DEF Pair!vars
<1>2. ASSUME NEW u \in Updaters, UpdatePk(u)
      PROVE  Pair!ReplacePk
  BY <1>2 DEF UpdatePk, Serial, Pair!ReplacePk
<1>3. ASSUME NEW u \in Updaters, UpdateMsk(u)
      PROVE  Pair!ReplaceMsk
  <2>1. msk' = pk /\ pk = msk + 1 /\ UNCHANGED pk
    BY <1>3 DEF UpdateMsk, Serial
  <2>2. msk \in Nat
    BY DEF Inv, TypeOK, Generations
  <2> QED
    BY <2>1, <2>2 DEF Pair!ReplaceMsk
<1>4. CASE Next
  BY <1>1, <1>2, <1>3, <1>4
  DEF Next, CallUpdate, Update, AskLock, SetAttributes, SendPk, SendSk,
      keyVars, HandlePk, PkDeclare, PkReceive, PkLock, PkReply, HandleSk,
      SkDeclare, SkReceive, SkGetAttributes, SkLock, SkReply, Pair!Next
<1>5. CASE UNCHANGED vars
  BY <1>1, <1>5 DEF vars
<1> QED
  BY <1>4, <1>5

\* If no two tasks call update_abe_keys, the two keys under their two locks
\* are to their readers a KeyPair: no pair is skipped or repeated.
THEOREM RefinesKeyPairCorrect ==
  ASSUME SerialUpdates PROVE Spec => RefinesKeyPair
<1>1. Init => Pair!Init
  BY DEF Init, Pair!Init
<1>2. Inv /\ Serial /\ [Next]_vars => [Pair!Next]_(Pair!vars)
  BY KeyPairStep
<1> QED
  BY <1>1, <1>2, InvCorrect, SerialCorrect, PTL
  DEF Spec, RefinesKeyPair, Pair!Spec

\* If no two tasks call update_abe_keys, the public key and the master key are
\* of one pair whenever no call is under way.
THEOREM KeysMatchCorrect == ASSUME SerialUpdates PROVE Spec => []KeysMatch
<1>1. Serial => KeysMatch
  BY DEF Serial
<1> QED
  BY <1>1, SerialCorrect, PTL

\* If no two tasks call update_abe_keys, a master key is never in force
\* before its public key.
THEOREM MasterKeyNotAheadCorrect ==
  ASSUME SerialUpdates PROVE Spec => []MasterKeyNotAhead
<1>1. Serial => MasterKeyNotAhead
  BY DEF Serial, MasterKeyNotAhead
<1> QED
  BY <1>1, SerialCorrect, PTL
==============================================================================
