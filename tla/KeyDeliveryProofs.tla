--------------------------- MODULE KeyDeliveryProofs ---------------------------
(***************************************************************************)
(* Theorems about KeyDelivery for any number of topics, keys, consumers    *)
(* and tasks, any policies, and all the faults at any time.                *)
(*                                                                         *)
(* The inductive invariant Inv ties together what the parts hold at the    *)
(* same moment: the store and the headers of the messages, what the        *)
(* handler has in hand and the store, each query and the call that sent    *)
(* it, and each call and the message it is for.                            *)
(***************************************************************************)
EXTENDS KeyDelivery, TLAPS

\* The ids a header names.
Named(m) == {m.ckId, m.nextId} \ {None}

\* The store has each key under its own id.
StoreById == \A id \in CkIds : keys[id] # None => Id(keys[id].ck) = id

\* A header names the key of the body, and an id that it names is, if the
\* producer knows it, a key of the message's topic.
HeadersOfTopic ==
    \A m \in published :
        /\ m.ckId = Id(m.body)
        /\ \A id \in Named(m) : keys[id] # None => keys[id].topic = m.topic

\* The master key is not ahead of the public key, and no secret key is ahead
\* of the master key.
KeyOrder == /\ msk <= pk
            /\ \A c \in Consumers : sk[c] # None => sk[c] <= pk

Busy == handler.at \in {"got", "pk", "ck", "policy"}

\* The handler has a query in hand; what it has looked up for it is still what
\* the store has, and it has a policy when it is about to lock.
HandlerHolds ==
    /\ Busy => handler.query \in Queries
    /\ handler.at \in {"pk", "ck", "policy"} => handler.pk <= pk
    /\ handler.at \in {"ck", "policy"} =>
           /\ handler.entry \in Entries
           /\ keys[handler.query.ckId] = handler.entry
    /\ handler.at = "policy" => handler.policy # None

\* A call is for an id that its message names, decrypt for the key of the
\* body, and was started with a secret key of the present or an earlier pair.
\* The reply of a call that caches a key is one that it could open.
CallNamed ==
    \A r \in Readers :
        /\ reader[r].at # "idle" =>
               /\ reader[r].msg \in published
               /\ reader[r].id \in Named(reader[r].msg)
               /\ reader[r].op = "decrypt" => reader[r].id = reader[r].msg.ckId
               /\ reader[r].sk \in Generations /\ reader[r].sk <= pk
        /\ reader[r].at \in {"replied", "caching"} => reader[r].reply \in Locked
        /\ reader[r].at = "caching" =>
               /\ Opens(Owner[r], reader[r].sk, reader[r].reply)
               /\ reader[r].seen \in Caches

\* What is noted of a call that has asked: a public key that is not ahead, nor
\* behind the secret key of the call; and the policy its topic has now.
AskedNoted ==
    \A r \in Readers : Asking(r) =>
        /\ reader[r].sk <= asked[r].pk
        /\ asked[r].pk <= pk
        /\ policy[reader[r].msg.topic] \in asked[r].policies

\* A query was sent by the present call of its task, for the id the call is
\* for, or by an earlier one.
SentBy(q) ==
    /\ q.call <= reader[q.task].call
    /\ q.call = reader[q.task].call =>
           /\ q.ckId = reader[q.task].id
           /\ reader[q.task].at \notin {"lookup", "fetch"}

QueriesSent ==
    /\ \A i \in 1..Len(queue) : queue[i] # Wild => SentBy(queue[i])
    /\ Busy => SentBy(handler.query)

\* What the handler has in hand for a call that still waits is no older than
\* what was in force when the call asked.
HandlerNotOlder ==
    \A r \in Readers : Busy /\ Awaits(r, handler.query) =>
        /\ handler.at \in {"pk", "ck", "policy"} => asked[r].pk <= handler.pk
        /\ handler.at = "policy" => handler.policy \in asked[r].policies

\* A reply is the key that was asked for, ...
ReplyIsAskedFor ==
    \A r \in Readers :
        reader[r].at \in {"replied", "caching"} =>
            Id(reader[r].reply.ck) = reader[r].id

Inv ==
    /\ TypeOK
    /\ StoreById /\ HeadersOfTopic /\ KeyOrder
    /\ HandlerHolds /\ CallNamed /\ AskedNoted /\ QueriesSent
    /\ HandlerNotOlder /\ ReplyIsAskedFor
    /\ CacheCorrect /\ NoWrongKey /\ LockNotOlder /\ LockedUnderPolicyInForce
-----------------------------------------------------------------------------
USE NoneAssumption, OwnerAssumption, InputsAssumption, BoundsAssumption

LEMMA IdTypes ==
  /\ CkIds = {Id(k) : k \in Keys}
  /\ Messages = [topic : Topics, ckId : CkIds, nextId : CkIds \cup {None},
                 body : Keys]
  /\ None \notin CkIds
  BY DEF CkIds, Messages, Producer!CkIds, Producer!Messages

LEMMA NamedTypes ==
  ASSUME NEW m \in Messages
  PROVE  Named(m) \subseteq CkIds /\ m.topic \in Topics /\ m.body \in Keys
  BY IdTypes DEF Named

LEMMA GenerationTypes ==
  /\ 0 \in Generations
  /\ \A g \in Generations : g \in Nat
  /\ None \notin Generations
  BY DEF Generations

LEMMA HandlerTypes ==
  /\ Starting \in Handlers /\ Receiving \in Handlers /\ Stopped \in Handlers
  /\ Starting.at = "starting" /\ Receiving.at = "recv" /\ Stopped.at = "stopped"
  BY GenerationTypes DEF Starting, Receiving, Stopped, Handlers, AllPolicies

\* A call that returns keeps everything but where it is and what it ends in.
LEMMA ReturnedTask ==
  ASSUME NEW t \in Tasks, NEW result \in Results
  PROVE  /\ [t EXCEPT !.at = "idle", !.result = result] \in Tasks
         /\ [t EXCEPT !.at = "idle", !.result = result].at = "idle"
         /\ [t EXCEPT !.at = "idle", !.result = result].result = result
         /\ \A f \in {"op", "call", "msg", "form", "id", "sk", "reply", "seen"} :
               [t EXCEPT !.at = "idle", !.result = result][f] = t[f]
  BY DEF Tasks

\* Each task is as it was, or has returned with something else than AesError.
Returned(t, u) ==
    \/ u = t
    \/ \E result \in Results \ {"AesError"} :
          u = [t EXCEPT !.at = "idle", !.result = result]

LEMMA ReturnedTypes ==
  ASSUME NEW t \in Tasks, NEW u, Returned(t, u)
  PROVE  /\ u \in Tasks
         /\ u = t \/ (u.at = "idle" /\ u.result # "AesError")
         /\ u.op = t.op /\ u.call = t.call /\ u.msg = t.msg /\ u.form = t.form
         /\ u.id = t.id /\ u.sk = t.sk /\ u.reply = t.reply
         /\ u.seen = t.seen
<1>1. CASE u = t
  BY <1>1
<1>2. ASSUME NEW result \in Results \ {"AesError"},
             u = [t EXCEPT !.at = "idle", !.result = result]
      PROVE  /\ u \in Tasks /\ u.at = "idle" /\ u.result # "AesError"
             /\ u.op = t.op /\ u.call = t.call /\ u.msg = t.msg
             /\ u.form = t.form /\ u.id = t.id /\ u.sk = t.sk
             /\ u.reply = t.reply /\ u.seen = t.seen
  BY <1>2 DEF Tasks
<1> QED
  BY <1>1, <1>2 DEF Returned

LEMMA DropReturns ==
  ASSUME reader \in [Readers -> Tasks], NEW qs, Drop(qs)
  PROVE  /\ DOMAIN reader' = Readers
         /\ \A r \in Readers : Returned(reader[r], reader'[r])
         /\ \A r \in Readers :
               (\E q \in qs : Awaits(r, q)) => reader'[r].at = "idle"
<1>1. reader' = [r \in Readers |->
         IF \E q \in qs : Awaits(r, q)
         THEN [reader[r] EXCEPT !.at = "idle", !.result = "NoContentKeyFound"]
         ELSE reader[r]]
  BY DEF Drop
<1>2. "NoContentKeyFound" \in Results \ {"AesError"}
  BY DEF Results
<1>3. \A r \in Readers :
         [reader[r] EXCEPT !.at = "idle", !.result = "NoContentKeyFound"].at = "idle"
  BY DEF Tasks
<1> QED
  BY <1>1, <1>2, <1>3 DEF Returned

LEMMA ReturnReturns ==
  ASSUME reader \in [Readers -> Tasks], NEW r \in Readers,
         NEW result \in Results \ {"AesError"}, Return(r, result)
  PROVE  /\ reader' = [reader EXCEPT ![r] =
                [reader[r] EXCEPT !.at = "idle", !.result = result]]
         /\ DOMAIN reader' = Readers
         /\ \A s \in Readers : Returned(reader[s], reader'[s])
<1>1. reader' = [reader EXCEPT ![r] =
                    [reader[r] EXCEPT !.at = "idle", !.result = result]]
  BY DEF Return
<1> QED
  BY <1>1 DEF Returned
-----------------------------------------------------------------------------
LEMMA InitInv ==
  ASSUME NEW policies \in [Topics -> AllPolicies],
         NEW atStart \in {Starting, Receiving},
         InitWith(policies, atStart)
  PROVE  Inv
<1>1. /\ keys = [id \in CkIds |-> None] /\ published = {}
      /\ pk = 0 /\ msk = 0 /\ policy = policies /\ handler = atStart
      /\ queue = <<>> /\ sk = [c \in Consumers |-> None]
      /\ cache = [c \in Consumers |-> [id \in CkIds |-> None]]
      /\ reader = [r \in Readers |-> Idle]
      /\ asked = [r \in Readers |-> [policies |-> {}, pk |-> 0]]
  BY DEF InitWith, Producer!Init, Authority!Init, CkIds
<1>2. Idle \in Tasks /\ Idle.at = "idle" /\ Idle.result = "none"
  BY DEF Idle, Tasks, Results
<1>3. TypeOK
  BY <1>1, <1>2, GenerationTypes, HandlerTypes DEF TypeOK, Caches
<1>4. StoreById /\ HeadersOfTopic /\ KeyOrder
  BY <1>1 DEF StoreById, HeadersOfTopic, KeyOrder
<1>5. HandlerHolds /\ QueriesSent /\ HandlerNotOlder
  BY <1>1, HandlerTypes DEF HandlerHolds, QueriesSent, HandlerNotOlder, Busy
<1>6. CallNamed /\ AskedNoted /\ ReplyIsAskedFor
  BY <1>1, <1>2 DEF CallNamed, AskedNoted, ReplyIsAskedFor, Asking
<1>7. CacheCorrect /\ NoWrongKey /\ LockNotOlder /\ LockedUnderPolicyInForce
  BY <1>1, <1>2
  DEF CacheCorrect, NoWrongKey, LockNotOlder, LockedUnderPolicyInForce
<1> QED
  BY <1>3, <1>4, <1>5, <1>6, <1>7 DEF Inv

\* What becomes of the calls when some of them return, the handler gives up
\* what it has in hand or ends, and queries are dropped from the queue.
LEMMA EndInv ==
  ASSUME Inv,
         UNCHANGED <<published, pk, msk, policy, sk, asked>>,
         \/ keys' = keys
         \/ keys' = [id \in CkIds |-> None] /\ ~ Busy',
         DOMAIN reader' = Readers, reader' = [r \in Readers |-> reader'[r]],
         \A r \in Readers : Returned(reader[r], reader'[r]),
         handler' \in {handler, Starting, Receiving, Stopped},
         queue' \in Seq(Queries \cup {Wild}),
         \A i \in 1..Len(queue') : \E j \in 1..Len(queue) : queue'[i] = queue[j],
         cache' \in [Consumers -> Caches], CacheCorrect'
  PROVE  Inv'
<1>1. /\ TypeOK /\ StoreById /\ HeadersOfTopic /\ KeyOrder
      /\ HandlerHolds /\ CallNamed /\ AskedNoted /\ QueriesSent
      /\ HandlerNotOlder /\ ReplyIsAskedFor
      /\ CacheCorrect /\ NoWrongKey /\ LockNotOlder /\ LockedUnderPolicyInForce
  BY DEF Inv
<1>2. ASSUME NEW r \in Readers
      PROVE  /\ reader'[r] \in Tasks
             /\ \/ reader'[r] = reader[r]
                \/ reader'[r].at = "idle" /\ reader'[r].result # "AesError"
             /\ reader'[r].call = reader[r].call /\ reader'[r].id = reader[r].id
             /\ reader'[r].msg = reader[r].msg
  <2>1. reader[r] \in Tasks
    BY <1>1 DEF TypeOK
  <2>2. Returned(reader[r], reader'[r])
    OBVIOUS
  <2> QED
    BY <2>1, <2>2, ReturnedTypes
<1>3. handler' = handler \/ ~ Busy'
  BY HandlerTypes DEF Busy
<1>4. TypeOK'
  <2>1. reader' \in [Readers -> Tasks]
    BY <1>2
  <2>2. keys' \in [CkIds -> Entries \cup {None}]
    BY <1>1 DEF TypeOK
  <2>3. handler' \in Handlers
    BY <1>1, HandlerTypes DEF TypeOK
  <2> QED
    BY <1>1, <2>1, <2>2, <2>3 DEF TypeOK
<1>5. StoreById' /\ HeadersOfTopic' /\ KeyOrder'
  <2>1. \A id \in CkIds : keys'[id] # None => keys'[id] = keys[id]
    OBVIOUS
  <2>2. StoreById' /\ KeyOrder'
    BY <2>1, <1>1 DEF StoreById, KeyOrder
  <2>3. \A m \in published : Named(m) \subseteq CkIds
    BY <1>1, NamedTypes DEF TypeOK
  <2>4. HeadersOfTopic'
    BY <2>1, <2>3, <1>1 DEF HeadersOfTopic
  <2> QED
    BY <2>2, <2>4
<1>6. HandlerHolds'
  BY <1>1, <1>3 DEF HandlerHolds, Busy
<1>7. CallNamed' /\ AskedNoted'
  BY <1>1, <1>2 DEF CallNamed, AskedNoted, Asking
<1>8. QueriesSent'
  <2>1. ASSUME NEW q \in Queries, SentBy(q)
        PROVE  SentBy(q)'
    <3>1. q.task \in Readers
      BY DEF Queries
    <3> QED
      BY <2>1, <3>1, <1>2 DEF SentBy
  <2>2. \A j \in 1..Len(queue) : queue[j] \in Queries \cup {Wild}
    BY <1>1 DEF TypeOK
  <2>3. (\A i \in 1..Len(queue) : queue[i] # Wild => SentBy(queue[i]))'
    <3>1. ASSUME NEW i \in 1..Len(queue'), queue'[i] # Wild
          PROVE  \E q \in Queries : q = queue'[i] /\ SentBy(q)
      BY <2>2, <3>1, <1>1 DEF QueriesSent
    <3> QED
      BY <2>1, <3>1 DEF SentBy
  <2>4. (Busy => SentBy(handler.query))'
    <3>1. CASE Busy'
      <4>1. handler' = handler /\ Busy /\ handler.query \in Queries
        BY <3>1, <1>1, <1>3 DEF HandlerHolds, Busy
      <4> QED
        BY <2>1, <4>1, <1>1 DEF QueriesSent, SentBy
    <3> QED
      BY <3>1
  <2> QED
    BY <2>3, <2>4 DEF QueriesSent
<1>9. HandlerNotOlder'
  <2>1. ASSUME NEW r \in Readers, Busy', Awaits(r, handler.query)'
        PROVE  Busy /\ Awaits(r, handler.query) /\ handler' = handler
    BY <2>1, <1>2, <1>3 DEF Busy, Awaits
  <2> QED
    BY <2>1, <1>1 DEF HandlerNotOlder
<1>10. \A r \in Readers :
          reader'[r].at \in {"replied", "caching"} => reader'[r] = reader[r]
  BY <1>2
<1>11. ReplyIsAskedFor' /\ LockNotOlder' /\ LockedUnderPolicyInForce'
  BY <1>1, <1>10 DEF ReplyIsAskedFor, LockNotOlder, LockedUnderPolicyInForce
<1>12. NoWrongKey'
  BY <1>1, <1>2 DEF NoWrongKey
<1> QED
  BY <1>4, <1>5, <1>6, <1>7, <1>8, <1>9,
     <1>11, <1>12 DEF Inv
-----------------------------------------------------------------------------
(* The producer's publishing side, the authority and the access manager.   *)

LEMMA RegisterInv ==
  ASSUME Inv, NEW k \in Keys, NEW tp \in Topics, Register(k, tp)
  PROVE  Inv'
<1>1. /\ TypeOK /\ StoreById /\ HeadersOfTopic /\ KeyOrder
      /\ HandlerHolds /\ CallNamed /\ AskedNoted /\ QueriesSent
      /\ HandlerNotOlder /\ ReplyIsAskedFor
      /\ CacheCorrect /\ NoWrongKey /\ LockNotOlder /\ LockedUnderPolicyInForce
  BY DEF Inv
<1>2. /\ keys[Id(k)] = None
      /\ keys' = [keys EXCEPT ![Id(k)] = [topic |-> tp, ck |-> k]]
      /\ \A m \in published : Id(k) \notin {m.ckId, m.nextId}
      /\ UNCHANGED <<published, pk, msk, policy, handler, queue, sk, cache,
                     reader, asked>>
  BY DEF Register, Producer!Register, authorityVars, consumerVars
<1>3. Id(k) \in CkIds /\ [topic |-> tp, ck |-> k] \in Entries
  BY IdTypes DEF Entries
<1>4. \A id \in CkIds : id # Id(k) => keys'[id] = keys[id]
  BY <1>1, <1>2 DEF TypeOK
<1>5. keys'[Id(k)] = [topic |-> tp, ck |-> k]
  BY <1>1, <1>2, <1>3 DEF TypeOK
<1>6. TypeOK'
  BY <1>1, <1>2, <1>3 DEF TypeOK
<1>7. StoreById' /\ KeyOrder'
  BY <1>1, <1>2, <1>4, <1>5 DEF StoreById, KeyOrder
<1>8. HeadersOfTopic'
  <2>1. \A m \in published : Named(m) \subseteq CkIds
    BY <1>1, NamedTypes DEF TypeOK
  <2>2. \A m \in published : Id(k) \notin Named(m)
    BY <1>2 DEF Named
  <2> QED
    BY <2>1, <2>2, <1>1, <1>2, <1>4 DEF HeadersOfTopic
<1>9. HandlerHolds'
  <2>1. ASSUME handler.at \in {"ck", "policy"}
        PROVE  keys'[handler.query.ckId] = handler.entry
    <3>1. handler.query.ckId \in CkIds
      BY <1>1, <2>1 DEF HandlerHolds, Busy, Queries
    <3>2. handler.entry # None
      BY <1>1, <2>1 DEF HandlerHolds
    <3> QED
      BY <3>1, <3>2, <2>1, <1>1, <1>2, <1>4 DEF HandlerHolds
  <2> QED
    BY <2>1, <1>1, <1>2 DEF HandlerHolds, Busy
<1>10. CallNamed' /\ AskedNoted' /\ QueriesSent' /\ HandlerNotOlder'
       /\ ReplyIsAskedFor' /\ CacheCorrect' /\ NoWrongKey' /\ LockNotOlder'
       /\ LockedUnderPolicyInForce'
  BY <1>1, <1>2
  DEF CallNamed, AskedNoted, Asking, QueriesSent, SentBy, HandlerNotOlder,
      Awaits, Busy, ReplyIsAskedFor, CacheCorrect, NoWrongKey, LockNotOlder,
      LockedUnderPolicyInForce
<1> QED
  BY <1>6, <1>7, <1>8, <1>9, <1>10 DEF Inv

LEMMA PublishInv ==
  ASSUME Inv, NEW m \in Messages, Publish(m)
  PROVE  Inv'
<1>1. /\ TypeOK /\ StoreById /\ HeadersOfTopic /\ KeyOrder
      /\ HandlerHolds /\ CallNamed /\ AskedNoted /\ QueriesSent
      /\ HandlerNotOlder /\ ReplyIsAskedFor
      /\ CacheCorrect /\ NoWrongKey /\ LockNotOlder /\ LockedUnderPolicyInForce
  BY DEF Inv
<1>2. /\ m.ckId = Id(m.body)
      /\ keys[Id(m.body)] = [topic |-> m.topic, ck |-> m.body]
      /\ m.nextId # None => \E k \in Keys :
            m.nextId = Id(k) /\ keys[Id(k)] = [topic |-> m.topic, ck |-> k]
      /\ published' = published \cup {m}
      /\ UNCHANGED <<keys, pk, msk, policy, handler, queue, sk, cache, reader,
                     asked>>
  BY DEF Publish, Producer!Publish, Producer!Registered, authorityVars,
         consumerVars
<1>3. TypeOK' /\ StoreById' /\ KeyOrder' /\ HandlerHolds'
  BY <1>1, <1>2 DEF TypeOK, StoreById, KeyOrder, HandlerHolds, Busy
<1>4. HeadersOfTopic'
  <2>1. ASSUME NEW id \in Named(m)
        PROVE  keys[id].topic = m.topic
    <3>1. PICK k \in Keys : id = Id(k) /\ keys[Id(k)] = [topic |-> m.topic, ck |-> k]
      <4>1. CASE id = m.ckId
        BY <4>1, <1>2, NamedTypes
      <4>2. CASE id = m.nextId /\ id # None
        BY <4>2, <1>2
      <4> QED
        BY <4>1, <4>2 DEF Named
    <3> QED
      BY <3>1
  <2> QED
    BY <2>1, <1>1, <1>2 DEF HeadersOfTopic
<1>5. CallNamed'
  BY <1>1, <1>2 DEF CallNamed
<1>6. AskedNoted' /\ QueriesSent' /\ HandlerNotOlder'
      /\ ReplyIsAskedFor' /\ CacheCorrect' /\ NoWrongKey' /\ LockNotOlder'
      /\ LockedUnderPolicyInForce'
  BY <1>1, <1>2
  DEF AskedNoted, Asking, QueriesSent, SentBy, HandlerNotOlder,
      Awaits, Busy, ReplyIsAskedFor, CacheCorrect, NoWrongKey, LockNotOlder,
      LockedUnderPolicyInForce
<1> QED
  BY <1>3, <1>4, <1>5, <1>6 DEF Inv

\* Another pair of keys, or the other half of one.
LEMMA PairInv ==
  ASSUME Inv, UpdateKeys \/ RestartAuthority
  PROVE  Inv'
<1>1. /\ TypeOK /\ StoreById /\ HeadersOfTopic /\ KeyOrder
      /\ HandlerHolds /\ CallNamed /\ AskedNoted /\ QueriesSent
      /\ HandlerNotOlder /\ ReplyIsAskedFor
      /\ CacheCorrect /\ NoWrongKey /\ LockNotOlder /\ LockedUnderPolicyInForce
  BY DEF Inv
<1>2. UNCHANGED <<keys, published, policy, handler, queue, sk, cache, reader,
                  asked>>
  BY DEF UpdateKeys, RestartAuthority, producerVars, consumerVars
<1>3. pk \in Nat /\ msk \in Nat /\ pk <= MaxGeneration /\ msk <= pk
  BY <1>1 DEF TypeOK, Generations, KeyOrder
<1>4. /\ pk' \in Generations /\ msk' \in Generations
      /\ pk <= pk' /\ msk' <= pk'
  BY <1>3
  DEF UpdateKeys, RestartAuthority, Authority!ReplacePk, Authority!ReplaceMsk,
      Authority!Renew, Generations
<1>5. \A n \in Nat : n <= pk => n <= pk'
  BY <1>3, <1>4 DEF Generations
<1>6. TypeOK' /\ StoreById' /\ HeadersOfTopic'
  BY <1>1, <1>2, <1>4 DEF TypeOK, StoreById, HeadersOfTopic
<1>7. KeyOrder'
  BY <1>1, <1>2, <1>4, <1>5, GenerationTypes DEF KeyOrder, TypeOK
<1>8. HandlerHolds'
  BY <1>1, <1>2, <1>5, GenerationTypes DEF HandlerHolds, Busy, TypeOK, Handlers
<1>9. CallNamed'
  BY <1>1, <1>2, <1>5, GenerationTypes DEF CallNamed
<1>10. AskedNoted'
  BY <1>1, <1>2, <1>5, GenerationTypes DEF AskedNoted, Asking, TypeOK
<1>11. QueriesSent' /\ HandlerNotOlder' /\ ReplyIsAskedFor' /\ CacheCorrect'
       /\ NoWrongKey' /\ LockNotOlder' /\ LockedUnderPolicyInForce'
  BY <1>1, <1>2
  DEF QueriesSent, SentBy, HandlerNotOlder, Awaits, Busy, ReplyIsAskedFor,
      CacheCorrect, NoWrongKey, LockNotOlder, LockedUnderPolicyInForce
<1> QED
  BY <1>6, <1>7, <1>8, <1>9, <1>10, <1>11 DEF Inv

\* Policies change: noted for every call that has asked.
LEMMA NewPoliciesInv ==
  ASSUME Inv, NEW policies \in [Topics -> AllPolicies], NewPolicies(policies)
  PROVE  Inv'
<1>1. /\ TypeOK /\ StoreById /\ HeadersOfTopic /\ KeyOrder
      /\ HandlerHolds /\ CallNamed /\ AskedNoted /\ QueriesSent
      /\ HandlerNotOlder /\ ReplyIsAskedFor
      /\ CacheCorrect /\ NoWrongKey /\ LockNotOlder /\ LockedUnderPolicyInForce
  BY DEF Inv
<1>2. /\ policy' = policies
      /\ UNCHANGED <<keys, published, pk, msk, handler, queue, sk, cache,
                     reader>>
  BY DEF NewPolicies, producerVars, authorityVars, consumerVars
<1>3. ASSUME NEW r \in Readers
      PROVE  /\ asked'[r] \in [policies : SUBSET AllPolicies, pk : Generations]
             /\ asked'[r].pk = asked[r].pk
             /\ asked[r].policies \subseteq asked'[r].policies
             /\ Asking(r) => policies[reader[r].msg.topic] \in asked'[r].policies
  <2>1. asked[r] \in [policies : SUBSET AllPolicies, pk : Generations]
    BY <1>1 DEF TypeOK
  <2>2. CASE Asking(r)
    <3>1. asked'[r] = [asked[r] EXCEPT
                !.policies = @ \cup {policies[reader[r].msg.topic]}]
      BY <2>2 DEF NewPolicies, Asking
    <3>2. reader[r].msg.topic \in Topics
      BY <2>2, <1>1, NamedTypes DEF CallNamed, Asking, TypeOK
    <3>3. policies[reader[r].msg.topic] \in AllPolicies
      BY <3>2
    <3> QED
      BY <2>1, <3>1, <3>3
  <2>3. CASE ~ Asking(r)
    BY <2>1, <2>3 DEF NewPolicies, Asking
  <2> QED
    BY <2>2, <2>3
<1>4. TypeOK'
  <2>1. asked' = [r \in Readers |-> asked'[r]]
    BY DEF NewPolicies
  <2>2. asked' \in [Readers -> [policies : SUBSET AllPolicies, pk : Generations]]
    BY <2>1, <1>3
  <2> QED
    BY <2>2, <1>1, <1>2 DEF TypeOK
<1>5. AskedNoted'
  BY <1>1, <1>2, <1>3 DEF AskedNoted, Asking
<1>6. HandlerNotOlder' /\ LockNotOlder' /\ LockedUnderPolicyInForce'
  BY <1>1, <1>2, <1>3
  DEF HandlerNotOlder, Awaits, Busy, LockNotOlder, LockedUnderPolicyInForce
<1>7. StoreById' /\ HeadersOfTopic' /\ KeyOrder' /\ HandlerHolds' /\ CallNamed'
      /\ QueriesSent' /\ ReplyIsAskedFor' /\ CacheCorrect' /\ NoWrongKey'
  BY <1>1, <1>2
  DEF StoreById, HeadersOfTopic, KeyOrder, HandlerHolds, Busy, CallNamed,
      QueriesSent, SentBy, ReplyIsAskedFor, CacheCorrect, NoWrongKey
<1> QED
  BY <1>4, <1>5, <1>6, <1>7 DEF Inv

LEMMA RestartInv ==
  ASSUME Inv, Restart
  PROVE  Inv'
<1>1. /\ keys' = [id \in CkIds |-> None] /\ handler' = Starting
      /\ queue' = <<>> /\ Drop({handler.query} \cup Waiting)
      /\ UNCHANGED <<published, pk, msk, policy, sk, cache, asked>>
  BY DEF Restart, authorityVars
<1>2. /\ DOMAIN reader' = Readers
      /\ \A r \in Readers : Returned(reader[r], reader'[r])
  BY <1>1, DropReturns DEF Inv, TypeOK
<1>3. reader' = [r \in Readers |-> reader'[r]]
  BY <1>1 DEF Drop
<1>4. ~ Busy' /\ Len(queue') = 0 /\ queue' \in Seq(Queries \cup {Wild})
  BY <1>1, HandlerTypes DEF Busy
<1>5. cache' \in [Consumers -> Caches] /\ CacheCorrect'
  BY <1>1 DEF Inv, TypeOK, CacheCorrect
<1> QED
  BY <1>1, <1>2, <1>3, <1>4, <1>5, EndInv

LEMMA ProbeInv ==
  ASSUME Inv, Probe
  PROVE  Inv'
<1>1. /\ TypeOK /\ StoreById /\ HeadersOfTopic /\ KeyOrder
      /\ HandlerHolds /\ CallNamed /\ AskedNoted /\ QueriesSent
      /\ HandlerNotOlder /\ ReplyIsAskedFor
      /\ CacheCorrect /\ NoWrongKey /\ LockNotOlder /\ LockedUnderPolicyInForce
  BY DEF Inv
<1>2. /\ queue' = Append(queue, Wild)
      /\ UNCHANGED <<keys, published, pk, msk, policy, handler, sk, cache,
                     reader, asked>>
  BY DEF Probe, authorityVars, consumerVars
<1>3. /\ queue' \in Seq(Queries \cup {Wild})
      /\ \A i \in 1..Len(queue') : queue'[i] = Wild \/
            (i \in 1..Len(queue) /\ queue'[i] = queue[i])
  BY <1>1, <1>2 DEF TypeOK
<1>4. TypeOK'
  BY <1>1, <1>2, <1>3 DEF TypeOK
<1>5. QueriesSent'
  BY <1>1, <1>2, <1>3 DEF QueriesSent, SentBy, Busy
<1>6. StoreById' /\ HeadersOfTopic' /\ KeyOrder' /\ HandlerHolds' /\ CallNamed'
      /\ AskedNoted' /\ HandlerNotOlder' /\ ReplyIsAskedFor' /\ CacheCorrect'
      /\ NoWrongKey' /\ LockNotOlder' /\ LockedUnderPolicyInForce'
  BY <1>1, <1>2
  DEF StoreById, HeadersOfTopic, KeyOrder, HandlerHolds, Busy, CallNamed,
      AskedNoted, Asking, HandlerNotOlder, Awaits, ReplyIsAskedFor,
      CacheCorrect, NoWrongKey, LockNotOlder, LockedUnderPolicyInForce
<1> QED
  BY <1>4, <1>5, <1>6 DEF Inv
-----------------------------------------------------------------------------
(* handle_content_key_query *)

\* A step of the handler on which no call ends.
LEMMA HandlerStepInv ==
  ASSUME Inv,
         UNCHANGED <<keys, published, pk, msk, policy, queue, sk, cache, reader,
                     asked>>,
         handler' \in Handlers, Busy, handler'.query = handler.query,
         HandlerHolds', HandlerNotOlder'
  PROVE  Inv'
<1>1. /\ TypeOK /\ StoreById /\ HeadersOfTopic /\ KeyOrder
      /\ HandlerHolds /\ CallNamed /\ AskedNoted /\ QueriesSent
      /\ HandlerNotOlder /\ ReplyIsAskedFor
      /\ CacheCorrect /\ NoWrongKey /\ LockNotOlder /\ LockedUnderPolicyInForce
  BY DEF Inv
<1>2. TypeOK'
  BY <1>1 DEF TypeOK
<1>3. QueriesSent'
  BY <1>1 DEF QueriesSent, SentBy, Busy
<1>4. StoreById' /\ HeadersOfTopic' /\ KeyOrder' /\ CallNamed' /\ AskedNoted'
      /\ ReplyIsAskedFor' /\ CacheCorrect' /\ NoWrongKey' /\ LockNotOlder'
      /\ LockedUnderPolicyInForce'
  BY <1>1
  DEF StoreById, HeadersOfTopic, KeyOrder, CallNamed, AskedNoted, Asking,
      ReplyIsAskedFor, CacheCorrect, NoWrongKey, LockNotOlder,
      LockedUnderPolicyInForce
<1> QED
  BY <1>2, <1>3, <1>4 DEF Inv

\* The handler gives up the query in hand.
LEMMA DropQueryInv ==
  ASSUME Inv, DropQuery,
         UNCHANGED <<keys, published, queue, authorityVars, policy, sk, cache,
                     asked>>
  PROVE  Inv'
<1>1. Drop({handler.query}) /\ handler' = Receiving
      /\ UNCHANGED <<published, pk, msk, policy, sk, asked>> /\ keys' = keys
      /\ queue' = queue
  BY DEF DropQuery, authorityVars
<1>2. /\ DOMAIN reader' = Readers
      /\ \A r \in Readers : Returned(reader[r], reader'[r])
  BY <1>1, DropReturns DEF Inv, TypeOK
<1>3. reader' = [r \in Readers |-> reader'[r]]
  BY <1>1 DEF Drop
<1>4. queue' \in Seq(Queries \cup {Wild})
      /\ \A i \in 1..Len(queue') : \E j \in 1..Len(queue) : queue'[i] = queue[j]
  BY <1>1 DEF Inv, TypeOK
<1>5. cache' \in [Consumers -> Caches] /\ CacheCorrect'
  BY DEF Inv, TypeOK, CacheCorrect
<1> QED
  BY <1>1, <1>2, <1>3, <1>4, <1>5, EndInv

LEMMA UnchangedReturns ==
  ASSUME TypeOK, reader' = reader
  PROVE  /\ DOMAIN reader' = Readers
         /\ reader' = [r \in Readers |-> reader'[r]]
         /\ \A r \in Readers : Returned(reader[r], reader'[r])
  BY DEF TypeOK, Returned

LEMMA CkDeclareInv ==
  ASSUME Inv, CkDeclare
  PROVE  Inv'
<1>1. handler' = Receiving /\ reader' = reader /\ keys' = keys
      /\ UNCHANGED <<published, pk, msk, policy, sk, asked>>
      /\ queue' = queue
  BY DEF CkDeclare, authorityVars, consumerVars
<1>2. queue' \in Seq(Queries \cup {Wild})
      /\ \A i \in 1..Len(queue') : \E j \in 1..Len(queue) : queue'[i] = queue[j]
  BY <1>1 DEF Inv, TypeOK
<1>3. cache' \in [Consumers -> Caches] /\ CacheCorrect'
  BY DEF CkDeclare, consumerVars, Inv, TypeOK, CacheCorrect
<1>4. /\ DOMAIN reader' = Readers
      /\ reader' = [r \in Readers |-> reader'[r]]
      /\ \A r \in Readers : Returned(reader[r], reader'[r])
  BY <1>1, UnchangedReturns DEF Inv
<1> QED
  BY <1>1, <1>2, <1>3, <1>4, EndInv

LEMMA CkReceiveInv ==
  ASSUME Inv, CkReceive
  PROVE  Inv'
<1>1. /\ TypeOK /\ StoreById /\ HeadersOfTopic /\ KeyOrder
      /\ HandlerHolds /\ CallNamed /\ AskedNoted /\ QueriesSent
      /\ HandlerNotOlder /\ ReplyIsAskedFor
      /\ CacheCorrect /\ NoWrongKey /\ LockNotOlder /\ LockedUnderPolicyInForce
  BY DEF Inv
<1>2. /\ handler.at = "recv" /\ queue # <<>> /\ queue' = Tail(queue)
      /\ UNCHANGED <<published, pk, msk, policy, sk, asked>> /\ keys' = keys
      /\ reader' = reader /\ cache' = cache
  BY DEF CkReceive, authorityVars, consumerVars
<1>3. /\ queue' \in Seq(Queries \cup {Wild})
      /\ \A i \in 1..Len(queue') : i + 1 \in 1..Len(queue) /\ queue'[i] = queue[i + 1]
      /\ 1 \in 1..Len(queue) /\ Head(queue) = queue[1]
      /\ Head(queue) \in Queries \cup {Wild}
  <2>1. queue \in Seq(Queries \cup {Wild}) /\ queue # <<>> /\ queue' = Tail(queue)
    BY <1>1, <1>2 DEF TypeOK
  <2> QED
    BY <2>1
<1>4. CASE Head(queue) = Wild
  <2>1. handler' = Receiving
    BY <1>4 DEF CkReceive
  <2>2. /\ DOMAIN reader' = Readers
        /\ reader' = [r \in Readers |-> reader'[r]]
        /\ \A r \in Readers : Returned(reader[r], reader'[r])
    BY <1>1, <1>2, UnchangedReturns
  <2>3. cache' \in [Consumers -> Caches] /\ CacheCorrect'
    BY <1>1, <1>2 DEF TypeOK, CacheCorrect
  <2>4. \A i \in 1..Len(queue') : \E j \in 1..Len(queue) : queue'[i] = queue[j]
    BY <1>3
  <2> QED
    BY <1>2, <1>3, <2>1, <2>2, <2>3, <2>4, EndInv
<1>5. CASE Head(queue) # Wild
  <2>1. handler' = [handler EXCEPT !.at = "got", !.query = Head(queue)]
        /\ Head(queue) \in Queries
    BY <1>3, <1>5 DEF CkReceive
  <2>2. handler' \in Handlers /\ handler'.at = "got"
        /\ handler'.query = Head(queue)
    BY <2>1, <1>1 DEF TypeOK, Handlers
  <2>3. TypeOK'
    BY <1>1, <1>2, <1>3, <2>2 DEF TypeOK
  <2>4. HandlerHolds' /\ HandlerNotOlder'
    BY <2>1, <2>2 DEF HandlerHolds, HandlerNotOlder, Busy
  <2>5. QueriesSent'
    <3>1. \A i \in 1..Len(queue') : queue'[i] # Wild =>
             \E j \in 1..Len(queue) : queue'[i] = queue[j] /\ SentBy(queue[j])
      BY <1>1, <1>3 DEF QueriesSent
    <3>2. SentBy(Head(queue))
      BY <1>1, <1>3, <1>5 DEF QueriesSent
    <3> QED
      BY <3>1, <3>2, <1>2, <2>2 DEF QueriesSent, SentBy
  <2>6. StoreById' /\ HeadersOfTopic' /\ KeyOrder' /\ CallNamed' /\ AskedNoted'
        /\ ReplyIsAskedFor' /\ CacheCorrect' /\ NoWrongKey' /\ LockNotOlder'
        /\ LockedUnderPolicyInForce'
    BY <1>1, <1>2
    DEF StoreById, HeadersOfTopic, KeyOrder, CallNamed, AskedNoted, Asking,
        ReplyIsAskedFor, CacheCorrect, NoWrongKey, LockNotOlder,
        LockedUnderPolicyInForce
  <2> QED
    BY <2>3, <2>4, <2>5, <2>6 DEF Inv
<1> QED
  BY <1>4, <1>5

LEMMA CkGetPublicKeyInv ==
  ASSUME Inv, CkGetPublicKey
  PROVE  Inv'
<1>1. CASE DropQuery
  BY <1>1, DropQueryInv DEF CkGetPublicKey
<1>2. CASE /\ handler' = [handler EXCEPT !.at = "pk", !.pk = pk]
           /\ reader' = reader
  <2>1. handler.at = "got" /\ handler \in Handlers /\ pk \in Generations
    BY DEF CkGetPublicKey, Inv, TypeOK
  <2>2. /\ handler' \in Handlers /\ handler'.at = "pk" /\ handler'.pk = pk
        /\ handler'.query = handler.query /\ Busy
    BY <1>2, <2>1 DEF Handlers, Busy
  <2>3. UNCHANGED <<keys, published, pk, msk, policy, queue, sk, cache, reader,
                    asked>>
    BY <1>2 DEF CkGetPublicKey, authorityVars
  <2>4. HandlerHolds'
    BY <2>1, <2>2, <2>3, GenerationTypes DEF HandlerHolds, Busy, Inv, Generations
  <2>5. HandlerNotOlder'
    BY <2>2, <2>3 DEF HandlerNotOlder, Busy, Awaits, Inv, AskedNoted, Asking
  <2> QED
    BY <2>2, <2>3, <2>4, <2>5, HandlerStepInv
<1> QED
  BY <1>1, <1>2 DEF CkGetPublicKey, PublicKeyReply

LEMMA CkLookUpInv ==
  ASSUME Inv, CkLookUp
  PROVE  Inv'
<1> DEFINE entry == keys[handler.query.ckId]
<1>1. CASE entry = None
  BY <1>1, DropQueryInv DEF CkLookUp
<1>2. CASE entry # None
  <2>1. handler.at = "pk" /\ handler \in Handlers /\ Busy
        /\ handler' = [handler EXCEPT !.at = "ck", !.entry = entry]
        /\ reader' = reader
    BY <1>2 DEF CkLookUp, Inv, TypeOK, Busy
  <2>2. entry \in Entries
    BY <1>2, <2>1 DEF Inv, TypeOK, HandlerHolds, Queries
  <2>3. /\ handler' \in Handlers /\ handler'.at = "ck" /\ handler'.pk = handler.pk
        /\ handler'.query = handler.query /\ handler'.entry = entry
    BY <2>1, <2>2 DEF Handlers
  <2>4. UNCHANGED <<keys, published, pk, msk, policy, queue, sk, cache, reader,
                    asked>>
    BY <2>1 DEF CkLookUp, authorityVars
  <2>5. HandlerHolds'
    BY <2>1, <2>2, <2>3, <2>4 DEF HandlerHolds, Busy, Inv
  <2>6. HandlerNotOlder'
    BY <2>1, <2>3, <2>4 DEF HandlerNotOlder, Busy, Awaits, Inv
  <2> QED
    BY <2>1, <2>3, <2>4, <2>5, <2>6, HandlerStepInv
<1> QED
  BY <1>1, <1>2

\* The query in hand and the call that waits for it are about the same topic.
LEMMA InHandTopic ==
  ASSUME Inv, handler.at \in {"ck", "policy"}, NEW r \in Readers,
         Awaits(r, handler.query)
  PROVE  /\ handler.query.ckId = reader[r].id
         /\ handler.entry.topic = reader[r].msg.topic
         /\ Id(handler.entry.ck) = reader[r].id
<1>1. /\ handler.query \in Queries /\ handler.entry \in Entries
      /\ keys[handler.query.ckId] = handler.entry
      /\ SentBy(handler.query)
  BY DEF Inv, HandlerHolds, QueriesSent, Busy
<1>2. handler.query.ckId = reader[r].id
  BY <1>1 DEF SentBy, Awaits
<1>3. reader[r].msg \in published /\ reader[r].id \in Named(reader[r].msg)
  BY DEF Inv, CallNamed, Awaits
<1>4. handler.entry # None /\ handler.query.ckId \in CkIds
  BY <1>1 DEF Queries
<1> QED
  BY <1>1, <1>2, <1>3, <1>4 DEF Inv, HeadersOfTopic, StoreById

LEMMA CkGetPolicyInv ==
  ASSUME Inv, CkGetPolicy
  PROVE  Inv'
<1> DEFINE reply == policy[handler.entry.topic]
<1>1. CASE DropQuery
  BY <1>1, DropQueryInv DEF CkGetPolicy
<1>2. CASE /\ reply # None
           /\ handler' = [handler EXCEPT !.at = "policy", !.policy = reply]
           /\ reader' = reader
  <2>1. handler.at = "ck" /\ handler \in Handlers /\ Busy
        /\ handler.entry \in Entries
    BY <1>2 DEF CkGetPolicy, Inv, TypeOK, Busy, HandlerHolds
  <2>2. reply \in AllPolicies
    BY <2>1 DEF Inv, TypeOK, Entries
  <2>3. /\ handler' \in Handlers /\ handler'.at = "policy"
        /\ handler'.pk = handler.pk /\ handler'.query = handler.query
        /\ handler'.entry = handler.entry /\ handler'.policy = reply
    BY <1>2, <2>1, <2>2 DEF Handlers
  <2>4. UNCHANGED <<keys, published, pk, msk, policy, queue, sk, cache, reader,
                    asked>>
    BY <1>2 DEF CkGetPolicy, authorityVars
  <2>5. HandlerHolds'
    BY <1>2, <2>1, <2>3, <2>4 DEF HandlerHolds, Busy, Inv
  <2>6. ASSUME NEW r \in Readers, Awaits(r, handler.query)
        PROVE  asked[r].pk <= handler.pk /\ reply \in asked[r].policies
    <3>1. handler.entry.topic = reader[r].msg.topic
      BY <2>1, <2>6, InHandTopic
    <3>2. Asking(r)
      BY <2>6 DEF Awaits, Asking
    <3> QED
      BY <3>1, <3>2, <2>1, <2>6 DEF Inv, AskedNoted, HandlerNotOlder
  <2>7. HandlerNotOlder'
    BY <2>3, <2>4, <2>6 DEF HandlerNotOlder, Awaits
  <2> QED
    BY <2>1, <2>3, <2>4, <2>5, <2>7, HandlerStepInv
<1> QED
  BY <1>1, <1>2 DEF CkGetPolicy, PolicyReply

\* The handler fails, and all the queries it has received with it.
LEMMA CkFailInv ==
  ASSUME Inv, CkFail
  PROVE  Inv'
<1>1. /\ handler' = Stopped /\ queue' = <<>>
      /\ Drop({handler.query} \cup Waiting)
      /\ UNCHANGED <<published, pk, msk, policy, sk, asked>> /\ keys' = keys
  BY DEF CkFail, authorityVars
<1>2. /\ DOMAIN reader' = Readers
      /\ \A r \in Readers : Returned(reader[r], reader'[r])
  BY <1>1, DropReturns DEF Inv, TypeOK
<1>3. reader' = [r \in Readers |-> reader'[r]]
  BY <1>1 DEF Drop
<1>4. Len(queue') = 0 /\ queue' \in Seq(Queries \cup {Wild})
  BY <1>1
<1>5. cache' \in [Consumers -> Caches] /\ CacheCorrect'
  BY DEF CkFail, Inv, TypeOK, CacheCorrect
<1> QED
  BY <1>1, <1>2, <1>3, <1>4, <1>5, EndInv

LEMMA CkReplyInv ==
  ASSUME Inv, CkReply
  PROVE  Inv'
<1>1. /\ TypeOK /\ StoreById /\ HeadersOfTopic /\ KeyOrder
      /\ HandlerHolds /\ CallNamed /\ AskedNoted /\ QueriesSent
      /\ HandlerNotOlder /\ ReplyIsAskedFor
      /\ CacheCorrect /\ NoWrongKey /\ LockNotOlder /\ LockedUnderPolicyInForce
  BY DEF Inv
<1>2. /\ handler.at = "policy" /\ handler.policy # Malformed /\ Busy
      /\ handler' = Receiving /\ ~ Busy'
      /\ UNCHANGED <<keys, published, pk, msk, policy, queue, sk, cache, asked>>
  BY HandlerTypes DEF CkReply, authorityVars, Busy
<1>3. Lock \in Locked
  BY <1>1, <1>2
  DEF Lock, Locked, HandlerHolds, TypeOK, Handlers, Entries, AllPolicies
<1>4. ASSUME NEW r \in Readers
      PROVE  /\ reader'[r] \in Tasks
             /\ reader'[r].call = reader[r].call /\ reader'[r].id = reader[r].id
             /\ reader'[r].msg = reader[r].msg /\ reader'[r].op = reader[r].op
             /\ reader'[r].sk = reader[r].sk
             /\ reader'[r].result = reader[r].result
             /\ \/ reader'[r] = reader[r]
                \/ /\ Awaits(r, handler.query)
                   /\ reader'[r].at = "replied" /\ reader'[r].reply = Lock
  <2>1. reader[r] \in Tasks
    BY <1>1 DEF TypeOK
  <2>2. CASE Awaits(r, handler.query)
    <3>1. reader'[r] = [reader[r] EXCEPT !.at = "replied", !.reply = Lock]
      BY <2>2 DEF CkReply
    <3> QED
      BY <2>1, <2>2, <3>1, <1>3 DEF Tasks
  <2>3. CASE ~ Awaits(r, handler.query)
    BY <2>1, <2>3 DEF CkReply
  <2> QED
    BY <2>2, <2>3
<1>5. TypeOK'
  <2>1. reader' = [r \in Readers |-> reader'[r]]
    BY DEF CkReply
  <2>2. reader' \in [Readers -> Tasks]
    BY <2>1, <1>4
  <2> QED
    BY <2>2, <1>1, <1>2, HandlerTypes DEF TypeOK
<1>6. HandlerHolds' /\ HandlerNotOlder'
  BY <1>2, HandlerTypes DEF HandlerHolds, HandlerNotOlder, Busy
<1>7. CallNamed'
  BY <1>1, <1>2, <1>3, <1>4 DEF CallNamed, Awaits
<1>8. AskedNoted'
  BY <1>1, <1>2, <1>4 DEF AskedNoted, Asking, Awaits
<1>9. QueriesSent'
  <2>1. ASSUME NEW q \in Queries, SentBy(q)
        PROVE  SentBy(q)'
    BY <2>1, <1>4 DEF SentBy, Queries, Awaits
  <2>2. \A i \in 1..Len(queue) : queue[i] # Wild => queue[i] \in Queries
    BY <1>1 DEF TypeOK
  <2> QED
    BY <2>1, <2>2, <1>1, <1>2 DEF QueriesSent
<1>10. ASSUME NEW r \in Readers, reader'[r] # reader[r]
       PROVE  /\ Id(Lock.ck) = reader[r].id
              /\ reader[r].sk <= asked[r].pk /\ asked[r].pk <= Lock.pk
              /\ Lock.policy \in asked[r].policies
  <2>1. Awaits(r, handler.query)
    BY <1>4, <1>10
  <2>2. Id(handler.entry.ck) = reader[r].id
    BY <2>1, <1>2, InHandTopic
  <2>3. asked[r].pk <= handler.pk /\ handler.policy \in asked[r].policies
    BY <2>1, <1>1, <1>2 DEF HandlerNotOlder
  <2>4. reader[r].sk <= asked[r].pk
    BY <2>1, <1>1 DEF AskedNoted, Asking, Awaits
  <2> QED
    BY <2>2, <2>3, <2>4 DEF Lock
<1>11. ReplyIsAskedFor' /\ LockNotOlder' /\ LockedUnderPolicyInForce'
  BY <1>1, <1>2, <1>4, <1>10
  DEF ReplyIsAskedFor, LockNotOlder, LockedUnderPolicyInForce
<1>12. StoreById' /\ HeadersOfTopic' /\ KeyOrder' /\ CacheCorrect' /\ NoWrongKey'
  BY <1>1, <1>2, <1>4
  DEF StoreById, HeadersOfTopic, KeyOrder, CacheCorrect, NoWrongKey
<1> QED
  BY <1>5, <1>6, <1>7, <1>8, <1>9, <1>11, <1>12 DEF Inv
-----------------------------------------------------------------------------
(* Consumer *)

LEMMA GetSecretKeyInv ==
  ASSUME Inv, NEW c \in Consumers, GetSecretKey(c)
  PROVE  Inv'
<1>1. /\ TypeOK /\ StoreById /\ HeadersOfTopic /\ KeyOrder
      /\ HandlerHolds /\ CallNamed /\ AskedNoted /\ QueriesSent
      /\ HandlerNotOlder /\ ReplyIsAskedFor
      /\ CacheCorrect /\ NoWrongKey /\ LockNotOlder /\ LockedUnderPolicyInForce
  BY DEF Inv
<1>2. /\ sk' = [sk EXCEPT ![c] = msk]
      /\ UNCHANGED <<keys, published, pk, msk, policy, handler, queue, cache,
                     reader, asked>>
  BY DEF GetSecretKey, producerVars, authorityVars
<1>3. TypeOK' /\ KeyOrder'
  BY <1>1, <1>2 DEF TypeOK, KeyOrder
<1>4. StoreById' /\ HeadersOfTopic' /\ HandlerHolds' /\ CallNamed' /\ AskedNoted'
      /\ QueriesSent' /\ HandlerNotOlder' /\ ReplyIsAskedFor' /\ CacheCorrect'
      /\ NoWrongKey' /\ LockNotOlder' /\ LockedUnderPolicyInForce'
  BY <1>1, <1>2
  DEF StoreById, HeadersOfTopic, HandlerHolds, Busy, CallNamed, AskedNoted,
      Asking, QueriesSent, SentBy, HandlerNotOlder, Awaits, ReplyIsAskedFor,
      CacheCorrect, NoWrongKey, LockNotOlder, LockedUnderPolicyInForce
<1> QED
  BY <1>3, <1>4 DEF Inv

\* A step of one task that takes it to where it is about to look a key up:
\* no query was sent by this call, and no query is.
LEMMA CallStepInv ==
  ASSUME Inv, NEW r \in Readers, NEW t \in Tasks,
         reader' = [reader EXCEPT ![r] = t],
         UNCHANGED <<keys, published, pk, msk, policy, handler, queue, sk, cache,
                     asked>>,
         t.at \in {"lookup", "fetch"},
         t.msg \in published, t.id \in Named(t.msg),
         t.op = "decrypt" => t.id = t.msg.ckId,
         t.sk \in Generations, t.sk <= pk,
         t.result # "AesError",
         \/ t.call > reader[r].call
         \/ /\ t.call = reader[r].call /\ t.id = reader[r].id
            /\ reader[r].at \in {"lookup", "fetch"}
  PROVE  Inv'
<1>1. /\ TypeOK /\ StoreById /\ HeadersOfTopic /\ KeyOrder
      /\ HandlerHolds /\ CallNamed /\ AskedNoted /\ QueriesSent
      /\ HandlerNotOlder /\ ReplyIsAskedFor
      /\ CacheCorrect /\ NoWrongKey /\ LockNotOlder /\ LockedUnderPolicyInForce
  BY DEF Inv
<1>2. reader'[r] = t /\ \A s \in Readers : s # r => reader'[s] = reader[s]
  BY <1>1 DEF TypeOK
<1>3. TypeOK'
  BY <1>1 DEF TypeOK
<1>4. CallNamed'
  BY <1>1, <1>2 DEF CallNamed
<1>5. AskedNoted' /\ ReplyIsAskedFor' /\ NoWrongKey' /\ LockNotOlder'
      /\ LockedUnderPolicyInForce'
  BY <1>1, <1>2
  DEF AskedNoted, Asking, ReplyIsAskedFor, NoWrongKey, LockNotOlder,
      LockedUnderPolicyInForce
<1>6. ASSUME NEW q \in Queries, SentBy(q)
      PROVE  SentBy(q)'
  <2>1. /\ q.task \in Readers /\ q.call \in Nat
        /\ reader[q.task].call \in Nat /\ t.call \in Nat
    BY <1>1, <1>6 DEF Queries, TypeOK, Tasks
  <2>2. CASE q.task = r
    BY <1>2, <1>6, <2>1, <2>2 DEF SentBy
  <2>3. CASE q.task # r
    BY <1>2, <1>6, <2>1, <2>3 DEF SentBy
  <2> QED
    BY <2>2, <2>3
<1>7. QueriesSent'
  <2>1. \A i \in 1..Len(queue) : queue[i] # Wild => queue[i] \in Queries
    BY <1>1 DEF TypeOK
  <2>2. Busy => handler.query \in Queries
    BY <1>1 DEF HandlerHolds
  <2> QED
    BY <2>1, <2>2, <1>1, <1>6 DEF QueriesSent, Busy
<1>8. HandlerNotOlder'
  BY <1>1, <1>2 DEF HandlerNotOlder, Awaits, Busy
<1>9. StoreById' /\ HeadersOfTopic' /\ KeyOrder' /\ HandlerHolds' /\ CacheCorrect'
  BY <1>1
  DEF StoreById, HeadersOfTopic, KeyOrder, HandlerHolds, Busy, CacheCorrect
<1> QED
  BY <1>3, <1>4, <1>5, <1>7, <1>8, <1>9 DEF Inv

LEMMA StartCallInv ==
  ASSUME Inv, NEW r \in Readers, NEW m \in published,
         NEW form \in Forms \cup {"full"}, NEW id \in Named(m),
         NEW op \in {"decrypt", "prefetch"}, NEW at \in {"lookup", "fetch"},
         op = "decrypt" => id = m.ckId, StartCall(r, m, form, id, op, at)
  PROVE  Inv'
<1> DEFINE t == [at |-> at, op |-> op, call |-> reader[r].call + 1, msg |-> m,
                 form |-> form, id |-> id, sk |-> sk[Owner[r]], reply |-> None,
                 seen |-> None, result |-> "none"]
<1>1. /\ reader[r].call < MaxCalls /\ sk[Owner[r]] # None
      /\ reader' = [reader EXCEPT ![r] = t]
      /\ UNCHANGED <<keys, published, pk, msk, policy, handler, queue, sk,
                     cache, asked>>
  BY DEF StartCall, producerVars, authorityVars
<1>2. sk[Owner[r]] \in Generations /\ sk[Owner[r]] <= pk
  BY <1>1 DEF Inv, TypeOK, KeyOrder
<1>3. reader[r].call \in Nat /\ reader[r].call + 1 \in 0..MaxCalls
  BY <1>1 DEF Inv, TypeOK, Tasks
<1>4. m \in Messages /\ id \in CkIds
  BY NamedTypes DEF Inv, TypeOK
<1>5. t \in Tasks
  BY <1>2, <1>3, <1>4 DEF Tasks, Results
<1>6. /\ t.at \in {"lookup", "fetch"} /\ t.msg \in published
      /\ t.id \in Named(t.msg) /\ (t.op = "decrypt" => t.id = t.msg.ckId)
      /\ t.sk \in Generations /\ t.sk <= pk /\ t.result # "AesError"
      /\ t.call > reader[r].call
  BY <1>2, <1>3
<1> HIDE DEF t
<1> QED
  BY <1>1, <1>5, <1>6, CallStepInv

LEMMA CallInv ==
  ASSUME Inv, NEW r \in Readers, NEW m \in published, Call(r, m)
  PROVE  Inv'
<1>1. m \in Messages
  BY DEF Inv, TypeOK
<1>2. CASE Prefetch(r, m)
  <2>1. m.nextId \in Named(m)
    BY <1>2 DEF Prefetch, Named
  <2> QED
    BY <1>2, <2>1, StartCallInv DEF Prefetch
<1>3. ASSUME NEW form \in Forms, Decrypt(r, m, form)
      PROVE  Inv'
  <2>1. m.ckId \in Named(m)
    BY <1>1, IdTypes DEF Named
  <2> QED
    BY <1>3, <2>1, StartCallInv DEF Decrypt
<1> QED
  BY <1>2, <1>3 DEF Call

\* The key that a call asks for is the one that the body was encrypted with.
LEMMA RightKey ==
  ASSUME Inv, NEW r \in Readers, reader[r].at # "idle",
         NEW k \in Keys, Id(k) = reader[r].id
  PROVE  WithKey(r, k) \in Results \ {"AesError"}
<1>1. CASE reader[r].op = "prefetch"
  BY <1>1 DEF WithKey, Results
<1>2. CASE reader[r].op # "prefetch"
  <2>1. /\ reader[r].op = "decrypt" /\ reader[r].msg \in published
        /\ reader[r].id = reader[r].msg.ckId
    BY <1>2 DEF Inv, TypeOK, Tasks, CallNamed
  <2>2. reader[r].msg.body \in Keys /\ Id(k) = Id(reader[r].msg.body)
    BY <2>1, NamedTypes DEF Inv, TypeOK, HeadersOfTopic
  <2>3. k = reader[r].msg.body
    BY <2>2, IdInjective
  <2> QED
    BY <1>2, <2>3 DEF WithKey, Unseals, Results
<1> QED
  BY <1>1, <1>2

\* A call returns.
LEMMA ReturnInv ==
  ASSUME Inv, NEW r \in Readers, NEW result \in Results \ {"AesError"},
         Return(r, result),
         UNCHANGED <<producerVars, authorityVars, policy, sk, asked>>,
         cache' \in [Consumers -> Caches], CacheCorrect'
  PROVE  Inv'
<1>1. UNCHANGED <<published, pk, msk, policy, sk, asked>> /\ keys' = keys
      /\ handler' = handler /\ queue' = queue
  BY DEF producerVars, authorityVars
<1>2. /\ DOMAIN reader' = Readers
      /\ \A s \in Readers : Returned(reader[s], reader'[s])
      /\ reader' = [s \in Readers |-> reader'[s]]
  <2>1. reader \in [Readers -> Tasks]
    BY DEF Inv, TypeOK
  <2>2. /\ DOMAIN reader' = Readers
        /\ \A s \in Readers : Returned(reader[s], reader'[s])
        /\ reader' = [reader EXCEPT ![r] =
              [reader[r] EXCEPT !.at = "idle", !.result = result]]
    BY <2>1, ReturnReturns
  <2> QED
    BY <2>1, <2>2
<1>3. queue' \in Seq(Queries \cup {Wild})
      /\ \A i \in 1..Len(queue') : \E j \in 1..Len(queue) : queue'[i] = queue[j]
  BY <1>1 DEF Inv, TypeOK
<1> QED
  BY <1>1, <1>2, <1>3, EndInv

\* What the cache has under the id of a call is the key the call is for.
LEMMA CachedKey ==
  ASSUME Inv, NEW r \in Readers, reader[r].at # "idle", Cached(r) # None
  PROVE  /\ Cached(r) \in Keys /\ Id(Cached(r)) = reader[r].id
         /\ WithKey(r, Cached(r)) \in Results \ {"AesError"}
<1>1. reader[r].id \in CkIds
  BY NamedTypes DEF Inv, CallNamed, TypeOK
<1>2. Cached(r) \in Keys /\ Id(Cached(r)) = reader[r].id
  BY <1>1 DEF Inv, TypeOK, Caches, CacheCorrect, Cached
<1> QED
  BY <1>2, RightKey

\* What ends in an error, or goes on with a key that is cached, leaves the
\* cache as it is.
LEMMA CacheUnchanged ==
  ASSUME Inv, cache' = cache
  PROVE  cache' \in [Consumers -> Caches] /\ CacheCorrect'
  BY DEF Inv, TypeOK, CacheCorrect

\* The call goes on to send its query.
LEMMA GoOnTask ==
  ASSUME NEW t \in Tasks, NEW at \in {"fetch", "waiting"}
  PROVE  /\ [t EXCEPT !.at = at] \in Tasks
         /\ [t EXCEPT !.at = at].at = at
         /\ [t EXCEPT !.at = at].op = t.op
         /\ [t EXCEPT !.at = at].call = t.call
         /\ [t EXCEPT !.at = at].msg = t.msg
         /\ [t EXCEPT !.at = at].id = t.id
         /\ [t EXCEPT !.at = at].sk = t.sk
         /\ [t EXCEPT !.at = at].result = t.result
  BY DEF Tasks

LEMMA LookUpInv ==
  ASSUME Inv, NEW r \in Readers, LookUp(r)
  PROVE  Inv'
<1>1. /\ reader[r].at = "lookup" /\ cache' = cache
      /\ UNCHANGED <<producerVars, authorityVars, policy, sk, asked>>
  BY DEF LookUp
<1>2. cache' \in [Consumers -> Caches] /\ CacheCorrect'
  BY <1>1, CacheUnchanged
<1>3. ASSUME NEW result \in {"NoCkIdFound", "NoProducerPrefixFound"},
             Return(r, result)
      PROVE  Inv'
  <2>1. result \in Results \ {"AesError"}
    BY DEF Results
  <2> QED
    BY <1>1, <1>2, <1>3, <2>1, ReturnInv
<1>4. CASE Cached(r) # None /\ Return(r, WithKey(r, Cached(r)))
  BY <1>1, <1>2, <1>4, CachedKey, ReturnInv
<1>5. CASE reader' = [reader EXCEPT ![r].at = "fetch"]
  <2> DEFINE t == [reader[r] EXCEPT !.at = "fetch"]
  <2>1. reader[r] \in Tasks /\ reader' = [reader EXCEPT ![r] = t]
    BY <1>5 DEF Inv, TypeOK
  <2>2. /\ t \in Tasks /\ t.at = "fetch" /\ t.op = reader[r].op
        /\ t.call = reader[r].call /\ t.msg = reader[r].msg
        /\ t.id = reader[r].id /\ t.sk = reader[r].sk
        /\ t.result = reader[r].result
    BY <2>1, GoOnTask
  <2>3. /\ t.msg \in published /\ t.id \in Named(t.msg)
        /\ (t.op = "decrypt" => t.id = t.msg.ckId)
        /\ t.sk \in Generations /\ t.sk <= pk /\ t.result # "AesError"
    BY <2>2, <1>1 DEF Inv, CallNamed, NoWrongKey
  <2>4. UNCHANGED <<keys, published, pk, msk, policy, handler, queue, sk,
                    cache, asked>>
    BY <1>1 DEF producerVars, authorityVars
  <2> HIDE DEF t
  <2> QED
    BY <1>1, <2>1, <2>2, <2>3, <2>4, CallStepInv
<1> QED
  BY <1>3, <1>4, <1>5 DEF LookUp

\* A sequence with one item more.
LEMMA AppendItems ==
  ASSUME NEW S, NEW s \in Seq(S), NEW e \in S
  PROVE  /\ Append(s, e) \in Seq(S)
         /\ \A i \in 1..Len(Append(s, e)) :
               Append(s, e)[i] = e \/ (i \in 1..Len(s) /\ Append(s, e)[i] = s[i])
  OBVIOUS

\* The query is sent, and what is in force noted.
LEMMA AskInv ==
  ASSUME Inv, NEW r \in Readers, reader[r].at = "fetch",
         reader' = [reader EXCEPT ![r].at = "waiting"],
         queue' = Append(queue, [task |-> r, call |-> reader[r].call,
                                 ckId |-> reader[r].id]),
         asked' = [asked EXCEPT ![r] =
                      [policies |-> {policy[reader[r].msg.topic]}, pk |-> pk]],
         UNCHANGED <<keys, published, handler, authorityVars, policy, sk, cache>>
  PROVE  Inv'
<1> DEFINE q == [task |-> r, call |-> reader[r].call, ckId |-> reader[r].id]
<1>1. /\ TypeOK /\ StoreById /\ HeadersOfTopic /\ KeyOrder
      /\ HandlerHolds /\ CallNamed /\ AskedNoted /\ QueriesSent
      /\ HandlerNotOlder /\ ReplyIsAskedFor
      /\ CacheCorrect /\ NoWrongKey /\ LockNotOlder /\ LockedUnderPolicyInForce
  BY DEF Inv
<1>2. UNCHANGED <<keys, published, pk, msk, policy, handler, sk, cache>>
  BY DEF authorityVars
<1>3. /\ reader[r].msg \in published /\ reader[r].id \in Named(reader[r].msg)
      /\ reader[r].op = "decrypt" => reader[r].id = reader[r].msg.ckId
      /\ reader[r].sk \in Generations /\ reader[r].sk <= pk
      /\ reader[r].result # "AesError" /\ reader[r] \in Tasks
  BY <1>1 DEF CallNamed, NoWrongKey, TypeOK
<1>4. reader[r].id \in CkIds /\ reader[r].msg.topic \in Topics
  BY <1>1, <1>3, NamedTypes DEF TypeOK
<1>5. q \in Queries
  BY <1>3, <1>4 DEF Queries, Tasks
<1>6. /\ reader'[r] = [reader[r] EXCEPT !.at = "waiting"]
      /\ \A s \in Readers : s # r => reader'[s] = reader[s]
  BY <1>1 DEF TypeOK
<1>7. /\ reader'[r] \in Tasks /\ reader'[r].at = "waiting"
      /\ reader'[r].op = reader[r].op /\ reader'[r].call = reader[r].call
      /\ reader'[r].msg = reader[r].msg /\ reader'[r].id = reader[r].id
      /\ reader'[r].sk = reader[r].sk /\ reader'[r].result = reader[r].result
  <2> DEFINE t == [reader[r] EXCEPT !.at = "waiting"]
  <2>1. /\ t \in Tasks /\ t.at = "waiting" /\ t.op = reader[r].op
        /\ t.call = reader[r].call /\ t.msg = reader[r].msg
        /\ t.id = reader[r].id /\ t.sk = reader[r].sk
        /\ t.result = reader[r].result
    BY <1>3, GoOnTask
  <2>2. reader'[r] = t
    BY <1>6
  <2> HIDE DEF t
  <2> QED
    BY <2>1, <2>2
<1>8. /\ asked'[r] = [policies |-> {policy[reader[r].msg.topic]}, pk |-> pk]
      /\ asked'[r] \in [policies : SUBSET AllPolicies, pk : Generations]
      /\ \A s \in Readers : s # r => asked'[s] = asked[s]
  BY <1>1, <1>4 DEF TypeOK
<1>9. /\ queue' \in Seq(Queries \cup {Wild})
      /\ \A i \in 1..Len(queue') :
            queue'[i] = q \/ (i \in 1..Len(queue) /\ queue'[i] = queue[i])
  <2>1. queue \in Seq(Queries \cup {Wild})
    BY <1>1 DEF TypeOK
  <2>2. queue' = Append(queue, q)
    OBVIOUS
  <2> HIDE DEF q
  <2>3. q \in Queries \cup {Wild}
    BY <1>5
  <2> QED
    BY <2>1, <2>2, <2>3, AppendItems
<1>10. TypeOK'
  <2>1. reader' \in [Readers -> Tasks]
    BY <1>1, <1>6, <1>7 DEF TypeOK
  <2>2. asked' \in [Readers -> [policies : SUBSET AllPolicies, pk : Generations]]
    BY <1>1, <1>8 DEF TypeOK
  <2> QED
    BY <2>1, <2>2, <1>1, <1>2, <1>9 DEF TypeOK
<1>11. CallNamed'
  BY <1>1, <1>2, <1>3, <1>6, <1>7 DEF CallNamed
<1>12. AskedNoted'
  <2>1. asked'[r].pk = pk /\ policy[reader[r].msg.topic] \in asked'[r].policies
        /\ pk <= pk
    BY <1>8, <1>1, GenerationTypes DEF TypeOK
  <2> QED
    BY <2>1, <1>1, <1>2, <1>3, <1>6, <1>7, <1>8 DEF AskedNoted, Asking
<1>13. QueriesSent'
  <2>1. ASSUME NEW p \in Queries, SentBy(p)
        PROVE  SentBy(p)'
    BY <2>1, <1>6, <1>7 DEF SentBy, Queries
  <2>2. ASSUME NEW p \in Queries, p = q
        PROVE  SentBy(p)'
    BY <2>2, <1>3, <1>7 DEF SentBy, Tasks
  <2>3. \A i \in 1..Len(queue) : queue[i] # Wild => queue[i] \in Queries
    BY <1>1 DEF TypeOK
  <2>4. \A i \in 1..Len(queue') : queue'[i] # Wild =>
           \E p \in Queries : p = queue'[i] /\ (p = q \/ SentBy(p))
    BY <2>3, <1>1, <1>5, <1>9 DEF QueriesSent
  <2>5. (\A i \in 1..Len(queue) : queue[i] # Wild => SentBy(queue[i]))'
    <3>1. SUFFICES ASSUME NEW i \in 1..Len(queue'), queue'[i] # Wild
          PROVE  SentBy(queue[i])'
      OBVIOUS
    <3>2. PICK p \in Queries : p = queue'[i] /\ (p = q \/ SentBy(p))
      BY <2>4, <3>1
    <3>3. SentBy(p)'
      BY <3>2, <2>1, <2>2
    <3> QED
      BY <3>2, <3>3 DEF SentBy
  <2>6. (Busy => SentBy(handler.query))'
    <3>1. CASE Busy
      BY <2>1, <3>1, <1>1, <1>2 DEF QueriesSent, HandlerHolds, SentBy
    <3> QED
      BY <3>1, <1>2 DEF Busy
  <2> QED
    BY <2>5, <2>6 DEF QueriesSent
<1>14. HandlerNotOlder'
  <2>1. ~ (Busy /\ Awaits(r, handler.query))'
    <3>1. SUFFICES ASSUME Busy, handler.query.task = r
          PROVE  handler.query.call # reader[r].call
      BY <1>2, <1>7 DEF Busy, Awaits
    <3> QED
      BY <3>1, <1>1 DEF QueriesSent, SentBy
  <2> QED
    BY <2>1, <1>1, <1>2, <1>6, <1>8 DEF HandlerNotOlder, Awaits, Busy
<1>15. ReplyIsAskedFor' /\ NoWrongKey' /\ LockNotOlder' /\ LockedUnderPolicyInForce'
  BY <1>1, <1>3, <1>6, <1>7, <1>8
  DEF ReplyIsAskedFor, NoWrongKey, LockNotOlder, LockedUnderPolicyInForce
<1>16. StoreById' /\ HeadersOfTopic' /\ KeyOrder' /\ HandlerHolds' /\ CacheCorrect'
  BY <1>1, <1>2
  DEF StoreById, HeadersOfTopic, KeyOrder, HandlerHolds, Busy, CacheCorrect
<1> QED
  BY <1>10, <1>11, <1>12, <1>13, <1>14, <1>15, <1>16 DEF Inv

LEMMA FetchInv ==
  ASSUME Inv, NEW r \in Readers, Fetch(r)
  PROVE  Inv'
<1>1. /\ reader[r].at = "fetch" /\ cache' = cache
      /\ UNCHANGED <<keys, published, handler, authorityVars, policy, sk>>
  BY DEF Fetch
<1>2. cache' \in [Consumers -> Caches] /\ CacheCorrect'
  BY <1>1, CacheUnchanged
<1>3. "NoContentKeyFound" \in Results \ {"AesError"}
  BY DEF Results
<1>4. CASE /\ Cached(r) # None /\ Return(r, WithKey(r, Cached(r)))
           /\ UNCHANGED <<queue, asked>>
  BY <1>1, <1>2, <1>4, CachedKey, ReturnInv DEF producerVars
<1>5. CASE Return(r, "NoContentKeyFound") /\ UNCHANGED <<queue, asked>>
  BY <1>1, <1>2, <1>3, <1>5, ReturnInv DEF producerVars
<1>6. CASE /\ reader' = [reader EXCEPT ![r].at = "waiting"]
           /\ queue' = Append(queue, [task |-> r, call |-> reader[r].call,
                                      ckId |-> reader[r].id])
           /\ asked' = [asked EXCEPT ![r] =
                  [policies |-> {policy[reader[r].msg.topic]}, pk |-> pk]]
  BY <1>1, <1>6, AskInv
<1> QED
  BY <1>4, <1>5, <1>6 DEF Fetch

LEMMA TimeOutInv ==
  ASSUME Inv, NEW r \in Readers, TimeOut(r)
  PROVE  Inv'
<1>1. "NoContentKeyFound" \in Results \ {"AesError"}
  BY DEF Results
<1>2. cache' \in [Consumers -> Caches] /\ CacheCorrect'
  BY CacheUnchanged DEF TimeOut
<1> QED
  BY <1>1, <1>2, ReturnInv DEF TimeOut

\* The reply is the key that was asked for, and is cached under its id, where
\* there is no other.
LEMMA OpenedKey ==
  ASSUME Inv, NEW r \in Readers, reader[r].at \in {"replied", "caching"}
  PROVE  /\ reader[r].reply \in Locked /\ reader[r].reply.ck \in Keys
         /\ reader[r].id \in CkIds
         /\ Id(reader[r].reply.ck) = reader[r].id
         /\ WithKey(r, reader[r].reply.ck) \in Results \ {"AesError"}
         /\ cache[Owner[r]][reader[r].id] \in {None, reader[r].reply.ck}
<1>1. reader[r].reply \in Locked /\ Id(reader[r].reply.ck) = reader[r].id
  BY DEF Inv, CallNamed, ReplyIsAskedFor
<1>2. reader[r].reply.ck \in Keys
  BY <1>1 DEF Locked
<1>3. WithKey(r, reader[r].reply.ck) \in Results \ {"AesError"}
  BY <1>1, <1>2, RightKey
<1>4. reader[r].id \in CkIds
  BY NamedTypes DEF Inv, CallNamed, TypeOK
<1>5. cache[Owner[r]][reader[r].id] \in {None, reader[r].reply.ck}
  BY <1>1, <1>2, <1>4, IdInjective DEF Inv, TypeOK, Caches, CacheCorrect
<1> QED
  BY <1>1, <1>2, <1>3, <1>4, <1>5

\* A call sees the cache, for the first time or again.
LEMMA SeenInv ==
  ASSUME Inv, NEW r \in Readers, reader[r].at \in {"replied", "caching"},
         Opens(Owner[r], reader[r].sk, reader[r].reply),
         NEW t, reader' = [reader EXCEPT ![r] = t],
         \/ t = [reader[r] EXCEPT !.at = "caching", !.seen = cache[Owner[r]]]
         \/ /\ t = [reader[r] EXCEPT !.seen = cache[Owner[r]]]
            /\ reader[r].at = "caching",
         UNCHANGED <<keys, published, pk, msk, policy, handler, queue, sk,
                     cache, asked>>
  PROVE  Inv'
<1>1. /\ TypeOK /\ StoreById /\ HeadersOfTopic /\ KeyOrder
      /\ HandlerHolds /\ CallNamed /\ AskedNoted /\ QueriesSent
      /\ HandlerNotOlder /\ ReplyIsAskedFor
      /\ CacheCorrect /\ NoWrongKey /\ LockNotOlder /\ LockedUnderPolicyInForce
  BY DEF Inv
<1>2. reader[r] \in Tasks /\ cache[Owner[r]] \in Caches
  BY <1>1 DEF TypeOK
<1>3. /\ t \in Tasks /\ t.at = "caching" /\ t.op = reader[r].op
      /\ t.call = reader[r].call /\ t.msg = reader[r].msg /\ t.id = reader[r].id
      /\ t.sk = reader[r].sk /\ t.reply = reader[r].reply
      /\ t.seen \in Caches /\ t.result = reader[r].result
  <2>1. CASE t = [reader[r] EXCEPT !.at = "caching", !.seen = cache[Owner[r]]]
    BY <1>2, <2>1 DEF Tasks
  <2>2. CASE /\ t = [reader[r] EXCEPT !.seen = cache[Owner[r]]]
             /\ reader[r].at = "caching"
    BY <1>2, <2>2 DEF Tasks
  <2> QED
    BY <2>1, <2>2
<1>5. reader'[r] = t /\ \A s \in Readers : s # r => reader'[s] = reader[s]
  BY <1>1 DEF TypeOK
<1>6. TypeOK'
  BY <1>1, <1>3 DEF TypeOK
<1>7. CallNamed'
  <2>1. ASSUME NEW s \in Readers, s # r
        PROVE  /\ reader'[s] = reader[s]
               /\ reader[s].at = "caching" =>
                     Opens(Owner[s], reader[s].sk, reader[s].reply)
    BY <2>1, <1>1, <1>5 DEF CallNamed
  <2>2. /\ reader[r].msg \in published /\ reader[r].id \in Named(reader[r].msg)
        /\ reader[r].op = "decrypt" => reader[r].id = reader[r].msg.ckId
        /\ reader[r].sk \in Generations /\ reader[r].sk <= pk
        /\ reader[r].reply \in Locked
    BY <1>1 DEF CallNamed
  <2> QED
    BY <2>1, <2>2, <1>1, <1>3, <1>5 DEF CallNamed, Opens
<1>8. AskedNoted' /\ ReplyIsAskedFor' /\ NoWrongKey' /\ LockNotOlder'
      /\ LockedUnderPolicyInForce'
  BY <1>1, <1>3, <1>5
  DEF AskedNoted, Asking, ReplyIsAskedFor, NoWrongKey, LockNotOlder,
      LockedUnderPolicyInForce
<1>9. ASSUME NEW q \in Queries, SentBy(q)
      PROVE  SentBy(q)'
  BY <1>3, <1>5, <1>9 DEF SentBy, Queries
<1>10. QueriesSent'
  <2>1. \A i \in 1..Len(queue) : queue[i] # Wild => queue[i] \in Queries
    BY <1>1 DEF TypeOK
  <2>2. Busy => handler.query \in Queries
    BY <1>1 DEF HandlerHolds
  <2> QED
    BY <2>1, <2>2, <1>1, <1>9 DEF QueriesSent, Busy
<1>11. HandlerNotOlder'
  BY <1>1, <1>3, <1>5 DEF HandlerNotOlder, Awaits, Busy
<1>12. StoreById' /\ HeadersOfTopic' /\ KeyOrder' /\ HandlerHolds' /\ CacheCorrect'
  BY <1>1
  DEF StoreById, HeadersOfTopic, KeyOrder, HandlerHolds, Busy, CacheCorrect
<1> QED
  BY <1>6, <1>7, <1>8, <1>10, <1>11, <1>12 DEF Inv

LEMMA OpenReplyInv ==
  ASSUME Inv, NEW r \in Readers, OpenReply(r)
  PROVE  Inv'
<1>1. /\ reader[r].at = "replied" /\ cache' = cache
      /\ UNCHANGED <<producerVars, authorityVars, policy, sk, asked>>
  BY DEF OpenReply
<1>2. CASE Return(r, "FailedToDecryptContentKey")
  <2>1. "FailedToDecryptContentKey" \in Results \ {"AesError"}
    BY DEF Results
  <2>2. cache' \in [Consumers -> Caches] /\ CacheCorrect'
    BY <1>1, CacheUnchanged
  <2> QED
    BY <1>1, <1>2, <2>1, <2>2, ReturnInv
<1>3. CASE /\ Opens(Owner[r], reader[r].sk, reader[r].reply)
           /\ reader' = [reader EXCEPT ![r].at = "caching",
                                       ![r].seen = cache[Owner[r]]]
  <2> DEFINE t == [reader[r] EXCEPT !.at = "caching", !.seen = cache[Owner[r]]]
  <2>1. reader' = [reader EXCEPT ![r] = t]
    BY <1>3 DEF Inv, TypeOK
  <2>2. UNCHANGED <<keys, published, pk, msk, policy, handler, queue, sk,
                    cache, asked>>
    BY <1>1 DEF producerVars, authorityVars
  <2> QED
    BY <1>1, <1>3, <2>1, <2>2, SeenInv
<1> QED
  BY <1>2, <1>3 DEF OpenReply

\* The map that is stored is the present one with the new key.
LEMMA SwappedCache ==
  ASSUME TypeOK, NEW r \in Readers, SeenIsCurrent(r), NEW k
  PROVE  CacheKey(r, k) =
             [cache EXCEPT ![Owner[r]] = [@ EXCEPT ![reader[r].id] = k]]
  BY DEF TypeOK, SeenIsCurrent, CacheKey

LEMMA SetKeyInv ==
  ASSUME Inv, NEW r \in Readers, SetKey(r)
  PROVE  Inv'
<1> DEFINE k == reader[r].reply.ck
<1>1. /\ reader[r].at = "caching"
      /\ UNCHANGED <<producerVars, authorityVars, policy, sk, asked>>
  BY DEF SetKey
<1>2. CASE SeenIsCurrent(r)
  <2>1. /\ k \in Keys /\ reader[r].id \in CkIds /\ Id(k) = reader[r].id
        /\ WithKey(r, k) \in Results \ {"AesError"}
    BY <1>1, OpenedKey
  <2>2. cache' = CacheKey(r, k) /\ Return(r, WithKey(r, k))
    BY <1>2 DEF SetKey
  <2>3. cache' = [cache EXCEPT ![Owner[r]] = [@ EXCEPT ![reader[r].id] = k]]
    BY <1>2, <2>2, SwappedCache DEF Inv
  <2>4. cache' \in [Consumers -> Caches]
    BY <2>1, <2>3 DEF Inv, TypeOK, Caches
  <2>5. CacheCorrect'
    BY <2>1, <2>3 DEF Inv, TypeOK, Caches, CacheCorrect
  <2> HIDE DEF k
  <2> QED
    BY <1>1, <2>1, <2>2, <2>4, <2>5, ReturnInv
<1>3. CASE ~ SeenIsCurrent(r)
  <2>1. /\ reader' = [reader EXCEPT ![r].seen = cache[Owner[r]]]
        /\ cache' = cache
    BY <1>3 DEF SetKey
  <2> DEFINE t == [reader[r] EXCEPT !.seen = cache[Owner[r]]]
  <2>3. reader' = [reader EXCEPT ![r] = t]
    BY <2>1 DEF Inv, TypeOK
  <2>4. Opens(Owner[r], reader[r].sk, reader[r].reply)
    BY <1>1 DEF Inv, CallNamed
  <2>5. UNCHANGED <<keys, published, pk, msk, policy, handler, queue, sk,
                    cache, asked>>
    BY <1>1, <2>1 DEF producerVars, authorityVars
  <2> QED
    BY <1>1, <2>3, <2>4, <2>5, SeenInv
<1> QED
  BY <1>2, <1>3
-----------------------------------------------------------------------------
LEMMA NextInv == Inv /\ [Next]_vars => Inv'
<1> SUFFICES ASSUME Inv, [Next]_vars PROVE Inv'
  OBVIOUS
<1>1. CASE UNCHANGED vars
  BY <1>1
  DEF vars, Inv, TypeOK, StoreById, HeadersOfTopic, KeyOrder, HandlerHolds,
      Busy, CallNamed, AskedNoted, Asking, QueriesSent, SentBy,
      HandlerNotOlder, Awaits, ReplyIsAskedFor, CacheCorrect, NoWrongKey,
      LockNotOlder, LockedUnderPolicyInForce
<1>2. CASE \E k \in Keys, tp \in Topics : Register(k, tp)
  BY <1>2, RegisterInv
<1>3. CASE \E m \in Inputs.messages : Publish(m)
  BY <1>3, PublishInv
<1>4. CASE Restart
  BY <1>4, RestartInv
<1>5. CASE HandleCk
  BY <1>5, CkDeclareInv, CkReceiveInv, CkGetPublicKeyInv, CkLookUpInv,
     CkGetPolicyInv, CkReplyInv, CkFailInv
  DEF HandleCk
<1>6. CASE \E c \in Consumers : GetSecretKey(c)
  BY <1>6, GetSecretKeyInv
<1>7. CASE \E r \in Readers : Run(r) \/ \E m \in published : Call(r, m)
  BY <1>7, LookUpInv, FetchInv, OpenReplyInv, SetKeyInv, CallInv DEF Run
<1>8. CASE Others
  <2>1. ASSUME NEW tp \in Topics, NEW pol \in Inputs.policies,
               SetPolicy(tp, pol)
        PROVE  Inv'
    <3>1. [policy EXCEPT ![tp] = pol] \in [Topics -> AllPolicies]
      BY DEF Inv, TypeOK, AllPolicies
    <3> QED
      BY <2>1, <3>1, NewPoliciesInv DEF SetPolicy
  <2>2. CASE RestartManager
    <3>1. [tp \in Topics |-> None] \in [Topics -> AllPolicies]
      BY DEF AllPolicies
    <3> QED
      BY <2>2, <3>1, NewPoliciesInv DEF RestartManager
  <2> QED
    BY <1>8, <2>1, <2>2, PairInv, ProbeInv, TimeOutInv DEF Others
<1> QED
  BY <1>1, <1>2, <1>3, <1>4, <1>5, <1>6, <1>7, <1>8 DEF Next

LEMMA InvCorrect == Spec => []Inv
<1>1. Init => Inv
  <2>1. [tp \in Topics |-> None] \in [Topics -> AllPolicies]
    BY DEF AllPolicies
  <2> QED
    BY <2>1, InitInv DEF Init
<1> QED
  BY <1>1, NextInv, PTL DEF Spec

\* Every variable keeps its type, whatever is published, asked and restarted.
THEOREM TypeCorrect == Spec => []TypeOK
<1>1. Inv => TypeOK
  BY DEF Inv
<1> QED
  BY <1>1, InvCorrect, PTL

\* A consumer's cache has each key under its own id: no reply, however late,
\* is taken for the reply to another query (consumer.rs fetch_content_key).
THEOREM CacheCorrectCorrect == Spec => []CacheCorrect
<1>1. Inv => CacheCorrect
  BY DEF Inv
<1> QED
  BY <1>1, InvCorrect, PTL

\* No call opens a body with the wrong content key (consumer.rs decrypt).
THEOREM NoWrongKeyCorrect == Spec => []NoWrongKey
<1>1. Inv => NoWrongKey
  BY DEF Inv
<1> QED
  BY <1>1, InvCorrect, PTL

\* A reply is locked under no older public key than was in force when the
\* call asked (producer.rs handle_content_key_query).
THEOREM LockNotOlderCorrect == Spec => []LockNotOlder
<1>1. Inv => LockNotOlder
  BY DEF Inv
<1> QED
  BY <1>1, InvCorrect, PTL

\* A reply is locked under a policy that the topic has had since the call
\* asked (producer.rs handle_content_key_query).
THEOREM LockedUnderPolicyInForceCorrect == Spec => []LockedUnderPolicyInForce
<1>1. Inv => LockedUnderPolicyInForce
  BY DEF Inv
<1> QED
  BY <1>1, InvCorrect, PTL

\* The only step that changes a cache.
LEMMA CacheStep ==
  ASSUME Inv, [Next]_vars
  PROVE  \/ cache' = cache
         \/ \E r \in Readers :
               /\ reader[r].at = "caching"
               /\ cache' = [cache EXCEPT ![Owner[r]] =
                     [@ EXCEPT ![reader[r].id] = reader[r].reply.ck]]
<1>1. ASSUME NEW r \in Readers, SetKey(r)
      PROVE  \/ cache' = cache
             \/ /\ reader[r].at = "caching"
                /\ cache' = [cache EXCEPT ![Owner[r]] =
                      [@ EXCEPT ![reader[r].id] = reader[r].reply.ck]]
  <2>1. CASE SeenIsCurrent(r)
    <3>1. /\ reader[r].at = "caching"
          /\ cache' = CacheKey(r, reader[r].reply.ck)
      BY <1>1, <2>1 DEF SetKey
    <3> QED
      BY <2>1, <3>1, SwappedCache DEF Inv
  <2>2. CASE ~ SeenIsCurrent(r)
    BY <1>1, <2>2 DEF SetKey
  <2> QED
    BY <2>1, <2>2
<1>2. ASSUME NEW r \in Readers, LookUp(r) \/ Fetch(r) \/ OpenReply(r) \/ TimeOut(r)
      PROVE  cache' = cache
  BY <1>2 DEF LookUp, Fetch, OpenReply, TimeOut
<1>3. ASSUME NEW r \in Readers, NEW m \in published, Call(r, m)
      PROVE  cache' = cache
  BY <1>3 DEF Call, Prefetch, Decrypt, StartCall
<1>4. HandleCk => cache' = cache
  BY DEF HandleCk, CkDeclare, CkReceive, CkGetPublicKey, CkLookUp,
         CkGetPolicy, CkReply, CkFail, consumerVars
<1>5. UpdateKeys \/ RestartManager \/ RestartAuthority \/ Probe \/ Restart
         => cache' = cache
  BY DEF UpdateKeys, RestartManager, NewPolicies, RestartAuthority, Probe,
         Restart, consumerVars
<1>6. ASSUME NEW tp, NEW pol, SetPolicy(tp, pol)
      PROVE  cache' = cache
  BY <1>6 DEF SetPolicy, NewPolicies, consumerVars
<1>7. ASSUME NEW k, NEW tp, Register(k, tp)
      PROVE  cache' = cache
  BY <1>7 DEF Register, consumerVars
<1>8. ASSUME NEW m, Publish(m)
      PROVE  cache' = cache
  BY <1>8 DEF Publish, consumerVars
<1>9. ASSUME NEW c, GetSecretKey(c)
      PROVE  cache' = cache
  BY <1>9 DEF GetSecretKey
<1>10. UNCHANGED vars => cache' = cache
  BY DEF vars
<1> QED
  BY <1>1, <1>2, <1>3, <1>4, <1>5, <1>6, <1>7, <1>8, <1>9, <1>10
  DEF Next, Run, Others

\* A cached key is there for good, although set_key copies the map and swaps
\* it while other tasks do the same (consumer.rs set_key).
THEOREM CacheKeptCorrect == Spec => CacheKept
<1>1. ASSUME Inv, [Next]_vars
      PROVE  \A c \in Consumers, id \in CkIds :
                cache[c][id] # None => cache'[c][id] = cache[c][id]
  <2>1. CASE cache' = cache
    BY <2>1
  <2>2. ASSUME NEW r \in Readers, reader[r].at = "caching",
               cache' = [cache EXCEPT ![Owner[r]] =
                     [@ EXCEPT ![reader[r].id] = reader[r].reply.ck]]
        PROVE  \A c \in Consumers, id \in CkIds :
                  cache[c][id] # None => cache'[c][id] = cache[c][id]
    <3>1. cache[Owner[r]][reader[r].id] \in {None, reader[r].reply.ck}
      BY <1>1, <2>2, OpenedKey
    <3> QED
      BY <1>1, <2>2, <3>1 DEF Inv, TypeOK, Caches
  <2> QED
    BY <1>1, <2>1, <2>2, CacheStep
<1>2. Inv /\ [Next]_vars =>
         [\A c \in Consumers, id \in CkIds :
             cache[c][id] # None => cache'[c][id] = cache[c][id]]_vars
  BY <1>1
<1> QED
  BY <1>2, InvCorrect, PTL DEF Spec, CacheKept
==============================================================================
