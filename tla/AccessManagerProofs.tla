-------------------------- MODULE AccessManagerProofs --------------------------
(***************************************************************************)
(* Theorems about AccessManager for any number of topics, policies and     *)
(* queries, whatever their forms.                                          *)
(***************************************************************************)
EXTENDS AccessManager, TLAPS

Busy == handler.at \in {"got", "policy"}

\* The query in hand waits for its answer, and the policy looked up for it is
\* one its topic has had since.
InHand ==
    /\ Busy => /\ handler.query \in Queries
               /\ query[handler.query].st = "waiting"
    /\ handler.at = "policy" =>
           /\ handler.policy \in Policies
           /\ handler.policy \in inForce[handler.query]

\* The queries in the queue wait for an answer, each once, and none of them is
\* in hand.
Distinct(s) == \A i, j \in 1..Len(s) : i # j => s[i] # s[j]

QueueWaiting ==
    /\ Distinct(queue)
    /\ \A i \in 1..Len(queue) : /\ query[queue[i]].st = "waiting"
                                /\ Busy => queue[i] # handler.query

\* What the topic of a waiting query has as policy now, or that it has none,
\* has been noted; nothing has been noted for a query not sent.
ForceNoted ==
    \A q \in Queries :
        /\ query[q].st = "waiting" => policies[Request[q].topic] \in inForce[q]
        /\ query[q].st = "unsent" => inForce[q] = {}

Inv == /\ TypeOK /\ InHand /\ QueueWaiting /\ ForceNoted
       /\ AnswerInForce /\ DeniedOnlyWithoutPolicy
-----------------------------------------------------------------------------
USE RequestAssumption, NoneAssumption

LEMMA HandlerTypes ==
  /\ Starting \in Handlers /\ Receiving \in Handlers /\ Stopped \in Handlers
  /\ Starting.at = "starting" /\ Receiving.at = "recv" /\ Stopped.at = "stopped"
  BY DEF Starting, Receiving, Stopped, Handlers

LEMMA OutcomeTypes ==
  ASSUME NEW st \in {"unsent", "waiting", "replied", "unanswered"}
  PROVE  Outcome(st) \in Outcomes /\ Outcome(st).st = st
  BY DEF Outcome, Outcomes

\* A query that is sent comes in last, and is none of those before it.
LEMMA AppendDistinct ==
  ASSUME NEW S, NEW s \in Seq(S), NEW x \in S,
         Distinct(s), \A i \in 1..Len(s) : s[i] # x
  PROVE  /\ Append(s, x) \in Seq(S)
         /\ Distinct(Append(s, x))
         /\ \A i \in 1..Len(Append(s, x)) :
               Append(s, x)[i] = x \/ \E j \in 1..Len(s) : Append(s, x)[i] = s[j]
<1>1. /\ Append(s, x) \in Seq(S) /\ Len(s) \in Nat
      /\ Len(Append(s, x)) = Len(s) + 1
      /\ Append(s, x)[Len(s) + 1] = x
      /\ \A i \in 1..Len(s) : Append(s, x)[i] = s[i]
  OBVIOUS
<1>2. \A i \in 1..Len(Append(s, x)) : i \in 1..Len(s) \/ i = Len(s) + 1
  BY <1>1
<1>3. ASSUME NEW i \in 1..Len(Append(s, x)), NEW j \in 1..Len(Append(s, x)),
             i # j
      PROVE  Append(s, x)[i] # Append(s, x)[j]
  <2>1. CASE i \in 1..Len(s) /\ j \in 1..Len(s)
    BY <1>1, <1>3, <2>1 DEF Distinct
  <2>2. CASE i \in 1..Len(s) /\ j = Len(s) + 1
    BY <1>1, <2>2
  <2>3. CASE i = Len(s) + 1 /\ j \in 1..Len(s)
    BY <1>1, <2>3
  <2> QED
    BY <1>2, <1>3, <2>1, <2>2, <2>3
<1> QED
  BY <1>1, <1>2, <1>3 DEF Distinct

\* The query that is received is not among those left in the queue.
LEMMA TailDistinct ==
  ASSUME NEW S, NEW s \in Seq(S), s # <<>>, Distinct(s)
  PROVE  /\ Head(s) \in S /\ Tail(s) \in Seq(S)
         /\ Head(s) = s[1] /\ 1 \in 1..Len(s)
         /\ Distinct(Tail(s))
         /\ \A i \in 1..Len(Tail(s)) :
               /\ Tail(s)[i] # Head(s)
               /\ \E j \in 1..Len(s) : Tail(s)[i] = s[j]
<1>1. /\ Head(s) = s[1] /\ Tail(s) \in Seq(S) /\ Len(s) \in Nat /\ 1 \in 1..Len(s)
      /\ Len(Tail(s)) = Len(s) - 1 /\ Head(s) \in S
  OBVIOUS
<1>2. ASSUME NEW i \in 1..Len(Tail(s))
      PROVE  i + 1 \in 1..Len(s) /\ Tail(s)[i] = s[i + 1] /\ i + 1 # 1
  BY <1>1
<1>3. ASSUME NEW i \in 1..Len(Tail(s)), NEW j \in 1..Len(Tail(s)), i # j
      PROVE  Tail(s)[i] # Tail(s)[j]
  <2>1. i + 1 # j + 1
    BY <1>1, <1>3
  <2> QED
    BY <2>1, <1>2 DEF Distinct
<1>4. \A i \in 1..Len(Tail(s)) : Tail(s)[i] # Head(s)
  BY <1>1, <1>2 DEF Distinct
<1> QED
  BY <1>1, <1>2, <1>3, <1>4 DEF Distinct
-----------------------------------------------------------------------------
LEMMA InitInv == Init => Inv
<1> SUFFICES ASSUME Init PROVE Inv
  OBVIOUS
<1>1. TypeOK
  BY HandlerTypes, OutcomeTypes DEF Init, TypeOK
<1>2. InHand /\ QueueWaiting
  BY HandlerTypes DEF Init, InHand, QueueWaiting, Distinct, Busy
<1>3. ForceNoted /\ AnswerInForce /\ DeniedOnlyWithoutPolicy
  BY DEF Init, ForceNoted, AnswerInForce, DeniedOnlyWithoutPolicy, Outcome
<1> QED
  BY <1>1, <1>2, <1>3 DEF Inv

\* A policy is noted for the queries of its topic that wait, and forgotten for
\* none.
LEMMA SetPolicyInv ==
  ASSUME Inv, NEW tp \in Topics, NEW pol \in Policies, SetPolicy(tp, pol)
  PROVE  Inv'
<1>1. /\ TypeOK /\ InHand /\ QueueWaiting
      /\ ForceNoted /\ AnswerInForce /\ DeniedOnlyWithoutPolicy
  BY DEF Inv
<1>2. queue' = queue /\ handler' = handler /\ query' = query
  BY DEF SetPolicy
<1>3. \A q \in Queries :
         /\ inForce[q] \subseteq inForce'[q]
         /\ query[q].st # "waiting" => inForce'[q] = inForce[q]
         /\ None \in inForce'[q] => None \in inForce[q]
  BY DEF SetPolicy
<1>4. TypeOK'
  BY <1>1, <1>2 DEF TypeOK, SetPolicy
<1>5. InHand' /\ QueueWaiting'
  BY <1>1, <1>2, <1>3 DEF InHand, QueueWaiting, Busy
<1>6. ForceNoted'
  BY <1>1, <1>2, <1>3 DEF ForceNoted, SetPolicy, TypeOK
<1>7. AnswerInForce' /\ DeniedOnlyWithoutPolicy'
  BY <1>1, <1>2, <1>3 DEF AnswerInForce, DeniedOnlyWithoutPolicy
<1> QED
  BY <1>4, <1>5, <1>6, <1>7 DEF Inv

LEMMA SendInv ==
  ASSUME Inv, NEW q \in Queries, Send(q)
  PROVE  Inv'
<1>1. /\ TypeOK /\ InHand /\ QueueWaiting
      /\ ForceNoted /\ AnswerInForce /\ DeniedOnlyWithoutPolicy
  BY DEF Inv
<1>2. /\ policies' = policies /\ handler' = handler
      /\ query[q].st = "unsent" /\ inForce[q] = {}
      /\ Busy' = Busy
  BY <1>1 DEF Send, ForceNoted, Busy
<1>3. \A r \in Queries : r # q => query'[r] = query[r] /\ inForce'[r] = inForce[r]
  BY <1>1 DEF Send, TypeOK
<1>4. InHand'
  BY <1>1, <1>2, <1>3 DEF InHand, Busy
<1>5. CASE handler.at \in {"starting", "stopped"}
  <2>1. /\ query' = [query EXCEPT ![q] = Outcome("unanswered")]
        /\ queue' = queue /\ inForce' = inForce
    BY <1>5 DEF Send
  <2>2. query'[q].st = "unanswered" /\ query' \in [Queries -> Outcomes]
    BY <2>1, <1>1, OutcomeTypes DEF TypeOK
  <2>3. TypeOK'
    BY <2>1, <2>2, <1>1, <1>2 DEF TypeOK
  <2>4. QueueWaiting'
    <3>1. \A i \in 1..Len(queue) : queue[i] \in Queries /\ queue[i] # q
      BY <1>1, <1>2 DEF QueueWaiting, TypeOK
    <3> QED
      BY <3>1, <1>1, <1>2, <1>3, <2>1 DEF QueueWaiting
  <2>5. ForceNoted' /\ AnswerInForce' /\ DeniedOnlyWithoutPolicy'
    BY <2>1, <2>2, <1>1, <1>2, <1>3
    DEF ForceNoted, AnswerInForce, DeniedOnlyWithoutPolicy
  <2> QED
    BY <1>4, <2>3, <2>4, <2>5 DEF Inv
<1>6. CASE handler.at \notin {"starting", "stopped"}
  <2>1. /\ query' = [query EXCEPT ![q] = Outcome("waiting")]
        /\ queue' = Append(queue, q)
        /\ inForce' = [inForce EXCEPT ![q] = {policies[Request[q].topic]}]
    BY <1>6 DEF Send
  <2>2. /\ query'[q].st = "waiting" /\ query' \in [Queries -> Outcomes]
        /\ inForce'[q] = {policies[Request[q].topic]}
    BY <2>1, <1>1, OutcomeTypes DEF TypeOK
  <2>3. policies[Request[q].topic] \in Policies \cup {None}
    BY <1>1 DEF TypeOK
  <2>4. \A i \in 1..Len(queue) : queue[i] \in Queries /\ queue[i] # q
    BY <1>1, <1>2 DEF QueueWaiting, TypeOK
  <2>5. /\ queue' \in Seq(Queries)
        /\ Distinct(queue')
        /\ \A i \in 1..Len(queue') :
              queue'[i] = q \/ \E j \in 1..Len(queue) : queue'[i] = queue[j]
    BY <2>1, <2>4, <1>1, AppendDistinct DEF TypeOK, QueueWaiting
  <2>6. TypeOK'
    BY <2>1, <2>2, <2>3, <2>5, <1>1, <1>2 DEF TypeOK
  <2>7. QueueWaiting'
    <3>1. Busy => handler.query # q
      BY <1>1, <1>2 DEF InHand
    <3>2. \A j \in 1..Len(queue) : /\ query'[queue[j]].st = "waiting"
                                   /\ Busy => queue[j] # handler.query
      BY <2>4, <1>1, <1>3 DEF QueueWaiting
    <3> QED
      BY <3>1, <3>2, <2>2, <2>5, <1>2 DEF QueueWaiting
  <2>8. ForceNoted' /\ AnswerInForce' /\ DeniedOnlyWithoutPolicy'
    BY <2>2, <1>1, <1>2, <1>3
    DEF ForceNoted, AnswerInForce, DeniedOnlyWithoutPolicy
  <2> QED
    BY <1>4, <2>6, <2>7, <2>8 DEF Inv
<1> QED
  BY <1>5, <1>6
-----------------------------------------------------------------------------
\* A query that ends without an answer, one that the handler had in its hands
\* or one that just left the queue, and every query that ends with the handler.
LEMMA EndInv ==
  ASSUME Inv, NEW ended \in SUBSET Queries, handler' \in {handler, Receiving, Stopped},
         ~ Busy',
         UNCHANGED <<policies, inForce>>,
         query' = [q \in Queries |->
             IF q \in ended THEN Outcome("unanswered") ELSE query[q]],
         queue' \in Seq(Queries), Distinct(queue'),
         \A i \in 1..Len(queue') :
             queue'[i] \notin ended /\ \E j \in 1..Len(queue) : queue'[i] = queue[j],
         \A q \in ended : \/ Request[q].form # "good"
                          \/ None \in inForce[q]
                          \/ handler'.at = "stopped",
         handler.at # "stopped"
  PROVE  Inv'
<1>1. /\ TypeOK /\ InHand /\ QueueWaiting
      /\ ForceNoted /\ AnswerInForce /\ DeniedOnlyWithoutPolicy
  BY DEF Inv
<1>2. /\ \A q \in ended : query'[q].st = "unanswered"
      /\ \A q \in Queries \ ended : query'[q] = query[q]
      /\ query' \in [Queries -> Outcomes]
  BY <1>1, OutcomeTypes DEF TypeOK
<1>3. TypeOK'
  BY <1>1, <1>2, HandlerTypes DEF TypeOK
<1>4. InHand'
  BY DEF InHand, Busy
<1>5. QueueWaiting'
  <2>1. \A j \in 1..Len(queue) : queue[j] \in Queries
    BY <1>1 DEF TypeOK
  <2> QED
    BY <2>1, <1>1, <1>2 DEF QueueWaiting
<1>6. ForceNoted' /\ AnswerInForce'
  BY <1>1, <1>2 DEF ForceNoted, AnswerInForce
<1>7. DeniedOnlyWithoutPolicy'
  BY <1>1, <1>2 DEF DeniedOnlyWithoutPolicy
<1> QED
  BY <1>3, <1>4, <1>5, <1>6, <1>7 DEF Inv

LEMMA ReceiveInv ==
  ASSUME Inv, Receive
  PROVE  Inv'
<1> DEFINE q == Head(queue)
<1>1. /\ TypeOK /\ InHand /\ QueueWaiting
      /\ ForceNoted /\ AnswerInForce /\ DeniedOnlyWithoutPolicy
  BY DEF Inv
<1>2. /\ handler.at = "recv" /\ queue # <<>> /\ ~ Busy
      /\ policies' = policies /\ inForce' = inForce
  BY DEF Receive, Busy
<1>3. /\ q \in Queries /\ Tail(queue) \in Seq(Queries)
      /\ q = queue[1] /\ 1 \in 1..Len(queue)
      /\ Distinct(Tail(queue))
      /\ \A i \in 1..Len(Tail(queue)) :
            /\ Tail(queue)[i] # q
            /\ \E j \in 1..Len(queue) : Tail(queue)[i] = queue[j]
  BY <1>1, <1>2, TailDistinct DEF TypeOK, QueueWaiting
<1>4. CASE Request[q].form = "wild"
  <2>1. /\ queue' = Tail(queue) /\ handler' = handler
        /\ query' = [query EXCEPT ![q] = Outcome("unanswered")]
    BY <1>4 DEF Receive
  <2>2. query' = [r \in Queries |->
                    IF r \in {q} THEN Outcome("unanswered") ELSE query[r]]
    BY <2>1, <1>1 DEF TypeOK
  <2>3. ~ Busy' /\ handler.at # "stopped"
    BY <2>1, <1>2 DEF Busy
  <2>4. \A r \in {q} : Request[r].form # "good"
    BY <1>4
  <2>5. {q} \in SUBSET Queries
    BY <1>3
  <2>6. /\ queue' \in Seq(Queries) /\ Distinct(queue')
        /\ \A i \in 1..Len(queue') :
              queue'[i] \notin {q} /\ \E j \in 1..Len(queue) : queue'[i] = queue[j]
    BY <1>3, <2>1
  <2> HIDE DEF q
  <2> QED
    BY <1>2, <2>1, <2>2, <2>3, <2>4, <2>5, <2>6, EndInv
<1>5. CASE Request[q].form = "root"
  <2> DEFINE ended == {r \in Queries : \E i \in DOMAIN queue : queue[i] = r}
  <2>1. Panic
    BY <1>5 DEF Receive
  <2>2. query' = [r \in Queries |->
                    IF r \in ended THEN Outcome("unanswered") ELSE query[r]]
    BY <2>1 DEF Panic
  <2>3. /\ queue' = <<>> /\ handler' = Stopped /\ handler'.at = "stopped"
        /\ ~ Busy'
    BY <2>1, HandlerTypes DEF Panic, Busy
  <2>4. /\ queue' \in Seq(Queries) /\ Distinct(queue') /\ Len(queue') = 0
    BY <2>3 DEF Distinct
  <2>5. ended \in SUBSET Queries
    OBVIOUS
  <2>6. \A i \in 1..Len(queue') :
            queue'[i] \notin ended /\ \E j \in 1..Len(queue) : queue'[i] = queue[j]
    BY <2>4
  <2> HIDE DEF ended
  <2> QED
    BY <1>2, <2>2, <2>3, <2>4, <2>5, <2>6, EndInv
<1>6. CASE Request[q].form = "good"
  <2>1. /\ queue' = Tail(queue) /\ query' = query
        /\ handler' = [handler EXCEPT !.at = "got", !.query = q]
    BY <1>6 DEF Receive
  <2>2. /\ handler' \in Handlers /\ handler'.at = "got" /\ handler'.query = q
        /\ Busy'
    BY <2>1, <1>1, <1>3 DEF TypeOK, Handlers, Busy
  <2>3. TypeOK'
    BY <2>1, <2>2, <1>1, <1>2, <1>3 DEF TypeOK
  <2>4. query[q].st = "waiting"
    BY <1>1, <1>3 DEF QueueWaiting
  <2>5. InHand'
    BY <2>1, <2>2, <2>4, <1>3 DEF InHand
  <2>6. QueueWaiting'
    BY <2>1, <2>2, <1>1, <1>3 DEF QueueWaiting
  <2>7. ForceNoted' /\ AnswerInForce'
    BY <2>1, <1>1, <1>2 DEF ForceNoted, AnswerInForce
  <2>8. DeniedOnlyWithoutPolicy'
    BY <2>1, <1>1, <1>2 DEF DeniedOnlyWithoutPolicy
  <2> QED
    BY <2>3, <2>5, <2>6, <2>7, <2>8 DEF Inv
<1> QED
  BY <1>3, <1>4, <1>5, <1>6

LEMMA GetPolicyInv ==
  ASSUME Inv, GetPolicy
  PROVE  Inv'
<1> DEFINE q == handler.query
<1>1. /\ TypeOK /\ InHand /\ QueueWaiting
      /\ ForceNoted /\ AnswerInForce /\ DeniedOnlyWithoutPolicy
  BY DEF Inv
<1>2. /\ handler.at = "got" /\ Busy
      /\ policies' = policies /\ queue' = queue /\ inForce' = inForce
  BY DEF GetPolicy, Busy
<1>3. /\ q \in Queries /\ query[q].st = "waiting"
      /\ Policy(q) \in inForce[q] /\ Policy(q) \in Policies \cup {None}
  BY <1>1, <1>2 DEF InHand, ForceNoted, Policy, TypeOK
<1>4. CASE Policy(q) = None
  <2>1. handler' = Receiving /\ handler.at # "stopped" /\ ~ Busy'
        /\ query' = [query EXCEPT ![q] = Outcome("unanswered")]
    BY <1>2, <1>4, HandlerTypes DEF GetPolicy, Deny, Busy
  <2>2. query' = [r \in Queries |->
                    IF r \in {q} THEN Outcome("unanswered") ELSE query[r]]
    BY <2>1, <1>1 DEF TypeOK
  <2>3. /\ queue' \in Seq(Queries) /\ Distinct(queue')
        /\ \A i \in 1..Len(queue') :
              queue'[i] \notin {q} /\ \E j \in 1..Len(queue) : queue'[i] = queue[j]
    BY <1>1, <1>2 DEF QueueWaiting, TypeOK
  <2>4. {q} \in SUBSET Queries /\ \A r \in {q} : None \in inForce[r]
    BY <1>3, <1>4
  <2> HIDE DEF q
  <2> QED
    BY <1>2, <2>1, <2>2, <2>3, <2>4, EndInv
<1>5. CASE Policy(q) # None
  <2>1. /\ handler' = [handler EXCEPT !.at = "policy", !.policy = Policy(q)]
        /\ query' = query
    BY <1>5 DEF GetPolicy
  <2>2. /\ handler' \in Handlers /\ handler'.at = "policy" /\ handler'.query = q
        /\ handler'.policy = Policy(q) /\ Busy'
    BY <2>1, <1>1, <1>3 DEF TypeOK, Handlers, Busy
  <2>3. TypeOK' /\ ForceNoted' /\ AnswerInForce'
    BY <2>1, <2>2, <1>1, <1>2 DEF TypeOK, ForceNoted, AnswerInForce
  <2>4. InHand'
    BY <2>1, <2>2, <1>2, <1>3, <1>5 DEF InHand
  <2>5. QueueWaiting'
    BY <2>1, <2>2, <1>1, <1>2 DEF QueueWaiting
  <2>6. DeniedOnlyWithoutPolicy'
    BY <2>1, <1>1, <1>2 DEF DeniedOnlyWithoutPolicy
  <2> QED
    BY <2>3, <2>4, <2>5, <2>6 DEF Inv
<1> QED
  BY <1>4, <1>5

LEMMA ReplyInv ==
  ASSUME Inv, Reply
  PROVE  Inv'
<1> DEFINE q == handler.query
<1>1. /\ TypeOK /\ InHand /\ QueueWaiting
      /\ ForceNoted /\ AnswerInForce /\ DeniedOnlyWithoutPolicy
  BY DEF Inv
<1>2. /\ handler.at = "policy" /\ Busy /\ handler' = Receiving /\ ~ Busy'
      /\ policies' = policies /\ queue' = queue /\ inForce' = inForce
      /\ query' = [query EXCEPT ![q] = [st |-> "replied", policy |-> handler.policy]]
  BY HandlerTypes DEF Reply, Busy, Answer
<1>3. /\ q \in Queries /\ handler.policy \in Policies
      /\ handler.policy \in inForce[q]
  BY <1>1, <1>2 DEF InHand
<1>4. /\ query'[q] = [st |-> "replied", policy |-> handler.policy]
      /\ \A r \in Queries : r # q => query'[r] = query[r]
      /\ query' \in [Queries -> Outcomes]
  BY <1>1, <1>2, <1>3 DEF TypeOK, Outcomes
<1>5. TypeOK'
  BY <1>1, <1>2, <1>4, HandlerTypes DEF TypeOK
<1>6. InHand'
  BY <1>2 DEF InHand, Busy, Receiving, Starting
<1>7. QueueWaiting'
  <2>1. \A i \in 1..Len(queue) : queue[i] \in Queries /\ queue[i] # q
    BY <1>1, <1>2 DEF QueueWaiting, TypeOK
  <2> QED
    BY <2>1, <1>1, <1>2, <1>4 DEF QueueWaiting
<1>8. ForceNoted' /\ AnswerInForce'
  BY <1>1, <1>2, <1>3, <1>4 DEF ForceNoted, AnswerInForce
<1>9. DeniedOnlyWithoutPolicy'
  BY <1>1, <1>2, <1>4 DEF DeniedOnlyWithoutPolicy
<1> QED
  BY <1>5, <1>6, <1>7, <1>8, <1>9 DEF Inv

LEMMA DeclareInv ==
  ASSUME Inv, Declare
  PROVE  Inv'
<1>1. /\ TypeOK /\ InHand /\ QueueWaiting
      /\ ForceNoted /\ AnswerInForce /\ DeniedOnlyWithoutPolicy
  BY DEF Inv
<1>2. /\ handler' = Receiving /\ handler'.at = "recv" /\ ~ Busy'
      /\ handler.at = "starting"
      /\ UNCHANGED <<policies, queue, query, inForce>>
  BY HandlerTypes DEF Declare, Busy
<1>3. TypeOK' /\ InHand'
  BY <1>1, <1>2, HandlerTypes DEF TypeOK, InHand
<1>4. QueueWaiting' /\ ForceNoted' /\ AnswerInForce' /\ DeniedOnlyWithoutPolicy'
  BY <1>1, <1>2
  DEF QueueWaiting, ForceNoted, AnswerInForce, DeniedOnlyWithoutPolicy
<1> QED
  BY <1>3, <1>4 DEF Inv
-----------------------------------------------------------------------------
LEMMA NextInv == Inv /\ [Next]_vars => Inv'
<1> SUFFICES ASSUME Inv, [Next]_vars PROVE Inv'
  OBVIOUS
<1>1. CASE UNCHANGED vars
  BY <1>1
  DEF vars, Inv, TypeOK, InHand, QueueWaiting, ForceNoted, AnswerInForce,
      DeniedOnlyWithoutPolicy, Busy
<1>2. CASE Next
  BY <1>2, SetPolicyInv, SendInv, DeclareInv, ReceiveInv, GetPolicyInv, ReplyInv
  DEF Next, HandlePolicy
<1> QED
  BY <1>1, <1>2

LEMMA InvCorrect == Spec => []Inv
  BY InitInv, NextInv, PTL DEF Spec

\* Every variable keeps its type, whatever queries arrive.
THEOREM TypeCorrect == Spec => []TypeOK
<1>1. Inv => TypeOK
  BY DEF Inv
<1> QED
  BY <1>1, InvCorrect, PTL

\* A query is answered with a policy that its topic has had since the query
\* was accepted: the promise on which KeyDelivery relies.
THEOREM AnswerInForceCorrect == Spec => []AnswerInForce
<1>1. Inv => AnswerInForce
  BY DEF Inv
<1> QED
  BY <1>1, InvCorrect, PTL

\* A query that names a topic fails only if the topic has been without policy
\* since, or the handler has ended.
THEOREM DeniedOnlyWithoutPolicyCorrect == Spec => []DeniedOnlyWithoutPolicy
<1>1. Inv => DeniedOnlyWithoutPolicy
  BY DEF Inv
<1> QED
  BY <1>1, InvCorrect, PTL
==============================================================================
