---------------------------- MODULE KeyAccessProofs ----------------------------
(***************************************************************************)
(* KeyDelivery implements KeyAccess: every step of a producer, a consumer, *)
(* the authority or the access manager is one of KeyAccess on what the     *)
(* consumers know and where their calls are, or changes nothing of it.     *)
(* The invariant of KeyDeliveryProofs gives what the steps that end a call *)
(* need: a cached key is the one asked for, and a reply is locked under no *)
(* older public key and no other policy than the call is entitled to.      *)
(***************************************************************************)
EXTENDS KeyDeliveryProofs

\* What KeyAccess sees of a task.
View(t) == [at |-> AccessAt(t.at), msg |-> t.msg, id |-> t.id, sk |-> t.sk,
            result |-> AccessResult(t.result)]

LEMMA CallsAreViews ==
  /\ AccessCalls = [r \in Readers |-> View(reader[r])]
  /\ AccessCalls' = [r \in Readers |-> View(reader'[r])]
  BY DEF AccessCalls, View

LEMMA AccessAtValues ==
  /\ AccessAt("idle") = "idle"
  /\ \A at \in {"lookup", "fetch"} : AccessAt(at) = "called"
  /\ \A at \in {"waiting", "replied", "caching"} : AccessAt(at) = "asked"
  BY DEF AccessAt

Errors == Results \ {"none", "plaintext", "fetched"}

LEMMA AccessResultValues ==
  /\ AccessResult("none") = "none"
  /\ \A result \in {"plaintext", "fetched"} : AccessResult(result) = "key"
  /\ \A result \in Errors : AccessResult(result) = "error"
  BY DEF AccessResult, Errors, Results

\* KeyAccess has a task in one of its three places, as KeyDelivery has it.
LEMMA ViewAt ==
  ASSUME NEW t \in Tasks
  PROVE  /\ View(t).at = "idle" <=> t.at = "idle"
         /\ View(t).at = "called" <=> t.at \in {"lookup", "fetch"}
         /\ View(t).at = "asked" <=> t.at \in {"waiting", "replied", "caching"}
<1>1. t.at \in {"idle", "lookup", "fetch", "waiting", "replied", "caching"}
  BY DEF Tasks
<1>2. View(t).at = AccessAt(t.at)
  BY DEF View
<1> QED
  BY <1>1, <1>2, AccessAtValues

\* What is left of a call, or of what KeyAccess sees of it, when it ends.
Ended(t, result) == [t EXCEPT !.at = "idle", !.result = result]

LEMMA EndedView ==
  ASSUME NEW at, NEW msg, NEW id, NEW key, NEW result, NEW seen
  PROVE  Ended([at |-> at, msg |-> msg, id |-> id, sk |-> key,
                result |-> result], seen)
            = [at |-> "idle", msg |-> msg, id |-> id, sk |-> key,
               result |-> seen]
<1> DEFINE v == [at |-> at, msg |-> msg, id |-> id, sk |-> key,
                 result |-> result]
           u == [at |-> "idle", msg |-> msg, id |-> id, sk |-> key,
                 result |-> result]
           w == [at |-> "idle", msg |-> msg, id |-> id, sk |-> key,
                 result |-> seen]
<1>1. u = [v EXCEPT !.at = "idle"]
  OBVIOUS
<1>2. w = [u EXCEPT !.result = seen]
  OBVIOUS
<1> HIDE DEF u, v, w
<1>3. Ended(v, seen) = [[v EXCEPT !.at = "idle"] EXCEPT !.result = seen]
  BY DEF Ended
<1>4. Ended(v, seen) = w
  BY <1>1, <1>2, <1>3
<1> QED
  BY <1>4 DEF v, w

\* A call that ends is seen to end.
LEMMA ViewEnded ==
  ASSUME NEW t \in Tasks, NEW result \in Results
  PROVE  View(Ended(t, result)) = Ended(View(t), AccessResult(result))
<1>1. /\ Ended(t, result).at = "idle" /\ Ended(t, result).result = result
      /\ Ended(t, result).msg = t.msg /\ Ended(t, result).id = t.id
      /\ Ended(t, result).sk = t.sk
  BY DEF Tasks, Ended
<1>2. View(Ended(t, result))
         = [at |-> "idle", msg |-> t.msg, id |-> t.id, sk |-> t.sk,
            result |-> AccessResult(result)]
  BY <1>1, AccessAtValues DEF View
<1> QED
  BY <1>2, EndedView DEF View

\* A step that touches nothing KeyAccess sees.
LEMMA StutterStep ==
  ASSUME UNCHANGED <<pk, policy, cache, reader, asked>>
  PROVE  UNCHANGED Access!vars
  BY DEF Access!vars, Known, AccessCalls

LEMMA KnownUnchanged ==
  ASSUME cache' = cache
  PROVE  Known' = Known
  BY DEF Known

\* Calls that end in an error, one or several.
LEMMA FailStep ==
  ASSUME Inv, NEW rs \in SUBSET Readers,
         \A r \in rs : reader[r].at # "idle",
         \A r \in rs : \E result \in Errors : reader'[r] = Ended(reader[r], result),
         \A r \in Readers \ rs : reader'[r] = reader[r],
         UNCHANGED <<pk, policy, cache, asked>>
  PROVE  Access!Next
<1>1. \A r \in Readers : reader[r] \in Tasks
  BY DEF Inv, TypeOK
<1>2. \A r \in rs : AccessCalls[r].at # "idle"
  BY <1>1, CallsAreViews, ViewAt
<1>3. ASSUME NEW r \in rs
      PROVE  View(reader'[r]) = Ended(View(reader[r]), "error")
  BY <1>1, ViewEnded, AccessResultValues DEF Errors
<1>4. AccessCalls' = [r \in Readers |->
         IF r \in rs THEN Ended(AccessCalls[r], "error") ELSE AccessCalls[r]]
  BY <1>3, CallsAreViews
<1>5. AccessCalls' = [r \in Readers |->
         IF r \in rs THEN [AccessCalls[r] EXCEPT !.at = "idle", !.result = "error"]
         ELSE AccessCalls[r]]
  BY <1>4 DEF Ended
<1>6. Access!Fail(rs)
  BY <1>2, <1>5, KnownUnchanged DEF Access!Fail
<1> QED
  BY <1>6 DEF Access!Next

\* A call that ends with an error.
LEMMA ErrorStep ==
  ASSUME Inv, NEW r \in Readers, NEW result \in Errors,
         reader[r].at # "idle", Return(r, result),
         UNCHANGED <<pk, policy, cache, asked>>
  PROVE  Access!Next
<1>1. reader \in [Readers -> Tasks]
  BY DEF Inv, TypeOK
<1>2. reader'[r] = Ended(reader[r], result)
  BY <1>1 DEF Return, Ended
<1>3. \A s \in Readers \ {r} : reader'[s] = reader[s]
  BY <1>1 DEF Return
<1> DEFINE rs == {r}
<1>4. /\ rs \in SUBSET Readers
      /\ \A s \in rs : reader[s].at # "idle"
      /\ \A s \in rs : \E e \in Errors : reader'[s] = Ended(reader[s], e)
      /\ \A s \in Readers \ rs : reader'[s] = reader[s]
  BY <1>2, <1>3
<1> HIDE DEF rs
<1> QED
  BY <1>4, FailStep

\* Queries are dropped, and the calls that wait for them end in an error.
LEMMA DropStep ==
  ASSUME Inv, NEW qs, Drop(qs), UNCHANGED <<pk, policy, cache, asked>>
  PROVE  Access!Next
<1> DEFINE rs == {r \in Readers : \E q \in qs : Awaits(r, q)}
<1>1. \A r \in rs : reader[r].at # "idle"
  BY DEF Awaits
<1>2. \A r \in rs : reader'[r] = Ended(reader[r], "NoContentKeyFound")
  <2>1. reader' = [r \in Readers |->
           IF \E q \in qs : Awaits(r, q) THEN Ended(reader[r], "NoContentKeyFound")
           ELSE reader[r]]
    BY DEF Drop, Ended
  <2> QED
    BY <2>1
<1>3. \A r \in Readers \ rs : reader'[r] = reader[r]
  BY DEF Drop
<1>4. "NoContentKeyFound" \in Errors
  BY DEF Errors, Results
<1> HIDE DEF rs
<1> QED
  BY <1>1, <1>2, <1>3, <1>4, FailStep DEF rs

\* A call that returns with a key that it has in its cache, or has learnt.
LEMMA SucceedStep ==
  ASSUME Inv, NEW r \in Readers, NEW k \in Keys, NEW result,
         reader[r].at # "idle", Id(k) = reader[r].id,
         result \in {"plaintext", "fetched"}, Return(r, result),
         \/ k \in Known[Owner[r]] /\ UNCHANGED Known
         \/ Access!Entitled(r) /\ Known' = [Known EXCEPT ![Owner[r]] = @ \cup {k}],
         UNCHANGED <<pk, policy, asked>>
  PROVE  Access!Next
<1>1. reader \in [Readers -> Tasks] /\ result \in Results
  BY DEF Inv, TypeOK, Results
<1>2. AccessCalls[r].at # "idle" /\ AccessCalls[r].id = reader[r].id
  BY <1>1, CallsAreViews, ViewAt DEF View
<1>3. reader' = [reader EXCEPT ![r] = Ended(reader[r], result)]
  BY <1>1 DEF Return, Ended
<1>4. View(Ended(reader[r], result)) = Ended(View(reader[r]), "key")
  BY <1>1, ViewEnded, AccessResultValues
<1>5. AccessCalls' = [AccessCalls EXCEPT ![r] = Ended(AccessCalls[r], "key")]
  BY <1>1, <1>3, <1>4, CallsAreViews
<1>6. AccessCalls' = [AccessCalls EXCEPT ![r].at = "idle", ![r].result = "key"]
  BY <1>5, CallsAreViews DEF Ended
<1>7. Access!Succeed(r, k)
  BY <1>2, <1>6 DEF Access!Succeed
<1> QED
  BY <1>7 DEF Access!Next
-----------------------------------------------------------------------------
\* The steps of the calls.
LEMMA StartCallRefines ==
  ASSUME Inv, NEW r \in Readers, NEW m \in Messages, NEW form, NEW id \in CkIds,
         NEW op, NEW at \in {"lookup", "fetch"},
         StartCall(r, m, form, id, op, at)
  PROVE  Access!Next
<1> DEFINE t == [at |-> at, op |-> op, call |-> reader[r].call + 1, msg |-> m,
                 form |-> form, id |-> id, sk |-> sk[Owner[r]], reply |-> None,
                 seen |-> None, result |-> "none"]
<1>1. reader \in [Readers -> Tasks] /\ reader[r].at = "idle"
  BY DEF Inv, TypeOK, StartCall
<1>2. reader' = [reader EXCEPT ![r] = t]
  BY DEF StartCall
<1>3. View(t) = [at |-> "called", msg |-> m, id |-> id, sk |-> sk[Owner[r]],
                 result |-> "none"]
  BY AccessAtValues, AccessResultValues DEF View
<1>4. sk[Owner[r]] \in 0..pk
  <2>1. Owner[r] \in Consumers /\ pk \in Nat
    BY OwnerAssumption, GenerationTypes DEF Inv, TypeOK
  <2>2. sk[Owner[r]] \in Nat
    BY <2>1, GenerationTypes DEF Inv, TypeOK, StartCall
  <2>3. sk[Owner[r]] <= pk
    BY <2>1 DEF Inv, KeyOrder, StartCall
  <2> QED
    BY <2>1, <2>2, <2>3
<1>5. AccessCalls[r].at = "idle"
  BY <1>1, CallsAreViews, ViewAt
<1> HIDE DEF t
<1>6. /\ AccessCalls'[r] = View(t)
      /\ AccessCalls' = [AccessCalls EXCEPT ![r] = AccessCalls'[r]]
  BY <1>1, <1>2, CallsAreViews
<1>7. AccessCalls'[r] \in [at : {"called"}, msg : Messages, id : {Id(k) : k \in Keys},
                           sk : 0..pk, result : {"none"}]
  BY <1>3, <1>4, <1>6, IdTypes
<1>8. UNCHANGED <<policy, pk, Known, asked>>
  BY KnownUnchanged DEF StartCall, authorityVars
<1>9. Access!Start(r)
  BY <1>5, <1>6, <1>7, <1>8 DEF Access!Start
<1> QED
  BY <1>9 DEF Access!Next

LEMMA CallRefines ==
  ASSUME Inv, NEW r \in Readers, NEW m \in published, Call(r, m)
  PROVE  Access!Next
<1>1. m \in Messages
  BY DEF Inv, TypeOK
<1>2. m.ckId \in CkIds /\ (m.nextId # None => m.nextId \in CkIds)
  BY <1>1, IdTypes
<1> QED
  BY <1>1, <1>2, StartCallRefines DEF Call, Prefetch, Decrypt

\* The call returns with a key from the cache.
LEMMA CachedRefines ==
  ASSUME Inv, NEW r \in Readers, reader[r].at \in {"lookup", "fetch"},
         Cached(r) # None, Return(r, WithKey(r, Cached(r))),
         UNCHANGED <<pk, policy, cache, asked>>
  PROVE  Access!Next
<1> DEFINE k == Cached(r)
<1>1. reader[r].id \in CkIds
  BY NamedTypes DEF Inv, CallNamed, TypeOK
<1>2. Owner[r] \in Consumers /\ k \in Keys /\ Id(k) = reader[r].id
  BY <1>1, OwnerAssumption DEF Inv, TypeOK, Caches, CacheCorrect, Cached
<1>3. k \in Known[Owner[r]]
  BY <1>1, <1>2 DEF Cached, Known
<1>4. WithKey(r, k) \in {"plaintext", "fetched"}
  BY CachedKey DEF WithKey
<1> HIDE DEF k
<1> QED
  BY <1>2, <1>3, <1>4, KnownUnchanged, SucceedStep DEF k

LEMMA LookUpRefines ==
  ASSUME Inv, NEW r \in Readers, LookUp(r)
  PROVE  Access!Next \/ UNCHANGED Access!vars
<1>1. reader[r].at = "lookup" /\ UNCHANGED <<pk, policy, cache, asked>>
  BY DEF LookUp, authorityVars
<1>2. ASSUME NEW result \in {"NoCkIdFound", "NoProducerPrefixFound"},
             Return(r, result)
      PROVE  Access!Next
  BY <1>1, <1>2, ErrorStep DEF Errors, Results
<1>3. CASE Cached(r) # None /\ Return(r, WithKey(r, Cached(r)))
  BY <1>1, <1>3, CachedRefines
<1>4. CASE reader' = [reader EXCEPT ![r].at = "fetch"]
  <2> DEFINE t == [reader[r] EXCEPT !.at = "fetch"]
  <2>1. reader \in [Readers -> Tasks] /\ reader' = [reader EXCEPT ![r] = t]
    BY <1>4 DEF Inv, TypeOK
  <2>2. /\ t.at = "fetch" /\ t.msg = reader[r].msg /\ t.id = reader[r].id
        /\ t.sk = reader[r].sk /\ t.result = reader[r].result
    BY <2>1, GoOnTask
  <2> HIDE DEF t
  <2>3. View(t) = View(reader[r])
    BY <1>1, <2>2, AccessAtValues DEF View
  <2>4. AccessCalls' = AccessCalls
    BY <2>1, <2>3, CallsAreViews
  <2> QED
    BY <1>1, <2>4, KnownUnchanged DEF Access!vars
<1> QED
  BY <1>2, <1>3, <1>4 DEF LookUp

LEMMA FetchRefines ==
  ASSUME Inv, NEW r \in Readers, Fetch(r)
  PROVE  Access!Next
<1>1. reader[r].at = "fetch" /\ UNCHANGED <<pk, policy, cache>>
  BY DEF Fetch, authorityVars
<1>2. CASE /\ Cached(r) # None /\ Return(r, WithKey(r, Cached(r)))
           /\ asked' = asked
  BY <1>1, <1>2, CachedRefines
<1>3. CASE Return(r, "NoContentKeyFound") /\ asked' = asked
  BY <1>1, <1>3, ErrorStep DEF Errors, Results
<1>4. CASE /\ reader' = [reader EXCEPT ![r].at = "waiting"]
           /\ asked' = [asked EXCEPT ![r] =
                  [policies |-> {policy[reader[r].msg.topic]}, pk |-> pk]]
  <2> DEFINE t == [reader[r] EXCEPT !.at = "waiting"]
  <2>1. reader \in [Readers -> Tasks] /\ reader' = [reader EXCEPT ![r] = t]
    BY <1>4 DEF Inv, TypeOK
  <2>2. /\ t.at = "waiting" /\ t.msg = reader[r].msg /\ t.id = reader[r].id
        /\ t.sk = reader[r].sk /\ t.result = reader[r].result
    BY <2>1, GoOnTask
  <2> HIDE DEF t
  <2>3. View(t) = [View(reader[r]) EXCEPT !.at = "asked"]
    <3>1. View(t) = [at |-> "asked", msg |-> reader[r].msg,
                     id |-> reader[r].id, sk |-> reader[r].sk,
                     result |-> AccessResult(reader[r].result)]
      BY <2>2, AccessAtValues DEF View
    <3> QED
      BY <3>1 DEF View
  <2>4. /\ AccessCalls' = [AccessCalls EXCEPT ![r].at = "asked"]
        /\ AccessCalls[r].at = "called"
        /\ AccessCalls[r].msg = reader[r].msg
    BY <1>1, <2>1, <2>3, CallsAreViews, AccessAtValues DEF View
  <2>5. Access!Ask(r)
    BY <1>1, <1>4, <2>4, KnownUnchanged DEF Access!Ask
  <2> QED
    BY <2>5 DEF Access!Next
<1> QED
  BY <1>2, <1>3, <1>4 DEF Fetch

\* A key is entered where there was none.
LEMMA KnownGrows ==
  ASSUME NEW c \in Consumers, NEW id \in CkIds, NEW k, k # None,
         cache \in [Consumers -> Caches],
         cache[c][id] \in {None, k},
         cache' = [cache EXCEPT ![c] = [@ EXCEPT ![id] = k]]
  PROVE  Known' = [Known EXCEPT ![c] = @ \cup {k}]
<1>1. \A d \in Consumers : d # c => cache'[d] = cache[d]
  OBVIOUS
<1>2. \A i \in CkIds : cache'[c][i] = IF i = id THEN k ELSE cache[c][i]
  BY DEF Caches
<1>3. {cache'[c][i] : i \in CkIds} \ {None}
         = ({cache[c][i] : i \in CkIds} \ {None}) \cup {k}
  BY <1>2
<1>4. Known' = [d \in Consumers |-> {cache'[d][i] : i \in CkIds} \ {None}]
  BY DEF Known
<1>5. ASSUME NEW d \in Consumers
      PROVE  Known'[d] = [Known EXCEPT ![c] = @ \cup {k}][d]
  BY <1>1, <1>3, <1>4 DEF Known
<1> QED
  BY <1>4, <1>5 DEF Known

\* To see the cache, for the first time or again, is no step of KeyAccess.
LEMMA SeenRefines ==
  ASSUME Inv, NEW r \in Readers, reader[r].at \in {"replied", "caching"},
         NEW t, reader' = [reader EXCEPT ![r] = t],
         \/ t = [reader[r] EXCEPT !.at = "caching", !.seen = cache[Owner[r]]]
         \/ /\ t = [reader[r] EXCEPT !.seen = cache[Owner[r]]]
            /\ reader[r].at = "caching",
         UNCHANGED <<pk, policy, cache, asked>>
  PROVE  UNCHANGED Access!vars
<1>1. reader \in [Readers -> Tasks] /\ reader[r] \in Tasks
  BY DEF Inv, TypeOK
<1>2. /\ t.at = "caching" /\ t.msg = reader[r].msg /\ t.id = reader[r].id
      /\ t.sk = reader[r].sk /\ t.result = reader[r].result
  <2>1. CASE t = [reader[r] EXCEPT !.at = "caching", !.seen = cache[Owner[r]]]
    BY <1>1, <2>1 DEF Tasks
  <2>2. CASE /\ t = [reader[r] EXCEPT !.seen = cache[Owner[r]]]
             /\ reader[r].at = "caching"
    BY <1>1, <2>2 DEF Tasks
  <2> QED
    BY <2>1, <2>2
<1>3. View(t) = View(reader[r])
  BY <1>2, AccessAtValues DEF View
<1>4. AccessCalls' = AccessCalls
  BY <1>1, <1>3, CallsAreViews
<1> QED
  BY <1>4, KnownUnchanged DEF Access!vars

LEMMA OpenReplyRefines ==
  ASSUME Inv, NEW r \in Readers, OpenReply(r)
  PROVE  Access!Next \/ UNCHANGED Access!vars
<1>1. reader[r].at = "replied" /\ UNCHANGED <<pk, policy, cache, asked>>
  BY DEF OpenReply, authorityVars
<1>2. CASE Return(r, "FailedToDecryptContentKey")
  BY <1>1, <1>2, ErrorStep DEF Errors, Results
<1>3. CASE reader' = [reader EXCEPT ![r].at = "caching",
                                    ![r].seen = cache[Owner[r]]]
  <2> DEFINE t == [reader[r] EXCEPT !.at = "caching", !.seen = cache[Owner[r]]]
  <2>1. reader' = [reader EXCEPT ![r] = t]
    BY <1>3 DEF Inv, TypeOK
  <2> QED
    BY <1>1, <2>1, SeenRefines
<1> QED
  BY <1>2, <1>3 DEF OpenReply

\* The consumer knows the key from the moment the maps are swapped.
LEMMA SetKeyRefines ==
  ASSUME Inv, NEW r \in Readers, SetKey(r)
  PROVE  Access!Next \/ UNCHANGED Access!vars
<1> DEFINE k == reader[r].reply.ck
<1>1. reader[r].at = "caching" /\ UNCHANGED <<pk, policy, asked>>
  BY DEF SetKey, authorityVars
<1>2. CASE ~ SeenIsCurrent(r)
  <2> DEFINE t == [reader[r] EXCEPT !.seen = cache[Owner[r]]]
  <2>1. reader' = [reader EXCEPT ![r] = t] /\ cache' = cache
    BY <1>2 DEF SetKey, Inv, TypeOK
  <2> QED
    BY <1>1, <2>1, SeenRefines
<1>3. CASE SeenIsCurrent(r)
  <2>1. cache' = CacheKey(r, k) /\ Return(r, WithKey(r, k))
    BY <1>3 DEF SetKey
  <2>2. Opens(Owner[r], reader[r].sk, reader[r].reply)
    BY <1>1 DEF Inv, CallNamed
  <2>3. /\ reader[r].reply \in Locked /\ k \in Keys /\ reader[r].id \in CkIds
        /\ Id(k) = reader[r].id
        /\ WithKey(r, k) \in Results \ {"AesError"}
        /\ cache[Owner[r]][reader[r].id] \in {None, k}
    BY <1>1, OpenedKey
  <2>4. WithKey(r, k) \in {"plaintext", "fetched"}
    BY <2>3 DEF WithKey
  <2>5. Access!Entitled(r)
    <3>1. reader[r] \in Tasks
      BY DEF Inv, TypeOK
    <3>2. /\ AccessCalls[r].at = "asked" /\ AccessCalls[r].sk = reader[r].sk
      BY <1>1, <3>1, CallsAreViews, ViewAt DEF View
    <3>3. asked[r].pk <= reader[r].sk
      BY <1>1, <2>2 DEF Inv, LockNotOlder, Opens
    <3>4. reader[r].reply.policy \in asked[r].policies \cap Policies
      BY <1>1, <2>3 DEF Inv, LockedUnderPolicyInForce, Locked
    <3>5. \E alternative \in reader[r].reply.policy :
             alternative \subseteq Attributes[Owner[r]]
      BY <2>2 DEF Opens, Satisfies
    <3> QED
      BY <3>2, <3>3, <3>4, <3>5 DEF Access!Entitled
  <2>6. Known' = [Known EXCEPT ![Owner[r]] = @ \cup {k}]
    <3>1. /\ Owner[r] \in Consumers /\ k # None
          /\ cache \in [Consumers -> Caches]
      BY <2>3, OwnerAssumption, NoneAssumption DEF Inv, TypeOK
    <3>2. cache' = [cache EXCEPT ![Owner[r]] = [@ EXCEPT ![reader[r].id] = k]]
      BY <1>3, <2>1, SwappedCache DEF Inv
    <3> HIDE DEF k
    <3> QED
      BY <2>3, <3>1, <3>2, KnownGrows
  <2> HIDE DEF k
  <2> QED
    BY <1>1, <2>3, <2>4, <2>5, <2>6, <2>1, SucceedStep
<1> QED
  BY <1>2, <1>3
-----------------------------------------------------------------------------
\* The steps around the calls.
LEMMA ReplyRefines ==
  ASSUME Inv, CkReply
  PROVE  UNCHANGED Access!vars
<1>1. /\ \A r \in Readers : reader[r] \in Tasks
      /\ UNCHANGED <<policy, pk, cache, asked>>
  BY DEF Inv, TypeOK, CkReply, authorityVars
<1>2. reader' = [r \in Readers |->
         IF Awaits(r, handler.query)
         THEN [reader[r] EXCEPT !.at = "replied", !.reply = Lock] ELSE reader[r]]
  BY DEF CkReply
<1>3. ASSUME NEW r \in Readers
      PROVE  View(reader'[r]) = View(reader[r])
  <2>1. CASE ~ Awaits(r, handler.query)
    BY <1>2, <2>1
  <2>2. CASE Awaits(r, handler.query)
    <3> DEFINE t == [reader[r] EXCEPT !.at = "replied", !.reply = Lock]
    <3>1. reader'[r] = t /\ reader[r].at = "waiting"
      BY <1>2, <2>2 DEF Awaits
    <3>2. /\ t.at = "replied" /\ t.msg = reader[r].msg /\ t.id = reader[r].id
          /\ t.sk = reader[r].sk /\ t.result = reader[r].result
      BY <1>1 DEF Tasks
    <3> HIDE DEF t
    <3> QED
      BY <3>1, <3>2, AccessAtValues DEF View
  <2> QED
    BY <2>1, <2>2
<1>4. AccessCalls' = AccessCalls
  BY <1>3, CallsAreViews
<1> QED
  BY <1>1, <1>4, KnownUnchanged DEF Access!vars

LEMMA HandlerRefines ==
  ASSUME Inv, HandleCk
  PROVE  Access!Next \/ UNCHANGED Access!vars
<1>1. CASE CkDeclare \/ CkReceive
  BY <1>1, StutterStep DEF CkDeclare, CkReceive, authorityVars, consumerVars
<1>2. CASE CkGetPublicKey \/ CkLookUp \/ CkGetPolicy
  <2>1. UNCHANGED <<pk, policy, cache, asked>>
    BY <1>2 DEF CkGetPublicKey, CkLookUp, CkGetPolicy, authorityVars
  <2>2. reader' = reader \/ Drop({handler.query})
    BY <1>2 DEF CkGetPublicKey, CkLookUp, CkGetPolicy, DropQuery
  <2> QED
    BY <2>1, <2>2, StutterStep, DropStep
<1>3. CASE CkFail
  BY <1>3, DropStep DEF CkFail, authorityVars
<1> QED
  BY <1>1, <1>2, <1>3, ReplyRefines DEF HandleCk

LEMMA PoliciesRefine ==
  ASSUME Inv, NEW policies \in [Topics -> AllPolicies], NewPolicies(policies)
  PROVE  Access!Next
<1>1. /\ \A r \in Readers : reader[r] \in Tasks
      /\ policy' = policies /\ UNCHANGED <<pk, cache, reader>>
  BY DEF Inv, TypeOK, NewPolicies, authorityVars, consumerVars
<1>2. \A r \in Readers :
         /\ AccessCalls[r].at = "asked" <=> Asking(r)
         /\ AccessCalls[r].msg = reader[r].msg
  BY <1>1, CallsAreViews, ViewAt DEF View, Asking
<1>3. asked' = [r \in Readers |->
         IF AccessCalls[r].at = "asked"
         THEN [asked[r] EXCEPT !.policies =
                  @ \cup {policy'[AccessCalls[r].msg.topic]}]
         ELSE asked[r]]
  BY <1>1, <1>2 DEF NewPolicies
<1>4. UNCHANGED <<pk, Known, AccessCalls>>
  BY <1>1, KnownUnchanged, CallsAreViews
<1>5. Access!ChangePolicies
  BY <1>1, <1>3, <1>4 DEF Access!ChangePolicies, AllPolicies
<1> QED
  BY <1>5 DEF Access!Next

\* An update of the authority's keys or another authority.
LEMMA PairRefines ==
  ASSUME pk' = pk + 1, UNCHANGED <<policy, consumerVars, asked>>
  PROVE  Access!Next
<1>1. UNCHANGED <<policy, Known, AccessCalls, asked>>
  BY KnownUnchanged, CallsAreViews DEF consumerVars
<1>2. Access!ReplaceKeys
  BY <1>1 DEF Access!ReplaceKeys
<1> QED
  BY <1>2 DEF Access!Next

LEMMA TimeOutRefines ==
  ASSUME Inv, NEW r \in Readers, TimeOut(r)
  PROVE  Access!Next
  BY ErrorStep DEF TimeOut, Errors, Results, authorityVars

LEMMA OthersRefine ==
  ASSUME Inv, Others
  PROVE  Access!Next \/ UNCHANGED Access!vars
<1>1. CASE UpdateKeys
  <2>1. CASE Authority!ReplacePk
    BY <1>1, <2>1, PairRefines DEF UpdateKeys, Authority!ReplacePk
  <2>2. CASE Authority!ReplaceMsk
    BY <1>1, <2>2, StutterStep DEF UpdateKeys, Authority!ReplaceMsk, consumerVars
  <2> QED
    BY <1>1, <2>1, <2>2 DEF UpdateKeys
<1>2. ASSUME NEW tp \in Topics, NEW pol \in Inputs.policies, SetPolicy(tp, pol)
      PROVE  Access!Next
  <2>1. [policy EXCEPT ![tp] = pol] \in [Topics -> AllPolicies]
    BY InputsAssumption DEF Inv, TypeOK, AllPolicies
  <2> QED
    BY <1>2, <2>1, PoliciesRefine DEF SetPolicy
<1>3. CASE RestartManager
  <2>1. [tp \in Topics |-> None] \in [Topics -> AllPolicies]
    BY DEF AllPolicies
  <2> QED
    BY <1>3, <2>1, PoliciesRefine DEF RestartManager
<1>4. CASE RestartAuthority
  BY <1>4, PairRefines DEF RestartAuthority, Authority!Renew
<1>5. CASE Probe
  BY <1>5, StutterStep DEF Probe, authorityVars, consumerVars
<1> QED
  BY <1>1, <1>2, <1>3, <1>4, <1>5, TimeOutRefines DEF Others
-----------------------------------------------------------------------------
LEMMA NextRefines ==
  ASSUME Inv, [Next]_vars
  PROVE  Access!Next \/ UNCHANGED Access!vars
<1>1. CASE UNCHANGED vars
  BY <1>1, StutterStep DEF vars
<1>2. ASSUME NEW k \in Keys, NEW tp \in Topics, Register(k, tp)
      PROVE  UNCHANGED Access!vars
  BY <1>2, StutterStep DEF Register, authorityVars, consumerVars
<1>3. ASSUME NEW m \in Inputs.messages, Publish(m)
      PROVE  UNCHANGED Access!vars
  BY <1>3, StutterStep DEF Publish, authorityVars, consumerVars
<1>4. CASE Restart
  BY <1>4, DropStep DEF Restart, authorityVars
<1>5. ASSUME NEW c \in Consumers, GetSecretKey(c)
      PROVE  UNCHANGED Access!vars
  BY <1>5, StutterStep DEF GetSecretKey, authorityVars
<1>6. CASE \E r \in Readers : Run(r) \/ \E m \in published : Call(r, m)
  BY <1>6, LookUpRefines, FetchRefines, OpenReplyRefines, SetKeyRefines,
     CallRefines
  DEF Run
<1> QED
  BY <1>1, <1>2, <1>3, <1>4, <1>5, <1>6, HandlerRefines, OthersRefine DEF Next

LEMMA InitRefines == Init => Access!Init
<1> SUFFICES ASSUME Init PROVE Access!Init
  OBVIOUS
<1>1. /\ policy = [tp \in Topics |-> None] /\ pk = 0
      /\ cache = [c \in Consumers |-> [id \in CkIds |-> None]]
      /\ reader = [r \in Readers |-> Idle]
      /\ asked = [r \in Readers |-> [policies |-> {}, pk |-> 0]]
  BY DEF Init, InitWith, Authority!Init
<1>2. Known = [c \in Consumers |-> {}]
  BY <1>1 DEF Known
<1>3. View(Idle) = [at |-> "idle", msg |-> None, id |-> None, sk |-> None,
                    result |-> "none"]
  BY AccessAtValues, AccessResultValues DEF View, Idle
<1>4. AccessCalls = [r \in Readers |-> [at |-> "idle", msg |-> None, id |-> None,
                                        sk |-> None, result |-> "none"]]
  BY <1>1, <1>3, CallsAreViews
<1> QED
  BY <1>1, <1>2, <1>4 DEF Access!Init

\* The delivery of content keys (producer.rs handle_content_key_query,
\* consumer.rs get_content_key) keeps what KeyAccess promises: a consumer comes
\* to know a key only if its attributes satisfy a policy that the topic has had
\* since it asked and its secret key is of no replaced pair, and keeps it.
THEOREM RefinesKeyAccessCorrect == Spec => RefinesKeyAccess
<1>1. Inv /\ [Next]_vars => [Access!Next]_(Access!vars)
  BY NextRefines
<1> QED
  BY <1>1, InitRefines, InvCorrect, PTL DEF Spec, RefinesKeyAccess, Access!Spec
==============================================================================
