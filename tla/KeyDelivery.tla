----------------------------- MODULE KeyDelivery ------------------------------
(***************************************************************************)
(* How a content key gets from a producer to a consumer.  A consumer that  *)
(* decrypts a message looks its CK-ID up in its cache and, on a miss, asks *)
(* the producer; it may also fetch the key that the message announces as   *)
(* Next-CK-ID ahead of time (src/src/consumer.rs).  The producer's handler *)
(* takes one query at a time, asks the attribute authority for the public  *)
(* key and the access manager for the policy of the key's topic, and       *)
(* replies with the content key locked under both (src/src/producer.rs     *)
(* handle_content_key_query).                                              *)
(*                                                                         *)
(* The other parts appear by what they promise: the producer's keys and    *)
(* messages by the actions of Publishing, the authority's keys by those of *)
(* KeyPair, and the access manager answers with a policy in force          *)
(* (AccessManager: AnswerInForce).                                         *)
(*                                                                         *)
(* Attribute-based encryption is external: a key locked under a public key *)
(* and a policy opens with a secret key of the same pair whose attributes  *)
(* satisfy the policy.  A policy is the set of its alternatives, each a    *)
(* set of attributes that are all required.                                *)
(***************************************************************************)
EXTENDS Naturals, Sequences

CONSTANTS
    Topics, Keys, Id(_), None,
    Consumers,      \* consumers, each with one cache and one secret key
    Attributes,     \* the attributes each consumer's secret keys are made for
    Readers,        \* tasks that call a consumer's methods, one at a time
    Owner,          \* the consumer each task belongs to
    Forms,          \* headers a message may have: "full", "noId", "noPrefix"
    Policies,       \* well-formed policies
    Malformed,      \* a policy that does not parse
    Inputs,         \* the messages producers put and the policies managers set
    MayTimeOut,     \* whether a get may end without its answer
    MayRestart,     \* whether the producer's process may be restarted
    MayProbe,       \* whether others query with wildcard key expressions
    MayPrefetch,    \* whether consumers fetch the keys that are announced
    Wild,           \* a query with a wildcard key expression
    MaxGeneration,  \* bound on the updates of the authority's keys
    MaxCalls        \* bound on the calls made by each task

VARIABLES
    keys,           \* the producer's store: CK id -> (topic, key), or None
    published,      \* the messages consumers may receive
    pk, msk,        \* generations of the authority's public and master key
    policy,         \* the access manager's store: topic -> policy, or None
    handler,        \* progress of the producer's handler
    queue,          \* queries waiting at the producer's queryable
    sk,             \* consumer -> generation of its secret key, or None
    cache,          \* consumer -> CK id -> key, or None
    reader,         \* progress of each task's call
    asked           \* history: the public key when each task sent its query,
                    \*   and the policies its topic has had since

Producer == INSTANCE Publishing
Authority == INSTANCE KeyPair

CkIds == Producer!CkIds
Messages == Producer!Messages
Generations == 0..MaxGeneration
Entries == [topic : Topics, ck : Keys]
Queries == [task : Readers, call : 0..MaxCalls, ckId : CkIds]
Locked == [ck : Keys, pk : Generations, policy : Policies]
AllPolicies == Policies \cup {Malformed, None}

ASSUME IdInjective == \A k, l \in Keys : Id(k) = Id(l) => k = l
ASSUME NoneAssumption ==
    /\ None \notin Keys \cup Topics \cup Entries \cup Generations \cup CkIds
    /\ None \notin Policies \cup {Malformed}
    /\ {None, Wild} \cap Queries = {} /\ None # Wild
    /\ Malformed \notin Policies
ASSUME OwnerAssumption == Owner \in [Readers -> Consumers]
ASSUME InputsAssumption ==
    /\ Inputs.messages \subseteq Messages
    /\ Inputs.policies \subseteq Policies \cup {Malformed}
    /\ Forms \subseteq {"full", "noId", "noPrefix"}
ASSUME BoundsAssumption ==
    /\ MaxGeneration \in Nat /\ MaxCalls \in Nat
    /\ {MayTimeOut, MayRestart, MayProbe, MayPrefetch} \subseteq BOOLEAN

authorityVars == <<pk, msk>>
producerVars == <<keys, published, handler, queue>>
consumerVars == <<sk, cache, reader>>
vars == <<keys, published, pk, msk, policy, handler, queue, sk, cache,
          reader, asked>>

\* What get_secret_key, get_content_key, fetch_content_key and decrypt end in.
Results == {"none", "plaintext", "fetched", "NoCkIdFound",
            "NoProducerPrefixFound", "NoContentKeyFound",
            "FailedToDecryptContentKey", "AesError"}

Satisfies(attrs, pol) == \E alternative \in pol : alternative \subseteq attrs

\* The policy is not looked at; a slip, see below.
MistakenOpens(c, gen, lock) == gen = lock.pk

\* SecretKey::decrypt.
Opens(c, gen, lock) == gen = lock.pk /\ Satisfies(Attributes[c], lock.policy)

\* The handler has not declared its queryable yet, waits for a query, has
\* received one, holds the public key, has looked the content key up, holds
\* the policy too, or has ended.
Handlers ==
    [at : {"starting", "recv", "got", "pk", "ck", "policy", "stopped"},
     query : Queries \cup {None}, pk : Generations,
     entry : Entries \cup {None}, policy : AllPolicies]
Starting == [at |-> "starting", query |-> None, pk |-> 0, entry |-> None,
             policy |-> None]
Receiving == [Starting EXCEPT !.at = "recv"]
Stopped == [Starting EXCEPT !.at = "stopped"]
Declared == handler.at \notin {"starting", "stopped"}

Caches == [CkIds -> Keys \cup {None}]

\* A task is idle, about to look in the cache, about to look there again and
\* send its query for the key called id, waiting for the reply, has a reply
\* to open, or is about to replace the cache it has seen by one that has the
\* key it has opened.  op is the method it has called.
Tasks == [at : {"idle", "lookup", "fetch", "waiting", "replied", "caching"},
          op : {"decrypt", "prefetch"}, call : 0..MaxCalls,
          msg : Messages \cup {None}, form : Forms \cup {"full"},
          id : CkIds \cup {None}, sk : Generations \cup {None},
          reply : Locked \cup {None}, seen : Caches \cup {None},
          result : Results]
Idle == [at |-> "idle", op |-> "decrypt", call |-> 0, msg |-> None,
         form |-> "full", id |-> None, sk |-> None, reply |-> None,
         seen |-> None, result |-> "none"]

\* The call has asked the producer.
Asking(r) == reader[r].at \in {"waiting", "replied", "caching"}

TypeOK ==
    /\ keys \in [CkIds -> Entries \cup {None}]
    /\ published \subseteq Messages
    /\ pk \in Generations /\ msk \in Generations
    /\ policy \in [Topics -> AllPolicies]
    /\ handler \in Handlers
    /\ queue \in Seq(Queries \cup {Wild})
    /\ sk \in [Consumers -> Generations \cup {None}]
    /\ cache \in [Consumers -> Caches]
    /\ reader \in [Readers -> Tasks]
    /\ asked \in [Readers -> [policies : SUBSET AllPolicies, pk : Generations]]

InitWith(policies, atStart) ==
    /\ Producer!Init
    /\ Authority!Init
    /\ policy = policies
    /\ handler = atStart
    /\ queue = <<>>
    /\ sk = [c \in Consumers |-> None]
    /\ cache = [c \in Consumers |-> [id \in CkIds |-> None]]
    /\ reader = [r \in Readers |-> Idle]
    /\ asked = [r \in Readers |-> [policies |-> {}, pk |-> 0]]

Init == InitWith([tp \in Topics |-> None], Starting)
-----------------------------------------------------------------------------
(* The producer's publishing side, the authority and the access manager.   *)

\* A key that is drawn is none that was drawn before, in this process or in
\* an earlier one.
Register(k, tp) ==
    /\ Producer!Register(k, tp)
    /\ \A m \in published : Id(k) \notin {m.ckId, m.nextId}
    /\ UNCHANGED <<authorityVars, policy, handler, queue, consumerVars, asked>>

Publish(m) ==
    /\ Producer!Publish(m)
    /\ UNCHANGED <<authorityVars, policy, handler, queue, consumerVars, asked>>

UpdateKeys ==
    /\ \/ Authority!ReplacePk /\ pk < MaxGeneration
       \/ Authority!ReplaceMsk
    /\ UNCHANGED <<producerVars, policy, consumerVars, asked>>

NewPolicies(policies) ==
    /\ policy' = policies
    /\ asked' = [r \in Readers |->
           IF Asking(r)
           THEN [asked[r] EXCEPT !.policies = @ \cup {policies[reader[r].msg.topic]}]
           ELSE asked[r]]
    /\ UNCHANGED <<producerVars, authorityVars, consumerVars>>

\* PolicyStore::set_policy.
SetPolicy(tp, pol) == NewPolicies([policy EXCEPT ![tp] = pol])

\* The access manager's process is restarted, with an empty store; or the
\* authority's, with a pair of its own.  (That their gets go unanswered in the
\* meantime is MayTimeOut.)
RestartManager == MayRestart /\ NewPolicies([tp \in Topics |-> None])

RestartAuthority ==
    /\ MayRestart
    /\ pk < MaxGeneration
    /\ Authority!Renew
    /\ UNCHANGED <<producerVars, policy, consumerVars, asked>>
-----------------------------------------------------------------------------
(* In this module a definition called Mistaken... is a slip in the one it   *)
(* precedes, which the properties have to notice; Spec uses none of them.  *)

\* A reply is matched with the task only, not with the call.
MistakenAwaits(r, q) ==
    q \notin {None, Wild} /\ reader[r].at = "waiting" /\ q.task = r

\* The task still waits for the answer to this query.
Awaits(r, q) ==
    /\ q \notin {None, Wild}
    /\ reader[r].at = "waiting"
    /\ q.task = r
    /\ q.call = reader[r].call

\* Dropping queries ends the gets that sent them without a reply:
\* fetch_content_key returns None, decrypt NoContentKeyFound.
Drop(qs) ==
    reader' = [r \in Readers |->
        IF \E q \in qs : Awaits(r, q)
        THEN [reader[r] EXCEPT !.at = "idle", !.result = "NoContentKeyFound"]
        ELSE reader[r]]

Waiting == {queue[i] : i \in DOMAIN queue}

\* The producer's process ends and another is started: the keys, which are
\* kept in memory only, are gone, and with the queryable the query in hand
\* and those waiting.
Restart ==
    /\ MayRestart
    /\ keys' = [id \in CkIds |-> None]
    /\ handler' = Starting
    /\ queue' = <<>>
    /\ Drop({handler.query} \cup Waiting)
    /\ UNCHANGED <<published, authorityVars, policy, sk, cache, asked>>
-----------------------------------------------------------------------------
(* handle_content_key_query *)

\* Someone queries {prefix}/CK/*, say.  (One such query waits at a time.)
Probe ==
    /\ MayProbe
    /\ Declared
    /\ Wild \notin Waiting
    /\ queue' = Append(queue, Wild)
    /\ UNCHANGED <<keys, published, handler, authorityVars, policy,
                   consumerVars, asked>>

CkDeclare ==
    /\ handler.at = "starting"
    /\ handler' = Receiving
    /\ UNCHANGED <<keys, published, queue, authorityVars, policy,
                   consumerVars, asked>>

\* A wildcard query is ignored.
CkReceive ==
    /\ handler.at = "recv"
    /\ queue # <<>>
    /\ queue' = Tail(queue)
    /\ handler' = IF Head(queue) = Wild THEN Receiving
                  ELSE [handler EXCEPT !.at = "got", !.query = Head(queue)]
    /\ UNCHANGED <<keys, published, authorityVars, policy, consumerVars, asked>>

\* The query in hand is kept.
MistakenDropQuery == handler' = Receiving /\ UNCHANGED reader

\* Give up on the query in hand and wait for the next one.
DropQuery ==
    /\ Drop({handler.query})
    /\ handler' = Receiving

\* The public key is asked for once and for all.
MistakenPublicKeyReply == 0

\* get_public_key_from_attribute_authority, or no answer to it.
PublicKeyReply == pk

CkGetPublicKey ==
    /\ handler.at = "got"
    /\ \/ /\ handler' = [handler EXCEPT !.at = "pk", !.pk = PublicKeyReply]
          /\ UNCHANGED reader
       \/ MayTimeOut /\ DropQuery
    /\ UNCHANGED <<keys, published, queue, authorityVars, policy, sk, cache,
                   asked>>

\* get_ck: a query for an id that the store does not know is dropped.
CkLookUp ==
    /\ handler.at = "pk"
    /\ LET entry == keys[handler.query.ckId]
       IN  IF entry = None
           THEN DropQuery
           ELSE /\ handler' = [handler EXCEPT !.at = "ck", !.entry = entry]
                /\ UNCHANGED reader
    /\ UNCHANGED <<keys, published, queue, authorityVars, policy, sk, cache,
                   asked>>

\* A topic without policy gets some policy.
MistakenPolicyReply(tp) ==
    IF policy[tp] = None THEN CHOOSE pol \in Policies : TRUE ELSE policy[tp]

\* get_policy_from_access_manager for the topic of the key, or no answer,
\* also because the topic has no policy.
PolicyReply(tp) == policy[tp]

CkGetPolicy ==
    /\ handler.at = "ck"
    /\ LET reply == PolicyReply(handler.entry.topic)
       IN  \/ /\ reply # None
              /\ handler' = [handler EXCEPT !.at = "policy", !.policy = reply]
              /\ UNCHANGED reader
           \/ /\ MayTimeOut \/ reply = None
              /\ DropQuery
    /\ UNCHANGED <<keys, published, queue, authorityVars, policy, sk, cache,
                   asked>>

\* The entry is locked as it is stored, with its topic.
MistakenLock ==
    [ck |-> handler.entry, pk |-> handler.pk, policy |-> handler.policy]

\* ContentKeyLock::encrypt.
Lock == [ck |-> handler.entry.ck, pk |-> handler.pk, policy |-> handler.policy]

\* Lock and reply; an answer to a get that has timed out goes nowhere.
CkReply ==
    /\ handler.at = "policy"
    /\ handler.policy # Malformed
    /\ handler' = Receiving
    /\ reader' = [r \in Readers |->
           IF Awaits(r, handler.query)
           THEN [reader[r] EXCEPT !.at = "replied", !.reply = Lock]
           ELSE reader[r]]
    /\ UNCHANGED <<keys, published, queue, authorityVars, policy, sk, cache,
                   asked>>

\* A policy that does not parse makes encrypt fail, and the handler returns:
\* the queryable goes away with the query in hand and those waiting.
CkFail ==
    /\ handler.at = "policy"
    /\ handler.policy = Malformed
    /\ handler' = Stopped
    /\ queue' = <<>>
    /\ Drop({handler.query} \cup Waiting)
    /\ UNCHANGED <<keys, published, authorityVars, policy, sk, cache, asked>>
-----------------------------------------------------------------------------
(* Consumer *)

\* get_secret_key: the authority makes a key with the master key in force.
GetSecretKey(c) ==
    /\ sk' = [sk EXCEPT ![c] = msk]
    /\ UNCHANGED <<producerVars, authorityVars, policy, cache, reader, asked>>

StartCall(r, m, form, id, op, at) ==
    /\ reader[r].at = "idle"
    /\ reader[r].call < MaxCalls
    /\ sk[Owner[r]] # None
    /\ reader' = [reader EXCEPT ![r] =
           [at |-> at, op |-> op, call |-> reader[r].call + 1, msg |-> m,
            form |-> form, id |-> id, sk |-> sk[Owner[r]], reply |-> None,
            seen |-> None, result |-> "none"]]
    /\ UNCHANGED <<producerVars, authorityVars, policy, sk, cache, asked>>

\* decrypt is called with a received message and the consumer's secret key.
Decrypt(r, m, form) == StartCall(r, m, form, m.ckId, "decrypt", "lookup")

\* fetch_content_key is called for the key extract_next_ck_id finds announced.
Prefetch(r, m) ==
    /\ MayPrefetch
    /\ m.nextId # None
    /\ StartCall(r, m, "full", m.nextId, "prefetch", "fetch")

Return(r, result) ==
    reader' = [reader EXCEPT ![r].at = "idle", ![r].result = result]

\* SymKey::decrypt of a message's body: authenticated, so that another key
\* than the one it was encrypted with is an error.
Unseals(k, m) == k = m.body

\* The call has its key; decrypt opens the body with it.
WithKey(r, k) ==
    IF reader[r].op = "prefetch" THEN "fetched"
    ELSE IF Unseals(k, reader[r].msg) THEN "plaintext" ELSE "AesError"

\* Any key will do, whatever its id.
MistakenCached(r) ==
    LET c == cache[Owner[r]]
    IN  IF \E id \in CkIds : c[id] # None
        THEN c[CHOOSE id \in CkIds : c[id] # None] ELSE None

Cached(r) == cache[Owner[r]][reader[r].id]

\* get_content_key: the header must name the key; a cached key is used at
\* once, and on a miss the header must name the producer to ask.
LookUp(r) ==
    /\ reader[r].at = "lookup"
    /\ \/ /\ reader[r].form = "noId"
          /\ Return(r, "NoCkIdFound")
       \/ /\ reader[r].form # "noId"
          /\ Cached(r) # None
          /\ Return(r, WithKey(r, Cached(r)))
       \/ /\ reader[r].form = "noPrefix"
          /\ Cached(r) = None
          /\ Return(r, "NoProducerPrefixFound")
       \/ /\ reader[r].form = "full"
          /\ Cached(r) = None
          /\ reader' = [reader EXCEPT ![r].at = "fetch"]
    /\ UNCHANGED <<producerVars, authorityVars, policy, sk, cache, asked>>

\* fetch_content_key: look again, then send the query.  Without a queryable
\* the get ends at once.
Fetch(r) ==
    /\ reader[r].at = "fetch"
    /\ \/ /\ Cached(r) # None
          /\ Return(r, WithKey(r, Cached(r)))
          /\ UNCHANGED <<queue, asked>>
       \/ /\ Cached(r) = None
          /\ ~ Declared
          /\ Return(r, "NoContentKeyFound")
          /\ UNCHANGED <<queue, asked>>
       \/ /\ Cached(r) = None
          /\ Declared
          /\ reader' = [reader EXCEPT ![r].at = "waiting"]
          /\ queue' = Append(queue, [task |-> r, call |-> reader[r].call,
                                     ckId |-> reader[r].id])
          /\ asked' = [asked EXCEPT ![r] =
                 [policies |-> {policy[reader[r].msg.topic]}, pk |-> pk]]
    /\ UNCHANGED <<keys, published, handler, authorityVars, policy, sk, cache>>

\* The get times out; its query stays where it is.
TimeOut(r) ==
    /\ MayTimeOut
    /\ reader[r].at = "waiting"
    /\ Return(r, "NoContentKeyFound")
    /\ UNCHANGED <<producerVars, authorityVars, policy, sk, cache, asked>>

\* Open the reply with the secret key of the call, or return the error.
OpenReply(r) ==
    /\ reader[r].at = "replied"
    /\ IF Opens(Owner[r], reader[r].sk, reader[r].reply)
       THEN reader' = [reader EXCEPT ![r].at = "caching",
                                     ![r].seen = cache[Owner[r]]]
       ELSE Return(r, "FailedToDecryptContentKey")
    /\ UNCHANGED <<producerVars, authorityVars, policy, sk, cache, asked>>

\* The new map is stored without a look at what has become of the old one.
StoreAnyway(r) == TRUE

\* The compare of rcu's compare-and-swap.  (It compares pointers; of two
\* maps with the same entries it does not matter which is replaced.)
SeenIsCurrent(r) == cache[Owner[r]] = reader[r].seen

\* set_key: a copy of the map that was seen, with the new key.
CacheKey(r, k) ==
    [cache EXCEPT ![Owner[r]] = [reader[r].seen EXCEPT ![reader[r].id] = k]]

\* rcu: swap the maps, and the call has its key; or see the map again,
\* when another task has replaced it in the meantime.
SetKey(r) ==
    /\ reader[r].at = "caching"
    /\ IF SeenIsCurrent(r)
       THEN /\ cache' = CacheKey(r, reader[r].reply.ck)
            /\ Return(r, WithKey(r, reader[r].reply.ck))
       ELSE /\ reader' = [reader EXCEPT ![r].seen = cache[Owner[r]]]
            /\ UNCHANGED cache
    /\ UNCHANGED <<producerVars, authorityVars, policy, sk, asked>>
-----------------------------------------------------------------------------
HandleCk == \/ CkDeclare \/ CkReceive \/ CkGetPublicKey \/ CkLookUp
            \/ CkGetPolicy \/ CkReply \/ CkFail

Run(r) == LookUp(r) \/ Fetch(r) \/ OpenReply(r) \/ SetKey(r)

Call(r, m) == Prefetch(r, m) \/ \E form \in Forms : Decrypt(r, m, form)

\* What happens around the producer's and the consumers' calls.
Others ==
    \/ UpdateKeys
    \/ \E tp \in Topics, pol \in Inputs.policies : SetPolicy(tp, pol)
    \/ RestartManager
    \/ RestartAuthority
    \/ Probe
    \/ \E r \in Readers : TimeOut(r)

Next ==
    \/ \E k \in Keys, tp \in Topics : Register(k, tp)
    \/ \E m \in Inputs.messages : Publish(m)
    \/ Restart
    \/ HandleCk
    \/ \E c \in Consumers : GetSecretKey(c)
    \/ \E r \in Readers : Run(r) \/ \E m \in published : Call(r, m)
    \/ Others

\* The tasks of the consumer and the producer's handler run; nobody has to
\* publish, update, change a policy or make a call, and no get has to time
\* out.
Fairness == WF_vars(HandleCk) /\ \A r \in Readers : WF_vars(Run(r))

Spec == Init /\ [][Next]_vars /\ Fairness
-----------------------------------------------------------------------------
\* The cache holds under each id the key of that id, although neither side
\* checks it: the reply to one query, be it late, is never taken for the
\* reply to another.
CacheCorrect ==
    \A c \in Consumers, id \in CkIds :
        cache[c][id] # None => Id(cache[c][id]) = id

\* A body is never opened with the wrong content key: a call that gets hold
\* of a key returns the plaintext.
NoWrongKey == \A r \in Readers : reader[r].result # "AesError"

\* The lock of a reply is not under an older public key than was in force
\* when the consumer asked, nor than the secret key it asked with, in spite
\* of the time between asking the authority and replying: a consumer whose
\* secret key does not fit has only to get a new one.
LockNotOlder ==
    \A r \in Readers : reader[r].at \in {"replied", "caching"} =>
        /\ reader[r].sk <= asked[r].pk
        /\ asked[r].pk <= reader[r].reply.pk

\* A content key is locked under a policy that its topic has had at some
\* moment since the consumer asked for it, never under one that had been
\* replaced before.
LockedUnderPolicyInForce ==
    \A r \in Readers : reader[r].at \in {"replied", "caching"} =>
        reader[r].reply.policy \in asked[r].policies

\* A key once fetched is there for good, however many tasks at the same time
\* copy the map, add a key and swap the maps (set_key): a key fetched ahead is
\* not lost to another one.
CacheKept ==
    [][\A c \in Consumers, id \in CkIds :
          cache[c][id] # None => cache'[c][id] = cache[c][id]]_vars

\* Every call returns, whatever becomes of the handler.
EveryCallReturns ==
    \A r \in Readers : (reader[r].at # "idle") ~> (reader[r].at = "idle")

\* To the consumers all of this is KeyAccess: what they come to know is what
\* their attributes and secret keys entitle them to when they ask.
AccessAt(at) == CASE at = "idle" -> "idle"
                  [] at \in {"lookup", "fetch"} -> "called"
                  [] OTHER -> "asked"
AccessResult(result) ==
    CASE result = "none" -> "none"
      [] result \in {"plaintext", "fetched"} -> "key"
      [] OTHER -> "error"
AccessCalls ==
    [r \in Readers |-> [at |-> AccessAt(reader[r].at), msg |-> reader[r].msg,
                        id |-> reader[r].id, sk |-> reader[r].sk,
                        result |-> AccessResult(reader[r].result)]]
Known == [c \in Consumers |-> {cache[c][id] : id \in CkIds} \ {None}]
Access == INSTANCE KeyAccess WITH known <- Known, call <- AccessCalls
RefinesKeyAccess == Access!Spec
==============================================================================
