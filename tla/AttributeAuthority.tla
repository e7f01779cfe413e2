-------------------------- MODULE AttributeAuthority --------------------------
(***************************************************************************)
(* The attribute authority (src/src/attribute_authority.rs): the pair of   *)
(* attribute-based encryption keys and its update, the store of attributes *)
(* per consumer, and the two handlers that answer public-key and           *)
(* secret-key queries, each one query at a time from its own queue.        *)
(*                                                                         *)
(* A pair (pk, msk) drawn by setup() is modelled by its generation, a      *)
(* number; a secret key by the generation of the master key it was made    *)
(* with and its attributes.  The two RwLocks are modelled by who holds     *)
(* them: a handler keeps its read guard until its loop body ends, that is  *)
(* across reply().await, and a waiting writer lets no later reader pass.   *)
(***************************************************************************)
EXTENDS Naturals, Sequences

CONSTANTS
    Clients,        \* RSA public keys of consumers
    AttributeSets,  \* sets of attributes a client may be registered with
    PkQueries,      \* queries for the public key
    SkQueries,      \* queries for a secret key
    Request,        \* the payload and key expression of each query
    Repeated,       \* queries whose senders ask again once they have finished,
                    \*   as a producer does for every content key it locks
    Updaters,       \* tasks that call update_abe_keys
    MaxGeneration,  \* bound on the pairs of keys drawn by setup()
    None            \* no attributes registered, no query in hand

Queries == PkQueries \cup SkQueries

\* A "wild" query has a wildcard key expression, a "bare" one no payload, a
\* "garbled" one a payload that is not the DER of an RSA public key, and a
\* "small" one an RSA key too small to encrypt a symmetric key with.
Requests ==
    [client : Clients, form : {"good", "wild", "bare", "garbled", "small"}]

ASSUME QueriesAssumption ==
    /\ PkQueries \cap SkQueries = {}
    /\ None \notin Queries
    /\ Request \in [Queries -> Requests]
    /\ Repeated \subseteq Queries
ASSUME AttributesAssumption == None \notin AttributeSets
ASSUME GenerationAssumption == MaxGeneration \in Nat

VARIABLES
    pk, msk,        \* generation of abe_public_key and of abe_master_key
    generation,     \* generation of the last pair drawn
    update,         \* where each updater is in update_abe_keys
    attributes,     \* attribute store: client -> its attributes, or None
    pkQueue,        \* queries waiting at the public-key queryable
    skQueue,        \* queries waiting at the secret-key queryable
    pkHandler,      \* progress of handle_public_key_query
    skHandler,      \* progress of handle_secret_key_query
    query,          \* each query and what became of it
    held            \* history: the attributes each query's client has been
                    \*   registered with since the query was sent

keyVars == <<pk, msk, generation, update>>
vars == <<pk, msk, generation, update, attributes, pkQueue, skQueue,
          pkHandler, skHandler, query, held>>

Generations == 0..MaxGeneration
NoUpdate == [at |-> "idle", gen |-> 0]
\* update_abe_keys is about to ask for a lock ("askPk", "askMsk") or stands in
\* the lock's queue ("pk", "msk").
Updates == [at : {"idle", "askPk", "pk", "askMsk", "msk"}, gen : Generations]
\* A handler has not declared its queryable ("starting"), waits for a query
\* ("recv"), has received one ("got"), has looked up the attributes
\* ("attributes"), holds its read guard ("locked") or has ended ("stopped").
Starting == [at |-> "starting", query |-> None, gen |-> 0, attrs |-> None]
Receiving == [Starting EXCEPT !.at = "recv"]
Stopped == [Starting EXCEPT !.at = "stopped"]
Handlers == [at : {"starting", "recv", "got", "attributes", "locked",
                   "stopped"},
             query : Queries \cup {None}, gen : Generations,
             attrs : AttributeSets \cup {None}]
\* A query is answered with a reply or finishes without one.
Outcomes == [st : {"unsent", "waiting", "replied", "unanswered"},
             gen : Generations, attrs : AttributeSets \cup {None}]
Outcome(st) == [st |-> st, gen |-> 0, attrs |-> None]

TypeOK ==
    /\ pk \in Generations /\ msk \in Generations /\ generation \in Generations
    /\ update \in [Updaters -> Updates]
    /\ attributes \in [Clients -> AttributeSets \cup {None}]
    /\ pkQueue \in Seq(PkQueries) /\ skQueue \in Seq(SkQueries)
    /\ pkHandler \in Handlers /\ skHandler \in Handlers
    /\ query \in [Queries -> Outcomes]
    /\ held \in [SkQueries -> SUBSET AttributeSets]
-----------------------------------------------------------------------------
Init ==
    /\ pk = 0 /\ msk = 0 /\ generation = 0
    /\ update = [u \in Updaters |-> NoUpdate]
    /\ attributes = [c \in Clients |-> None]
    /\ pkQueue = <<>> /\ skQueue = <<>>
    /\ pkHandler = Starting /\ skHandler = Starting
    /\ query = [q \in Queries |-> Outcome("unsent")]
    /\ held = [q \in SkQueries |-> {}]

\* A handler holds its read guard from the lock to the end of the loop body.
\* (DroppedReaders: until it has copied the key; a mistaken form.)
DroppedReaders(handler) == FALSE
Readers(handler) == handler.at = "locked"

\* Tokio's RwLock lets no reader pass a writer that waits.  (ReadersPass: a
\* lock that prefers its readers; a mistaken form.)
ReadersPass(lock) == FALSE
WriterWaiting(lock) == \E u \in Updaters : update[u].at = lock

\* More mistaken forms, each a slip that the properties have to notice; Spec
\* uses none of them.

\* The second write goes to the public key again; the first to the master key.
UpdatePkTwice(u) ==
    /\ update[u].at = "msk"
    /\ ~ Readers(skHandler)
    /\ pk' = update[u].gen
    /\ update' = [update EXCEPT ![u] = NoUpdate]
    /\ UNCHANGED <<msk, generation, attributes, pkQueue, skQueue,
                   pkHandler, skHandler, query, held>>
UpdateMskFirst(u) ==
    /\ update[u].at = "pk"
    /\ ~ Readers(pkHandler)
    /\ msk' = update[u].gen
    /\ update' = [update EXCEPT ![u].at = "askMsk"]
    /\ UNCHANGED <<pk, generation, attributes, pkQueue, skQueue, pkHandler,
                   skHandler, query, held>>

\* Secret-key queries go to the public-key queryable.
SendSkToPk(q) ==
    /\ query[q].st = "unsent"
    /\ pkQueue' = Append(pkQueue, q)
    /\ query' = [query EXCEPT ![q] = Outcome("waiting")]
    /\ UNCHANGED <<keyVars, attributes, skQueue, pkHandler, skHandler, held>>

\* The look-up ignores the RSA key; or its encoding never matches.
SomeAttributes(q) ==
    LET known == {c \in Clients : attributes[c] # None}
    IN  IF known = {} THEN None ELSE attributes[CHOOSE c \in known : TRUE]
NoAttributes(q) == None

\* A query of an unregistered client is kept instead of dropped.
SkKeepUnregistered ==
    /\ skHandler.at = "got"
    /\ LET attrs == attributes[Request[skHandler.query].client]
       IN  skHandler' = IF attrs = None THEN Receiving
                        ELSE [skHandler EXCEPT !.at = "attributes",
                                               !.attrs = attrs]
    /\ UNCHANGED <<keyVars, attributes, pkQueue, skQueue, pkHandler, query,
                   held>>

\* A new pair is drawn and update_abe_keys called.
CallUpdate(u) ==
    /\ update[u].at = "idle"
    /\ generation < MaxGeneration
    /\ generation' = generation + 1
    /\ update' = [update EXCEPT ![u] = [at |-> "askPk", gen |-> generation + 1]]
    /\ UNCHANGED <<pk, msk, attributes, pkQueue, skQueue, pkHandler,
                   skHandler, query, held>>

\* write() puts the task in the queue of the lock.
AskLock(u) ==
    /\ \/ /\ update[u].at = "askPk"
          /\ update' = [update EXCEPT ![u].at = "pk"]
       \/ /\ update[u].at = "askMsk"
          /\ update' = [update EXCEPT ![u].at = "msk"]
    /\ UNCHANGED <<pk, msk, generation, attributes, pkQueue, skQueue, pkHandler,
                   skHandler, query, held>>

\* First the public key is replaced, under its lock, which is released at the
\* end of the statement, ...
UpdatePk(u) ==
    /\ update[u].at = "pk"
    /\ ~ Readers(pkHandler)
    /\ pk' = update[u].gen
    /\ update' = [update EXCEPT ![u].at = "askMsk"]
    /\ UNCHANGED <<msk, generation, attributes, pkQueue, skQueue, pkHandler,
                   skHandler, query, held>>

\* ... then the master key.
UpdateMsk(u) ==
    /\ update[u].at = "msk"
    /\ ~ Readers(skHandler)
    /\ msk' = update[u].gen
    /\ update' = [update EXCEPT ![u] = NoUpdate]
    /\ UNCHANGED <<pk, generation, attributes, pkQueue, skQueue, pkHandler,
                   skHandler, query, held>>

\* AttributeStore::set_attributes.
SetAttributes(c, attrs) ==
    /\ attributes' = [attributes EXCEPT ![c] = attrs]
    /\ held' = [q \in SkQueries |->
                   IF Request[q].client = c /\ query[q].st = "waiting"
                   THEN held[q] \cup {attrs} ELSE held[q]]
    /\ UNCHANGED <<keyVars, pkQueue, skQueue, pkHandler, skHandler, query>>
-----------------------------------------------------------------------------
\* A get on a queryable that is not declared, or no longer, finishes at once
\* without a reply.
Declared(handler) == handler.at \notin {"starting", "stopped"}

MaySend(q) ==
    \/ query[q].st = "unsent"
    \/ q \in Repeated /\ query[q].st \in {"replied", "unanswered"}

SendPk(q) ==
    /\ MaySend(q)
    /\ IF Declared(pkHandler)
       THEN /\ pkQueue' = Append(pkQueue, q)
            /\ query' = [query EXCEPT ![q] = Outcome("waiting")]
       ELSE /\ query' = [query EXCEPT ![q] = Outcome("unanswered")]
            /\ UNCHANGED pkQueue
    /\ UNCHANGED <<keyVars, attributes, skQueue, pkHandler, skHandler, held>>

SendSk(q) ==
    /\ MaySend(q)
    /\ held' = [held EXCEPT ![q] =
                   {attributes[Request[q].client]} \ {None}]
    /\ IF Declared(skHandler)
       THEN /\ skQueue' = Append(skQueue, q)
            /\ query' = [query EXCEPT ![q] = Outcome("waiting")]
       ELSE /\ query' = [query EXCEPT ![q] = Outcome("unanswered")]
            /\ UNCHANGED skQueue
    /\ UNCHANGED <<keyVars, attributes, pkQueue, pkHandler, skHandler>>

\* handle_public_key_query.
PkDeclare ==
    /\ pkHandler.at = "starting"
    /\ pkHandler' = Receiving
    /\ UNCHANGED <<keyVars, attributes, pkQueue, skQueue, skHandler, query,
                   held>>

\* A wildcard query is dropped, and finishes without a reply.
PkReceive ==
    /\ pkHandler.at = "recv"
    /\ pkQueue # <<>>
    /\ pkQueue' = Tail(pkQueue)
    /\ LET q == Head(pkQueue)
       IN  IF Request[q].form = "wild"
           THEN /\ query' = [query EXCEPT ![q] = Outcome("unanswered")]
                /\ UNCHANGED pkHandler
           ELSE /\ pkHandler' = [pkHandler EXCEPT !.at = "got", !.query = q]
                /\ UNCHANGED query
    /\ UNCHANGED <<keyVars, attributes, skQueue, skHandler, held>>

PkLock ==
    /\ pkHandler.at = "got"
    /\ ~ WriterWaiting("pk")
    /\ pkHandler' = [pkHandler EXCEPT !.at = "locked", !.gen = pk]
    /\ UNCHANGED <<keyVars, attributes, pkQueue, skQueue, skHandler, query,
                   held>>

\* The guard is dropped at the end of the loop body, after the reply.
PkReply ==
    /\ pkHandler.at = "locked"
    /\ query' = [query EXCEPT ![pkHandler.query] =
                    [st |-> "replied", gen |-> pkHandler.gen, attrs |-> None]]
    /\ pkHandler' = Receiving
    /\ UNCHANGED <<keyVars, attributes, pkQueue, skQueue, skHandler, held>>
-----------------------------------------------------------------------------
\* handle_secret_key_query.
SkDeclare ==
    /\ skHandler.at = "starting"
    /\ skHandler' = Receiving
    /\ UNCHANGED <<keyVars, attributes, pkQueue, skQueue, pkHandler, query,
                   held>>

\* The handler returns an error or panics: its queryable goes away, and with
\* it every query it has received and every one waiting.
SkStop(mine) ==
    /\ skHandler' = Stopped
    /\ skQueue' = <<>>
    /\ query' = [q \in Queries |->
                    IF q \in mine \/ \E i \in DOMAIN skQueue : skQueue[i] = q
                    THEN Outcome("unanswered") ELSE query[q]]

\* A wildcard query and one without payload are dropped; a payload that is
\* not an RSA public key ends the handler.
SkReceive ==
    /\ skHandler.at = "recv"
    /\ skQueue # <<>>
    /\ LET q == Head(skQueue)
       IN  \/ /\ Request[q].form \in {"wild", "bare"}
              /\ skQueue' = Tail(skQueue)
              /\ query' = [query EXCEPT ![q] = Outcome("unanswered")]
              /\ UNCHANGED skHandler
           \/ /\ Request[q].form = "garbled"
              /\ SkStop({q})
           \/ /\ Request[q].form \in {"good", "small"}
              /\ skQueue' = Tail(skQueue)
              /\ skHandler' = [skHandler EXCEPT !.at = "got", !.query = q]
              /\ UNCHANGED query
    /\ UNCHANGED <<keyVars, attributes, pkQueue, pkHandler, held>>

\* attribute_store.get_attributes for the RSA key of the payload.  A client
\* that is not registered gets no reply.
GetAttributes(q) == attributes[Request[q].client]

SkGetAttributes ==
    /\ skHandler.at = "got"
    /\ LET q == skHandler.query
       IN  IF GetAttributes(q) = None
           THEN /\ query' = [query EXCEPT ![q] = Outcome("unanswered")]
                /\ skHandler' = Receiving
           ELSE /\ skHandler' = [skHandler EXCEPT
                       !.at = "attributes", !.attrs = GetAttributes(q)]
                /\ UNCHANGED query
    /\ UNCHANGED <<keyVars, attributes, pkQueue, skQueue, pkHandler, held>>

\* SecretKey::new unwraps the result of cp_keygen, which is an error for an
\* empty set of attributes.
Keygen(attrs) == attrs # {}

\* The master key is read under its guard.
SkLock ==
    /\ skHandler.at = "attributes"
    /\ ~ WriterWaiting("msk")
    /\ IF Keygen(skHandler.attrs)
       THEN /\ skHandler' = [skHandler EXCEPT !.at = "locked", !.gen = msk]
            /\ UNCHANGED <<skQueue, query>>
       ELSE SkStop({skHandler.query})
    /\ UNCHANGED <<keyVars, attributes, pkQueue, pkHandler, held>>

\* SecretKeyLock::encrypt fails if the key of the query cannot hold the
\* symmetric key.
Seals(q) == Request[q].form # "small"

SkReply ==
    /\ skHandler.at = "locked"
    /\ LET q == skHandler.query
       IN  IF Seals(q)
           THEN /\ query' = [query EXCEPT ![q] =
                       [st |-> "replied", gen |-> skHandler.gen,
                        attrs |-> skHandler.attrs]]
                /\ skHandler' = Receiving
                /\ UNCHANGED skQueue
           ELSE SkStop({q})
    /\ UNCHANGED <<keyVars, attributes, pkQueue, pkHandler, held>>
-----------------------------------------------------------------------------
Update(u) == AskLock(u) \/ UpdatePk(u) \/ UpdateMsk(u)
HandlePk == PkDeclare \/ PkReceive \/ PkLock \/ PkReply
HandleSk == SkDeclare \/ SkReceive \/ SkGetAttributes \/ SkLock \/ SkReply

Next ==
    \/ \E u \in Updaters : CallUpdate(u) \/ Update(u)
    \/ \E c \in Clients, attrs \in AttributeSets : SetAttributes(c, attrs)
    \/ \E q \in PkQueries : SendPk(q)
    \/ \E q \in SkQueries : SendSk(q)
    \/ HandlePk
    \/ HandleSk

\* Tokio runs every task that can make a step; nobody has to call anything.
Fairness ==
    /\ WF_vars(HandlePk)
    /\ WF_vars(HandleSk)
    /\ \A u \in Updaters : WF_vars(Update(u))

Spec == Init /\ [][Next]_vars /\ Fairness
-----------------------------------------------------------------------------
\* A reply carries the key that is in force when it is sent, not one that an
\* update has replaced since it was read: after an update of the public
\* (master) key nobody is sent the old one any more.
RepliesCurrent ==
    [][/\ \A q \in PkQueries : query[q].st # "replied" /\ query'[q].st = "replied"
              => query'[q].gen = pk
       /\ \A q \in SkQueries : query[q].st # "replied" /\ query'[q].st = "replied"
              => query'[q].gen = msk]_vars

\* A secret key is issued for attributes that its client was registered with
\* at some moment since it asked, although the handler looks the attributes
\* up before it waits for the master key: a registration replaced before the
\* query was sent is never honoured.
IssuedAttributesHeld ==
    \A q \in SkQueries : query[q].st = "replied" => query[q].attrs \in held[q]

\* Every query finishes: it is answered, or dropped without a reply.
EveryQueryEnds ==
    \A q \in Queries :
        (query[q].st = "waiting") ~> (query[q].st \in {"replied", "unanswered"})

\* An update gets both locks in the end, although the handlers take them again
\* for one query after the other, and clients that have been answered ask again
\* for ever (attribute_authority.rs update_abe_keys).
EveryUpdateReturns ==
    \A u \in Updaters : (update[u].at # "idle") ~> (update[u].at = "idle")

\* A good query of a client that stays registered is answered, unless the
\* query or the attributes of some client have ended the handler.
GoodQueryAnswered ==
    \A q \in SkQueries :
        query[q].st = "waiting" /\ Request[q].form = "good"
            /\ attributes[Request[q].client] # None
            ~> query[q].st = "replied" \/ skHandler.at = "stopped"
-----------------------------------------------------------------------------
(* Properties of an authority whose updates are made one at a time.        *)

SerialUpdates == \A u, v \in Updaters : u = v

\* When no update is under way the two keys are of one pair, so that what is
\* locked under the public key can be opened with secret keys issued now.
KeysMatch == (\A u \in Updaters : update[u].at = "idle") => pk = msk

\* The master key is never of a later pair than the public key: a content
\* key locked after a consumer obtained its secret key is not locked under
\* an older pair than the secret key's.
MasterKeyNotAhead == msk <= pk

\* To its users the authority is a pair of keys of which one after the other
\* is replaced by its successor: an update never skips a pair, repeats one or
\* starts before both keys are of the same (attribute_authority.rs
\* update_abe_keys).
Pair == INSTANCE KeyPair
RefinesKeyPair == Pair!Spec
==============================================================================
