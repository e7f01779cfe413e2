# z-abe: a verification project

z-abe publishes encrypted messages over Zenoh. A *producer* encrypts each message with the
current *content key* (CK) of its topic and names the key in the message's header; a
*consumer* fetches the content key from the producer, which hands it out locked with
attribute-based encryption under the topic's policy. An *attribute authority* owns the pair of
attribute-based keys and issues each consumer a secret key for its attributes; an *access
manager* owns the policies. This directory models the state those parts keep and the protocol
between them, checks the models with TLC, and proves the central theorems with TLAPS.

File names below are relative to the repository's root, line numbers refer to the modelled
commit.

## 1. Inventory

| Component | State | Operations | Talks to |
|---|---|---|---|
| Producer, keys (`src/producer.rs`) | three maps behind `ArcSwap`: id -> (topic, CK), topic -> current CK, topic -> next CK | `initialize_`, `prepare_next_`, `rotate_content_key`, `get_*`, `encrypt`; store operations | the consumer, through the header of each message |
| Producer, query handler (`src/producer.rs` 111-175) | one query in hand, its public key, entry and policy | receive, get public key, look up, get policy, lock and reply | consumer, authority, access manager, key store |
| Producer program (`examples/producer.rs`) | message count | initialize, prepare, publish for ever, rotate every 10 messages | Producer |
| Consumer (`src/consumer.rs`) | RSA key; cache id -> CK behind `ArcSwap` | `get_secret_key`, `get_content_key`, `fetch_content_key`, `decrypt`, `extract_next_ck_id` | producer's handler, authority |
| Attribute authority (`src/attribute_authority.rs`) | public and master key, each in an `RwLock`; attribute store | `update_abe_keys`, two query handlers, `set_attributes` | producer (public key), consumer (secret key) |
| Access manager (`src/access_manager.rs`) | policy store | policy query handler, `set_policy` | producer |
| Locks and keys (`ckl.rs`, `skl.rs`, `secret_key.rs`, `content_key.rs`, `sym_key.rs`, `payload.rs`) | none | encrypt, decrypt, encode | libraries |
| Authority program (`examples/attribute_authority.rs`) | two tasks | spawn the handlers, register a consumer, end with either task | Attribute authority |
| Consumer program (`examples/consumer.rs`) | secret key, subscriber | obtain the key, subscribe, decrypt one sample after the other | Consumer |
| Other programs, `config.rs`, `lib.rs` | none | set-up, constants | - |

The parts call each other by Zenoh queries (`get` / `Queryable`) and messages (`put`). All
structs are `Clone`, share their stores and take `&self`, so any number of tasks may be inside
their methods at once.

What is hard in this code:

* **Several writes per operation.** Store operations are atomic, the methods built from them
  are not: `rotate_content_key` is a read and two writes, `update_abe_keys` writes under two
  locks in turn, publishing reads two slots and uses them later.
* **Nested queries with independent time limits.** A consumer's `get` waits for a handler that
  itself waits for two other services; a producer may answer a `get` that was given up.
* **One error ends a handler.** Each handler is a loop with `?` and `unwrap` in it: a policy
  that does not parse or a payload that is not an RSA key ends it for every client.
* **Values read early and used late.** Public key, policy and attributes are read before the
  awaits that separate them from the reply.
* **Nothing persistent.** A restarted producer knows none of its former keys, a restarted
  access manager no policy, a restarted authority has another pair.
* **Tasks started, not awaited.** Handlers are spawned and the program goes on: queries may come
  before the queryable is declared, before a policy is set, before a consumer is registered.
* **Programs end on the first error**, and the consumer program never renews its secret key.

What makes each part correct:

* *Keys*: an id in a published header can always be fetched, and stays the same key of the
  same topic; current keys only move forward; a rotation promotes the prepared key, discards
  no other, and leaves no key both current and next.
* *Producer program*: its `unwrap`s never fail; a message's key was announced by its
  predecessor; no key is used beyond its budget of messages.
* *Authority*: replies carry the keys in force; secret keys are for attributes really held;
  every query finishes; updates finish; the two keys belong together.
* *Authority program*: neither handler outlives the other; a registered consumer is answered.
* *Access manager*: an answer is a policy of the topic asked for, in force since the query; only
  a topic without policy is denied; every query finishes.
* *Delivery*: the cache maps an id to its key and no other, for good; what is locked is locked
  under keys and a policy no older than the request; every call returns; a consumer learns a key
  only if it is entitled to it; in the intended set-up every message is decrypted.
* *The whole*: rotations are invisible to the consumer program; what it puts out is what it
  received, without a gap, whatever ends it.

`PROJECT.json` lists each hazard at its line, with the properties aimed at it.

## 2. Modules

| Module | Models | Source |
|---|---|---|
| `KeyRing` | abstract: per topic one current and one next slot; initialize, prepare and rotate are indivisible | what `producer.rs` promises |
| `ProducerKeys` | the store and every method of `Producer` on it, one action per store operation | `src/producer.rs` 34-109, 213-392 |
| `ProducerApp` | extends `ProducerKeys` by the control of the producer program | `examples/producer.rs` |
| `AttributeAuthority` | key pair, locks, attribute store, both handlers | `src/attribute_authority.rs` |
| `AuthorityApp` | extends `AttributeAuthority` by the control of the authority program | `examples/attribute_authority.rs` |
| `AccessManager` | policy store and query handler | `src/access_manager.rs` |
| `Publishing` | abstract: keys entered once, messages put only when both their keys can be asked for | what a producer promises to consumers |
| `KeyPair` | abstract: one pair after the other, public key first | what the authority promises to its users |
| `KeyAccess` | abstract: who learns which content key, in one step | what the delivery of keys promises |
| `KeyDelivery` | producer's handler, consumers and their caches, with the other parts by what they promise | `src/producer.rs` 111-211, `src/consumer.rs` |
| `ConsumerApp` | extends `KeyDelivery` by the control of the consumer program | `examples/consumer.rs` |
| `EndToEnd` | composes `ProducerApp` and `ConsumerApp` with the handlers and services | `tests/integration.rs`, `examples/` |
| `ProducerKeysProofs`, `AttributeAuthorityProofs`, `AccessManagerProofs`, `KeyDeliveryProofs` | theorems about the component of that name | |
| `KeyAccessProofs` | that `KeyDelivery` implements `KeyAccess`; extends `KeyDeliveryProofs` | |
| `ProducerAppProofs`, `AuthorityAppProofs` | theorems about the two programs; extend the proofs about what the programs call | |
| `EndToEndProofs` | theorems about the whole, from those about the parts | |
| `MC...` | values of the constants for TLC | |

How the modules fit together: `ProducerKeys` implements `KeyRing` and `Publishing`,
`AttributeAuthority` implements `KeyPair`; `KeyDelivery` takes the producer's and the authority's
steps from `Publishing` and `KeyPair` and in turn implements `KeyAccess`; `EndToEnd` puts the
detailed producer back in the place of `Publishing`, and `ComposesToDelivery` checks that the
result still takes only `KeyDelivery`'s steps.

Definitions called *mistaken* in the comments (`AddCkForgotten`, `UpdateMskFirst`,
`MistakenAwaits`, ...) are slips that somebody could make in the code; no specification uses
them. Each property has one that violates it when put in place of the right definition
(`PROJECT.json`, `mutants`): the property does constrain the code.

### ProducerKeys

`keys`, `currentCks` and `nextCks` are the maps of `InMemoryContentKeyStore`; `AddCk`,
`SetCurrentCk`, `SetNextCk`, `RemoveNextCk` are its operations, each one `rcu` and taken as one step
(a closure that is run again after a lost race starts from the new map; `KeyDelivery` shows the race
itself, in the consumer's cache, whose code is the same). `tasks[t]` is where
task `t` is between two store operations: `InitializeGenerate` / `InitializeSetCurrent`,
`PrepareGenerate` / `PrepareSetNext`, `RotateGetNext` / `RotateSetCurrent` /
`RotateRemoveNext`, and the publishing sequence `PublishGetCurrent` / `PublishGetNext` /
`PublishPut` with `Encrypt`. Calls that return an error (`ContentKeyNotFoundError`) change
nothing and have no action. `Id` (SHA-256) is assumed injective, and a drawn key never drawn
again. The maps of current and next keys hold pairs (id, key) whose id is always the key's
own, so only the key is kept. `elders` is history: which keys were generated before each key.

`Manages` says whose business each topic's keys are. The code does not restrict it;
`SerialManagers` (no topic has two managers) is the use the producer program makes of it, and
the condition of the second group of properties: these exclude, rather than show, that two tasks
which manage one topic disturb each other. What can happen then is shown by `producer_keys_lost_next`.

### ProducerApp

`at` is where `main` is: initialize, prepare, loop, rotate. The loop body is the publishing
sequence of `ProducerKeys`, and a put is followed by a rotation on multiples of
`RotationInterval` and then by a preparation. The sleep is left out.

### AttributeAuthority

A key pair is the number of its `setup()`. A read guard is the state "locked" of its handler,
held from the lock to the end of the loop body, that is across the reply; a writer first
joins the lock's queue (`AskLock`), waits for the guard, and holds up readers that come later
(`WriterWaiting`), as Tokio's lock does. `SkStop` is
the end of the secret-key handler by `?` or by the `unwrap` in `SecretKey::new`: the queryable
goes away and the queries it has accepted finish without a reply. A query's `form` is what the
handler tells apart in it: a wildcard key expression, no payload, an unreadable payload, an RSA
key too small for `SecretKeyLock::encrypt` (`Seals`), or none of these. Clients ask once, or again whenever they have their answer (`Repeated`), as a
producer asks for the public key for each content key it locks. `held` is history: the
attributes a query's client has had since it was sent. `AuthorityApp` adds `main`: it registers its
consumer after it has spawned both handlers, may then update the keys, as a comment in it suggests,
and joins the two tasks. It awaits each update, so that updates are serial here, and `try_join!` ends the process, public-key handler
included, when the other one fails.

### AccessManager

One queue and one handler, as in the source: receive, look the policy up, reply. A query's key
expression names a topic, contains wildcards, or is the bare prefix, which the queryable's `**`
matches and on which the handler panics (`Panic`). `inForce` is history: what the topic of
each query has had as policy, or that it had none, since the query was accepted.

### KeyDelivery

`handler` steps through `handle_content_key_query`: declare, receive, public key, key, policy,
reply or end. `reader[r]` steps through a call of task `r`: `Decrypt` starts with a cache look-up,
`Prefetch` (the fetch of the key `extract_next_ck_id` names) with the second look-up and the query;
then both wait, open and cache. `set_key` is an `rcu`: `OpenReply` sees the map of the cache, and `SetKey`
swaps it for a copy with the new key, or sees it again if another task has replaced it meanwhile
(`SeenIsCurrent`). The code compares pointers and the model the maps, which does not matter, as maps with the same
entries are interchangeable. Queries carry the task and the number of its
call, so that a late answer can be told from the answer awaited (`Awaits` is Zenoh's matching
of replies with gets). `Register` and `Publish` are actions of `Publishing`, `UpdateKeys` those of
`KeyPair`; `PolicyReply` is what `AccessManager`'s `AnswerInForce` allows. `Restart`,
`RestartManager` and `RestartAuthority` end a process with what it keeps in memory. A get may
go unanswered at any time (`MayTimeOut`). A locked key opens iff the secret key is of the same
pair and its attributes satisfy the policy; AES-GCM is authenticated, so a wrong content key is
an error and never a wrong plaintext. `asked` is history: the public key when a call sent its
query, and the policies of its topic since.

`RefinesKeyAccess` maps the caches to what consumers know and each call to "called", "asked"
or its end. `KeyAccess` then says, in one action, when a consumer may learn a key: if its
attributes satisfy a policy the topic has had since the call asked, and its secret key is not of
a pair replaced before. A key in the cache is used without asking, so a change of policy takes
effect on keys asked for afterwards only: this is what the code promises, no more.

### ConsumerApp and EndToEnd

`stage` is where the consumer program's `main` is, `inbox` its subscriber's queue. Messages arrive
in the order they were put, from the moment of subscription, and may be lost where gets may time
out. `EndToEnd` shares the variables `keys` and `published` between the producer program and the
rest; a put delivers its message. A second task may fetch announced keys ahead for the program.

## 3. Runs

| Run | Instance | Shows |
|---|---|---|
| `producer_keys_shared` | 2 topics, 3 keys, 2 tasks that call everything | `Resolvable`, `KeysStable`, `NextDiffersFromCurrent` and refinement of `Publishing`, whatever the tasks do |
| `producer_keys_owned` | 2 topics with one manager each, 4 keys, a third task that publishes | `CurrentAdvances`, `NextIdNotOlder`, `RemovesOnlyPromoted`, and refinement of `KeyRing` |
| `producer_keys_lost_next` | 1 topic, 2 managers | a violation, see below |
| `producer_app` | interval 3, 9 messages, 5 keys | `UnwrapsSucceed`, `HeaderChain`, `KeyBudget` through three rotations |
| `authority_service` | 3 queries of 2 clients, one with a key too small to reply to, the other two asked again for ever; 1 updater, 2 updates; empty attributes | `IssuedAttributesHeld`, `RepliesCurrent`, `EveryUpdateReturns`, `EveryQueryEnds`, `GoodQueryAnswered` |
| `authority_app` | 5 queries: of the program's consumer, a wildcard, without payload, unreadable; 2 updates one after the other | `KeysMatch`, `MasterKeyNotAhead`, refinement of `KeyPair`, `BothOrNone`, `RegisteredAnswered` |
| `access_manager` | 4 queries of 2 topics, a wildcard and a bare prefix, 2 policies | `AnswerInForce`, `DeniedOnlyWithoutPolicy`, `EveryQueryEnds` |
| `delivery_access` | 2 tasks of one consumer, 1 call each, 2 policies of which one is not satisfied, an update, restarts | `LockNotOlder`, `LockedUnderPolicyInForce`, refinement of `KeyAccess` |
| `delivery_cache` | 2 tasks of one consumer that copy and swap its cache, 2 keys that announce each other, 2 calls each, restarts | `CacheCorrect`, `NoWrongKey`, `CacheKept` |
| `delivery_returns` | 2 consumers, 2 topics, malformed policies, incomplete headers, probes, restarts | `EveryCallReturns` |
| `end_to_end_ready` | the handler's queryable declared; 5 messages, rotation every 2, 4 keys, a task that fetches ahead | `NeverEnds`, `ComposesToDelivery`, `AllReceivedDecrypted` |
| `end_to_end_faults` | 4 messages, losses, time-outs, changed and malformed policies, an update, restarts | `NothingSkipped`, `AccessErrorMeansOutdated` |

**The bounds.** The properties of keys relate at most two keys of a topic to a third (current,
next and the one before), and interleave one manager with another task: three or four keys,
two topics and two or three tasks make every pair of operations meet. `MaxPublished` stops new
publishing after one message: a message is a record of what was read, and does not influence
later steps. Nine messages at interval three run through three rotations. Two
updates give three generations of the authority's keys, so that an update can find the one before
it in the hands of the handlers; more than one updater is left to `RepliesCurrentCorrect`, which
holds for any number. In the runs of `KeyDelivery`, two calls per task let the answer of the first
arrive in the second; the locks and `KeyAccess` concern one call and one key at a time, and two
tasks with one key let one task learn what another asks for. Only what queues at the handler needs
two topics, in `delivery_returns`: a policy that does not parse ends it for both. Five messages at
interval two, in the end-to-end runs, meet two rotations, as the integration test's five at
interval three meet one. Keys are compared for equality only: runs without liveness properties and
with several keys use their symmetry, and the end-to-end runs draw them in one order (`InOrder`). Deadlock is
not checked in the runs of `ProducerKeys`, `ProducerApp`, `AuthorityApp` and `EndToEnd`: there the system stops
when the keys, the queries or the messages of the instance are used up, or a program has ended.

**Fairness.** Tokio polls every task that can proceed and its locks are fair, so each handler
and each started call is weakly fair (`WF`). Nobody is obliged to publish, register, update,
change a policy or call anything; no time-out has to happen. `EveryUpdateReturns` rests on the write
preference of the lock and not on readers staying away: in its run one public key and one secret key
are asked for again and again, and with a lock that prefers its readers (`ReadersPass`) an update never
gets its turn. `EveryCallReturns` holds although the handler may end with the query in its hands. In `AuthorityApp`
`main` is one more task that runs; whether it updates its keys or goes on to join is its choice.
In `EndToEnd` the handler, the consumer program and its call are fair; the producer program is not, since
nothing depends on it once a message is received.

**The violation.** `producer_keys_lost_next` shows that `rotate_content_key` can remove a key it
has not promoted: task *a* rotates and has set the current key; task *b* prepares a next key and
is told its id; *a* now removes "the" next key, which is *b*'s. The topic then has no next key, and the
next rotation fails. The program in `examples/` has one managing task and cannot meet this;
`RemovesOnlyPromotedCorrect` and `RefinesKeyRingCorrect` prove that one manager per topic is
enough to exclude it.

## 4. Proofs

The theorems hold for every value of the constants: any topics, keys, consumers, tasks, queries,
policies, generations, intervals and numbers of messages. The assumptions on constants are the
`ASSUME`s of the modules: SHA-256 is injective, `None` is nothing else, and the constants are of
their types. Each module has one inductive invariant, a conjunction of named parts, and one lemma
per action, or group of alike actions, that preserves it; the safety theorems are its consequences.
A second invariant is used where properties need an assumption (`SerialManagers`, `SerialUpdates`).

**`ProducerKeysProofs`**

* `TypeCorrect`, `ResolvableCorrect`, `NextDiffersCorrect`, `KeysStableCorrect`,
  `RefinesPublishingCorrect`.
  `Resolvable` is not inductive: nothing in it says that the keys in the slots and in the hands of
  tasks are registered. The invariant `Inv` adds `TaskHolds` (what each task has read is
  registered), `SlotsKnown` (so is what the slots hold), `HeadersKnown` (the same for messages),
  and, for `NextDiffersFromCurrent`, `GeneratedPrivate`: a key that was generated and not yet installed is
  in no slot and in no other task's hands.
* Assuming `SerialManagers`: `RemovesOnlyPromotedCorrect` and `RefinesKeyRingCorrect`. The
  invariant `Owned` says that a task at work on a topic is its only manager, so that the slot it
  read is still as it was. Under the mapping a rotation takes effect at `RotateSetCurrent`; the
  removal that follows is a stutter.
* Assuming `SerialManagers`, and that a topic is initialized before anything else (not
  `InitializeAnyTime`): `CurrentAdvancesCorrect` and `NextIdNotOlderCorrect`. Without the second assumption
  both are false, as a topic initialized again gets a current key newer than the next one it keeps.
  The invariant `InOrder` follows the order of generation through the system: the next key
  is newer than the current one, a task that publishes holds a key not newer than the
  current one, and the id it reads next names one not older.

**`ProducerAppProofs`**: `UnwrapsSucceedCorrect`, `HeaderChainCorrect`, `KeyBudgetCorrect`. Every step
of the program is one of `ProducerKeys`, so that its `Inv` holds; `MainAt` adds what `main`
knows of the two slots at each place of the loop. For `HeaderChain` the invariant says what the last message
announced at each place (`LastMessage`); for `KeyBudget`, that the next key has encrypted nothing yet
and the current one as many messages as were put since the last rotation.

**`AttributeAuthorityProofs`**

* `TypeCorrect`, `RepliesCurrentCorrect`, `IssuedAttributesHeldCorrect`. The second rests on
  `GuardedKeys`: while a handler holds its guard, the key it has copied is in force. The third needs
  that each query in the queue is there once and not also in hand (`QueueWaiting`), that what a
  waiting query's client is registered with now has been noted (`RegisteredHeld`), and that the
  attributes in hand are among those (`InHand`).
* Assuming `SerialUpdates`: `KeysMatchCorrect`, `MasterKeyNotAheadCorrect` and `RefinesKeyPairCorrect`,
  from `Serial`: the update under way holds the last pair drawn, the successor of the one before, and
  how far it has got determines which of the two keys is still of the pair before.

**`AuthorityAppProofs`**: `IssuedAttributesHeld`, `KeysMatch`, `MasterKeyNotAhead` and `RefinesKeyPair`
again, of the program. Each of its steps is one of `AttributeAuthority`, except `TryJoin`: the end of
the process takes the handler of public keys away, which is no step of the component, and is
shown to preserve both invariants.

**`AccessManagerProofs`**: `TypeCorrect`, `AnswerInForceCorrect`, `DeniedOnlyWithoutPolicyCorrect`. The
invariant has the same shape as the authority's: each query is in the queue once or in hand
(`QueueWaiting`), what its topic has now, be it no policy, has been noted (`ForceNoted`), and what has
been looked up is among it (`InHand`).

**`KeyDeliveryProofs`**: `TypeCorrect`, `CacheCorrectCorrect`, `NoWrongKeyCorrect`, `LockNotOlderCorrect`,
`LockedUnderPolicyInForceCorrect`, `CacheKeptCorrect`, with every fault at any time. None of the four
invariants is inductive, since a reply is correct only if the query in hand, what was looked up for
it, and the call that waits are in agreement. `Inv` says so: a query in the queue or in hand was
sent by the present call of its task, for the id this call is for, or by an earlier
one (`QueriesSent`); what the handler has looked up is what the store has (`HandlerHolds`); a call is for an
id that its message names (`CallNamed`), and for `decrypt` the key of its body (`HeadersOfTopic`); what
the handler has got for a call that still waits is no older than what was noted when the call asked
(`HandlerNotOlder`); a call about to cache a key holds a reply that it could open (also `CallNamed`), and swaps the
map only for a copy of the one it has seen, which gives `CacheKept`. A `Restart` ends handler, queue and store together, which
is why these survive it.

**`KeyAccessProofs`**: `RefinesKeyAccessCorrect`. A step of the handler or of a service is a stutter or,
with a change of policy or keys, the same change in `KeyAccess`; the swap of the cache that
follows the opening of a lock is `KeyAccess`'s step by which a consumer learns a key, and `Inv` supplies its guard.

**`EndToEndProofs`**

* `ComposesToDeliveryCorrect`: each step of the whole is one of `KeyDelivery`. It instantiates
  `ProducerAppProofs` with the producer program of `EndToEnd` (`AppProofs`; `AppAssumptions` shows that
  the constants it is given are as the proofs there assume, `SameProgram` that the two instances are one
  program) and takes the step of `Publishing` from there. The invariant `SystemInv` therefore contains `Inv` of
  `KeyDeliveryProofs` and `AppInv` of `ProducerAppProofs`.
* `NothingSkippedCorrect`: `Samples` says that the output followed by the inbox is what was received (a sample
  leaves the inbox when it is decrypted), `InHand` that the inbox is not empty while one is in hand.
* `AccessErrorCorrect`: with `ErrorsExplained` (a call that could not open its lock had
  an outdated secret key or met a policy it does not satisfy) and `RepliesNotAhead` (no lock is under
  a public key not yet in force).
* `NeverEndsCorrect`: no message, rotation or key fetched ahead ever ends the consumer program, if (`Setting`) no get times
  out, nothing restarts or is updated, the producer's handler has declared its queryable before the first
  message (`ReadyInit`; the producer program does not wait for it, and a consumer that asks before gets
  `NoContentKeyFound`), and all topics have one policy from the start which all consumers satisfy,
  as in `tests/integration.rs`. `ReadyInv` adds to `SystemInv` that every
  query is for a key in the store (`Serving`), that no call has ended in an error (`Calm`), and what the program is
  about to do (`Running`).

All promises the modules build on, `Publishing`, `KeyRing`, `KeyPair`, `KeyAccess` and `AnswerInForce`, are thus proved for
every instance (`KeyRing` and `KeyPair` under the assumptions named), and so is every invariant and
action property of the runs.

**Only model-checked** are the liveness properties, which the prover cannot treat:
`EveryUpdateReturns`, both `EveryQueryEnds`, `GoodQueryAnswered`, `BothOrNone`, `RegisteredAnswered`,
`EveryCallReturns` and `AllReceivedDecrypted`.

## 5. Not modelled

* Encodings, AES-GCM, RSA, rabe's AC17: by what they do (see section 2), never as bytes.
* Errors of Zenoh, OpenSSL or postcard on well-formed data: they end a call or a handler like the
  errors modelled.
* Attacks on the protocol, and consumers that lie about their identity: the model has honest parties.
* The growth of the producer's map and of the cache: nothing in the code bounds either.
* `update_abe_keys` called by two tasks at once can leave the two keys of different pairs; nothing
  in the repository calls it that way, and `KeysMatch` is stated for updates made one at a time.
* Reordering of messages between a publisher and a subscriber: Zenoh delivers them in order or not at
  all; and several producers under one prefix, which the key expressions do not provide for.
* Configuration, key generation, and the access-manager program, which sets a policy and runs the
  handler `AccessManager` models.

## 6. Plan

Done: the modules above in their order (keys, program, authority and its program, access manager,
delivery, composition), their runs, and the proofs of section 4: the components first, then their refinements and
programs, then the whole.

Next: the safety halves of what is only model-checked. `EveryQueryEnds` and `EveryCallReturns` rest on facts
that are invariants (a waiting query is in the queue or in hand; the handler that can end it is not
stopped), which can be stated and proved, while the step from them to the liveness properties stays with TLC.
