---------------------------- MODULE EndToEndProofs ----------------------------
(***************************************************************************)
(* Theorems about the system as a whole, for any numbers of topics, keys,  *)
(* messages and consumers and any rotation interval.  They rest on those   *)
(* about the parts: the invariant of the producer program                  *)
(* (ProducerAppProofs) and that of the delivery of keys                    *)
(* (KeyDeliveryProofs), which holds here because every step of the system  *)
(* is one of KeyDelivery.                                                  *)
(***************************************************************************)
EXTENDS EndToEnd, KeyDeliveryProofs

\* The producer program again, with what is proved about it.
AppProofs == INSTANCE ProducerAppProofs WITH
    Tasks <- {"main"}, Main <- "main", Manages <- [t \in {"main"} |-> Topics],
    InitializeAnyTime <- TRUE, MaxPublished <- MaxMessages,
    tasks <- producerTasks, at <- producerAt
-----------------------------------------------------------------------------
(* The producer program in the system is the one ProducerAppProofs is       *)
(* about, and the constants it has here are as the proofs there assume.     *)

LEMMA AppAssumptions ==
  /\ \A k, l \in Keys : Id(k) = Id(l) => k = l
  /\ None \notin Keys /\ None \notin Topics
  /\ None \notin [topic : Topics, ck : Keys]
  /\ \A k \in Keys : Id(k) # None
  /\ [t \in {"main"} |-> Topics] \in [{"main"} -> SUBSET Topics]
  /\ TRUE \in BOOLEAN /\ MaxMessages \in Nat
  /\ "main" \in {"main"}
  /\ ContentTopic \in Topics
  /\ ContentTopic \in [t \in {"main"} |-> Topics]["main"]
  /\ RotationInterval \in Nat \ {0}
<1>1. None \notin [topic : Topics, ck : Keys]
  BY NoneAssumption DEF Entries
<1>2. \A k \in Keys : Id(k) # None
  BY IdTypes
<1> QED
  BY <1>1, <1>2, IdInjective, NoneAssumption, SystemAssumption

LEMMA SameCardinality ==
  \A S : App!Cardinality(S) = AppProofs!Cardinality(S)
  BY DEF App!Cardinality, AppProofs!Cardinality

LEMMA SameGenerate ==
  \A tp, op : App!GenerateContentKey("main", tp, op)
                 = AppProofs!GenerateContentKey("main", tp, op)
  BY
  DEF App!GenerateContentKey, AppProofs!GenerateContentKey, App!Idle,
      AppProofs!Idle, App!AddCk, AppProofs!AddCk, App!Fresh,
      AppProofs!Fresh, App!CkIds, AppProofs!CkIds

LEMMA SameWrites ==
  /\ App!InitializeSetCurrent("main") => AppProofs!InitializeSetCurrent("main")
  /\ App!PrepareSetNext("main") => AppProofs!PrepareSetNext("main")
  /\ App!RotateSetCurrent("main") => AppProofs!RotateSetCurrent("main")
  /\ App!RotateRemoveNext("main") => AppProofs!RotateRemoveNext("main")
  BY
  DEF App!InitializeSetCurrent, AppProofs!InitializeSetCurrent,
      App!PrepareSetNext, AppProofs!PrepareSetNext, App!RotateSetCurrent,
      AppProofs!RotateSetCurrent, App!RotateRemoveNext,
      AppProofs!RotateRemoveNext, App!SetCurrentCk,
      AppProofs!SetCurrentCk, App!SetNextCk, AppProofs!SetNextCk,
      App!RemoveNextCk, AppProofs!RemoveNextCk, App!Idle, AppProofs!Idle,
      App!storeVars, AppProofs!storeVars

LEMMA SameReads ==
  /\ \A tp : App!RotateGetNext("main", tp) => AppProofs!RotateGetNext("main", tp)
  /\ \A tp : App!PublishGetCurrent("main", tp)
                => AppProofs!PublishGetCurrent("main", tp)
  /\ App!PublishGetNext("main") => AppProofs!PublishGetNext("main")
  /\ App!PublishPut("main") => AppProofs!PublishPut("main")
  BY SameCardinality
  DEF App!RotateGetNext, AppProofs!RotateGetNext, App!PublishGetCurrent,
      AppProofs!PublishGetCurrent, App!PublishGetNext,
      AppProofs!PublishGetNext, App!PublishPut, AppProofs!PublishPut,
      App!NextId, AppProofs!NextId, App!Encrypt, AppProofs!Encrypt,
      App!Idle, AppProofs!Idle, App!storeVars, AppProofs!storeVars

LEMMA SameProgram ==
  /\ App!AppInit => AppProofs!AppInit
  /\ App!AppNext => AppProofs!AppNext
<1>1. App!AppInit => AppProofs!AppInit
  BY
  DEF App!AppInit, AppProofs!AppInit, App!Init, AppProofs!Init, App!CkIds,
      AppProofs!CkIds, App!Idle, AppProofs!Idle
<1>2. App!InitializeKey => AppProofs!InitializeKey
  BY SameGenerate, SameWrites
  DEF App!InitializeKey, AppProofs!InitializeKey, App!InitializeGenerate,
      AppProofs!InitializeGenerate
<1>3. App!PrepareKey => AppProofs!PrepareKey
  BY SameGenerate, SameWrites
  DEF App!PrepareKey, AppProofs!PrepareKey, App!PrepareGenerate,
      AppProofs!PrepareGenerate
<1>4. App!PublishMessage => AppProofs!PublishMessage
  BY SameReads
  DEF App!PublishMessage, AppProofs!PublishMessage, App!AfterPut,
      AppProofs!AfterPut, App!RotationDue, AppProofs!RotationDue,
      App!Encrypt, AppProofs!Encrypt, App!appVars, AppProofs!appVars
<1>5. App!RotateKey => AppProofs!RotateKey
  BY SameReads, SameWrites
  DEF App!RotateKey, AppProofs!RotateKey, App!AfterRotation,
      AppProofs!AfterRotation
<1> QED
  BY <1>1, <1>2, <1>3, <1>4, <1>5 DEF App!AppNext, AppProofs!AppNext
-----------------------------------------------------------------------------
(* What a step of the producer program is to the rest of the system.       *)

LEMMA AppFacts ==
  ASSUME AppProofs!AppInv
  PROVE  /\ keys \in [CkIds -> Entries \cup {None}]
         /\ published \subseteq Messages
         /\ sent \in Seq(Messages)
         /\ producerTasks \in [{"main"} -> AppProofs!TaskStates]
         /\ \A m \in published :
               /\ m.ckId = Id(m.body) /\ keys[m.ckId] # None
               /\ m.nextId # None => keys[m.nextId] # None
         /\ producerTasks["main"] # AppProofs!Idle =>
               LET task == producerTasks["main"]
                   Has(k) == k \in Keys /\ Producer!Registered(k, task.topic)
               IN  /\ task.topic \in Topics /\ Has(task.ck)
                   /\ task.next # None => \E k \in Keys : task.next = Id(k) /\ Has(k)
<1>1. /\ AppProofs!TypeOK /\ AppProofs!TaskHolds /\ AppProofs!HeadersKnown
      /\ AppProofs!AppTypeOK
  BY DEF AppProofs!AppInv, AppProofs!Inv
<1>2. CkIds = AppProofs!CkIds /\ Messages = AppProofs!Messages
      /\ Entries = AppProofs!Entries
  BY IdTypes DEF AppProofs!CkIds, AppProofs!Messages, Entries, AppProofs!Entries
<1>3. \A tp \in Topics : AppProofs!Known[tp]
         = {k \in Keys : Producer!Registered(k, tp)}
  BY DEF AppProofs!Known, AppProofs!Registered, Producer!Registered
<1>4. \A k \in Keys, tp \in Topics :
         Producer!Registered(k, tp) => keys[Id(k)] # None
  BY NoneAssumption DEF Producer!Registered, Entries
<1>5. /\ keys \in [CkIds -> Entries \cup {None}]
      /\ published \subseteq Messages
      /\ producerTasks \in [{"main"} -> AppProofs!TaskStates]
  BY <1>1, <1>2 DEF AppProofs!TypeOK
<1>6. sent \in Seq(Messages)
  BY <1>1, <1>2 DEF AppProofs!AppTypeOK
<1>7. ASSUME NEW m \in published
      PROVE  /\ m.ckId = Id(m.body) /\ keys[m.ckId] # None
             /\ m.nextId # None => keys[m.nextId] # None
  <2>1. m.topic \in Topics
    BY <1>5, IdTypes
  <2> QED
    BY <2>1, <1>1, <1>3, <1>4 DEF AppProofs!HeadersKnown
<1>8. producerTasks["main"] # AppProofs!Idle =>
         LET task == producerTasks["main"]
             Has(k) == k \in Keys /\ Producer!Registered(k, task.topic)
         IN  /\ task.topic \in Topics /\ Has(task.ck)
             /\ task.next # None => \E k \in Keys : task.next = Id(k) /\ Has(k)
  BY <1>1, <1>3 DEF AppProofs!TaskHolds
<1> QED
  BY <1>5, <1>6, <1>7, <1>8

\* It adds a key, puts a message, or leaves the store and the network alone.
LEMMA ProducerStep ==
  ASSUME AppProofs!AppInv, AppProofs!AppNext
  PROVE  \/ /\ sent' = sent
            /\ \E k \in Keys :
                  /\ Producer!Register(k, ContentTopic)
                  /\ \A m \in published : Id(k) \notin {m.ckId, m.nextId}
         \/ \E m \in Messages :
               Producer!Publish(m) /\ sent' # sent /\ sent'[Len(sent')] = m
         \/ UNCHANGED <<keys, published, sent>>
<1>1. ASSUME NEW op, AppProofs!GenerateContentKey("main", ContentTopic, op)
      PROVE  \E k \in Keys :
                /\ Producer!Register(k, ContentTopic)
                /\ \A m \in published : Id(k) \notin {m.ckId, m.nextId}
  <2>1. PICK k \in Keys : /\ keys[Id(k)] = None
                          /\ keys' = AppProofs!AddCk(k, ContentTopic)
                          /\ published' = published
    BY <1>1 DEF AppProofs!GenerateContentKey, AppProofs!Fresh
  <2>2. Producer!Register(k, ContentTopic)
    BY <2>1 DEF Producer!Register, AppProofs!AddCk
  <2>3. Id(k) # None
    BY AppAssumptions
  <2> QED
    BY <2>1, <2>2, <2>3, AppFacts
<1>2. ASSUME AppProofs!PublishPut("main"),
             sent' = Append(sent, AppProofs!Encrypt(ContentTopic,
                         producerTasks["main"].ck, producerTasks["main"].next)),
             producerAt = "loop"
      PROVE  \E m \in Messages :
                Producer!Publish(m) /\ sent' # sent /\ sent'[Len(sent')] = m
  <2> DEFINE task == producerTasks["main"]
             m == [topic |-> ContentTopic, ckId |-> Id(task.ck),
                   nextId |-> task.next, body |-> task.ck]
  <2>1. task.op = "put" /\ task # AppProofs!Idle
    BY <1>2 DEF AppProofs!PublishPut, AppProofs!Idle
  <2>2. task.topic = ContentTopic
    BY <2>1 DEF AppProofs!AppInv, AppProofs!MainAt, AppProofs!MainTask
  <2>3. /\ task.ck \in Keys /\ Producer!Registered(task.ck, ContentTopic)
        /\ task.next # None =>
              \E k \in Keys : task.next = Id(k)
                                 /\ Producer!Registered(k, ContentTopic)
    BY <2>1, <2>2, AppFacts
  <2>4. m \in Messages
    BY <2>3, IdTypes, SystemAssumption
  <2>5. published' = published \cup {m} /\ keys' = keys /\ sent' = Append(sent, m)
    BY <1>2, <2>2
    DEF AppProofs!PublishPut, AppProofs!Encrypt, AppProofs!storeVars
  <2>6. Producer!Publish(m)
    BY <2>3, <2>5 DEF Producer!Publish
  <2> HIDE DEF m
  <2>7. sent' # sent /\ sent'[Len(sent')] = m
    BY <2>4, <2>5, AppFacts
  <2> QED
    BY <2>4, <2>6, <2>7
<1>3. CASE AppProofs!InitializeKey
  BY <1>1, <1>3
  DEF AppProofs!InitializeKey, AppProofs!InitializeGenerate,
      AppProofs!InitializeSetCurrent
<1>4. CASE AppProofs!PrepareKey
  BY <1>1, <1>4
  DEF AppProofs!PrepareKey, AppProofs!PrepareGenerate, AppProofs!PrepareSetNext
<1>5. CASE AppProofs!PublishMessage
  BY <1>2, <1>5
  DEF AppProofs!PublishMessage, AppProofs!PublishGetCurrent,
      AppProofs!PublishGetNext, AppProofs!storeVars, AppProofs!appVars
<1>6. CASE AppProofs!RotateKey
  BY <1>6
  DEF AppProofs!RotateKey, AppProofs!RotateGetNext, AppProofs!RotateSetCurrent,
      AppProofs!RotateRemoveNext, AppProofs!storeVars
<1> QED
  BY <1>3, <1>4, <1>5, <1>6 DEF AppProofs!AppNext
-----------------------------------------------------------------------------
(* What the consumer program holds, and why opening a reply fails.         *)

\* What the subscriber was given is what was decrypted and what waits, and
\* what waits has been published.
Samples ==
    /\ inbox \in Seq(Messages) /\ output \in Seq(Messages)
    /\ received = output \o inbox
    /\ \A i \in 1..Len(inbox) : inbox[i] \in published

\* A sample is in hand from the moment it is received until it is decrypted.
InHand == stage \in {"key", "decrypt", "await"} => inbox # <<>>

Failed == "FailedToDecryptContentKey"

Outdated(r) ==
    \/ reader[r].sk < pk
    \/ \E pol \in asked[r].policies \cap Policies :
          ~ Satisfies(Attributes[Owner[r]], pol)

ErrorsExplained ==
    \A r \in Readers : reader[r].result = Failed =>
        reader[r].at = "idle" /\ reader[r].sk \in Nat /\ Outdated(r)

RepliesNotAhead ==
    \A r \in Readers : reader[r].at = "replied" => reader[r].reply.pk <= pk

SystemInv ==
    /\ Inv /\ AppProofs!AppInv
    /\ Samples /\ InHand /\ ErrorsExplained /\ RepliesNotAhead
-----------------------------------------------------------------------------
(* Every step of the system is one of KeyDelivery.                         *)

LEMMA HeadPublished ==
  ASSUME Samples, inbox # <<>>
  PROVE  Head(inbox) \in published /\ Head(inbox) \in Messages
  BY DEF Samples

LEMMA ProducerComposes ==
  ASSUME SystemInv, RunProducer
  PROVE  [Next]_vars
<1>1. AppProofs!AppInv /\ AppProofs!AppNext
  BY SameProgram DEF SystemInv, RunProducer
<1>2. UNCHANGED <<authorityVars, policy, handler, queue, consumerVars, asked>>
  BY DEF RunProducer
<1>3. ASSUME NEW k \in Keys, Producer!Register(k, ContentTopic),
             \A m \in published : Id(k) \notin {m.ckId, m.nextId}
      PROVE  Next
  <2>1. Register(k, ContentTopic)
    BY <1>2, <1>3 DEF Register
  <2> QED
    BY <2>1, SystemAssumption DEF Next
<1>4. ASSUME NEW m \in Messages, Producer!Publish(m)
      PROVE  Next
  <2>1. Publish(m)
    BY <1>2, <1>4 DEF Publish
  <2> QED
    BY <2>1, SystemAssumption DEF Next
<1>5. ASSUME UNCHANGED <<keys, published>>
      PROVE  UNCHANGED vars
  BY <1>2, <1>5 DEF vars, authorityVars, consumerVars
<1> QED
  BY <1>1, <1>3, <1>4, <1>5, ProducerStep

LEMMA ConsumerComposes ==
  ASSUME SystemInv, RunConsumer
  PROVE  [Next]_vars
<1>1. ASSUME GetSecretKey(Owner[Program])
      PROVE  Next
  BY <1>1, ProgramAssumption, OwnerAssumption DEF Next
<1>2. CASE StartDecrypt
  <2>1. Head(inbox) \in published
    BY <1>2, HeadPublished DEF StartDecrypt, SystemInv, InHand
  <2>2. Call(Program, Head(inbox))
    BY <1>2, SystemAssumption DEF StartDecrypt, Call
  <2> QED
    BY <2>1, <2>2, ProgramAssumption DEF Next
<1>3. CASE Connect \/ Subscribe \/ Receive \/ RetryKey \/ FinishDecrypt
  BY <1>1, <1>3 DEF Connect, Subscribe, Receive, RetryKey, FinishDecrypt
<1>4. ASSUME NEW r \in Readers, Run(r)
      PROVE  Next
  BY <1>4 DEF Next
<1>5. ASSUME NEW r \in Readers, NEW m \in published, Prefetch(r, m)
      PROVE  Next
  BY <1>5 DEF Next, Call
<1> QED
  BY <1>2, <1>3, <1>4, <1>5 DEF RunConsumer, RunProgram

LEMMA StepComposes ==
  ASSUME SystemInv, [SystemNext]_allVars
  PROVE  [Next]_vars
<1>1. RunServices => Next
  BY DEF RunServices, Next
<1>2. UNCHANGED allVars => UNCHANGED vars
  BY DEF allVars
<1> QED
  BY <1>1, <1>2, ProducerComposes, ConsumerComposes DEF SystemNext
-----------------------------------------------------------------------------
(* The invariant of the producer program is not disturbed by the others.   *)

LEMMA HandlerLeavesStore == HandleCk => UNCHANGED <<keys, published>>
  BY DEF HandleCk, CkDeclare, CkReceive, CkGetPublicKey, CkLookUp, CkGetPolicy,
         CkReply, CkFail

LEMMA OthersLeaveStore == Others => UNCHANGED <<keys, published>>
  BY DEF Others, UpdateKeys, SetPolicy, RestartManager, NewPolicies,
         RestartAuthority, Probe, TimeOut, producerVars

LEMMA ConsumerLeavesStore ==
  /\ \A c : GetSecretKey(c) => UNCHANGED <<keys, published>>
  /\ \A r, m, form : Decrypt(r, m, form) => UNCHANGED <<keys, published>>
  /\ \A r, m : Prefetch(r, m) => UNCHANGED <<keys, published>>
  /\ \A r : Run(r) => UNCHANGED <<keys, published>>
  BY DEF GetSecretKey, Decrypt, Prefetch, StartCall, Run, LookUp, Fetch,
         OpenReply, SetKey, producerVars

LEMMA ProgramLeavesStore == RunProgram => UNCHANGED <<keys, published>>
  BY ConsumerLeavesStore
  DEF RunProgram, Connect, Subscribe, Receive, RetryKey, StartDecrypt,
      FinishDecrypt, vars

LEMMA AppNextKeeps ==
  AppProofs!AppInv /\ AppProofs!AppNext => AppProofs!AppInv'
  BY AppAssumptions, AppProofs!AppNextInv

LEMMA AppStutterKeeps ==
  AppProofs!AppInv /\ UNCHANGED <<AppProofs!vars, AppProofs!appVars>>
     => AppProofs!AppInv'
  BY AppAssumptions, AppProofs!AppNextInv

LEMMA AppInvKept ==
  ASSUME SystemInv, [SystemNext]_allVars
  PROVE  AppProofs!AppInv'
<1>1. CASE RunProducer
  <2>1. AppProofs!AppNext
    BY <1>1, SameProgram DEF RunProducer
  <2> QED
    BY <2>1, AppNextKeeps DEF SystemInv
<1>2. ASSUME UNCHANGED <<keys, published, appVars>>
      PROVE  AppProofs!AppInv'
  <2>1. UNCHANGED <<AppProofs!vars, AppProofs!appVars>>
    BY <1>2 DEF appVars, AppProofs!vars, AppProofs!appVars
  <2> QED
    BY <2>1, AppStutterKeeps DEF SystemInv
<1>3. RunConsumer => UNCHANGED <<keys, published, appVars>>
  BY ConsumerLeavesStore, ProgramLeavesStore DEF RunConsumer
<1>4. RunServices => UNCHANGED <<keys, published, appVars>>
  BY HandlerLeavesStore, OthersLeaveStore DEF RunServices
<1>5. UNCHANGED allVars => UNCHANGED <<keys, published, appVars>>
  BY DEF allVars, vars
<1> QED
  BY <1>1, <1>2, <1>3, <1>4, <1>5 DEF SystemNext
-----------------------------------------------------------------------------
(* What the subscriber is given is decrypted in order.                     *)

LEMMA Enqueued ==
  ASSUME Samples, NEW m \in Messages, m \in published', Enqueue(m),
         published \subseteq published', output' = output
  PROVE  Samples'
<1>1. /\ inbox \in Seq(Messages) /\ output \in Seq(Messages)
      /\ received = output \o inbox
      /\ inbox' = Append(inbox, m) /\ received' = Append(received, m)
  BY DEF Samples, Enqueue
<1>2. inbox' \in Seq(Messages) /\ output' \in Seq(Messages)
  BY <1>1
<1>3. Append(output \o inbox, m) = output \o Append(inbox, m)
  <2> DEFINE a == Append(output \o inbox, m)
             b == output \o Append(inbox, m)
  <2>1. a \in Seq(Messages) /\ b \in Seq(Messages) /\ Len(a) = Len(b)
    BY <1>1
  <2>2. ASSUME NEW i \in 1..Len(a)
        PROVE  a[i] = b[i]
    BY <1>1
  <2>3. a = b
    <3> HIDE DEF a, b
    <3> QED
      BY <2>1, <2>2
  <2> QED
    BY <2>3
<1>4. \A i \in 1..Len(inbox') : inbox'[i] \in published'
  BY <1>1 DEF Samples
<1> QED
  BY <1>1, <1>2, <1>3, <1>4 DEF Samples

LEMMA Dequeued ==
  ASSUME Samples, inbox # <<>>, published' = published, received' = received,
         output' = Append(output, Head(inbox)), inbox' = Tail(inbox)
  PROVE  Samples'
<1>1. /\ inbox \in Seq(Messages) /\ output \in Seq(Messages)
      /\ received = output \o inbox
  BY DEF Samples
<1>2. inbox' \in Seq(Messages) /\ output' \in Seq(Messages)
  BY <1>1
<1>3. Append(output, Head(inbox)) \o Tail(inbox) = output \o inbox
  BY <1>1
<1>4. \A i \in 1..Len(inbox') : inbox'[i] \in published'
  BY <1>1 DEF Samples
<1> QED
  BY <1>1, <1>2, <1>3, <1>4 DEF Samples

LEMMA SamplesUndisturbed ==
  ASSUME Samples, published \subseteq published',
         UNCHANGED <<inbox, received, output>>
  PROVE  Samples'
  BY DEF Samples

LEMMA SamplesKept ==
  ASSUME SystemInv, [SystemNext]_allVars
  PROVE  Samples' /\ InHand'
<1>1. Samples /\ InHand
  BY DEF SystemInv
<1>2. CASE RunProducer
  <2>1. AppProofs!AppInv /\ AppProofs!AppNext
    BY <1>2, SameProgram DEF SystemInv, RunProducer
  <2>2. UNCHANGED <<stage, output>>
    BY <1>2 DEF RunProducer
  <2>3. published \subseteq published'
    BY <2>1, ProducerStep DEF Producer!Register, Producer!Publish
  <2>4. CASE UNCHANGED <<inbox, received>>
    BY <1>1, <2>2, <2>3, <2>4, SamplesUndisturbed DEF InHand
  <2>5. CASE sent' # sent /\ Enqueue(sent'[Len(sent')])
    <3>1. PICK m \in Messages : Producer!Publish(m) /\ sent'[Len(sent')] = m
      BY <2>1, <2>5, ProducerStep
    <3>2. m \in published' /\ Enqueue(m)
      BY <2>5, <3>1 DEF Producer!Publish
    <3>3. InHand'
      BY <1>1, <2>2, <3>2 DEF InHand, Enqueue, Samples
    <3> QED
      BY <1>1, <2>2, <2>3, <3>2, <3>3, Enqueued
  <2> QED
    BY <1>2, <2>4, <2>5 DEF RunProducer, Deliver
<1>3. CASE RunConsumer
  <2>1. UNCHANGED <<keys, published>>
    BY <1>3, ConsumerLeavesStore, ProgramLeavesStore DEF RunConsumer
  <2>2. CASE UNCHANGED <<inbox, received, output>>
    <3>1. InHand'
      BY <1>1, <1>3, <2>2
      DEF InHand, RunConsumer, programVars, RunProgram, Connect, Subscribe,
          Receive, RetryKey, StartDecrypt, FinishDecrypt, EndOnError
    <3> QED
      BY <1>1, <2>1, <2>2, <3>1, SamplesUndisturbed
  <2>3. CASE /\ stage = "await" /\ stage' = "receive" /\ received' = received
             /\ output' = Append(output, Head(inbox)) /\ inbox' = Tail(inbox)
    BY <1>1, <2>1, <2>3, Dequeued DEF InHand
  <2> QED
    BY <1>3, <2>2, <2>3
    DEF RunConsumer, programVars, RunProgram, Connect, Subscribe, Receive,
        RetryKey, StartDecrypt, FinishDecrypt, EndOnError
<1>4. CASE RunServices \/ UNCHANGED allVars
  <2>1. UNCHANGED <<published, stage, inbox, received, output>>
    BY <1>4, HandlerLeavesStore, OthersLeaveStore
    DEF RunServices, allVars, vars, programVars
  <2> QED
    BY <1>1, <2>1, SamplesUndisturbed DEF InHand
<1> QED
  BY <1>2, <1>3, <1>4 DEF SystemNext

-----------------------------------------------------------------------------
(* Why opening a reply fails.                                              *)

\* What a step may do to a call that is not on its way to an error.
Quiet(t, u) ==
    \/ u = t
    \/ u.result # Failed /\ u.at # "replied"
    \/ t.at # "idle" /\ u.at \notin {"idle", "replied"} /\ u.result = t.result

\* The handler's reply arrives, or turns out not to open.
Replied(r) ==
    /\ reader[r].at = "waiting"
    /\ reader'[r].at = "replied" /\ reader'[r].result = reader[r].result
    /\ reader'[r].reply.pk <= pk

NotOpened(r) ==
    /\ reader[r].at = "replied"
    /\ ~ Opens(Owner[r], reader[r].sk, reader[r].reply)
    /\ reader'[r].at = "idle" /\ reader'[r].sk = reader[r].sk
    /\ UNCHANGED <<asked, pk>>

LEMMA ReturnedQuiet ==
  ASSUME NEW r \in Readers, reader \in [Readers -> Tasks], NEW q \in Readers,
         NEW result, result # Failed, Return(q, result)
  PROVE  Quiet(reader[r], reader'[r])
<1>1. reader[r] \in Tasks
  OBVIOUS
<1>2. /\ [reader[r] EXCEPT !.at = "idle", !.result = result].at = "idle"
      /\ [reader[r] EXCEPT !.at = "idle", !.result = result].result = result
  BY <1>1 DEF Tasks
<1>3. reader'[r] \in {reader[r], [reader[r] EXCEPT !.at = "idle", !.result = result]}
  BY DEF Return
<1> QED
  BY <1>2, <1>3 DEF Quiet

LEMMA DropQuiet ==
  ASSUME NEW r \in Readers, reader \in [Readers -> Tasks], NEW qs, Drop(qs)
  PROVE  Quiet(reader[r], reader'[r])
<1> DEFINE u == [reader[r] EXCEPT !.at = "idle", !.result = "NoContentKeyFound"]
<1>1. reader[r] \in Tasks
  OBVIOUS
<1>2. u.at = "idle" /\ u.result = "NoContentKeyFound"
  BY <1>1 DEF Tasks
<1>3. reader'[r] \in {reader[r], u}
  BY DEF Drop
<1> QED
  BY <1>2, <1>3 DEF Quiet, Failed

LEMMA WithKeyNotFailed ==
  ASSUME NEW r, NEW k
  PROVE  WithKey(r, k) # Failed
  BY DEF WithKey, Failed

\* A call that sees the cache, for the first time or again, goes on.
LEMMA SeenCall ==
  ASSUME Inv, NEW q \in Readers,
         \/ OpenReply(q) /\ Opens(Owner[q], reader[q].sk, reader[q].reply)
         \/ SetKey(q) /\ ~ SeenIsCurrent(q)
  PROVE  /\ \A r \in Readers : r # q => reader'[r] = reader[r]
         /\ reader[q].at # "idle" /\ reader'[q].at = "caching"
         /\ reader'[q].result = reader[q].result
         /\ reader'[q].form = reader[q].form /\ reader'[q].op = reader[q].op
<1>1. reader \in [Readers -> Tasks] /\ reader[q] \in Tasks
  BY DEF Inv, TypeOK
<1>2. CASE OpenReply(q) /\ Opens(Owner[q], reader[q].sk, reader[q].reply)
  <2>1. /\ reader[q].at = "replied"
        /\ reader' = [reader EXCEPT ![q] =
              [reader[q] EXCEPT !.at = "caching", !.seen = cache[Owner[q]]]]
    BY <1>1, <1>2 DEF OpenReply
  <2>2. /\ reader'[q] =
              [reader[q] EXCEPT !.at = "caching", !.seen = cache[Owner[q]]]
        /\ \A r \in Readers : r # q => reader'[r] = reader[r]
    BY <1>1, <2>1
  <2> QED
    BY <1>1, <2>1, <2>2 DEF Tasks
<1>3. CASE SetKey(q) /\ ~ SeenIsCurrent(q)
  <2>1. /\ reader[q].at = "caching"
        /\ reader' = [reader EXCEPT ![q] =
              [reader[q] EXCEPT !.seen = cache[Owner[q]]]]
    BY <1>1, <1>3 DEF SetKey
  <2>2. /\ reader'[q] = [reader[q] EXCEPT !.seen = cache[Owner[q]]]
        /\ \A r \in Readers : r # q => reader'[r] = reader[r]
    BY <1>1, <2>1
  <2> QED
    BY <1>1, <2>1, <2>2 DEF Tasks
<1> QED
  BY <1>2, <1>3

LEMMA CallMoves ==
  ASSUME Inv, NEW r \in Readers, NEW q \in Readers,
         LookUp(q) \/ Fetch(q) \/ OpenReply(q) \/ SetKey(q) \/ TimeOut(q)
  PROVE  Quiet(reader[r], reader'[r]) \/ NotOpened(r)
<1>1. reader \in [Readers -> Tasks]
  BY DEF Inv, TypeOK
<1>2. ASSUME NEW result, result # Failed, Return(q, result)
      PROVE  Quiet(reader[r], reader'[r])
  BY <1>1, <1>2, ReturnedQuiet
<1>3. ASSUME NEW at \in {"fetch", "waiting"}, reader[q].at # "idle",
             reader' = [reader EXCEPT ![q].at = at]
      PROVE  Quiet(reader[r], reader'[r])
  <2>1. CASE r # q
    BY <1>3, <2>1 DEF Quiet
  <2>2. CASE r = q
    <3>1. reader'[q] = [reader[q] EXCEPT !.at = at]
      BY <1>1, <1>3
    <3>2. reader[q] \in Tasks
      BY <1>1
    <3>3. reader'[q].at = at /\ reader'[q].result = reader[q].result
      BY <3>1, <3>2, GoOnTask
    <3> QED
      BY <1>3, <2>2, <3>3 DEF Quiet
  <2> QED
    BY <2>1, <2>2
<1>4. CASE LookUp(q)
  BY <1>2, <1>3, <1>4, WithKeyNotFailed DEF LookUp, Failed
<1>5. CASE Fetch(q)
  BY <1>2, <1>3, <1>5, WithKeyNotFailed DEF Fetch, Failed
<1>6. CASE TimeOut(q)
  BY <1>2, <1>6 DEF TimeOut, Failed
<1>7. CASE OpenReply(q)
  <2>1. CASE Opens(Owner[q], reader[q].sk, reader[q].reply)
    BY <1>7, <2>1, SeenCall DEF Quiet
  <2>2. CASE /\ ~ Opens(Owner[q], reader[q].sk, reader[q].reply)
             /\ Return(q, Failed)
    <3>1. CASE r # q
      BY <1>1, <2>2, <3>1 DEF Quiet, Return
    <3>2. CASE r = q
      <4>1. reader[q] \in Tasks
        BY <1>1
      <4>2. reader'[q] = [reader[q] EXCEPT !.at = "idle", !.result = Failed]
        BY <1>1, <2>2 DEF Return
      <4>3. reader'[q].at = "idle" /\ reader'[q].sk = reader[q].sk
        BY <4>1, <4>2 DEF Tasks
      <4> QED
        BY <1>7, <2>2, <3>2, <4>3 DEF NotOpened, OpenReply, authorityVars
    <3> QED
      BY <3>1, <3>2
  <2> QED
    BY <1>7, <2>1, <2>2 DEF OpenReply, Failed
<1>8. CASE SetKey(q)
  <2>1. CASE SeenIsCurrent(q)
    BY <1>2, <1>8, <2>1, WithKeyNotFailed DEF SetKey
  <2>2. CASE ~ SeenIsCurrent(q)
    BY <1>8, <2>2, SeenCall DEF Quiet
  <2> QED
    BY <2>1, <2>2
<1> QED
  BY <1>4, <1>5, <1>6, <1>7, <1>8

LEMMA HandlerMoves ==
  ASSUME Inv, NEW r \in Readers, HandleCk
  PROVE  Quiet(reader[r], reader'[r]) \/ Replied(r)
<1>1. reader \in [Readers -> Tasks] /\ HandlerHolds
  BY DEF Inv, TypeOK
<1>2. CASE reader' = reader \/ (\E qs : Drop(qs))
  BY <1>1, <1>2, DropQuiet DEF Quiet
<1>3. CASE CkReply
  <2>1. reader[r] \in Tasks
    BY <1>1
  <2>2. handler.pk <= pk
    BY <1>1, <1>3 DEF CkReply, HandlerHolds
  <2>3. CASE Awaits(r, handler.query)
    <3>1. reader'[r] = [reader[r] EXCEPT !.at = "replied", !.reply = Lock]
      BY <1>3, <2>3 DEF CkReply
    <3>2. /\ reader'[r].at = "replied" /\ reader'[r].reply = Lock
          /\ reader'[r].result = reader[r].result
      BY <2>1, <3>1 DEF Tasks
    <3> QED
      BY <2>2, <2>3, <3>2 DEF Replied, Lock, Awaits
  <2>4. CASE ~ Awaits(r, handler.query)
    BY <1>3, <2>4 DEF CkReply, Quiet
  <2> QED
    BY <2>3, <2>4
<1>4. CkDeclare \/ CkReceive => reader' = reader
  BY DEF CkDeclare, CkReceive, consumerVars
<1>5. CkGetPublicKey \/ CkLookUp \/ CkGetPolicy \/ CkFail
         => reader' = reader \/ (\E qs : Drop(qs))
  BY DEF CkGetPublicKey, CkLookUp, CkGetPolicy, CkFail, DropQuery
<1> QED
  BY <1>2, <1>3, <1>4, <1>5 DEF HandleCk

LEMMA TaskMoves ==
  ASSUME Inv, [Next]_vars, NEW r \in Readers
  PROVE  Quiet(reader[r], reader'[r]) \/ Replied(r) \/ NotOpened(r)
<1>1. reader \in [Readers -> Tasks]
  BY DEF Inv, TypeOK
<1>2. CASE reader' = reader \/ (\E qs : Drop(qs))
  BY <1>1, <1>2, DropQuiet DEF Quiet
<1>3. ASSUME NEW q \in Readers, NEW m, Call(q, m)
      PROVE  Quiet(reader[r], reader'[r])
  <2>1. ASSUME NEW form, NEW id, NEW op, NEW at \in {"lookup", "fetch"},
               StartCall(q, m, form, id, op, at)
        PROVE  Quiet(reader[r], reader'[r])
    BY <1>1, <2>1 DEF StartCall, Quiet, Failed
  <2> QED
    BY <1>3, <2>1 DEF Call, Prefetch, Decrypt
<1>4. UNCHANGED vars => reader' = reader
  BY DEF vars
<1>5. ASSUME NEW k, NEW tp, Register(k, tp)
      PROVE  reader' = reader
  BY <1>5 DEF Register, consumerVars
<1>6. ASSUME NEW m, Publish(m)
      PROVE  reader' = reader
  BY <1>6 DEF Publish, consumerVars
<1>7. Restart => \E qs : Drop(qs)
  BY DEF Restart
<1>8. ASSUME NEW c, GetSecretKey(c)
      PROVE  reader' = reader
  BY <1>8 DEF GetSecretKey
<1>9. UpdateKeys \/ RestartManager \/ RestartAuthority \/ Probe => reader' = reader
  BY DEF UpdateKeys, RestartManager, NewPolicies, RestartAuthority, Probe,
         consumerVars
<1>10. ASSUME NEW tp, NEW pol, SetPolicy(tp, pol)
       PROVE  reader' = reader
  BY <1>10 DEF SetPolicy, NewPolicies, consumerVars
<1> QED
  BY <1>2, <1>3, <1>4, <1>5, <1>6, <1>7, <1>8, <1>9, <1>10, CallMoves,
     HandlerMoves DEF Next, Run, Others

\* The public key only moves on, and nothing is noted of a task that is idle.
LEMMA NotedMoves ==
  ASSUME Inv, [Next]_vars
  PROVE  /\ pk <= pk' /\ pk \in Nat
         /\ \A r \in Readers : reader[r].at = "idle" => asked'[r] = asked[r]
<1>1. pk \in Nat /\ asked \in [Readers -> [policies : SUBSET AllPolicies,
                                           pk : Generations]]
  BY GenerationTypes DEF Inv, TypeOK
<1>2. ASSUME UNCHANGED <<pk, asked>>
      PROVE  /\ pk <= pk'
             /\ \A r \in Readers : reader[r].at = "idle" => asked'[r] = asked[r]
  BY <1>1, <1>2
<1>3. ASSUME NEW policies, NewPolicies(policies)
      PROVE  /\ pk' = pk
             /\ \A r \in Readers : reader[r].at = "idle" => asked'[r] = asked[r]
  BY <1>3 DEF NewPolicies, Asking, authorityVars
<1>4. ASSUME NEW q \in Readers, Fetch(q)
      PROVE  /\ pk' = pk
             /\ \A r \in Readers : reader[r].at = "idle" => asked'[r] = asked[r]
  <2>1. reader[q].at = "fetch" /\ pk' = pk
    BY <1>4 DEF Fetch, authorityVars
  <2>2. \A r \in Readers \ {q} : asked'[r] = asked[r]
    BY <1>1, <1>4 DEF Fetch
  <2> QED
    BY <2>1, <2>2
<1>5. UpdateKeys \/ RestartAuthority => pk <= pk' /\ asked' = asked
  BY <1>1
  DEF UpdateKeys, RestartAuthority, Authority!ReplacePk, Authority!ReplaceMsk,
      Authority!Renew
<1>6. HandleCk => UNCHANGED <<pk, asked>>
  BY DEF HandleCk, CkDeclare, CkReceive, CkGetPublicKey, CkLookUp, CkGetPolicy,
         CkReply, CkFail, authorityVars
<1>7. /\ \A q : LookUp(q) \/ OpenReply(q) \/ SetKey(q) \/ TimeOut(q)
                 => UNCHANGED <<pk, asked>>
      /\ \A q, m : Call(q, m) => UNCHANGED <<pk, asked>>
      /\ \A c : GetSecretKey(c) => UNCHANGED <<pk, asked>>
  BY DEF LookUp, OpenReply, SetKey, TimeOut, Call, Prefetch, Decrypt, StartCall,
         GetSecretKey, authorityVars
<1>8. /\ \A k, tp : Register(k, tp) => UNCHANGED <<pk, asked>>
      /\ \A m : Publish(m) => UNCHANGED <<pk, asked>>
      /\ Restart \/ Probe \/ UNCHANGED vars => UNCHANGED <<pk, asked>>
  BY DEF Register, Publish, Restart, Probe, vars, authorityVars
<1>9. CASE Others
  <2>1. ASSUME NEW tp, NEW pol, SetPolicy(tp, pol)
        PROVE  \E policies : NewPolicies(policies)
    BY <2>1 DEF SetPolicy
  <2>2. RestartManager => \E policies : NewPolicies(policies)
    BY DEF RestartManager
  <2> QED
    BY <1>1, <1>2, <1>3, <1>5, <1>7, <1>8, <1>9, <2>1, <2>2 DEF Others
<1>10. CASE \E q \in Readers : Run(q) \/ \E m \in published : Call(q, m)
  BY <1>1, <1>2, <1>4, <1>7, <1>10 DEF Run
<1> QED
  BY <1>1, <1>2, <1>6, <1>7, <1>8, <1>9, <1>10 DEF Next

\* The lock is not older than the secret key, so that it can only be newer.
LEMMA NotOpenedOutdated ==
  ASSUME Inv, RepliesNotAhead, NEW r \in Readers, NotOpened(r)
  PROVE  Outdated(r)'
<1>1. /\ reader[r].reply \in Locked
      /\ reader[r].sk \in Nat /\ asked[r].pk \in Nat /\ pk \in Nat
      /\ reader[r].sk <= asked[r].pk /\ asked[r].pk <= reader[r].reply.pk
      /\ reader[r].reply.policy \in asked[r].policies
  BY GenerationTypes
  DEF NotOpened, Inv, TypeOK, CallNamed, LockNotOlder, LockedUnderPolicyInForce
<1>2. reader[r].reply.pk <= pk /\ reader[r].reply.pk \in Nat
      /\ reader[r].reply.policy \in Policies
  BY <1>1, GenerationTypes DEF RepliesNotAhead, NotOpened, Locked
<1>3. \/ reader[r].sk < pk
      \/ \E pol \in asked[r].policies \cap Policies :
            ~ Satisfies(Attributes[Owner[r]], pol)
  BY <1>1, <1>2 DEF NotOpened, Opens
<1> QED
  BY <1>3 DEF Outdated, NotOpened

LEMMA ErrorsKept ==
  ASSUME Inv, ErrorsExplained, RepliesNotAhead, [Next]_vars
  PROVE  ErrorsExplained' /\ RepliesNotAhead'
<1>1. /\ pk <= pk' /\ pk \in Nat /\ pk' \in Nat
      /\ \A r \in Readers : reader[r].at = "idle" => asked'[r] = asked[r]
  BY NotedMoves, NextInv, GenerationTypes DEF Inv, TypeOK
<1>2. ASSUME NEW r \in Readers, reader'[r].result = Failed
      PROVE  reader'[r].at = "idle" /\ reader'[r].sk \in Nat /\ Outdated(r)'
  <2>1. CASE NotOpened(r)
    <3>1. reader[r].sk \in Nat
      BY <2>1, GenerationTypes DEF NotOpened, Inv, CallNamed
    <3> QED
      BY <2>1, <3>1, NotOpenedOutdated DEF NotOpened
  <2>2. CASE reader'[r] = reader[r]
    <3>1. reader[r].at = "idle" /\ Outdated(r) /\ asked'[r] = asked[r]
      BY <1>1, <1>2, <2>2 DEF ErrorsExplained
    <3>2. reader[r].sk \in Nat /\ (reader[r].sk < pk => reader[r].sk < pk')
      BY <1>1, <1>2, <2>2 DEF ErrorsExplained
    <3> QED
      BY <2>2, <3>1, <3>2 DEF Outdated
  <2>3. reader[r].result = Failed => reader[r].at = "idle"
    BY DEF ErrorsExplained
  <2> QED
    BY <1>2, <2>1, <2>2, <2>3, TaskMoves DEF Quiet, Replied
<1>3. ASSUME NEW r \in Readers, reader'[r].at = "replied"
      PROVE  reader'[r].reply.pk <= pk'
  <2>1. CASE reader'[r] = reader[r]
    <3>1. reader[r].reply.pk <= pk /\ reader[r].reply.pk \in Nat
      BY <1>3, <2>1, GenerationTypes DEF RepliesNotAhead, Inv, CallNamed, Locked
    <3> QED
      BY <1>1, <2>1, <3>1
  <2>2. CASE Replied(r)
    <3>1. reader'[r].reply \in Locked
      BY <1>3, NextInv DEF Inv, CallNamed
    <3>2. reader'[r].reply.pk \in Nat
      BY <3>1, GenerationTypes DEF Locked
    <3> QED
      BY <1>1, <2>2, <3>2 DEF Replied
  <2> QED
    BY <1>3, <2>1, <2>2, TaskMoves DEF Quiet, NotOpened
<1> QED
  BY <1>2, <1>3 DEF ErrorsExplained, RepliesNotAhead
-----------------------------------------------------------------------------
LEMMA SystemNextInv == SystemInv /\ [SystemNext]_allVars => SystemInv'
<1> SUFFICES ASSUME SystemInv, [SystemNext]_allVars PROVE SystemInv'
  OBVIOUS
<1>1. Inv /\ [Next]_vars /\ ErrorsExplained /\ RepliesNotAhead
  BY StepComposes DEF SystemInv
<1>2. Inv' /\ ErrorsExplained' /\ RepliesNotAhead'
  BY <1>1, NextInv, ErrorsKept
<1> QED
  BY <1>2, AppInvKept, SamplesKept DEF SystemInv

\* However the services and the policies start.
LEMMA SystemInitInv ==
  ASSUME NEW policies \in [Topics -> AllPolicies],
         NEW atStart \in {Starting, Receiving},
         InitWith(policies, atStart), OthersInit
  PROVE  SystemInv
<1>1. Inv
  BY InitInv
<1>2. AppProofs!AppInv
  BY SameProgram, AppAssumptions, AppProofs!AppInitInv DEF OthersInit
<1>3. Samples /\ InHand
  BY DEF OthersInit, ProgramInit, Samples, InHand
<1>4. ErrorsExplained /\ RepliesNotAhead
  BY DEF InitWith, Idle, ErrorsExplained, RepliesNotAhead, Failed
<1> QED
  BY <1>1, <1>2, <1>3, <1>4 DEF SystemInv

LEMMA SystemInvCorrect == System => []SystemInv
<1>1. SystemInit => SystemInv
  <2>1. [tp \in Topics |-> None] \in [Topics -> AllPolicies]
    BY DEF AllPolicies
  <2> QED
    BY <2>1, SystemInitInv DEF SystemInit, Init
<1> QED
  BY <1>1, SystemNextInv, PTL DEF System, SystemSteps

\* The producer program, the services and the consumer program together take
\* no step that KeyDelivery does not know.
THEOREM ComposesToDeliveryCorrect == System => ComposesToDelivery
<1>1. SystemInv /\ [SystemNext]_allVars => [Next]_vars
  BY StepComposes
<1> QED
  BY <1>1, SystemInvCorrect, PTL DEF System, SystemSteps, ComposesToDelivery

\* examples/consumer.rs decrypts what its subscriber received, in order and
\* without a gap.
THEOREM NothingSkippedCorrect == System => []NothingSkipped
<1>1. SystemInv => NothingSkipped
  <2> SUFFICES ASSUME Samples PROVE NothingSkipped
    BY DEF SystemInv
  <2>1. /\ inbox \in Seq(Messages) /\ output \in Seq(Messages)
        /\ received = output \o inbox
    BY DEF Samples
  <2>2. Len(output) <= Len(received)
    BY <2>1
  <2>3. output = SubSeq(received, 1, Len(output))
    <3> DEFINE s == SubSeq(output \o inbox, 1, Len(output))
    <3>1. s \in Seq(Messages) /\ Len(s) = Len(output)
      BY <2>1
    <3>2. \A i \in 1..Len(output) : s[i] = output[i]
      BY <2>1
    <3>3. s = output
      <4> HIDE DEF s
      <4> QED
        BY <2>1, <3>1, <3>2
    <3> QED
      BY <2>1, <3>3
  <2> QED
    BY <2>2, <2>3 DEF NothingSkipped
<1> QED
  BY <1>1, SystemInvCorrect, PTL

\* The consumer program fails to open a content key only when its secret key
\* or its attributes are out of date (consumer.rs fetch_content_key).
THEOREM AccessErrorCorrect == System => []AccessErrorMeansOutdated
<1>1. SystemInv => AccessErrorMeansOutdated
  BY ProgramAssumption
  DEF SystemInv, ErrorsExplained, Outdated, Failed, AccessErrorMeansOutdated
<1> QED
  BY <1>1, SystemInvCorrect, PTL
-----------------------------------------------------------------------------
(* The setting of the integration tests: no get times out, nothing is      *)
(* restarted and no key of the authority updated, and every topic has one  *)
(* and the same policy from the start, which all consumers satisfy.        *)

Setting(pol) ==
    /\ ~ MayTimeOut /\ ~ MayRestart /\ MaxGeneration = 0
    /\ Inputs.policies \subseteq {pol}
    /\ \A c \in Consumers : Satisfies(Attributes[c], pol)

ReadyInit(pol) == InitWith([tp \in Topics |-> pol], Receiving) /\ OthersInit

\* The handler is there, it will find the keys it is asked for, and it locks
\* them under the one policy.
Serving(pol) ==
    /\ \A tp \in Topics : policy[tp] = pol
    /\ \A r \in Readers : asked[r].policies \subseteq {pol}
    /\ Declared
    /\ handler.at = "policy" => handler.policy = pol
    /\ \A i \in 1..Len(queue) : queue[i] # Wild => keys[queue[i].ckId] # None
    /\ Busy => keys[handler.query.ckId] # None

\* No call has ended in an error.
Calm ==
    \A r \in Readers :
        reader[r].form = "full" /\ reader[r].result \in {"none", "plaintext", "fetched"}

\* Nor is there one in sight for the program.
Running ==
    /\ stage \in {"connect", "subscribe", "receive", "decrypt", "await"}
    /\ stage # "connect" => sk[Owner[Program]] # None
    /\ reader[Program].op = "decrypt"
    /\ stage = "await" /\ reader[Program].at = "idle" =>
           reader[Program].result = "plaintext"

ReadyInv(pol) == SystemInv /\ Serving(pol) /\ Calm /\ Running

LEMMA OneGeneration ==
  ASSUME MaxGeneration = 0
  PROVE  Generations = {0}
  BY DEF Generations

\* An announced key is in the store, and stays there.
LEMMA NamedRegistered ==
  ASSUME SystemInv, NEW m \in published, NEW id \in Named(m)
  PROVE  id \in CkIds /\ keys[id] # None
<1>1. m \in Messages
  BY DEF SystemInv, Inv, TypeOK
<1> QED
  BY <1>1, NamedTypes, AppFacts DEF Named, SystemInv

LEMMA StoreKept ==
  ASSUME SystemInv, [SystemNext]_allVars, NEW id \in CkIds, keys[id] # None
  PROVE  keys'[id] # None
<1>1. CASE RunProducer
  <2>1. AppProofs!AppInv /\ AppProofs!AppNext
    BY <1>1, SameProgram DEF SystemInv, RunProducer
  <2>2. ASSUME NEW k \in Keys, Producer!Register(k, ContentTopic)
        PROVE  keys'[id] = keys[id]
    BY <2>2 DEF Producer!Register, SystemInv, Inv, TypeOK
  <2> QED
    BY <2>1, <2>2, ProducerStep DEF Producer!Publish
<1>2. CASE RunConsumer
  BY <1>2, ConsumerLeavesStore, ProgramLeavesStore DEF RunConsumer
<1>3. CASE RunServices \/ UNCHANGED allVars
  BY <1>3, HandlerLeavesStore, OthersLeaveStore DEF RunServices, allVars, vars
<1> QED
  BY <1>1, <1>2, <1>3 DEF SystemNext
-----------------------------------------------------------------------------
(* The calls in this setting. *)

GoesOn(t, u) ==
    /\ t.at # "idle" /\ u.at # "idle"
    /\ u.form = t.form /\ u.op = t.op /\ u.result = t.result

Succeeds(t, u) ==
    /\ u.at = "idle" /\ u.form = t.form /\ u.op = t.op
    /\ u.result \in {"plaintext", "fetched"}
    /\ t.op = "decrypt" => u.result = "plaintext"

Fine(t, u) == u = t \/ GoesOn(t, u) \/ Succeeds(t, u)

LEMMA SuccessFine ==
  ASSUME Inv, Inv', NEW r \in Readers, NEW q \in Readers, NEW k,
         Return(q, WithKey(q, k))
  PROVE  Fine(reader[r], reader'[r])
<1>1. reader[r] \in Tasks /\ reader[q] \in Tasks
  BY DEF Inv, TypeOK
<1>2. CASE r # q
  BY <1>1, <1>2 DEF Return, Fine, Inv, TypeOK
<1>3. CASE r = q
  <2> DEFINE result == WithKey(q, k)
  <2>1. reader'[q] = [reader[q] EXCEPT !.at = "idle", !.result = result]
    BY DEF Return, Inv, TypeOK
  <2>2. /\ reader'[q].at = "idle" /\ reader'[q].result = result
        /\ reader'[q].form = reader[q].form /\ reader'[q].op = reader[q].op
    BY <1>1, <2>1 DEF Tasks
  <2>3. result # "AesError"
    BY <2>2 DEF Inv, NoWrongKey
  <2>4. /\ result \in {"plaintext", "fetched"}
        /\ reader[q].op = "decrypt" => result = "plaintext"
    BY <2>3 DEF WithKey
  <2> QED
    BY <1>3, <2>2, <2>4 DEF Fine, Succeeds
<1> QED
  BY <1>2, <1>3

LEMMA GoOnFine ==
  ASSUME Inv, NEW r \in Readers, NEW q \in Readers,
         NEW at \in {"fetch", "waiting"}, reader[q].at # "idle",
         reader' = [reader EXCEPT ![q].at = at]
  PROVE  Fine(reader[r], reader'[r])
<1>1. reader \in [Readers -> Tasks]
  BY DEF Inv, TypeOK
<1>2. CASE r # q
  BY <1>1, <1>2 DEF Fine
<1>3. CASE r = q
  <2>1. reader[q] \in Tasks /\ reader'[q] = [reader[q] EXCEPT !.at = at]
    BY <1>1
  <2>2. /\ reader'[q].at = at /\ reader'[q].result = reader[q].result
        /\ reader'[q].form = reader[q].form /\ reader'[q].op = reader[q].op
    BY <2>1 DEF Tasks
  <2> QED
    BY <1>3, <2>2 DEF Fine, GoesOn
<1> QED
  BY <1>2, <1>3

LEMMA RunFine ==
  ASSUME NEW pol \in Policies, Setting(pol), ReadyInv(pol), Inv',
         NEW r \in Readers, NEW q \in Readers, Run(q)
  PROVE  Fine(reader[r], reader'[r])
<1>1. Inv /\ reader[q].form = "full" /\ Declared
  BY DEF ReadyInv, SystemInv, Calm, Serving
<1>2. CASE LookUp(q)
  BY <1>1, <1>2, SuccessFine, GoOnFine DEF LookUp
<1>3. CASE Fetch(q)
  BY <1>1, <1>3, SuccessFine, GoOnFine DEF Fetch
<1>4. CASE OpenReply(q)
  <2>1. /\ reader[q].reply \in Locked /\ reader[q].sk \in Generations
        /\ reader[q].reply.policy \in asked[q].policies
    BY <1>1, <1>4 DEF OpenReply, Inv, CallNamed, LockedUnderPolicyInForce
  <2>2. reader[q].reply.policy = pol
    BY <2>1 DEF ReadyInv, Serving
  <2>3. reader[q].sk = reader[q].reply.pk
    BY <2>1, OneGeneration DEF Setting, Locked
  <2>4. Opens(Owner[q], reader[q].sk, reader[q].reply)
    BY <2>2, <2>3, OwnerAssumption DEF Opens, Setting
  <2> QED
    BY <1>1, <1>4, <2>4, SeenCall DEF Fine, GoesOn
<1>5. CASE SetKey(q)
  <2>1. CASE SeenIsCurrent(q)
    BY <1>1, <1>5, <2>1, SuccessFine DEF SetKey
  <2>2. CASE ~ SeenIsCurrent(q)
    BY <1>1, <1>5, <2>2, SeenCall DEF Fine, GoesOn
  <2> QED
    BY <2>1, <2>2
<1> QED
  BY <1>2, <1>3, <1>4, <1>5 DEF Run

\* No query is dropped: a step of the handler leaves the calls as they are, or
\* replies to one.
LEMMA HandlerFine ==
  ASSUME NEW pol \in Policies, Setting(pol), ReadyInv(pol), HandleCk,
         NEW r \in Readers
  PROVE  Fine(reader[r], reader'[r])
<1>1. /\ Inv /\ Serving(pol) /\ ~ MayTimeOut /\ pol # None /\ pol # Malformed
  BY NoneAssumption DEF ReadyInv, SystemInv, Setting
<1>2. reader' = reader => Fine(reader[r], reader'[r])
  BY DEF Fine
<1>3. CASE CkReceive \/ CkGetPublicKey
  BY <1>1, <1>2, <1>3 DEF CkReceive, CkGetPublicKey, consumerVars
<1>4. CASE CkDeclare \/ CkFail
  BY <1>1, <1>4 DEF CkDeclare, CkFail, Serving, Declared
<1>5. CASE CkLookUp
  BY <1>1, <1>2, <1>5 DEF CkLookUp, Serving, Busy
<1>6. CASE CkGetPolicy
  <2>1. handler.entry \in Entries
    BY <1>1, <1>6 DEF CkGetPolicy, Inv, HandlerHolds
  <2>2. PolicyReply(handler.entry.topic) = pol
    BY <1>1, <2>1 DEF PolicyReply, Serving, Entries
  <2> QED
    BY <1>1, <1>2, <1>6, <2>2 DEF CkGetPolicy
<1>7. CASE CkReply
  <2>1. reader[r] \in Tasks
    BY <1>1 DEF Inv, TypeOK
  <2>2. CASE ~ Awaits(r, handler.query)
    BY <1>7, <2>2 DEF CkReply, Fine
  <2>3. CASE Awaits(r, handler.query)
    <3>1. reader'[r] = [reader[r] EXCEPT !.at = "replied", !.reply = Lock]
      BY <1>7, <2>3 DEF CkReply
    <3>2. /\ reader'[r].at = "replied" /\ reader'[r].result = reader[r].result
          /\ reader'[r].form = reader[r].form /\ reader'[r].op = reader[r].op
      BY <2>1, <3>1 DEF Tasks
    <3> QED
      BY <2>3, <3>2 DEF Fine, GoesOn, Awaits
  <2> QED
    BY <2>2, <2>3
<1> QED
  BY <1>3, <1>4, <1>5, <1>6, <1>7 DEF HandleCk

\* Of the services only the access manager and those who probe do anything.
LEMMA OthersFine ==
  ASSUME NEW pol \in Policies, Setting(pol), ReadyInv(pol), Others
  PROVE  \/ \E tp \in Topics : SetPolicy(tp, pol)
         \/ Probe
<1>1. pk \in {0} /\ msk \in {0}
  BY OneGeneration DEF ReadyInv, SystemInv, Inv, TypeOK, Setting
<1>2. ~ UpdateKeys
  BY <1>1 DEF Setting, UpdateKeys, Authority!ReplaceMsk
<1>3. ~ RestartManager /\ ~ RestartAuthority /\ \A r : ~ TimeOut(r)
  BY DEF Setting, RestartManager, RestartAuthority, TimeOut
<1>4. \A other \in Inputs.policies : other = pol
  BY DEF Setting
<1> QED
  BY <1>2, <1>3, <1>4 DEF Others
-----------------------------------------------------------------------------
LEMMA HandlerServing ==
  ASSUME NEW pol \in Policies, Setting(pol), ReadyInv(pol), HandleCk
  PROVE  Serving(pol)'
<1>1. /\ Inv /\ Serving(pol) /\ ~ MayTimeOut /\ pol # None /\ pol # Malformed
      /\ handler \in Handlers /\ queue \in Seq(Queries \cup {Wild})
  BY NoneAssumption DEF ReadyInv, SystemInv, Setting, Inv, TypeOK
<1>2. UNCHANGED <<keys, policy, asked>>
  BY DEF HandleCk, CkDeclare, CkReceive, CkGetPublicKey, CkLookUp, CkGetPolicy,
         CkReply, CkFail
<1>3. CASE queue' = queue /\ handler' = Receiving
  BY <1>1, <1>2, <1>3, HandlerTypes DEF Serving, Declared, Busy
<1>4. CASE CkDeclare \/ CkFail
  BY <1>1, <1>4 DEF CkDeclare, CkFail, Serving, Declared
<1>5. CASE CkReceive
  <2>1. /\ queue # <<>> /\ queue' = Tail(queue)
        /\ Head(queue) = queue[1] /\ 1 \in 1..Len(queue)
    BY <1>1, <1>5 DEF CkReceive
  <2>2. \A i \in 1..Len(queue') : queue'[i] # Wild => keys[queue'[i].ckId] # None
    BY <1>1, <2>1 DEF Serving
  <2>3. CASE Head(queue) = Wild
    BY <1>1, <1>2, <1>5, <2>2, <2>3, HandlerTypes
    DEF CkReceive, Serving, Declared, Busy
  <2>4. CASE Head(queue) # Wild
    <3>1. handler' = [handler EXCEPT !.at = "got", !.query = Head(queue)]
      BY <1>5, <2>4 DEF CkReceive
    <3>2. handler'.at = "got" /\ handler'.query = Head(queue)
      BY <1>1, <3>1 DEF Handlers
    <3> QED
      BY <1>1, <1>2, <2>1, <2>2, <2>4, <3>2 DEF Serving, Declared
  <2> QED
    BY <2>3, <2>4
<1>6. ASSUME NEW at \in {"pk", "ck", "policy"}, handler'.at = at, queue' = queue,
             handler'.query = handler.query, Busy,
             at = "policy" => handler'.policy = pol
      PROVE  Serving(pol)'
  BY <1>1, <1>2, <1>6 DEF Serving, Declared
<1>7. CASE CkGetPublicKey
  <2>1. handler' = [handler EXCEPT !.at = "pk", !.pk = PublicKeyReply]
    BY <1>1, <1>7 DEF CkGetPublicKey
  <2>2. handler'.at = "pk" /\ handler'.query = handler.query
    BY <1>1, <2>1 DEF Handlers
  <2> QED
    BY <1>6, <1>7, <2>2 DEF CkGetPublicKey, Busy
<1>8. CASE CkLookUp
  <2>1. keys[handler.query.ckId] # None
    BY <1>1, <1>8 DEF CkLookUp, Serving, Busy
  <2>2. handler' = [handler EXCEPT !.at = "ck", !.entry = keys[handler.query.ckId]]
    BY <1>8, <2>1 DEF CkLookUp
  <2>3. handler'.at = "ck" /\ handler'.query = handler.query
    BY <1>1, <2>2 DEF Handlers
  <2> QED
    BY <1>6, <1>8, <2>3 DEF CkLookUp, Busy
<1>9. CASE CkGetPolicy
  <2>1. handler.entry \in Entries
    BY <1>1, <1>9 DEF CkGetPolicy, Inv, HandlerHolds
  <2>2. PolicyReply(handler.entry.topic) = pol
    BY <1>1, <2>1 DEF PolicyReply, Serving, Entries
  <2>3. handler' = [handler EXCEPT !.at = "policy", !.policy = pol]
    BY <1>1, <1>9, <2>2 DEF CkGetPolicy
  <2>4. /\ handler'.at = "policy" /\ handler'.query = handler.query
        /\ handler'.policy = pol
    BY <1>1, <2>3 DEF Handlers
  <2> QED
    BY <1>6, <1>9, <2>4 DEF CkGetPolicy, Busy
<1>10. CASE CkReply
  BY <1>3, <1>10 DEF CkReply
<1> QED
  BY <1>4, <1>5, <1>7, <1>8, <1>9, <1>10 DEF HandleCk

LEMMA OthersServing ==
  ASSUME NEW pol \in Policies, Setting(pol), ReadyInv(pol), Others
  PROVE  Serving(pol)'
<1>1. /\ Inv /\ Serving(pol) /\ policy \in [Topics -> AllPolicies]
      /\ queue \in Seq(Queries \cup {Wild})
      /\ asked \in [Readers -> [policies : SUBSET AllPolicies, pk : Generations]]
  BY DEF ReadyInv, SystemInv, Inv, TypeOK
<1>2. ASSUME NEW tp \in Topics, SetPolicy(tp, pol)
      PROVE  Serving(pol)'
  <2> DEFINE policies == [policy EXCEPT ![tp] = pol]
  <2>1. \A x \in Topics : policies[x] = pol
    BY <1>1 DEF Serving
  <2>2. NewPolicies(policies)
    BY <1>2 DEF SetPolicy
  <2>3. ASSUME NEW r \in Readers, Asking(r)
        PROVE  policies[reader[r].msg.topic] = pol
    <3>1. reader[r].msg \in Messages
      BY <1>1, <2>3 DEF Inv, CallNamed, TypeOK, Asking
    <3> QED
      BY <2>1, <3>1, NamedTypes
  <2> HIDE DEF policies
  <2>4. ASSUME NEW r \in Readers
        PROVE  asked'[r].policies \subseteq {pol}
    <3>1. CASE Asking(r)
      <4>1. asked'[r] = [asked[r] EXCEPT !.policies =
                            @ \cup {policies[reader[r].msg.topic]}]
        BY <2>2, <3>1 DEF NewPolicies
      <4>2. asked'[r].policies = asked[r].policies \cup {pol}
        BY <1>1, <2>3, <3>1, <4>1
      <4> QED
        BY <1>1, <4>2 DEF Serving
    <3>2. CASE ~ Asking(r)
      BY <1>1, <2>2, <3>2 DEF NewPolicies, Serving
    <3> QED
      BY <3>1, <3>2
  <2>5. policy' = policies /\ UNCHANGED <<keys, handler, queue>>
    BY <2>2 DEF NewPolicies, producerVars
  <2> QED
    BY <1>1, <2>1, <2>4, <2>5 DEF Serving, Declared, Busy
<1>3. CASE Probe
  <2>1. /\ UNCHANGED <<keys, handler, policy, asked>>
        /\ queue' = Append(queue, Wild)
    BY <1>3 DEF Probe
  <2>2. \A i \in 1..Len(queue') : queue'[i] # Wild =>
           i \in 1..Len(queue) /\ queue'[i] = queue[i]
    BY <1>1, <2>1
  <2> QED
    BY <1>1, <2>1, <2>2 DEF Serving, Declared, Busy
<1> QED
  BY <1>2, <1>3, OthersFine

LEMMA FetchServing ==
  ASSUME NEW pol \in Policies, ReadyInv(pol), NEW q \in Readers, Fetch(q)
  PROVE  Serving(pol)'
<1>1. /\ Inv /\ Serving(pol) /\ SystemInv
      /\ queue \in Seq(Queries \cup {Wild}) /\ reader \in [Readers -> Tasks]
      /\ asked \in [Readers -> [policies : SUBSET AllPolicies, pk : Generations]]
      /\ UNCHANGED <<keys, handler, policy>>
  BY DEF ReadyInv, SystemInv, Inv, TypeOK, Fetch
<1>2. CASE UNCHANGED <<queue, asked>>
  BY <1>1, <1>2 DEF Serving, Declared, Busy
<1>3. ASSUME queue' = Append(queue, [task |-> q, call |-> reader[q].call,
                                     ckId |-> reader[q].id]),
             asked' = [asked EXCEPT ![q] =
                 [policies |-> {policy[reader[q].msg.topic]}, pk |-> pk]]
      PROVE  Serving(pol)'
  <2> DEFINE query == [task |-> q, call |-> reader[q].call, ckId |-> reader[q].id]
  <2>1. reader[q].msg \in published /\ reader[q].id \in Named(reader[q].msg)
    BY <1>1 DEF Fetch, Inv, CallNamed
  <2>2. reader[q].id \in CkIds /\ keys[reader[q].id] # None
    BY <1>1, <2>1, NamedRegistered
  <2>3. query \in Queries /\ query.ckId = reader[q].id
    BY <1>1, <2>2 DEF Queries, Tasks
  <2>4. \A i \in 1..Len(queue') : \/ queue'[i] = query
                                  \/ i \in 1..Len(queue) /\ queue'[i] = queue[i]
    <3> HIDE DEF query
    <3>1. queue' = Append(queue, query)
      BY <1>3 DEF query
    <3> QED
      BY <1>1, <2>3, <3>1
  <2>5. policy[reader[q].msg.topic] = pol
    BY <1>1, <2>1, NamedTypes DEF Serving, Inv, TypeOK
  <2>6. \A r \in Readers : asked'[r].policies \subseteq {pol}
    BY <1>1, <1>3, <2>5 DEF Serving
  <2> HIDE DEF query
  <2> QED
    BY <1>1, <2>2, <2>3, <2>4, <2>6 DEF Serving, Declared, Busy
<1> QED
  BY <1>2, <1>3 DEF Fetch

LEMMA ServingKept ==
  ASSUME NEW pol \in Policies, Setting(pol), ReadyInv(pol), [SystemNext]_allVars
  PROVE  Serving(pol)'
<1>1. Inv /\ Serving(pol) /\ queue \in Seq(Queries \cup {Wild}) /\ SystemInv
  BY DEF ReadyInv, SystemInv, Inv, TypeOK
<1>2. ASSUME UNCHANGED <<policy, asked, handler, queue>>
      PROVE  Serving(pol)'
  <2>1. \A i \in 1..Len(queue) : queue[i] # Wild =>
           queue[i].ckId \in CkIds /\ keys'[queue[i].ckId] # None
    BY <1>1, StoreKept DEF Serving, Queries
  <2>2. Busy => keys'[handler.query.ckId] # None
    BY <1>1, StoreKept DEF Serving, Queries, Inv, HandlerHolds
  <2> QED
    BY <1>1, <1>2, <2>1, <2>2 DEF Serving, Declared, Busy
<1>3. RunProducer => UNCHANGED <<policy, asked, handler, queue>>
  BY DEF RunProducer
<1>4. /\ \A c : GetSecretKey(c) => UNCHANGED <<policy, asked, handler, queue>>
      /\ \A r, m, form : Decrypt(r, m, form)
                            => UNCHANGED <<policy, asked, handler, queue>>
      /\ \A r, m : Prefetch(r, m) => UNCHANGED <<policy, asked, handler, queue>>
      /\ \A r : LookUp(r) \/ OpenReply(r) \/ SetKey(r)
                   => UNCHANGED <<policy, asked, handler, queue>>
  BY DEF GetSecretKey, Decrypt, Prefetch, StartCall, LookUp, OpenReply,
         SetKey, producerVars
<1>5. RunProgram => UNCHANGED <<policy, asked, handler, queue>>
  BY <1>4
  DEF RunProgram, Connect, Subscribe, Receive, RetryKey, StartDecrypt,
      FinishDecrypt, vars
<1>6. CASE RunConsumer
  BY <1>1, <1>2, <1>4, <1>5, <1>6, FetchServing DEF RunConsumer, Run
<1>7. UNCHANGED allVars => UNCHANGED <<policy, asked, handler, queue>>
  BY DEF allVars, vars
<1> QED
  BY <1>2, <1>3, <1>6, <1>7, HandlerServing, OthersServing
  DEF SystemNext, RunServices
-----------------------------------------------------------------------------
LEMMA FineCalm ==
  ASSUME Calm, \A r \in Readers : Fine(reader[r], reader'[r])
  PROVE  Calm'
  BY DEF Calm, Fine, GoesOn, Succeeds

LEMMA FineRunning ==
  ASSUME Running, UNCHANGED <<stage, sk>>, Fine(reader[Program], reader'[Program])
  PROVE  Running'
  BY DEF Running, Fine, GoesOn, Succeeds

LEMMA StartCalm ==
  ASSUME Inv, Calm, NEW q \in Readers, NEW m, NEW id, NEW op,
         NEW at \in {"lookup", "fetch"}, StartCall(q, m, "full", id, op, at)
  PROVE  /\ Calm' /\ sk' = sk
         /\ reader'[q].at # "idle" /\ reader'[q].op = op
         /\ \A r \in Readers \ {q} : reader'[r] = reader[r]
<1>1. reader \in [Readers -> Tasks]
  BY DEF Inv, TypeOK
<1>2. /\ \A r \in Readers \ {q} : reader'[r] = reader[r]
      /\ reader'[q].at = at /\ reader'[q].op = op
      /\ reader'[q].form = "full" /\ reader'[q].result = "none"
      /\ sk' = sk
  BY <1>1 DEF StartCall
<1> QED
  BY <1>2 DEF Calm

LEMMA ProgramRunning ==
  ASSUME NEW pol \in Policies, Setting(pol), ReadyInv(pol), RunProgram
  PROVE  Calm' /\ Running'
<1>1. /\ Inv /\ Calm /\ Running /\ ~ MayTimeOut /\ Program \in Readers
      /\ sk \in [Consumers -> Generations \cup {None}]
      /\ msk \in Generations /\ Owner[Program] \in Consumers
  BY ProgramAssumption, OwnerAssumption
  DEF ReadyInv, SystemInv, Setting, Inv, TypeOK
<1>2. reader' = reader => Calm'
  BY <1>1 DEF Calm
<1>3. GetSecretKey(Owner[Program]) => reader' = reader /\ sk'[Owner[Program]] # None
  BY <1>1, GenerationTypes DEF GetSecretKey
<1>4. CASE Connect
  BY <1>1, <1>2, <1>3, <1>4 DEF Connect, Running
<1>5. CASE Subscribe \/ Receive
  BY <1>1, <1>2, <1>5 DEF Subscribe, Receive, Running, vars
<1>6. CASE RetryKey
  BY <1>1, <1>6 DEF RetryKey, Running
<1>7. CASE StartDecrypt
  <2>1. StartCall(Program, Head(inbox), "full", Head(inbox).ckId, "decrypt", "lookup")
    BY <1>7 DEF StartDecrypt, Decrypt
  <2>2. /\ Calm' /\ sk' = sk /\ reader'[Program].at # "idle"
        /\ reader'[Program].op = "decrypt"
    BY <1>1, <2>1, StartCalm
  <2> QED
    BY <1>1, <1>7, <2>2 DEF StartDecrypt, Running
<1>8. CASE FinishDecrypt
  BY <1>1, <1>2, <1>8 DEF FinishDecrypt, Running, vars
<1> QED
  BY <1>4, <1>5, <1>6, <1>7, <1>8 DEF RunProgram

LEMMA RunningKept ==
  ASSUME NEW pol \in Policies, Setting(pol), ReadyInv(pol), [SystemNext]_allVars,
         Inv'
  PROVE  Calm' /\ Running'
<1>1. Inv /\ Calm /\ Running /\ Program \in Readers
  BY ProgramAssumption DEF ReadyInv, SystemInv
<1>2. ASSUME UNCHANGED <<stage, sk>>,
             \A r \in Readers : Fine(reader[r], reader'[r])
      PROVE  Calm' /\ Running'
  BY <1>1, <1>2, FineCalm, FineRunning
<1>3. CASE UNCHANGED <<stage, sk, reader>>
  BY <1>2, <1>3 DEF Fine
<1>4. RunProducer \/ UNCHANGED allVars => UNCHANGED <<stage, sk, reader>>
  BY DEF RunProducer, consumerVars, allVars, vars, programVars
<1>5. CASE RunServices
  <2>1. stage' = stage
    BY <1>5 DEF RunServices, programVars
  <2>2. CASE HandleCk
    <3>1. sk' = sk
      BY <2>2 DEF HandleCk, CkDeclare, CkReceive, CkGetPublicKey, CkLookUp,
                  CkGetPolicy, CkReply, CkFail, consumerVars
    <3> QED
      BY <1>2, <2>1, <2>2, <3>1, HandlerFine
  <2>3. CASE Others
    <3>1. UNCHANGED <<sk, reader>>
      BY <2>3, OthersFine DEF SetPolicy, NewPolicies, Probe, consumerVars
    <3> QED
      BY <1>3, <2>1, <3>1
  <2> QED
    BY <1>5, <2>2, <2>3 DEF RunServices
<1>6. ASSUME NEW q \in Readers, Run(q), stage' = stage
      PROVE  Calm' /\ Running'
  <2>1. sk' = sk
    BY <1>6 DEF Run, LookUp, Fetch, OpenReply, SetKey
  <2> QED
    BY <1>2, <1>6, <2>1, RunFine
<1>7. ASSUME NEW q \in Readers \ {Program}, NEW m \in published, Prefetch(q, m),
             stage' = stage
      PROVE  Calm' /\ Running'
  <2>1. StartCall(q, m, "full", m.nextId, "prefetch", "fetch")
    BY <1>7 DEF Prefetch
  <2>2. Calm' /\ sk' = sk /\ reader'[Program] = reader[Program]
    BY <1>1, <1>7, <2>1, StartCalm
  <2> QED
    BY <1>1, <1>7, <2>2 DEF Running
<1>8. CASE RunConsumer
  BY <1>6, <1>7, <1>8, ProgramRunning DEF RunConsumer, programVars
<1> QED
  BY <1>3, <1>4, <1>5, <1>8 DEF SystemNext

LEMMA ReadyNextInv ==
  ASSUME NEW pol \in Policies, Setting(pol), ReadyInv(pol), [SystemNext]_allVars
  PROVE  ReadyInv(pol)'
<1>1. SystemInv'
  BY SystemNextInv DEF ReadyInv
<1>2. Inv'
  BY <1>1 DEF SystemInv
<1> QED
  BY <1>1, <1>2, ServingKept, RunningKept DEF ReadyInv

LEMMA ReadyInitInv ==
  ASSUME NEW pol \in Policies, ReadyInit(pol)
  PROVE  ReadyInv(pol)
<1>1. SystemInv
  <2>1. [tp \in Topics |-> pol] \in [Topics -> AllPolicies]
    BY DEF AllPolicies
  <2> QED
    BY <2>1, SystemInitInv DEF ReadyInit
<1>2. Serving(pol)
  BY HandlerTypes DEF ReadyInit, InitWith, Serving, Declared, Busy
<1>3. Calm /\ Running
  BY ProgramAssumption
  DEF ReadyInit, InitWith, OthersInit, ProgramInit, Idle, Calm, Running
<1> QED
  BY <1>1, <1>2, <1>3 DEF ReadyInv

\* "All messages should be correctly decrypted regardless of CK rotation"
\* (tests/integration.rs): in the setting of that test no message, rotation or
\* key fetched ahead ever ends the consumer program.
THEOREM NeverEndsCorrect ==
  ASSUME NEW pol \in Policies, Setting(pol)
  PROVE  ReadyInit(pol) /\ SystemSteps => []NeverEnds
<1>1. ReadyInit(pol) => ReadyInv(pol)
  BY ReadyInitInv
<1>2. ReadyInv(pol) /\ [SystemNext]_allVars => ReadyInv(pol)'
  BY ReadyNextInv
<1>3. ReadyInv(pol) => NeverEnds
  BY DEF ReadyInv, Running, NeverEnds
<1> QED
  BY <1>1, <1>2, <1>3, PTL DEF SystemSteps
==============================================================================
