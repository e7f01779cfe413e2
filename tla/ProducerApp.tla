----------------------------- MODULE ProducerApp ------------------------------
(***************************************************************************)
(* The program examples/producer.rs: the way the project itself uses the   *)
(* content keys of ProducerKeys.  One task initializes a current key and   *)
(* prepares a next one, then publishes for ever, rotating after every      *)
(* ROTATION_INTERVAL messages and preparing the key after next.  Every     *)
(* error of the library is unwrapped, so that an absent key ends the       *)
(* program; UnwrapsSucceed says that this never happens.                   *)
(***************************************************************************)
EXTENDS ProducerKeys, Sequences

CONSTANTS
    Main,               \* the task
    ContentTopic,       \* CONTENT_TOPIC
    RotationInterval,   \* ROTATION_INTERVAL
    MaxMessages         \* bound on the messages of a behaviour

ASSUME AppAssumption ==
    /\ Main \in Tasks
    /\ ContentTopic \in Topics /\ ContentTopic \in Manages[Main]
    /\ RotationInterval \in Nat \ {0}
    /\ MaxMessages \in Nat

VARIABLES
    at,             \* where main() is
    messageCount,   \* message_count
    sent            \* history: the messages in the order they were put

appVars == <<at, messageCount, sent>>

AppInit ==
    /\ Init
    /\ at = "initialize"
    /\ messageCount = 0
    /\ sent = <<>>

\* Mistaken forms of the three operators that follow: a rotation one message
\* late, a new current key instead of a rotation, no preparation after it.
RotationDueLate(count) == count % (RotationInterval + 1) = 0
InitializeAfterPut(count) ==
    IF count % RotationInterval = 0 THEN "initialize" ELSE "loop"
LoopAfterRotation == "loop"

\* message_count.is_multiple_of(ROTATION_INTERVAL)
RotationDue(count) == count % RotationInterval = 0

\* What follows a put, and what follows a rotation.
AfterPut(count) == IF RotationDue(count) THEN "rotate" ELSE "loop"
AfterRotation == "prepare"

InitializeKey ==
    /\ at = "initialize"
    /\ \/ InitializeGenerate(Main, ContentTopic) /\ at' = at
       \/ InitializeSetCurrent(Main) /\ at' = "prepare"
    /\ UNCHANGED <<messageCount, sent>>

PrepareKey ==
    /\ at = "prepare"
    /\ \/ PrepareGenerate(Main, ContentTopic) /\ at' = at
       \/ PrepareSetNext(Main) /\ at' = "loop"
    /\ UNCHANGED <<messageCount, sent>>

\* The loop body up to the put: current key, next key, encrypt and put.
PublishMessage ==
    /\ at = "loop"
    /\ messageCount < MaxMessages
    /\ \/ /\ PublishGetCurrent(Main, ContentTopic) \/ PublishGetNext(Main)
          /\ UNCHANGED appVars
       \/ /\ PublishPut(Main)
          /\ sent' = Append(sent, Encrypt(ContentTopic, tasks[Main].ck,
                                          tasks[Main].next))
          /\ messageCount' = messageCount + 1
          /\ at' = AfterPut(messageCount + 1)

RotateKey ==
    /\ at = "rotate"
    /\ \/ /\ RotateGetNext(Main, ContentTopic) \/ RotateSetCurrent(Main)
          /\ at' = at
       \/ RotateRemoveNext(Main) /\ at' = AfterRotation
    /\ UNCHANGED <<messageCount, sent>>

AppNext == InitializeKey \/ PrepareKey \/ PublishMessage \/ RotateKey

AppSpec == AppInit /\ [][AppNext]_<<vars, appVars>>
-----------------------------------------------------------------------------
\* No unwrap of the program fails: when the loop asks for the current key
\* there is one, and when it rotates there is a next key.
UnwrapsSucceed ==
    tasks[Main] = Idle =>
        /\ at = "loop" => currentCks[ContentTopic] # None
        /\ at = "rotate" => nextCks[ContentTopic] # None

\* A consumer that reads Next-CK-ID is never surprised: each message is
\* encrypted with the key of the message before or with the one that message
\* announced, and the announcement does not change while the key does not.
HeaderChain ==
    \A i \in 1..(Len(sent) - 1) :
        LET this == sent[i]
            then == sent[i + 1]
        IN  /\ this.nextId # None
            /\ \/ then.ckId = this.ckId /\ then.nextId = this.nextId
               \/ then.ckId = this.nextId /\ then.nextId # this.nextId

\* No content key encrypts more than ROTATION_INTERVAL messages.
KeyBudget ==
    \A k \in Keys :
        Cardinality({i \in DOMAIN sent : sent[i].body = k}) <= RotationInterval
==============================================================================
