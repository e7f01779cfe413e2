------------------------------- MODULE EndToEnd -------------------------------
(***************************************************************************)
(* The whole of the system as the integration tests and the example        *)
(* programs put it together: the producer program with its rotations       *)
(* (ProducerApp), its query handler, the authority and the access manager  *)
(* behind it (KeyDelivery), and the consumer program (ConsumerApp).  The   *)
(* producer's store and what it publishes are the variables keys and       *)
(* published of both sides.                                                *)
(***************************************************************************)
EXTENDS ConsumerApp

CONSTANTS ContentTopic, RotationInterval, MaxMessages

ASSUME SystemAssumption ==
    /\ ContentTopic \in Topics
    /\ RotationInterval \in Nat \ {0}
    /\ MaxMessages \in Nat
    /\ Inputs.messages = Messages /\ "full" \in Forms

VARIABLES
    currentCks, nextCks, producerTasks, elders,     \* ProducerKeys
    producerAt, messageCount, sent                  \* ProducerApp

appVars == <<currentCks, nextCks, producerTasks, elders, producerAt,
             messageCount, sent>>
allVars == <<vars, programVars, appVars>>

App == INSTANCE ProducerApp WITH
    Tasks <- {"main"}, Main <- "main", Manages <- [t \in {"main"} |-> Topics],
    InitializeAnyTime <- TRUE, MaxPublished <- MaxMessages,
    tasks <- producerTasks, at <- producerAt

OthersInit == ProgramInit /\ App!AppInit

SystemInit == Init /\ OthersInit

\* A step of the producer program; a put delivers its message.
RunProducer ==
    /\ App!AppNext
    /\ IF sent' = sent THEN UNCHANGED <<inbox, received>>
       ELSE Deliver(sent'[Len(sent')])
    /\ UNCHANGED <<authorityVars, policy, handler, queue, consumerVars, asked,
                   stage, output>>

\* A step of the consumer program; whatever else shares its consumer fetches
\* announced keys ahead.
RunConsumer ==
    /\ \/ RunProgram
       \/ /\ \/ \E r \in Readers : Run(r)
             \/ \E r \in Readers \ {Program}, m \in published : Prefetch(r, m)
          /\ UNCHANGED programVars
    /\ UNCHANGED appVars

RunServices ==
    /\ HandleCk \/ Others
    /\ UNCHANGED <<programVars, appVars>>

SystemNext == RunProducer \/ RunConsumer \/ RunServices

\* The programs and the handler run; nothing else has to happen.
SystemFairness ==
    /\ WF_allVars(HandleCk /\ UNCHANGED <<programVars, appVars>>)
    /\ WF_allVars(RunProgram /\ UNCHANGED appVars)
    /\ WF_allVars(Run(Program) /\ UNCHANGED <<programVars, appVars>>)

SystemSteps == [][SystemNext]_allVars /\ SystemFairness

System == SystemInit /\ SystemSteps
-----------------------------------------------------------------------------
\* Put together, the parts behave as KeyDelivery assumes: what the producer
\* program does to its keys and its messages, rotations included, is what
\* Publishing allows.
ComposesToDelivery == [][Next]_vars

\* What the consumer program has decrypted is what its subscriber received,
\* in order and without a gap, whatever ends it.
NothingSkipped ==
    Len(output) <= Len(received) /\ output = SubSeq(received, 1, Len(output))

\* The program fails to open a content key only because its secret key or its
\* attributes are out of date: never because the producer locked the key
\* under an old public key (examples/attribute_authority.rs: after an update
\* the consumer has to get a new secret key, and that is all).
AccessErrorMeansOutdated ==
    stage = "ended" /\ reader[Program].result = "FailedToDecryptContentKey" =>
        \/ reader[Program].sk < pk
        \/ \E pol \in asked[Program].policies \cap Policies :
              ~ Satisfies(Attributes[Owner[Program]], pol)

\* "All messages should be correctly decrypted regardless of CK rotation"
\* (tests/integration.rs): in the setting of that test, once the handler of the
\* producer has declared its queryable, nothing ends the consumer program, ...
NeverEnds == stage # "ended"

\* ... and every message received is decrypted.
AllReceivedDecrypted ==
    \A n \in 1..MaxMessages : Len(received) = n ~> Len(output) >= n
==============================================================================
