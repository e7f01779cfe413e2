----------------------------- MODULE ConsumerApp ------------------------------
(***************************************************************************)
(* The program examples/consumer.rs, which the integration tests mirror:   *)
(* it obtains a secret key, subscribes to a topic, and decrypts one sample *)
(* after the other.  It asks for a secret key again only while it has      *)
(* none, and its first error ends it.                                      *)
(***************************************************************************)
EXTENDS KeyDelivery

CONSTANT Program        \* the program's task

ASSUME ProgramAssumption == Program \in Readers

VARIABLES
    stage,      \* where main() is
    inbox,      \* the subscriber's queue; its head is the sample in hand
    received,   \* history: every sample the subscriber was given
    output      \* history: the messages decrypted, in order

programVars == <<stage, inbox, received, output>>

ProgramInit ==
    stage = "connect" /\ inbox = <<>> /\ received = <<>> /\ output = <<>>

Subscribed == stage \in {"receive", "key", "decrypt", "await"}

\* Only the latest sample is kept; a slip.
KeepLatest(m) == inbox' = <<m>> /\ received' = Append(received, m)

Enqueue(m) == inbox' = Append(inbox, m) /\ received' = Append(received, m)

\* A message that is put reaches the subscriber, once there is one, unless the
\* network drops it.
Deliver(m) ==
    \/ Subscribed /\ Enqueue(m)
    \/ (~ Subscribed \/ MayTimeOut) /\ UNCHANGED <<inbox, received>>

\* get_secret_key, which may return None.
Connect ==
    /\ stage = "connect"
    /\ \/ GetSecretKey(Owner[Program])
       \/ MayTimeOut /\ UNCHANGED vars
    /\ stage' = "subscribe"
    /\ UNCHANGED <<inbox, received, output>>

Subscribe ==
    /\ stage = "subscribe"
    /\ stage' = "receive"
    /\ UNCHANGED <<vars, inbox, received, output>>

Receive ==
    /\ stage = "receive"
    /\ inbox # <<>>
    /\ stage' = IF sk[Owner[Program]] = None THEN "key" ELSE "decrypt"
    /\ UNCHANGED <<vars, inbox, received, output>>

\* "No secret key" is an error like any other.
RetryKey ==
    /\ stage = "key"
    /\ \/ GetSecretKey(Owner[Program]) /\ stage' = "decrypt"
       \/ MayTimeOut /\ UNCHANGED vars /\ stage' = "ended"
    /\ UNCHANGED <<inbox, received, output>>

StartDecrypt ==
    /\ stage = "decrypt"
    /\ Decrypt(Program, Head(inbox), "full")
    /\ stage' = "await"
    /\ UNCHANGED <<inbox, received, output>>

\* An error is logged and the sample skipped; a slip.
SkipOnError == stage' = "receive" /\ inbox' = Tail(inbox) /\ UNCHANGED output

EndOnError == stage' = "ended" /\ UNCHANGED <<inbox, output>>

FinishDecrypt ==
    /\ stage = "await"
    /\ reader[Program].at = "idle"
    /\ \/ /\ reader[Program].result = "plaintext"
          /\ output' = Append(output, Head(inbox))
          /\ inbox' = Tail(inbox)
          /\ stage' = "receive"
       \/ /\ reader[Program].result # "plaintext"
          /\ EndOnError
    /\ UNCHANGED <<vars, received>>

RunProgram == \/ Connect \/ Subscribe \/ Receive \/ RetryKey \/ StartDecrypt
              \/ FinishDecrypt
==============================================================================
