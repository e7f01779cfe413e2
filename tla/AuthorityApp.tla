----------------------------- MODULE AuthorityApp -----------------------------
(***************************************************************************)
(* The program examples/attribute_authority.rs: it starts the two handlers *)
(* of AttributeAuthority as tasks, only then registers its consumer, may   *)
(* replace its keys as a comment in it suggests, at most MaxGeneration     *)
(* times, and ends as soon as either task does, with all that is in it.    *)
(***************************************************************************)
EXTENDS AttributeAuthority

CONSTANTS
    Consumer, ConsumerAttributes    \* who is registered, and with what

ASSUME ConsumerAssumption ==
    Consumer \in Clients /\ ConsumerAttributes \in AttributeSets \ {{}}

VARIABLE main   \* main() is about to "register", may "update", is to "join" its
                \*   tasks, or has "ended"

appVars == <<vars, main>>

AppInit == Init /\ main = "register"

\* Registration waits for the tasks, which end only if they fail; a slip.
RegisterAfterJoin ==
    /\ main = "register"
    /\ main' = "update"
    /\ UNCHANGED vars

Register ==
    /\ main = "register"
    /\ SetAttributes(Consumer, ConsumerAttributes)
    /\ main' = "update"

\* update_abe_keys is awaited.
UpdateAbeKeys ==
    /\ main = "update"
    /\ \E u \in Updaters : CallUpdate(u) \/ Update(u)
    /\ UNCHANGED main

StartJoin ==
    /\ main = "update"
    /\ \A u \in Updaters : update[u].at = "idle"
    /\ main' = "join"
    /\ UNCHANGED vars

\* main() waits until both tasks have ended; a slip.
JoinBoth ==
    /\ main = "join"
    /\ pkHandler.at = "stopped" /\ skHandler.at = "stopped"
    /\ main' = "ended"
    /\ UNCHANGED vars

\* The handler of secret keys has failed: try_join! does not wait for the
\* other one, and the process ends.
TryJoin ==
    /\ main = "join"
    /\ skHandler.at = "stopped"
    /\ main' = "ended"
    /\ pkHandler' = Stopped
    /\ pkQueue' = <<>>
    /\ query' = [q \in Queries |->
           IF q \in PkQueries /\ query[q].st = "waiting"
           THEN Outcome("unanswered") ELSE query[q]]
    /\ UNCHANGED <<keyVars, attributes, skQueue, skHandler, held>>

Main == Register \/ UpdateAbeKeys \/ StartJoin \/ TryJoin

AppNext ==
    \/ Main
    \/ /\ \/ \E q \in PkQueries : SendPk(q)
          \/ \E q \in SkQueries : SendSk(q)
          \/ HandlePk
          \/ HandleSk
       /\ UNCHANGED main

\* The tasks of the program run.
AppSpec ==
    /\ AppInit /\ [][AppNext]_appVars
    /\ WF_appVars(Main)
    /\ WF_appVars(HandlePk /\ UNCHANGED main)
    /\ WF_appVars(HandleSk /\ UNCHANGED main)
-----------------------------------------------------------------------------
\* An authority that no longer makes secret keys does not go on to give its
\* public key to producers, who would lock content keys that no new consumer
\* can open.
BothOrNone == (skHandler.at = "stopped") ~> (pkHandler.at = "stopped")

\* A consumer whose query has not been handled when main() registers it, or
\* is sent later, gets its secret key, unless a query of another one ends the
\* program.
RegisteredAnswered ==
    \A q \in SkQueries :
        /\ query[q].st = "waiting" /\ main # "register"
        /\ Request[q] = [client |-> Consumer, form |-> "good"]
        ~> query[q].st = "replied" \/ skHandler.at = "stopped"
==============================================================================
