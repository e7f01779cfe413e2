------------------------------ MODULE KeyAccess -------------------------------
(***************************************************************************)
(* What the delivery of content keys promises about who comes to know      *)
(* them.  A consumer learns the key that a call asks for only if its       *)
(* attributes satisfy a policy that the topic has had since the call asked *)
(* and its secret key is not of a pair whose public key had been replaced  *)
(* before.  Every call ends in one step, with the key or with an error,    *)
(* and what a consumer knows it keeps: changing a policy, or the keys of   *)
(* the authority, takes effect on all keys that are asked for afterwards   *)
(* and on no others.  KeyDelivery implements it.                           *)
(***************************************************************************)
EXTENDS Naturals

CONSTANTS
    Topics, Messages, Keys, Id(_), None, Consumers, Attributes, Readers, Owner,
    Policies, Malformed

VARIABLES
    policy,     \* topic -> policy, or None
    pk,         \* the pair of the authority's public key
    known,      \* consumer -> the content keys it knows
    call,       \* what each task's call is about and where it is
    asked       \* the public key when each call asked, and the policies since

vars == <<policy, pk, known, call, asked>>

Init ==
    /\ policy = [tp \in Topics |-> None]
    /\ pk = 0
    /\ known = [c \in Consumers |-> {}]
    /\ call = [r \in Readers |-> [at |-> "idle", msg |-> None, id |-> None,
                                  sk |-> None, result |-> "none"]]
    /\ asked = [r \in Readers |-> [policies |-> {}, pk |-> 0]]

ReplaceKeys ==
    /\ pk' = pk + 1
    /\ UNCHANGED <<policy, known, call, asked>>

ChangePolicies ==
    /\ policy' \in [Topics -> Policies \cup {Malformed, None}]
    /\ asked' = [r \in Readers |->
           IF call[r].at = "asked"
           THEN [asked[r] EXCEPT !.policies = @ \cup {policy'[call[r].msg.topic]}]
           ELSE asked[r]]
    /\ UNCHANGED <<pk, known, call>>

\* Some message is read with a secret key of the present or an earlier pair.
Start(r) ==
    /\ call[r].at = "idle"
    /\ call'[r] \in [at : {"called"}, msg : Messages, id : {Id(k) : k \in Keys},
                    sk : 0..pk, result : {"none"}]
    /\ call' = [call EXCEPT ![r] = call'[r]]
    /\ UNCHANGED <<policy, pk, known, asked>>

Ask(r) ==
    /\ call[r].at = "called"
    /\ call' = [call EXCEPT ![r].at = "asked"]
    /\ asked' = [asked EXCEPT ![r] =
           [policies |-> {policy[call[r].msg.topic]}, pk |-> pk]]
    /\ UNCHANGED <<policy, pk, known>>

Entitled(r) ==
    /\ call[r].at = "asked"
    /\ asked[r].pk <= call[r].sk
    /\ \E pol \in asked[r].policies \cap Policies :
           \E alternative \in pol : alternative \subseteq Attributes[Owner[r]]

\* The key that the call is for is known already, or is learnt.
Succeed(r, k) ==
    /\ call[r].at # "idle"
    /\ Id(k) = call[r].id
    /\ \/ k \in known[Owner[r]] /\ UNCHANGED known
       \/ Entitled(r) /\ known' = [known EXCEPT ![Owner[r]] = @ \cup {k}]
    /\ call' = [call EXCEPT ![r].at = "idle", ![r].result = "key"]
    /\ UNCHANGED <<policy, pk, asked>>

\* Calls fail, several at once when the producer ends.
Fail(rs) ==
    /\ \A r \in rs : call[r].at # "idle"
    /\ call' = [r \in Readers |->
           IF r \in rs THEN [call[r] EXCEPT !.at = "idle", !.result = "error"]
           ELSE call[r]]
    /\ UNCHANGED <<policy, pk, known, asked>>

Next ==
    \/ ReplaceKeys
    \/ ChangePolicies
    \/ \E r \in Readers : Start(r) \/ Ask(r) \/ \E k \in Keys : Succeed(r, k)
    \/ \E rs \in SUBSET Readers : Fail(rs)

Spec == Init /\ [][Next]_vars
==============================================================================
