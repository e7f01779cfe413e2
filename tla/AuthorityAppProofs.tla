-------------------------- MODULE AuthorityAppProofs --------------------------
(***************************************************************************)
(* The theorems about AttributeAuthority hold of the program built from    *)
(* it: every step of the program is a step of the authority, but for the   *)
(* end of the process, and that end keeps both invariants.                 *)
(***************************************************************************)
EXTENDS AuthorityApp, AttributeAuthorityProofs

\* The end of the process is not a step of the authority: it takes the
\* handler of public keys away.
LEMMA AppSteps ==
  ASSUME [AppNext]_appVars
  PROVE  [Next]_vars \/ TryJoin
<1>1. Consumer \in Clients /\ ConsumerAttributes \in AttributeSets
  BY ConsumerAssumption
<1>2. CASE Register
  BY <1>1, <1>2 DEF Register, Next
<1>3. CASE UpdateAbeKeys
  BY <1>3 DEF UpdateAbeKeys, Next
<1>4. CASE StartJoin
  BY <1>4 DEF StartJoin
<1>5. CASE \/ \E q \in PkQueries : SendPk(q)
           \/ \E q \in SkQueries : SendSk(q)
           \/ HandlePk
           \/ HandleSk
  BY <1>5 DEF Next
<1>6. CASE UNCHANGED appVars
  BY <1>6 DEF appVars
<1> QED
  BY <1>2, <1>3, <1>4, <1>5, <1>6 DEF AppNext, Main

\* The process ends: public-key queries finish without a reply, and what the
\* handler of secret keys has issued stays issued.
LEMMA TryJoinInv ==
  ASSUME Inv, TryJoin
  PROVE  Inv'
<1>1. /\ TypeOK /\ GuardedKeys /\ InHand
      /\ QueueWaiting /\ RegisteredHeld /\ IssuedAttributesHeld
  BY DEF Inv
<1>2. UNCHANGED <<pk, msk, generation, update, attributes, skQueue, skHandler,
                  held>>
  BY DEF TryJoin, keyVars
<1>3. pkHandler' \in Handlers /\ pkHandler'.at = "stopped"
      /\ pkQueue' \in Seq(PkQueries)
  BY HandlerTypes DEF TryJoin, Stopped, Starting
<1>4. /\ query' \in [Queries -> Outcomes]
      /\ \A q \in SkQueries : query'[q] = query[q]
  <2>1. \A q \in SkQueries : q \notin PkQueries /\ q \in Queries
    BY QueriesAssumption DEF Queries
  <2> QED
    BY <1>1, <2>1, OutcomeTypes DEF TryJoin, TypeOK
<1>5. TypeOK'
  BY <1>1, <1>2, <1>3, <1>4 DEF TypeOK
<1>6. GuardedKeys'
  BY <1>1, <1>2, <1>3 DEF GuardedKeys
<1>7. InHand'
  BY <1>1, <1>2, <1>3, <1>4 DEF InHand
<1>8. QueueWaiting'
  <2>1. \A i \in 1..Len(skQueue) : skQueue[i] \in SkQueries
    BY <1>1 DEF TypeOK
  <2> QED
    BY <2>1, <1>1, <1>2, <1>4 DEF QueueWaiting
<1>9. RegisteredHeld' /\ IssuedAttributesHeld'
  BY <1>1, <1>2, <1>4 DEF RegisteredHeld, IssuedAttributesHeld
<1> QED
  BY <1>5, <1>6, <1>7, <1>8, <1>9 DEF Inv

LEMMA AppInvCorrect == AppSpec => []Inv
<1>1. AppInit => Inv
  BY InitInv DEF AppInit
<1>2. Inv /\ [AppNext]_appVars => Inv'
  BY AppSteps, TryJoinInv, NextInv
<1> QED
  BY <1>1, <1>2, PTL DEF AppSpec

LEMMA AppSerialCorrect == ASSUME SerialUpdates PROVE AppSpec => []Serial
<1>1. AppInit => Serial
  BY SerialInit DEF AppInit
<1>2. ASSUME Serial, TryJoin PROVE Serial'
  BY <1>2 DEF TryJoin, keyVars, Serial, KeysMatch
<1>3. Inv /\ Serial /\ [AppNext]_appVars => Serial'
  BY <1>2, AppSteps, SerialNext
<1> QED
  BY <1>1, <1>3, AppInvCorrect, PTL DEF AppSpec

\* In the program, too, which registers its consumer while the handlers are
\* already at work, a secret key is issued only for attributes its client was
\* registered with since it asked.
THEOREM AppIssuedAttributesHeldCorrect == AppSpec => []IssuedAttributesHeld
<1>1. Inv => IssuedAttributesHeld
  BY DEF Inv
<1> QED
  BY <1>1, AppInvCorrect, PTL

\* The program awaits the one update it has under way, so that its public key
\* and master key are of one pair whenever none is.
THEOREM AppKeysMatchCorrect ==
  ASSUME SerialUpdates PROVE AppSpec => []KeysMatch
<1>1. Serial => KeysMatch
  BY DEF Serial
<1> QED
  BY <1>1, AppSerialCorrect, PTL

\* The program never issues secret keys of a pair whose public key it does not
\* give out yet.
THEOREM AppMasterKeyNotAheadCorrect ==
  ASSUME SerialUpdates PROVE AppSpec => []MasterKeyNotAhead
<1>1. Serial => MasterKeyNotAhead
  BY DEF Serial, MasterKeyNotAhead
<1> QED
  BY <1>1, AppSerialCorrect, PTL

\* To the users of the program its keys are a KeyPair until it ends, and its
\* end replaces neither of them.
THEOREM AppRefinesKeyPairCorrect ==
  ASSUME SerialUpdates PROVE AppSpec => RefinesKeyPair
<1>1. AppInit => Pair!Init
  BY DEF AppInit, Init, Pair!Init
<1>2. ASSUME TryJoin PROVE UNCHANGED <<pk, msk>>
  BY <1>2 DEF TryJoin, keyVars
<1>3. Inv /\ Serial /\ [AppNext]_appVars => [Pair!Next]_(Pair!vars)
  BY <1>2, AppSteps, KeyPairStep DEF Pair!vars
<1> QED
  BY <1>1, <1>3, AppInvCorrect, AppSerialCorrect, PTL
  DEF AppSpec, RefinesKeyPair, Pair!Spec
==============================================================================
