--------------------------- MODULE ProducerAppProofs ---------------------------
(***************************************************************************)
(* Theorems about the producer program for any rotation interval, any      *)
(* number of messages and whatever other tasks share the producer without  *)
(* using it.  Every step of the program is a step of ProducerKeys, so that *)
(* the invariant of ProducerKeysProofs holds; AppInv adds to it what main  *)
(* knows of the two slots at each place, and how the messages put so far   *)
(* relate to them.                                                         *)
(***************************************************************************)
EXTENDS ProducerApp, ProducerKeysProofs, FiniteSetTheorems

MainTask == tasks[Main]
Current == currentCks[ContentTopic]
Upcoming == nextCks[ContentTopic]

\* The messages that are encrypted with key k, by their numbers.
Uses(k) == {i \in DOMAIN sent : sent[i].body = k}

AppTypeOK ==
    /\ at \in {"initialize", "prepare", "loop", "rotate"}
    /\ messageCount \in Nat
    /\ sent \in Seq(Messages)
    /\ \A i \in 1..Len(sent) :
          /\ sent[i].ckId = Id(sent[i].body)
          /\ sent[i].body \in Known[ContentTopic]

\* What main is in the middle of at each place, and what the slots are then.
MainAt ==
    /\ MainTask # Idle => MainTask.topic = ContentTopic
    /\ at = "initialize" => MainTask.op \in {"idle", "initialize"} /\ sent = <<>>
    /\ at = "prepare" => MainTask.op \in {"idle", "prepare"} /\ Current # None
    /\ at = "loop" =>
          /\ MainTask.op \in {"idle", "publish", "put"}
          /\ Current # None /\ Upcoming # None /\ Current # Upcoming
          /\ MainTask.op # "idle" => MainTask.ck = Current
          /\ MainTask.op = "put" => MainTask.next = Id(Upcoming)
    /\ at = "rotate" =>
          /\ MainTask.op \in {"idle", "rotate", "rotated"}
          /\ Current # None /\ Upcoming # None
          /\ MainTask.op # "idle" => MainTask.ck = Upcoming
          /\ MainTask.op = "rotated" <=> Current = Upcoming

\* The last message is encrypted with the current key and announces the next
\* one, or announces the current key, which no message is encrypted with yet.
LastMessage ==
    LET last == sent[Len(sent)]
        announced == last.nextId = Id(Current) /\ Uses(Current) = {}
        used == last.body = Current /\ last.nextId = Id(Upcoming)
    IN  sent # <<>> =>
          /\ at = "prepare" => announced
          /\ at = "loop" => announced \/ used
          /\ at = "rotate" => IF MainTask.op = "rotated" THEN announced ELSE used

\* The next key, or the one that is about to be it, encrypts no message yet;
\* the current one as many as were put since the last rotation.
NextUnused ==
    /\ at \in {"loop", "rotate"} => Uses(Upcoming) = {}
    /\ MainTask.op = "prepare" => Uses(MainTask.ck) = {}

CurrentUses ==
    at = "loop" => Cardinality(Uses(Current)) <= messageCount % RotationInterval

AppInv ==
    /\ Inv /\ AppTypeOK /\ MainAt /\ LastMessage /\ NextUnused /\ CurrentUses
    /\ HeaderChain /\ KeyBudget
-----------------------------------------------------------------------------
USE AppAssumption

LEMMA AppStepIsStep == AppNext => Step(Main)
  BY DEF AppNext, InitializeKey, PrepareKey, PublishMessage, RotateKey, Step

LEMMA AppInvParts ==
  ASSUME AppInv
  PROVE  /\ TypeOK /\ TaskHolds /\ SlotsKnown /\ GeneratedPrivate
         /\ AppTypeOK /\ MainAt /\ LastMessage /\ NextUnused /\ CurrentUses
         /\ HeaderChain /\ KeyBudget
         /\ tasks[Main] \in TaskStates
         /\ Current \in Keys \cup {None} /\ Upcoming \in Keys \cup {None}
  BY DEF AppInv, Inv, TypeOK, Current, Upcoming

\* While no message is put, there is nothing to show of those that were.
LEMMA NothingPut ==
  ASSUME AppInv, UNCHANGED <<sent, messageCount>>,
         at' \in {"initialize", "prepare", "loop", "rotate"},
         \A tp \in Topics : Known[tp] \subseteq Known'[tp]
  PROVE  /\ AppTypeOK' /\ HeaderChain' /\ KeyBudget'
         /\ \A k : Uses(k)' = Uses(k)
<1>1. AppTypeOK'
  BY AppInvParts DEF AppTypeOK
<1>2. HeaderChain' /\ KeyBudget'
  BY AppInvParts DEF HeaderChain, KeyBudget
<1>3. \A k : Uses(k)' = Uses(k)
  BY DEF Uses
<1> QED
  BY <1>1, <1>2, <1>3

\* A key that has just been drawn encrypts no message.
LEMMA FreshUnused ==
  ASSUME AppInv, NEW k \in Fresh
  PROVE  Uses(k) = {}
<1>1. k \notin Known[ContentTopic]
  BY KnownAdded
<1>2. \A i \in DOMAIN sent : sent[i].body \in Known[ContentTopic]
  BY AppInvParts DEF AppTypeOK
<1> QED
  BY <1>1, <1>2 DEF Uses

\* generate_content_key, at the start or for the key after next.
LEMMA GenerateApp ==
  ASSUME AppInv, Inv', UNCHANGED appVars,
         \/ at = "initialize" /\ GenerateContentKey(Main, ContentTopic, "initialize")
         \/ at = "prepare" /\ GenerateContentKey(Main, ContentTopic, "prepare")
  PROVE  AppInv'
<1>1. PICK k \in Fresh, op \in {"initialize", "prepare"} :
         /\ keys' = AddCk(k, ContentTopic) /\ at = op
         /\ tasks' = [tasks EXCEPT ![Main] =
                [op |-> op, topic |-> ContentTopic, ck |-> k, next |-> None]]
         /\ UNCHANGED <<currentCks, nextCks>>
  BY DEF GenerateContentKey
<1>2. /\ MainTask'.op = op /\ MainTask'.topic = ContentTopic /\ MainTask'.ck = k
      /\ Current' = Current /\ Upcoming' = Upcoming
      /\ UNCHANGED <<at, messageCount, sent>>
  BY <1>1, AppInvParts DEF MainTask, Current, Upcoming, TypeOK, appVars
<1>3. \A tp \in Topics : Known[tp] \subseteq Known'[tp]
  BY <1>1, AppInvParts, AddCkKnown DEF TypeOK
<1>4. /\ AppTypeOK' /\ HeaderChain' /\ KeyBudget'
      /\ \A l : Uses(l)' = Uses(l)
  BY <1>2, <1>3, NothingPut, AppInvParts DEF AppTypeOK
<1>5. MainAt'
  BY <1>1, <1>2, AppInvParts DEF MainAt
<1>6. LastMessage'
  BY <1>1, <1>2, <1>4, AppInvParts DEF LastMessage
<1>7. NextUnused' /\ CurrentUses'
  BY <1>1, <1>2, <1>4, FreshUnused DEF NextUnused, CurrentUses
<1> QED
  BY <1>4, <1>5, <1>6, <1>7 DEF AppInv

\* The other steps that put no message leave the keys as they are.
LEMMA QuietStep ==
  ASSUME AppInv, Inv', UNCHANGED <<keys, sent, messageCount>>,
         at' \in {"initialize", "prepare", "loop", "rotate"},
         MainAt', LastMessage', NextUnused', CurrentUses'
  PROVE  AppInv'
  BY KeysUnchanged, NothingPut DEF AppInv

LEMMA InitializeSetCurrentApp ==
  ASSUME AppInv, Inv', at = "initialize", InitializeSetCurrent(Main),
         at' = "prepare", UNCHANGED <<messageCount, sent>>
  PROVE  AppInv'
<1>1. /\ MainTask.op = "initialize" /\ MainTask.ck \in Keys
      /\ MainTask.topic = ContentTopic /\ sent = <<>>
  BY AppInvParts, KnownKeys
  DEF InitializeSetCurrent, MainAt, MainTask, TaskHolds, Idle
<1>2. Current' = MainTask.ck /\ MainTask'.op = "idle" /\ MainTask' = Idle
  BY <1>1, AppInvParts
  DEF InitializeSetCurrent, SetCurrentCk, Current, MainTask, TypeOK, Idle
<1>3. MainAt' /\ LastMessage' /\ NextUnused' /\ CurrentUses'
  BY <1>1, <1>2, NoneAssumption DEF MainAt, LastMessage, NextUnused, CurrentUses
<1>4. keys' = keys
  BY DEF InitializeSetCurrent
<1> QED
  BY <1>3, <1>4, QuietStep

LEMMA PrepareSetNextApp ==
  ASSUME AppInv, Inv', at = "prepare", PrepareSetNext(Main),
         at' = "loop", UNCHANGED <<messageCount, sent>>
  PROVE  AppInv'
<1> DEFINE k == MainTask.ck
<1>1. /\ MainTask.op = "prepare" /\ k \in Keys /\ MainTask.topic = ContentTopic
      /\ Current # None /\ Uses(k) = {}
  BY AppInvParts, KnownKeys
  DEF PrepareSetNext, MainAt, MainTask, TaskHolds, Idle, NextUnused
<1>2. k # Current
  BY <1>1, AppInvParts DEF GeneratedPrivate, Generating, MainTask, Current
<1>3. /\ Current' = Current /\ Upcoming' = k
      /\ MainTask'.op = "idle" /\ MainTask' = Idle /\ keys' = keys
  BY <1>1, AppInvParts
  DEF PrepareSetNext, SetNextCk, Current, Upcoming, MainTask, TypeOK, Idle
<1>4. \A l : Uses(l)' = Uses(l)
  BY NothingPut, KeysUnchanged, <1>3
<1> HIDE DEF k
<1>5. MainAt'
  BY <1>1, <1>2, <1>3, NoneAssumption DEF MainAt
<1>6. LastMessage'
  BY <1>3, <1>4, AppInvParts DEF LastMessage
<1>7. NextUnused'
  BY <1>1, <1>3, <1>4 DEF NextUnused
<1>8. CurrentUses'
  <2>1. Uses(Current) = {}
    BY AppInvParts, <1>1 DEF LastMessage, Uses
  <2>2. Cardinality(Uses(Current)') = 0
    BY <1>3, <1>4, <2>1, FS_EmptySet
  <2>3. messageCount % RotationInterval \in Nat
    BY AppInvParts DEF AppTypeOK
  <2> QED
    BY <2>2, <2>3, <1>3 DEF CurrentUses
<1> QED
  BY <1>3, <1>5, <1>6, <1>7, <1>8, QuietStep

LEMMA PublishGetApp ==
  ASSUME AppInv, Inv', at = "loop", UNCHANGED appVars,
         PublishGetCurrent(Main, ContentTopic) \/ PublishGetNext(Main)
  PROVE  AppInv'
<1>1. /\ UNCHANGED <<keys, at, messageCount, sent>>
      /\ Current' = Current /\ Upcoming' = Upcoming
  BY DEF PublishGetCurrent, PublishGetNext, storeVars, appVars, Current, Upcoming
<1>2. \A l : Uses(l)' = Uses(l)
  BY NothingPut, KeysUnchanged, <1>1
<1>3. MainAt'
  <2>1. CASE PublishGetCurrent(Main, ContentTopic)
    <3>1. /\ MainTask'.op = "publish" /\ MainTask'.topic = ContentTopic
          /\ MainTask'.ck = Current
      BY <2>1, AppInvParts DEF PublishGetCurrent, MainTask, Current, TypeOK
    <3> QED
      BY <1>1, <3>1, AppInvParts DEF MainAt
  <2>2. CASE PublishGetNext(Main)
    <3>1. /\ MainTask.op = "publish" /\ MainTask # Idle
          /\ MainTask'.op = "put" /\ MainTask'.topic = MainTask.topic
          /\ MainTask'.ck = MainTask.ck
          /\ MainTask'.next = NextId(MainTask.topic)
      BY <2>2, AppInvParts DEF PublishGetNext, MainTask, TypeOK, TaskStates, Idle
    <3>2. MainTask'.next = Id(Upcoming)
      BY <3>1, AppInvParts DEF MainAt, NextId, Upcoming
    <3> QED
      BY <1>1, <3>1, <3>2, AppInvParts DEF MainAt
  <2> QED
    BY <2>1, <2>2
<1>4. MainTask'.op \in {"publish", "put"}
  BY AppInvParts
  DEF PublishGetCurrent, PublishGetNext, MainTask, TypeOK, TaskStates
<1>5. LastMessage'
  BY <1>1, <1>2, AppInvParts DEF LastMessage
<1>6. NextUnused'
  BY <1>1, <1>2, <1>4, AppInvParts DEF NextUnused
<1>7. CurrentUses'
  BY <1>1, <1>2, AppInvParts DEF CurrentUses
<1> QED
  BY <1>1, <1>3, <1>5, <1>6, <1>7, AppInvParts, QuietStep DEF AppTypeOK

LEMMA RotateApp ==
  ASSUME AppInv, Inv', at = "rotate", UNCHANGED <<messageCount, sent>>,
         \/ RotateGetNext(Main, ContentTopic) /\ at' = at
         \/ RotateSetCurrent(Main) /\ at' = at
         \/ RotateRemoveNext(Main) /\ at' = "prepare"
  PROVE  AppInv'
<1>1. keys' = keys
  BY DEF RotateGetNext, RotateSetCurrent, RotateRemoveNext, storeVars
<1>2. \A l : Uses(l)' = Uses(l)
  BY NothingPut, KeysUnchanged, <1>1
<1>3. CurrentUses'
  BY DEF CurrentUses
<1>4. CASE RotateGetNext(Main, ContentTopic) /\ at' = at
  <2>1. /\ MainTask = Idle /\ MainTask'.op = "rotate"
        /\ MainTask'.topic = ContentTopic /\ MainTask'.ck = Upcoming
        /\ Current' = Current /\ Upcoming' = Upcoming
    BY <1>4, AppInvParts
    DEF RotateGetNext, storeVars, MainTask, Current, Upcoming, TypeOK
  <2>2. MainTask.op = "idle"
    BY <2>1 DEF Idle
  <2>3. MainAt'
    BY <1>4, <2>1, <2>2, AppInvParts DEF MainAt
  <2>4. LastMessage'
    BY <1>2, <1>4, <2>1, <2>2, AppInvParts DEF LastMessage
  <2>5. NextUnused'
    BY <1>2, <1>4, <2>1, AppInvParts DEF NextUnused
  <2> QED
    BY <1>1, <1>3, <1>4, <2>3, <2>4, <2>5, QuietStep
<1>5. CASE RotateSetCurrent(Main) /\ at' = at
  <2>1. /\ MainTask.op = "rotate" /\ MainTask # Idle
        /\ MainTask.topic = ContentTopic /\ MainTask.ck = Upcoming
    BY <1>5, AppInvParts DEF RotateSetCurrent, MainTask, MainAt, Idle
  <2>2. /\ MainTask'.op = "rotated" /\ MainTask'.topic = ContentTopic
        /\ MainTask'.ck = Upcoming
        /\ Current' = Upcoming /\ Upcoming' = Upcoming
    BY <1>5, <2>1, AppInvParts
    DEF RotateSetCurrent, SetCurrentCk, MainTask, Current, Upcoming, TypeOK,
        TaskStates
  <2>3. MainAt'
    BY <1>5, <2>2, AppInvParts DEF MainAt
  <2>4. LastMessage'
    BY <1>2, <1>5, <2>1, <2>2, AppInvParts DEF LastMessage, NextUnused
  <2>5. NextUnused'
    BY <1>2, <1>5, <2>2, AppInvParts DEF NextUnused
  <2> QED
    BY <1>1, <1>3, <1>5, <2>3, <2>4, <2>5, QuietStep
<1>6. CASE RotateRemoveNext(Main) /\ at' = "prepare"
  <2>1. MainTask.op = "rotated"
    BY <1>6 DEF RotateRemoveNext, MainTask
  <2>2. /\ MainTask' = Idle /\ MainTask'.op = "idle" /\ Current' = Current
    BY <1>6, AppInvParts DEF RotateRemoveNext, MainTask, Current, TypeOK, Idle
  <2>3. MainAt'
    BY <1>6, <2>2, AppInvParts DEF MainAt
  <2>4. LastMessage'
    BY <1>2, <1>6, <2>1, <2>2, AppInvParts DEF LastMessage
  <2>5. NextUnused'
    BY <1>6, <2>2 DEF NextUnused
  <2> QED
    BY <1>1, <1>3, <1>6, <2>3, <2>4, <2>5, QuietStep
<1> QED
  BY <1>4, <1>5, <1>6

\* Counting up to the next multiple.
LEMMA NextRemainder ==
  ASSUME NEW R \in Nat \ {0}, NEW n \in Nat
  PROVE  /\ n % R \in Nat /\ (n % R) + 1 <= R
         /\ (n + 1) % R # 0 => (n + 1) % R = (n % R) + 1
<1> DEFINE q == n \div R
           p == (n + 1) \div R
           r == n % R
           s == (n + 1) % R
<1>1. /\ q \in Int /\ r \in 0..(R - 1) /\ n = R * q + r
      /\ p \in Int /\ s \in 0..(R - 1) /\ n + 1 = R * p + s
  OBVIOUS
<1> HIDE DEF p, q, r, s
<1>2. R * (p - q) = r + 1 - s
  BY <1>1
<1>3. CASE p - q <= 0 /\ p - q >= 0
  BY <1>1, <1>2, <1>3 DEF r, s
<1>4. CASE p - q <= -1
  <2>1. R * (p - q) <= -R
    BY <1>1, <1>4
  <2> QED
    BY <1>1, <1>2, <2>1
<1>5. CASE p - q >= 1
  <2>1. R * (p - q) >= R
    BY <1>1, <1>5
  <2>2. r + 1 - s >= R
    BY <1>2, <2>1
  <2>3. s = 0 /\ r = R - 1
    BY <1>1, <2>2
  <2> QED
    BY <2>3, <1>1 DEF r, s
<1> QED
  BY <1>1, <1>3, <1>4, <1>5

LEMMA UsesAfterPut ==
  ASSUME AppInv, NEW m \in Messages, sent' = Append(sent, m)
  PROVE  /\ Uses(m.body)' = Uses(m.body) \cup {Len(sent) + 1}
         /\ \A k : k # m.body => Uses(k)' = Uses(k)
         /\ \A k : IsFiniteSet(Uses(k)) /\ Len(sent) + 1 \notin Uses(k)
<1>1. sent \in Seq(Messages)
  BY AppInvParts DEF AppTypeOK
<1>2. /\ DOMAIN sent = 1..Len(sent) /\ Len(sent) \in Nat
      /\ DOMAIN sent' = 1..(Len(sent) + 1)
      /\ sent'[Len(sent) + 1] = m
      /\ \A i \in 1..Len(sent) : sent'[i] = sent[i]
  BY <1>1
<1>3. \A k : Uses(k)' = {i \in 1..(Len(sent) + 1) : sent'[i].body = k}
  BY <1>2 DEF Uses
<1>4. \A k : Uses(k) \subseteq 1..Len(sent)
  BY <1>2 DEF Uses
<1>5. \A k : IsFiniteSet(Uses(k)) /\ Len(sent) + 1 \notin Uses(k)
  <2>1. IsFiniteSet(1..Len(sent))
    BY <1>2, FS_Interval
  <2> QED
    BY <1>2, <1>4, <2>1, FS_Subset
<1>6. \A k : Uses(k) = {i \in 1..Len(sent) : sent[i].body = k}
  BY <1>2 DEF Uses
<1>7. ASSUME NEW k
      PROVE  Uses(k)' = Uses(k) \cup (IF k = m.body THEN {Len(sent) + 1} ELSE {})
  <2> DEFINE n == Len(sent)
  <2>1. /\ Uses(k)' = {i \in 1..(n + 1) : sent'[i].body = k}
        /\ Uses(k) = {i \in 1..n : sent[i].body = k}
    BY <1>3, <1>6
  <2>2. /\ 1..(n + 1) = (1..n) \cup {n + 1} /\ sent'[n + 1] = m
        /\ \A i \in 1..n : sent'[i] = sent[i]
    BY <1>2
  <2> HIDE DEF n
  <2>3. \A i \in 1..n : sent'[i].body = k <=> sent[i].body = k
    BY <2>2
  <2>4. CASE k = m.body
    BY <2>1, <2>2, <2>3, <2>4 DEF n
  <2>5. CASE k # m.body
    BY <2>1, <2>2, <2>3, <2>5
  <2> QED
    BY <2>4, <2>5
<1> QED
  BY <1>5, <1>7

\* encrypt and put.
LEMMA PublishPutApp ==
  ASSUME AppInv, Inv', at = "loop", PublishPut(Main),
         sent' = Append(sent, Encrypt(ContentTopic, tasks[Main].ck,
                                      tasks[Main].next)),
         messageCount' = messageCount + 1, at' = AfterPut(messageCount + 1)
  PROVE  AppInv'
<1> DEFINE m == Encrypt(ContentTopic, tasks[Main].ck, tasks[Main].next)
           last == sent[Len(sent)]
<1>1. /\ MainTask.op = "put" /\ MainTask # Idle
      /\ tasks[Main].ck = Current /\ tasks[Main].next = Id(Upcoming)
      /\ tasks[Main].topic = ContentTopic
      /\ Current \in Keys /\ Upcoming \in Keys /\ Current # Upcoming
  BY AppInvParts DEF PublishPut, MainTask, MainAt, Idle
<1>2. /\ UNCHANGED <<keys, currentCks, nextCks>>
      /\ Current' = Current /\ Upcoming' = Upcoming
      /\ MainTask' = Idle /\ MainTask'.op = "idle"
  BY AppInvParts
  DEF PublishPut, storeVars, Current, Upcoming, MainTask, TypeOK, Idle
<1>3. /\ m.body = Current /\ m.ckId = Id(Current) /\ m.nextId = Id(Upcoming)
  BY <1>1 DEF Encrypt
<1>3a. PICK key \in Keys : key = Current
  BY <1>1
<1>4. m \in Messages
  <2>1. m \in published'
    BY <1>1 DEF PublishPut
  <2> QED
    BY <2>1 DEF Inv, TypeOK
<1>5. sent' = Append(sent, m) /\ sent \in Seq(Messages)
  BY AppInvParts DEF AppTypeOK
<1> HIDE DEF m
<1>6. /\ sent' \in Seq(Messages) /\ Len(sent') = Len(sent) + 1
      /\ Len(sent) \in Nat /\ sent'[Len(sent) + 1] = m
      /\ \A i \in 1..Len(sent) : sent'[i] = sent[i]
  BY <1>4, <1>5
<1>7. /\ Uses(key)' = Uses(key) \cup {Len(sent) + 1}
      /\ \A k : k # key => Uses(k)' = Uses(k)
      /\ \A k : IsFiniteSet(Uses(k)) /\ Len(sent) + 1 \notin Uses(k)
  BY <1>3a, <1>3, <1>4, <1>5, UsesAfterPut
<1>8. at' \in {"loop", "rotate"}
      /\ (at' = "loop" => (messageCount + 1) % RotationInterval # 0)
  BY DEF AfterPut, RotationDue
<1>9. AppTypeOK'
  <2>1. Known' = Known
    BY <1>2, KeysUnchanged
  <2>2. Current \in Known[ContentTopic]
    BY <1>1, AppInvParts, NoneAssumption DEF SlotsKnown, Current
  <2>3. \A i \in 1..Len(sent) : /\ sent'[i].ckId = Id(sent'[i].body)
                                /\ sent'[i].body \in Known[ContentTopic]
    BY <1>6, AppInvParts DEF AppTypeOK
  <2>4. messageCount' \in Nat
    BY AppInvParts DEF AppTypeOK
  <2> QED
    BY <1>3, <1>6, <1>8, <2>1, <2>2, <2>3, <2>4 DEF AppTypeOK
<1>10. MainAt'
  BY <1>1, <1>2, <1>8, AppInvParts DEF MainAt
<1>11. LastMessage'
  BY <1>2, <1>3, <1>6, <1>8 DEF LastMessage
<1>12. NextUnused'
  BY <1>3a, <1>1, <1>2, <1>7, <1>8, AppInvParts DEF NextUnused
<1>13. /\ Cardinality(Uses(key)) \in Nat
       /\ Cardinality(Uses(key)') = Cardinality(Uses(key)) + 1
       /\ Cardinality(Uses(key)) <= messageCount % RotationInterval
  BY <1>3a, <1>7, FS_AddElement, FS_CardinalityType, AppInvParts DEF CurrentUses
<1>14. /\ messageCount % RotationInterval \in Nat
       /\ (messageCount % RotationInterval) + 1 <= RotationInterval
       /\ (messageCount + 1) % RotationInterval # 0 =>
              (messageCount + 1) % RotationInterval
                 = (messageCount % RotationInterval) + 1
  BY NextRemainder, AppInvParts DEF AppTypeOK
<1>15. CurrentUses'
  BY <1>3a, <1>2, <1>8, <1>13, <1>14 DEF CurrentUses
<1>16. KeyBudget'
  <2>1. ASSUME NEW k \in Keys PROVE Cardinality(Uses(k)') <= RotationInterval
    <3>1. CASE k = key
      BY <1>13, <1>14, <3>1
    <3>2. CASE k # key
      BY <1>7, <3>2, AppInvParts DEF KeyBudget, Uses
    <3> QED
      BY <3>1, <3>2
  <2> QED
    BY <2>1 DEF KeyBudget, Uses
<1>17. HeaderChain'
  <2>1. SUFFICES ASSUME NEW i \in 1..Len(sent)
        PROVE  /\ sent'[i].nextId # None
               /\ \/ /\ sent'[i + 1].ckId = sent'[i].ckId
                     /\ sent'[i + 1].nextId = sent'[i].nextId
                  \/ /\ sent'[i + 1].ckId = sent'[i].nextId
                     /\ sent'[i + 1].nextId # sent'[i].nextId
    BY <1>6 DEF HeaderChain
  <2>2. CASE i # Len(sent)
    BY <1>6, <2>2, AppInvParts DEF HeaderChain
  <2>3. CASE i = Len(sent)
    <3>1. sent'[i] = last /\ sent'[i + 1] = m /\ sent # <<>>
      BY <1>6, <2>3
    <3>2. \/ last.nextId = Id(Current)
          \/ last.body = Current /\ last.nextId = Id(Upcoming)
      BY <3>1, AppInvParts DEF LastMessage
    <3>3. last.ckId = Id(last.body)
      BY <2>3, AppInvParts DEF AppTypeOK
    <3>4. Id(Current) # None /\ Id(Upcoming) # None /\ Id(Current) # Id(Upcoming)
      BY <1>1, NoneAssumption, IdInjective
    <3> HIDE DEF last
    <3> QED
      BY <1>3, <3>1, <3>2, <3>3, <3>4
  <2> QED
    BY <2>2, <2>3
<1> QED
  BY <1>9, <1>10, <1>11, <1>12, <1>15, <1>16, <1>17 DEF AppInv
-----------------------------------------------------------------------------
LEMMA AppNextInv == AppInv /\ [AppNext]_<<vars, appVars>> => AppInv'
<1> SUFFICES ASSUME AppInv, [AppNext]_<<vars, appVars>> PROVE AppInv'
  OBVIOUS
<1>1. Inv'
  BY AppStepIsStep, NextInv DEF AppInv, Next
<1>2. CASE UNCHANGED <<vars, appVars>>
  <2>1. /\ UNCHANGED <<keys, at, messageCount, sent>> /\ \A l : Uses(l)' = Uses(l)
        /\ Current' = Current /\ Upcoming' = Upcoming /\ MainTask' = MainTask
    BY <1>2 DEF vars, appVars, Uses, Current, Upcoming, MainTask
  <2>2. MainAt' /\ LastMessage' /\ NextUnused' /\ CurrentUses'
    BY <2>1, AppInvParts DEF MainAt, LastMessage, NextUnused, CurrentUses
  <2> QED
    BY <1>1, <2>1, <2>2, AppInvParts, QuietStep DEF AppTypeOK
<1>3. CASE InitializeKey
  BY <1>1, <1>3, GenerateApp, InitializeSetCurrentApp
  DEF InitializeKey, InitializeGenerate, appVars
<1>4. CASE PrepareKey
  BY <1>1, <1>4, GenerateApp, PrepareSetNextApp
  DEF PrepareKey, PrepareGenerate, appVars
<1>5. CASE PublishMessage
  BY <1>1, <1>5, PublishGetApp, PublishPutApp DEF PublishMessage
<1>6. CASE RotateKey
  BY <1>1, <1>6, RotateApp DEF RotateKey, AfterRotation
<1> QED
  BY <1>2, <1>3, <1>4, <1>5, <1>6 DEF AppNext

LEMMA AppInitInv == AppInit => AppInv
<1> SUFFICES ASSUME AppInit PROVE AppInv
  OBVIOUS
<1>1. Inv /\ MainTask = Idle /\ MainTask.op = "idle"
  BY InitInv DEF AppInit, Init, MainTask, Idle
<1>2. at = "initialize" /\ messageCount = 0 /\ sent = <<>>
  BY DEF AppInit
<1>3. AppTypeOK /\ MainAt /\ LastMessage /\ NextUnused /\ CurrentUses
  BY <1>1, <1>2
  DEF AppTypeOK, MainAt, LastMessage, NextUnused, CurrentUses
<1>4. HeaderChain
  BY <1>2 DEF HeaderChain
<1>5. KeyBudget
  <2>1. \A k : {i \in DOMAIN sent : sent[i].body = k} = {}
    BY <1>2
  <2> QED
    BY <2>1, FS_EmptySet DEF KeyBudget
<1> QED
  BY <1>1, <1>3, <1>4, <1>5 DEF AppInv

LEMMA AppInvCorrect == AppSpec => []AppInv
  BY AppInitInv, AppNextInv, PTL DEF AppSpec

\* No unwrap of examples/producer.rs fails.
THEOREM UnwrapsSucceedCorrect == AppSpec => []UnwrapsSucceed
<1>1. AppInv => UnwrapsSucceed
  BY DEF AppInv, MainAt, UnwrapsSucceed, Current, Upcoming
<1> QED
  BY <1>1, AppInvCorrect, PTL

\* Each message of examples/producer.rs is encrypted with the key of the message
\* before, or with the one that that message announced.
THEOREM HeaderChainCorrect == AppSpec => []HeaderChain
<1>1. AppInv => HeaderChain
  BY DEF AppInv
<1> QED
  BY <1>1, AppInvCorrect, PTL

\* No key of examples/producer.rs encrypts more messages than the rotation
\* interval, for any interval.
THEOREM KeyBudgetCorrect == AppSpec => []KeyBudget
<1>1. AppInv => KeyBudget
  BY DEF AppInv
<1> QED
  BY <1>1, AppInvCorrect, PTL
==============================================================================
