---------------------------- MODULE MCKeyDelivery -----------------------------
EXTENDS KeyDelivery, TLC

CONSTANTS t1, t2, k1, k2, c1, c2, r1, r2, member, owner

Sha256(k) == <<"sha256", k>>

\* "member" and "member and owner": the consumer is only a member.
Member == {{member}}
Both == {{member, owner}}
MemberOnly == [c \in Consumers |-> {member}]
AnyPolicy == {Member, Both}

\* Messages that announce no key, and messages that announce another one.
Plain == {m \in Messages : m.nextId = None /\ m.ckId = Id(m.body)}
Announcing == {m \in Messages : m.ckId = Id(m.body)
                                    /\ m.nextId \notin {None, m.ckId}}
PlainAny == [messages |-> Plain, policies |-> AnyPolicy]
PlainMalformed == [messages |-> Plain, policies |-> {Member, Malformed}]
AnnounceMember == [messages |-> Announcing, policies |-> {Member}]

OneOwner == [r \in Readers |-> c1]
TwoOwners == [r \in Readers |-> IF r = r1 THEN c1 ELSE c2]

KeySymmetry == Permutations(Keys)
==============================================================================
