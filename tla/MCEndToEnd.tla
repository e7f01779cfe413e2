------------------------------ MODULE MCEndToEnd ------------------------------
EXTENDS EndToEnd

CONSTANTS t1, k1, k2, k3, k4, c1, app, ahead, member, owner

Sha256(k) == <<"sha256", k>>
Member == {{member}}
Both == {{member, owner}}
MemberOnly == [c \in Consumers |-> {member}]
AnyPolicy == {Member, Both}
SamePolicy == [messages |-> Messages, policies |-> {Member}]
ChangedPolicy == [messages |-> Messages, policies |-> {Member, Both, Malformed}]
OneOwner == [r \in Readers |-> c1]

\* Keys are compared for equality only, so that nothing is lost if they are
\* drawn in one order.
InOrder ==
    LET order == <<k1, k2, k3, k4>>
    IN  \A i \in 2..4 : keys'[Id(order[i])] # None =>
                            keys'[Id(order[i - 1])] # None
OrderedSteps == [][SystemNext /\ InOrder]_allVars /\ SystemFairness
OrderedSystem == SystemInit /\ OrderedSteps

\* The setting of the integration tests: the services have been started and
\* the handler has declared its queryable.
ReadyInit == InitWith([tp \in Topics |-> Member], Receiving) /\ OthersInit
ReadySystem == ReadyInit /\ OrderedSteps
==============================================================================
