SPECIFICATION Spec
CONSTANTS
    alice = alice
    carol = carol
    u1 = u1
    p1 = p1
    s1 = s1
    s2 = s2
    a1 = a1
    None = None
    Clients = {alice, carol}
    AttributeSets <- AttrsOrNone
    PkQueries = {p1}
    SkQueries = {s1, s2}
    Request <- TwoClients
    Repeated = {p1, s1}
    Updaters = {u1}
    MaxGeneration = 2
INVARIANTS
    TypeOK
    IssuedAttributesHeld
PROPERTIES
    RepliesCurrent
    EveryUpdateReturns
    EveryQueryEnds
    GoodQueryAnswered
