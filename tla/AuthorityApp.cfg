SPECIFICATION AppSpec
CONSTANTS
    alice = alice
    bob = bob
    u1 = u1
    p1 = p1
    p2 = p2
    s1 = s1
    s2 = s2
    s3 = s3
    a1 = a1
    None = None
    Clients = {alice, bob}
    AttributeSets <- Attrs
    PkQueries = {p1, p2}
    SkQueries = {s1, s2, s3}
    Request <- AllForms
    Repeated = {}
    Updaters = {u1}
    MaxGeneration = 2
    Consumer = alice
    ConsumerAttributes <- JustA1
INVARIANTS
    KeysMatch
    MasterKeyNotAhead
PROPERTIES
    RefinesKeyPair
    BothOrNone
    RegisteredAnswered
CHECK_DEADLOCK FALSE
