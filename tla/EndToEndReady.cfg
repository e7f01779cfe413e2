SPECIFICATION ReadySystem
CONSTANTS
    t1 = t1
    k1 = k1
    k2 = k2
    k3 = k3
    k4 = k4
    c1 = c1
    app = app
    ahead = ahead
    member = member
    owner = owner
    None = None
    Wild = Wild
    Malformed = Malformed
    Id <- Sha256
    Attributes <- MemberOnly
    Policies <- AnyPolicy
    Inputs <- SamePolicy
    Topics = {t1}
    Keys = {k1, k2, k3, k4}
    Consumers = {c1}
    Readers = {app, ahead}
    Owner <- OneOwner
    Forms = {"full"}
    MayTimeOut = FALSE
    MayRestart = FALSE
    MayProbe = FALSE
    MayPrefetch = TRUE
    MaxGeneration = 0
    MaxCalls = 5
    Program = app
    ContentTopic = t1
    RotationInterval = 2
    MaxMessages = 5
INVARIANTS
    NeverEnds
PROPERTIES
    ComposesToDelivery
    AllReceivedDecrypted
CHECK_DEADLOCK FALSE
