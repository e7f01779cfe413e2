SPECIFICATION OrderedSystem
CONSTANTS
    t1 = t1
    k1 = k1
    k2 = k2
    k3 = k3
    k4 = k4
    c1 = c1
    app = app
    ahead = ahead
    member = member
    owner = owner
    None = None
    Wild = Wild
    Malformed = Malformed
    Id <- Sha256
    Attributes <- MemberOnly
    Policies <- AnyPolicy
    Inputs <- ChangedPolicy
    Topics = {t1}
    Keys = {k1, k2, k3, k4}
    Consumers = {c1}
    Readers = {app}
    Owner <- OneOwner
    Forms = {"full"}
    MayTimeOut = TRUE
    MayRestart = TRUE
    MayProbe = FALSE
    MayPrefetch = FALSE
    MaxGeneration = 1
    MaxCalls = 4
    Program = app
    ContentTopic = t1
    RotationInterval = 2
    MaxMessages = 4
INVARIANTS
    NothingSkipped
    AccessErrorMeansOutdated
CHECK_DEADLOCK FALSE
