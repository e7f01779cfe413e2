SPECIFICATION Spec
CONSTANTS
    t1 = t1
    t2 = t2
    k1 = k1
    k2 = k2
    c1 = c1
    c2 = c2
    r1 = r1
    r2 = r2
    member = member
    owner = owner
    None = None
    Wild = Wild
    Malformed = Malformed
    Id <- Sha256
    Attributes <- MemberOnly
    Policies <- AnyPolicy
    Inputs <- PlainMalformed
    Topics = {t1, t2}
    Keys = {k1}
    Consumers = {c1, c2}
    Readers = {r1, r2}
    Owner <- TwoOwners
    Forms = {"full", "noId", "noPrefix"}
    MayTimeOut = TRUE
    MayRestart = TRUE
    MayProbe = TRUE
    MayPrefetch = FALSE
    MaxGeneration = 0
    MaxCalls = 1
PROPERTIES
    EveryCallReturns
