SPECIFICATION Spec
CONSTANTS
    t1 = t1
    t2 = t2
    k1 = k1
    k2 = k2
    c1 = c1
    c2 = c2
    r1 = r1
    r2 = r2
    member = member
    owner = owner
    None = None
    Wild = Wild
    Malformed = Malformed
    Id <- Sha256
    Attributes <- MemberOnly
    Policies <- AnyPolicy
    Inputs <- PlainAny
    Topics = {t1}
    Keys = {k1}
    Consumers = {c1}
    Readers = {r1, r2}
    Owner <- OneOwner
    Forms = {"full"}
    MayTimeOut = TRUE
    MayRestart = TRUE
    MayProbe = FALSE
    MayPrefetch = FALSE
    MaxGeneration = 1
    MaxCalls = 1
INVARIANTS
    TypeOK
    LockNotOlder
    LockedUnderPolicyInForce
PROPERTIES
    RefinesKeyAccess
