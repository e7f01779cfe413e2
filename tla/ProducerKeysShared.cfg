SPECIFICATION Spec
CONSTANTS
    t1 = t1
    t2 = t2
    k1 = k1
    k2 = k2
    k3 = k3
    k4 = k4
    a = a
    b = b
    c = c
    None = None
    Topics = {t1, t2}
    Keys = {k1, k2, k3}
    Id <- Sha256
    Tasks = {a, b}
    Manages <- ShareAll
    InitializeAnyTime = TRUE
    MaxPublished = 1
SYMMETRY KeySymmetry
INVARIANTS
    TypeOK
    Resolvable
    NextDiffersFromCurrent
PROPERTIES
    KeysStable
    RefinesPublishing
CHECK_DEADLOCK FALSE
