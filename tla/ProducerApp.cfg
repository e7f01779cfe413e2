SPECIFICATION AppSpec
CONSTANTS
    t1 = t1
    k1 = k1
    k2 = k2
    k3 = k3
    k4 = k4
    k5 = k5
    main = main
    None = None
    Topics = {t1}
    Keys = {k1, k2, k3, k4, k5}
    Id <- Sha256
    Tasks = {main}
    Manages <- MainOnly
    InitializeAnyTime = TRUE
    MaxPublished = 9
    Main = main
    ContentTopic = t1
    RotationInterval = 3
    MaxMessages = 9
INVARIANTS
    UnwrapsSucceed
    HeaderChain
    KeyBudget
CHECK_DEADLOCK FALSE
