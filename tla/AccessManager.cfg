SPECIFICATION Spec
CONSTANTS
    t1 = t1
    t2 = t2
    q1 = q1
    q2 = q2
    q3 = q3
    q4 = q4
    None = None
    Topics = {t1, t2}
    Policies = {open, secret}
    Queries = {q1, q2, q3, q4}
    Request <- Requests
INVARIANTS
    TypeOK
    AnswerInForce
    DeniedOnlyWithoutPolicy
PROPERTIES
    EveryQueryEnds
