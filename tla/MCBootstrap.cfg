SPECIFICATION FairSpec
CONSTANTS
    Request = {q1, q2, q3}
    Env = {e1, e2}
    Resource = {d1, d2}
    None = None
    PrepareFails = TRUE
CHECK_DEADLOCK FALSE
INVARIANT TypeOK
INVARIANT ServedWhenPrepared
INVARIANT OwnEnvironment
INVARIANT BuildsAreShared
PROPERTY EveryRequestEnds
