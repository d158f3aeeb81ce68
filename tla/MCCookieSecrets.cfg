SPECIFICATION Spec
CONSTANTS
    Client = {c1, c2}
    Id = {i1, i2}
    Null = Null
    Undefined = Undefined
    Second = 2
    TTL = 1
    StartClock = 1
    MaxClock = 4
    MaxLoose = 2
    Deployed <- AllBackends
CHECK_DEADLOCK FALSE
INVARIANT TypeOK
INVARIANT OwnSecret
PROPERTY KeptUntilExpiry
