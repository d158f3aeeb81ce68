SPECIFICATION FairSpec
CONSTANTS
    Session = {s1}
    Request = {r1, r2}
    NoSession = NoSession
    NoExp = NoExp
    Undecodable = Undecodable
    Second = 1
    BufferSeconds = 1
    Lifetime = 1
    IssuedExp = {}
    InitialExp = {2}
    StartClock = 3
    MaxClock = 5
    MaxRefreshes = 2
    Rotating = {s1}
    ReuseDetection = FALSE
    Durable = {s1}
    Faults = {}
PROPERTY ChosenTokenIsLive
