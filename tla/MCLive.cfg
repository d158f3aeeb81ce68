SPECIFICATION FairSpec
CONSTANTS
    Session = {s1, s2}
    Request = {r1, r2}
    NoSession = NoSession
    NoExp = NoExp
    Undecodable = Undecodable
    Second = 1
    BufferSeconds = 1
    Lifetime = 0
    IssuedExp = {}
    InitialExp = {1}
    StartClock = 3
    MaxClock = 5
    MaxRefreshes = 2
    Rotating = {s1}
    ReuseDetection = TRUE
    Durable = {s1}
    Faults = {"revoke"}
INVARIANT CurrentIsStored
INVARIANT SessionIsolation
INVARIANT DecidesOnTheRecord
INVARIANT RefusedOnlyIfOvertaken
PROPERTY OverlapIsHarmless
PROPERTY EveryCallEnds
