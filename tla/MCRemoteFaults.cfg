SPECIFICATION Spec
CONSTANTS
    Session = {s1}
    Request = {r1, r2, r3}
    NoSession = NoSession
    NoExp = NoExp
    Undecodable = Undecodable
    Second = 2
    BufferSeconds = 1
    Lifetime = 1
    IssuedExp = {NoExp, Undecodable}
    InitialExp = {2, 4, NoExp, Undecodable}
    StartClock = 6
    MaxClock = 11
    MaxRefreshes = 2
    Rotating = {s1}
    ReuseDetection = TRUE
    Durable = {}
    Faults = {"crash", "refreshFails", "notStored", "deleteFails", "revoke"}
SYMMETRY Symmetry
INVARIANT TypeOK
INVARIANT OutstandingIsNewest
INVARIANT NothingAheadOfTheRecord
INVARIANT AtMostOneBehind
PROPERTY NoLostUpdate
PROPERTY GoneIsForever
PROPERTY RefreshesAreSerial
