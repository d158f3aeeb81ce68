SPECIFICATION Spec
CONSTANTS
    Call = {c1, c2}
    Null = Null
    Undefined = Undefined
    Clients <- AllClients
    Formats <- ConfiguredFormats
    MaxGrants = 2
INVARIANT TypeOK
PROPERTY IsARefresh
PROPERTY GrantsAreKept
CHECK_DEADLOCK FALSE
