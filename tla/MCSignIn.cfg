SPECIFICATION FairSpec
CONSTANTS
    Login = {l1, l2}
    Callback = {c1}
    Clients <- AllClients
    SecretStores <- AllSecretStores
    ClientId = ClientId
    RedirectUri = RedirectUri
    Undefined = Undefined
INVARIANT TypeOK
INVARIANT CookieMatchesSecret
INVARIANT SameClientThroughout
PROPERTY EverySignInStepEnds
CHECK_DEADLOCK FALSE
