SPECIFICATION Spec
CONSTANTS
    Client = {c1, c2}
    Id = {i1, i2}
    State = {t1, t2}
    WithIdToken = {t1, t2}
    Null = Null
    Deployed = {"durable", "neon", "sqlite", "kv"}
    QueriesFail = TRUE
SYMMETRY Symmetry
INVARIANT TypeOK
PROPERTY IsARegister
