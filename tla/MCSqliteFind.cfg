SPECIFICATION Spec
CONSTANTS
    Client = {c1}
    Id = {i1, i2}
    State = {t1, t2}
    WithIdToken = {t1, t2}
    Null = Null
    Deployed = {"sqlite"}
    QueriesFail = FALSE
INVARIANT StoredSessionIsFound
