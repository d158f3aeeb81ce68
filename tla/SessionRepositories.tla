--------------------------- MODULE SessionRepositories ---------------------------
(***************************************************************************)
(* The four session repositories under infrastructure/persistence: what    *)
(* findById, upsert and delete do to a record of each, and in which order. *)
(* A call is cut at its awaits: it is issued, the database (external)      *)
(* executes it, and the method turns the outcome into its answer.          *)
(***************************************************************************)
CONSTANTS
    Client,         \* callers whose calls overlap
    Id,             \* session ids
    State,          \* session states
    WithIdToken,    \* the states that have an id token: WorkOS returns none
    Null,           \* no record; no call
    Deployed,       \* the repositories an agent may have been built with
    QueriesFail     \* a query may be rejected, before or after it was executed

Backends == {"durable", "neon", "sqlite", "kv"}

ASSUME RepositoriesAssumption ==
    /\ WithIdToken \subseteq State
    /\ Null \notin State
    /\ Deployed \subseteq Backends
    /\ QueriesFail \in BOOLEAN

VARIABLES
    backend, \* the agent's repository; never changes
    table,   \* id -> the state that the id's record was written from, or Null
    call,    \* client -> its call, or Null
    loose    \* writes whose promise nobody awaits and that have not run yet (of two
             \* that are the same, one is kept)

vars == <<backend, table, call, loose>>

Operation == {"find", "upsert", "delete"}

Call == [op: Operation, id: Id, state: State \cup {Null},
         phase: {"issued", "executed", "answered", "failed"},
         answer: State \cup {Null}]

Write == [op: {"upsert", "delete"}, id: Id, state: State \cup {Null}]

Init ==
    /\ backend \in Deployed
    /\ table \in [Id -> State \cup {Null}]
    /\ call = [c \in Client |-> Null]
    /\ loose = {}

-----------------------------------------------------------------------------
\* A KVNamespace call is never awaited, by findById no more than by the writes.
Awaits == backend # "kv"

\* The table's key column is session_id; the sqlite statements that select a
\* record compare `id`, a column it does not have: preparing them throws.
Prepares(op) == backend = "sqlite" => op = "upsert"

\* MUTANT of Decode: the row is returned as the driver gives it.
ReturnsTheRow(s) == <<s>>

\* What findById makes of a record.  Neon reads an absent id token as null,
\* which z.string().optional() rejects: the record counts as none.
Decode(s) ==
    IF backend = "neon" /\ s # Null /\ s \notin WithIdToken THEN Null ELSE s

\* MUTANT of Effect: the conflict clause keeps the record.
KeepsTheRecord(w) ==
    [table EXCEPT ![w.id] = IF w.op = "upsert" /\ @ # Null THEN @ ELSE w.state]

\* What a write does to the table once it is executed; a delete writes Null.
Effect(w) == [table EXCEPT ![w.id] = w.state]

In(c, phase) == call[c] # Null /\ call[c].phase = phase

-----------------------------------------------------------------------------
Begin(c) ==
    /\ call[c] = Null
    /\ \E op \in Operation, i \in Id :
       \E s \in IF op = "upsert" THEN State ELSE {Null} :
          call' = [call EXCEPT ![c] =
                     [op |-> op, id |-> i, state |-> s, phase |-> "issued", answer |-> Null]]
    /\ UNCHANGED <<backend, table, loose>>

\* The database executes what was issued.  A Durable Object's storage applies
\* its delete at once as well, though delete() does not await it.
Execute(c) ==
    /\ In(c, "issued")
    /\ Awaits /\ Prepares(call[c].op)
    /\ table' = IF call[c].op = "find" THEN table ELSE Effect(call[c])
    /\ call' = [call EXCEPT ![c].phase = "executed",
                            ![c].answer = IF call[c].op = "find"
                                          THEN table[call[c].id] ELSE Null]
    /\ UNCHANGED <<backend, loose>>

Answer(c) ==
    /\ In(c, "executed")
    /\ call' = [call EXCEPT ![c].phase = "answered", ![c].answer = Decode(@)]
    /\ UNCHANGED <<backend, table, loose>>

\* Without an await: a find validates the promise itself, which is no record,
\* and a write is over before it has run.
AnswerAtOnce(c) ==
    /\ In(c, "issued")
    /\ ~Awaits
    /\ call' = [call EXCEPT ![c].phase = "answered"]
    /\ loose' = IF call[c].op = "find" THEN loose
                ELSE loose \cup {[op |-> call[c].op, id |-> call[c].id,
                                  state |-> call[c].state]}
    /\ UNCHANGED <<backend, table>>

\* The statement cannot be prepared, or the query is rejected or its result lost.
Fail(c) ==
    /\ In(c, "issued") \/ In(c, "executed")
    /\ (QueriesFail /\ Awaits) \/ ~Prepares(call[c].op)
    /\ call' = [call EXCEPT ![c].phase = "failed", ![c].answer = Null]
    /\ UNCHANGED <<backend, table, loose>>

\* The caller has the answer, or the error.
End(c) ==
    /\ In(c, "answered") \/ In(c, "failed")
    /\ call' = [call EXCEPT ![c] = Null]
    /\ UNCHANGED <<backend, table, loose>>

\* Unawaited writes run in any order ...
LooseWriteRuns ==
    \E w \in loose :
        /\ table' = Effect(w)
        /\ loose' = loose \ {w}
        /\ UNCHANGED <<backend, call>>

\* ... or are rejected, and nobody hears of it.
LooseWriteFails ==
    /\ QueriesFail
    /\ \E w \in loose : loose' = loose \ {w}
    /\ UNCHANGED <<backend, table, call>>

Next ==
    \/ \E c \in Client : \/ Begin(c) \/ Execute(c) \/ Answer(c) \/ AnswerAtOnce(c)
                         \/ Fail(c) \/ End(c)
    \/ LooseWriteRuns \/ LooseWriteFails

Spec == Init /\ [][Next]_vars

-----------------------------------------------------------------------------
(* Properties *)

\* Every variable holds a value the code can put there.
TypeOK ==
    /\ backend \in Deployed
    /\ table \in [Id -> State \cup {Null}]
    /\ call \in [Client -> Call \cup {Null}]
    /\ loose \subseteq Write

\* A repository that awaits its calls is the register that the session manager
\* takes it for: calls take effect once, in some order, before they are answered,
\* and a find answers with the record.  Holds of Durable Object storage, of sqlite
\* (whose finds all fail), and of Neon as long as every session has an id token;
\* of Workers KV nothing is shown.
Register == INSTANCE SessionRegister
            WITH register <- IF Awaits THEN table ELSE [i \in Id |-> Null],
                 call <- IF Awaits THEN call ELSE [c \in Client |-> Null]
IsARegister == Register!Spec

\* README.md:21-23 and the Bun agent's README.md:17: session state is managed by
\* the store, so a caller that is alone finds the session that is stored.
StoredSessionIsFound ==
    \A c \in Client :
        /\ call[c] # Null
        /\ call[c].op = "find" /\ call[c].phase \in {"answered", "failed"}
        => call[c].phase = "answered" /\ call[c].answer = table[call[c].id]

=============================================================================
