------------------------------ MODULE CookieSecrets ------------------------------
(***************************************************************************)
(* The five repositories of cookie secrets under                           *)
(* infrastructure/persistence: what a login stores under its state, what a *)
(* lookup makes of it, and when it goes.  Time is in milliseconds; the     *)
(* stores with keys that expire (Redis, Workers KV; external) count in     *)
(* seconds.  The agents call upsert only; find, delete and expire are      *)
(* called here by whoever implements what they are for.                    *)
(***************************************************************************)
EXTENDS Integers, FiniteSets

CONSTANTS
    Client,     \* callers whose calls overlap
    Id,         \* states of logins; the secret a login draws is named by its state
    Null,       \* no record; no call
    Undefined,  \* a property that is not there
    Second,     \* milliseconds in a second
    TTL,        \* the 10 minutes of the login handler, in milliseconds
    StartClock, \* the clock at the start
    MaxClock,   \* bound: the clock stops here
    MaxLoose,   \* bound: so many writes to Workers KV are under way at once
    Deployed    \* the repositories to be considered

Backends == {"sqlite", "d1", "neon", "upstash", "kv"}

ASSUME SecretsAssumption ==
    /\ Second \in Nat \ {0} /\ TTL \in Nat /\ StartClock \in Nat /\ MaxClock \in Nat
    /\ MaxLoose \in Nat
    /\ Deployed \subseteq Backends
    /\ Undefined \notin Id

\* CookieSecretState: the value and two dates.
Secret == [value: Id, createdAt: Nat, expiresAt: Nat]

\* What a find answers: the dates are Dates, strings, invalid, or missing.
Found == [value: Id \cup {Undefined}, dates: {"string", "invalid", "missing"}]

Operation == {"find", "upsert", "delete", "expire"}

\* An expire() is for no id.
Call == {w \in [op: Operation, id: Id \cup {Null}, time: Nat] :
            w.op = "expire" <=> w.id = Null}

ASSUME NullAssumption == Null \notin Secret \cup Found \cup Call \cup Id

VARIABLES
    backend, \* the repository; never changes
    table,   \* id -> the secret stored under it, or Null
    call,    \* client -> its call, or Null
    answer,  \* client -> what its find answered, or Null
    loose,   \* writes to Workers KV that nobody awaits and that have not run yet
    clock    \* Date.now()

vars == <<backend, table, call, answer, loose, clock>>

Init ==
    /\ backend \in Deployed
    /\ table = [i \in Id |-> Null]
    /\ call = [c \in Client |-> Null]
    /\ answer = [c \in Client |-> Null]
    /\ loose = {}
    /\ clock = StartClock

-----------------------------------------------------------------------------
\* D1 accepts no Date as a parameter: bind() throws.  The Neon repository is
\* written for the D1 interface as well.
BindsDates == backend \notin {"d1", "neon"}

\* No call on a KVNamespace is awaited.
Awaits == backend # "kv"

\* Redis and Workers KV remove a key by themselves; expire() is then a no-op.
KeysExpire == backend \in {"upstash", "kv"}

\* What the login handler stores at `now`; Bun's sqlite keeps the dates as
\* numbers of milliseconds, the others as JSON.
Drawn(i, now) == [value |-> i, createdAt |-> now, expiresAt |-> now + TTL]

\* DELETE ... WHERE expires_at < ?1
Expired(secret, time) == secret.expiresAt < time

\* MUTANT of KeyIsDue: milliseconds rounded down to seconds.
RoundsDown(secret) ==
    KeysExpire /\ clock \div Second >= secret.expiresAt \div Second

\* `exat` and `expiration` are seconds and are given milliseconds.
KeyIsDue(secret) == KeysExpire /\ clock >= secret.expiresAt * Second

\* MUTANT of Decode: the record is taken for the answer.
IsTheAnswer(record) == record

\* What findById makes of a record: sqlite deserializes the columns secret,
\* created_at and expires_at by other names, D1 returns the row as it is, and
\* Upstash the JSON, whose dates are strings.
Decode(record) ==
    IF record = Null THEN Null
    ELSE [value |-> IF backend = "upstash" THEN record.value ELSE Undefined,
          dates |-> IF backend = "upstash" THEN "string"
                    ELSE IF backend = "sqlite" THEN "invalid" ELSE "missing"]

\* MUTANT of Effect: a statement without its key, every row is overwritten.
OverwritesAll(w) ==
    [i \in Id |-> IF w.op = "upsert" THEN Drawn(w.id, w.time) ELSE table[i]]

\* A delete takes its own record, an expire() those whose time is over.
Removes(w, i) ==
    \/ w.op = "delete" /\ w.id = i
    \/ /\ w.op = "expire" /\ ~KeysExpire
       /\ table[i] # Null /\ Expired(table[i], w.time)

\* What a call does to the records: the upsert replaces every column.
Effect(w) ==
    [i \in Id |-> IF Removes(w, i) THEN Null
                 ELSE IF w.op = "upsert" /\ w.id = i THEN Drawn(i, w.time)
                 ELSE table[i]]

-----------------------------------------------------------------------------
\* An upsert and an expire() carry the time at which they are called.
Begin(c) ==
    /\ call[c] = Null
    /\ \E op \in Operation :
       \E i \in IF op = "expire" THEN {Null} ELSE Id :
          call' = [call EXCEPT ![c] =
                     [op |-> op, id |-> i,
                      time |-> IF op \in {"upsert", "expire"} THEN clock ELSE 0]]
    /\ UNCHANGED <<backend, table, answer, loose, clock>>

\* A call that is not answered yet.
Issued(c) == call[c] # Null /\ answer[c] = Null

\* findById: the record is read and decoded; none is answered with null at once.
Find(c) ==
    /\ Issued(c) /\ call[c].op = "find"
    /\ Awaits
    /\ answer' = [answer EXCEPT ![c] = Decode(table[call[c].id])]
    /\ call' = [call EXCEPT ![c] = IF answer'[c] = Null THEN Null ELSE @]
    /\ UNCHANGED <<backend, table, loose, clock>>

\* The database executes a write, and its caller goes on.
Write(c) ==
    /\ Issued(c) /\ call[c].op # "find"
    /\ Awaits
    /\ call[c].op = "upsert" => BindsDates
    /\ table' = Effect(call[c])
    /\ call' = [call EXCEPT ![c] = Null]
    /\ UNCHANGED <<backend, answer, loose, clock>>

\* Workers KV: a find validates the promise itself, which is no secret, and a
\* write is over before it has run.
AnswerAtOnce(c) ==
    /\ Issued(c)
    /\ ~Awaits
    /\ IF call[c].op \in {"upsert", "delete"}
       THEN Cardinality(loose) < MaxLoose /\ loose' = loose \cup {call[c]}
       ELSE UNCHANGED loose
    /\ call' = [call EXCEPT ![c] = Null]
    /\ UNCHANGED <<backend, table, answer, clock>>

\* The parameters cannot be bound, or the query is rejected: the caller has the
\* error.  A result that is lost after the query was executed is a Write.
Fail(c) ==
    /\ Issued(c)
    /\ Awaits
    /\ call' = [call EXCEPT ![c] = Null]
    /\ UNCHANGED <<backend, table, answer, loose, clock>>

\* The caller has what its find found.
Return(c) ==
    /\ answer[c] # Null
    /\ call' = [call EXCEPT ![c] = Null]
    /\ answer' = [answer EXCEPT ![c] = Null]
    /\ UNCHANGED <<backend, table, loose, clock>>

\* Writes that nobody awaits run in any order ...
LooseWriteRuns ==
    \E w \in loose :
        /\ table' = Effect(w)
        /\ loose' = loose \ {w}
        /\ UNCHANGED <<backend, call, answer, clock>>

\* ... or are rejected, and nobody hears of it.
LooseWriteFails ==
    /\ \E w \in loose : loose' = loose \ {w}
    /\ UNCHANGED <<backend, table, call, answer, clock>>

\* The store removes a key whose time has come.
KeyExpires(i) ==
    /\ table[i] # Null
    /\ KeyIsDue(table[i])
    /\ table' = [table EXCEPT ![i] = Null]
    /\ UNCHANGED <<backend, call, answer, loose, clock>>

Tick ==
    /\ clock < MaxClock
    /\ clock' = clock + 1
    /\ UNCHANGED <<backend, table, call, answer, loose>>

Next ==
    \/ \E c \in Client : \/ Begin(c) \/ Find(c) \/ Write(c) \/ AnswerAtOnce(c)
                         \/ Fail(c) \/ Return(c)
    \/ LooseWriteRuns \/ LooseWriteFails
    \/ \E i \in Id : KeyExpires(i)
    \/ Tick

Spec == Init /\ [][Next]_vars

-----------------------------------------------------------------------------
(* Properties *)

\* Every variable holds a value the code can put there.
TypeOK ==
    /\ backend \in Deployed
    /\ table \in [Id -> Secret \cup {Null}]
    /\ call \in [Client -> Call \cup {Null}]
    /\ answer \in [Client -> Found \cup {Null}]
    /\ \A c \in Client : answer[c] # Null => call[c] # Null
    /\ loose \subseteq {w \in Call : w.op \in {"upsert", "delete"}}
    /\ clock \in Nat

\* However calls overlap, a login's state leads to the secret of that login or
\* to none, in the store and in what a find answers.
OwnSecret ==
    /\ \A i \in Id : table[i] # Null => table[i].value = i
    /\ \A c \in Client : answer[c] # Null => answer[c].value \in {call[c].id, Undefined}

\* A delete of this state is under way.
Deleting(i) ==
    \E w \in loose \cup {call[c] : c \in {d \in Client : call[d] # Null}} :
        w.op = "delete" /\ w.id = i

\* A login that is not over keeps its secret: nothing but a delete of its own
\* state removes one before the ten minutes are over, whatever unit the store
\* counts in and however late an expire() is executed.
KeptUntilExpiry ==
    [][\A i \in Id : table[i] # Null /\ table'[i] = Null =>
          clock >= table[i].expiresAt \/ Deleting(i)]_vars

=============================================================================
