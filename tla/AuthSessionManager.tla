--------------------------- MODULE AuthSessionManager ---------------------------
(***************************************************************************)
(* The session manager that the AuthSession middleware calls for every     *)
(* proxied request (src/infrastructure/common/auth-session-manager.ts).    *)
(* Any number of authenticate() calls and logouts of one session overlap:  *)
(* each `await` is a point at which another call may run.  The provider    *)
(* (an OpenID Connect server, external) owns the refresh tokens; the store *)
(* owns what the next request will find.                                   *)
(*                                                                         *)
(* A session's credentials are its grant at the provider, the generation   *)
(* of its refresh token (0, 1, 2 ... as the provider rotates it) and the   *)
(* `exp` claim of its access token.                                        *)
(***************************************************************************)
EXTENDS Integers

CONSTANTS
    Session,        \* session ids: values of the auth-session-id cookie
    Request,        \* slots for overlapping authenticate() calls
    NoSession,      \* what findById answers when there is no record
    NoExp,          \* an access token whose payload has no numeric exp
    Undecodable,    \* an access token that is not a JWT: decodeJwt throws
    Second,         \* clock ticks (milliseconds) in a second
    BufferSeconds,  \* the 60 of `60 * time.Second`
    Lifetime,       \* seconds from issue to exp of a refreshed access token
    IssuedExp,      \* exps the provider may put in a token besides a number
    InitialExp,     \* exps of the access tokens the store starts with
    StartClock,     \* the clock at the start
    MaxClock,       \* bound: the clock stops here
    MaxRefreshes,   \* bound: no request arrives after this many rotations
    Rotating,       \* grants whose refresh the provider answers with a new token
    ReuseDetection, \* the provider revokes a grant whose old token is replayed
    Durable,        \* sessions kept in a Durable Object, the others in a database
    Faults          \* which of the fault actions may happen

FaultKinds == {"crash", "refreshFails", "notStored", "deleteFails", "revoke"}

ASSUME ConstantsAssumption ==
    /\ NoExp \notin Nat /\ Undecodable \notin Nat /\ NoExp # Undecodable
    /\ Second \in Nat \ {0} /\ BufferSeconds \in Nat /\ Lifetime \in Nat
    /\ IssuedExp \subseteq {NoExp, Undecodable}
    /\ InitialExp \subseteq Nat \cup {NoExp, Undecodable}
    /\ StartClock \in Nat /\ MaxClock \in Nat /\ MaxRefreshes \in Nat
    /\ StartClock > BufferSeconds * Second
    /\ Rotating \subseteq Session /\ ReuseDetection \in BOOLEAN
    /\ Durable \subseteq Session
    /\ Faults \subseteq FaultKinds

ExpClaim == Nat \cup {NoExp, Undecodable}

Credentials == [grant: Session, gen: Nat, exp: ExpClaim]

ASSUME NoSessionAssumption == NoSession \notin Credentials \cup Nat \cup Session

VARIABLES
    store,      \* the session repository: session id -> credentials or none
    current,    \* provider: generation of the refresh token it accepts
    revoked,    \* provider: grants it no longer honours
    pc,         \* where each authenticate() call stands
    sid,        \* the session id a call was made with
    held,       \* the credentials a call holds in its local variables
    deleting,   \* sessions whose delete was issued but has not run yet
    loggedOut,  \* sessions whose logout was answered with 204
    clock       \* Clock.now()

vars == <<store, current, revoked, pc, sid, held, deleting, loggedOut, clock>>

Phases == {"idle", "found", "refreshing", "refreshed",
           "authenticated", "anonymous", "failed"}

\* Credentials as the sign-in that precedes this code leaves them.
SignedIn(s, e) == [grant |-> s, gen |-> 0, exp |-> e]

\* The store is filled by whatever signed the user in before; no code under
\* src/ writes a first record.
Init ==
    /\ store \in [Session -> {NoSession} \cup
                             {SignedIn(s, e) : s \in Session, e \in InitialExp}]
    /\ \A s \in Session : store[s] # NoSession => store[s].grant = s
    /\ current = [s \in Session |-> 0]
    /\ revoked = {}
    /\ pc = [r \in Request |-> "idle"]
    /\ sid = [r \in Request |-> NoSession]
    /\ held = [r \in Request |-> NoSession]
    /\ deleting = {}
    /\ loggedOut = {}
    /\ clock = StartClock

-----------------------------------------------------------------------------
\* An absent or non-numeric exp counts as 0, the epoch.
ExpirationDate(exp) == IF exp \in Nat THEN exp ELSE 0

NeedsRefresh(exp) ==
    clock - BufferSeconds * Second > ExpirationDate(exp) * Second

\* While one call awaits the storage of a Durable Object, no other event is
\* delivered to that object; a remote database gives no such protection.
GateOpen(s) ==
    s \in Durable => \A r \in Request : sid[r] = s => pc[r] # "found"

\* A call leaves authenticate(): with credentials to inject or without.
End(r, phase) ==
    /\ pc' = [pc EXCEPT ![r] = phase]
    /\ held' = [held EXCEPT ![r] = NoSession]

-----------------------------------------------------------------------------
(* authenticate(), cut at its awaits *)

\* MUTANT of FindById: a read that does not select by session id.
FindsAny(r, s) ==
    /\ pc[r] = "idle"
    /\ current[s] < MaxRefreshes
    /\ GateOpen(s)
    /\ pc' = [pc EXCEPT ![r] = "found"]
    /\ sid' = [sid EXCEPT ![r] = s]
    /\ \E t \in Session : held' = [held EXCEPT ![r] = store[t]]
    /\ UNCHANGED <<store, current, revoked, deleting, loggedOut, clock>>

\* MUTANT of FindById: a read that creates the record it does not find.
FindsOrCreates(r, s) ==
    /\ pc[r] = "idle"
    /\ current[s] < MaxRefreshes
    /\ GateOpen(s)
    /\ pc' = [pc EXCEPT ![r] = "found"]
    /\ sid' = [sid EXCEPT ![r] = s]
    /\ store' = [store EXCEPT ![s] = IF @ = NoSession THEN SignedIn(s, NoExp) ELSE @]
    /\ held' = [held EXCEPT ![r] = store'[s]]
    /\ UNCHANGED <<current, revoked, deleting, loggedOut, clock>>

\* `await this.sessionRepository.findById(sessionId)`: the record is read.
FindById(r, s) ==
    /\ pc[r] = "idle"
    /\ current[s] < MaxRefreshes
    /\ GateOpen(s)
    /\ pc' = [pc EXCEPT ![r] = "found"]
    /\ sid' = [sid EXCEPT ![r] = s]
    /\ held' = [held EXCEPT ![r] = store[s]]
    /\ UNCHANGED <<store, current, revoked, deleting, loggedOut, clock>>

\* MUTANT of ReturnNothing: the read is repeated until it finds a record.
ReadsAgain(r) ==
    /\ pc[r] = "found"
    /\ held[r] = NoSession
    /\ held' = [held EXCEPT ![r] = store[sid[r]]]
    /\ UNCHANGED <<store, current, revoked, pc, sid, deleting, loggedOut, clock>>

ReturnNothing(r) ==
    /\ pc[r] = "found"
    /\ held[r] = NoSession
    /\ End(r, "anonymous")
    /\ UNCHANGED <<store, current, revoked, sid, deleting, loggedOut, clock>>

\* credentials.parsed throws: neither the middleware nor the manager catches.
HydrateThrows(r) ==
    /\ pc[r] = "found"
    /\ held[r] # NoSession
    /\ held[r].exp = Undecodable
    /\ End(r, "failed")
    /\ UNCHANGED <<store, current, revoked, sid, deleting, loggedOut, clock>>

ReturnStored(r) ==
    /\ pc[r] = "found"
    /\ held[r] # NoSession
    /\ held[r].exp # Undecodable
    /\ ~NeedsRefresh(held[r].exp)
    /\ pc' = [pc EXCEPT ![r] = "authenticated"]
    /\ UNCHANGED <<store, current, revoked, sid, held, deleting, loggedOut, clock>>

StartRefresh(r) ==
    /\ pc[r] = "found"
    /\ held[r] # NoSession
    /\ held[r].exp # Undecodable
    /\ NeedsRefresh(held[r].exp)
    /\ pc' = [pc EXCEPT ![r] = "refreshing"]
    /\ UNCHANGED <<store, current, revoked, sid, held, deleting, loggedOut, clock>>

\* MUTANT of Refreshed: the answer's access token is read from a missing field.
MissesToken(c, e) ==
    [c EXCEPT !.gen = IF c.grant \in Rotating THEN @ + 1 ELSE @, !.exp = NoSession]

\* MUTANT of Refreshed: the operands of `??` swapped.
KeepsOldToken(c, e) == [c EXCEPT !.exp = e]

\* MUTANT of Refreshed: no fallback, an absent token is stored as it is.
DropsOldToken(c, e) == [c EXCEPT !.gen = @ + 1, !.exp = e]

\* What the client makes of the provider's answer: the old refresh token is
\* kept when the answer brings no new one (`refresh_token ?? old`).
Refreshed(c, e) == [c EXCEPT !.gen = IF c.grant \in Rotating THEN @ + 1 ELSE @,
                               !.exp = e]

Honoured(c) == c.grant \notin revoked /\ c.gen = current[c.grant]

\* The provider (external) honours the refresh token and issues an access token.
ProviderAccepts(r) ==
    /\ pc[r] = "refreshing"
    /\ Honoured(held[r])
    /\ \E e \in IssuedExp \cup {(clock \div Second) + Lifetime} :
          held' = [held EXCEPT ![r] = Refreshed(@, e)]
    /\ current' = [current EXCEPT ![held[r].grant] =
                      IF held[r].grant \in Rotating THEN @ + 1 ELSE @]
    /\ pc' = [pc EXCEPT ![r] = "refreshed"]
    /\ UNCHANGED <<store, revoked, sid, deleting, loggedOut, clock>>

\* MUTANT of ProviderRejects: what the call had read is written back.
RestoresOnFailure(r) ==
    /\ pc[r] = "refreshing"
    /\ ~Honoured(held[r])
    /\ revoked' = IF ReuseDetection THEN revoked \cup {held[r].grant} ELSE revoked
    /\ store' = [store EXCEPT ![sid[r]] = held[r]]
    /\ End(r, "failed")
    /\ UNCHANGED <<current, sid, deleting, loggedOut, clock>>

\* ... or turns it down: the client throws and the call fails.
ProviderRejects(r) ==
    /\ pc[r] = "refreshing"
    /\ ~Honoured(held[r])
    /\ revoked' = IF ReuseDetection THEN revoked \cup {held[r].grant} ELSE revoked
    /\ End(r, "failed")
    /\ UNCHANGED <<store, current, sid, deleting, loggedOut, clock>>

\* MUTANT of Written: the write is not awaited, and lost.
LosesWrite(old, new) == old

\* MUTANT of Written: ON CONFLICT DO NOTHING.
InsertsOnly(old, new) == IF old = NoSession THEN new ELSE old

\* MUTANT of Written: ON CONFLICT updates only the access token.
UpdatesAccessToken(old, new) ==
    IF old = NoSession THEN new ELSE [old EXCEPT !.exp = new.exp]

\* An upsert replaces every column of the record; no version is compared.
Written(old, new) == new

\* MUTANT of Upsert: the write goes to a database, which no gate guards.
UpsertsRemotely(r) ==
    /\ pc[r] = "refreshed"
    /\ store' = [store EXCEPT ![sid[r]] = Written(@, held[r])]
    /\ pc' = [pc EXCEPT ![r] = "authenticated"]
    /\ UNCHANGED <<current, revoked, sid, held, deleting, loggedOut, clock>>

\* `await this.sessionRepository.upsert(...)`, then the new credentials return.
\* The record need not exist any more.
Upsert(r) ==
    /\ pc[r] = "refreshed"
    /\ GateOpen(sid[r])
    /\ store' = [store EXCEPT ![sid[r]] = Written(@, held[r])]
    /\ pc' = [pc EXCEPT ![r] = "authenticated"]
    /\ UNCHANGED <<current, revoked, sid, held, deleting, loggedOut, clock>>

\* The middleware passes the request on, with or without the header, or the
\* thrown error ends it; the slot is free again.
Respond(r) ==
    /\ pc[r] \in {"authenticated", "anonymous", "failed"}
    /\ End(r, "idle")
    /\ sid' = [sid EXCEPT ![r] = NoSession]
    /\ UNCHANGED <<store, current, revoked, deleting, loggedOut, clock>>

-----------------------------------------------------------------------------
(* logout() does not await the repository's delete: behind an input gate   *)
(* the storage applies it at once, elsewhere it runs after the 204.        *)

\* The repository once the delete is applied.
Without(s) == [store EXCEPT ![s] = NoSession]

Logout(s) ==
    /\ GateOpen(s)
    /\ loggedOut' = loggedOut \cup {s}
    /\ IF s \in Durable
       THEN /\ store' = Without(s)
            /\ UNCHANGED deleting
       ELSE /\ deleting' = deleting \cup {s}
            /\ UNCHANGED store
    /\ UNCHANGED <<current, revoked, pc, sid, held, clock>>

DeleteRuns(s) ==
    /\ s \in deleting
    /\ deleting' = deleting \ {s}
    /\ store' = Without(s)
    /\ UNCHANGED <<current, revoked, pc, sid, held, loggedOut, clock>>

-----------------------------------------------------------------------------
(* Time and faults *)

Tick ==
    /\ clock < MaxClock
    /\ clock' = clock + 1
    /\ UNCHANGED <<store, current, revoked, pc, sid, held, deleting, loggedOut>>

\* The isolate is evicted or the client disconnects: the call is gone.
Crash(r) ==
    /\ "crash" \in Faults
    /\ pc[r] \in {"found", "refreshing", "refreshed"}
    /\ End(r, "idle")
    /\ sid' = [sid EXCEPT ![r] = NoSession]
    /\ UNCHANGED <<store, current, revoked, deleting, loggedOut, clock>>

\* The refresh request never reaches the provider.
RefreshFails(r) ==
    /\ "refreshFails" \in Faults
    /\ pc[r] = "refreshing"
    /\ End(r, "failed")
    /\ UNCHANGED <<store, current, revoked, sid, deleting, loggedOut, clock>>

\* The provider has answered, but the answer is lost or does not match the
\* schema, or the upsert throws: the new credentials are nowhere.
NotStored(r) ==
    /\ "notStored" \in Faults
    /\ pc[r] = "refreshed"
    /\ End(r, "failed")
    /\ UNCHANGED <<store, current, revoked, sid, deleting, loggedOut, clock>>

\* The delete is rejected after the 204 was sent: nobody awaits the promise.
DeleteFails(s) ==
    /\ "deleteFails" \in Faults
    /\ s \in deleting
    /\ deleting' = deleting \ {s}
    /\ UNCHANGED <<store, current, revoked, pc, sid, held, loggedOut, clock>>

\* The provider ends a grant on its own.
Revoke(s) ==
    /\ "revoke" \in Faults
    /\ revoked' = revoked \cup {s}
    /\ UNCHANGED <<store, current, pc, sid, held, deleting, loggedOut, clock>>

-----------------------------------------------------------------------------
Resume(r) ==
    ReturnNothing(r) \/ HydrateThrows(r) \/ ReturnStored(r) \/ StartRefresh(r)

ProviderAnswers(r) == ProviderAccepts(r) \/ ProviderRejects(r)

Next ==
    \/ \E r \in Request, s \in Session : FindById(r, s)
    \/ \E r \in Request : \/ Resume(r) \/ ProviderAnswers(r) \/ Upsert(r)
                          \/ Respond(r) \/ Crash(r) \/ RefreshFails(r)
                          \/ NotStored(r)
    \/ \E s \in Session : \/ Logout(s) \/ DeleteRuns(s) \/ DeleteFails(s)
                          \/ Revoke(s)
    \/ Tick

Spec == Init /\ [][Next]_vars

\* An event loop runs a continuation whose promise has settled, and every fetch
\* to the provider settles in the end.  The events that an input gate holds back
\* are delivered in the order they came in, so an answer waiting for the gate is
\* not overtaken for ever (SF).  Users, time and faults owe nothing, and neither
\* does a delete that nobody awaits.
Fairness ==
    \A r \in Request : /\ WF_vars(Resume(r))
                       /\ WF_vars(ProviderAnswers(r))
                       /\ SF_vars(Upsert(r))
                       /\ WF_vars(Respond(r))

FairSpec == Spec /\ Fairness

-----------------------------------------------------------------------------
(* Properties *)

\* Every variable holds a value the code can put there; a call past its read
\* has a session id, and credentials unless the read found nothing.
TypeOK ==
    /\ store \in [Session -> Credentials \cup {NoSession}]
    /\ current \in [Session -> Nat]
    /\ revoked \subseteq Session
    /\ pc \in [Request -> Phases]
    /\ sid \in [Request -> Session \cup {NoSession}]
    /\ held \in [Request -> Credentials \cup {NoSession}]
    /\ deleting \subseteq Session
    /\ loggedOut \subseteq Session
    /\ clock \in Nat
    /\ \A r \in Request :
          /\ pc[r] = "idle" <=> sid[r] = NoSession
          /\ pc[r] \in {"refreshing", "refreshed", "authenticated"} => held[r] # NoSession
          /\ pc[r] \in {"idle", "anonymous", "failed"} => held[r] = NoSession

Holds(r, s) == sid[r] = s /\ held[r] # NoSession

\* What a call holds, and what the store keeps under a session id, belongs to
\* that session: one user's token is never answered to another's request.
SessionIsolation ==
    /\ \A s \in Session : store[s] # NoSession => store[s].grant = s
    /\ \A r \in Request : held[r] # NoSession => held[r].grant = sid[r]

\* Where the provider rotates the refresh token, of the overlapping calls of a
\* session at most one has an answer of the provider that it has not stored yet,
\* and that answer is newer than all that the store and the other calls have.
\* authenticate() takes no lock: it is the single use of the token that makes
\* this so.
OutstandingIsNewest ==
    \A r \in Request, s \in Rotating : pc[r] = "refreshed" /\ sid[r] = s =>
        /\ held[r].gen = current[s]
        /\ store[s] # NoSession => store[s].gen < current[s]
        /\ \A q \in Request \ {r} : Holds(q, s) => held[q].gen < current[s]

\* No call acts on, or answers with, credentials newer than the record: the
\* upsert is awaited before they are returned, so what a request was answered
\* with the next request finds.
NothingAheadOfTheRecord ==
    \A r \in Request, s \in Session :
        /\ Holds(r, s) /\ pc[r] # "refreshed"
        /\ store[s] # NoSession
        => held[r].gen <= store[s].gen

\* Whatever is interrupted, the record is at most one generation behind the
\* provider: a refresh token is replayed, and refused, but never skipped.
AtMostOneBehind ==
    \A s \in Session : store[s] # NoSession =>
        current[s] \in {store[s].gen, store[s].gen + 1}

\* Unless a call is cut off between the provider's answer and the upsert, the
\* record has the refresh token the provider accepts (also when a logout and a
\* refresh overlapped), so the session can be refreshed again.
CurrentIsStored ==
    \A s \in Session :
        \/ store[s] = NoSession
        \/ store[s].gen = current[s]
        \/ \E r \in Request : sid[r] = s /\ pc[r] = "refreshed"

\* Where refresh tokens are rotated, a record is replaced only by the answer to the
\* refresh of that very record: of two overlapping calls neither overwrites what
\* the other has stored.
NoLostUpdate ==
    [][\A s \in Rotating :
          store[s] # NoSession /\ store'[s] \notin {NoSession, store[s]}
          => store'[s].gen = store[s].gen + 1]_vars

\* A session without a record and without a call that read one before.
Gone(s) == store[s] = NoSession /\ \A r \in Request : ~Holds(r, s)

\* Nothing in authenticate() brings such a session back, whatever cookies are
\* still presented.
GoneIsForever == [][\A s \in Session : Gone(s) => Gone(s)']_vars

\* A Durable Object decides on the record as it is: between the read and the
\* check of needsRefresh no other call writes or deletes it.
DecidesOnTheRecord ==
    \A r \in Request : pc[r] = "found" /\ sid[r] \in Durable => held[r] = store[sid[r]]

\* Where the provider keeps refresh tokens valid, overlapping refreshes of one
\* session do not make each other fail: a call fails only on a record that does
\* not decode or a grant the provider has ended.
OverlapIsHarmless ==
    [][\A r \in Request :
          pc[r] # "failed" /\ pc'[r] = "failed"
          => \/ held[r].exp = Undecodable
             \/ held[r].grant \in Rotating \cup revoked]_vars

\* Another call has had the session's refresh token replaced since call r read
\* it: the record is newer or is about to be, or it is deleted.
Overtaken(r) ==
    \/ store[sid[r]] = NoSession
    \/ store[sid[r]].gen > held[r].gen
    \/ \E q \in Request : sid[q] = sid[r] /\ pc[q] = "refreshed"

\* A call that is going to be turned down by the provider has a grant that was
\* ended, or it was overtaken: the next request of the session finds the newer
\* token, so that losing the race costs one request and, unless the provider holds
\* replays against the grant, not the session.
RefusedOnlyIfOvertaken ==
    \A r \in Request :
        pc[r] = "refreshing" /\ ~Honoured(held[r])
        => held[r].grant \in revoked \/ Overtaken(r)

\* Every authenticate() returns or throws in the end, however calls overlap.
EveryCallEnds == \A r \in Request : pc[r] # "idle" ~> pc[r] = "idle"

\* logout.handler.ts:8: a session that was logged out is deleted from storage
\* (here where the delete is applied before the 204 is sent).
LoggedOutIsDeleted ==
    \A s \in loggedOut \cap Durable : store[s] = NoSession

\* README.md:46: access tokens are refreshed during client requests, so the
\* stored token a request gets has not expired when it is chosen.
ChosenTokenIsLive ==
    [][\A r \in Request :
          pc[r] = "found" /\ pc'[r] = "authenticated"
          => clock < ExpirationDate(held[r].exp) * Second]_vars

-----------------------------------------------------------------------------
(* Of the sessions with single-use refresh tokens, whatever the others do,   *)
(* the manager implements SerialRefresh.                                     *)

Newest == [s \in Rotating |-> current[s]]

Kept == [s \in Rotating |-> IF store[s] = NoSession THEN NoSession ELSE store[s].gen]

HasNewest(s) ==
    \/ store[s] # NoSession /\ store[s].gen = current[s]
    \/ \E r \in Request : /\ Holds(r, s) /\ held[r].gen = current[s]
                          /\ pc[r] \in {"found", "refreshing"}

Baton ==
    [s \in Rotating |->
        IF \E r \in Request : sid[r] = s /\ pc[r] = "refreshed" THEN "outstanding"
        ELSE IF HasNewest(s) THEN "available" ELSE "lost"]

Serial == INSTANCE SerialRefresh
          WITH Session <- Rotating, None <- NoSession,
               gen <- Newest, kept <- Kept, baton <- Baton

\* Every step of the manager, its faults included, is a step of the baton or
\* leaves it alone.
RefreshesAreSerial == Serial!Spec

=============================================================================
