------------------------ MODULE AuthSessionManagerProofs ------------------------
(***************************************************************************)
(* Proofs about AuthSessionManager, for any number of sessions, of         *)
(* overlapping calls, of rotations and of clock ticks.                     *)
(***************************************************************************)
EXTENDS AuthSessionManager, TLAPS

LEMMA InitTypeOK == Init => TypeOK
<1> SUFFICES ASSUME Init PROVE TypeOK
    OBVIOUS
<1> USE ConstantsAssumption, NoSessionAssumption
<1>1. \A s \in Session, e \in InitialExp : SignedIn(s, e) \in Credentials
    BY DEF SignedIn, Credentials, ExpClaim
<1>2. store \in [Session -> Credentials \cup {NoSession}]
    BY <1>1 DEF Init
<1> QED
    BY <1>2 DEF Init, TypeOK, Phases

\* What the provider's answer makes of credentials is again credentials.
LEMMA RefreshedType ==
    ASSUME NEW c \in Credentials, NEW e \in ExpClaim
    PROVE  /\ Refreshed(c, e) \in Credentials
           /\ Refreshed(c, e).grant = c.grant
           /\ Refreshed(c, e).gen = IF c.grant \in Rotating THEN c.gen + 1 ELSE c.gen
<1> DEFINE n == IF c.grant \in Rotating THEN c.gen + 1 ELSE c.gen
<1>1. c.grant \in Session /\ c.gen \in Nat /\ n \in Nat
    BY DEF Credentials
<1>2. Refreshed(c, e) = [c EXCEPT !.gen = n, !.exp = e]
    BY DEF Refreshed
<1> HIDE DEF n
<1>3. c = [grant |-> c.grant, gen |-> c.gen, exp |-> c.exp]
    BY DEF Credentials
<1>4. Refreshed(c, e) = [grant |-> c.grant, gen |-> n, exp |-> e]
    BY <1>2, <1>3
<1> QED
    BY <1>1, <1>4 DEF Credentials, n

LEMMA IssuedExpType ==
    ASSUME TypeOK, NEW e \in IssuedExp \cup {(clock \div Second) + Lifetime}
    PROVE  e \in ExpClaim
<1>1. clock \div Second \in Nat
    BY ConstantsAssumption DEF TypeOK
<1> QED
    BY <1>1, ConstantsAssumption DEF ExpClaim

LEMMA StepTypeOK == TypeOK /\ [Next]_vars => TypeOK'
<1> SUFFICES ASSUME TypeOK, [Next]_vars PROVE TypeOK'
    OBVIOUS
<1> USE NoSessionAssumption DEF TypeOK, End, Phases
<1>1. ASSUME NEW r \in Request, NEW s \in Session, FindById(r, s) PROVE TypeOK'
    BY <1>1 DEF FindById
<1>2. ASSUME NEW r \in Request, Resume(r) PROVE TypeOK'
    BY <1>2 DEF Resume, ReturnNothing, HydrateThrows, ReturnStored, StartRefresh
<1>3. ASSUME NEW r \in Request, ProviderAccepts(r) PROVE TypeOK'
    <2>1. PICK e \in IssuedExp \cup {(clock \div Second) + Lifetime} :
              held' = [held EXCEPT ![r] = Refreshed(held[r], e)]
        BY <1>3 DEF ProviderAccepts
    <2>2. e \in ExpClaim
        BY IssuedExpType
    <2>3. held[r] \in Credentials
        BY <1>3, NoSessionAssumption DEF ProviderAccepts
    <2>4. Refreshed(held[r], e) \in Credentials
        BY <2>2, <2>3, RefreshedType
    <2>5. held' \in [Request -> Credentials \cup {NoSession}]
        BY <2>1, <2>4
    <2>6. current' \in [Session -> Nat]
        BY <1>3, <2>3 DEF ProviderAccepts, Credentials
    <2>7. /\ pc' = [pc EXCEPT ![r] = "refreshed"]
          /\ held'[r] # NoSession
          /\ \A q \in Request \ {r} : held'[q] = held[q]
          /\ pc[r] = "refreshing"
          /\ UNCHANGED <<store, revoked, sid, deleting, loggedOut, clock>>
        BY <1>3, <2>1, <2>4 DEF ProviderAccepts
    <2>8. ASSUME NEW q \in Request
          PROVE  /\ pc'[q] = "idle" <=> sid'[q] = NoSession
                 /\ pc'[q] \in {"refreshing", "refreshed", "authenticated"}
                    => held'[q] # NoSession
                 /\ pc'[q] \in {"idle", "anonymous", "failed"} => held'[q] = NoSession
        <3>1. CASE q = r
            BY <2>7, <3>1
        <3>2. CASE q # r
            BY <2>7, <3>2
        <3> QED
            BY <3>1, <3>2
    <2>9. pc' \in [Request -> Phases]
        BY <2>7
    <2> QED
        BY <2>5, <2>6, <2>7, <2>8, <2>9
<1>4. ASSUME NEW r \in Request, ProviderRejects(r) PROVE TypeOK'
    BY <1>4 DEF ProviderRejects, Credentials
<1>5. ASSUME NEW r \in Request, Upsert(r) PROVE TypeOK'
    BY <1>5 DEF Upsert, Written
<1>6. ASSUME NEW r \in Request,
             Respond(r) \/ Crash(r) \/ RefreshFails(r) \/ NotStored(r)
      PROVE  TypeOK'
    BY <1>6 DEF Respond, Crash, RefreshFails, NotStored
<1>7. ASSUME NEW s \in Session,
             Logout(s) \/ DeleteRuns(s) \/ DeleteFails(s) \/ Revoke(s)
      PROVE  TypeOK'
    BY <1>7 DEF Logout, DeleteRuns, DeleteFails, Revoke, Without
<1>8. CASE Tick
    BY <1>8 DEF Tick
<1>9. CASE UNCHANGED vars
    BY <1>9 DEF vars
<1> QED
    BY <1>1, <1>2, <1>3, <1>4, <1>5, <1>6, <1>7, <1>8, <1>9
    DEF Next, ProviderAnswers

\* Every reachable state is well typed, and a call that is past its read knows
\* its session and, unless it found nothing, its credentials.
THEOREM TypeCorrect == Spec => []TypeOK
<1>1. Init => TypeOK
    BY InitTypeOK
<1>2. TypeOK /\ [Next]_vars => TypeOK'
    BY StepTypeOK
<1> QED
    BY <1>1, <1>2, PTL DEF Spec

-----------------------------------------------------------------------------
(* The inductive invariant.  OutstandingIsNewest alone is not inductive: that  *)
(* an accepted refresh overtakes every copy needs that no copy is ahead of the *)
(* provider, and that at most one refresh of a record succeeds needs that no   *)
(* copy is ahead of the record.  Where tokens are not rotated all copies are   *)
(* the same.                                                                   *)

\* Without rotation every copy of a grant's refresh token is its first one, in
\* the store and in the calls, however many of them are refreshed at once.
NeverReplaced ==
    \A g \in Session \ Rotating :
        /\ current[g] = 0
        /\ \A s \in Session : store[s] # NoSession /\ store[s].grant = g
                                => store[s].gen = 0
        /\ \A r \in Request : held[r] # NoSession /\ held[r].grant = g
                                => held[r].gen = 0

NothingAheadOfTheProvider ==
    \A r \in Request, s \in Session : Holds(r, s) => held[r].gen <= current[s]

IInv ==
    /\ SessionIsolation
    /\ NeverReplaced
    /\ NothingAheadOfTheProvider
    /\ OutstandingIsNewest
    /\ NothingAheadOfTheRecord
    /\ AtMostOneBehind

LEMMA HeldType ==
    ASSUME TypeOK, NEW r \in Request, held[r] # NoSession
    PROVE  held[r] \in Credentials /\ held[r].grant \in Session /\ held[r].gen \in Nat
BY DEF TypeOK, Credentials

LEMMA StoreType ==
    ASSUME TypeOK, NEW s \in Session, store[s] # NoSession
    PROVE  store[s] \in Credentials /\ store[s].gen \in Nat
BY DEF TypeOK, Credentials

LEMMA InitStore ==
    ASSUME Init, NEW s \in Session, store[s] # NoSession
    PROVE  store[s].grant = s /\ store[s].gen = 0
BY NoSessionAssumption DEF Init, SignedIn

LEMMA InitIInv == Init => IInv
<1> SUFFICES ASSUME Init PROVE IInv
    OBVIOUS
<1>1. \A s \in Session : store[s] # NoSession => store[s].gen = 0
    BY InitStore
<1>2. \A r \in Request : held[r] = NoSession /\ pc[r] = "idle"
    BY DEF Init
<1>3. SessionIsolation
    BY <1>2 DEF Init, SessionIsolation
<1>4. AtMostOneBehind
    BY <1>1 DEF Init, AtMostOneBehind
<1>5. NeverReplaced
    BY <1>1, <1>2 DEF Init, NeverReplaced
<1> QED
    BY <1>2, <1>3, <1>4, <1>5, ConstantsAssumption
    DEF IInv, NothingAheadOfTheProvider, OutstandingIsNewest,
        NothingAheadOfTheRecord, Holds

\* A step that leaves the provider alone, writes no record, and after which
\* every call still has what it had, or nothing, or the record it has read.
Quiet ==
    /\ UNCHANGED current
    /\ \A s \in Session : store'[s] \in {store[s], NoSession}
    /\ \A r \in Request :
          \/ UNCHANGED <<pc[r], sid[r], held[r]>>
          \/ held'[r] = NoSession /\ pc'[r] # "refreshed"
          \/ /\ UNCHANGED <<sid[r], held[r]>>
             /\ pc[r] # "refreshed" /\ pc'[r] # "refreshed"
          \/ /\ sid'[r] \in Session /\ held'[r] = store[sid'[r]]
             /\ pc'[r] = "found" /\ UNCHANGED store

LEMMA QuietSteps ==
    ASSUME TypeOK,
           \/ \E r \in Request, s \in Session : FindById(r, s)
           \/ \E r \in Request : \/ Resume(r) \/ ProviderRejects(r) \/ Respond(r)
                                 \/ Crash(r) \/ RefreshFails(r) \/ NotStored(r)
           \/ \E s \in Session : \/ Logout(s) \/ DeleteRuns(s) \/ DeleteFails(s)
                                 \/ Revoke(s)
           \/ Tick \/ UNCHANGED vars
    PROVE  Quiet
<1> USE DEF TypeOK, Quiet, End
<1>1. ASSUME NEW r \in Request, NEW s \in Session, FindById(r, s) PROVE Quiet
    BY <1>1 DEF FindById
<1>2. ASSUME NEW r \in Request, Resume(r) PROVE Quiet
    BY <1>2 DEF Resume, ReturnNothing, HydrateThrows, ReturnStored, StartRefresh
<1>3. ASSUME NEW r \in Request,
             \/ ProviderRejects(r) \/ Respond(r) \/ Crash(r)
             \/ RefreshFails(r) \/ NotStored(r)
      PROVE  Quiet
    BY <1>3 DEF ProviderRejects, Respond, Crash, RefreshFails, NotStored
<1>4. ASSUME NEW s \in Session, Logout(s) \/ DeleteRuns(s) PROVE Quiet
    BY <1>4 DEF Logout, DeleteRuns, Without
<1>5. ASSUME NEW s \in Session, DeleteFails(s) \/ Revoke(s) PROVE Quiet
    BY <1>5 DEF DeleteFails, Revoke
<1>6. CASE Tick \/ UNCHANGED vars
    BY <1>6 DEF Tick, vars
<1> QED
    BY <1>1, <1>2, <1>3, <1>4, <1>5, <1>6

\* What every step is, for the proofs below.
LEMMA StepCases ==
    ASSUME TypeOK, [Next]_vars
    PROVE  \/ Quiet
           \/ \E r \in Request : ProviderAccepts(r) \/ Upsert(r)
BY QuietSteps DEF Next, ProviderAnswers

\* What the provider's acceptance of a call's token does.
LEMMA Accepted ==
    ASSUME TypeOK, SessionIsolation, NEW r \in Request, ProviderAccepts(r)
    PROVE  /\ pc[r] = "refreshing" /\ held[r] # NoSession
           /\ sid[r] \in Session /\ held[r].grant = sid[r]
           /\ held[r].gen = current[sid[r]] /\ current[sid[r]] \in Nat
           /\ held'[r] \in Credentials /\ held'[r].grant = sid[r]
           /\ held'[r].gen = current'[sid[r]]
           /\ current'[sid[r]] = IF sid[r] \in Rotating THEN current[sid[r]] + 1
                                 ELSE current[sid[r]]
           /\ \A x \in Session \ {sid[r]} : current'[x] = current[x]
           /\ \A q \in Request \ {r} : held'[q] = held[q] /\ pc'[q] = pc[q]
           /\ pc' = [pc EXCEPT ![r] = "refreshed"]
           /\ UNCHANGED <<store, sid>>
<1> DEFINE s == sid[r]
<1>1. /\ pc[r] = "refreshing" /\ held[r] # NoSession
      /\ s \in Session /\ held[r].grant = s
      /\ held[r].gen = current[s] /\ current[s] \in Nat
    BY NoSessionAssumption DEF ProviderAccepts, Honoured, TypeOK, SessionIsolation
<1>2. PICK e \in IssuedExp \cup {(clock \div Second) + Lifetime} :
          held' = [held EXCEPT ![r] = Refreshed(held[r], e)]
    BY DEF ProviderAccepts
<1>3. /\ held'[r] \in Credentials
      /\ held'[r].grant = s
      /\ held'[r].gen = IF s \in Rotating THEN current[s] + 1 ELSE current[s]
    <2>1. e \in ExpClaim
        BY IssuedExpType
    <2>2. held[r] \in Credentials
        BY <1>1, HeldType
    <2> QED
        BY <1>1, <1>2, <2>1, <2>2, RefreshedType DEF TypeOK
<1>4. /\ current' = [current EXCEPT ![s] = IF s \in Rotating THEN current[s] + 1
                                           ELSE current[s]]
      /\ pc' = [pc EXCEPT ![r] = "refreshed"]
      /\ UNCHANGED <<store, sid>>
    BY <1>1 DEF ProviderAccepts
<1>5. \A q \in Request \ {r} : held'[q] = held[q] /\ pc'[q] = pc[q]
    BY <1>2, <1>4 DEF TypeOK
<1>6. /\ current'[s] = IF s \in Rotating THEN current[s] + 1 ELSE current[s]
      /\ \A x \in Session \ {s} : current'[x] = current[x]
    BY <1>1, <1>4 DEF TypeOK
<1> QED
    BY <1>1, <1>3, <1>4, <1>5, <1>6

\* What an upsert does.
LEMMA Stored ==
    ASSUME TypeOK, SessionIsolation, NEW r \in Request, Upsert(r)
    PROVE  /\ pc[r] = "refreshed" /\ sid[r] \in Session
           /\ held[r] # NoSession /\ held[r].grant = sid[r]
           /\ store'[sid[r]] = held[r]
           /\ \A x \in Session \ {sid[r]} : store'[x] = store[x]
           /\ pc' = [pc EXCEPT ![r] = "authenticated"]
           /\ pc'[r] # "refreshed" /\ \A q \in Request \ {r} : pc'[q] = pc[q]
           /\ UNCHANGED <<current, sid, held>>
BY DEF Upsert, Written, TypeOK, SessionIsolation

LEMMA StepIsolated == TypeOK /\ SessionIsolation /\ [Next]_vars => SessionIsolation'
<1> SUFFICES ASSUME TypeOK, SessionIsolation, [Next]_vars
             PROVE  SessionIsolation'
    OBVIOUS
<1>1. CASE Quiet
    BY <1>1 DEF Quiet, SessionIsolation
<1>2. ASSUME NEW r \in Request, ProviderAccepts(r) PROVE SessionIsolation'
    BY <1>2, Accepted DEF SessionIsolation
<1>3. ASSUME NEW r \in Request, Upsert(r) PROVE SessionIsolation'
    BY <1>3, Stored DEF SessionIsolation
<1> QED
    BY <1>1, <1>2, <1>3, StepCases

LEMMA StepNeverReplaced ==
    TypeOK /\ SessionIsolation /\ NeverReplaced /\ [Next]_vars => NeverReplaced'
<1> SUFFICES ASSUME TypeOK, SessionIsolation, NeverReplaced, [Next]_vars
             PROVE  NeverReplaced'
    OBVIOUS
<1>1. CASE Quiet
    BY <1>1 DEF Quiet, NeverReplaced
<1>2. ASSUME NEW r \in Request, ProviderAccepts(r) PROVE NeverReplaced'
    BY <1>2, Accepted DEF NeverReplaced
<1>3. ASSUME NEW r \in Request, Upsert(r) PROVE NeverReplaced'
    BY <1>3, Stored DEF NeverReplaced
<1> QED
    BY <1>1, <1>2, <1>3, StepCases

\* Of a session whose refresh token is not rotated every copy is the first.
LEMMA OneToken ==
    ASSUME SessionIsolation, NeverReplaced, NEW s \in Session \ Rotating
    PROVE  /\ current[s] = 0
           /\ store[s] # NoSession => store[s].gen = 0
           /\ \A r \in Request : Holds(r, s) => held[r].gen = 0
BY DEF SessionIsolation, NeverReplaced, Holds

LEMMA QuietIInv ==
    ASSUME TypeOK, TypeOK', IInv, Quiet, SessionIsolation', NeverReplaced'
    PROVE  IInv'
<1> USE DEF IInv, Holds
<1>1. ASSUME NEW r \in Request, NEW s \in Session, Holds(r, s)'
      PROVE  /\ held'[r].gen \in Nat
             /\ held'[r].gen <= current'[s]
             /\ store[s] # NoSession /\ pc'[r] # "refreshed" =>
                   held'[r].gen <= store[s].gen
    <2>1. CASE sid'[r] = sid[r] /\ held'[r] = held[r]
        BY <1>1, <2>1, HeldType
        DEF Quiet, NothingAheadOfTheProvider, NothingAheadOfTheRecord
    <2>2. CASE held'[r] = store[s]
        BY <1>1, <2>2, StoreType DEF Quiet, AtMostOneBehind, TypeOK
    <2> QED
        BY <1>1, <2>1, <2>2 DEF Quiet
<1>2. NothingAheadOfTheProvider'
    BY <1>1 DEF NothingAheadOfTheProvider
<1>3. NothingAheadOfTheRecord'
    BY <1>1 DEF NothingAheadOfTheRecord, Quiet
<1>4. AtMostOneBehind'
    BY DEF AtMostOneBehind, Quiet
<1>5. OutstandingIsNewest'
    <2> SUFFICES ASSUME NEW r \in Request, NEW s \in Rotating,
                        pc'[r] = "refreshed", sid'[r] = s
                 PROVE  /\ held'[r].gen = current'[s]
                        /\ store'[s] # NoSession => store'[s].gen < current'[s]
                        /\ \A q \in Request \ {r} :
                              Holds(q, s)' => held'[q].gen < current'[s]
        BY DEF OutstandingIsNewest
    <2>1. s \in Session
        BY ConstantsAssumption
    <2>2. UNCHANGED <<pc[r], sid[r], held[r]>>
        BY <2>1 DEF Quiet
    <2>3. /\ held[r].gen = current[s]
          /\ store[s] # NoSession => store[s].gen < current[s]
          /\ \A q \in Request \ {r} : Holds(q, s) => held[q].gen < current[s]
        BY <2>2 DEF OutstandingIsNewest
    <2>4. ASSUME NEW q \in Request \ {r}, Holds(q, s)'
          PROVE  held'[q].gen < current[s]
        BY <2>1, <2>3, <2>4 DEF Quiet
    <2> QED
        BY <2>1, <2>2, <2>3, <2>4 DEF Quiet
<1> QED
    BY <1>2, <1>3, <1>4, <1>5

\* Only the holder of the newest token is accepted; after that, if the token is
\* rotated, every other copy is old, and the record is exactly one behind.
LEMMA ProviderAcceptsIInv ==
    ASSUME TypeOK, IInv, NEW r \in Request, ProviderAccepts(r),
           SessionIsolation', NeverReplaced'
    PROVE  IInv'
<1> USE DEF IInv, Holds
<1> DEFINE s == sid[r]
<1>1. /\ pc[r] = "refreshing" /\ held[r] # NoSession
      /\ s \in Session /\ held[r].grant = s
      /\ held[r].gen = current[s] /\ current[s] \in Nat
    BY Accepted
<1>2. /\ held'[r].gen = current'[s]
      /\ current'[s] = IF s \in Rotating THEN current[s] + 1 ELSE current[s]
      /\ \A x \in Session \ {s} : current'[x] = current[x]
      /\ \A q \in Request \ {r} : held'[q] = held[q] /\ pc'[q] = pc[q]
      /\ pc'[r] = "refreshed"
      /\ UNCHANGED <<store, sid>>
    BY Accepted DEF TypeOK
<1>3. \A q \in Request : q # r /\ Holds(q, s) =>
          /\ held[q].gen \in Nat /\ held[q].gen <= current[s]
          /\ s \in Rotating => pc[q] # "refreshed"
    <2> SUFFICES ASSUME NEW q \in Request, q # r, Holds(q, s)
                 PROVE  /\ held[q].gen \in Nat /\ held[q].gen <= current[s]
                        /\ s \in Rotating => pc[q] # "refreshed"
        OBVIOUS
    <2>1. held[q].gen \in Nat
        BY HeldType
    <2>2. held[q].gen <= current[s]
        BY <1>1 DEF NothingAheadOfTheProvider
    <2>3. s \in Rotating => pc[q] # "refreshed"
        BY <1>1 DEF OutstandingIsNewest
    <2> QED
        BY <2>1, <2>2, <2>3
<1>4. store[s] # NoSession => store[s].gen = current[s]
    BY <1>1, StoreType DEF NothingAheadOfTheRecord, AtMostOneBehind
<1>5. NothingAheadOfTheProvider'
    <2> SUFFICES ASSUME NEW q \in Request, NEW x \in Session, Holds(q, x)'
                 PROVE  held'[q].gen <= current'[x]
        BY DEF NothingAheadOfTheProvider
    <2>1. CASE q = r
        BY <1>1, <1>2, <2>1
    <2>2. CASE q # r /\ x = s
        BY <1>1, <1>2, <1>3, <2>2
    <2>3. CASE q # r /\ x # s
        BY <1>2, <2>3 DEF NothingAheadOfTheProvider
    <2> QED
        BY <2>1, <2>2, <2>3
<1>6. NothingAheadOfTheRecord'
    BY <1>2 DEF NothingAheadOfTheRecord
<1>7. AtMostOneBehind'
    BY <1>1, <1>2, <1>4 DEF AtMostOneBehind
<1>8. OutstandingIsNewest'
    <2> SUFFICES ASSUME NEW p \in Request, NEW x \in Rotating,
                        pc'[p] = "refreshed", sid'[p] = x
                 PROVE  /\ held'[p].gen = current'[x]
                        /\ store'[x] # NoSession => store'[x].gen < current'[x]
                        /\ \A q \in Request \ {p} :
                              Holds(q, x)' => held'[q].gen < current'[x]
        BY DEF OutstandingIsNewest
    <2> x \in Session
        BY ConstantsAssumption
    <2>1. CASE p = r
        BY <1>1, <1>2, <1>3, <1>4, <2>1
    <2>2. CASE p # r
        <3>1. pc[p] = "refreshed" /\ sid[p] = x /\ held'[p] = held[p]
            BY <1>2, <2>2
        <3>2. held[p] # NoSession
            BY <3>1 DEF TypeOK
        <3>3. x # s
            BY <1>3, <2>2, <3>1, <3>2
        <3>4. \A q \in Request : Holds(q, x)' => q # r /\ Holds(q, x)
            BY <1>2, <3>3
        <3> QED
            BY <1>2, <3>1, <3>3, <3>4 DEF OutstandingIsNewest
    <2> QED
        BY <2>1, <2>2
<1> QED
    BY <1>5, <1>6, <1>7, <1>8

\* The stored answer is the newest token, so no copy is ahead of the record.
LEMMA UpsertIInv ==
    ASSUME TypeOK, IInv, NEW r \in Request, Upsert(r),
           SessionIsolation', NeverReplaced'
    PROVE  IInv'
<1> USE DEF IInv, Holds
<1> DEFINE s == sid[r]
<1>1. /\ pc[r] = "refreshed" /\ s \in Session /\ held[r] # NoSession
      /\ store'[s] = held[r]
      /\ \A x \in Session \ {s} : store'[x] = store[x]
      /\ pc'[r] # "refreshed" /\ \A q \in Request \ {r} : pc'[q] = pc[q]
      /\ UNCHANGED <<current, sid, held>>
    BY Stored
<1>2. held[r].gen = current[s] /\ current[s] \in Nat
    <2>1. current[s] \in Nat
        BY <1>1 DEF TypeOK
    <2>2. CASE s \in Rotating
        BY <1>1, <2>1, <2>2 DEF OutstandingIsNewest
    <2>3. CASE s \notin Rotating
        BY <1>1, <2>1, <2>3, OneToken
    <2> QED
        BY <2>1, <2>2, <2>3
<1>3. NothingAheadOfTheProvider'
    BY <1>1 DEF NothingAheadOfTheProvider
<1>4. AtMostOneBehind'
    BY <1>1, <1>2 DEF AtMostOneBehind
<1>5. NothingAheadOfTheRecord'
    <2> SUFFICES ASSUME NEW q \in Request, NEW x \in Session,
                        Holds(q, x), pc'[q] # "refreshed", store'[x] # NoSession
                 PROVE  held[q].gen <= store'[x].gen
        BY <1>1 DEF NothingAheadOfTheRecord
    <2>1. CASE x = s
        BY <1>1, <1>2, <2>1, HeldType DEF NothingAheadOfTheProvider
    <2>2. CASE x # s
        BY <1>1, <2>2 DEF NothingAheadOfTheRecord
    <2> QED
        BY <2>1, <2>2
<1>6. OutstandingIsNewest'
    <2> SUFFICES ASSUME NEW p \in Request, NEW x \in Rotating,
                        pc'[p] = "refreshed", sid[p] = x
                 PROVE  /\ held[p].gen = current[x]
                        /\ store'[x] # NoSession => store'[x].gen < current[x]
                        /\ \A q \in Request \ {p} :
                              Holds(q, x) => held[q].gen < current[x]
        BY <1>1 DEF OutstandingIsNewest
    <2> x \in Session
        BY ConstantsAssumption
    <2>1. p # r /\ pc[p] = "refreshed" /\ held[p] # NoSession
        BY <1>1 DEF TypeOK
    <2>2. x # s
        BY <1>1, <1>2, <2>1 DEF OutstandingIsNewest
    <2> QED
        BY <1>1, <2>1, <2>2 DEF OutstandingIsNewest
<1> QED
    BY <1>3, <1>4, <1>5, <1>6

LEMMA StepIInv == TypeOK /\ IInv /\ [Next]_vars => IInv'
<1> SUFFICES ASSUME TypeOK, IInv, [Next]_vars PROVE IInv'
    OBVIOUS
<1>1. TypeOK' /\ SessionIsolation' /\ NeverReplaced'
    BY StepTypeOK, StepIsolated, StepNeverReplaced DEF IInv
<1> QED
    BY <1>1, StepCases, QuietIInv, ProviderAcceptsIInv, UpsertIInv

\* The inductive invariant of all of the following, faults included, whichever
\* providers rotate refresh tokens.
THEOREM InductiveInvariant == Spec => [](TypeOK /\ IInv)
<1>1. Init => TypeOK /\ IInv
    BY InitTypeOK, InitIInv
<1>2. TypeOK /\ IInv /\ [Next]_vars => (TypeOK /\ IInv)'
    BY StepTypeOK, StepIInv
<1> QED
    BY <1>1, <1>2, PTL DEF Spec

\* Where the provider rotates refresh tokens, of all overlapping calls of a
\* session at most one has an answer it has not stored, and that answer is newer
\* than everything the store and the other calls have.
THEOREM OutstandingNewest == Spec => []OutstandingIsNewest
<1>1. TypeOK /\ IInv => OutstandingIsNewest
    BY DEF IInv
<1> QED
    BY <1>1, InductiveInvariant, PTL

\* No request is answered with credentials that the store does not have yet;
THEOREM NothingAhead == Spec => []NothingAheadOfTheRecord
<1>1. TypeOK /\ IInv => NothingAheadOfTheRecord
    BY DEF IInv
<1> QED
    BY <1>1, InductiveInvariant, PTL

\* ... and the record never falls more than one generation behind.
THEOREM AtMostOneLost == Spec => []AtMostOneBehind
<1>1. TypeOK /\ IInv => AtMostOneBehind
    BY DEF IInv
<1> QED
    BY <1>1, InductiveInvariant, PTL

\* Of two overlapping calls neither overwrites what the other has stored: a
\* record whose token is rotated only moves to the next generation of itself.
THEOREM UpdatesAreNotLost == Spec => NoLostUpdate
<1> DEFINE Advances ==
        \A s \in Rotating :
            store[s] # NoSession /\ store'[s] \notin {NoSession, store[s]}
            => store'[s].gen = store[s].gen + 1
<1>1. TypeOK /\ IInv /\ [Next]_vars => [Advances]_vars
    <2> SUFFICES ASSUME TypeOK, IInv, [Next]_vars, NEW s \in Rotating,
                        store[s] # NoSession,
                        store'[s] \notin {NoSession, store[s]}
                 PROVE  store'[s].gen = store[s].gen + 1
        BY Zenon
    <2> s \in Session
        BY ConstantsAssumption
    <2>1. PICK r \in Request : Upsert(r)
        BY StepCases DEF Quiet, ProviderAccepts
    <2>2. /\ pc[r] = "refreshed" /\ sid[r] = s /\ store'[s] = held[r]
        BY <2>1, Stored DEF IInv
    <2>3. store'[s].gen = current[s] /\ store[s].gen < current[s]
        BY <2>2 DEF IInv, OutstandingIsNewest
    <2> QED
        BY <2>3, StoreType DEF IInv, AtMostOneBehind, TypeOK
<1> HIDE DEF Advances
<1>2. Spec => [][Advances]_vars
    BY <1>1, InductiveInvariant, PTL DEF Spec
<1> QED
    BY <1>2 DEF NoLostUpdate, Advances

\* One user's tokens never reach another's record or request.
THEOREM SessionsIsolated == Spec => []SessionIsolation
<1>1. TypeOK /\ IInv => SessionIsolation
    BY DEF IInv
<1> QED
    BY <1>1, InductiveInvariant, PTL

-----------------------------------------------------------------------------
(* Logouts and Durable Objects *)

\* A session that has neither a record nor a call that read one stays without:
\* no cookie brings back what was logged out.
THEOREM GoneStaysGone == Spec => GoneIsForever
<1> DEFINE StaysGone == \A s \in Session : Gone(s) => Gone(s)'
<1>1. TypeOK /\ [Next]_vars => [StaysGone]_vars
    <2> SUFFICES ASSUME TypeOK, [Next]_vars, NEW s \in Session, Gone(s)
                 PROVE  Gone(s)'
        BY Zenon
    <2> USE DEF Gone, Holds
    <2>1. CASE Quiet
        BY <2>1 DEF Quiet
    <2>2. ASSUME NEW r \in Request, ProviderAccepts(r) PROVE Gone(s)'
        <3>1. sid[r] # s
            BY <2>2 DEF ProviderAccepts, TypeOK
        <3> QED
            BY <2>2, <3>1 DEF ProviderAccepts, TypeOK
    <2>3. ASSUME NEW r \in Request, Upsert(r) PROVE Gone(s)'
        BY <2>3 DEF Upsert, TypeOK
    <2> QED
        BY <2>1, <2>2, <2>3, StepCases
<1> HIDE DEF StaysGone
<1>2. Spec => [][StaysGone]_vars
    BY <1>1, TypeCorrect, PTL DEF Spec
<1> QED
    BY <1>2 DEF GoneIsForever, StaysGone

\* In a Durable Object a call that has read the record decides on the record as
\* it is: no delete is left running, and no upsert or logout gets between.
THEOREM GateGuardsTheRead == Spec => []DecidesOnTheRecord
<1> DEFINE Guarded == deleting \cap Durable = {} /\ DecidesOnTheRecord
<1>1. Init => Guarded
    BY DEF Init, DecidesOnTheRecord
<1>2. TypeOK /\ Guarded /\ [Next]_vars => Guarded'
    <2> SUFFICES ASSUME TypeOK, Guarded, [Next]_vars
                 PROVE  /\ deleting' \cap Durable = {}
                        /\ \A r \in Request : pc'[r] = "found" /\ sid'[r] \in Durable
                                                => held'[r] = store'[sid'[r]]
        BY DEF DecidesOnTheRecord
    <2>1. /\ deleting \cap Durable = {}
          /\ \A q \in Request : pc[q] = "found" /\ sid[q] \in Durable
                                  => held[q] = store[sid[q]]
        BY DEF DecidesOnTheRecord
    <2> USE <2>1 DEF TypeOK, End
    <2>2. CASE \E r \in Request, s \in Session : FindById(r, s)
        BY <2>2 DEF FindById
    <2>3. CASE \E r \in Request : Resume(r)
        BY <2>3 DEF Resume, ReturnNothing, HydrateThrows, ReturnStored, StartRefresh
    <2>4. CASE \E r \in Request : ProviderAccepts(r)
        BY <2>4 DEF ProviderAccepts
    <2>5. CASE \E r \in Request : \/ ProviderRejects(r) \/ Respond(r) \/ Crash(r)
                                  \/ RefreshFails(r) \/ NotStored(r)
        BY <2>5 DEF ProviderRejects, Respond, Crash, RefreshFails, NotStored
    <2>6. ASSUME NEW r \in Request, Upsert(r)
          PROVE  /\ deleting' \cap Durable = {}
                 /\ \A q \in Request : pc'[q] = "found" /\ sid'[q] \in Durable
                                         => held'[q] = store'[sid'[q]]
        <3>1. \A q \in Request : sid[q] \in Durable /\ pc[q] = "found" => sid[q] # sid[r]
            BY <2>6 DEF Upsert, GateOpen
        <3> QED
            BY <2>6, <3>1 DEF Upsert
    <2>7. ASSUME NEW s \in Session, Logout(s)
          PROVE  /\ deleting' \cap Durable = {}
                 /\ \A q \in Request : pc'[q] = "found" /\ sid'[q] \in Durable
                                         => held'[q] = store'[sid'[q]]
        <3>1. CASE s \in Durable
            <4>1. \A q \in Request : sid[q] = s => pc[q] # "found"
                BY <2>7, <3>1 DEF Logout, GateOpen
            <4> QED
                BY <2>7, <3>1, <4>1 DEF Logout, Without
        <3>2. CASE s \notin Durable
            BY <2>7, <3>2 DEF Logout
        <3> QED
            BY <3>1, <3>2
    <2>8. ASSUME NEW s \in Session, DeleteRuns(s)
          PROVE  /\ deleting' \cap Durable = {}
                 /\ \A q \in Request : pc'[q] = "found" /\ sid'[q] \in Durable
                                         => held'[q] = store'[sid'[q]]
        <3>1. s \notin Durable
            BY <2>8 DEF DeleteRuns
        <3> QED
            BY <2>8, <3>1 DEF DeleteRuns, Without
    <2>9. CASE \/ \E s \in Session : DeleteFails(s) \/ Revoke(s)
               \/ Tick \/ UNCHANGED vars
        BY <2>9 DEF DeleteFails, Revoke, Tick, vars
    <2> QED
        BY <2>2, <2>3, <2>4, <2>5, <2>6, <2>7, <2>8, <2>9 DEF Next, ProviderAnswers
<1>3. Guarded => DecidesOnTheRecord
    OBVIOUS
<1> HIDE DEF Guarded
<1> QED
    BY <1>1, <1>2, <1>3, TypeCorrect, PTL DEF Spec

-----------------------------------------------------------------------------
(* Without interruptions no rotation is lost *)

\* The answer of the provider stays with its call until the call stores it.
LEMMA AnswerStays ==
    ASSUME TypeOK, [Next]_vars, Faults \cap {"crash", "notStored"} = {},
           NEW r \in Request, pc[r] = "refreshed", ~Upsert(r)
    PROVE  pc'[r] = "refreshed" /\ sid'[r] = sid[r]
<1> USE DEF TypeOK, End
<1>1. ASSUME NEW q \in Request,
             \/ \E s \in Session : FindById(q, s)
             \/ Resume(q) \/ ProviderAnswers(q) \/ Respond(q) \/ RefreshFails(q)
      PROVE  pc'[r] = "refreshed" /\ sid'[r] = sid[r]
    BY <1>1 DEF FindById, Resume, ReturnNothing, HydrateThrows, ReturnStored,
        StartRefresh, ProviderAnswers, ProviderAccepts, ProviderRejects, Respond,
        RefreshFails
<1>2. ASSUME NEW q \in Request, Upsert(q)
      PROVE  pc'[r] = "refreshed" /\ sid'[r] = sid[r]
    BY <1>2 DEF Upsert
<1>3. CASE \/ \E s \in Session : \/ Logout(s) \/ DeleteRuns(s) \/ DeleteFails(s)
                                 \/ Revoke(s)
           \/ Tick \/ UNCHANGED vars
    BY <1>3 DEF Logout, DeleteRuns, DeleteFails, Revoke, Tick, vars
<1>4. ~\E q \in Request : Crash(q) \/ NotStored(q)
    BY DEF Crash, NotStored
<1> QED
    BY <1>1, <1>2, <1>3, <1>4 DEF Next

\* As long as no call is cut off between the provider's answer and the upsert, the
\* record of a session has the token the provider accepts next.
THEOREM RotationsAreStored ==
    ASSUME Faults \cap {"crash", "notStored"} = {}
    PROVE  Spec => []CurrentIsStored
<1>1. Init => CurrentIsStored
    <2> SUFFICES ASSUME Init, NEW s \in Session, store[s] # NoSession
                 PROVE  store[s].gen = current[s]
        BY DEF CurrentIsStored
    <2> QED
        BY InitStore DEF Init
<1>2. /\ TypeOK /\ IInv /\ CurrentIsStored /\ [Next]_vars /\ IInv'
      => CurrentIsStored'
    <2> SUFFICES ASSUME TypeOK, IInv, CurrentIsStored, [Next]_vars, IInv',
                        NEW s \in Session, store'[s] # NoSession
                 PROVE  \/ store'[s].gen = current'[s]
                        \/ \E r \in Request : sid'[r] = s /\ pc'[r] = "refreshed"
        BY DEF CurrentIsStored
    <2>1. CASE \E r \in Request : sid[r] = s /\ Upsert(r)
        <3>1. PICK r \in Request : sid[r] = s /\ Upsert(r)
            BY <2>1
        <3>2. /\ pc[r] = "refreshed" /\ held[r] # NoSession
              /\ store'[s] = held[r] /\ current'[s] = current[s]
            BY <3>1, Stored DEF IInv
        <3>3. CASE s \in Rotating
            BY <3>1, <3>2, <3>3 DEF IInv, OutstandingIsNewest
        <3>4. CASE s \notin Rotating
            BY <3>1, <3>2, <3>4, OneToken DEF IInv, Holds
        <3> QED
            BY <3>3, <3>4
    <2>2. CASE \E r \in Request : sid[r] = s /\ ProviderAccepts(r)
        BY <2>2 DEF ProviderAccepts, TypeOK
    <2>3. CASE ~\E r \in Request : sid[r] = s /\ (Upsert(r) \/ ProviderAccepts(r))
        <3>1. store'[s] = store[s] /\ current'[s] = current[s]
            <4>1. CASE Quiet
                BY <4>1 DEF Quiet
            <4>2. ASSUME NEW r \in Request, Upsert(r) PROVE <3>1
                BY <2>3, <4>2, Stored DEF IInv
            <4>3. ASSUME NEW r \in Request, ProviderAccepts(r) PROVE <3>1
                BY <2>3, <4>3, Accepted DEF IInv
            <4> QED
                BY <4>1, <4>2, <4>3, StepCases
        <3>2. ASSUME NEW r \in Request, sid[r] = s, pc[r] = "refreshed"
              PROVE  sid'[r] = s /\ pc'[r] = "refreshed"
            BY <2>3, <3>2, AnswerStays
        <3> QED
            BY <3>1, <3>2 DEF CurrentIsStored
    <2> QED
        BY <2>1, <2>2, <2>3
<1> QED
    BY <1>1, <1>2, InductiveInvariant, PTL DEF Spec

\* The loser of a race for a single-use token is turned down because another call
\* of its session got the next one, which is stored or about to be.
THEOREM LosersWereOvertaken ==
    ASSUME Faults \cap {"crash", "notStored"} = {}
    PROVE  Spec => []RefusedOnlyIfOvertaken
<1>1. TypeOK /\ IInv /\ CurrentIsStored => RefusedOnlyIfOvertaken
    <2> SUFFICES ASSUME TypeOK, IInv, CurrentIsStored, NEW r \in Request,
                        pc[r] = "refreshing", ~Honoured(held[r]),
                        held[r].grant \notin revoked, store[sid[r]] # NoSession,
                        ~\E q \in Request : sid[q] = sid[r] /\ pc[q] = "refreshed"
                 PROVE  store[sid[r]].gen > held[r].gen
        BY DEF RefusedOnlyIfOvertaken, Overtaken
    <2>1. held[r] # NoSession /\ sid[r] \in Session /\ Holds(r, sid[r])
        BY DEF TypeOK, Holds
    <2>2. held[r].gen # current[sid[r]] /\ held[r].gen <= current[sid[r]]
        BY <2>1 DEF Honoured, IInv, SessionIsolation, NothingAheadOfTheProvider
    <2>3. store[sid[r]].gen = current[sid[r]]
        BY <2>1 DEF CurrentIsStored
    <2> QED
        BY <2>1, <2>2, <2>3, HeldType, StoreType
<1> QED
    BY <1>1, InductiveInvariant, RotationsAreStored, PTL

-----------------------------------------------------------------------------
(* Where refresh tokens stay valid, an overlap costs nobody the session *)

\* Nothing that fails or overlaps takes a reusable token away: the record has the
\* token that the provider accepts as long as there is a record.
THEOREM ReusableTokensStay ==
    Spec => [](\A s \in Session \ Rotating :
                  store[s] # NoSession => store[s].gen = current[s])
<1>1. TypeOK /\ IInv => \A s \in Session \ Rotating :
                           store[s] # NoSession => store[s].gen = current[s]
    BY OneToken DEF IInv
<1> QED
    BY <1>1, InductiveInvariant, PTL

\* As long as every refresh reaches the provider and its answer is stored, a
\* call fails only on a record that does not decode, on a grant the provider has
\* ended, or on one whose refresh tokens it rotates: overlapping refreshes of
\* any other session all succeed.
THEOREM ReuseIsHarmless ==
    ASSUME Faults \cap {"refreshFails", "notStored"} = {}
    PROVE  Spec => OverlapIsHarmless
<1> DEFINE Harmless ==
        \A r \in Request :
            pc[r] # "failed" /\ pc'[r] = "failed"
            => \/ held[r].exp = Undecodable
               \/ held[r].grant \in Rotating \cup revoked
<1>1. TypeOK /\ IInv => NeverReplaced
    BY DEF IInv
<1>2. TypeOK /\ NeverReplaced /\ [Next]_vars => [Harmless]_vars
    <2> SUFFICES ASSUME TypeOK, NeverReplaced, [Next]_vars, NEW r \in Request,
                        pc[r] # "failed", pc'[r] = "failed"
                 PROVE  \/ held[r].exp = Undecodable
                        \/ held[r].grant \in Rotating \cup revoked
        BY Zenon
    <2>1. ~\E q \in Request : RefreshFails(q) \/ NotStored(q)
        BY DEF RefreshFails, NotStored
    <2>2. HydrateThrows(r) \/ ProviderRejects(r)
        <3> USE DEF TypeOK, End
        <3>1. ASSUME NEW q \in Request,
                     \/ \E s \in Session : FindById(q, s)
                     \/ Resume(q) \/ ProviderAnswers(q) \/ Upsert(q)
                     \/ Respond(q) \/ Crash(q)
              PROVE  HydrateThrows(r) \/ ProviderRejects(r)
            <4>1. q = r
                BY <3>1 DEF FindById, Resume, ReturnNothing, HydrateThrows,
                    ReturnStored, StartRefresh, ProviderAnswers, ProviderAccepts,
                    ProviderRejects, Upsert, Respond, Crash
            <4>2. ~\/ \E s \in Session : FindById(q, s)
                   \/ ReturnNothing(q) \/ ReturnStored(q) \/ StartRefresh(q)
                   \/ ProviderAccepts(q) \/ Upsert(q) \/ Respond(q) \/ Crash(q)
                BY <4>1 DEF FindById, ReturnNothing, ReturnStored, StartRefresh,
                    ProviderAccepts, Upsert, Respond, Crash
            <4> QED
                BY <3>1, <4>1, <4>2 DEF Resume, ProviderAnswers
        <3>2. ~\/ \E s \in Session : \/ Logout(s) \/ DeleteRuns(s)
                                     \/ DeleteFails(s) \/ Revoke(s)
               \/ Tick \/ UNCHANGED vars
            BY DEF Logout, DeleteRuns, DeleteFails, Revoke, Tick, vars
        <3> QED
            BY <2>1, <3>1, <3>2 DEF Next
    <2>3. CASE HydrateThrows(r)
        BY <2>3 DEF HydrateThrows
    <2>4. CASE ProviderRejects(r)
        <3>1. held[r] # NoSession /\ held[r].grant \in Session
            BY <2>4, HeldType DEF ProviderRejects, TypeOK
        <3>2. held[r].grant \in revoked \/ held[r].gen # current[held[r].grant]
            BY <2>4 DEF ProviderRejects, Honoured
        <3> QED
            BY <3>1, <3>2 DEF NeverReplaced
    <2> QED
        BY <2>2, <2>3, <2>4
<1> HIDE DEF Harmless
<1>3. Spec => [][Harmless]_vars
    BY <1>1, <1>2, InductiveInvariant, PTL DEF Spec
<1> QED
    BY <1>3 DEF OverlapIsHarmless, Harmless

=============================================================================
