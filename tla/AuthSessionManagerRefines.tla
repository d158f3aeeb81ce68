----------------------- MODULE AuthSessionManagerRefines -----------------------
(***************************************************************************)
(* AuthSessionManager implements SerialRefresh for the sessions whose      *)
(* provider rotates refresh tokens: every step, each fault included, moves *)
(* the baton of one of them as SerialRefresh allows, or leaves all alone.  *)
(***************************************************************************)
EXTENDS AuthSessionManagerProofs

IsOutstanding(s) == \E r \in Request : sid[r] = s /\ pc[r] = "refreshed"

LEMMA BatonValue ==
    ASSUME NEW s \in Rotating
    PROVE  Baton[s] = IF IsOutstanding(s) THEN "outstanding"
                      ELSE IF HasNewest(s) THEN "available" ELSE "lost"
BY DEF Baton, IsOutstanding

LEMMA InitRefines == Init => Serial!Init
<1> SUFFICES ASSUME Init PROVE Serial!Init
    OBVIOUS
<1> USE ConstantsAssumption
<1>1. \A s \in Rotating : Kept[s] = IF store[s] = NoSession THEN NoSession ELSE 0
    BY InitStore DEF Kept
<1>2. Kept \in [Rotating -> {0, NoSession}]
    BY <1>1 DEF Kept
<1>3. ASSUME NEW s \in Rotating
      PROVE  Baton[s] = IF Kept[s] = NoSession THEN "lost" ELSE "available"
    <2>1. ~IsOutstanding(s)
        BY DEF Init, IsOutstanding
    <2>2. HasNewest(s) <=> store[s] # NoSession
        BY InitStore DEF Init, HasNewest, Holds
    <2> QED
        BY <1>1, <2>1, <2>2, BatonValue, NoSessionAssumption
<1>4. Baton = [s \in Rotating |-> IF Kept[s] = NoSession THEN "lost" ELSE "available"]
    BY <1>3 DEF Baton
<1>5. Newest = [s \in Rotating |-> 0]
    BY DEF Init, Newest
<1> QED
    BY <1>2, <1>4, <1>5 DEF Serial!Init

\* The abstract variables of session s are as they were.
Alike(s) == Newest'[s] = Newest[s] /\ Kept'[s] = Kept[s] /\ Baton'[s] = Baton[s]

\* What the abstract variables of a session depend on: its record, its current
\* generation, and the calls made with its id.
LEMMA Untouched ==
    ASSUME NEW s \in Rotating,
           store'[s] = store[s], current'[s] = current[s],
           \A r \in Request :
              sid[r] = s \/ sid'[r] = s => UNCHANGED <<sid[r], held[r], pc[r]>>
    PROVE  Alike(s)
BY DEF Alike, Newest, Kept, Baton, HasNewest, Holds

\* A step that touches one session is a step of that session's baton ...
LEMMA OneSession ==
    ASSUME NEW s \in Rotating, \A x \in Rotating \ {s} : Alike(x)
    PROVE  /\ Newest' = [Newest EXCEPT ![s] = Newest'[s]]
           /\ Kept' = [Kept EXCEPT ![s] = Kept'[s]]
           /\ Baton' = [Baton EXCEPT ![s] = Baton'[s]]
<1>1. /\ Newest = [x \in Rotating |-> Newest[x]]
      /\ Newest' = [x \in Rotating |-> Newest'[x]]
      /\ Kept = [x \in Rotating |-> Kept[x]]
      /\ Kept' = [x \in Rotating |-> Kept'[x]]
      /\ Baton = [x \in Rotating |-> Baton[x]]
      /\ Baton' = [x \in Rotating |-> Baton'[x]]
    BY DEF Newest, Kept, Baton
<1> QED
    BY <1>1 DEF Alike

\* ... and of none if the session's token is not rotated.
LEMMA NoSerialSession ==
    ASSUME \A x \in Rotating : Alike(x)
    PROVE  UNCHANGED Serial!vars
BY DEF Alike, Newest, Kept, Baton, Serial!vars

\* A call of session s reads the record, goes on with what it has, or drops it.
CallOnly(r, s) ==
    /\ UNCHANGED <<store, current>>
    /\ {sid[r], sid'[r]} \subseteq {s, NoSession}
    /\ \A q \in Request \ {r} : UNCHANGED <<sid[q], held[q], pc[q]>>
    /\ pc'[r] # "refreshed"
    /\ pc'[r] \in {"found", "refreshing"} /\ held'[r] # NoSession =>
          \/ held'[r] = store[s]
          \/ /\ pc[r] \in {"found", "refreshing"}
             /\ UNCHANGED <<sid[r], held[r]>>

LEMMA CallOnlyElsewhere ==
    ASSUME NEW r \in Request, NEW s \in Session, CallOnly(r, s),
           NEW x \in Rotating, x # s
    PROVE  Alike(x)
<1>1. sid[r] # x /\ sid'[r] # x
    BY NoSessionAssumption, ConstantsAssumption DEF CallOnly
<1> QED
    BY <1>1, Untouched DEF CallOnly

LEMMA CallOnlyRefines ==
    ASSUME TypeOK, IInv, NEW r \in Request, NEW s \in Rotating, CallOnly(r, s)
    PROVE  [Serial!Next]_(Serial!vars)
<1> s \in Session
    BY ConstantsAssumption
<1>1. \A x \in Rotating \ {s} : Alike(x)
    BY CallOnlyElsewhere
<1>2. Kept' = Kept /\ Newest' = Newest
    BY DEF CallOnly, Kept, Newest
<1>3. Baton' = [Baton EXCEPT ![s] = Baton'[s]]
    BY <1>1, OneSession
<1>4. /\ Baton[s] = IF IsOutstanding(s) THEN "outstanding"
                    ELSE IF HasNewest(s) THEN "available" ELSE "lost"
      /\ Baton'[s] = IF IsOutstanding(s)' THEN "outstanding"
                     ELSE IF HasNewest(s)' THEN "available" ELSE "lost"
    BY DEF Baton, IsOutstanding
<1>5. CASE IsOutstanding(s) /\ ~IsOutstanding(s)'
    <2>1. pc[r] = "refreshed" /\ sid[r] = s
        BY <1>5 DEF IsOutstanding, CallOnly
    <2>2. ~HasNewest(s)'
        <3>1. store[s] # NoSession => store[s].gen < current[s]
            BY <2>1 DEF IInv, OutstandingIsNewest
        <3>2. \A q \in Request \ {r} : Holds(q, s) => held[q].gen < current[s]
            BY <2>1 DEF IInv, OutstandingIsNewest
        <3>3. ASSUME NEW q \in Request, Holds(q, s)', pc'[q] \in {"found", "refreshing"}
              PROVE  held'[q].gen # current'[s]
            <4>1. CASE q = r
                BY <2>1, <3>1, <3>3, <4>1, StoreType DEF CallOnly, Holds, TypeOK
            <4>2. CASE q # r
                BY <3>2, <3>3, <4>2, HeldType DEF CallOnly, Holds, TypeOK
            <4> QED
                BY <4>1, <4>2
        <3> QED
            BY <3>1, <3>3, StoreType DEF HasNewest, CallOnly, TypeOK
    <2>3. Baton[s] = "outstanding" /\ Baton'[s] = "lost"
        BY <1>4, <1>5, <2>2
    <2>4. Serial!Lose(s)
        BY <1>2, <1>3, <2>3 DEF Serial!Lose
    <2> QED
        BY <2>4 DEF Serial!Next
<1>6. CASE IsOutstanding(s) <=> IsOutstanding(s)'
    <2>1. HasNewest(s)' => HasNewest(s)
        BY DEF HasNewest, Holds, CallOnly
    <2>2. CASE Baton'[s] = Baton[s]
        <3>1. Baton' = Baton
            BY <1>3, <2>2 DEF Baton
        <3> QED
            BY <1>2, <3>1 DEF Serial!vars
    <2>3. CASE Baton'[s] # Baton[s]
        <3>1. Baton[s] = "available" /\ Baton'[s] = "lost" /\ HasNewest(s) /\ ~HasNewest(s)'
            BY <1>4, <1>6, <2>1, <2>3
        <3>2. store[s] = NoSession
            <4> SUFFICES ASSUME store[s] # NoSession PROVE FALSE
                OBVIOUS
            <4>1. store[s].gen # current[s]
                BY <3>1 DEF HasNewest, CallOnly
            <4>2. PICK q \in Request : /\ Holds(q, s) /\ held[q].gen = current[s]
                                      /\ pc[q] \in {"found", "refreshing"}
                BY <3>1, <4>1 DEF HasNewest
            <4>3. current[s] <= store[s].gen
                BY <4>2 DEF IInv, NothingAheadOfTheRecord
            <4> QED
                BY <4>1, <4>3, StoreType DEF IInv, AtMostOneBehind, TypeOK
        <3>3. Kept[s] = NoSession
            BY <3>2 DEF Kept
        <3>4. Serial!Forget(s)
            BY <1>2, <1>3, <3>1, <3>3 DEF Serial!Forget
        <3> QED
            BY <3>4 DEF Serial!Next
    <2> QED
        BY <2>2, <2>3
<1>7. IsOutstanding(s)' => IsOutstanding(s)
    BY DEF IsOutstanding, CallOnly
<1> QED
    BY <1>5, <1>6, <1>7

LEMMA CallSteps ==
    ASSUME TypeOK, NEW r \in Request,
           \/ \E s \in Session : FindById(r, s)
           \/ Resume(r) \/ ProviderRejects(r) \/ Respond(r)
           \/ Crash(r) \/ RefreshFails(r) \/ NotStored(r)
    PROVE  \E s \in Session : CallOnly(r, s)
<1> USE DEF CallOnly, End, TypeOK
<1>1. ASSUME NEW s \in Session, FindById(r, s) PROVE CallOnly(r, s)
    BY <1>1 DEF FindById
<1>2. CASE Resume(r)
    <2>1. CallOnly(r, sid[r])
        BY <1>2 DEF Resume, ReturnNothing, HydrateThrows, ReturnStored, StartRefresh
    <2> QED
        BY <1>2, <2>1 DEF Resume, ReturnNothing, HydrateThrows, ReturnStored, StartRefresh
<1>3. CASE \/ ProviderRejects(r) \/ Respond(r) \/ Crash(r)
           \/ RefreshFails(r) \/ NotStored(r)
    <2>1. CallOnly(r, sid[r])
        BY <1>3 DEF ProviderRejects, Respond, Crash, RefreshFails, NotStored
    <2>2. sid[r] \in Session
        BY <1>3 DEF ProviderRejects, Respond, Crash, RefreshFails, NotStored
    <2> QED
        BY <2>1, <2>2
<1> QED
    BY <1>1, <1>2, <1>3

\* The record of session s goes; what calls hold of it stays.
LEMMA DeleteRefines ==
    ASSUME TypeOK, NEW s \in Session, store' = [store EXCEPT ![s] = NoSession],
           UNCHANGED <<current, pc, sid, held>>
    PROVE  [Serial!Next]_(Serial!vars)
<1>1. store'[s] = NoSession /\ \A x \in Session \ {s} : store'[x] = store[x]
    BY DEF TypeOK
<1>2. \A x \in Rotating \ {s} : Alike(x)
    BY <1>1, Untouched, ConstantsAssumption
<1>3. CASE s \notin Rotating
    BY <1>2, <1>3, NoSerialSession
<1>4. CASE s \in Rotating
    <2>1. Kept' = [Kept EXCEPT ![s] = NoSession] /\ Newest' = Newest
        BY <1>1, <1>2, <1>4, OneSession DEF Kept, Newest
    <2>2. Baton' = [Baton EXCEPT ![s] = Baton'[s]]
        BY <1>2, <1>4, OneSession
    <2>3. Baton'[s] = Baton[s] \/ (Baton[s] = "available" /\ Baton'[s] = "lost")
        BY <1>1, <1>4 DEF Baton, HasNewest, Holds
    <2>4. Baton = [Baton EXCEPT ![s] = Baton[s]]
        BY DEF Baton
    <2>5. \/ UNCHANGED Baton
          \/ Baton[s] = "available" /\ Baton' = [Baton EXCEPT ![s] = "lost"]
        BY <2>2, <2>3, <2>4
    <2>6. Serial!Drop(s)
        BY <2>1, <2>5 DEF Serial!Drop
    <2> QED
        BY <1>4, <2>6 DEF Serial!Next
<1> QED
    BY <1>3, <1>4

\* The provider accepts the holder of the baton: nobody else had an answer.
LEMMA ProviderAcceptsRefines ==
    ASSUME TypeOK, IInv, NEW r \in Request, ProviderAccepts(r)
    PROVE  [Serial!Next]_(Serial!vars)
<1> DEFINE s == sid[r]
<1>1. /\ pc[r] = "refreshing" /\ held[r] # NoSession
      /\ s \in Session /\ held[r].gen = current[s]
      /\ \A x \in Session \ {s} : current'[x] = current[x]
      /\ \A q \in Request \ {r} : held'[q] = held[q]
      /\ pc' = [pc EXCEPT ![r] = "refreshed"]
      /\ UNCHANGED <<store, sid>>
    BY Accepted DEF IInv
<1>2. \A x \in Rotating \ {s} : Alike(x)
    BY <1>1, Untouched, ConstantsAssumption DEF TypeOK
<1>3. CASE s \notin Rotating
    BY <1>2, <1>3, NoSerialSession
<1>4. CASE s \in Rotating
    <2>1. Kept' = Kept
        BY <1>1 DEF Kept
    <2>2. ~IsOutstanding(s)
        BY <1>1, <1>4, HeldType DEF IInv, OutstandingIsNewest, IsOutstanding, Holds, TypeOK
    <2>3. HasNewest(s)
        BY <1>1 DEF HasNewest, Holds
    <2>4. Baton[s] = "available"
        BY <1>4, <2>2, <2>3 DEF Baton, IsOutstanding
    <2>5. Baton'[s] = "outstanding"
        BY <1>1, <1>4 DEF Baton, TypeOK
    <2>6. Newest'[s] = Newest[s] + 1
        BY <1>4, Accepted DEF Newest, IInv
    <2>7. Serial!Issue(s)
        BY <1>2, <1>4, <2>1, <2>4, <2>5, <2>6, OneSession DEF Serial!Issue
    <2> QED
        BY <1>4, <2>7 DEF Serial!Next
<1> QED
    BY <1>3, <1>4

\* The upsert puts the newest token into the record.
LEMMA UpsertRefines ==
    ASSUME TypeOK, IInv, NEW r \in Request, Upsert(r)
    PROVE  [Serial!Next]_(Serial!vars)
<1> DEFINE s == sid[r]
<1>1. /\ pc[r] = "refreshed" /\ held[r] # NoSession /\ s \in Session
      /\ store'[s] = held[r] /\ \A x \in Session \ {s} : store'[x] = store[x]
      /\ pc' = [pc EXCEPT ![r] = "authenticated"]
      /\ UNCHANGED <<current, sid, held>>
    BY Stored DEF IInv
<1>2. \A x \in Rotating \ {s} : Alike(x)
    BY <1>1, Untouched, ConstantsAssumption DEF TypeOK
<1>3. CASE s \notin Rotating
    BY <1>2, <1>3, NoSerialSession
<1>4. CASE s \in Rotating
    <2>1. held[r].gen = current[s]
        BY <1>1, <1>4 DEF IInv, OutstandingIsNewest
    <2>2. Kept'[s] = current[s] /\ Newest' = Newest /\ Newest[s] = current[s]
        BY <1>1, <1>4, <2>1 DEF Kept, Newest
    <2>3. Baton[s] = "outstanding"
        BY <1>1, <1>4 DEF Baton
    <2>4. ~IsOutstanding(s)'
        <3> SUFFICES ASSUME NEW q \in Request, sid[q] = s, pc'[q] = "refreshed" PROVE FALSE
            BY <1>1 DEF IsOutstanding
        <3>1. q # r /\ pc[q] = "refreshed" /\ Holds(q, s)
            BY <1>1 DEF TypeOK, Holds
        <3> QED
            BY <1>1, <1>4, <2>1, <3>1, HeldType DEF IInv, OutstandingIsNewest
    <2>5. HasNewest(s)'
        BY <1>1, <2>1 DEF HasNewest
    <2>6. Baton'[s] = IF IsOutstanding(s)' THEN "outstanding"
                      ELSE IF HasNewest(s)' THEN "available" ELSE "lost"
        BY <1>1, <1>4 DEF Baton, IsOutstanding
    <2>7. Baton'[s] = "available"
        BY <2>4, <2>5, <2>6
    <2>8. Serial!Keep(s)
        BY <1>2, <1>4, <2>2, <2>3, <2>7, OneSession DEF Serial!Keep
    <2> QED
        BY <1>4, <2>8 DEF Serial!Next
<1> QED
    BY <1>3, <1>4

LEMMA StepRefines ==
    ASSUME TypeOK, IInv, [Next]_vars
    PROVE  [Serial!Next]_(Serial!vars)
<1>1. ASSUME NEW r \in Request,
             \/ \E s \in Session : FindById(r, s)
             \/ Resume(r) \/ ProviderRejects(r) \/ Respond(r)
             \/ Crash(r) \/ RefreshFails(r) \/ NotStored(r)
      PROVE  [Serial!Next]_(Serial!vars)
    <2>1. PICK s \in Session : CallOnly(r, s)
        BY <1>1, CallSteps
    <2>2. CASE s \in Rotating
        BY <2>1, <2>2, CallOnlyRefines
    <2>3. CASE s \notin Rotating
        BY <2>1, <2>3, CallOnlyElsewhere, NoSerialSession
    <2> QED
        BY <2>2, <2>3
<1>2. ASSUME NEW r \in Request, ProviderAccepts(r) \/ Upsert(r)
      PROVE  [Serial!Next]_(Serial!vars)
    BY <1>2, ProviderAcceptsRefines, UpsertRefines
<1>3. ASSUME UNCHANGED <<store, current, pc, sid, held>>
      PROVE  UNCHANGED Serial!vars
    BY <1>3 DEF Serial!vars, Newest, Kept, Baton, HasNewest, Holds
<1>4. ASSUME NEW s \in Session, Logout(s) \/ DeleteRuns(s)
      PROVE  [Serial!Next]_(Serial!vars)
    <2>1. CASE UNCHANGED store
        BY <1>3, <1>4, <2>1 DEF Logout, DeleteRuns
    <2>2. CASE store' = Without(s)
        BY <1>4, <2>2, DeleteRefines DEF Logout, DeleteRuns, Without
    <2> QED
        BY <1>4, <2>1, <2>2 DEF Logout, DeleteRuns
<1>5. CASE \/ \E s \in Session : DeleteFails(s) \/ Revoke(s)
           \/ Tick \/ UNCHANGED vars
    BY <1>3, <1>5 DEF DeleteFails, Revoke, Tick, vars
<1> QED
    BY <1>1, <1>2, <1>4, <1>5 DEF Next, ProviderAnswers

\* Where the provider lets a refresh token be used once, authenticate() hands the
\* token on like a baton although it takes no lock: at most one refresh of a
\* session is unanswered-for, and its answer is stored next or lost for good.
THEOREM ManagerIsSerial == Spec => RefreshesAreSerial
<1>1. Init => Serial!Init
    BY InitRefines
<1>2. TypeOK /\ IInv /\ [Next]_vars => [Serial!Next]_(Serial!vars)
    BY StepRefines
<1> QED
    BY <1>1, <1>2, InductiveInvariant, PTL DEF Spec, RefreshesAreSerial, Serial!Spec

-----------------------------------------------------------------------------
(* What the baton, and so the manager, guarantees of the record *)

\* The argument is about SerialRefresh alone: its variables are not unfolded.
LEMMA SerialKeepsTheNewest == Serial!Spec => [](Serial!TypeOK /\ Serial!KeptIsNewest)
<1> DEFINE Inv == Serial!TypeOK /\ Serial!KeptIsNewest
<1>1. Serial!Init => Inv
    BY DEF Serial!Init, Serial!TypeOK, Serial!KeptIsNewest, Serial!Batons
<1>2. Inv /\ [Serial!Next]_(Serial!vars) => Inv'
    <2> SUFFICES ASSUME Inv, [Serial!Next]_(Serial!vars) PROVE Inv'
        OBVIOUS
    <2> USE NoSessionAssumption DEF Serial!TypeOK, Serial!KeptIsNewest, Serial!Batons
    <2>1. ASSUME NEW s \in Rotating, Serial!Issue(s) PROVE Inv'
        BY <2>1 DEF Serial!Issue
    <2>2. ASSUME NEW s \in Rotating, Serial!Keep(s) PROVE Inv'
        BY <2>2 DEF Serial!Keep
    <2>3. ASSUME NEW s \in Rotating, Serial!Lose(s) PROVE Inv'
        BY <2>3 DEF Serial!Lose
    <2>4. ASSUME NEW s \in Rotating, Serial!Drop(s) PROVE Inv'
        BY <2>4 DEF Serial!Drop
    <2>5. ASSUME NEW s \in Rotating, Serial!Forget(s) PROVE Inv'
        BY <2>5 DEF Serial!Forget
    <2>6. CASE UNCHANGED Serial!vars
        BY <2>6 DEF Serial!vars
    <2> QED
        BY <2>1, <2>2, <2>3, <2>4, <2>5, <2>6 DEF Serial!Next
<1> HIDE DEF Inv
<1>3. Inv => Serial!TypeOK /\ Serial!KeptIsNewest
    BY DEF Inv
<1> QED
    BY <1>1, <1>2, <1>3, PTL DEF Serial!Spec

\* The record of a session, whatever fails and whatever overlaps, has the newest
\* token, or it is exactly one generation behind and that token is in the hands
\* of one call or lost for good.
THEOREM RecordIsNewest == Spec => []Serial!KeptIsNewest
BY ManagerIsSerial, SerialKeepsTheNewest, PTL DEF RefreshesAreSerial

=============================================================================
