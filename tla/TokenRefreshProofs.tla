--------------------------- MODULE TokenRefreshProofs ---------------------------
(***************************************************************************)
(* Proofs about TokenRefresh, for any number of overlapping refreshes and  *)
(* of rotations, each client and each response format.                     *)
(***************************************************************************)
EXTENDS TokenRefresh, TLAPS

\* A response belongs to a call, a token response to a grant, which no request
\* of the HTTP client gets; what the client makes of it is what was granted.
Answered(c) ==
    /\ held[c] = Null => response[c] = Null /\ issued[c] = Null
    /\ issued[c] # Null => response[c] # Null /\ ~SendsItself
    /\ response[c] # Null /\ response[c].tokens =>
          /\ issued[c] \in Nat
          /\ response[c].ok
          /\ NewRefreshToken(response[c], held[c]) = issued[c]

IInv == TypeOK /\ \A c \in Call : Answered(c)

\* A client that sends its requests itself sends no token that is accepted.
LEMMA OnlySDKsAreGranted ==
    ASSUME TypeOK, NEW c \in Call, ProviderGrants(c)
    PROVE  ~SendsItself /\ held[c] = accepted
BY RefreshAssumption DEF ProviderGrants, Sent, Serialized, TypeOK

\* A token response yields the token that was granted with it.
LEMMA GrantIsRead ==
    ASSUME TypeOK, NEW n \in {accepted, accepted + 1}, NEW r \in TokenResponses(n)
    PROVE  /\ r \in Response /\ r.ok
           /\ NewRefreshToken(r, accepted) = n
<1>1. accepted \in Nat /\ n \in Nat /\ n # Undefined
    BY RefreshAssumption DEF TypeOK
<1>2. /\ r.ok /\ r \in Response
      /\ \/ r.refreshToken = n
         \/ client # "workos" /\ n = accepted /\ r.refreshToken = Undefined
    <2>1. /\ r.ok = TRUE /\ r.type \in {"json", "text"} /\ r.tokens = TRUE
          /\ r.idToken \in (IF client = "workos" THEN {FALSE} ELSE BOOLEAN)
          /\ r.refreshToken \in (IF client = "workos" \/ n # accepted THEN {n}
                                 ELSE {n, Undefined})
          /\ r = [ok |-> r.ok, type |-> r.type, tokens |-> r.tokens,
                  idToken |-> r.idToken, refreshToken |-> r.refreshToken]
        BY DEF TokenResponses
    <2>2. r.idToken \in BOOLEAN /\ r.refreshToken \in {n, Undefined}
        BY <2>1
    <2>3. r \in Response
        BY <1>1, <2>1, <2>2 DEF Response
    <2> QED
        BY <2>1, <2>3
<1> QED
    BY <1>1, <1>2 DEF NewRefreshToken

LEMMA OtherIsNoGrant ==
    ASSUME NEW r \in OtherResponses
    PROVE  r \in Response /\ ~r.tokens
BY DEF OtherResponses, Response

LEMMA InitIInv == Init => IInv
BY RefreshAssumption, NullAssumption DEF Init, IInv, TypeOK, Answered

LEMMA GrantIInv ==
    ASSUME IInv, NEW c \in Call, ProviderGrants(c)
    PROVE  IInv'
<1>1. ~SendsItself /\ held[c] = accepted /\ accepted \in Nat
    BY OnlySDKsAreGranted DEF IInv, TypeOK
<1>. PICK n \in {accepted, accepted + 1} :
          /\ accepted' = n
          /\ issued' = [issued EXCEPT ![c] = n]
          /\ \E r \in TokenResponses(n) \cup OtherResponses :
                response' = [response EXCEPT ![c] = r]
    BY DEF ProviderGrants
<1>. PICK r \in TokenResponses(n) \cup OtherResponses :
          response' = [response EXCEPT ![c] = r]
    OBVIOUS
<1>2. UNCHANGED <<configuration, session, held>>
    BY DEF ProviderGrants
<1>3. /\ r \in Response
      /\ r.tokens => r.ok /\ NewRefreshToken(r, held[c]) = n
    BY <1>1, GrantIsRead, OtherIsNoGrant DEF IInv
<1>4. TypeOK'
    BY <1>1, <1>2, <1>3 DEF IInv, TypeOK, configuration
<1>5. ASSUME NEW d \in Call PROVE Answered(d)'
    <2>1. CASE d = c
        BY <1>1, <1>2, <1>3, <2>1, NullAssumption
        DEF IInv, TypeOK, Answered, NewRefreshToken, SendsItself, configuration
    <2>2. CASE d # c
        BY <1>2, <2>2
        DEF IInv, TypeOK, Answered, NewRefreshToken, SendsItself, configuration
    <2> QED
        BY <2>1, <2>2
<1> QED
    BY <1>4, <1>5 DEF IInv

\* A session gets the token that was granted.
LEMMA ReturnsTheGrant ==
    ASSUME IInv, NEW c \in Call, Return(c)
    PROVE  /\ issued[c] \in Nat /\ held[c] # Null
           /\ session' = [refreshToken |-> issued[c], idToken |-> response[c].idToken]
BY NullAssumption DEF Return, Resolves, IInv, Answered, TypeOK

LEMMA StepIInv == IInv /\ [Next]_vars => IInv'
<1> SUFFICES ASSUME IInv, [Next]_vars PROVE IInv'
    OBVIOUS
<1> USE DEF IInv, TypeOK, Answered, NewRefreshToken, SendsItself, configuration
<1>1. CASE UNCHANGED vars
    BY <1>1 DEF vars
<1>2. ASSUME NEW c \in Call, Refresh(c) PROVE IInv'
    BY <1>2, NullAssumption DEF Refresh
<1>3. ASSUME NEW c \in Call, ProviderGrants(c) PROVE IInv'
    BY <1>3, GrantIInv
<1>4. ASSUME NEW c \in Call, ProviderRefuses(c) PROVE IInv'
    <2>1. PICK r \in OtherResponses : response' = [response EXCEPT ![c] = r]
        BY <1>4 DEF ProviderRefuses
    <2>2. r \in Response /\ ~r.tokens
        BY OtherIsNoGrant
    <2> QED
        BY <1>4, <2>1, <2>2, NullAssumption DEF ProviderRefuses, Waits
<1>5. ASSUME NEW c \in Call, FetchFails(c) \/ Throw(c) PROVE IInv'
    BY <1>5 DEF FetchFails, Throw, End
<1>6. ASSUME NEW c \in Call, Return(c) PROVE IInv'
    <2>1. session' \in [refreshToken: Nat, idToken: BOOLEAN]
        <3>1. response[c] \in Response
            BY <1>6 DEF Return
        <3> QED
            BY <1>6, <3>1, ReturnsTheGrant DEF Response
    <2> QED
        BY <1>6, <2>1 DEF Return, End
<1> QED
    BY <1>1, <1>2, <1>3, <1>4, <1>5, <1>6 DEF Next

THEOREM InductiveInvariant == Spec => []IInv
BY InitIInv, StepIInv, PTL DEF Spec

\* Types, whatever the provider answers: a session always has a refresh token.
THEOREM TypeCorrect == Spec => []TypeOK
<1>1. IInv => TypeOK
    BY DEF IInv
<1> QED
    BY <1>1, InductiveInvariant, PTL

\* With Auth0's and WorkOS's client a token response that arrives as it was sent
\* makes its call resolve with the grant, with or without an id token in it.
THEOREM SDKsKeepGrants == Spec => GrantsAreKept
<1> DEFINE Kept == ~SendsItself =>
        \A c \in Call :
            response[c] # Null /\ response[c].tokens /\ held'[c] = Null
            => session'.refreshToken = issued[c]
<1>1. ASSUME IInv, [Next]_vars
      PROVE  Kept
    <2> SUFFICES ASSUME ~SendsItself, NEW c \in Call,
                        response[c] # Null, response[c].tokens, held'[c] = Null
                 PROVE  session'.refreshToken = issued[c]
        OBVIOUS
    <2>1. held[c] # Null /\ Resolves(response[c])
        BY <1>1, NullAssumption DEF IInv, Answered, Resolves
    <2>2. ASSUME NEW d \in Call, d # c,
                 Refresh(d) \/ ProviderGrants(d) \/ ProviderRefuses(d)
                    \/ FetchFails(d) \/ Throw(d) \/ Return(d)
          PROVE  held'[c] = held[c]
        BY <1>1, <2>2
        DEF IInv, TypeOK, Refresh, ProviderGrants, ProviderRefuses, FetchFails, Throw,
            Return, End
    <2>3. Return(c)
        BY <1>1, <2>1, <2>2
        DEF Next, vars, Refresh, ProviderGrants, ProviderRefuses, FetchFails, Throw, Waits
    <2> QED
        BY <1>1, <2>3, ReturnsTheGrant
<1> QED
    BY <1>1, InductiveInvariant, PTL DEF Spec, GrantsAreKept

-----------------------------------------------------------------------------
(* Refinement *)

\* refresh() of each client implements the contract its caller relies on.
THEOREM ImplementsContract == Spec => IsARefresh
<1>1. Init => Contract!Init
    BY DEF Init, Holds, Contract!Init
<1>2. ASSUME IInv, IInv', [Next]_vars
      PROVE  [Contract!Next]_(Contract!vars)
    <2> USE DEF IInv, TypeOK, Answered
    <2>1. ASSUME NEW c \in Call, Refresh(c) PROVE Contract!Ask(c)
        <3>1. /\ Holds[c] = Null
              /\ Holds' = [Holds EXCEPT ![c] = [from |-> "session",
                                              token |-> session.refreshToken]]
            BY <1>2, <2>1, NullAssumption DEF Refresh, Holds
        <3> QED
            BY <2>1, <3>1 DEF Refresh, Contract!Ask
    <2>2. ASSUME NEW c \in Call, ProviderGrants(c) PROVE Contract!Grant(c)
        <3>1. held[c] = accepted /\ held[c] # Null /\ issued[c] = Null
            BY <1>2, <2>2, OnlySDKsAreGranted DEF ProviderGrants, Waits
        <3>2. /\ accepted' \in {accepted, accepted + 1}
              /\ accepted' # Null
              /\ issued' = [issued EXCEPT ![c] = accepted']
              /\ UNCHANGED <<session, held>>
            BY <1>2, <2>2, NullAssumption DEF ProviderGrants
        <3>3. /\ Holds[c] = [from |-> "session", token |-> accepted]
              /\ Holds' = [Holds EXCEPT ![c] = [from |-> "provider", token |-> accepted']]
            BY <1>2, <3>1, <3>2 DEF Holds
        <3>4. Holds[c] # Null
            BY <1>2, <3>1, <3>3, NullAssumption DEF Token
        <3> QED
            BY <3>2, <3>3, <3>4 DEF Contract!Grant, Contract!From
    <2>3. ASSUME NEW c \in Call, ProviderRefuses(c) PROVE UNCHANGED Contract!vars
        BY <1>2, <2>3 DEF ProviderRefuses, Holds, Contract!vars
    <2>4. ASSUME NEW c \in Call, End(c), held[c] # Null
          PROVE  Holds[c] # Null /\ Holds' = [Holds EXCEPT ![c] = Null]
        <3>1. Holds[c] \in Token
            BY <1>2, <2>4 DEF Holds, Token
        <3>2. Holds' = [Holds EXCEPT ![c] = Null]
            BY <1>2, <2>4 DEF End, Holds
        <3> QED
            BY <3>1, <3>2, NullAssumption
    <2>5. ASSUME NEW c \in Call, FetchFails(c) \/ Throw(c) PROVE Contract!Fail(c)
        <3>1. End(c) /\ held[c] # Null /\ UNCHANGED <<accepted, session>>
            BY <1>2, <2>5 DEF FetchFails, Throw, Waits
        <3> QED
            BY <2>4, <3>1 DEF Contract!Fail
    <2>6. ASSUME NEW c \in Call, Return(c) PROVE Contract!Resolve(c)
        <3>1. /\ End(c) /\ held[c] # Null /\ issued[c] # Null /\ UNCHANGED accepted
              /\ session'.refreshToken = issued[c]
            BY <1>2, <2>6, ReturnsTheGrant, NullAssumption DEF Return
        <3>2. Holds[c] = [from |-> "provider", token |-> issued[c]]
            BY <3>1 DEF Holds
        <3> QED
            BY <2>4, <3>1, <3>2 DEF Contract!Resolve, Contract!From
    <2>7. CASE UNCHANGED vars
        BY <2>7 DEF vars, Holds, Contract!vars
    <2> QED
        BY <1>2, <2>1, <2>2, <2>3, <2>5, <2>6, <2>7 DEF Next, Contract!Next
<1> QED
    BY <1>1, <1>2, InductiveInvariant, PTL DEF Spec, IsARefresh, Contract!Spec

=============================================================================
