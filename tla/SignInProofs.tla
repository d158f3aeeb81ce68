------------------------------ MODULE SignInProofs ------------------------------
(***************************************************************************)
(* Proofs about SignIn, for any number of logins and callbacks, each       *)
(* client and each store of secrets.                                       *)
(***************************************************************************)
EXTENDS SignIn, FiniteSetTheorems, TLAPS

Begun == {l \in Login : login[l] # "idle"}
Sent(l) == login[l] \notin {"idle", "failed"}

\* Every login that has begun has drawn two UUIDs at most.
Counted == drawn \in Nat /\ drawn <= 2 * Cardinality(Begun)

\* A login that has left the handler has a redirect of the configured client, and
\* a state and a secret that were drawn; one that has not has nothing.
Redirects ==
    \A l \in Login :
        IF Sent(l)
        THEN /\ location[l].client_id = ClientId
             /\ client # "workos" => location[l].redirect_uri = RedirectUri
             /\ location[l].state \in 1 .. drawn /\ secret[l] \in 1 .. drawn
             /\ location[l].state # secret[l]
        ELSE location[l] = Nothing /\ l \notin writing \cup signing

\* No two logins share a state.
StatesDiffer ==
    \A k, l \in Login :
        Sent(k) /\ Sent(l) /\ k # l => location[k].state # location[l].state

\* Under a state there is its own secret or none; under what was not drawn, none.
StoredUnderOwnState ==
    /\ \A l \in Login : Sent(l) => secrets[location[l].state] \in {Undefined, secret[l]}
    /\ \A u \in UUID : u > drawn => secrets[u] = Undefined

CookieOfOwnRedirect ==
    \A l \in Login : cookie[l] # NoCookie =>
        Sent(l) /\ cookie[l] = [state |-> location[l].state, key |-> secret[l]]

\* No token request has a code, so that none is granted.
NoCodeIsSent ==
    /\ \A c \in Callback : /\ exchange[c].code = Undefined
                           /\ exchange[c] # NoForm => exchange[c].client_id = ClientId
    /\ spent = {}

IInv ==
    /\ TypeOK
    /\ Counted /\ Redirects /\ StatesDiffer /\ StoredUnderOwnState
    /\ CookieOfOwnRedirect /\ NoCodeIsSent

-----------------------------------------------------------------------------
(* What is sent to the provider *)

\* The request for a code that the options of the login handler lead to.
LEMMA Authorization ==
    ASSUME client \in ClientKinds, NEW u
    PROVE  AuthorizationRequest([clientId |-> ClientId, redirectUri |-> RedirectUri,
                                 state |-> u])
           = [client_id |-> ClientId,
              redirect_uri |-> IF client = "workos" THEN Undefined ELSE RedirectUri,
              state |-> u]
<1> DEFINE o == [clientId |-> ClientId, redirectUri |-> RedirectUri, state |-> u]
<1>1. /\ Get(o, "clientId") = ClientId /\ Get(o, "redirectUri") = RedirectUri
      /\ Get(o, "state") = u
      /\ Get(o, "client_id") = Undefined /\ Get(o, "redirect_uri") = Undefined
    BY DEF Get
<1>2. /\ OrElse(ClientId, ClientId) = ClientId
      /\ OrElse(RedirectUri, ClientId) = RedirectUri
      /\ OrElse(Undefined, OrElse(AuthorizationOption("client_id"), ClientId)) = ClientId
      /\ OrElse(Undefined, AuthorizationOption("redirect_uri")) = Undefined
    BY SignInAssumption DEF OrElse, AuthorizationOption
<1> HIDE DEF o
<1>3. CASE client \in {"generic", "ory"}
    BY <1>1, <1>2, <1>3 DEF AuthorizationRequest, GenericAuthorization, o
<1>4. CASE client = "auth0"
    BY <1>1, <1>4 DEF AuthorizationRequest, Auth0Authorization, o
<1>5. CASE client = "workos"
    BY <1>1, <1>2, <1>5 DEF AuthorizationRequest, WorkOSAuthorization, o
<1> QED
    BY <1>3, <1>4, <1>5 DEF ClientKinds

\* The request for tokens that the options of the callback handler lead to: it
\* has no code, and names the configured client or nothing at all.
LEMMA NoCodeLeaves ==
    ASSUME client \in ClientKinds, NEW code,
           NEW form, form = TokenRequest([client_id |-> ClientId,
                                          redirect_uri |-> RedirectUri,
                                          code |-> CodeParam(code)])
    PROVE  /\ form \in TokenParams /\ form.code = Undefined
           /\ form # NoForm => form.client_id = ClientId
<1> DEFINE o == [client_id |-> ClientId, redirect_uri |-> RedirectUri,
                 code |-> CodeParam(code)]
<1>1. /\ o.code = Undefined
      /\ Get(o, "client_id") = ClientId /\ Get(o, "redirect_uri") = RedirectUri
      /\ Get(o, "clientId") = Undefined
    BY DEF Get, CodeParam
<1>2. /\ OrElse(Undefined, ClientId) = ClientId /\ OrElse(ClientId, Undefined) = ClientId
      /\ OrElse(RedirectUri, AuthorizationOption("redirect_uri")) = RedirectUri
    BY SignInAssumption DEF OrElse
<1>3. form = TokenRequest(o)
    OBVIOUS
<1> HIDE DEF o
<1>4. CASE client = "generic"
    BY <1>3, <1>4 DEF TokenRequest, GenericTokenRequest, Serialized, NoForm, TokenParams
<1>5. CASE client = "ory"
    BY <1>1, <1>2, <1>3, <1>5 DEF TokenRequest, OryTokenRequest, TokenParams
<1>6. CASE client = "auth0"
    BY <1>1, <1>2, <1>3, <1>6 DEF TokenRequest, Auth0TokenRequest, TokenParams
<1>7. CASE client = "workos"
    BY <1>1, <1>2, <1>3, <1>7 DEF TokenRequest, WorkOSTokenRequest, TokenParams
<1> QED
    BY <1>4, <1>5, <1>6, <1>7 DEF ClientKinds

\* There are UUIDs enough for every login.
LEMMA EnoughUUIDs ==
    ASSUME Counted
    PROVE  /\ IsFiniteSet(Begun) /\ Cardinality(Begun) \in Nat /\ Cardinality(Login) \in Nat
           /\ Cardinality(Begun) <= Cardinality(Login)
           /\ 1 .. drawn \subseteq UUID
           /\ drawn \in 0 .. 2 * Cardinality(Login)
<1>1. IsFiniteSet(Login) /\ Begun \subseteq Login
    BY SignInAssumption DEF Begun
<1>2. /\ IsFiniteSet(Begun) /\ Cardinality(Begun) <= Cardinality(Login)
      /\ Cardinality(Begun) \in Nat /\ Cardinality(Login) \in Nat
    BY <1>1, FS_Subset, FS_CardinalityType
<1> QED
    BY <1>2 DEF Counted, UUID

\* So there are when a login begins.
LEMMA OneBegins ==
    ASSUME Counted, NEW l \in Login, l \notin Begun, Begun' = Begun \cup {l},
           drawn' \in {drawn + 1, drawn + 2}
    PROVE  Counted' /\ drawn' \in 0 .. 2 * Cardinality(Login)
<1>1. IsFiniteSet(Begun) /\ Cardinality(Begun) \in Nat /\ drawn \in Nat
    BY EnoughUUIDs DEF Counted
<1>2. Cardinality(Begun') = Cardinality(Begun) + 1
    BY <1>1, FS_AddElement
<1>3. Counted'
    BY <1>1, <1>2 DEF Counted
<1>4. Begun' \subseteq Login
    BY DEF Begun
<1>5. /\ Cardinality(Begun') <= Cardinality(Login)
      /\ Cardinality(Begun') \in Nat /\ Cardinality(Login) \in Nat
    BY <1>4, SignInAssumption, FS_Subset, FS_CardinalityType
<1> QED
    BY <1>3, <1>5 DEF Counted

-----------------------------------------------------------------------------
(* Initially, and step by step *)

LEMMA InitIInv == Init => IInv
<1> SUFFICES ASSUME Init PROVE IInv
    OBVIOUS
<1>1. Begun = {} /\ \A l \in Login : ~Sent(l)
    BY DEF Init, Begun, Sent
<1>2. Counted
    BY <1>1, FS_EmptySet DEF Init, Counted
<1>3. Cardinality(Login) \in Nat
    BY SignInAssumption, FS_CardinalityType
<1>4. TypeOK
    BY <1>3, SignInAssumption
    DEF Init, TypeOK, Nothing, NoForm, AuthorizationParams, TokenParams, MaybeUUID
<1> QED
    BY <1>1, <1>2, <1>4
    DEF Init, IInv, Redirects, StatesDiffer, StoredUnderOwnState, CookieOfOwnRedirect,
        NoCodeIsSent, NoForm

LEMMA StartLoginKeeps ==
    ASSUME IInv, NEW l \in Login, StartLogin(l)
    PROVE  IInv'
<1> USE DEF IInv
<1>1. /\ login[l] = "idle" /\ login' = [login EXCEPT ![l] = "redirecting"]
      /\ drawn' = drawn + 2 /\ drawn \in Nat
      /\ UNCHANGED <<client, store, callback, exchange, spent, cookie, secrets, jar, issued>>
    BY DEF StartLogin, configuration, callbackVars, Counted
<1>2. location' = [location EXCEPT ![l] =
           [client_id |-> ClientId,
            redirect_uri |-> IF client = "workos" THEN Undefined ELSE RedirectUri,
            state |-> drawn + 1]]
    BY Authorization DEF StartLogin, TypeOK
<1>3. /\ secret' = [secret EXCEPT ![l] = drawn + 2]
      /\ writing' = writing \cup {l} /\ signing' = signing \cup {l}
    BY DEF StartLogin
<1>4. Begun' = Begun \cup {l} /\ l \notin Begun
    BY <1>1 DEF Begun, TypeOK
<1>5. Counted' /\ drawn' \in 0 .. 2 * Cardinality(Login)
    BY <1>1, <1>4, OneBegins
<1>6. drawn + 1 \in UUID /\ drawn + 2 \in UUID
    BY <1>1, <1>5, SignInAssumption, FS_CardinalityType DEF UUID
<1>7. \A k \in Login : Sent(k)' <=> Sent(k) \/ k = l
    BY <1>1 DEF Sent, TypeOK
<1>8. ~Sent(l)
    BY <1>1 DEF Sent
<1>9. TypeOK'
    <2>1. location'[l] \in AuthorizationParams
        BY <1>2, <1>6 DEF AuthorizationParams, MaybeUUID, TypeOK
    <2>2. \A k \in Login : login'[k] \notin {"idle", "failed"} =>
              /\ location'[k].state \in UUID /\ secret'[k] \in UUID
              /\ location'[k].state # secret'[k]
        BY <1>1, <1>2, <1>3, <1>6 DEF TypeOK
    <2> QED
        BY <1>1, <1>2, <1>3, <1>5, <1>6, <2>1, <2>2 DEF TypeOK, MaybeUUID
<1>10. Redirects'
    BY <1>1, <1>2, <1>3, <1>7 DEF Redirects, TypeOK
<1>11. StatesDiffer'
    BY <1>1, <1>2, <1>7 DEF StatesDiffer, Redirects, TypeOK
<1>12. StoredUnderOwnState'
    <2>1. secrets[drawn + 1] = Undefined
        BY <1>1, <1>6 DEF StoredUnderOwnState
    <2>2. ASSUME NEW k \in Login, Sent(k)'
          PROVE  secrets'[location'[k].state] \in {Undefined, secret'[k]}
        <3>1. CASE k = l
            BY <1>1, <1>2, <2>1, <3>1 DEF TypeOK
        <3>2. CASE k # l
            BY <1>1, <1>2, <1>3, <1>7, <2>2, <3>2 DEF StoredUnderOwnState, TypeOK
        <3> QED
            BY <3>1, <3>2
    <2>3. ASSUME NEW u \in UUID, u > drawn'
          PROVE  secrets'[u] = Undefined
        <3>1. u > drawn
            BY <1>1, <2>3, SignInAssumption, FS_CardinalityType DEF UUID
        <3> QED
            BY <1>1, <3>1 DEF StoredUnderOwnState
    <2> QED
        BY <2>2, <2>3 DEF StoredUnderOwnState, UUID
<1>13. CookieOfOwnRedirect'
    BY <1>1, <1>2, <1>3, <1>7, <1>8 DEF CookieOfOwnRedirect, TypeOK
<1>14. NoCodeIsSent'
    BY <1>1 DEF NoCodeIsSent
<1> QED
    BY <1>5, <1>9, <1>10, <1>11, <1>12, <1>13, <1>14

LEMMA LoginThrowsKeeps ==
    ASSUME IInv, NEW l \in Login, LoginThrows(l)
    PROVE  IInv'
<1> USE DEF IInv
<1>1. /\ login[l] = "idle" /\ login' = [login EXCEPT ![l] = "failed"]
      /\ drawn' = drawn + 1 /\ drawn \in Nat
      /\ UNCHANGED <<client, store, callback, exchange, spent, location, secret, cookie,
                     writing, signing, secrets, jar, issued>>
    BY DEF LoginThrows, configuration, callbackVars, Counted
<1>2. Begun' = Begun \cup {l} /\ l \notin Begun
    BY <1>1 DEF Begun, TypeOK
<1>3. Counted'
    BY <1>1, <1>2, OneBegins
<1>4. drawn' \in 0 .. 2 * Cardinality(Login)
    BY <1>1, <1>2, OneBegins
<1>5. \A k \in Login : Sent(k)' <=> Sent(k)
    BY <1>1 DEF Sent, TypeOK
<1>6. TypeOK'
    BY <1>1, <1>4 DEF TypeOK
<1>7. Redirects'
    BY <1>1, <1>5 DEF Redirects
<1>8. StoredUnderOwnState'
    BY <1>1, <1>5, EnoughUUIDs DEF StoredUnderOwnState, UUID
<1> QED
    BY <1>1, <1>3, <1>5, <1>6, <1>7, <1>8
    DEF StatesDiffer, CookieOfOwnRedirect, NoCodeIsSent

\* A step that draws nothing, and leaves logins that have been sent as they are.
LEMMA NothingDrawnKeeps ==
    ASSUME IInv, TypeOK',
           UNCHANGED <<client, drawn, location, secret>>,
           Begun' = Begun,
           \A l \in Login : Sent(l)' <=> Sent(l),
           writing' \subseteq writing, signing' \subseteq signing
    PROVE  Counted' /\ Redirects' /\ StatesDiffer'
BY DEF IInv, Counted, Redirects, StatesDiffer

\* The handler resumes, or its response is sent.
LEMMA RedirectKeeps ==
    ASSUME IInv, NEW l \in Login, Redirect(l) \/ SendRedirect(l)
    PROVE  IInv'
<1> USE DEF IInv, configuration, loginVars, callbackVars
<1>1. /\ login[l] \in {"redirecting", "redirected"}
      /\ \E v \in {"redirected", "answered"} : login' = [login EXCEPT ![l] = v]
      /\ UNCHANGED <<client, store, drawn, location, secret, writing, signing, secrets,
                     callback, exchange, spent, cookie, issued>>
    BY DEF Redirect, SendRedirect
<1>2. \A k \in Login : Sent(k)' <=> Sent(k)
    BY <1>1 DEF Sent, TypeOK
<1>3. Begun' = Begun
    BY <1>1 DEF Begun, TypeOK
<1>4. jar' \in Cookies \cup {NoCookie}
    BY DEF Redirect, SendRedirect, TypeOK
<1>5. TypeOK'
    BY <1>1, <1>4 DEF TypeOK
<1>6. Counted' /\ Redirects' /\ StatesDiffer'
    BY <1>1, <1>2, <1>3, <1>5, NothingDrawnKeeps
<1> QED
    BY <1>1, <1>2, <1>5, <1>6 DEF StoredUnderOwnState, CookieOfOwnRedirect, NoCodeIsSent

LEMMA SignedKeeps ==
    ASSUME IInv, NEW l \in Login, Signed(l) \/ SigningFails(l)
    PROVE  IInv'
<1> USE DEF IInv, configuration, callbackVars
<1>1. /\ l \in signing /\ signing' = signing \ {l}
      /\ UNCHANGED <<client, store, callback, exchange, spent, drawn, login, location,
                     secret, writing, secrets, jar, issued>>
      /\ \/ cookie' = cookie
         \/ cookie' = [cookie EXCEPT ![l] =
                           [state |-> location[l].state, key |-> secret[l]]]
    BY DEF Signed, SigningFails
<1>2. Sent(l)
    BY <1>1 DEF Redirects
<1>3. Begun' = Begun /\ \A k \in Login : Sent(k)' <=> Sent(k)
    BY <1>1 DEF Sent, Begun
<1>4. [state |-> location[l].state, key |-> secret[l]] \in Cookies
    BY <1>2 DEF Sent, TypeOK, Cookies, MaybeUUID
<1>5. TypeOK'
    BY <1>1, <1>4 DEF TypeOK
<1>6. Counted' /\ Redirects' /\ StatesDiffer'
    BY <1>1, <1>3, <1>5, NothingDrawnKeeps
<1>7. CookieOfOwnRedirect'
    BY <1>1, <1>2, <1>3 DEF CookieOfOwnRedirect, TypeOK
<1> QED
    BY <1>1, <1>3, <1>5, <1>6, <1>7 DEF StoredUnderOwnState, NoCodeIsSent

LEMMA StoreKeeps ==
    ASSUME IInv, NEW l \in Login, StoreSecret(l) \/ SecretIsRejected(l)
    PROVE  IInv'
<1> USE DEF IInv, configuration, callbackVars
<1>1. /\ l \in writing /\ writing' = writing \ {l}
      /\ UNCHANGED <<client, store, callback, exchange, spent, drawn, login, location,
                     secret, cookie, signing, jar, issued>>
      /\ \/ secrets' = secrets
         \/ secrets' = [secrets EXCEPT ![location[l].state] = secret[l]]
    BY DEF StoreSecret, SecretIsRejected
<1>2. Sent(l) /\ location[l].state \in 1 .. drawn
    BY <1>1 DEF Redirects
<1>3. Begun' = Begun /\ \A k \in Login : Sent(k)' <=> Sent(k)
    BY <1>1 DEF Sent, Begun
<1>4. TypeOK'
    BY <1>1 DEF TypeOK
<1>5. Counted' /\ Redirects' /\ StatesDiffer'
    BY <1>1, <1>3, <1>4, NothingDrawnKeeps
<1>6. StoredUnderOwnState'
    <2>1. ASSUME NEW k \in Login, Sent(k)
          PROVE  secrets'[location[k].state] \in {Undefined, secret[k]}
        <3>1. location[k].state \in UUID
            BY <2>1 DEF Sent, TypeOK
        <3>2. k # l => location[k].state # location[l].state
            BY <1>2, <2>1 DEF StatesDiffer
        <3> QED
            BY <1>1, <2>1, <3>1, <3>2 DEF StoredUnderOwnState, TypeOK
    <2>2. ASSUME NEW u \in UUID, u > drawn
          PROVE  secrets'[u] = Undefined
        BY <1>1, <1>2, <2>2 DEF StoredUnderOwnState, TypeOK, Counted
    <2> QED
        BY <1>1, <1>3, <2>1, <2>2 DEF StoredUnderOwnState
<1> QED
    BY <1>1, <1>3, <1>4, <1>5, <1>6 DEF CookieOfOwnRedirect, NoCodeIsSent

LEMMA AuthorizeKeeps ==
    ASSUME IInv, NEW l \in Login, Authorize(l)
    PROVE  IInv'
<1> USE DEF IInv, configuration, loginVars, callbackVars
<1>1. /\ issued' = issued \cup {l}
      /\ UNCHANGED <<client, store, drawn, login, location, secret, cookie, writing,
                     signing, secrets, jar, spent, callback, exchange>>
    BY DEF Authorize
<1>2. TypeOK'
    BY <1>1 DEF TypeOK
<1> QED
    BY <1>1, <1>2
    DEF Counted, Begun, Sent, Redirects, StatesDiffer, StoredUnderOwnState,
        CookieOfOwnRedirect, NoCodeIsSent

LEMMA CallbackKeeps ==
    ASSUME IInv, NEW c \in Callback, StartCallback(c) \/ FinishCallback(c)
    PROVE  IInv'
<1> USE DEF IInv, configuration, loginVars
<1>1. UNCHANGED <<client, store, drawn, login, location, secret, cookie, writing,
                  signing, secrets, jar, issued>>
    BY DEF StartCallback, FinishCallback
<1>2. spent' = spent
    <2>1. ~Granted(exchange[c])
        BY SignInAssumption DEF Granted, NoCodeIsSent, TypeOK
    <2> QED
        BY <2>1 DEF StartCallback, FinishCallback
<1>3. /\ exchange' \in [Callback -> TokenParams]
      /\ \A d \in Callback : /\ exchange'[d].code = Undefined
                             /\ exchange'[d] # NoForm => exchange'[d].client_id = ClientId
    <2>1. CASE FinishCallback(c)
        BY <2>1 DEF FinishCallback, NoCodeIsSent, TypeOK
    <2>2. CASE StartCallback(c)
        <3>1. PICK code : exchange' = [exchange EXCEPT ![c] =
                                          TokenRequest([client_id |-> ClientId,
                                                        redirect_uri |-> RedirectUri,
                                                        code |-> CodeParam(code)])]
            BY <2>2 DEF StartCallback
        <3> DEFINE form == TokenRequest([client_id |-> ClientId,
                                         redirect_uri |-> RedirectUri,
                                         code |-> CodeParam(code)])
        <3>2. /\ form \in TokenParams /\ form.code = Undefined
              /\ form # NoForm => form.client_id = ClientId
            BY NoCodeLeaves DEF TypeOK
        <3> HIDE DEF form
        <3> QED
            BY <3>1, <3>2 DEF NoCodeIsSent, TypeOK, form
    <2> QED
        BY <2>1, <2>2
<1>4. callback' \in [Callback -> {"idle", "exchanging", "answered", "error"}]
    BY DEF StartCallback, FinishCallback, TypeOK
<1>5. TypeOK'
    BY <1>1, <1>2, <1>3, <1>4 DEF TypeOK
<1>6. NoCodeIsSent'
    BY <1>2, <1>3 DEF NoCodeIsSent
<1> QED
    BY <1>1, <1>5, <1>6
    DEF Counted, Begun, Sent, Redirects, StatesDiffer, StoredUnderOwnState,
        CookieOfOwnRedirect

LEMMA StepIInv == IInv /\ [Next]_vars => IInv'
<1> SUFFICES ASSUME IInv, [Next]_vars PROVE IInv'
    OBVIOUS
<1>1. CASE UNCHANGED vars
    BY <1>1
    DEF vars, IInv, TypeOK, Counted, Begun, Sent, Redirects, StatesDiffer,
        StoredUnderOwnState, CookieOfOwnRedirect, NoCodeIsSent
<1>2. CASE Next
    BY <1>2, StartLoginKeeps, LoginThrowsKeeps, RedirectKeeps, SignedKeeps, StoreKeeps,
       AuthorizeKeeps, CallbackKeeps DEF Next
<1> QED
    BY <1>1, <1>2

THEOREM InductiveInvariant == Spec => []IInv
BY InitIInv, StepIInv, PTL DEF Spec

-----------------------------------------------------------------------------
(* The theorems *)

\* Types; a login draws its UUIDs from those there are, and its own twice.
THEOREM TypeCorrect == Spec => []TypeOK
<1>1. IInv => TypeOK
    BY DEF IInv
<1> QED
    BY <1>1, InductiveInvariant, PTL

\* However many logins overlap, a state cookie is that of its own redirect and
\* the secret stored for it the one it was signed with.
THEOREM CookiesMatch == Spec => []CookieMatchesSecret
<1>1. IInv => CookieMatchesSecret
    <2> SUFFICES ASSUME IInv, NEW l \in Login, cookie[l] # NoCookie
                 PROVE  /\ cookie[l].state = location[l].state
                        /\ secrets[cookie[l].state] \in {Undefined, cookie[l].key}
        BY DEF CookieMatchesSecret
    <2>1. cookie[l].state = location[l].state /\ cookie[l].key = secret[l] /\ Sent(l)
        <3>1. Sent(l) /\ cookie[l] = [state |-> location[l].state, key |-> secret[l]]
            BY Zenon DEF IInv, CookieOfOwnRedirect
        <3> QED
            BY <3>1
    <2>2. secrets[location[l].state] \in {Undefined, secret[l]}
        BY <2>1 DEF IInv, StoredUnderOwnState
    <2> QED
        BY <2>1, <2>2
<1> QED
    BY <1>1, InductiveInvariant, PTL

\* With each client the provider hears of one and the same client id.
THEOREM OneClientId == Spec => []SameClientThroughout
<1>1. IInv => SameClientThroughout
    BY DEF IInv, SameClientThroughout, Redirects, NoCodeIsSent
<1> QED
    BY <1>1, InductiveInvariant, PTL

=============================================================================
