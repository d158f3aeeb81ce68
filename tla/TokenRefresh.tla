------------------------------ MODULE TokenRefresh ------------------------------
(***************************************************************************)
(* refresh() of the four OpenID Connect clients, between the session       *)
(* manager, which AuthSessionManager models and which is here only the     *)
(* caller that stores what a call resolves with, and the provider.  The    *)
(* generic client and Ory's send their request with the HTTP client under  *)
(* infrastructure/http and validate the answer; Auth0's and WorkOS's leave *)
(* both to an SDK (external).  A refresh token is its generation.          *)
(***************************************************************************)
EXTENDS Naturals

CONSTANTS
    Call,       \* overlapping calls of refresh() for one session
    Null,       \* no call; no response yet
    Undefined,  \* a property or a parameter that is not there
    Clients,    \* the clients an agent may be built with
    Formats,    \* the response formats its HTTP client may be configured with
    MaxGrants   \* bound: no call starts after this many rotations

ClientKinds == {"auth0", "workos", "ory", "generic"}
ResponseFormats == {"json", "text", "xml", "infer", "ignore"}

ASSUME RefreshAssumption ==
    /\ Clients \subseteq ClientKinds /\ Formats \subseteq ResponseFormats
    /\ MaxGrants \in Nat
    /\ Undefined \notin Nat

\* A response: whether its status is 2xx, its content type, whether its text is
\* a token response with an access token, and what else that has in it.
Response == [ok: BOOLEAN, type: {"json", "xml", "text", "none"}, tokens: BOOLEAN,
             idToken: BOOLEAN, refreshToken: Nat \cup {Undefined}]

\* A refresh token and who it is from (see Holds).
Token == [from: {"session", "provider"}, token: Nat]

ASSUME NullAssumption == Null \notin Nat \cup Response \cup Token

VARIABLES
    client,     \* the agent's client; never changes
    format,     \* the response format of its HTTP client; never changes
    accepted,   \* provider: generation of the refresh token it accepts
    session,    \* the session state: its refresh token, and if it has an id token
    held,       \* call -> the refresh token it was made with, or Null
    response,   \* call -> the response it got, or Null
    issued      \* call -> the refresh token the provider answered it with, or Null

vars == <<client, format, accepted, session, held, response, issued>>
configuration == <<client, format>>

Init ==
    /\ client \in Clients /\ format \in Formats
    /\ accepted = 0
    /\ session \in [refreshToken: {0}, idToken: BOOLEAN]
    /\ held = [c \in Call |-> Null]
    /\ response = [c \in Call |-> Null]
    /\ issued = [c \in Call |-> Null]

-----------------------------------------------------------------------------
(* What is sent *)

\* The clients that use FetchHttpClient; Ory's inherits refresh().
SendsItself == client \in {"generic", "ory"}

\* The form is a URLSearchParams, of which JSON.stringify leaves `{}`.
Serialized(token) == Undefined

\* The refresh token that reaches the provider.
Sent(token) == IF SendsItself THEN Serialized(token) ELSE token

-----------------------------------------------------------------------------
(* What is made of the response *)

\* HttpResponse.data(): the text is parsed if the configured format, or failing
\* that the content type, is JSON; otherwise it is returned, dropped or refused.
\* The responseType that the generic client asks for is read by nobody.
IsParsed(r) == format = "json" \/ (format = "infer" /\ r.type = "json")

\* MUTANT of Resolves: the SDK clients validate like the generic one.
ValidatesAlways(r) == r.ok /\ r.tokens /\ r.idToken

\* MUTANT of Resolves: whatever is no token response counts as an empty one.
NeverThrows(r) == TRUE

\* The generic client throws unless the response is ok and has an access token
\* and an id token; an SDK throws unless it is a token response.
Resolves(r) ==
    /\ r.ok /\ r.tokens
    /\ SendsItself => IsParsed(r) /\ r.idToken

\* MUTANT of NewRefreshToken: without the fallback.
AsAnswered(r, token) == r.refreshToken

\* `refresh_token ?? old`; WorkOS answers every time with a refresh token.
NewRefreshToken(r, token) ==
    IF client # "workos" /\ r.refreshToken = Undefined THEN token ELSE r.refreshToken

-----------------------------------------------------------------------------
Refresh(c) ==
    /\ held[c] = Null
    /\ accepted < MaxGrants
    /\ held' = [held EXCEPT ![c] = session.refreshToken]
    /\ UNCHANGED <<configuration, accepted, session, response, issued>>

Waits(c) == held[c] # Null /\ response[c] = Null

\* What a provider (external) may answer with a token response: an id token or
\* none, the refresh token if it is a new one, and otherwise perhaps; WorkOS
\* always answers with the refresh token and with no id token.
TokenResponses(n) ==
    [ok: {TRUE}, type: {"json", "text"}, tokens: {TRUE},
     idToken: IF client = "workos" THEN {FALSE} ELSE BOOLEAN,
     refreshToken: IF client = "workos" \/ n # accepted THEN {n} ELSE {n, Undefined}]

\* What may come instead of an answer: an error, the redirect that the HTTP
\* client does not follow, or the page of something in between.
OtherResponses ==
    [ok: BOOLEAN, type: {"json", "text", "xml", "none"}, tokens: {FALSE},
     idToken: {FALSE}, refreshToken: {Undefined}]

\* The provider grants the refresh and rotates the token or does not; its answer
\* may be spoiled on the way.
ProviderGrants(c) ==
    /\ Waits(c)
    /\ Sent(held[c]) = accepted
    /\ \E n \in {accepted, accepted + 1} :
          /\ accepted' = n
          /\ issued' = [issued EXCEPT ![c] = n]
          /\ \E r \in TokenResponses(n) \cup OtherResponses :
                response' = [response EXCEPT ![c] = r]
    /\ UNCHANGED <<configuration, session, held>>

ProviderRefuses(c) ==
    /\ Waits(c)
    /\ Sent(held[c]) # accepted
    /\ \E r \in OtherResponses : response' = [response EXCEPT ![c] = r]
    /\ UNCHANGED <<configuration, accepted, session, held, issued>>

End(c) ==
    /\ held' = [held EXCEPT ![c] = Null]
    /\ response' = [response EXCEPT ![c] = Null]
    /\ issued' = [issued EXCEPT ![c] = Null]

\* fetch() is rejected: nothing catches the error on its way to the caller.
FetchFails(c) ==
    /\ Waits(c)
    /\ End(c)
    /\ UNCHANGED <<configuration, accepted, session>>

\* The client throws: the caller stores nothing.
Throw(c) ==
    /\ response[c] # Null
    /\ ~Resolves(response[c])
    /\ End(c)
    /\ UNCHANGED <<configuration, accepted, session>>

\* The new state, which the caller stores.
Return(c) ==
    /\ response[c] # Null
    /\ Resolves(response[c])
    /\ session' = [refreshToken |-> NewRefreshToken(response[c], held[c]),
                   idToken |-> response[c].idToken]
    /\ End(c)
    /\ UNCHANGED <<configuration, accepted>>

Next ==
    \E c \in Call : \/ Refresh(c) \/ ProviderGrants(c) \/ ProviderRefuses(c)
                    \/ FetchFails(c) \/ Throw(c) \/ Return(c)

Spec == Init /\ [][Next]_vars

-----------------------------------------------------------------------------
(* Properties *)

\* Every variable holds a value the code can put there; above all a session
\* always has a refresh token.
TypeOK ==
    /\ client \in Clients /\ format \in Formats
    /\ accepted \in Nat
    /\ session \in [refreshToken: Nat, idToken: BOOLEAN]
    /\ held \in [Call -> Nat \cup {Null}]
    /\ response \in [Call -> Response \cup {Null}]
    /\ issued \in [Call -> Nat \cup {Null}]

\* What a call has: the session's token, until the provider has answered it.
Holds ==
    [c \in Call |->
        IF held[c] = Null THEN Null
        ELSE IF issued[c] = Null THEN [from |-> "session", token |-> held[c]]
        ELSE [from |-> "provider", token |-> issued[c]]]

Contract == INSTANCE RefreshContract
            WITH kept <- session.refreshToken, holds <- Holds

\* refresh() is what the session manager takes it for, whichever client it is:
\* it resolves only with the token the provider has answered it with, and a call
\* that fails changes nothing.
IsARefresh == Contract!Spec

\* The clients that leave the request to an SDK (Auth0, WorkOS) give up no token
\* for what a token response lacks: when it arrives as the provider sent it, with
\* or without an id token or a new refresh token, the call resolves with the token
\* that was granted to it.  An answer that is spoiled on the way throws, and its
\* grant is lost.  Of the generic client and Ory's nothing is said: what they send
\* has no parameters, and no provider grants them anything.
GrantsAreKept ==
    [][~SendsItself =>
         \A c \in Call :
            response[c] # Null /\ response[c].tokens /\ held'[c] = Null
            => session'.refreshToken = issued[c]]_vars

=============================================================================
