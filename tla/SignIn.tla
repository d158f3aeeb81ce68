--------------------------------- MODULE SignIn ---------------------------------
(***************************************************************************)
(* A sign-in: the login handler redirects the browser to the provider, the *)
(* provider sends it back to the callback handler, which exchanges a code  *)
(* for tokens (src/application/hono/handlers, infrastructure/auth0, workos *)
(* and open-id-connect).                                                   *)
(*                                                                         *)
(* The login handler starts two things that it does not await: storing the *)
(* secret of the state cookie, and signing that cookie.  Its redirect is   *)
(* on its way meanwhile.  How an option reaches the provider depends on    *)
(* the spelling each client reads it by: an option object is a record, and *)
(* what it does not have is Undefined.                                     *)
(***************************************************************************)
EXTENDS Integers, FiniteSets

CONSTANTS
    Login,          \* login requests, of one browser
    Callback,       \* callback requests, of the same browser
    Clients,        \* which kinds of client an agent may be built with
    SecretStores,   \* which kinds of store for the secrets
    ClientId,       \* OAUTH_CLIENT_ID
    RedirectUri,    \* OAUTH_REDIRECT_URI
    Undefined

\* OAUTH_STRATEGY
ClientKinds == {"generic", "auth0", "workos", "ory"}
SecretStoreKinds == {"d1", "sqlite"}

ASSUME SignInAssumption ==
    /\ IsFiniteSet(Login)
    /\ Clients \subseteq ClientKinds /\ SecretStores \subseteq SecretStoreKinds
    /\ Undefined \notin Nat \cup Login \cup {ClientId, RedirectUri}
    /\ ClientId # RedirectUri

\* Random UUIDs, numbered as they are drawn: two for each login.
UUID == 1 .. 2 * Cardinality(Login)
MaybeUUID == UUID \cup {Undefined}

Cookies == [state : UUID, key : MaybeUUID]
NoCookie == [state |-> Undefined, key |-> Undefined]

\* Of the parameters of a request for a code those that name the client, the
\* way back and the login; of a request for tokens those that must agree with
\* them.
AuthorizationParams ==
    [client_id : {ClientId, Undefined}, redirect_uri : {RedirectUri, ClientId, Undefined},
     state : MaybeUUID]
TokenParams ==
    [client_id : {ClientId, Undefined}, redirect_uri : {RedirectUri, Undefined},
     code : Login \cup {Undefined}]

VARIABLES
    client,     \* the kind of client the agent has been built with (fixed)
    store,      \* the kind of store for secrets it has (fixed)
    drawn,      \* how many UUIDs have been drawn
    login,      \* where each login request stands
    location,   \* the authorization request its redirect leads to
    secret,     \* the secret its cookie is signed with
    cookie,     \* the state cookie among the headers of its response
    writing,    \* logins whose secret is being stored
    signing,    \* logins whose cookie is being signed
    secrets,    \* the stored secrets: state -> secret
    jar,        \* the state cookie of the browser
    issued,     \* codes of the provider: one per login it has authorized
    spent,      \* codes that were exchanged for tokens
    callback,   \* where each callback request stands
    exchange    \* the token request it has sent

vars == <<client, store, drawn, login, location, secret, cookie, writing, signing,
          secrets, jar, issued, spent, callback, exchange>>

configuration == <<client, store>>
loginVars == <<drawn, location, secret, writing, signing, secrets>>
callbackVars == <<callback, exchange, spent>>

Nothing == [client_id |-> Undefined, redirect_uri |-> Undefined, state |-> Undefined]
NoForm == [client_id |-> Undefined, redirect_uri |-> Undefined, code |-> Undefined]

Init ==
    /\ client \in Clients
    /\ store \in SecretStores
    /\ drawn = 0
    /\ login = [l \in Login |-> "idle"]
    /\ location = [l \in Login |-> Nothing]
    /\ secret = [l \in Login |-> Undefined]
    /\ cookie = [l \in Login |-> NoCookie]
    /\ writing = {} /\ signing = {}
    /\ secrets = [u \in UUID |-> Undefined]
    /\ jar = NoCookie
    /\ issued = {} /\ spent = {}
    /\ callback = [c \in Callback |-> "idle"]
    /\ exchange = [c \in Callback |-> NoForm]

-----------------------------------------------------------------------------
(* Option objects, as the clients read them *)

Get(options, name) == IF name \in DOMAIN options THEN options[name] ELSE Undefined

OrElse(value, default) == IF value = Undefined THEN default ELSE value

\* OAUTH_AUTHORIZATION is parsed as a string, which has none of the properties
\* that the clients look up in it.
AuthorizationOption(name) == Undefined

-----------------------------------------------------------------------------
(* getAuthorizationUrl *)

GenericAuthorization(options) ==
    [client_id |-> OrElse(Get(options, "clientId"), ClientId),
     redirect_uri |-> OrElse(Get(options, "redirectUri"), ClientId),
     state |-> Get(options, "state")]

Auth0Authorization(options) ==
    [client_id |-> Get(options, "clientId"),
     redirect_uri |-> Get(options, "redirectUri"),
     state |-> Get(options, "state")]

\* This client looks for the snake_case names, which its caller does not use.
WorkOSAuthorization(options) ==
    [client_id |-> OrElse(Get(options, "client_id"),
                          OrElse(AuthorizationOption("client_id"), ClientId)),
     redirect_uri |-> OrElse(Get(options, "redirect_uri"),
                             AuthorizationOption("redirect_uri")),
     state |-> Get(options, "state")]

AuthorizationRequest(options) ==
    CASE client \in {"generic", "ory"} -> GenericAuthorization(options)
      [] client = "auth0"   -> Auth0Authorization(options)
      [] client = "workos"  -> WorkOSAuthorization(options)

(* exchangeCode, as far as it reaches the token endpoint *)

\* JSON.stringify is given the parameters as URLSearchParams and leaves nothing
\* of them.
Serialized(form) == NoForm

GenericTokenRequest(options) ==
    Serialized([client_id |-> OrElse(Get(options, "clientId"), ClientId),
                redirect_uri |-> OrElse(Get(options, "redirectUri"),
                                        AuthorizationOption("redirect_uri")),
                code |-> options.code])

\* MUTANT of Auth0TokenRequest: the client id under the other spelling only.
ReadsClientId(options) ==
    [client_id |-> Get(options, "clientId"),
     redirect_uri |-> Get(options, "redirect_uri"),
     code |-> options.code]

\* `{ client_id: clientId, code, ...options }`: what is spread last counts.
Auth0TokenRequest(options) ==
    [client_id |-> OrElse(Get(options, "client_id"), Get(options, "clientId")),
     redirect_uri |-> Get(options, "redirect_uri"),
     code |-> options.code]

WorkOSTokenRequest(options) ==
    [client_id |-> OrElse(Get(options, "clientId"), ClientId),
     redirect_uri |-> Undefined,
     code |-> options.code]

\* Ory's client is the generic one but for this exchange, made by an SDK.
OryTokenRequest(options) ==
    [client_id |-> OrElse(Get(options, "clientId"), ClientId),
     redirect_uri |-> OrElse(Get(options, "redirect_uri"),
                             AuthorizationOption("redirect_uri")),
     code |-> options.code]

TokenRequest(options) ==
    CASE client = "generic" -> GenericTokenRequest(options)
      [] client = "ory"     -> OryTokenRequest(options)
      [] client = "auth0"   -> Auth0TokenRequest(options)
      [] client = "workos"  -> WorkOSTokenRequest(options)

-----------------------------------------------------------------------------
(* The login handler *)

\* MUTANT of StartLogin: the state is its own secret.
DrawsOnce(l) ==
    /\ login[l] = "idle"
    /\ login' = [login EXCEPT ![l] = "redirecting"]
    /\ drawn' = drawn + 1
    /\ location' = [location EXCEPT ![l] =
                       AuthorizationRequest([clientId |-> ClientId,
                                             redirectUri |-> RedirectUri,
                                             state |-> drawn + 1])]
    /\ secret' = [secret EXCEPT ![l] = drawn + 1]
    /\ writing' = writing \cup {l}
    /\ signing' = signing \cup {l}
    /\ UNCHANGED <<configuration, callbackVars, cookie, secrets, jar, issued>>

\* handle() up to its await.  The URL is built before the secret is drawn; the
\* write and the signature are started and not awaited.
StartLogin(l) ==
    /\ login[l] = "idle"
    /\ login' = [login EXCEPT ![l] = "redirecting"]
    /\ drawn' = drawn + 2
    /\ location' = [location EXCEPT ![l] =
                       AuthorizationRequest([clientId |-> ClientId,
                                             redirectUri |-> RedirectUri,
                                             state |-> drawn + 1])]
    /\ secret' = [secret EXCEPT ![l] = drawn + 2]
    /\ writing' = writing \cup {l}
    /\ signing' = signing \cup {l}
    /\ UNCHANGED <<configuration, callbackVars, cookie, secrets, jar, issued>>

\* The SDK refuses to build a URL from what it is given: the error leaves the
\* handler before anything is stored or signed.
LoginThrows(l) ==
    /\ client = "workos"
    /\ login[l] = "idle"
    /\ login' = [login EXCEPT ![l] = "failed"]
    /\ drawn' = drawn + 1
    /\ UNCHANGED <<configuration, callbackVars, location, secret, cookie, writing,
                   signing, secrets, jar, issued>>

\* MUTANT of Redirect: the secret is stored before the handler goes on.
AwaitsStore(l) ==
    /\ login[l] = "redirecting"
    /\ l \notin writing
    /\ login' = [login EXCEPT ![l] = "redirected"]
    /\ UNCHANGED <<configuration, loginVars, callbackVars, cookie, jar, issued>>

\* The handler resumes, returns a response of its own and hono keeps it.
Redirect(l) ==
    /\ login[l] = "redirecting"
    /\ login' = [login EXCEPT ![l] = "redirected"]
    /\ UNCHANGED <<configuration, loginVars, callbackVars, cookie, jar, issued>>

\* The cookie is signed and put among the headers of the context: these are
\* headers of the response only when it is there already, and not sent yet.
Signed(l) ==
    /\ l \in signing
    /\ signing' = signing \ {l}
    /\ cookie' = IF login[l] = "redirected"
                 THEN [cookie EXCEPT ![l] = [state |-> location[l].state, key |-> secret[l]]]
                 ELSE cookie
    /\ UNCHANGED <<configuration, callbackVars, drawn, login, location, secret,
                   writing, secrets, jar, issued>>

\* The try block has been left: its fallback to an unsigned cookie is not taken.
SigningFails(l) ==
    /\ l \in signing
    /\ signing' = signing \ {l}
    /\ UNCHANGED <<configuration, callbackVars, drawn, login, location, secret, cookie,
                   writing, secrets, jar, issued>>

\* MUTANT of StoreSecret: the handler, which all requests share, keeps the last
\* secret it has drawn.
StoresTheLastDrawn(l) ==
    /\ l \in writing
    /\ store = "sqlite"
    /\ writing' = writing \ {l}
    /\ secrets' = [secrets EXCEPT ![location[l].state] = drawn]
    /\ UNCHANGED <<configuration, callbackVars, drawn, login, location, secret, cookie,
                   signing, jar, issued>>

\* upsert(state, secret): dates are stored as numbers.
StoreSecret(l) ==
    /\ l \in writing
    /\ store = "sqlite"
    /\ writing' = writing \ {l}
    /\ secrets' = [secrets EXCEPT ![location[l].state] = secret[l]]
    /\ UNCHANGED <<configuration, callbackVars, drawn, login, location, secret, cookie,
                   signing, jar, issued>>

\* The write is rejected, as always by D1, which binds no Date objects: nobody
\* awaits it.
SecretIsRejected(l) ==
    /\ l \in writing
    /\ writing' = writing \ {l}
    /\ UNCHANGED <<configuration, callbackVars, drawn, login, location, secret, cookie,
                   signing, secrets, jar, issued>>

\* The response is sent; the browser keeps its cookie, if it has one.
SendRedirect(l) ==
    /\ login[l] = "redirected"
    /\ login' = [login EXCEPT ![l] = "answered"]
    /\ jar' = IF cookie[l] = NoCookie THEN jar ELSE cookie[l]
    /\ UNCHANGED <<configuration, loginVars, callbackVars, cookie, issued>>

-----------------------------------------------------------------------------
(* The provider, and the callback handler *)

\* The user signs in (external): the code is bound to client and redirect URI.
Authorize(l) ==
    /\ login[l] = "answered"
    /\ location[l].client_id = ClientId
    /\ location[l].redirect_uri \in {RedirectUri, Undefined}
    /\ issued' = issued \cup {l}
    /\ UNCHANGED <<configuration, loginVars, callbackVars, login, cookie, jar>>

\* req.param('code') asks for a parameter of the path; the callback's path has
\* none, and the provider puts the code into the query.
CodeParam(code) == Undefined

\* A callback comes with a code, with one used before, or with none.
StartCallback(c) ==
    /\ callback[c] = "idle"
    /\ callback' = [callback EXCEPT ![c] = "exchanging"]
    /\ \E code \in issued \cup {Undefined} :
          exchange' = [exchange EXCEPT ![c] =
                          TokenRequest([client_id |-> ClientId,
                                        redirect_uri |-> RedirectUri,
                                        code |-> CodeParam(code)])]
    /\ UNCHANGED <<configuration, loginVars, login, cookie, jar, issued, spent>>

Granted(form) ==
    /\ form.code \in issued \ spent
    /\ form.client_id = location[form.code].client_id
    /\ form.redirect_uri = location[form.code].redirect_uri

\* The exchange settles.  The tokens of a success go nowhere, an answer that
\* does not match the schema, a refusal and a lost request are the same error.
FinishCallback(c) ==
    /\ callback[c] = "exchanging"
    /\ \E valid \in BOOLEAN :
          callback' = [callback EXCEPT ![c] =
                          IF Granted(exchange[c]) /\ valid THEN "answered" ELSE "error"]
    /\ spent' = IF Granted(exchange[c]) THEN spent \cup {exchange[c].code} ELSE spent
    /\ UNCHANGED <<configuration, loginVars, login, cookie, jar, issued, exchange>>

-----------------------------------------------------------------------------
Next ==
    \/ \E l \in Login : \/ StartLogin(l) \/ LoginThrows(l) \/ Redirect(l)
                        \/ Signed(l) \/ SigningFails(l)
                        \/ StoreSecret(l) \/ SecretIsRejected(l)
                        \/ SendRedirect(l) \/ Authorize(l)
    \/ \E c \in Callback : StartCallback(c) \/ FinishCallback(c)

Spec == Init /\ [][Next]_vars

\* The event loop resumes the handler and sends what it returned; a fetch to the
\* provider settles.  The store and the signature owe nothing.
Fairness ==
    /\ \A l \in Login : WF_vars(Redirect(l)) /\ WF_vars(SendRedirect(l))
    /\ \A c \in Callback : WF_vars(FinishCallback(c))

FairSpec == Spec /\ Fairness

-----------------------------------------------------------------------------
(* Properties *)

\* Every variable holds a value the code can put there; a login that has left
\* the handler has a state and a secret of its own.
TypeOK ==
    /\ client \in ClientKinds /\ store \in SecretStoreKinds
    /\ drawn \in 0 .. 2 * Cardinality(Login)
    /\ login \in [Login -> {"idle", "redirecting", "redirected", "answered", "failed"}]
    /\ location \in [Login -> AuthorizationParams]
    /\ exchange \in [Callback -> TokenParams]
    /\ secret \in [Login -> MaybeUUID]
    /\ cookie \in [Login -> Cookies \cup {NoCookie}]
    /\ jar \in Cookies \cup {NoCookie}
    /\ writing \cup signing \cup issued \cup spent \subseteq Login
    /\ secrets \in [UUID -> MaybeUUID]
    /\ callback \in [Callback -> {"idle", "exchanging", "answered", "error"}]
    /\ \A l \in Login : login[l] \notin {"idle", "failed"} =>
          /\ location[l].state \in UUID /\ secret[l] \in UUID
          /\ location[l].state # secret[l]

\* A state cookie can be verified against what is stored: it carries the state
\* of its own redirect, and the secret stored under that state, once it is
\* there, is the one that signed it, however logins overlap.
CookieMatchesSecret ==
    \A l \in Login : cookie[l] # NoCookie =>
        /\ cookie[l].state = location[l].state
        /\ secrets[cookie[l].state] \in {Undefined, cookie[l].key}

\* To the provider the request for a code and the request for its tokens come
\* from the configured client, and the code is asked for at the configured
\* redirect URI, whichever spelling a caller uses.  The WorkOS client leaves the
\* URI to the provider, the generic one sends no parameters for tokens.
SameClientThroughout ==
    /\ \A l \in Login : location[l] # Nothing =>
          /\ location[l].client_id = ClientId
          /\ client # "workos" => location[l].redirect_uri = RedirectUri
    /\ \A c \in Callback : exchange[c] # NoForm => exchange[c].client_id = ClientId

\* Every login and every callback is answered, also when the store of secrets or
\* the signature never settles.
EverySignInStepEnds ==
    /\ \A l \in Login : login[l] = "redirecting" ~> login[l] = "answered"
    /\ \A c \in Callback : callback[c] = "exchanging" ~> callback[c] \in {"answered", "error"}

=============================================================================
