----------------------------- MODULE RequestPipeline -----------------------------
(***************************************************************************)
(* How a request passes through the router that both entrypoints build:    *)
(* the middlewares, the route handlers and the proxy, as Hono composes     *)
(* them (external, hono 4.5.0).  Each element of the chain is called with  *)
(* next(), which runs the rest of the chain; an element that does not wait *)
(* for next() is over before the rest is.  authenticate() of the session   *)
(* manager (module AuthSessionManager) appears here by its outcomes.       *)
(***************************************************************************)
EXTENDS Naturals, Sequences

CONSTANTS
    Request,
    Session,
    None,               \* no cookie, no Authorization header, not forwarded
    Routes,             \* bound: the routes that requests are made for
    CloudflareInfo,     \* bound: the kinds of request.cf data they come with
    Agents              \* the routers that an entrypoint may have built

\* AuthSessionMiddleware.AUTH_SESSION_KEY: not configurable.
AuthSessionKey == "auth-session-id"

\* MUTANT of DefaultCookieKey: renamed here and not in the middleware.
RenamedDefault == "auth-session"

\* The cookie that the logout handler reads, unless ROUTER_COOKIE_KEY names another.
DefaultCookieKey == "auth-session-id"

\* The legacyKey of LegacySessionMigrationMiddleware.
LegacyKey == "session-id"

\* The feature flags (a Bun agent has neither middleware), the cookie that the
\* logout handler reads, whether the proxy catches an error of its fetch
\* (DynamicProxyHandler does, PassthroughProxyHandler does not), and the elements
\* that the code has and no entrypoint registers.
Configuration == [geolocation: BOOLEAN, botScoring: BOOLEAN, cookieKey: STRING,
                  catches: BOOLEAN, extras: SUBSET {"captcha", "csrf", "migration"}]

ASSUME PipelineAssumption ==
    /\ Routes \subseteq {"proxy", "logout", "login", "callback"}
    /\ CloudflareInfo \subseteq {"geo", "bot"}
    /\ Session \cap {None, "emptied", "cut"} = {}
    /\ Agents \subseteq Configuration
    /\ \A a \in Agents : "migration" \in a.extras => ~a.geolocation /\ ~a.botScoring

VARIABLES
    agent,      \* how the router was built; never changes
    req,        \* the requests: route, cookies, what Cloudflare knows of them
    chain,      \* the elements that matched each request; never changes
    frame,      \* per request and chain element, how far its call has come
    res,        \* context.res: what the chain has made the response so far
    cookies,    \* per request, the Set-Cookie headers of the response
    headers,    \* what middlewares have added to the raw request
    forwarded,  \* the added headers the origin received, or None
    authed,     \* what authenticate() answered
    threw,      \* an element of the chain threw
    ended,      \* sessions that logout() was called for
    answer      \* what the client was answered with

vars == <<agent, req, chain, frame, res, cookies, headers, forwarded, authed, threw, ended, answer>>
request == <<agent, req, chain>>

Keys == {AuthSessionKey, agent.cookieKey}
        \cup (IF "migration" \in agent.extras THEN {LegacyKey} ELSE {})

\* The data of request.cf that some middleware reads.
CloudflareRead == (IF agent.geolocation THEN {"geo"} ELSE {})
                  \cup (IF agent.botScoring THEN {"bot"} ELSE {})

\* A cf_clearance cookie is what somebody has who passed Cloudflare's captcha.
Incoming == [route: Routes, jar: [Keys -> Session \cup {None}],
             cleared: IF "captcha" \in agent.extras THEN BOOLEAN ELSE {FALSE},
             cf: SUBSET (CloudflareInfo \cap CloudflareRead)]

\* The legacy cookie that a response of the origin sets: to an id, with or without
\* `=` in its text, or to nothing, which ends it; or a Set-Cookie without `=`.
NotSet == [kind |-> "unset", id |-> None]

LegacyCookies == [kind: {"unset", "emptied", "malformed"}, id: {None}]
                 \cup [kind: {"plain", "padded"}, id: Session]

AuthCookies == Session \cup {None, "emptied", "cut"}

Headers == [bearer: Session \cup {None}, cf: SUBSET {"geo", "bot"}]

\* router.use(), under a condition.
Use(elements, condition, element) ==
    IF condition THEN Append(elements, element) ELSE elements

\* What is registered for every route, in that order.
Middlewares ==
    LET c1 == Use(<<"cookies">>, "captcha" \in agent.extras, "captcha")
        c2 == Use(c1, "csrf" \in agent.extras, "csrf")
        c3 == Use(c2, "migration" \in agent.extras, "migration")
        c4 == Use(c3, agent.geolocation, "geo")
    IN  Use(c4, agent.botScoring, "bot")

\* The elements that match a route.
Chain(route) ==
    IF route = "proxy" THEN Append(Append(Middlewares, "auth"), "proxy")
    ELSE Append(Middlewares, route)

Elements(r) == DOMAIN chain[r]

\* "new": not called; "entered": called; "io": waits for a store, a provider or
\* the origin; "next": waits for the rest of the chain; "over": settled.
Phases == {"new", "entered", "io", "next", "over"}

\* "error" is Hono's 500; "local" a Response that a handler built; "context" the
\* Context object that next() resolves to.
Responses == {"none", "upstream", "local", "error", "context"}

Init ==
    /\ agent \in Agents
    /\ req \in [Request -> Incoming]
    /\ chain = [r \in Request |-> Chain(req[r].route)]
    /\ frame = [r \in Request |-> [i \in Elements(r) |-> "new"]]
    /\ res = [r \in Request |-> "none"]
    /\ cookies = [r \in Request |-> [legacy |-> NotSet, auth |-> None]]
    /\ headers = [r \in Request |-> [bearer |-> None, cf |-> {}]]
    /\ forwarded = [r \in Request |-> None]
    /\ authed = [r \in Request |-> "unasked"]
    /\ threw = [r \in Request |-> FALSE]
    /\ ended = {}
    /\ answer = [r \in Request |-> "none"]

-----------------------------------------------------------------------------
(* Hono's compose() (external) *)

At(r, i, element, phase) ==
    chain[r][i] = element /\ frame[r][i] = phase

\* `await next()` or `return next()`.
CallNext(r, i) ==
    frame' = [frame EXCEPT ![r][i] = "next", ![r][i + 1] = "entered"]

AwaitIO(r, i) == frame' = [frame EXCEPT ![r][i] = "io"]

\* The elements that are called and not over.
Active(r) == {i \in Elements(r) : frame[r][i] \notin {"new", "over"}}

\* A call of next() runs the rest of the chain up to its first await before the
\* caller goes on.
Unwound(r) == \A i \in Elements(r) : frame[r][i] # "entered"

\* An element returns a value: the first that is not undefined is the response.
Return(r, i, value) ==
    /\ frame' = [frame EXCEPT ![r][i] = "over"]
    /\ res' = [res EXCEPT ![r] = IF @ = "none" THEN value ELSE @]
    /\ UNCHANGED threw

\* An element throws: the error handler's response replaces any other.
Throw(r, i) ==
    /\ frame' = [frame EXCEPT ![r][i] = "over"]
    /\ res' = [res EXCEPT ![r] = "error"]
    /\ threw' = [threw EXCEPT ![r] = TRUE]

\* The migration has something to do after the rest of the chain.
Migrates(r, i) == chain[r][i] = "migration" /\ req[r].jar[AuthSessionKey] = None

Arrive(r) ==
    /\ frame[r][1] = "new"
    /\ frame' = [frame EXCEPT ![r][1] = "entered"]
    /\ UNCHANGED <<request, cookies, res, headers, forwarded, authed, threw, ended, answer>>

\* The rest of the chain is over: WithCookies returns nothing, the others return
\* what next() gave them, the Context.
RestIsOver(r, i) ==
    /\ frame[r][i] = "next"
    /\ frame[r][i + 1] = "over"
    /\ Unwound(r)

AfterNext(r, i) ==
    /\ RestIsOver(r, i)
    /\ ~Migrates(r, i)
    /\ Return(r, i, IF chain[r][i] = "cookies" THEN "none" ELSE "context")
    /\ UNCHANGED <<request, cookies, headers, forwarded, authed, ended, answer>>

\* The chain's first call is over: a context nobody finalized is an error.
Answer(r) ==
    /\ frame[r][1] = "over"
    /\ Unwound(r)
    /\ answer[r] = "none"
    /\ answer' = [answer EXCEPT ![r] = IF res[r] = "none" THEN "error" ELSE res[r]]
    /\ UNCHANGED <<request, cookies, frame, res, headers, forwarded, authed, threw, ended>>

\* A Worker whose request is answered may be stopped with work outstanding.
Abandon(r) ==
    /\ answer[r] # "none"
    /\ Active(r) # {}
    /\ frame' = [frame EXCEPT ![r] = [i \in Elements(r) |-> "over"]]
    /\ UNCHANGED <<request, cookies, res, headers, forwarded, authed, threw, ended, answer>>

-----------------------------------------------------------------------------
(* The middlewares *)

\* MUTANT of WithCookies: what is awaited never settles.
NeverSettles(r, i) ==
    /\ At(r, i, "cookies", "entered")
    /\ frame' = [frame EXCEPT ![r][i] = "next"]
    /\ UNCHANGED <<request, cookies, res, headers, forwarded, authed, threw, ended, answer>>

\* MUTANT of WithCookies: next() is not awaited.
DoesNotAwaitNext(r, i) ==
    /\ At(r, i, "cookies", "entered")
    /\ frame' = [frame EXCEPT ![r][i] = "over", ![r][i + 1] = "entered"]
    /\ UNCHANGED <<request, cookies, res, headers, forwarded, authed, threw, ended, answer>>

WithCookies(r, i) ==
    /\ At(r, i, "cookies", "entered")
    /\ CallNext(r, i)
    /\ UNCHANGED <<request, cookies, res, headers, forwarded, authed, threw, ended, answer>>

\* CaptchaGate: without clearance the client is challenged with a 403.
Challenged(r) == "captcha" \in agent.extras /\ ~req[r].cleared

Challenge(r, i) ==
    /\ At(r, i, "captcha", "entered")
    /\ Challenged(r)
    /\ Return(r, i, "local")
    /\ UNCHANGED <<request, cookies, headers, forwarded, authed, ended, answer>>

\* The gates let a request pass: validateCsrf() accepts everything, and what its
\* catch block waits for compose() has caught before.
PassGate(r, i) ==
    /\ \/ At(r, i, "captcha", "entered") /\ ~Challenged(r)
       \/ At(r, i, "csrf", "entered")
    /\ CallNext(r, i)
    /\ UNCHANGED <<request, cookies, res, headers, forwarded, authed, threw, ended, answer>>

\* With a session cookie or without, the migration begins with the rest.
BeginMigration(r, i) ==
    /\ At(r, i, "migration", "entered")
    /\ CallNext(r, i)
    /\ UNCHANGED <<request, cookies, res, headers, forwarded, authed, threw, ended, answer>>

\* MUTANT of LegacyId: what the browser sent comes before what the origin set.
RequestFirst(r) ==
    IF req[r].jar[LegacyKey] # None THEN req[r].jar[LegacyKey] ELSE cookies[r].legacy.id

\* The id that the session is known by from now on: what the response sets the
\* legacy cookie to, of which a `=` cuts off the rest, or what the request had.
LegacyId(r) ==
    CASE cookies[r].legacy.kind = "unset"   -> req[r].jar[LegacyKey]
      [] cookies[r].legacy.kind = "emptied" -> "emptied"
      [] cookies[r].legacy.kind = "padded"  -> "cut"
      [] OTHER                              -> cookies[r].legacy.id

\* With an id of either kind the response sets the session cookie too; setCookie
\* may find that the headers of a response that fetch() made are immutable.
Migrate(r, i) ==
    /\ RestIsOver(r, i)
    /\ Migrates(r, i)
    /\ cookies[r].legacy.kind # "malformed"
    /\ cookies' = [cookies EXCEPT ![r].auth = LegacyId(r)]
    /\ Return(r, i, "none")
    /\ UNCHANGED <<request, headers, forwarded, authed, ended, answer>>

\* A Set-Cookie that does not parse, or immutable headers.
MigrationThrows(r, i) ==
    /\ RestIsOver(r, i)
    /\ Migrates(r, i)
    /\ res[r] = "upstream"
    /\ cookies[r].legacy.kind = "malformed" \/ LegacyId(r) # None
    /\ Throw(r, i)
    /\ UNCHANGED <<request, cookies, headers, forwarded, authed, ended, answer>>

\* Without geographic information the request goes on ...
NoGeolocation(r, i) ==
    /\ At(r, i, "geo", "entered")
    /\ "geo" \notin req[r].cf
    /\ CallNext(r, i)
    /\ UNCHANGED <<request, cookies, res, headers, forwarded, authed, threw, ended, answer>>

\* ... with it the headers are set, and next is not called.
Geolocation(r, i) ==
    /\ At(r, i, "geo", "entered")
    /\ "geo" \in req[r].cf
    /\ headers' = [headers EXCEPT ![r].cf = @ \cup {"geo"}]
    /\ Return(r, i, "none")
    /\ UNCHANGED <<request, cookies, forwarded, authed, ended, answer>>

\* next() is called and not awaited: the call is over, the rest runs on.
BotScoring(r, i) ==
    /\ At(r, i, "bot", "entered")
    /\ headers' = [headers EXCEPT ![r].cf = @ \cup (req[r].cf \cap {"bot"})]
    /\ frame' = [frame EXCEPT ![r][i] = "over", ![r][i + 1] = "entered"]
    /\ UNCHANGED <<request, cookies, res, forwarded, authed, threw, ended, answer>>

SessionOf(r) == req[r].jar[AuthSessionKey]

NoSessionCookie(r, i) ==
    /\ At(r, i, "auth", "entered")
    /\ SessionOf(r) = None
    /\ CallNext(r, i)
    /\ UNCHANGED <<request, cookies, res, headers, forwarded, authed, threw, ended, answer>>

\* MUTANT of Authenticate: the rest of the chain does not wait for the answer.
DoesNotWait(r, i) ==
    /\ At(r, i, "auth", "entered")
    /\ SessionOf(r) # None
    /\ frame' = [frame EXCEPT ![r][i] = "io", ![r][i + 1] = "entered"]
    /\ UNCHANGED <<request, cookies, res, headers, forwarded, authed, threw, ended, answer>>

Authenticate(r, i) ==
    /\ At(r, i, "auth", "entered")
    /\ SessionOf(r) # None
    /\ AwaitIO(r, i)
    /\ UNCHANGED <<request, cookies, res, headers, forwarded, authed, threw, ended, answer>>

Authenticated(r, i) ==
    /\ At(r, i, "auth", "io")
    /\ authed' = [authed EXCEPT ![r] = "session"]
    /\ headers' = [headers EXCEPT ![r].bearer = SessionOf(r)]
    /\ CallNext(r, i)
    /\ UNCHANGED <<request, cookies, res, forwarded, threw, ended, answer>>

\* MUTANT of NotAuthenticated: `Bearer undefined` without the accessToken check.
BearerUndefined(r, i) ==
    /\ At(r, i, "auth", "io")
    /\ authed' = [authed EXCEPT ![r] = "nothing"]
    /\ headers' = [headers EXCEPT ![r].bearer = "undefined"]
    /\ CallNext(r, i)
    /\ UNCHANGED <<request, cookies, res, forwarded, threw, ended, answer>>

\* No record, or a record without an access token.
NotAuthenticated(r, i) ==
    /\ At(r, i, "auth", "io")
    /\ authed' = [authed EXCEPT ![r] = "nothing"]
    /\ CallNext(r, i)
    /\ UNCHANGED <<request, cookies, res, headers, forwarded, threw, ended, answer>>

\* The store, the provider or the decoding of a token failed; nobody catches.
AuthenticateThrows(r, i) ==
    /\ At(r, i, "auth", "io")
    /\ authed' = [authed EXCEPT ![r] = "thrown"]
    /\ Throw(r, i)
    /\ UNCHANGED <<request, cookies, headers, forwarded, ended, answer>>

-----------------------------------------------------------------------------
(* The proxy and the route handlers *)

Forward(r, i) ==
    /\ At(r, i, "proxy", "entered")
    /\ forwarded' = [forwarded EXCEPT ![r] = headers[r]]
    /\ AwaitIO(r, i)
    /\ UNCHANGED <<request, cookies, res, headers, authed, threw, ended, answer>>

\* Only a migration looks at the cookies of the answer.
OriginAnswers(r, i) ==
    /\ At(r, i, "proxy", "io")
    /\ Return(r, i, "upstream")
    /\ IF "migration" \in agent.extras
       THEN \E c \in LegacyCookies : cookies' = [cookies EXCEPT ![r].legacy = c]
       ELSE UNCHANGED cookies
    /\ UNCHANGED <<request, headers, forwarded, authed, ended, answer>>

OriginFails(r, i) ==
    /\ At(r, i, "proxy", "io")
    /\ IF agent.catches THEN Return(r, i, "local") ELSE Throw(r, i)
    /\ UNCHANGED <<request, cookies, headers, forwarded, authed, ended, answer>>

\* MUTANT of HandleLogout: the handler answers without logout().
EndsNothing(r, i) ==
    /\ At(r, i, "logout", "entered")
    /\ Return(r, i, "local")
    /\ UNCHANGED <<request, cookies, headers, forwarded, authed, ended, answer>>

\* Without the cookie the answer is 400; otherwise logout() is awaited, and
\* whether it fails or not the handler answers.
HandleLogout(r, i) ==
    /\ At(r, i, "logout", "entered")
    /\ IF req[r].jar[agent.cookieKey] = None
       THEN /\ Return(r, i, "local")
            /\ UNCHANGED ended
       ELSE /\ ended' = ended \cup {req[r].jar[agent.cookieKey]}
            /\ AwaitIO(r, i)
            /\ UNCHANGED <<res, threw>>
    /\ UNCHANGED <<request, cookies, headers, forwarded, authed, answer>>

\* The login handler redirects to the provider unless building the URL throws.
HandleLogin(r, i) ==
    /\ At(r, i, "login", "entered")
    /\ Return(r, i, "local") \/ Throw(r, i)
    /\ UNCHANGED <<request, cookies, headers, forwarded, authed, ended, answer>>

HandleCallback(r, i) ==
    /\ At(r, i, "callback", "entered")
    /\ AwaitIO(r, i)
    /\ UNCHANGED <<request, cookies, res, headers, forwarded, authed, threw, ended, answer>>

\* A logout or a callback answers once what it awaited has settled, either way.
HandlerAnswers(r, i) ==
    /\ At(r, i, "logout", "io") \/ At(r, i, "callback", "io")
    /\ Return(r, i, "local")
    /\ UNCHANGED <<request, cookies, headers, forwarded, authed, ended, answer>>

-----------------------------------------------------------------------------
\* What the event loop runs for element i of a request's chain.
Run(r, i) ==
    \/ AfterNext(r, i) \/ WithCookies(r, i)
    \/ Challenge(r, i) \/ PassGate(r, i)
    \/ BeginMigration(r, i) \/ Migrate(r, i) \/ MigrationThrows(r, i)
    \/ NoGeolocation(r, i) \/ Geolocation(r, i) \/ BotScoring(r, i)
    \/ NoSessionCookie(r, i) \/ Authenticate(r, i)
    \/ Authenticated(r, i) \/ NotAuthenticated(r, i) \/ AuthenticateThrows(r, i)
    \/ Forward(r, i) \/ OriginAnswers(r, i) \/ OriginFails(r, i)
    \/ HandleLogout(r, i) \/ HandleLogin(r, i) \/ HandleCallback(r, i)
    \/ HandlerAnswers(r, i)

\* JavaScript runs one request at a time up to its next await.
Idle(r) == \A q \in Request \ {r} : Unwound(q)

Next ==
    \E r \in Request :
        /\ Idle(r)
        /\ \/ Arrive(r) \/ Answer(r) \/ Abandon(r)
           \/ \E i \in Active(r) : Run(r, i)

Spec == Init /\ [][Next]_vars

\* The event loop runs what can run, and what is awaited settles in the end; a
\* request need never come, and a Worker need not be stopped.
Fairness ==
    \A r \in Request :
        /\ WF_vars(Idle(r) /\ Answer(r))
        /\ WF_vars(Idle(r) /\ \E i \in Active(r) : Run(r, i))

FairSpec == Spec /\ Fairness

-----------------------------------------------------------------------------
(* Properties *)

\* Every variable holds a value the code can put there.
TypeOK ==
    /\ agent \in Agents
    /\ req \in [Request -> Incoming]
    /\ \A r \in Request : chain[r] = Chain(req[r].route)
    /\ \A r \in Request : frame[r] \in [Elements(r) -> Phases]
    /\ res \in [Request -> Responses]
    /\ cookies \in [Request -> [legacy: LegacyCookies, auth: AuthCookies]]
    /\ headers \in [Request -> Headers]
    /\ forwarded \in [Request -> Headers \cup {None}]
    /\ authed \in [Request -> {"unasked", "session", "nothing", "thrown"}]
    /\ threw \in [Request -> BOOLEAN]
    /\ ended \subseteq Session
    /\ answer \in [Request -> Responses]

\* What reaches the origin carries the token of the session in the request's own
\* cookie if authenticate() gave one, no token if it gave none, and nothing
\* reaches the origin while the session is undecided or after it failed.
ForwardedAsItsSession ==
    \A r \in Request : forwarded[r] # None =>
        /\ forwarded[r].bearer = IF authed[r] = "session" THEN SessionOf(r) ELSE None
        /\ authed[r] = "unasked" => SessionOf(r) = None
        /\ authed[r] # "thrown"

\* What the last element of a chain may answer, or the captcha gate in its place.
LastAnswers(r) ==
    IF req[r].route # "proxy" \/ Challenged(r) THEN {"local"}
    ELSE {"upstream"} \cup (IF agent.catches THEN {"local"} ELSE {})

\* Unless something threw, the client gets what the last element of the chain
\* answered, once it has: never an empty or a half-made response.  So it is where
\* neither of Cloudflare's middlewares is registered.
AnswerIsTheHandlers ==
    ~agent.geolocation /\ ~agent.botScoring => \A r \in Request :
        ~threw[r] /\ answer[r] # "none" => answer[r] \in LastAnswers(r)

\* A browser that has a legacy id and no session cookie is answered, unless
\* something threw, with a session cookie of the id that it goes on to use: the
\* one the origin has just set (if its text has no `=`), the one it sent if the
\* origin set none, and none if the origin ended it.  A session cookie that it
\* has is never replaced.
MigratedToTheLegacySession ==
    \A r \in Request : "migration" \in agent.extras /\ answer[r] # "none" /\ ~threw[r] =>
        LET set == cookies[r].legacy
        IN  IF SessionOf(r) # None THEN cookies[r].auth = None
            ELSE /\ set.kind = "plain"   => cookies[r].auth = set.id
                 /\ set.kind = "emptied" => cookies[r].auth \notin Session
                 /\ set.kind = "unset" /\ ~Challenged(r)
                       => cookies[r].auth = req[r].jar[LegacyKey]

\* Unless ROUTER_COOKIE_KEY is set, a session is ended only by the logout of a
\* browser that is authenticated with it, and a logout that got past the gates is
\* answered by the handler only once logout() has been called for that session: the
\* handler's key and the middleware's, two strings in two files, are the same.
LogoutEndsOwnSession ==
    agent.cookieKey = DefaultCookieKey =>
        /\ \A s \in ended : \E r \in Request : req[r].route = "logout" /\ SessionOf(r) = s
        /\ \A r \in Request :
              req[r].route = "logout" /\ answer[r] = "local" /\ ~Challenged(r)
              => SessionOf(r) \in ended \cup {None}

\* Where every element waits for the rest of the chain a request is answered only
\* when all the work it started is over.
NothingOutstanding ==
    ~agent.botScoring => \A r \in Request : answer[r] # "none" => Active(r) = {}

\* Every request is answered, whatever fails on the way.
EveryRequestAnswered ==
    \A r \in Request : frame[r][1] # "new" ~> answer[r] # "none"

\* README.md:28-29: geolocation and bot score headers are detected and proxied,
\* and the client gets what the origin makes of them.
CloudflareHeadersAreProxied ==
    \A r \in Request :
        req[r].route = "proxy" /\ answer[r] # "none" /\ ~threw[r]
        => /\ forwarded[r] # None /\ forwarded[r].cf = req[r].cf
           /\ answer[r] \in LastAnswers(r)

=============================================================================
