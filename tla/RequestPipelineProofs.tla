------------------------- MODULE RequestPipelineProofs -------------------------
(***************************************************************************)
(* Proofs about RequestPipeline, for any number of requests and sessions   *)
(* and every router that may be configured.                                *)
(***************************************************************************)
EXTENDS RequestPipeline, TLAPS

Handlers == {"proxy", "logout", "login", "callback"}
Names == {"cookies", "captcha", "csrf", "migration", "geo", "bot", "auth"} \cup Handlers

\* The middlewares that a router may have.
Registered == {n \in Names \ (Handlers \cup {"auth"}) :
                  /\ n = "geo" => agent.geolocation
                  /\ n = "bot" => agent.botScoring
                  /\ n \in {"captcha", "csrf", "migration"} => n \in agent.extras}

-----------------------------------------------------------------------------
(* The chain of a request *)

LEMMA AppendProperties ==
    ASSUME NEW S, NEW s \in Seq(S), NEW e \in S, NEW t, t = Append(s, e)
    PROVE  /\ t \in Seq(S) /\ Len(t) \in Nat /\ Len(s) \in Nat /\ Len(t) = Len(s) + 1
           /\ \A i \in 1 .. Len(s) : t[i] = s[i]
           /\ t[Len(s) + 1] = e
OBVIOUS

\* The middlewares of a router: only those it is configured with, the cookies
\* first, a captcha gate second.
LEMMA MiddlewaresShape ==
    ASSUME agent \in Configuration, NEW m, m = Middlewares
    PROVE  /\ m \in Seq(Registered) /\ Len(m) \in Nat \ {0} /\ m[1] = "cookies"
           /\ "captcha" \in agent.extras => Len(m) >= 2 /\ m[2] = "captcha"
           /\ "migration" \in agent.extras => \E i \in 1 .. Len(m) : m[i] = "migration"
<1> DEFINE A == "captcha" \in agent.extras
           B == "csrf" \in agent.extras
           C == "migration" \in agent.extras
           s0 == <<"cookies">>
           s1 == Use(s0, A, "captcha")
           s2 == Use(s1, B, "csrf")
           s3 == Use(s2, C, "migration")
           s4 == Use(s3, agent.geolocation, "geo")
           s5 == Use(s4, agent.botScoring, "bot")
<1>0. m = s5
    BY DEF Middlewares
<1>1. /\ agent.geolocation \in BOOLEAN /\ agent.botScoring \in BOOLEAN
      /\ A \in BOOLEAN /\ B \in BOOLEAN /\ C \in BOOLEAN
    BY DEF Configuration
<1>2. /\ "cookies" \in Registered
      /\ A => "captcha" \in Registered
      /\ B => "csrf" \in Registered
      /\ C => "migration" \in Registered
      /\ agent.geolocation => "geo" \in Registered
      /\ agent.botScoring => "bot" \in Registered
    BY DEF Registered, Names, Handlers
<1> HIDE DEF A, B, C
<1>3. s0 \in Seq(Registered) /\ Len(s0) = 1 /\ s0[1] = "cookies"
    BY <1>2
<1> HIDE DEF s0
<1>4. /\ s1 \in Seq(Registered) /\ Len(s1) \in Nat /\ Len(s0) <= Len(s1)
      /\ \A i \in 1 .. Len(s0) : s1[i] = s0[i]
      /\ A => Len(s1) = Len(s0) + 1 /\ s1[Len(s0) + 1] = "captcha"
    <2>1. s1 = IF A THEN Append(s0, "captcha") ELSE s0
        BY DEF Use
    <2> HIDE DEF s1
    <2>2. CASE A
        BY <1>2, <1>3, <2>1, <2>2, AppendProperties
    <2>3. CASE ~A
        BY <1>3, <2>1, <2>3
    <2> QED
        BY <2>2, <2>3
<1> HIDE DEF s1
<1>5. /\ s2 \in Seq(Registered) /\ Len(s2) \in Nat /\ Len(s1) <= Len(s2)
      /\ \A i \in 1 .. Len(s1) : s2[i] = s1[i]
    <2>1. s2 = IF B THEN Append(s1, "csrf") ELSE s1
        BY DEF Use
    <2> HIDE DEF s2
    <2>2. CASE B
        BY <1>2, <1>4, <2>1, <2>2, AppendProperties
    <2>3. CASE ~B
        BY <1>4, <2>1, <2>3
    <2> QED
        BY <2>2, <2>3
<1> HIDE DEF s2
<1>6. /\ s3 \in Seq(Registered) /\ Len(s3) \in Nat /\ Len(s2) <= Len(s3)
      /\ \A i \in 1 .. Len(s2) : s3[i] = s2[i]
      /\ C => Len(s3) = Len(s2) + 1 /\ s3[Len(s2) + 1] = "migration"
    <2>1. s3 = IF C THEN Append(s2, "migration") ELSE s2
        BY DEF Use
    <2> HIDE DEF s3
    <2>2. CASE C
        BY <1>2, <1>5, <2>1, <2>2, AppendProperties
    <2>3. CASE ~C
        BY <1>5, <2>1, <2>3
    <2> QED
        BY <2>2, <2>3
<1> HIDE DEF s3
<1>7. /\ s4 \in Seq(Registered) /\ Len(s4) \in Nat /\ Len(s3) <= Len(s4)
      /\ \A i \in 1 .. Len(s3) : s4[i] = s3[i]
    <2>1. s4 = IF agent.geolocation THEN Append(s3, "geo") ELSE s3
        BY DEF Use
    <2> HIDE DEF s4
    <2>2. CASE agent.geolocation
        BY <1>2, <1>6, <2>1, <2>2, AppendProperties
    <2>3. CASE ~agent.geolocation
        BY <1>6, <2>1, <2>3
    <2> QED
        BY <2>2, <2>3
<1> HIDE DEF s4
<1>8. /\ s5 \in Seq(Registered) /\ Len(s5) \in Nat /\ Len(s4) <= Len(s5)
      /\ \A i \in 1 .. Len(s4) : s5[i] = s4[i]
    <2>1. s5 = IF agent.botScoring THEN Append(s4, "bot") ELSE s4
        BY DEF Use
    <2> HIDE DEF s5
    <2>2. CASE agent.botScoring
        BY <1>2, <1>7, <2>1, <2>2, AppendProperties
    <2>3. CASE ~agent.botScoring
        BY <1>7, <2>1, <2>3
    <2> QED
        BY <2>2, <2>3
<1> HIDE DEF s5
<1>9. /\ Len(s0) = 1 /\ Len(s1) >= 1 /\ Len(s1) <= Len(s5)
      /\ \A i \in 1 .. Len(s1) : s5[i] = s1[i]
    BY <1>3, <1>4, <1>5, <1>6, <1>7, <1>8
<1>12. s5[1] = "cookies" /\ Len(s5) \in Nat \ {0}
    BY <1>3, <1>4, <1>8, <1>9
<1>10. A => Len(s5) >= 2 /\ s5[2] = "captcha"
    <2> SUFFICES ASSUME A PROVE Len(s5) >= 2 /\ s5[2] = "captcha"
        OBVIOUS
    <2>1. Len(s1) = 2 /\ s1[2] = "captcha"
        BY <1>3, <1>4
    <2> QED
        BY <1>8, <1>9, <2>1
<1>11. C => Len(s2) + 1 \in 1 .. Len(s5) /\ s5[Len(s2) + 1] = "migration"
    BY <1>5, <1>6, <1>7, <1>8
<1> QED
    BY <1>0, <1>8, <1>10, <1>11, <1>12 DEF A, C

\* What the proofs use of a chain c of length n that ends in a route's handler.
ChainProperties(c, n, route) ==
    /\ n \in Nat /\ n >= 2 /\ DOMAIN c = 1 .. n /\ c[1] = "cookies" /\ c[n] = route
    /\ \A i \in 1 .. n : c[i] \in Handlers <=> i = n
    /\ \A i \in 1 .. n : c[i] = "auth" <=> i = n - 1 /\ route = "proxy"
    /\ \A i \in 1 .. n : c[i] = "geo" => agent.geolocation
    /\ \A i \in 1 .. n : c[i] = "bot" => agent.botScoring
    /\ \A i \in 1 .. n : c[i] = "migration" => "migration" \in agent.extras
    /\ "captcha" \in agent.extras => n > 2 /\ c[2] = "captcha"
    /\ "migration" \in agent.extras => \E i \in 2 .. n - 1 : c[i] = "migration"

\* The chain of a route ends in its handler, the proxy's after the session's
\* middleware.
LEMMA ChainShape ==
    ASSUME agent \in Configuration, NEW route \in Handlers, NEW c, c = Chain(route)
    PROVE  ChainProperties(c, Len(c), route)
<1> DEFINE m == Middlewares
           k == Len(m)
<1>1. /\ m \in Seq(Registered) /\ k \in Nat \ {0} /\ m[1] = "cookies"
      /\ "captcha" \in agent.extras => k >= 2 /\ m[2] = "captcha"
      /\ "migration" \in agent.extras => \E i \in 1 .. k : m[i] = "migration"
    BY MiddlewaresShape
<1>2. \A i \in 1 .. k : /\ m[i] \notin Handlers \cup {"auth"}
                        /\ m[i] = "geo" => agent.geolocation
                        /\ m[i] = "bot" => agent.botScoring
                        /\ m[i] = "migration" => "migration" \in agent.extras
    BY <1>1 DEF Registered
<1> HIDE DEF m
<1>3. CASE route = "proxy"
    <2>1. c = Append(Append(m, "auth"), "proxy")
        BY <1>3 DEF Chain, m
    <2>2. /\ Len(c) = k + 2 /\ DOMAIN c = 1 .. k + 2
          /\ \A i \in 1 .. k : c[i] = m[i]
          /\ c[k + 1] = "auth" /\ c[k + 2] = "proxy"
        <3> DEFINE T == Registered \cup {"auth", "proxy"}
        <3>1. m \in Seq(T) /\ "auth" \in T /\ "proxy" \in T
            BY <1>1
        <3> HIDE DEF T
        <3> QED
            BY <1>1, <2>1, <3>1
    <2>3. \A i \in 1 .. k + 2 : i \in 1 .. k \/ i = k + 1 \/ i = k + 2
        BY <1>1
    <2>4. "auth" \notin Handlers /\ "proxy" \in Handlers
        BY DEF Handlers
    <2> QED
        BY <1>1, <1>2, <1>3, <2>2, <2>3, <2>4 DEF ChainProperties
<1>4. CASE route # "proxy"
    <2>1. c = Append(m, route)
        BY <1>4 DEF Chain, m
    <2>2. /\ Len(c) = k + 1 /\ DOMAIN c = 1 .. k + 1
          /\ \A i \in 1 .. k : c[i] = m[i]
          /\ c[k + 1] = route
        <3> DEFINE T == Registered \cup {route}
        <3>1. m \in Seq(T) /\ route \in T
            BY <1>1
        <3> HIDE DEF T
        <3> QED
            BY <1>1, <2>1, <3>1
    <2>3. \A i \in 1 .. k + 1 : i \in 1 .. k \/ i = k + 1
        BY <1>1
    <2>4. route \notin {"auth", "geo", "bot", "migration"}
        BY DEF Handlers
    <2> QED
        BY <1>1, <1>2, <1>4, <2>2, <2>3, <2>4 DEF ChainProperties
<1> QED
    BY <1>3, <1>4

-----------------------------------------------------------------------------
(* The steps of a request *)

\* The step of one request that Next takes.
Step(r) ==
    \/ Arrive(r) \/ Answer(r) \/ Abandon(r)
    \/ \E i \in Active(r) : Run(r, i)

\* Types, and what they leave open: frame is a function of the requests.
Typed == TypeOK /\ DOMAIN frame = Request

\* Everything that a step changes belongs to one request.
Same(q) ==
    /\ frame'[q] = frame[q] /\ res'[q] = res[q] /\ cookies'[q] = cookies[q]
    /\ headers'[q] = headers[q] /\ forwarded'[q] = forwarded[q]
    /\ authed'[q] = authed[q] /\ threw'[q] = threw[q] /\ answer'[q] = answer[q]

\* A request's chain has the shape that the proofs use.
LEMMA ChainOf ==
    ASSUME Typed, NEW r \in Request
    PROVE  /\ ChainProperties(chain[r], Len(chain[r]), req[r].route)
           /\ Elements(r) = 1 .. Len(chain[r])
           /\ frame[r] \in [1 .. Len(chain[r]) -> Phases]
<1>1. agent \in Configuration /\ req[r].route \in Handlers /\ chain[r] = Chain(req[r].route)
    BY PipelineAssumption DEF Typed, TypeOK, Incoming, Handlers
<1>2. ChainProperties(chain[r], Len(chain[r]), req[r].route)
    BY <1>1, ChainShape
<1>3. Elements(r) = 1 .. Len(chain[r])
    BY <1>2 DEF ChainProperties, Elements
<1> QED
    BY <1>2, <1>3 DEF Typed, TypeOK

\* The values that types promise.
LEMMA Values ==
    ASSUME Typed, NEW r \in Request
    PROVE  /\ agent \in Configuration
           /\ SessionOf(r) \in Session \cup {None}
           /\ req[r].jar[agent.cookieKey] \in Session \cup {None}
           /\ "migration" \in agent.extras =>
                 /\ req[r].jar[LegacyKey] \in Session \cup {None}
                 /\ LegacyId(r) \in AuthCookies
           /\ req[r].cf \subseteq {"geo", "bot"}
<1>1. agent \in Configuration /\ req[r] \in Incoming /\ cookies[r].legacy \in LegacyCookies
    BY PipelineAssumption DEF Typed, TypeOK
<1>2. /\ AuthSessionKey \in Keys /\ agent.cookieKey \in Keys
      /\ "migration" \in agent.extras => LegacyKey \in Keys
    BY DEF Keys
<1>3. req[r].jar \in [Keys -> Session \cup {None}] /\ req[r].cf \subseteq {"geo", "bot"}
    BY <1>1, PipelineAssumption DEF Incoming
<1>4. ASSUME req[r].jar[LegacyKey] \in Session \cup {None} PROVE LegacyId(r) \in AuthCookies
    <2>1. \/ cookies[r].legacy.kind \in {"unset", "emptied", "padded"}
          \/ cookies[r].legacy.kind = "plain" /\ cookies[r].legacy.id \in Session
          \/ cookies[r].legacy.kind = "malformed" /\ cookies[r].legacy.id = None
        BY <1>1 DEF LegacyCookies
    <2> QED
        BY <1>4, <2>1 DEF LegacyId, AuthCookies
<1> QED
    BY <1>1, <1>2, <1>3, <1>4 DEF SessionOf

\* What a step leaves of a request's authentication and forwarding.
KeepsAuth(r) ==
    authed'[r] = authed[r] /\ headers'[r].bearer = headers[r].bearer

KeepsResult(r) ==
    res'[r] = res[r] /\ threw'[r] = threw[r] /\ cookies'[r] = cookies[r]

\* Element i calls next() and waits for it: the session's middleware with what
\* authenticate() answered, the captcha gate unless it challenges.
Calls(r, i) ==
    /\ frame[r][i] \in {"entered", "io"}
    /\ chain[r][i] \notin Handlers
    /\ frame'[r] = [frame[r] EXCEPT ![i] = "next", ![i + 1] = "entered"]
    /\ KeepsResult(r) /\ forwarded'[r] = forwarded[r]
    /\ chain[r][i] = "captcha" => ~Challenged(r)
    /\ \/ chain[r][i] # "auth" /\ KeepsAuth(r)
       \/ chain[r][i] = "auth" /\ frame[r][i] = "entered" /\ SessionOf(r) = None /\ KeepsAuth(r)
       \/ /\ chain[r][i] = "auth" /\ frame[r][i] = "io"
          /\ \/ authed'[r] = "session" /\ headers'[r].bearer = SessionOf(r)
             \/ authed'[r] = "nothing" /\ headers'[r].bearer = headers[r].bearer

\* Element i calls next() and does not wait for it.
Leaves(r, i) ==
    /\ frame[r][i] = "entered" /\ chain[r][i] = "bot"
    /\ frame'[r] = [frame[r] EXCEPT ![i] = "over", ![i + 1] = "entered"]
    /\ KeepsResult(r) /\ forwarded'[r] = forwarded[r] /\ KeepsAuth(r)

\* Element i waits for something else; the proxy has forwarded the request.
Waits(r, i) ==
    /\ frame[r][i] = "entered"
    /\ chain[r][i] \in Handlers \cup {"auth"}
    /\ frame'[r] = [frame[r] EXCEPT ![i] = "io"]
    /\ KeepsResult(r) /\ KeepsAuth(r)
    /\ \/ forwarded'[r] = forwarded[r]
       \/ chain[r][i] = "proxy" /\ forwarded'[r] = headers[r]

\* Element i is over with a value.
Returns(r, i, value) ==
    /\ res'[r] = (IF res[r] = "none" THEN value ELSE res[r])
    /\ threw'[r] = threw[r] /\ KeepsAuth(r)

\* Element i is over: it threw, or has returned a value of its own, or has waited
\* for the rest of the chain.
Settles(r, i) ==
    /\ frame'[r] = [frame[r] EXCEPT ![i] = "over"]
    /\ forwarded'[r] = forwarded[r]
    /\ \/ /\ frame[r][i] \in {"entered", "io"} /\ threw'[r] = TRUE /\ KeepsAuth(r)
          /\ cookies'[r] = cookies[r] /\ chain[r][i] \in Handlers
       \/ /\ frame[r][i] = "io" /\ chain[r][i] = "auth" /\ cookies'[r] = cookies[r]
          /\ threw'[r] = TRUE /\ authed'[r] = "thrown"
          /\ headers'[r].bearer = headers[r].bearer
       \/ /\ frame[r][i] \in {"entered", "io"} /\ cookies'[r] = cookies[r]
          /\ \/ chain[r][i] = "captcha" /\ Challenged(r) /\ Returns(r, i, "local")
             \/ chain[r][i] = "geo" /\ Returns(r, i, "none")
             \/ chain[r][i] \in Handlers \ {"proxy"} /\ Returns(r, i, "local")
             \/ chain[r][i] = "proxy" /\ agent.catches /\ Returns(r, i, "local")
       \/ /\ frame[r][i] = "io" /\ chain[r][i] = "proxy" /\ Returns(r, i, "upstream")
          /\ cookies'[r].auth = cookies[r].auth
       \/ /\ frame[r][i] = "next" /\ frame[r][i + 1] = "over"
          /\ \/ ~Migrates(r, i) /\ cookies'[r] = cookies[r]
                /\ \E value \in {"none", "context"} : Returns(r, i, value)
             \/ /\ Migrates(r, i) /\ Returns(r, i, "none")
                /\ cookies'[r] = [cookies[r] EXCEPT !.auth = LegacyId(r)]
             \/ /\ Migrates(r, i) /\ threw'[r] = TRUE /\ KeepsAuth(r)
                /\ cookies'[r] = cookies[r]

Ran(r, i) ==
    /\ Calls(r, i) \/ Leaves(r, i) \/ Waits(r, i) \/ Settles(r, i)
    /\ UNCHANGED <<request, answer>>
    /\ DOMAIN frame' = Request

\* Whatever an element of a chain does is one of those, and of its request only.
LEMMA RunIsOfAKind ==
    ASSUME Typed, NEW r \in Request, NEW i \in Active(r), Run(r, i)
    PROVE  Ran(r, i) /\ \A q \in Request \ {r} : Same(q)
<1> DEFINE Goal == Ran(r, i) /\ \A q \in Request \ {r} : Same(q)
<1>0. /\ DOMAIN frame = Request /\ frame[r] \in [1 .. Len(chain[r]) -> Phases]
      /\ i \in 1 .. Len(chain[r])
      /\ res \in [Request -> Responses] /\ threw \in [Request -> BOOLEAN]
      /\ cookies \in [Request -> [legacy: LegacyCookies, auth: AuthCookies]]
      /\ headers \in [Request -> Headers] /\ forwarded \in [Request -> Headers \cup {None}]
      /\ authed \in [Request -> {"unasked", "session", "nothing", "thrown"}]
      /\ answer \in [Request -> Responses]
    BY ChainOf DEF Typed, TypeOK, Active
<1> USE <1>0 DEF Same, Ran, KeepsAuth, KeepsResult, At, Handlers
<1>1. CASE AfterNext(r, i)
    <2>1. PICK value \in {"none", "context"} : Return(r, i, value)
        BY <1>1 DEF AfterNext
    <2>2. Settles(r, i)
        BY <1>1, <2>1 DEF AfterNext, Return, RestIsOver, Settles, Returns
    <2> QED
        BY <1>1, <2>1, <2>2 DEF AfterNext, Return
<1>2. CASE WithCookies(r, i)
    BY <1>2 DEF WithCookies, CallNext, Calls
<1>3. CASE Challenge(r, i)
    BY <1>3 DEF Challenge, Return, Settles, Returns
<1>4. CASE PassGate(r, i)
    BY <1>4 DEF PassGate, CallNext, Calls
<1>5. CASE BeginMigration(r, i)
    BY <1>5 DEF BeginMigration, CallNext, Calls
<1>6. CASE Migrate(r, i)
    BY <1>6 DEF Migrate, Return, RestIsOver, Settles, Returns
<1>7. CASE MigrationThrows(r, i)
    BY <1>7 DEF MigrationThrows, Throw, RestIsOver, Settles
<1>8. CASE NoGeolocation(r, i)
    BY <1>8 DEF NoGeolocation, CallNext, Calls
<1>9. CASE Geolocation(r, i)
    BY <1>9 DEF Geolocation, Return, Settles, Returns, Headers
<1>10. CASE BotScoring(r, i)
    BY <1>10 DEF BotScoring, Leaves, Headers
<1>11. CASE NoSessionCookie(r, i)
    BY <1>11 DEF NoSessionCookie, CallNext, Calls
<1>12. CASE Authenticate(r, i)
    BY <1>12 DEF Authenticate, AwaitIO, Waits
<1>13. CASE Authenticated(r, i)
    BY <1>13 DEF Authenticated, CallNext, Calls, Headers
<1>14. CASE NotAuthenticated(r, i)
    BY <1>14 DEF NotAuthenticated, CallNext, Calls
<1>15. CASE AuthenticateThrows(r, i)
    BY <1>15 DEF AuthenticateThrows, Throw, Settles
<1>16. CASE Forward(r, i)
    BY <1>16 DEF Forward, AwaitIO, Waits
<1>17. CASE OriginAnswers(r, i)
    <2>1. /\ \A q \in Request \ {r} : cookies'[q] = cookies[q]
          /\ cookies'[r].auth = cookies[r].auth
        BY <1>17 DEF OriginAnswers
    <2> QED
        BY <1>17, <2>1 DEF OriginAnswers, Return, Settles, Returns
<1>18. CASE OriginFails(r, i)
    BY <1>18 DEF OriginFails, Return, Throw, Settles, Returns
<1>19. CASE HandleLogout(r, i)
    <2>1. CASE req[r].jar[agent.cookieKey] = None
        BY <1>19, <2>1 DEF HandleLogout, Return, Settles, Returns
    <2>2. CASE req[r].jar[agent.cookieKey] # None
        BY <1>19, <2>2 DEF HandleLogout, AwaitIO, Waits
    <2> QED
        BY <2>1, <2>2
<1>20. CASE HandleLogin(r, i)
    BY <1>20 DEF HandleLogin, Return, Throw, Settles, Returns
<1>21. CASE HandleCallback(r, i)
    BY <1>21 DEF HandleCallback, AwaitIO, Waits
<1>22. CASE HandlerAnswers(r, i)
    BY <1>22 DEF HandlerAnswers, Return, Settles, Returns
<1> QED
    BY <1>1, <1>2, <1>3, <1>4, <1>5, <1>6, <1>7, <1>8, <1>9, <1>10, <1>11, <1>12,
       <1>13, <1>14, <1>15, <1>16, <1>17, <1>18, <1>19, <1>20, <1>21, <1>22 DEF Run

-----------------------------------------------------------------------------
(* Types *)

LEMMA InitTyped == Init => Typed
<1> SUFFICES ASSUME Init PROVE Typed
    OBVIOUS
<1>1. agent \in Agents /\ agent \in Configuration /\ req \in [Request -> Incoming]
    BY PipelineAssumption DEF Init
<1>2. ASSUME NEW r \in Request
      PROVE  /\ chain[r] = Chain(req[r].route)
             /\ frame[r] \in [Elements(r) -> Phases]
    BY DEF Init, Phases
<1>3. cookies \in [Request -> [legacy: LegacyCookies, auth: AuthCookies]]
    <2>1. NotSet \in LegacyCookies /\ None \in AuthCookies
        BY DEF NotSet, LegacyCookies, AuthCookies
    <2> QED
        BY <2>1 DEF Init
<1>4. /\ res \in [Request -> Responses] /\ headers \in [Request -> Headers]
      /\ forwarded \in [Request -> Headers \cup {None}]
      /\ authed \in [Request -> {"unasked", "session", "nothing", "thrown"}]
      /\ threw \in [Request -> BOOLEAN] /\ ended \subseteq Session
      /\ answer \in [Request -> Responses] /\ DOMAIN frame = Request
    BY DEF Init, Responses, Headers
<1> QED
    BY <1>1, <1>2, <1>3, <1>4 DEF Typed, TypeOK

\* The values that a call of an element leaves are of their types.
LEMMA RunTyped ==
    ASSUME Typed, NEW r \in Request, NEW i \in Active(r), Run(r, i)
    PROVE  /\ res' \in [Request -> Responses] /\ threw' \in [Request -> BOOLEAN]
           /\ cookies' \in [Request -> [legacy: LegacyCookies, auth: AuthCookies]]
           /\ headers' \in [Request -> Headers]
           /\ forwarded' \in [Request -> Headers \cup {None}]
           /\ authed' \in [Request -> {"unasked", "session", "nothing", "thrown"}]
           /\ ended' \subseteq Session
<1>0. /\ res \in [Request -> Responses] /\ threw \in [Request -> BOOLEAN]
      /\ cookies \in [Request -> [legacy: LegacyCookies, auth: AuthCookies]]
      /\ headers \in [Request -> Headers]
      /\ forwarded \in [Request -> Headers \cup {None}]
      /\ authed \in [Request -> {"unasked", "session", "nothing", "thrown"}]
      /\ ended \subseteq Session
    BY DEF Typed, TypeOK
<1>a. /\ SessionOf(r) \in Session \cup {None}
      /\ req[r].jar[agent.cookieKey] \in Session \cup {None}
      /\ "migration" \in agent.extras => LegacyId(r) \in AuthCookies
    BY Values
<1>1. CASE AfterNext(r, i)
    BY <1>0, <1>1 DEF AfterNext, Return, Responses
<1>2. CASE \/ WithCookies(r, i) \/ BeginMigration(r, i) \/ NoGeolocation(r, i)
           \/ NoSessionCookie(r, i) \/ Authenticate(r, i) \/ PassGate(r, i)
           \/ HandleCallback(r, i)
    BY <1>0, <1>2 DEF WithCookies, BeginMigration, NoGeolocation, NoSessionCookie,
                      Authenticate, PassGate, HandleCallback
<1>3. CASE Challenge(r, i) \/ HandlerAnswers(r, i)
    BY <1>0, <1>3 DEF Challenge, HandlerAnswers, Return, Responses
<1>4. CASE Migrate(r, i)
    <2>1. "migration" \in agent.extras
        <3>1. chain[r][i] = "migration" /\ i \in 1 .. Len(chain[r]) /\ agent \in Configuration
            BY <1>4, ChainOf, Values DEF Migrate, Migrates, Active
        <3>2. ChainProperties(chain[r], Len(chain[r]), req[r].route)
            BY ChainOf
        <3> QED
            BY <3>1, <3>2 DEF ChainProperties
    <2> QED
        BY <1>0, <1>4, <1>a, <2>1 DEF Migrate, Return, Responses
<1>5. CASE MigrationThrows(r, i)
    BY <1>0, <1>5 DEF MigrationThrows, Throw, Responses
<1>6. CASE Geolocation(r, i)
    BY <1>0, <1>6 DEF Geolocation, Return, Responses, Headers
<1>7. CASE BotScoring(r, i)
    BY <1>0, <1>7 DEF BotScoring, Headers
<1>8. CASE Authenticated(r, i)
    BY <1>0, <1>8, <1>a DEF Authenticated, Headers
<1>9. CASE NotAuthenticated(r, i)
    BY <1>0, <1>9 DEF NotAuthenticated
<1>10. CASE AuthenticateThrows(r, i)
    BY <1>0, <1>10 DEF AuthenticateThrows, Throw, Responses
<1>11. CASE Forward(r, i)
    BY <1>0, <1>11 DEF Forward
<1>12. CASE OriginAnswers(r, i)
    BY <1>0, <1>12 DEF OriginAnswers, Return, Responses
<1>13. CASE OriginFails(r, i)
    BY <1>0, <1>13 DEF OriginFails, Return, Throw, Responses
<1>14. CASE HandleLogout(r, i)
    BY <1>0, <1>14, <1>a DEF HandleLogout, Return, Responses
<1>15. CASE HandleLogin(r, i)
    BY <1>0, <1>15 DEF HandleLogin, Return, Throw, Responses
<1> QED
    BY <1>1, <1>2, <1>3, <1>4, <1>5, <1>6, <1>7, <1>8, <1>9, <1>10, <1>11, <1>12,
       <1>13, <1>14, <1>15 DEF Run

-----------------------------------------------------------------------------
(* The inductive invariant, request by request *)

\* Neither of Cloudflare's middlewares is there: every element waits for the rest.
Waiting == ~agent.geolocation /\ ~agent.botScoring

\* The calls are nested: nothing behind an element that has not called next() is
\* called, and what is over is over with everything behind it, unless the bot
\* middleware has left it behind.  A handler calls no next().
Nested(r) ==
    /\ \A i, j \in Elements(r) : i < j =>
          /\ frame[r][i] \in {"new", "entered", "io"} => frame[r][j] = "new"
          /\ ~agent.botScoring /\ frame[r][i] = "over" => frame[r][j] \in {"new", "over"}
    /\ \A i \in Elements(r) : chain[r][i] \in Handlers => frame[r][i] # "next"
    /\ answer[r] # "none" => frame[r][1] = "over"

\* The origin may know, and knows, what authenticate() has answered.
MayForward(r) == authed[r] # "thrown" /\ (authed[r] = "unasked" => SessionOf(r) = None)

Forwarding(r) ==
    /\ headers[r].bearer = IF authed[r] = "session" THEN SessionOf(r) ELSE None
    /\ forwarded[r] # None => forwarded[r].bearer = headers[r].bearer /\ MayForward(r)
    /\ \A i \in Elements(r) : chain[r][i] = "auth" /\ frame[r][i] \in {"new", "entered", "io"} =>
          authed[r] = "unasked" /\ forwarded[r] = None
    /\ \A i \in Elements(r) : chain[r][i] = "proxy" /\ frame[r][i] = "entered" => MayForward(r)

\* A challenged request gets no further than the gate; where every element waits
\* what is over has left a response, and everything behind it is over too.
Answering(r) ==
    /\ Challenged(r) => /\ frame[r][2] # "next"
                        /\ \A j \in Elements(r) : j > 2 => frame[r][j] \in {"new", "over"}
    /\ Waiting /\ ~threw[r] =>
          /\ res[r] \in {"none"} \cup LastAnswers(r)
          /\ answer[r] # "none" => answer[r] \in LastAnswers(r)
          /\ \A i \in Elements(r) : frame[r][i] = "over" =>
                /\ res[r] # "none"
                /\ ~Challenged(r) => \A j \in Elements(r) : i < j => frame[r][j] = "over"

\* The session cookie is set when the migration is over, to what it was then.
Migrating(r) ==
    "migration" \in agent.extras =>
        /\ SessionOf(r) # None => cookies[r].auth = None
        /\ Challenged(r) => cookies[r].legacy = NotSet
        /\ ~threw[r] /\ ~Challenged(r) /\ SessionOf(r) = None =>
              \A i \in Elements(r) : chain[r][i] = "migration" /\ frame[r][i] = "over" =>
                  cookies[r].auth = LegacyId(r)

Inv(r) == Nested(r) /\ Forwarding(r) /\ Answering(r) /\ Migrating(r)

IInv == Typed /\ \A r \in Request : Inv(r)

LEMMA InitInv == Init => IInv
<1> SUFFICES ASSUME Init PROVE IInv
    OBVIOUS
<1>1. Typed
    BY InitTyped
<1>2. ASSUME NEW r \in Request PROVE Inv(r)
    <2>1. /\ \A i \in Elements(r) : frame[r][i] = "new"
          /\ answer[r] = "none" /\ headers[r].bearer = None /\ forwarded[r] = None
          /\ authed[r] = "unasked" /\ res[r] = "none" /\ cookies[r].legacy = NotSet
          /\ cookies[r].auth = None
        BY DEF Init
    <2>2. ChainProperties(chain[r], Len(chain[r]), req[r].route) /\ Elements(r) = 1 .. Len(chain[r])
        BY <1>1, ChainOf
    <2>3. Nested(r) /\ Forwarding(r)
        BY <2>1 DEF Nested, Forwarding
    <2>4. Challenged(r) => frame[r][2] = "new"
        BY <2>1, <2>2 DEF ChainProperties, Challenged
    <2>5. Answering(r) /\ Migrating(r)
        BY <2>1, <2>4 DEF Answering, Migrating
    <2> QED
        BY <2>3, <2>5 DEF Inv
<1> QED
    BY <1>1, <1>2 DEF IInv

\* A step of another request, or none, leaves a request's part as it is.
LEMMA SameKeepsInv ==
    ASSUME NEW q \in Request, Inv(q), Same(q), UNCHANGED request
    PROVE  Inv(q)'
<1>1. /\ Nested(q)' <=> Nested(q)
      /\ Forwarding(q)' <=> Forwarding(q)
    BY DEF Nested, Forwarding, Same, request, Elements, MayForward, SessionOf
<1>2. /\ Challenged(q)' <=> Challenged(q)
      /\ LastAnswers(q)' = LastAnswers(q)
      /\ LegacyId(q)' = LegacyId(q)
      /\ SessionOf(q)' = SessionOf(q)
      /\ Elements(q)' = Elements(q)
      /\ Waiting' <=> Waiting
    BY DEF Same, request, Challenged, LastAnswers, LegacyId, SessionOf, Elements, Waiting
<1>3. Answering(q)' <=> Answering(q)
    BY <1>2 DEF Answering, Same, request
<1>4. Migrating(q)' <=> Migrating(q)
    BY <1>2 DEF Migrating, Same, request
<1> QED
    BY <1>1, <1>3, <1>4 DEF Inv

\* What a chain and its frames are, in the terms of the steps.
LEMMA Facts ==
    ASSUME Typed, NEW r \in Request, NEW i \in Active(r), Ran(r, i)
    PROVE  /\ Elements(r) = 1 .. Len(chain[r]) /\ Elements(r)' = Elements(r)
           /\ frame[r] \in [1 .. Len(chain[r]) -> Phases]
           /\ Len(chain[r]) \in Nat /\ i \in 1 .. Len(chain[r])
           /\ ChainProperties(chain[r], Len(chain[r]), req[r].route)
           /\ chain' = chain /\ agent' = agent /\ req' = req /\ answer' = answer
           /\ SessionOf(r)' = SessionOf(r)
           /\ Challenged(r)' <=> Challenged(r)
           /\ LastAnswers(r)' = LastAnswers(r)
           /\ Waiting' <=> Waiting
<1>1. chain' = chain /\ agent' = agent /\ req' = req /\ answer' = answer
    BY DEF Ran, request
<1>2. /\ Elements(r) = 1 .. Len(chain[r]) /\ frame[r] \in [1 .. Len(chain[r]) -> Phases]
      /\ ChainProperties(chain[r], Len(chain[r]), req[r].route)
    BY ChainOf
<1>3. Elements(r)' = Elements(r) /\ SessionOf(r)' = SessionOf(r)
    BY <1>1 DEF Elements, SessionOf
<1>4. /\ Challenged(r)' <=> Challenged(r)
      /\ LastAnswers(r)' = LastAnswers(r)
      /\ Waiting' <=> Waiting
    BY <1>1 DEF Challenged, LastAnswers, Waiting
<1>5. i \in 1 .. Len(chain[r]) /\ Len(chain[r]) \in Nat
    BY <1>2 DEF Active, ChainProperties
<1> QED
    BY <1>1, <1>2, <1>3, <1>4, <1>5

LEMMA RunNested ==
    ASSUME Typed, NEW r \in Request, NEW i \in Active(r), Ran(r, i), Nested(r)
    PROVE  Nested(r)'
<1> DEFINE F == frame[r]
           G == frame'[r]
           n == Len(chain[r])
           c == chain[r]
<1>0. /\ Elements(r) = 1 .. n /\ Elements(r)' = 1 .. n /\ F \in [1 .. n -> Phases]
      /\ n \in Nat /\ i \in 1 .. n /\ chain' = chain /\ agent' = agent /\ answer' = answer
      /\ ChainProperties(c, n, req[r].route)
    BY Facts
<1>1. /\ \A k, j \in 1 .. n : k < j =>
            /\ F[k] \in {"new", "entered", "io"} => F[j] = "new"
            /\ ~agent.botScoring /\ F[k] = "over" => F[j] \in {"new", "over"}
      /\ \A k \in 1 .. n : c[k] \in Handlers => F[k] # "next"
      /\ answer[r] # "none" => F[1] = "over"
    BY <1>0 DEF Nested
<1>2. /\ \A k \in 1 .. n : c[k] \in Handlers <=> k = n
      /\ \A k \in 1 .. n : c[k] = "bot" => agent.botScoring
      /\ n >= 2
    BY <1>0 DEF ChainProperties
<1>3. SUFFICES /\ \A k, j \in 1 .. n : k < j =>
                     /\ G[k] \in {"new", "entered", "io"} => G[j] = "new"
                     /\ ~agent.botScoring /\ G[k] = "over" => G[j] \in {"new", "over"}
               /\ \A k \in 1 .. n : c[k] \in Handlers => G[k] # "next"
               /\ answer[r] # "none" => G[1] = "over"
    BY <1>0 DEF Nested
<1>4. CASE Calls(r, i)
    <2>1. G = [F EXCEPT ![i] = "next", ![i + 1] = "entered"] /\ c[i] \notin Handlers
          /\ F[i] \in {"entered", "io"}
        BY <1>4 DEF Calls
    <2> HIDE DEF F, G, c, n
    <2> QED
        BY <1>0, <1>1, <1>2, <2>1
<1>5. CASE Leaves(r, i)
    <2>1. G = [F EXCEPT ![i] = "over", ![i + 1] = "entered"] /\ c[i] = "bot"
          /\ F[i] = "entered"
        BY <1>5 DEF Leaves
    <2>2. "bot" \notin Handlers
        BY DEF Handlers
    <2> HIDE DEF F, G, c, n
    <2> QED
        BY <1>0, <1>1, <1>2, <2>1, <2>2
<1>6. CASE Waits(r, i)
    <2>1. G = [F EXCEPT ![i] = "io"] /\ F[i] = "entered"
        BY <1>6 DEF Waits
    <2> HIDE DEF F, G, c, n
    <2> QED
        BY <1>0, <1>1, <1>2, <2>1
<1>7. CASE Settles(r, i)
    <2>1. /\ G = [F EXCEPT ![i] = "over"]
          /\ F[i] \in {"entered", "io"} \/ (F[i] = "next" /\ F[i + 1] = "over")
        BY <1>7 DEF Settles
    <2> HIDE DEF F, G, c, n
    <2> QED
        BY <1>0, <1>1, <1>2, <2>1
<1> QED
    BY <1>4, <1>5, <1>6, <1>7 DEF Ran

LEMMA RunForwarding ==
    ASSUME Typed, NEW r \in Request, NEW i \in Active(r), Ran(r, i), Nested(r), Forwarding(r)
    PROVE  Forwarding(r)'
<1> DEFINE F == frame[r]
           G == frame'[r]
           n == Len(chain[r])
           c == chain[r]
<1>0. /\ Elements(r) = 1 .. n /\ Elements(r)' = 1 .. n /\ F \in [1 .. n -> Phases]
      /\ n \in Nat /\ i \in 1 .. n /\ chain' = chain /\ SessionOf(r)' = SessionOf(r)
      /\ ChainProperties(c, n, req[r].route)
    BY Facts
<1>1. /\ \A k \in 1 .. n : c[k] = "auth" <=> k = n - 1 /\ req[r].route = "proxy"
      /\ \A k \in 1 .. n : c[k] \in Handlers <=> k = n
      /\ c[n] = req[r].route /\ "proxy" \in Handlers /\ "auth" \notin Handlers /\ n >= 2
      /\ \A k \in 1 .. n : c[k] = "proxy" <=> k = n /\ req[r].route = "proxy"
    BY <1>0 DEF ChainProperties, Handlers
<1>2. \A k, j \in 1 .. n : k < j /\ F[k] \in {"new", "entered", "io"} => F[j] = "new"
    BY <1>0 DEF Nested
<1>3. /\ headers[r].bearer = IF authed[r] = "session" THEN SessionOf(r) ELSE None
      /\ forwarded[r] # None => forwarded[r].bearer = headers[r].bearer /\ MayForward(r)
      /\ \A k \in 1 .. n : c[k] = "auth" /\ F[k] \in {"new", "entered", "io"} =>
            authed[r] = "unasked" /\ forwarded[r] = None
      /\ \A k \in 1 .. n : c[k] = "proxy" /\ F[k] = "entered" => MayForward(r)
    BY <1>0 DEF Forwarding
<1>4. MayForward(r)' <=> authed'[r] # "thrown" /\ (authed'[r] = "unasked" => SessionOf(r) = None)
    BY <1>0 DEF MayForward
<1>5. SUFFICES
      /\ headers'[r].bearer = IF authed'[r] = "session" THEN SessionOf(r) ELSE None
      /\ forwarded'[r] # None => forwarded'[r].bearer = headers'[r].bearer /\ MayForward(r)'
      /\ \A k \in 1 .. n : c[k] = "auth" /\ G[k] \in {"new", "entered", "io"} =>
            authed'[r] = "unasked" /\ forwarded'[r] = None
      /\ \A k \in 1 .. n : c[k] = "proxy" /\ G[k] = "entered" => MayForward(r)'
    BY <1>0 DEF Forwarding
<1>6. CASE Calls(r, i)
    <2>1. /\ G = [F EXCEPT ![i] = "next", ![i + 1] = "entered"] /\ c[i] \notin Handlers
          /\ F[i] \in {"entered", "io"} /\ forwarded'[r] = forwarded[r]
        BY <1>6 DEF Calls
    <2>2. CASE c[i] # "auth" /\ KeepsAuth(r)
        <3> USE DEF KeepsAuth
        <3>1. MayForward(r)' <=> MayForward(r)
            BY <1>4, <2>2 DEF MayForward
        <3>2. \A k \in 1 .. n : c[k] \in {"auth", "proxy"} => k # i
            BY <1>1, <2>1, <2>2
        <3>3. \A k \in 1 .. n : c[k] = "auth" /\ G[k] \in {"new", "entered", "io"} =>
                  F[k] \in {"new", "entered", "io"}
            BY <1>0, <1>2, <2>1, <3>2
        <3>4. \A k \in 1 .. n : c[k] = "proxy" => G[k] = F[k]
            BY <1>0, <1>1, <2>1, <2>2, <3>2
        <3> HIDE DEF F, G, c, n
        <3> QED
            BY <1>3, <2>1, <2>2, <3>1, <3>3, <3>4
    <2>3. CASE c[i] = "auth" /\ frame[r][i] = "entered" /\ SessionOf(r) = None /\ KeepsAuth(r)
        <3>1. authed'[r] = "unasked" /\ forwarded'[r] = None /\ MayForward(r)'
              /\ headers'[r].bearer = headers[r].bearer
            BY <1>0, <1>3, <1>4, <2>1, <2>3 DEF KeepsAuth
        <3> QED
            BY <1>0, <1>3, <2>1, <2>3, <3>1
    <2>4. CASE /\ chain[r][i] = "auth" /\ frame[r][i] = "io"
               /\ \/ authed'[r] = "session" /\ headers'[r].bearer = SessionOf(r)
                  \/ authed'[r] = "nothing" /\ headers'[r].bearer = headers[r].bearer
        <3>1. MayForward(r)' /\ forwarded'[r] = None
            BY <1>0, <1>3, <1>4, <2>1, <2>4
        <3>2. headers'[r].bearer = IF authed'[r] = "session" THEN SessionOf(r) ELSE None
            BY <1>0, <1>3, <2>4
        <3>3. \A k \in 1 .. n : c[k] = "auth" => k = i /\ G[k] = "next"
            BY <1>0, <1>1, <2>1, <2>4
        <3> HIDE DEF F, G, c, n
        <3> QED
            BY <3>1, <3>2, <3>3
    <2> QED
        BY <1>6, <2>2, <2>3, <2>4 DEF Calls
<1>7. CASE Leaves(r, i)
    <2>1. /\ G = [F EXCEPT ![i] = "over", ![i + 1] = "entered"] /\ c[i] = "bot"
          /\ F[i] = "entered" /\ forwarded'[r] = forwarded[r]
          /\ authed'[r] = authed[r] /\ headers'[r].bearer = headers[r].bearer
        BY <1>7 DEF Leaves, KeepsAuth
    <2>2. i # n /\ (req[r].route = "proxy" => i # n - 1) /\ "bot" \notin Handlers
        BY <1>0, <1>1, <2>1 DEF Handlers
    <2>3. MayForward(r)' <=> MayForward(r)
        BY <1>4, <2>1 DEF MayForward
    <2>4. \A k \in 1 .. n : c[k] = "auth" /\ G[k] \in {"new", "entered", "io"} =>
              F[k] \in {"new", "entered", "io"}
        BY <1>0, <1>2, <2>1
    <2>5. \A k \in 1 .. n : c[k] = "proxy" => G[k] = F[k]
        BY <1>0, <1>1, <2>1, <2>2
    <2> HIDE DEF F, G, c, n
    <2> QED
        BY <1>3, <2>1, <2>3, <2>4, <2>5
<1>8. CASE Waits(r, i)
    <2>1. /\ G = [F EXCEPT ![i] = "io"] /\ F[i] = "entered"
          /\ authed'[r] = authed[r] /\ headers'[r].bearer = headers[r].bearer
          /\ \/ forwarded'[r] = forwarded[r]
             \/ c[i] = "proxy" /\ forwarded'[r] = headers[r]
        BY <1>8 DEF Waits, KeepsAuth
    <2>2. MayForward(r)' <=> MayForward(r)
        BY <1>4, <2>1 DEF MayForward
    <2>3. /\ \A k \in 1 .. n : G[k] \in {"new", "entered", "io"} => F[k] \in {"new", "entered", "io"}
          /\ \A k \in 1 .. n : G[k] = "entered" => F[k] = "entered"
        BY <1>0, <2>1
    <2>4. CASE forwarded'[r] = forwarded[r]
        <3> HIDE DEF F, G, c, n
        <3> QED
            BY <1>3, <2>1, <2>2, <2>3, <2>4
    <2>5. CASE c[i] = "proxy" /\ forwarded'[r] = headers[r]
        <3>1. MayForward(r)
            BY <1>0, <1>3, <2>1, <2>5
        <3>2. \A k \in 1 .. n : c[k] = "auth" => F[k] \notin {"new", "entered", "io"}
            <4>1. i = n /\ F[n] # "new"
                BY <1>0, <1>1, <2>1, <2>5
            <4>2. \A k \in 1 .. n : c[k] = "auth" => k < n
                BY <1>0, <1>1
            <4> QED
                BY <1>0, <1>2, <4>1, <4>2
        <3> HIDE DEF F, G, c, n
        <3> QED
            BY <1>3, <2>1, <2>2, <2>3, <2>5, <3>1, <3>2
    <2> QED
        BY <2>1, <2>4, <2>5
<1>9. CASE Settles(r, i)
    <2>1. /\ G = [F EXCEPT ![i] = "over"] /\ forwarded'[r] = forwarded[r]
          /\ headers'[r].bearer = headers[r].bearer
          /\ \/ authed'[r] = authed[r]
             \/ c[i] = "auth" /\ F[i] = "io" /\ authed'[r] = "thrown"
        BY <1>9 DEF Settles, KeepsAuth, Returns
    <2>2. \A k \in 1 .. n : IF k = i THEN G[k] = "over" ELSE G[k] = F[k]
        BY <1>0, <2>1
    <2>3. CASE authed'[r] = authed[r]
        <3>1. MayForward(r)' <=> MayForward(r)
            BY <1>4, <2>3 DEF MayForward
        <3> HIDE DEF F, G, c, n
        <3> QED
            BY <1>3, <2>1, <2>2, <2>3, <3>1
    <2>4. CASE c[i] = "auth" /\ F[i] = "io" /\ authed'[r] = "thrown"
        <3>1. authed[r] = "unasked" /\ forwarded[r] = None
            BY <1>0, <1>3, <2>4
        <3>2. \A k \in 1 .. n : /\ c[k] = "auth" => k = i
                                /\ c[k] = "proxy" => k > i
            BY <1>0, <1>1, <2>4
        <3>3. \A k \in 1 .. n : c[k] = "proxy" => F[k] = "new" /\ k # i
            BY <1>0, <1>2, <2>4, <3>2
        <3> HIDE DEF F, G, c, n
        <3> QED
            BY <1>3, <2>1, <2>2, <2>4, <3>1, <3>2, <3>3
    <2> QED
        BY <2>1, <2>3, <2>4
<1> QED
    BY <1>6, <1>7, <1>8, <1>9 DEF Ran

\* A challenged request stays in front of the gate.
LEMMA RunChallenged ==
    ASSUME Typed, NEW r \in Request, NEW i \in Active(r), Ran(r, i), Answering(r), Challenged(r)
    PROVE  /\ i <= 2
           /\ frame'[r][2] # "next"
           /\ \A j \in Elements(r) : j > 2 => frame'[r][j] \in {"new", "over"}
<1> DEFINE F == frame[r]
           G == frame'[r]
           n == Len(chain[r])
           c == chain[r]
<1>0. /\ Elements(r) = 1 .. n /\ F \in [1 .. n -> Phases] /\ n \in Nat /\ i \in 1 .. n
      /\ ChainProperties(c, n, req[r].route) /\ F[i] \notin {"new", "over"}
    BY Facts DEF Active
<1>1. n > 2 /\ c[1] = "cookies" /\ c[2] = "captcha"
    BY <1>0 DEF ChainProperties, Challenged
<1>2. F[2] # "next" /\ \A j \in 1 .. n : j > 2 => F[j] \in {"new", "over"}
    BY <1>0 DEF Answering
<1>3. i \in {1, 2}
    BY <1>0, <1>2
<1>4. SUFFICES G[2] # "next" /\ \A j \in 1 .. n : j > 2 => G[j] \in {"new", "over"}
    BY <1>0, <1>3
<1>5. CASE Calls(r, i)
    <2>1. i = 1 /\ G = [F EXCEPT ![1] = "next", ![2] = "entered"]
        BY <1>1, <1>3, <1>5 DEF Calls
    <2> HIDE DEF F, G, c, n
    <2> QED
        BY <1>0, <1>1, <1>2, <2>1
<1>6. CASE Leaves(r, i) \/ Waits(r, i)
    BY <1>1, <1>3, <1>6 DEF Leaves, Waits, Handlers
<1>7. CASE Settles(r, i)
    <2>1. G = [F EXCEPT ![i] = "over"]
        BY <1>7 DEF Settles
    <2> HIDE DEF F, G, c, n
    <2> QED
        BY <1>0, <1>1, <1>2, <2>1
<1> QED
    BY <1>5, <1>6, <1>7 DEF Ran

LEMMA RunAnswering ==
    ASSUME Typed, NEW r \in Request, NEW i \in Active(r), Ran(r, i), Nested(r), Answering(r)
    PROVE  Answering(r)'
<1> DEFINE F == frame[r]
           G == frame'[r]
           n == Len(chain[r])
           c == chain[r]
           L == LastAnswers(r)
           Ch == Challenged(r)
<1>0. /\ Elements(r) = 1 .. n /\ Elements(r)' = 1 .. n /\ F \in [1 .. n -> Phases]
      /\ n \in Nat /\ i \in 1 .. n
      /\ ChainProperties(c, n, req[r].route) /\ F[i] \notin {"new", "over"}
      /\ chain' = chain /\ agent' = agent /\ req' = req /\ answer' = answer
      /\ Challenged(r)' <=> Ch
      /\ LastAnswers(r)' = L
      /\ Waiting' <=> Waiting
    BY Facts DEF Active
<1>1. Ch => /\ i <= 2 /\ G[2] # "next"
            /\ \A j \in 1 .. n : j > 2 => G[j] \in {"new", "over"}
    BY <1>0, RunChallenged
<1>2. SUFFICES ASSUME Waiting, ~threw'[r]
               PROVE  /\ res'[r] \in {"none"} \cup L
                      /\ \A k \in 1 .. n : G[k] = "over" =>
                            /\ res'[r] # "none"
                            /\ ~Ch => \A j \in 1 .. n : k < j => G[j] = "over"
                      /\ answer[r] # "none" => answer[r] \in L
    BY <1>0, <1>1 DEF Answering
<1>3. ~threw[r]
    BY <1>2 DEF Ran, Calls, Leaves, Waits, Settles, KeepsResult, Returns
<1>4. /\ res[r] \in {"none"} \cup L
      /\ answer[r] # "none" => answer[r] \in L
      /\ \A k \in 1 .. n : F[k] = "over" =>
            /\ res[r] # "none"
            /\ ~Ch => \A j \in 1 .. n : k < j => F[j] = "over"
    BY <1>0, <1>2, <1>3 DEF Answering
<1>5. /\ \A k, j \in 1 .. n : k < j /\ F[k] \in {"entered", "io"} => F[j] = "new"
      /\ \A k \in 1 .. n : c[k] \in Handlers => F[k] # "next"
    BY <1>0 DEF Nested
<1>6. /\ \A k \in 1 .. n : c[k] \in Handlers <=> k = n
      /\ \A k \in 1 .. n : c[k] \notin {"geo", "bot"}
      /\ c[n] = req[r].route
      /\ Ch => n > 2
    BY <1>0, <1>2 DEF ChainProperties, Waiting, Challenged
<1>7. CASE Calls(r, i) \/ Waits(r, i)
    <2>1. /\ F[i] \in {"entered", "io"} /\ res'[r] = res[r]
          /\ \/ G = [F EXCEPT ![i] = "next", ![i + 1] = "entered"]
             \/ G = [F EXCEPT ![i] = "io"]
        BY <1>7 DEF Calls, Waits, KeepsResult
    <2>2. \A k \in 1 .. n : G[k] = "over" <=> F[k] = "over"
        <3> HIDE DEF F, G, c, n
        <3> QED
            BY <1>0, <1>5, <2>1
    <2> HIDE DEF F, G, c, n, L, Ch
    <2> QED
        BY <1>4, <2>1, <2>2
<1>8. CASE Settles(r, i)
    <2>1. /\ G = [F EXCEPT ![i] = "over"]
          /\ \/ /\ F[i] \in {"entered", "io"}
                /\ \/ c[i] = "captcha" /\ Ch /\ Returns(r, i, "local")
                   \/ c[i] \in Handlers \ {"proxy"} /\ Returns(r, i, "local")
                   \/ c[i] = "proxy" /\ agent.catches /\ Returns(r, i, "local")
                   \/ c[i] = "proxy" /\ Returns(r, i, "upstream")
             \/ /\ F[i] = "next" /\ F[i + 1] = "over"
                /\ \E value \in {"none", "context"} : Returns(r, i, value)
        BY <1>0, <1>2, <1>6, <1>8 DEF Settles, Handlers
    <2>2. \A k \in 1 .. n : G[k] = IF k = i THEN "over" ELSE F[k]
        BY <1>0, <2>1
    <2>3. CASE F[i] \in {"entered", "io"}
        <3>1. \/ c[i] = "captcha" /\ Ch
              \/ c[i] \in Handlers /\ i = n /\ ~Ch
              \/ c[i] \in Handlers /\ i = n /\ Ch
            BY <1>0, <1>6, <2>1, <2>3 DEF Handlers
        <3>2. c[i] \in Handlers => ~Ch
            BY <1>0, <1>1, <1>6
        <3>3. res'[r] # "none" /\ res'[r] \in L
            <4>1. \/ res[r] # "none" /\ res'[r] = res[r]
                  \/ res[r] = "none" /\ res'[r] = "local" /\ c[i] \notin {"proxy"}
                  \/ res[r] = "none" /\ res'[r] = "local" /\ c[i] = "proxy" /\ agent.catches
                  \/ res[r] = "none" /\ res'[r] = "upstream" /\ c[i] = "proxy"
                BY <2>1, <2>3 DEF Returns
            <4>2. /\ c[i] \notin {"proxy"} => "local" \in L
                  /\ c[i] = "proxy" /\ agent.catches => "local" \in L
                  /\ c[i] = "proxy" => "upstream" \in L
                BY <1>6, <3>1, <3>2 DEF LastAnswers, Handlers
            <4> QED
                BY <1>4, <4>1, <4>2
        <3>4. ~Ch => i = n
            BY <3>1
        <3> HIDE DEF F, G, c, n, L, Ch
        <3> QED
            BY <1>0, <1>4, <2>2, <3>3, <3>4
    <2>4. CASE F[i] = "next"
        <3>1. i + 1 \in 1 .. n /\ F[i + 1] = "over"
            BY <1>0, <1>5, <1>6, <2>1, <2>4
        <3>2. res[r] # "none"
            BY <1>4, <3>1
        <3>3. res'[r] = res[r]
            BY <2>1, <2>4, <3>2 DEF Returns
        <3>4. ~Ch => \A j \in 1 .. n : i < j => F[j] = "over"
            <4> HIDE DEF F, G, c, n, L, Ch
            <4>1. \A j \in 1 .. n : i < j => j = i + 1 \/ i + 1 < j
                BY <1>0
            <4> QED
                BY <1>4, <3>1, <4>1
        <3> HIDE DEF F, G, c, n, L, Ch
        <3> QED
            BY <1>4, <2>2, <3>2, <3>3, <3>4
    <2> QED
        BY <2>1, <2>3, <2>4
<1>9. CASE Leaves(r, i)
    BY <1>0, <1>6, <1>9 DEF Leaves
<1> QED
    BY <1>7, <1>8, <1>9 DEF Ran

LEMMA RunMigrating ==
    ASSUME Typed, NEW r \in Request, NEW i \in Active(r), Ran(r, i),
           Nested(r), Answering(r), Migrating(r)
    PROVE  Migrating(r)'
<1> DEFINE F == frame[r]
           G == frame'[r]
           n == Len(chain[r])
           c == chain[r]
<1>0. /\ Elements(r) = 1 .. n /\ Elements(r)' = 1 .. n /\ F \in [1 .. n -> Phases]
      /\ n \in Nat /\ i \in 1 .. n
      /\ ChainProperties(c, n, req[r].route) /\ F[i] \notin {"new", "over"}
      /\ chain' = chain /\ agent' = agent /\ req' = req
      /\ Challenged(r)' <=> Challenged(r)
      /\ SessionOf(r)' = SessionOf(r)
    BY Facts DEF Active
<1>1. SUFFICES ASSUME "migration" \in agent.extras PROVE Migrating(r)'
    BY <1>0 DEF Migrating
<1>2. ~agent.botScoring
    BY <1>1, PipelineAssumption DEF Typed, TypeOK
<1>3. \A k \in 1 .. n : c[k] \in Handlers <=> k = n
    BY <1>0 DEF ChainProperties
<1>4. /\ SessionOf(r) # None => cookies[r].auth = None
      /\ Challenged(r) => cookies[r].legacy = NotSet
      /\ ~threw[r] /\ ~Challenged(r) /\ SessionOf(r) = None =>
            \A k \in 1 .. n : c[k] = "migration" /\ F[k] = "over" => cookies[r].auth = LegacyId(r)
    BY <1>0, <1>1 DEF Migrating
<1>5. cookies'[r].legacy = cookies[r].legacy => LegacyId(r)' = LegacyId(r)
    BY <1>0 DEF LegacyId
<1>6. ~threw'[r] => ~threw[r]
    BY DEF Ran, Calls, Leaves, Waits, Settles, KeepsResult, Returns
<1>7. SUFFICES
      /\ SessionOf(r) # None => cookies'[r].auth = None
      /\ Challenged(r) => cookies'[r].legacy = NotSet
      /\ ~threw'[r] /\ ~Challenged(r) /\ SessionOf(r) = None =>
            \A k \in 1 .. n : c[k] = "migration" /\ G[k] = "over" => cookies'[r].auth = LegacyId(r)'
    BY <1>0 DEF Migrating
<1>8. CASE Calls(r, i) \/ Waits(r, i) \/ Leaves(r, i)
    <2>1. /\ cookies'[r] = cookies[r]
          /\ \/ G = [F EXCEPT ![i] = "next", ![i + 1] = "entered"]
             \/ G = [F EXCEPT ![i] = "io"]
             \/ G = [F EXCEPT ![i] = "over", ![i + 1] = "entered"] /\ c[i] = "bot"
        BY <1>8 DEF Calls, Waits, Leaves, KeepsResult
    <2>2. \A k \in 1 .. n : c[k] = "migration" /\ G[k] = "over" => F[k] = "over"
        <3> HIDE DEF F, G, c, n
        <3> QED
            BY <1>0, <2>1
    <2> QED
        BY <1>4, <1>5, <1>6, <2>1, <2>2
<1>9. CASE Settles(r, i)
    <2>1. \A k \in 1 .. n : G[k] = IF k = i THEN "over" ELSE F[k]
        BY <1>0, <1>9 DEF Settles
    <2>2. CASE cookies'[r] = cookies[r] /\ c[i] # "migration"
        <3>1. \A k \in 1 .. n : c[k] = "migration" /\ G[k] = "over" => F[k] = "over"
            BY <2>1, <2>2
        <3> QED
            BY <1>4, <1>5, <1>6, <2>2, <3>1
    <2>3. CASE /\ F[i] = "io" /\ c[i] = "proxy" /\ cookies'[r].auth = cookies[r].auth
        <3>1. i = n
            BY <1>0, <1>3, <2>3 DEF Handlers
        <3>2. ~Challenged(r)
            <4>1. Challenged(r) => n > 2
                BY <1>0 DEF ChainProperties, Challenged
            <4> QED
                BY <1>0, <3>1, <4>1, RunChallenged
        <3>3. \A k \in 1 .. n : k # n /\ F[k] = "over" => F[n] \in {"new", "over"}
            BY <1>0, <1>2 DEF Nested
        <3>4. \A k \in 1 .. n : c[k] = "migration" => k # n
            BY <1>3 DEF Handlers
        <3> QED
            BY <1>0, <1>4, <2>1, <2>3, <3>1, <3>2, <3>3, <3>4
    <2>4. CASE cookies'[r] = cookies[r] /\ c[i] = "migration" /\ ~Migrates(r, i)
        <3>1. SessionOf(r) # None
            BY <2>4 DEF Migrates, SessionOf
        <3> QED
            BY <1>4, <2>4, <3>1
    <2>5. CASE Migrates(r, i) /\ cookies'[r] = [cookies[r] EXCEPT !.auth = LegacyId(r)]
        <3>1. SessionOf(r) = None
            BY <2>5 DEF Migrates, SessionOf
        <3>2. cookies[r] \in [legacy: LegacyCookies, auth: AuthCookies]
            BY DEF Typed, TypeOK
        <3>3. cookies'[r].legacy = cookies[r].legacy /\ cookies'[r].auth = LegacyId(r)
            BY <2>5, <3>2
        <3> QED
            BY <1>4, <1>5, <3>1, <3>3
    <2>6. CASE cookies'[r] = cookies[r] /\ threw'[r] = TRUE
        BY <1>4, <2>6
    <2> QED
        BY <1>9, <2>2, <2>3, <2>4, <2>5, <2>6 DEF Settles, Handlers
<1> QED
    BY <1>8, <1>9 DEF Ran

-----------------------------------------------------------------------------
(* The steps outside of the elements, and the theorems *)

\* What a step has to give for the types to hold after it.
LEMMA TypedNext ==
    ASSUME Typed, UNCHANGED request, DOMAIN frame' = Request,
           \A q \in Request : frame'[q] \in [Elements(q) -> Phases],
           res' \in [Request -> Responses], threw' \in [Request -> BOOLEAN],
           cookies' \in [Request -> [legacy: LegacyCookies, auth: AuthCookies]],
           headers' \in [Request -> Headers],
           forwarded' \in [Request -> Headers \cup {None}],
           authed' \in [Request -> {"unasked", "session", "nothing", "thrown"}],
           ended' \subseteq Session, answer' \in [Request -> Responses]
    PROVE  Typed'
<1>1. UNCHANGED <<agent, req, chain>>
    BY DEF request
<1>2. \A q \in Request : Elements(q)' = Elements(q)
    BY <1>1 DEF Elements
<1>3. \A q \in Request : chain'[q] = Chain(req[q].route)'
    BY <1>1 DEF Typed, TypeOK, Chain, Middlewares
<1>4. Incoming' = Incoming
    BY <1>1 DEF Incoming, Keys, CloudflareRead
<1> QED
    BY <1>1, <1>2, <1>3, <1>4 DEF Typed, TypeOK

LEMMA ArriveKeeps ==
    ASSUME IInv, NEW r \in Request, Arrive(r)
    PROVE  /\ Typed' /\ Inv(r)' /\ \A q \in Request \ {r} : Same(q)
           /\ UNCHANGED request
<1> DEFINE F == frame[r]
           G == frame'[r]
           n == Len(chain[r])
<1>0. /\ Typed /\ Nested(r) /\ Forwarding(r) /\ Answering(r) /\ Migrating(r)
      /\ Elements(r) = 1 .. n /\ F \in [1 .. n -> Phases]
      /\ ChainProperties(chain[r], n, req[r].route)
    BY ChainOf DEF IInv, Inv
<1>1. /\ F[1] = "new" /\ G = [F EXCEPT ![1] = "entered"]
      /\ \A q \in Request \ {r} : frame'[q] = frame[q]
      /\ DOMAIN frame' = Request
      /\ UNCHANGED <<request, cookies, res, headers, forwarded, authed, threw, ended, answer>>
    BY <1>0 DEF Arrive, Typed
<1>2. UNCHANGED <<agent, req, chain>>
    BY <1>1 DEF request
<1>3. /\ Elements(r)' = 1 .. n
      /\ SessionOf(r)' = SessionOf(r)
      /\ Challenged(r)' <=> Challenged(r)
      /\ LastAnswers(r)' = LastAnswers(r)
      /\ LegacyId(r)' = LegacyId(r)
      /\ Waiting' <=> Waiting
      /\ MayForward(r)' <=> MayForward(r)
    BY <1>0, <1>1, <1>2 DEF Elements, SessionOf, Challenged, LastAnswers, LegacyId, Waiting,
                            MayForward
<1>4. n \in Nat /\ n >= 2 /\ (Challenged(r) => n > 2) /\ chain[r][1] = "cookies"
    BY <1>0 DEF ChainProperties, Challenged
<1>5. \A k \in 1 .. n : k # 1 => G[k] = F[k] /\ F[k] = "new"
    BY <1>0, <1>1, <1>4 DEF Nested
<1>6. G[1] = "entered"
    BY <1>0, <1>1, <1>4
<1>7. Nested(r)'
    BY <1>0, <1>1, <1>2, <1>3, <1>5, <1>6 DEF Nested
<1>8. Forwarding(r)'
    BY <1>0, <1>1, <1>2, <1>3, <1>4, <1>5, <1>6 DEF Forwarding
<1>9. Answering(r)'
    <2>1. Challenged(r) => G[2] = "new" /\ \A j \in 1 .. n : j > 2 => G[j] = "new"
        BY <1>4, <1>5
    <2>2. \A k \in 1 .. n : G[k] # "over"
        BY <1>5, <1>6
    <2> QED
        BY <1>0, <1>1, <1>3, <2>1, <2>2 DEF Answering
<1>10. Migrating(r)'
    <2>1. \A k \in 1 .. n : G[k] # "over"
        BY <1>5, <1>6
    <2> QED
        BY <1>0, <1>1, <1>2, <1>3, <2>1 DEF Migrating
<1>11. Typed'
    <2>1. ASSUME NEW q \in Request PROVE frame'[q] \in [Elements(q) -> Phases]
        <3>1. CASE q = r
            BY <1>0, <1>1, <3>1 DEF Phases
        <3>2. CASE q # r
            BY <1>0, <1>1, <3>2 DEF Typed, TypeOK
        <3> QED
            BY <3>1, <3>2
    <2> QED
        BY <1>0, <1>1, <2>1, TypedNext DEF Typed, TypeOK
<1> QED
    BY <1>1, <1>7, <1>8, <1>9, <1>10, <1>11 DEF Same, Inv

LEMMA AnswerKeeps ==
    ASSUME IInv, NEW r \in Request, Answer(r)
    PROVE  /\ Typed' /\ Inv(r)' /\ \A q \in Request \ {r} : Same(q)
           /\ UNCHANGED request
<1> DEFINE F == frame[r]
           n == Len(chain[r])
<1>0. /\ Typed /\ Nested(r) /\ Forwarding(r) /\ Answering(r) /\ Migrating(r)
      /\ Elements(r) = 1 .. n /\ n \in Nat /\ n >= 2
      /\ answer \in [Request -> Responses] /\ res \in [Request -> Responses]
    BY ChainOf DEF IInv, Inv, ChainProperties, Typed, TypeOK
<1>1. /\ F[1] = "over" /\ answer[r] = "none"
      /\ answer' = [answer EXCEPT ![r] = IF res[r] = "none" THEN "error" ELSE res[r]]
      /\ UNCHANGED <<request, cookies, frame, res, headers, forwarded, authed, threw, ended>>
    BY DEF Answer
<1>2. UNCHANGED <<agent, req, chain>>
    BY <1>1 DEF request
<1>3. /\ Elements(r)' = 1 .. n
      /\ SessionOf(r)' = SessionOf(r)
      /\ Challenged(r)' <=> Challenged(r)
      /\ LastAnswers(r)' = LastAnswers(r)
      /\ LegacyId(r)' = LegacyId(r)
      /\ Waiting' <=> Waiting
      /\ MayForward(r)' <=> MayForward(r)
    BY <1>0, <1>1, <1>2 DEF Elements, SessionOf, Challenged, LastAnswers, LegacyId, Waiting,
                            MayForward
<1>4. answer' \in [Request -> Responses] /\ \A q \in Request \ {r} : answer'[q] = answer[q]
    BY <1>0, <1>1 DEF Responses
<1>5. Typed'
    <2>1. \A q \in Request : frame'[q] \in [Elements(q) -> Phases]
        BY <1>0, <1>1 DEF Typed, TypeOK
    <2> QED
        BY <1>0, <1>1, <1>4, <2>1, TypedNext DEF Typed, TypeOK
<1>6. Nested(r)'
    BY <1>0, <1>1, <1>2, <1>3 DEF Nested
<1>7. Forwarding(r)' /\ Migrating(r)'
    BY <1>0, <1>1, <1>2, <1>3 DEF Forwarding, Migrating
<1>8. Waiting /\ ~threw[r] => answer'[r] \in LastAnswers(r)
    <2>1. Waiting /\ ~threw[r] => res[r] # "none" /\ res[r] \in LastAnswers(r)
        BY <1>0, <1>1 DEF Answering
    <2> QED
        BY <1>0, <1>1, <2>1
<1>9. Answering(r)'
    BY <1>0, <1>1, <1>2, <1>3, <1>8 DEF Answering
<1> QED
    BY <1>1, <1>4, <1>5, <1>6, <1>7, <1>9 DEF Same, Inv

\* Only where the bot middleware has left something behind can a request be
\* abandoned: everything is over then.
LEMMA AbandonKeeps ==
    ASSUME IInv, NEW r \in Request, Abandon(r)
    PROVE  /\ Typed' /\ Inv(r)' /\ \A q \in Request \ {r} : Same(q)
           /\ UNCHANGED request
<1> DEFINE F == frame[r]
           G == frame'[r]
           n == Len(chain[r])
<1>0. /\ Typed /\ Nested(r) /\ Forwarding(r) /\ Answering(r) /\ Migrating(r)
      /\ Elements(r) = 1 .. n /\ n \in Nat /\ n >= 2 /\ (Challenged(r) => n > 2)
      /\ F \in [1 .. n -> Phases]
    BY ChainOf DEF IInv, Inv, ChainProperties, Challenged
<1>1. /\ F[1] = "over" /\ \E i \in 1 .. n : F[i] \notin {"new", "over"}
      /\ frame' = [frame EXCEPT ![r] = [i \in Elements(r) |-> "over"]]
      /\ UNCHANGED <<request, cookies, res, headers, forwarded, authed, threw, ended, answer>>
    BY <1>0 DEF Abandon, Active, Nested
<1>2. UNCHANGED <<agent, req, chain>>
    BY <1>1 DEF request
<1>3. agent.botScoring /\ ~Waiting /\ "migration" \notin agent.extras
    <2>1. agent.botScoring
        <3>1. PICK i \in 1 .. n : F[i] \notin {"new", "over"}
            BY <1>1
        <3>2. 1 < i /\ 1 \in 1 .. n
            BY <1>0, <1>1, <3>1
        <3> QED
            BY <1>0, <1>1, <3>1, <3>2 DEF Nested
    <2> QED
        BY <1>0, <2>1, PipelineAssumption DEF Waiting, Typed, TypeOK
<1>4. /\ G = [i \in 1 .. n |-> "over"] /\ DOMAIN frame' = Request
      /\ \A q \in Request \ {r} : frame'[q] = frame[q]
    BY <1>0, <1>1 DEF Typed
<1>5. Typed'
    <2>1. ASSUME NEW q \in Request PROVE frame'[q] \in [Elements(q) -> Phases]
        <3>1. CASE q = r
            BY <1>0, <1>4, <3>1 DEF Phases
        <3>2. CASE q # r
            BY <1>0, <1>4, <3>2 DEF Typed, TypeOK
        <3> QED
            BY <3>1, <3>2
    <2> QED
        BY <1>0, <1>1, <1>4, <2>1, TypedNext DEF Typed, TypeOK
<1>6. /\ Elements(r)' = 1 .. n
      /\ SessionOf(r)' = SessionOf(r)
      /\ Challenged(r)' <=> Challenged(r)
      /\ Waiting' <=> Waiting
      /\ MayForward(r)' <=> MayForward(r)
    BY <1>0, <1>1, <1>2 DEF Elements, SessionOf, Challenged, Waiting, MayForward
<1>7. \A k \in 1 .. n : G[k] = "over"
    BY <1>4
<1>8. Nested(r)'
    BY <1>0, <1>2, <1>3, <1>6, <1>7 DEF Nested
<1>9. Forwarding(r)'
    BY <1>0, <1>1, <1>2, <1>6, <1>7 DEF Forwarding
<1>10. Answering(r)'
    <2>1. Challenged(r) => G[2] = "over"
        BY <1>0, <1>7
    <2> QED
        BY <1>3, <1>6, <1>7, <2>1 DEF Answering
<1>11. Migrating(r)'
    BY <1>2, <1>3 DEF Migrating
<1> QED
    BY <1>1, <1>4, <1>5, <1>8, <1>9, <1>10, <1>11 DEF Same, Inv

LEMMA RunKeeps ==
    ASSUME IInv, NEW r \in Request, NEW i \in Active(r), Run(r, i)
    PROVE  /\ Typed' /\ Inv(r)' /\ \A q \in Request \ {r} : Same(q)
           /\ UNCHANGED request
<1>0. Typed /\ Nested(r) /\ Forwarding(r) /\ Answering(r) /\ Migrating(r)
    BY DEF IInv, Inv
<1>1. Ran(r, i) /\ \A q \in Request \ {r} : Same(q)
    BY <1>0, RunIsOfAKind
<1>2. UNCHANGED request /\ answer' = answer /\ DOMAIN frame' = Request
    BY <1>1 DEF Ran
<1>3. Inv(r)'
    BY <1>0, <1>1, RunNested, RunForwarding, RunAnswering, RunMigrating DEF Inv
<1>4. ASSUME NEW q \in Request PROVE frame'[q] \in [Elements(q) -> Phases]
    <2>1. CASE q = r
        <3>1. Elements(r) = 1 .. Len(chain[r]) /\ frame[r] \in [1 .. Len(chain[r]) -> Phases]
            BY <1>0, ChainOf
        <3>2. \/ frame'[r] = [frame[r] EXCEPT ![i] = "next", ![i + 1] = "entered"]
              \/ frame'[r] = [frame[r] EXCEPT ![i] = "over", ![i + 1] = "entered"]
              \/ frame'[r] = [frame[r] EXCEPT ![i] = "io"]
              \/ frame'[r] = [frame[r] EXCEPT ![i] = "over"]
            BY <1>1 DEF Ran, Calls, Leaves, Waits, Settles
        <3> QED
            BY <2>1, <3>1, <3>2 DEF Phases
    <2>2. CASE q # r
        BY <1>0, <1>1, <2>2 DEF Same, Typed, TypeOK
    <2> QED
        BY <2>1, <2>2
<1>5. Typed'
    BY <1>0, <1>2, <1>4, RunTyped, TypedNext DEF Typed, TypeOK
<1> QED
    BY <1>1, <1>2, <1>3, <1>5

LEMMA NextKeeps == IInv /\ [Next]_vars => IInv'
<1> SUFFICES ASSUME IInv, [Next]_vars PROVE IInv'
    OBVIOUS
<1>1. ASSUME NEW r \in Request, Step(r) PROVE IInv'
    <2>1. /\ Typed' /\ Inv(r)' /\ \A q \in Request \ {r} : Same(q)
          /\ UNCHANGED request
        <3>1. CASE Arrive(r)
            BY <3>1, ArriveKeeps
        <3>2. CASE Answer(r)
            BY <3>2, AnswerKeeps
        <3>3. CASE Abandon(r)
            BY <3>3, AbandonKeeps
        <3>4. ASSUME NEW i \in Active(r), Run(r, i)
              PROVE  /\ Typed' /\ Inv(r)' /\ \A q \in Request \ {r} : Same(q)
                     /\ UNCHANGED request
            BY <3>4, RunKeeps
        <3> QED
            BY <1>1, <3>1, <3>2, <3>3, <3>4 DEF Step
    <2>2. ASSUME NEW q \in Request \ {r} PROVE Inv(q)'
        BY <2>1, SameKeepsInv DEF IInv
    <2> QED
        BY <2>1, <2>2 DEF IInv
<1>2. CASE UNCHANGED vars
    <2>1. UNCHANGED request /\ \A q \in Request : Same(q)
        BY <1>2 DEF vars, request, Same
    <2>2. \A q \in Request : Inv(q)'
        BY <2>1, SameKeepsInv DEF IInv
    <2>3. Typed'
        BY <1>2, <2>1, TypedNext DEF IInv, Typed, TypeOK, vars
    <2> QED
        BY <2>2, <2>3 DEF IInv
<1>3. CASE Next
    BY <1>1, <1>3 DEF Next, Step
<1> QED
    BY <1>2, <1>3

\* Whatever requests come and however they interleave, the invariant holds.
THEOREM InductiveInvariant == Spec => []IInv
<1> QED
    BY InitInv, NextKeeps, PTL DEF Spec

\* The variables hold values of their types (every action of the pipeline).
THEOREM TypeCorrect == Spec => []TypeOK
<1>1. IInv => TypeOK
    BY DEF IInv, Typed
<1> QED
    BY <1>1, InductiveInvariant, PTL

\* The origin gets a request only after authenticate() has answered, with the
\* token of that request's session or with none (AuthSessionMiddleware).
THEOREM ForwardedCorrectly == Spec => []ForwardedAsItsSession
<1>1. IInv => ForwardedAsItsSession
    BY DEF IInv, Inv, Forwarding, MayForward, ForwardedAsItsSession
<1> QED
    BY <1>1, InductiveInvariant, PTL

\* Where every element waits for the rest, a client gets what the handler of its
\* route answered (compose() of the chain).
THEOREM HandlersAnswer == Spec => []AnswerIsTheHandlers
<1>1. IInv => AnswerIsTheHandlers
    BY DEF IInv, Inv, Answering, Waiting, AnswerIsTheHandlers
<1> QED
    BY <1>1, InductiveInvariant, PTL

\* Without the bot middleware nothing runs on once a request is answered.
THEOREM NothingRunsOn == Spec => []NothingOutstanding
<1>1. ASSUME IInv, ~agent.botScoring, NEW r \in Request, answer[r] # "none"
      PROVE  Active(r) = {}
    <2> DEFINE n == Len(chain[r])
    <2>1. Elements(r) = 1 .. n /\ n \in Nat /\ n >= 2 /\ Nested(r)
        BY <1>1, ChainOf DEF IInv, Inv, ChainProperties
    <2>2. frame[r][1] = "over"
        BY <1>1, <2>1 DEF Nested
    <2>3. \A j \in 1 .. n : 1 < j => frame[r][j] \in {"new", "over"}
        BY <1>1, <2>1, <2>2 DEF Nested
    <2> QED
        BY <2>1, <2>2, <2>3 DEF Active
<1>2. IInv => NothingOutstanding
    BY <1>1 DEF NothingOutstanding
<1> QED
    BY <1>2, InductiveInvariant, PTL

\* A browser goes on with the session of its legacy id, as the origin left it
\* (LegacySessionMigrationMiddleware).
THEOREM SessionsMigrate == Spec => []MigratedToTheLegacySession
<1>1. ASSUME IInv, NEW r \in Request, "migration" \in agent.extras,
             answer[r] # "none", ~threw[r], SessionOf(r) = None
      PROVE  /\ Challenged(r) => cookies[r].legacy = NotSet
             /\ ~Challenged(r) => cookies[r].auth = LegacyId(r)
    <2> DEFINE n == Len(chain[r])
    <2>1. /\ Nested(r) /\ Answering(r) /\ Migrating(r)
          /\ ChainProperties(chain[r], n, req[r].route) /\ Elements(r) = 1 .. n
        BY <1>1, ChainOf DEF IInv, Inv
    <2>2. Waiting
        BY <1>1, PipelineAssumption DEF IInv, Typed, TypeOK, Waiting
    <2>3. PICK i \in 2 .. n - 1 : chain[r][i] = "migration"
        BY <1>1, <2>1 DEF ChainProperties
    <2>4. n \in Nat /\ 1 \in 1 .. n /\ i \in 1 .. n /\ 1 < i
        BY <2>1 DEF ChainProperties
    <2>5. frame[r][1] = "over"
        BY <1>1, <2>1 DEF Nested
    <2>6. ~Challenged(r) => frame[r][i] = "over"
        BY <1>1, <2>1, <2>2, <2>4, <2>5 DEF Answering
    <2> QED
        BY <1>1, <2>1, <2>3, <2>4, <2>6 DEF Migrating
<1>2. ASSUME IInv, NEW r \in Request, "migration" \in agent.extras, SessionOf(r) # None
      PROVE  cookies[r].auth = None
    BY <1>2 DEF IInv, Inv, Migrating
<1>3. \A r \in Request : cookies[r].legacy.kind = "plain" => LegacyId(r) = cookies[r].legacy.id
    BY DEF LegacyId
<1>4. \A r \in Request : /\ cookies[r].legacy.kind = "emptied" => LegacyId(r) \notin Session
                         /\ cookies[r].legacy.kind = "unset" => LegacyId(r) = req[r].jar[LegacyKey]
    BY PipelineAssumption DEF LegacyId
<1>5. IInv => MigratedToTheLegacySession
    BY <1>1, <1>2, <1>3, <1>4 DEF MigratedToTheLegacySession, NotSet
<1> QED
    BY <1>5, InductiveInvariant, PTL


-----------------------------------------------------------------------------
(* What a logout ends *)

\* The session that a request's logout would be for.
Named(r) == req[r].jar[agent.cookieKey]

\* What is ended was named by a logout.  A logout that waits has called logout(),
\* and it answers after that or if its cookie is missing.
LoggingOut ==
    /\ \A s \in ended : \E r \in Request : req[r].route = "logout" /\ Named(r) = s
    /\ \A r \in Request : \A i \in Elements(r) : At(r, i, "logout", "io") => Named(r) \in ended
    /\ \A r \in Request :
          req[r].route = "logout" /\ ~Challenged(r) /\ "local" \in {res[r], answer[r]}
          => Named(r) \in ended \cup {None}

\* An element of a chain ends nothing but the session of its request's logout, and
\* only the logout handler gives a logout that is not challenged its answer.
LEMMA RunEnds ==
    ASSUME Typed, NEW r \in Request, NEW i \in Active(r), Run(r, i)
    PROVE  /\ \/ ended' = ended
              \/ req[r].route = "logout" /\ ended' = ended \cup {Named(r)}
           /\ \A k \in Elements(r) :
                 chain[r][k] = "logout" /\ frame'[r][k] = "io"
                 => At(r, k, "logout", "io") \/ Named(r) \in ended'
           /\ res'[r] = "local" =>
                 \/ res[r] = "local" \/ Challenged(r) \/ req[r].route # "logout"
                 \/ Named(r) \in ended' \cup {None} \/ At(r, i, "logout", "io")
<1>0. /\ DOMAIN frame = Request /\ frame[r] \in [1 .. Len(chain[r]) -> Phases]
      /\ i \in 1 .. Len(chain[r]) /\ Elements(r) = 1 .. Len(chain[r])
      /\ res \in [Request -> Responses]
    BY ChainOf DEF Typed, TypeOK, Active
<1>1. chain[r][i] \in {"proxy", "logout", "login", "callback"} => chain[r][i] = req[r].route
    BY <1>0, ChainOf DEF ChainProperties, Handlers
<1> USE <1>0, <1>1 DEF At
<1>2. CASE AfterNext(r, i)
    BY <1>2 DEF AfterNext, Return
<1>3. CASE WithCookies(r, i)
    BY <1>3 DEF WithCookies, CallNext
<1>4. CASE Challenge(r, i)
    BY <1>4 DEF Challenge, Return
<1>5. CASE PassGate(r, i)
    BY <1>5 DEF PassGate, CallNext
<1>6. CASE BeginMigration(r, i)
    BY <1>6 DEF BeginMigration, CallNext
<1>7. CASE Migrate(r, i)
    BY <1>7 DEF Migrate, Return
<1>8. CASE MigrationThrows(r, i)
    BY <1>8 DEF MigrationThrows, Throw
<1>9. CASE NoGeolocation(r, i)
    BY <1>9 DEF NoGeolocation, CallNext
<1>10. CASE Geolocation(r, i)
    BY <1>10 DEF Geolocation, Return
<1>11. CASE BotScoring(r, i)
    BY <1>11 DEF BotScoring
<1>12. CASE NoSessionCookie(r, i)
    BY <1>12 DEF NoSessionCookie, CallNext
<1>13. CASE Authenticate(r, i)
    BY <1>13 DEF Authenticate, AwaitIO
<1>14. CASE Authenticated(r, i)
    BY <1>14 DEF Authenticated, CallNext
<1>15. CASE NotAuthenticated(r, i)
    BY <1>15 DEF NotAuthenticated, CallNext
<1>16. CASE AuthenticateThrows(r, i)
    BY <1>16 DEF AuthenticateThrows, Throw
<1>17. CASE Forward(r, i)
    BY <1>17 DEF Forward, AwaitIO
<1>18. CASE OriginAnswers(r, i)
    BY <1>18 DEF OriginAnswers, Return
<1>19. CASE OriginFails(r, i)
    BY <1>19 DEF OriginFails, Return, Throw
<1>20. CASE HandleLogout(r, i)
    <2>1. CASE Named(r) = None
        BY <1>20, <2>1 DEF HandleLogout, Return, Named
    <2>2. CASE Named(r) # None
        BY <1>20, <2>2 DEF HandleLogout, AwaitIO, Named
    <2> QED
        BY <2>1, <2>2
<1>21. CASE HandleLogin(r, i)
    BY <1>21 DEF HandleLogin, Return, Throw
<1>22. CASE HandleCallback(r, i)
    BY <1>22 DEF HandleCallback, AwaitIO
<1>23. CASE HandlerAnswers(r, i)
    BY <1>23 DEF HandlerAnswers, Return
<1> QED
    BY <1>2, <1>3, <1>4, <1>5, <1>6, <1>7, <1>8, <1>9, <1>10, <1>11, <1>12, <1>13, <1>14,
       <1>15, <1>16, <1>17, <1>18, <1>19, <1>20, <1>21, <1>22, <1>23 DEF Run

LEMMA LoggingOutNext == IInv /\ LoggingOut /\ [Next]_vars => LoggingOut'
<1> SUFFICES ASSUME IInv, LoggingOut, [Next]_vars PROVE LoggingOut'
    OBVIOUS
<1>1. CASE UNCHANGED vars
    BY <1>1 DEF vars, LoggingOut, Named, Elements, At, Challenged
<1>2. ASSUME NEW r \in Request, Step(r) PROVE LoggingOut'
    <2> DEFINE Ended == /\ ended \subseteq ended'
                        /\ \A s \in ended' \ ended : req[r].route = "logout" /\ Named(r) = s
               Io(q) == \A k \in Elements(q) :
                           chain[q][k] = "logout" /\ frame'[q][k] = "io"
                           => At(q, k, "logout", "io") \/ Named(q) \in ended'
               Local(q) == "local" \in {res'[q], answer'[q]} =>
                              \/ "local" \in {res[q], answer[q]} \/ Challenged(q)
                              \/ req[q].route # "logout" \/ Named(q) \in ended' \cup {None}
    <2>0. Typed /\ answer \in [Request -> Responses]
        BY DEF IInv, Typed, TypeOK
    <2>1. UNCHANGED request /\ Ended /\ \A q \in Request : Io(q) /\ Local(q)
        <3>1. CASE Arrive(r)
            <4>1. \A q \in Request : \A k \in Elements(q) :
                     frame'[q][k] = "io" => frame[q][k] = "io"
                <5>1. /\ frame[r] \in [Elements(r) -> Phases] /\ DOMAIN frame = Request
                      /\ frame' = [frame EXCEPT ![r][1] = "entered"]
                    BY <2>0, <3>1 DEF Typed, TypeOK, Arrive
                <5> QED
                    BY <5>1
            <4> QED
                BY <3>1, <4>1 DEF Arrive, At
        <3>2. CASE Answer(r)
            BY <2>0, <3>2 DEF Answer, At
        <3>3. CASE Abandon(r)
            BY <2>0, <3>3 DEF Abandon, At, Typed
        <3>4. CASE \E i \in Active(r) : Run(r, i)
            <4>1. PICK i \in Active(r) : Run(r, i)
                BY <3>4
            <4>2. Ran(r, i) /\ \A q \in Request \ {r} : Same(q)
                BY <2>0, <4>1, RunIsOfAKind
            <4>3. /\ \/ ended' = ended
                     \/ req[r].route = "logout" /\ ended' = ended \cup {Named(r)}
                  /\ Io(r)
                  /\ res'[r] = "local" =>
                        \/ res[r] = "local" \/ Challenged(r) \/ req[r].route # "logout"
                        \/ Named(r) \in ended' \cup {None} \/ At(r, i, "logout", "io")
                BY <2>0, <4>1, RunEnds
            <4>4. Ended
                BY <4>3
            <4>5. At(r, i, "logout", "io") => Named(r) \in ended
                BY <4>1 DEF LoggingOut, Active
            <4>6. Local(r)
                BY <4>2, <4>3, <4>4, <4>5 DEF Ran
            <4>7. \A q \in Request \ {r} : Io(q) /\ Local(q)
                BY <4>2 DEF Same, At
            <4> QED
                BY <4>2, <4>3, <4>4, <4>6, <4>7 DEF Ran
        <3> QED
            BY <1>2, <3>1, <3>2, <3>3, <3>4 DEF Step
    <2> HIDE DEF Ended, Io, Local
    <2>2. \A q \in Request : /\ Named(q)' = Named(q) /\ Elements(q)' = Elements(q)
                             /\ req'[q].route = req[q].route
                             /\ Challenged(q)' <=> Challenged(q)
        BY <2>1 DEF request, Named, Elements, Challenged
    <2>3. \A s \in ended' : \E q \in Request : req'[q].route = "logout" /\ Named(q)' = s
        BY <2>1, <2>2 DEF Ended, LoggingOut
    <2>4. ASSUME NEW q \in Request, NEW k \in Elements(q)', At(q, k, "logout", "io")'
          PROVE  Named(q)' \in ended'
        BY <2>1, <2>2, <2>4 DEF Ended, Io, LoggingOut, At, request
    <2>5. ASSUME NEW q \in Request, req'[q].route = "logout", ~Challenged(q)',
                 "local" \in {res'[q], answer'[q]}
          PROVE  Named(q)' \in ended' \cup {None}
        BY <2>1, <2>2, <2>5 DEF Ended, Local, LoggingOut
    <2> QED
        BY <2>3, <2>4, <2>5 DEF LoggingOut
<1>3. CASE Next
    BY <1>2, <1>3 DEF Next, Step
<1> QED
    BY <1>1, <1>3

\* With the default cookie key a logout ends the session that its own browser is
\* authenticated with and no other (LogoutHandler.handle).
THEOREM LogoutsEndTheirOwn == Spec => []LogoutEndsOwnSession
<1>1. ASSUME Init PROVE LoggingOut
    <2>1. \A r \in Request : /\ res[r] = "none" /\ answer[r] = "none"
                             /\ \A i \in Elements(r) : frame[r][i] = "new"
        BY <1>1 DEF Init
    <2> QED
        BY <1>1, <2>1 DEF Init, LoggingOut, At
<1>2. LoggingOut => LogoutEndsOwnSession
    BY DEF LoggingOut, LogoutEndsOwnSession, Named, SessionOf, DefaultCookieKey, AuthSessionKey
<1> QED
    BY <1>1, <1>2, LoggingOutNext, InductiveInvariant, PTL DEF Spec

=============================================================================
