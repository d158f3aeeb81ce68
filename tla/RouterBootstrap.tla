----------------------------- MODULE RouterBootstrap -----------------------------
(***************************************************************************)
(* How an agent gets its router: getRouter is a memoized async function of *)
(* the environment, every request of the Workers agent calls it, and the   *)
(* build awaits the preparation of its repositories.  What is remembered   *)
(* is the promise, so requests that come while a build is under way share  *)
(* it, and a rejected promise is remembered like any other.                *)
(***************************************************************************)
EXTENDS Naturals, Sequences

CONSTANTS
    Request,        \* requests (each is made once)
    Env,            \* environments: compared by reference
    Resource,       \* what AssuredResources.prepare is given
    None,           \* no arguments remembered yet; no build
    PrepareFails    \* a repository's prepare() may be rejected

ASSUME BootstrapAssumption ==
    None \notin Env \cup Nat /\ Resource # {} /\ PrepareFails \in BOOLEAN

VARIABLES
    memo,       \* the memoizer: previousArgs and value, a position in builds
    builds,     \* the calls of the memoized function, in order
    request     \* what each request waits for or got

vars == <<memo, builds, request>>

\* A build awaits the preparation of what is in `waiting`.
Build == [env: Env, waiting: SUBSET Resource,
          status: {"preparing", "ready", "failed"}]

Phases == {"new", "waiting", "served", "failed"}

Init ==
    /\ memo = [previousArgs |-> None, value |-> None]
    /\ builds = <<>>
    /\ request = [r \in Request |-> [phase |-> "new", env |-> None, build |-> None]]

-----------------------------------------------------------------------------
\* MUTANT of IsRemembered: only whether there are previous arguments is checked.
AnyArguments(e) == memo.previousArgs # None

\* MUTANT of IsRemembered: a promise that is still pending is not remembered.
OnlySettled(e) ==
    memo.previousArgs = e /\ builds[memo.value].status # "preparing"

\* isInitializedMemoizer(memoizer) && deepEquals(args, memoizer.previousArgs):
\* the argument lists are compared element by element.
IsRemembered(e) == memo.previousArgs = e

Waits(r, e, b) ==
    request' = [request EXCEPT ![r] = [phase |-> "waiting", env |-> e, build |-> b]]

\* The remembered promise, whatever became of it.
GetRemembered(r, e) ==
    /\ request[r].phase = "new"
    /\ IsRemembered(e)
    /\ Waits(r, e, memo.value)
    /\ UNCHANGED <<memo, builds>>

Started(e) == [env |-> e, waiting |-> Resource, status |-> "preparing"]
Thrown(e) == [env |-> e, waiting |-> {}, status |-> "failed"]

\* MUTANT of StartBuild: the value is returned and not kept.
KeepsNoValue(r, e) ==
    /\ request[r].phase = "new"
    /\ ~IsRemembered(e)
    /\ builds' = Append(builds, Started(e))
    /\ memo' = [previousArgs |-> e, value |-> memo.value]
    /\ Waits(r, e, Len(builds'))

\* A new build.  What it does before its first await, reading configuration and
\* opening the database, may throw: the promise is rejected, and remembered.
StartBuild(r, e) ==
    /\ request[r].phase = "new"
    /\ ~IsRemembered(e)
    /\ \E b \in {Started(e), Thrown(e)} : builds' = Append(builds, b)
    /\ memo' = [previousArgs |-> e, value |-> Len(builds')]
    /\ Waits(r, e, Len(builds'))

\* MUTANT of WhenPrepared: Promise.any instead of Promise.all.
WithTheFirst(b) == "ready"

\* MUTANT of WhenPrepared: the promise is never resolved.
NeverSettles(b) == b.status

\* Promise.all settles with the last preparation, or with the first that fails.
WhenPrepared(b) ==
    IF b.status = "preparing" /\ b.waiting = {} THEN "ready" ELSE b.status

Prepared(n, res) ==
    /\ res \in builds[n].waiting
    /\ LET b == [builds[n] EXCEPT !.waiting = @ \ {res}] IN
       builds' = [builds EXCEPT ![n] = [b EXCEPT !.status = WhenPrepared(b)]]
    /\ UNCHANGED <<memo, request>>

PrepareIsRejected(n, res) ==
    /\ PrepareFails
    /\ builds[n].status = "preparing" /\ res \in builds[n].waiting
    /\ builds' = [builds EXCEPT ![n].status = "failed"]
    /\ UNCHANGED <<memo, request>>

\* `await getRouter(env)` goes on: the router fetches, or the error is thrown.
Serve(r) ==
    /\ request[r].phase = "waiting"
    /\ builds[request[r].build].status # "preparing"
    /\ request' = [request EXCEPT ![r].phase =
          IF builds[request[r].build].status = "ready" THEN "served" ELSE "failed"]
    /\ UNCHANGED <<memo, builds>>

Next ==
    \/ \E r \in Request : \/ \E e \in Env : GetRemembered(r, e) \/ StartBuild(r, e)
                          \/ Serve(r)
    \/ \E n \in 1..Len(builds), res \in Resource :
          Prepared(n, res) \/ PrepareIsRejected(n, res)

Spec == Init /\ [][Next]_vars

\* The event loop runs what can run, and a statement sent to a database is
\* answered or rejected in the end.
Fairness ==
    /\ \A r \in Request : WF_vars(Serve(r))
    /\ WF_vars(\E n \in 1..Len(builds), res \in Resource :
                  Prepared(n, res) \/ PrepareIsRejected(n, res))

FairSpec == Spec /\ Fairness

-----------------------------------------------------------------------------
(* Properties *)

\* Every variable holds a value the code can put there; arguments are remembered
\* together with a value.
TypeOK ==
    /\ memo \in [previousArgs: Env \cup {None}, value: Nat \cup {None}]
    /\ memo.previousArgs = None <=> memo.value = None
    /\ builds \in Seq(Build)
    /\ request \in [Request -> [phase: Phases, env: Env \cup {None},
                                build: Nat \cup {None}]]

\* "ensure all repositories are ready to roll": a request is served only by a
\* router all of whose resources are prepared.
ServedWhenPrepared ==
    \A r \in Request :
        request[r].phase = "served" => builds[request[r].build].waiting = {}

\* A request is served by a router that was built for its own environment.
OwnEnvironment ==
    \A r \in Request :
        request[r].phase # "new" => builds[request[r].build].env = request[r].env

\* Requests of one environment share a build, however many come before it is
\* ready: only another environment in between makes the agent build anew.
BuildsAreShared ==
    \A n \in 1..(Len(builds) - 1) : builds[n].env # builds[n + 1].env

\* Every request is served or fails in the end.
EveryRequestEnds ==
    \A r \in Request : request[r].phase = "waiting" ~> request[r].phase \in {"served", "failed"}

=============================================================================
