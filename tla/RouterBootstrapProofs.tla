-------------------------- MODULE RouterBootstrapProofs --------------------------
(***************************************************************************)
(* Proofs about RouterBootstrap, for any number of requests, environments  *)
(* and resources.                                                          *)
(***************************************************************************)
EXTENDS RouterBootstrap, TLAPS

\* What is remembered is the newest build, under the environment it was made for.
MemoIsNewest ==
    IF memo.previousArgs = None
    THEN builds = <<>> /\ memo.value = None
    ELSE /\ memo.value = Len(builds) /\ Len(builds) > 0
         /\ builds[Len(builds)].env = memo.previousArgs

\* Whoever waits, waits for a build there is, made for its own environment.
RequestsHaveBuilds ==
    \A r \in Request : request[r].phase # "new" =>
        /\ request[r].build \in 1..Len(builds)
        /\ builds[request[r].build].env = request[r].env

\* A build is ready only once nothing is left to prepare, a request is served
\* only by a build that is ready.
ReadyIsPrepared ==
    /\ \A n \in 1..Len(builds) : builds[n].status = "ready" => builds[n].waiting = {}
    /\ \A r \in Request : request[r].phase = "served" =>
          builds[request[r].build].status = "ready"

IInv ==
    /\ memo \in [previousArgs: Env \cup {None}, value: Nat \cup {None}]
    /\ builds \in Seq(Build)
    /\ request \in [Request -> [phase: Phases, env: Env \cup {None},
                                build: Nat \cup {None}]]
    /\ MemoIsNewest /\ RequestsHaveBuilds /\ ReadyIsPrepared /\ BuildsAreShared

USE DEF Phases

LEMMA InitIInv == Init => IInv
BY DEF Init, IInv, MemoIsNewest, RequestsHaveBuilds, ReadyIsPrepared, BuildsAreShared

LEMMA RememberedKeeps ==
    ASSUME IInv, NEW r \in Request, NEW e \in Env, GetRemembered(r, e)
    PROVE  IInv'
<1>. USE DEF GetRemembered, Waits, IsRemembered
<1>1. memo.value \in 1..Len(builds) /\ builds[memo.value].env = e
  BY BootstrapAssumption DEF IInv, MemoIsNewest
<1>2. request' \in [Request -> [phase: Phases, env: Env \cup {None}, build: Nat \cup {None}]]
  BY <1>1 DEF IInv
<1>3. RequestsHaveBuilds'
  BY <1>1 DEF IInv, RequestsHaveBuilds
<1>4. ReadyIsPrepared'
  BY DEF IInv, ReadyIsPrepared
<1>. QED BY <1>2, <1>3, <1>4 DEF IInv, MemoIsNewest, BuildsAreShared

LEMMA StartKeeps ==
    ASSUME IInv, NEW r \in Request, NEW e \in Env, StartBuild(r, e)
    PROVE  IInv'
<1>1. PICK b \in {Started(e), Thrown(e)} : builds' = Append(builds, b)
  BY DEF StartBuild
<1>2. b \in Build /\ b.env = e /\ b.status # "ready"
  BY <1>1 DEF Started, Thrown, Build
<1>3. /\ builds' \in Seq(Build) /\ Len(builds') = Len(builds) + 1
      /\ builds'[Len(builds')] = b
      /\ \A n \in 1..Len(builds) : builds'[n] = builds[n]
  BY <1>1, <1>2 DEF IInv
<1>4. Len(builds) \in Nat
  BY DEF IInv
<1>5. request' = [request EXCEPT ![r] =
                    [phase |-> "waiting", env |-> e, build |-> Len(builds')]]
  BY DEF StartBuild, Waits
<1>6. memo' = [previousArgs |-> e, value |-> Len(builds')]
  BY DEF StartBuild
<1>7. MemoIsNewest'
  BY <1>2, <1>3, <1>4, <1>6, BootstrapAssumption DEF MemoIsNewest
<1>8. RequestsHaveBuilds'
  BY <1>2, <1>3, <1>4, <1>5 DEF IInv, RequestsHaveBuilds
<1>9. ReadyIsPrepared'
  <2>1. ASSUME NEW n \in 1..Len(builds'), builds'[n].status = "ready"
        PROVE  builds'[n].waiting = {}
    <3>1. n \in 1..Len(builds)
      BY <1>2, <1>3, <1>4, <2>1
    <3>. QED BY <1>3, <2>1, <3>1 DEF IInv, ReadyIsPrepared
  <2>2. ASSUME NEW q \in Request, request'[q].phase = "served"
        PROVE  builds'[request'[q].build].status = "ready"
    <3>1. q # r /\ request'[q] = request[q]
      BY <1>5, <2>2 DEF IInv
    <3>. QED BY <1>3, <2>2, <3>1 DEF IInv, ReadyIsPrepared, RequestsHaveBuilds
  <2>. QED BY <2>1, <2>2 DEF ReadyIsPrepared
<1>10. BuildsAreShared'
  <2>1. memo.previousArgs # e
    BY DEF StartBuild, IsRemembered
  <2>2. Len(builds) > 0 => builds[Len(builds)].env # e
    BY <2>1 DEF IInv, MemoIsNewest
  <2>3. ASSUME NEW n \in 1..(Len(builds') - 1)
        PROVE  builds'[n].env # builds'[n + 1].env
    <3>1. CASE n = Len(builds)
      BY <1>2, <1>3, <1>4, <2>2, <2>3, <3>1
    <3>2. CASE n # Len(builds)
      <4>1. n \in 1..(Len(builds) - 1) /\ n \in 1..Len(builds) /\ n + 1 \in 1..Len(builds)
        BY <1>3, <1>4, <2>3, <3>2
      <4>2. builds[n].env # builds[n + 1].env
        BY <4>1 DEF IInv, BuildsAreShared
      <4>. QED BY <1>3, <4>1, <4>2
    <3>. QED BY <3>1, <3>2
  <2>. QED BY <2>3 DEF BuildsAreShared
<1>11. request' \in [Request -> [phase: Phases, env: Env \cup {None}, build: Nat \cup {None}]]
  BY <1>3, <1>4, <1>5 DEF IInv
<1>. QED BY <1>3, <1>6, <1>7, <1>8, <1>9, <1>10, <1>11 DEF IInv

\* A preparation that ends changes only what one build waits for and whether it
\* is ready or failed.
LEMMA SettleKeeps ==
    ASSUME IInv, NEW n \in 1..Len(builds), NEW b \in Build,
           builds' = [builds EXCEPT ![n] = b], UNCHANGED <<memo, request>>,
           b.env = builds[n].env, builds[n].status = "ready" => b.status = "ready",
           b.status = "ready" => b.waiting = {}
    PROVE  IInv'
<1>1. /\ builds' \in Seq(Build) /\ Len(builds') = Len(builds)
      /\ \A m \in 1..Len(builds) : builds'[m] = IF m = n THEN b ELSE builds[m]
  BY DEF IInv
<1>2. Len(builds) \in Nat
  BY DEF IInv
<1>3. MemoIsNewest'
  <2>1. memo' = memo /\ Len(builds) > 0 /\ builds # <<>>
    BY <1>2
  <2>2. /\ memo.previousArgs # None /\ memo.value = Len(builds)
        /\ builds[Len(builds)].env = memo.previousArgs
    BY <2>1 DEF IInv, MemoIsNewest
  <2>3. builds'[Len(builds)].env = memo.previousArgs
    <3>1. Len(builds) \in 1..Len(builds)
      BY <1>2, <2>1
    <3>2. CASE n = Len(builds)
      BY <1>1, <2>2, <3>1, <3>2
    <3>3. CASE n # Len(builds)
      BY <1>1, <2>2, <3>1, <3>3
    <3>. QED BY <3>2, <3>3
  <2>. QED BY <1>1, <2>1, <2>2, <2>3 DEF MemoIsNewest
<1>4. RequestsHaveBuilds'
  BY <1>1 DEF IInv, RequestsHaveBuilds
<1>5. ReadyIsPrepared'
  BY <1>1 DEF IInv, ReadyIsPrepared, RequestsHaveBuilds
<1>6. BuildsAreShared'
  BY <1>1, <1>2 DEF IInv, BuildsAreShared
<1>. QED BY <1>1, <1>3, <1>4, <1>5, <1>6 DEF IInv

LEMMA PreparedKeeps ==
    ASSUME IInv, NEW n \in 1..Len(builds), NEW res \in Resource, Prepared(n, res)
    PROVE  IInv'
<1>1. builds[n] \in Build
  BY DEF IInv
<1>. DEFINE c == [builds[n] EXCEPT !.waiting = @ \ {res}]
            b == [c EXCEPT !.status = WhenPrepared(c)]
<1>2. c \in Build /\ c.env = builds[n].env /\ c.status = builds[n].status
  BY <1>1 DEF Build
<1>3. WhenPrepared(c) \in {"preparing", "ready", "failed"}
  BY <1>2 DEF WhenPrepared, Build
<1>4. /\ b \in Build /\ b.env = builds[n].env /\ b.status = WhenPrepared(c)
      /\ b.waiting = c.waiting
  BY <1>2, <1>3 DEF Build
<1>5. builds' = [builds EXCEPT ![n] = b] /\ UNCHANGED <<memo, request>>
  BY DEF Prepared
<1>6. builds[n].status # "ready"
  BY DEF Prepared, IInv, ReadyIsPrepared
<1>7. b.status = "ready" => b.waiting = {}
  BY <1>2, <1>4, <1>6 DEF WhenPrepared
<1>. HIDE DEF b, c
<1>. QED BY <1>4, <1>5, <1>6, <1>7, SettleKeeps

LEMMA RejectedKeeps ==
    ASSUME IInv, NEW n \in 1..Len(builds), NEW res \in Resource,
           PrepareIsRejected(n, res)
    PROVE  IInv'
<1>1. builds[n] \in Build
  BY DEF IInv
<1>. DEFINE b == [builds[n] EXCEPT !.status = "failed"]
<1>2. b \in Build /\ b.env = builds[n].env /\ b.status = "failed"
  BY <1>1 DEF Build
<1>3. /\ builds' = [builds EXCEPT ![n] = b] /\ UNCHANGED <<memo, request>>
      /\ builds[n].status # "ready"
  BY <1>1 DEF PrepareIsRejected, IInv
<1>. HIDE DEF b
<1>. QED BY <1>2, <1>3, SettleKeeps

LEMMA ServeKeeps ==
    ASSUME IInv, NEW r \in Request, Serve(r)
    PROVE  IInv'
<1>1. request' \in [Request -> [phase: Phases, env: Env \cup {None}, build: Nat \cup {None}]]
  BY DEF Serve, IInv
<1>2. RequestsHaveBuilds'
  BY DEF Serve, IInv, RequestsHaveBuilds
<1>3. ReadyIsPrepared'
  BY DEF Serve, IInv, ReadyIsPrepared
<1>. QED BY <1>1, <1>2, <1>3 DEF Serve, IInv, MemoIsNewest, BuildsAreShared

LEMMA NextIInv == IInv /\ [Next]_vars => IInv'
<1>1. ASSUME IInv, UNCHANGED vars
      PROVE  IInv'
  BY <1>1 DEF vars, IInv, MemoIsNewest, RequestsHaveBuilds, ReadyIsPrepared, BuildsAreShared
<1>. QED BY <1>1, RememberedKeeps, StartKeeps, PreparedKeeps, RejectedKeeps, ServeKeeps DEF Next

LEMMA Invariance == Spec => []IInv
BY InitIInv, NextIInv, PTL DEF Spec

\* Types; arguments are remembered together with a value.
THEOREM TypeCorrect == Spec => []TypeOK
<1>1. IInv => TypeOK
  <2>1. IInv => Len(builds) \in Nat
    BY DEF IInv
  <2>. QED BY <2>1, BootstrapAssumption DEF IInv, MemoIsNewest, TypeOK
<1>. QED BY <1>1, Invariance, PTL

\* "ensure all repositories are ready to roll": whatever fails, and however many
\* requests come first, none is served before every resource is prepared.
THEOREM PreparedFirst == Spec => []ServedWhenPrepared
<1>1. IInv => ServedWhenPrepared
  BY DEF IInv, RequestsHaveBuilds, ReadyIsPrepared, ServedWhenPrepared
<1>. QED BY <1>1, Invariance, PTL

\* A request gets a router of its own environment, whichever requests overlap it.
THEOREM RouterOfOwnEnvironment == Spec => []OwnEnvironment
<1>1. IInv => OwnEnvironment
  BY DEF IInv, RequestsHaveBuilds, OwnEnvironment
<1>. QED BY <1>1, Invariance, PTL

\* Requests of one environment never make the agent build twice in a row.
THEOREM SharedBuilds == Spec => []BuildsAreShared
<1>1. IInv => BuildsAreShared
  BY DEF IInv
<1>. QED BY <1>1, Invariance, PTL

=============================================================================
