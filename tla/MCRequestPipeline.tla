--------------------------- MODULE MCRequestPipeline ---------------------------
(***************************************************************************)
(* Instances of RequestPipeline for TLC: the routers that are built.       *)
(***************************************************************************)
EXTENDS RequestPipeline

BunAgent == [geolocation |-> FALSE, botScoring |-> FALSE,
             cookieKey |-> DefaultCookieKey, catches |-> TRUE, extras |-> {}]

WorkersAgent == [BunAgent EXCEPT !.catches = FALSE]

WorkersAgentWithCloudflare == [WorkersAgent EXCEPT !.geolocation = TRUE, !.botScoring = TRUE]

\* No entrypoint registers the gates and the migration.
MigratingAgent == [BunAgent EXCEPT !.cookieKey = LegacyKey,
                                   !.extras = {"captcha", "csrf", "migration"}]

AllAgents == {BunAgent, WorkersAgent, WorkersAgentWithCloudflare, MigratingAgent}

BotScoringAgent == {[WorkersAgent EXCEPT !.botScoring = TRUE]}

=============================================================================
