---------------------------- MODULE MCTokenRefresh ----------------------------
(***************************************************************************)
(* Instances of TokenRefresh for TLC: every client and every format.       *)
(***************************************************************************)
EXTENDS TokenRefresh

AllClients == ClientKinds

\* The agents configure JSON, the Durable Object leaves the default.
ConfiguredFormats == {"json", "infer"}

=============================================================================
