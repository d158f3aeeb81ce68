---------------------------- MODULE MCCookieSecrets ----------------------------
(***************************************************************************)
(* Instances of CookieSecrets for TLC: every repository.                   *)
(***************************************************************************)
EXTENDS CookieSecrets

AllBackends == Backends

=============================================================================
