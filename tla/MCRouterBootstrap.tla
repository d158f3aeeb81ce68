--------------------------- MODULE MCRouterBootstrap ---------------------------
(***************************************************************************)
(* Instances of RouterBootstrap for TLC.  A run checks liveness, so no     *)
(* symmetry is declared.                                                   *)
(***************************************************************************)
EXTENDS RouterBootstrap

=============================================================================
