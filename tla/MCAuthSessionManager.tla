-------------------------- MODULE MCAuthSessionManager --------------------------
(***************************************************************************)
(* Instances of AuthSessionManager for TLC.                                *)
(***************************************************************************)
EXTENDS AuthSessionManager, TLC

\* Overlapping calls of a session are interchangeable, and so are sessions.
Symmetry == Permutations(Request) \cup Permutations(Session)

=============================================================================
