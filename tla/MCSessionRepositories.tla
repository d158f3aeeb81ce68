-------------------------- MODULE MCSessionRepositories --------------------------
(***************************************************************************)
(* Instances of SessionRepositories for TLC.                               *)
(***************************************************************************)
EXTENDS SessionRepositories, TLC

\* Callers are interchangeable, and so are session ids.
Symmetry == Permutations(Client) \cup Permutations(Id)

=============================================================================
