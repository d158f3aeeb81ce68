----------------------------- MODULE RefreshContract -----------------------------
(***************************************************************************)
(* What module AuthSessionManager takes refresh() of an OpenID Connect     *)
(* client to be: the provider answers a call that has the token it accepts *)
(* with the token it accepts from then on, and the call either resolves    *)
(* with that token, which becomes the session's, or it fails and changes   *)
(* nothing.                                                                *)
(***************************************************************************)
EXTENDS Naturals

CONSTANTS
    Call,       \* overlapping calls of refresh() for one session
    Null        \* no call

VARIABLES
    accepted,   \* generation of the refresh token the provider accepts
    kept,       \* generation of the session's refresh token
    holds       \* call -> the token it has and who it is from, or Null

vars == <<accepted, kept, holds>>

Init ==
    /\ accepted = 0
    /\ kept = 0
    /\ holds = [c \in Call |-> Null]

From(c, whom) == holds[c] # Null /\ holds[c].from = whom

Ask(c) ==
    /\ holds[c] = Null
    /\ holds' = [holds EXCEPT ![c] = [from |-> "session", token |-> kept]]
    /\ UNCHANGED <<accepted, kept>>

\* The provider takes the token and answers with the same or the next one.
Grant(c) ==
    /\ From(c, "session")
    /\ holds[c].token = accepted
    /\ accepted' \in {accepted, accepted + 1}
    /\ holds' = [holds EXCEPT ![c] = [from |-> "provider", token |-> accepted']]
    /\ UNCHANGED kept

\* Only what the provider has answered becomes the session's.
Resolve(c) ==
    /\ From(c, "provider")
    /\ kept' = holds[c].token
    /\ holds' = [holds EXCEPT ![c] = Null]
    /\ UNCHANGED accepted

Fail(c) ==
    /\ holds[c] # Null
    /\ holds' = [holds EXCEPT ![c] = Null]
    /\ UNCHANGED <<accepted, kept>>

Next == \E c \in Call : Ask(c) \/ Grant(c) \/ Resolve(c) \/ Fail(c)

Spec == Init /\ [][Next]_vars

=============================================================================
