------------------------------ MODULE SerialRefresh ------------------------------
(***************************************************************************)
(* What a session manager promises of refresh tokens that the provider     *)
(* lets it use once: per session the token is a baton.  At most one        *)
(* refresh is outstanding, its answer is either kept as the record or lost *)
(* for good, and a record only ever moves to the next generation.          *)
(***************************************************************************)
EXTENDS Naturals

CONSTANTS Session, None

VARIABLES
    gen,    \* generation of the newest refresh token the provider issued
    kept,   \* generation of the token in the session's record, or None
    baton   \* who has the newest token: see Batons

vars == <<gen, kept, baton>>

\* "available": the record has it, or a call that read the record does;
\* "outstanding": the provider issued it and it is not in the record yet;
\* "lost": nobody has it, so no refresh of the session can succeed any more.
Batons == {"available", "outstanding", "lost"}

TypeOK ==
    /\ gen \in [Session -> Nat]
    /\ kept \in [Session -> Nat \cup {None}]
    /\ baton \in [Session -> Batons]

Init ==
    /\ gen = [s \in Session |-> 0]
    /\ kept \in [Session -> {0, None}]
    /\ baton = [s \in Session |-> IF kept[s] = None THEN "lost" ELSE "available"]

\* The provider takes the newest token and issues the next.
Issue(s) ==
    /\ baton[s] = "available"
    /\ gen' = [gen EXCEPT ![s] = @ + 1]
    /\ baton' = [baton EXCEPT ![s] = "outstanding"]
    /\ UNCHANGED kept

\* The outstanding token becomes the record.
Keep(s) ==
    /\ baton[s] = "outstanding"
    /\ kept' = [kept EXCEPT ![s] = gen[s]]
    /\ baton' = [baton EXCEPT ![s] = "available"]
    /\ UNCHANGED gen

\* The call that was to store the token is gone.
Lose(s) ==
    /\ baton[s] = "outstanding"
    /\ baton' = [baton EXCEPT ![s] = "lost"]
    /\ UNCHANGED <<gen, kept>>

\* The record is deleted; a call that read it before may still have the token.
Drop(s) ==
    /\ kept' = [kept EXCEPT ![s] = None]
    /\ \/ UNCHANGED baton
       \/ /\ baton[s] = "available"
          /\ baton' = [baton EXCEPT ![s] = "lost"]
    /\ UNCHANGED gen

\* The last such call ends.
Forget(s) ==
    /\ baton[s] = "available"
    /\ kept[s] = None
    /\ baton' = [baton EXCEPT ![s] = "lost"]
    /\ UNCHANGED <<gen, kept>>

Next == \E s \in Session : Issue(s) \/ Keep(s) \/ Lose(s) \/ Drop(s) \/ Forget(s)

Spec == Init /\ [][Next]_vars

\* The record, if there is one, has the newest token unless that token is
\* outstanding or lost; it is then exactly one generation behind.
KeptIsNewest ==
    \A s \in Session : kept[s] # None =>
        gen[s] = IF baton[s] = "available" THEN kept[s] ELSE kept[s] + 1

=============================================================================
