----------------------------- MODULE SessionRegister -----------------------------
(***************************************************************************)
(* What domain/sessions/session-repository.ts promises its callers, and    *)
(* what module AuthSessionManager takes a repository to be: one register   *)
(* per session id.  Every call takes effect once, at a moment between its  *)
(* start and its end, and a find answers with what the register had at     *)
(* that moment.  A call that fails may or may not have taken effect.       *)
(***************************************************************************)
CONSTANTS
    Client,     \* the callers
    Id,         \* session ids
    State,      \* session states
    Null        \* no session, which a delete writes; no call

Operation == {"find", "upsert", "delete"}

VARIABLES
    register,   \* id -> session state, or Null
    call        \* client -> the call it waits for, or Null

vars == <<register, call>>

Init ==
    /\ register \in [Id -> State \cup {Null}]
    /\ call = [c \in Client |-> Null]

In(c, phases) == call[c] # Null /\ call[c].phase \in phases

Begin(c) ==
    /\ call[c] = Null
    /\ \E op \in Operation, i \in Id :
       \E s \in IF op = "upsert" THEN State ELSE {Null} :
          call' = [call EXCEPT ![c] =
                     [op |-> op, id |-> i, state |-> s, phase |-> "issued", answer |-> Null]]
    /\ UNCHANGED register

TakeEffect(c) ==
    /\ In(c, {"issued"})
    /\ register' = [register EXCEPT ![call[c].id] =
                      IF call[c].op = "find" THEN @ ELSE call[c].state]
    /\ call' = [call EXCEPT ![c].phase = "executed",
                            ![c].answer = IF call[c].op = "find"
                                          THEN register[call[c].id] ELSE Null]

Succeed(c) ==
    /\ In(c, {"executed"})
    /\ call' = [call EXCEPT ![c].phase = "answered"]
    /\ UNCHANGED register

Fail(c) ==
    /\ In(c, {"issued", "executed"})
    /\ call' = [call EXCEPT ![c].phase = "failed", ![c].answer = Null]
    /\ UNCHANGED register

End(c) ==
    /\ In(c, {"answered", "failed"})
    /\ call' = [call EXCEPT ![c] = Null]
    /\ UNCHANGED register

Next == \E c \in Client : Begin(c) \/ TakeEffect(c) \/ Succeed(c) \/ Fail(c) \/ End(c)

Spec == Init /\ [][Next]_vars

=============================================================================
