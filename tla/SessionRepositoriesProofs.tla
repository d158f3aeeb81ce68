------------------------ MODULE SessionRepositoriesProofs ------------------------
(***************************************************************************)
(* Proofs about SessionRepositories, for any number of callers, ids and    *)
(* session states.                                                         *)
(***************************************************************************)
EXTENDS SessionRepositories, TLAPS

\* Neon is used only for sessions that have an id token.
NeonHasIdTokens == "neon" \in Deployed => WithIdToken = State

\* Then every repository returns a state as it was stored.
LEMMA DecodesFaithfully ==
    ASSUME NeonHasIdTokens, backend \in Deployed, NEW s \in State \cup {Null}
    PROVE  Decode(s) = s
BY DEF NeonHasIdTokens, Decode

LEMMA EffectTyped ==
    ASSUME TypeOK, NEW w, w.state \in State \cup {Null}
    PROVE  Effect(w) \in [Id -> State \cup {Null}]
BY DEF TypeOK, Effect

LEMMA TypeInductive ==
    ASSUME TypeOK, [Next]_vars
    PROVE  TypeOK'
<1>1. CASE UNCHANGED vars
  BY <1>1 DEF vars, TypeOK
<1>2. ASSUME NEW c \in Client, Begin(c)
      PROVE  TypeOK'
  BY <1>2 DEF Begin, TypeOK, Call, Operation
<1>3. ASSUME NEW c \in Client, Execute(c)
      PROVE  TypeOK'
  <2>1. call[c] \in Call
    BY <1>3 DEF Execute, In, TypeOK
  <2>2. table' \in [Id -> State \cup {Null}]
    BY <1>3, <2>1, EffectTyped DEF Execute, TypeOK, Call
  <2>3. table[call[c].id] \in State \cup {Null}
    BY <2>1 DEF TypeOK, Call
  <2>4. call' \in [Client -> Call \cup {Null}]
    BY <1>3, <2>1, <2>3 DEF Execute, TypeOK, Call
  <2>. QED BY <1>3, <2>2, <2>4 DEF Execute, TypeOK
<1>4. ASSUME NEW c \in Client, Answer(c)
      PROVE  TypeOK'
  <2>1. call[c] \in Call
    BY <1>4 DEF Answer, In, TypeOK
  <2>2. Decode(call[c].answer) \in State \cup {Null}
    BY <2>1 DEF Call, Decode
  <2>. QED BY <1>4, <2>1, <2>2 DEF Answer, TypeOK, Call
<1>5. ASSUME NEW c \in Client, AnswerAtOnce(c)
      PROVE  TypeOK'
  <2>1. call[c] \in Call
    BY <1>5 DEF AnswerAtOnce, In, TypeOK
  <2>2. loose' \subseteq Write
    BY <1>5, <2>1 DEF AnswerAtOnce, TypeOK, Call, Write, Operation
  <2>. QED BY <1>5, <2>1, <2>2 DEF AnswerAtOnce, TypeOK, Call
<1>6. ASSUME NEW c \in Client, Fail(c)
      PROVE  TypeOK'
  <2>1. call[c] \in Call
    BY <1>6 DEF Fail, In, TypeOK
  <2>. QED BY <1>6, <2>1 DEF Fail, TypeOK, Call
<1>7. ASSUME NEW c \in Client, End(c)
      PROVE  TypeOK'
  BY <1>7 DEF End, TypeOK
<1>8. ASSUME LooseWriteRuns
      PROVE  TypeOK'
  <2>1. PICK w \in loose : table' = Effect(w) /\ loose' = loose \ {w}
                      /\ UNCHANGED <<backend, call>>
    BY <1>8 DEF LooseWriteRuns
  <2>2. w.state \in State \cup {Null}
    BY <2>1 DEF TypeOK, Write
  <2>. QED BY <2>1, <2>2, EffectTyped DEF TypeOK
<1>9. ASSUME LooseWriteFails
      PROVE  TypeOK'
  BY <1>9 DEF LooseWriteFails, TypeOK
<1>. QED BY <1>1, <1>2, <1>3, <1>4, <1>5, <1>6, <1>7, <1>8, <1>9 DEF Next


\* Whatever the store: the variables keep the values the code can put there.
THEOREM TypeCorrect == Spec => []TypeOK
<1>1. Init => TypeOK
  BY DEF Init, TypeOK
<1>. QED BY <1>1, TypeInductive, PTL DEF Spec

-----------------------------------------------------------------------------
\* Where every query is awaited no write outlives its call.
NothingLoose == Awaits => loose = {}

LEMMA NothingIsLoose == Spec => []NothingLoose
<1>1. Init => NothingLoose
  BY DEF Init, NothingLoose
<1>2. NothingLoose /\ [Next]_vars => NothingLoose'
  BY DEF NothingLoose, Awaits, Next, vars, Begin, Execute, Answer, AnswerAtOnce,
         Fail, End, LooseWriteRuns, LooseWriteFails
<1>. QED BY <1>1, <1>2, PTL DEF Spec

LEMMA BackendStays == [Next]_vars => UNCHANGED backend
BY DEF Next, vars, Begin, Execute, Answer, AnswerAtOnce, Fail, End,
       LooseWriteRuns, LooseWriteFails

\* A repository that awaits its queries and returns what was stored is the
\* register that the session manager takes a repository for.
THEOREM StoreIsARegister ==
    ASSUME NeonHasIdTokens
    PROVE  Spec => IsARegister
<1>. DEFINE Shown == IF Awaits THEN table ELSE [i \in Id |-> Null]
            Calls == IF Awaits THEN call ELSE [c \in Client |-> Null]
<1>1. Init => Register!Init
  BY DEF Init, Register!Init
<1>2. ASSUME TypeOK, NothingLoose, [Next]_vars
      PROVE  [Register!Next]_<<Shown, Calls>>
  <2>. USE DEF In, Register!In
  <2>0. Awaits' <=> Awaits
    BY <1>2, BackendStays DEF Awaits
  <2>1. CASE ~Awaits
    BY <2>0, <2>1
  <2>2. CASE Awaits
    <3>0. Shown = table /\ Shown' = table' /\ Calls = call /\ Calls' = call'
      BY <2>0, <2>2
    <3>1. CASE UNCHANGED vars
      BY <3>0, <3>1 DEF vars
    <3>2. ASSUME NEW c \in Client, Begin(c)
          PROVE  Register!Begin(c)
      BY <3>0, <2>2, <3>2 DEF Begin, Register!Begin, Operation, Register!Operation
    <3>3. ASSUME NEW c \in Client, Execute(c)
          PROVE  Register!TakeEffect(c)
      <4>1. call[c] \in Call
        BY <1>2, <3>3 DEF Execute, TypeOK
      <4>2. table' = [table EXCEPT ![call[c].id] =
                        IF call[c].op = "find" THEN @ ELSE call[c].state]
        BY <1>2, <3>3, <4>1 DEF Execute, Effect, TypeOK, Call
      <4>. QED BY <3>0, <2>2, <3>3, <4>2 DEF Execute, Register!TakeEffect
    <3>4. ASSUME NEW c \in Client, Answer(c)
          PROVE  Register!Succeed(c)
      <4>1. call[c] \in Call
        BY <1>2, <3>4 DEF Answer, TypeOK
      <4>2. Decode(call[c].answer) = call[c].answer
        BY <1>2, <4>1, DecodesFaithfully DEF Call, TypeOK
      <4>3. [call[c] EXCEPT !.phase = "answered", !.answer = Decode(@)]
              = [call[c] EXCEPT !.phase = "answered"]
        BY <4>1, <4>2 DEF Call
      <4>. QED BY <3>0, <1>2, <2>2, <3>4, <4>3 DEF Answer, Register!Succeed, TypeOK
    <3>5. ASSUME NEW c \in Client, AnswerAtOnce(c)
          PROVE  FALSE
      BY <2>2, <3>5 DEF AnswerAtOnce
    <3>6. ASSUME NEW c \in Client, Fail(c)
          PROVE  Register!Fail(c)
      BY <3>0, <2>2, <3>6 DEF Fail, Register!Fail
    <3>7. ASSUME NEW c \in Client, End(c)
          PROVE  Register!End(c)
      BY <3>0, <2>2, <3>7 DEF End, Register!End
    <3>8. ~LooseWriteRuns /\ ~LooseWriteFails
      BY <1>2, <2>2 DEF NothingLoose, LooseWriteRuns, LooseWriteFails
    <3>. QED BY <1>2, <3>0, <3>1, <3>2, <3>3, <3>4, <3>5, <3>6, <3>7, <3>8
             DEF Next, Register!Next, vars
  <2>. QED BY <2>1, <2>2
<1>3. Spec => []TypeOK /\ []NothingLoose
  BY TypeCorrect, NothingIsLoose, PTL
<1>. QED BY <1>1, <1>2, <1>3, PTL DEF Spec, IsARegister, Register!Spec, Register!vars

=============================================================================
