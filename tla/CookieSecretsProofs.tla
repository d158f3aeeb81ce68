--------------------------- MODULE CookieSecretsProofs ---------------------------
(***************************************************************************)
(* Proofs about CookieSecrets, for any number of callers, of logins and of *)
(* clock ticks, and any length of a second and of the ten minutes.         *)
(***************************************************************************)
EXTENDS CookieSecrets, TLAPS

LEMMA DrawnType ==
    ASSUME NEW i \in Id, NEW t \in Nat
    PROVE  Drawn(i, t) \in Secret /\ Drawn(i, t).value = i
BY SecretsAssumption DEF Drawn, Secret

LEMMA EffectType ==
    ASSUME TypeOK, NEW w \in Call
    PROVE  Effect(w) \in [Id -> Secret \cup {Null}]
<1>1. ASSUME NEW i \in Id
      PROVE  Effect(w)[i] \in Secret \cup {Null}
    <2>1. Drawn(i, w.time) \in Secret
        BY DrawnType DEF Call
    <2> QED
        BY <2>1 DEF Effect, TypeOK
<1> QED
    BY <1>1 DEF Effect

\* A key that is due has outlived its own expiration, in whatever unit.
LEMMA DueIsExpired ==
    ASSUME TypeOK, NEW secret \in Secret, KeyIsDue(secret)
    PROVE  clock >= secret.expiresAt
<1>1. /\ secret.expiresAt \in Nat /\ clock \in Nat /\ Second \in Nat /\ Second >= 1
      /\ clock >= secret.expiresAt * Second
    BY SecretsAssumption DEF TypeOK, Secret, KeyIsDue
<1>2. \A n, k \in Nat : k >= 1 => n * k >= n
    BY Z3
<1>3. secret.expiresAt * Second >= secret.expiresAt
    BY <1>1, <1>2
<1>4. secret.expiresAt * Second \in Nat
    BY <1>1, Z3
<1> QED
    BY <1>1, <1>3, <1>4

-----------------------------------------------------------------------------
LEMMA TypeInductive ==
    ASSUME TypeOK, [Next]_vars
    PROVE  TypeOK'
<1> USE NullAssumption DEF TypeOK
<1>1. CASE UNCHANGED vars
    BY <1>1 DEF vars
<1>2. ASSUME NEW c \in Client, Begin(c) PROVE TypeOK'
    <2>1. PICK op \in Operation : \E i \in IF op = "expire" THEN {Null} ELSE Id :
              call' = [call EXCEPT ![c] =
                         [op |-> op, id |-> i,
                          time |-> IF op \in {"upsert", "expire"} THEN clock ELSE 0]]
        BY <1>2 DEF Begin
    <2>. PICK i \in IF op = "expire" THEN {Null} ELSE Id :
              call' = [call EXCEPT ![c] =
                         [op |-> op, id |-> i,
                          time |-> IF op \in {"upsert", "expire"} THEN clock ELSE 0]]
        BY <2>1
    <2>2. [op |-> op, id |-> i,
           time |-> IF op \in {"upsert", "expire"} THEN clock ELSE 0] \in Call
        BY DEF Call
    <2>3. call' \in [Client -> Call \cup {Null}] /\ call'[c] # Null
        BY <2>2
    <2>4. \A d \in Client \ {c} : call'[d] = call[d]
        OBVIOUS
    <2> QED
        BY <1>2, <2>3, <2>4 DEF Begin
<1>3. ASSUME NEW c \in Client, Find(c) PROVE TypeOK'
    <2>1. Decode(table[call[c].id]) \in Found \cup {Null}
        <3>1. ASSUME NEW x \in Secret \cup {Null} PROVE Decode(x) \in Found \cup {Null}
            BY <3>1 DEF Decode, Found, Secret
        <3>2. table[call[c].id] \in Secret \cup {Null}
            BY <1>3 DEF Find, Issued, Call, Operation
        <3> QED
            BY <3>1, <3>2
    <2>2. answer' \in [Client -> Found \cup {Null}]
        BY <1>3, <2>1 DEF Find
    <2> QED
        BY <1>3, <2>2 DEF Find, Issued
<1>4. ASSUME NEW c \in Client, Write(c) PROVE TypeOK'
    <2>1. call[c] \in Call
        BY <1>4 DEF Write, Issued
    <2> QED
        BY <1>4, <2>1, EffectType DEF Write, Issued
<1>5. ASSUME NEW c \in Client, AnswerAtOnce(c) PROVE TypeOK'
    BY <1>5 DEF AnswerAtOnce, Issued
<1>6. ASSUME NEW c \in Client, Fail(c) \/ Return(c) PROVE TypeOK'
    BY <1>6 DEF Fail, Return, Issued
<1>7. CASE LooseWriteRuns
    <2>1. PICK w \in loose : table' = Effect(w) /\ loose' = loose \ {w}
                             /\ UNCHANGED <<backend, call, answer, clock>>
        BY <1>7 DEF LooseWriteRuns
    <2> QED
        BY <2>1, EffectType
<1>8. CASE LooseWriteFails
    BY <1>8 DEF LooseWriteFails
<1>9. ASSUME NEW i \in Id, KeyExpires(i) PROVE TypeOK'
    BY <1>9 DEF KeyExpires
<1>10. CASE Tick
    BY <1>10 DEF Tick
<1> QED
    BY <1>1, <1>2, <1>3, <1>4, <1>5, <1>6, <1>7, <1>8, <1>9, <1>10 DEF Next

\* Types, and what a call and an answer are while they are under way, for any
\* number of overlapping calls of any repository.
THEOREM TypeCorrect == Spec => []TypeOK
<1>1. Init => TypeOK
    BY SecretsAssumption DEF Init, TypeOK
<1> QED
    BY <1>1, TypeInductive, PTL DEF Spec

-----------------------------------------------------------------------------
(* What a write leaves under an id is that id's. *)

OwnInTable == \A i \in Id : table[i] # Null => table[i].value = i

LEMMA EffectIsOwn ==
    ASSUME TypeOK, OwnInTable, NEW w \in Call, table' = Effect(w)
    PROVE  OwnInTable'
<1> SUFFICES ASSUME NEW i \in Id, table'[i] # Null PROVE table'[i].value = i
    BY DEF OwnInTable
<1>1. CASE table'[i] = table[i]
    BY <1>1 DEF OwnInTable
<1>2. CASE table'[i] = Drawn(i, w.time)
    BY <1>2 DEF Drawn
<1> QED
    BY <1>1, <1>2 DEF Effect

\* A state leads to the secret of its own login or to none, in the store and in
\* what findById answers.
THEOREM SecretsStayApart == Spec => []OwnSecret
<1>1. Init => OwnSecret
    BY DEF Init, OwnSecret
<1>2. ASSUME TypeOK, TypeOK', OwnSecret, [Next]_vars
      PROVE  OwnSecret'
    <2> USE DEF OwnInTable, OwnSecret
    <2>1. OwnInTable'
        <3>1. ASSUME NEW c \in Client, Write(c) PROVE OwnInTable'
            BY <1>2, <3>1, EffectIsOwn DEF Write, Issued, TypeOK
        <3>2. CASE LooseWriteRuns
            <4>1. PICK w \in loose : table' = Effect(w)
                BY <3>2 DEF LooseWriteRuns
            <4> QED
                BY <1>2, <4>1, EffectIsOwn DEF TypeOK
        <3>3. ASSUME NEW i \in Id, KeyExpires(i) PROVE OwnInTable'
            BY <1>2, <3>3 DEF KeyExpires, TypeOK
        <3>4. CASE UNCHANGED table
            BY <1>2, <3>4
        <3> QED
            BY <1>2, <3>1, <3>2, <3>3, <3>4
            DEF Next, vars, Begin, Find, AnswerAtOnce, Fail, Return, LooseWriteFails, Tick
    <2>2. ASSUME NEW d \in Client, answer'[d] # Null
          PROVE  answer'[d].value \in {call'[d].id, Undefined}
        <3>1. ASSUME NEW c \in Client, Find(c)
              PROVE  answer'[d].value \in {call'[d].id, Undefined}
            <4>1. CASE d = c
                <5>1. /\ call[c] \in Call /\ call[c].op = "find"
                      /\ answer'[c] = Decode(table[call[c].id])
                      /\ call'[c] = call[c]
                    BY <1>2, <2>2, <3>1, <4>1 DEF Find, Issued, TypeOK
                <5>2. call[c].id \in Id
                    BY <5>1, NullAssumption DEF Call, Operation
                <5>3. table[call[c].id] # Null
                    BY <2>2, <4>1, <5>1 DEF Decode
                <5> QED
                    BY <1>2, <4>1, <5>1, <5>2, <5>3 DEF Decode
            <4>2. CASE d # c
                BY <1>2, <2>2, <3>1, <4>2 DEF Find, TypeOK
            <4> QED
                BY <4>1, <4>2
        <3>2. CASE answer'[d] = answer[d] /\ call'[d] = call[d]
            BY <1>2, <2>2, <3>2
        <3>3. ASSUME NEW c \in Client,
                     Begin(c) \/ Write(c) \/ AnswerAtOnce(c) \/ Fail(c) \/ Return(c)
              PROVE  answer'[d] = answer[d] /\ call'[d] = call[d]
            BY <1>2, <2>2, <3>3
            DEF Begin, Write, AnswerAtOnce, Fail, Return, Issued, TypeOK
        <3> QED
            BY <1>2, <3>1, <3>2, <3>3
            DEF Next, vars, LooseWriteRuns, LooseWriteFails, KeyExpires, Tick
    <2> QED
        BY <2>1, <2>2
<1> QED
    BY <1>1, <1>2, TypeCorrect, PTL DEF Spec

-----------------------------------------------------------------------------
(* No call carries a time that has not come yet. *)

TimesHavePassed ==
    \A c \in Client : call[c] # Null => call[c].time <= clock

LEMMA TimesPass == Spec => []TimesHavePassed
<1>1. Init => TimesHavePassed
    BY DEF Init, TimesHavePassed
<1>2. ASSUME TypeOK, TimesHavePassed, [Next]_vars
      PROVE  TimesHavePassed'
    <2> USE DEF TimesHavePassed
    <2>1. ASSUME NEW c \in Client, Begin(c) PROVE TimesHavePassed'
        BY <1>2, <2>1 DEF Begin, TypeOK
    <2>2. ASSUME NEW c \in Client,
                 Find(c) \/ Write(c) \/ AnswerAtOnce(c) \/ Fail(c) \/ Return(c)
          PROVE  TimesHavePassed'
        BY <1>2, <2>2 DEF Find, Write, AnswerAtOnce, Fail, Return, TypeOK
    <2>3. CASE Tick
        BY <1>2, <2>3 DEF Tick, TypeOK, Call
    <2> QED
        BY <1>2, <2>1, <2>2, <2>3
        DEF Next, vars, LooseWriteRuns, LooseWriteFails, KeyExpires
<1> QED
    BY <1>1, <1>2, TypeCorrect, PTL DEF Spec

\* A secret is removed by a delete of its own state or when its time is over,
\* whatever the store counts in and however late an expire() runs.
THEOREM KeptWhileNeeded == Spec => KeptUntilExpiry
<1> DEFINE Kept == \A i \in Id : table[i] # Null /\ table'[i] = Null =>
                           clock >= table[i].expiresAt \/ Deleting(i)
<1>1. ASSUME TypeOK, TimesHavePassed, [Next]_vars
      PROVE  Kept
    <2> SUFFICES ASSUME NEW i \in Id, table[i] # Null, table'[i] = Null
                 PROVE  clock >= table[i].expiresAt \/ Deleting(i)
        OBVIOUS
    <2>1. table[i] \in Secret /\ clock \in Nat
        BY <1>1 DEF TypeOK
    <2>2. ASSUME NEW w \in Call, table' = Effect(w)
          PROVE  Removes(w, i)
        <3>1. Drawn(i, w.time) # Null
            BY DrawnType, NullAssumption DEF Call
        <3> QED
            BY <2>2, <3>1 DEF Effect
    <2>3. ASSUME NEW c \in Client, Write(c)
          PROVE  clock >= table[i].expiresAt \/ Deleting(i)
        <3>1. /\ call[c] \in Call /\ call[c] # Null
              /\ call[c].time \in Nat /\ call[c].time <= clock
              /\ table' = Effect(call[c])
            BY <1>1, <2>3 DEF Write, Issued, TypeOK, TimesHavePassed, Call
        <3>2. Removes(call[c], i)
            BY <2>2, <3>1
        <3>3. CASE call[c].op = "delete" /\ call[c].id = i
            BY <3>1, <3>3 DEF Deleting
        <3>4. CASE Expired(table[i], call[c].time)
            BY <2>1, <3>1, <3>4 DEF Expired, Secret
        <3> QED
            BY <3>2, <3>3, <3>4 DEF Removes
    <2>4. CASE LooseWriteRuns
        <3>1. PICK w \in loose : table' = Effect(w)
            BY <2>4 DEF LooseWriteRuns
        <3>2. w \in Call /\ w.op # "expire"
            BY <1>1, <3>1 DEF TypeOK
        <3> QED
            BY <2>2, <3>1, <3>2 DEF Removes, Deleting
    <2>5. ASSUME NEW j \in Id, KeyExpires(j)
          PROVE  clock >= table[i].expiresAt
        <3>1. i = j
            BY <1>1, <2>5 DEF KeyExpires, TypeOK
        <3> QED
            BY <1>1, <2>1, <2>5, <3>1, DueIsExpired DEF KeyExpires
    <2> QED
        BY <1>1, <2>3, <2>4, <2>5
        DEF Next, vars, Begin, Find, AnswerAtOnce, Fail, Return, LooseWriteFails, Tick
<1> QED
    BY <1>1, TypeCorrect, TimesPass, PTL DEF Spec, KeptUntilExpiry

=============================================================================
