----------------------------- MODULE TurnProofs -----------------------------
(***************************************************************************)
(* Theorems about Turn: the idempotency ledger and the budgets of a turn,  *)
(* for every number of callers, turns, fallback entries and calls,         *)
(* whatever crashes.                                                       *)
(***************************************************************************)
EXTENDS Turn, TLAPS

\* What a turn's next step dereferences exists, and a dispatched call was
\* permitted.
Usable(t) ==
    /\ t.pc \in {"batch", "call", "acted"} => t.batch # <<>>
    /\ t.pc \in {"call", "acted"} => /\ Head(t.batch) \in Effects \cup Reads
                                     /\ t.calls \in 1..MaxToolCalls
    /\ t.pc = "acted" => Head(t.batch) \in Effects

TurnsOK == \A c \in Callers : Usable(turn[c])

\* What a key's row says of its effect, while it is claimed and afterwards.
EffectKnown(k) ==
    /\ ledger[k] = "SUCCEEDED" => effects[k] = 1
    /\ ledger[k] \in {"none", "FAILED"} => effects[k] = 0
    /\ effects[k] <= 1
    /\ \A c \in Callers : Holds(c, k) /\ At(c, "call") => effects[k] = 0
    /\ \A c \in Callers : Holds(c, k) /\ At(c, "acted") => effects[k] = 1

EffectsKnown == \A k \in Keys : k[2] \notin Timeouts => EffectKnown(k)

Shaped == TypeOK /\ TurnsOK

IInv == Shaped /\ ClaimHeld /\ EffectsKnown

-----------------------------------------------------------------------------
(* The shape of the turns.                                                  *)

\* One caller's turn becomes t.
Becomes(c, t) == turn' = [turn EXCEPT ![c] = t]

Well(t) == t \in TurnState /\ Usable(t)

LEMMA EndedWell ==
  ASSUME NEW outcome \in Outcome
  PROVE  Well(Ended(outcome)) /\ Ended(outcome).pc = "idle"
  BY DEF Well, Ended, TurnState, Usable

LEMMA FreshWell ==
  ASSUME NEW entry \in Nat, NEW try \in Nat, NEW retryable \in BOOLEAN
  PROVE  Well(Fresh(entry, try, retryable)) /\ Fresh(entry, try, retryable).pc = "model"
<1>1. Ended("none") \in TurnState /\ "none" \in Outcome
  BY EndedWell DEF Well, Outcome
<1>. QED  BY <1>1 DEF Fresh, Well, TurnState, Usable

LEMMA NextCallNat ==
  ASSUME TypeOK, NEW c \in Callers
  PROVE  NextCall(c) \in Nat
  BY DEF NextCall, TypeOK, TurnState

LEMMA ProceedWell ==
  ASSUME NEW t \in TurnState, t.batch # <<>>
  PROVE  Well(Proceed(t)) /\ Proceed(t).pc \in {"model", "batch"}
<1>. DEFINE rest == Tail(t.batch)
            p == IF rest = <<>> THEN "model" ELSE "batch"
<1>1. rest \in Seq(Calls) /\ p \in {"model", "batch"} /\ (p = "batch" => rest # <<>>)
  BY DEF TurnState
<1>2. Proceed(t) = [t EXCEPT !.batch = rest, !.pc = p]
  BY DEF Proceed
<1>. HIDE DEF rest, p
<1>. QED  BY <1>1, <1>2 DEF Well, TurnState, Usable

\* Every action that leaves the ledger alone gives its caller a turn that
\* claims nothing.
Quiet(c) == \E t : Well(t) /\ Becomes(c, t) /\ ~(t.pc \in {"call", "acted"} /\ Head(t.batch) \in Effects)

LEMMA QuietEnd ==
  ASSUME NEW c \in Callers, NEW outcome \in Outcome, End(c, outcome)
  PROVE  Quiet(c)
  BY EndedWell DEF End, Quiet, Becomes

LEMMA QuietFresh ==
  ASSUME NEW c \in Callers, NEW entry \in Nat, NEW try \in Nat, NEW retryable \in BOOLEAN,
         turn' = [turn EXCEPT ![c] = Fresh(entry, try, retryable)]
  PROVE  Quiet(c)
  BY FreshWell DEF Quiet, Becomes

LEMMA QuietProceed ==
  ASSUME NEW c \in Callers, NEW t \in TurnState, t.batch # <<>>,
         turn' = [turn EXCEPT ![c] = Proceed(t)]
  PROVE  Quiet(c)
  BY ProceedWell DEF Quiet, Becomes

LEMMA LoopQuiet ==
  ASSUME Shaped, NEW c \in Callers, Begin(c) \/ Loop(c) \/ Crash(c)
  PROVE  Quiet(c)
<1>. USE TurnAssumption
<1>0. turn[c] \in TurnState /\ Usable(turn[c]) /\ turn \in [Callers -> TurnState]
  BY DEF Shaped, TypeOK, TurnsOK
<1>1. CASE Begin(c)
  BY <1>1, QuietFresh DEF Begin
<1>2. CASE CeilingReached(c)
  <2>. DEFINE t == [Ended("ceiling") EXCEPT !.entry = turn[c].entry]
  <2>1. Ended("ceiling") \in TurnState /\ Ended("ceiling").pc = "idle"
    BY EndedWell DEF Outcome, Well
  <2>2. turn[c].entry \in Nat
    BY <1>0 DEF TurnState
  <2>3. Well(t) /\ t.pc = "idle"
    BY <2>1, <2>2 DEF Well, TurnState, Usable
  <2>4. Becomes(c, t)
    BY <1>2 DEF CeilingReached, Becomes
  <2>. HIDE DEF t
  <2>. QED  BY <2>3, <2>4 DEF Quiet
<1>3. CASE AnswersTools(c)
  <2>0. PICK n \in 1..MaxBatch : \E b \in [1..n -> Calls] :
          turn' = [turn EXCEPT ![c].pc = "batch", ![c].models = turn[c].models + 1, ![c].batch = b]
    BY <1>3 DEF AnswersTools
  <2>1. PICK batch \in [1..n -> Calls] :
          turn' = [turn EXCEPT ![c].pc = "batch", ![c].models = turn[c].models + 1, ![c].batch = batch]
    BY <2>0
  <2>. DEFINE m == turn[c].models + 1
              t == [turn[c] EXCEPT !.pc = "batch", !.models = m, !.batch = batch]
  <2>2. batch \in Seq(Calls) /\ batch # <<>>
    OBVIOUS
  <2>3. Becomes(c, t)
    BY <1>0, <2>1 DEF Becomes
  <2>4. Well(t) /\ t.pc = "batch"
    <3>1. m \in Nat
      BY <1>0 DEF TurnState
    <3>. HIDE DEF m
    <3>. QED  BY <1>0, <2>2, <3>1 DEF Well, TurnState, Usable
  <2>. HIDE DEF t
  <2>. QED  BY <2>3, <2>4 DEF Quiet
<1>4. CASE AnswersValid(c)
  <2>. DEFINE t == [Ended("returned") EXCEPT !.recorded = turn[c].recorded,
                                             !.repairs = turn[c].repairs]
  <2>1. Ended("returned") \in TurnState /\ Ended("returned").pc = "idle"
    BY EndedWell DEF Outcome, Well
  <2>2. Well(t) /\ t.pc = "idle"
    BY <1>0, <2>1 DEF Well, TurnState, Usable
  <2>3. Becomes(c, t)
    BY <1>4 DEF AnswersValid, Becomes
  <2>. HIDE DEF t
  <2>. QED  BY <2>2, <2>3 DEF Quiet
<1>5. CASE AnswersInvalid(c)
  <2>1. CASE End(c, "invalid")
    BY <2>1, QuietEnd DEF Outcome
  <2>2. CASE turn' = [turn EXCEPT ![c].models = turn[c].models + 1, ![c].repairs = turn[c].repairs + 1]
    <3>. DEFINE m == turn[c].models + 1
                r == turn[c].repairs + 1
                t == [turn[c] EXCEPT !.models = m, !.repairs = r]
    <3>1. m \in Nat /\ r \in Nat
      BY <1>0 DEF TurnState
    <3>2. Becomes(c, t)
      BY <1>0, <2>2 DEF Becomes
    <3>3. turn[c].pc = "model"
      BY <1>5 DEF AnswersInvalid, CanAsk, At
    <3>4. Well(t) /\ t.pc = "model"
      <4>. HIDE DEF m, r
      <4>. QED  BY <1>0, <3>1, <3>3 DEF Well, TurnState, Usable
    <3>. HIDE DEF t
    <3>. QED  BY <3>2, <3>4 DEF Quiet
  <2>. QED  BY <1>5, <2>1, <2>2 DEF AnswersInvalid
<1>6. CASE AnswersNothing(c)
  <2>. DEFINE m == turn[c].models + 1
              n == NextCall(c)
              t == [turn[c] EXCEPT !.models = m, !.calls = n]
  <2>1. m \in Nat /\ n \in Nat
    BY <1>0, NextCallNat DEF TurnState, Shaped
  <2>2. Becomes(c, t)
    BY <1>0, <1>6 DEF Becomes, AnswersNothing
  <2>3. turn[c].pc = "model"
    BY <1>6 DEF AnswersNothing, CanAsk, At
  <2>4. Well(t) /\ t.pc = "model"
    <3>. HIDE DEF m, n
    <3>. QED  BY <1>0, <2>1, <2>3 DEF Well, TurnState, Usable
  <2>. HIDE DEF t
  <2>. QED  BY <2>2, <2>4 DEF Quiet
<1>7. CASE ProviderFails(c)
  <2>1. PICK retryable \in BOOLEAN :
           LET t == turn[c]
               hope == t.retryable \/ retryable
           IN \/ turn' = [turn EXCEPT ![c] = Fresh(t.entry, t.try + 1, t.retryable)]
              \/ turn' = [turn EXCEPT ![c] = Fresh(t.entry + 1, 0, hope)]
              \/ End(c, IF hope THEN "transient" ELSE "failed")
    BY <1>7, Zenon DEF ProviderFails
  <2>2. /\ turn[c].entry \in Nat
        /\ turn[c].try + 1 \in Nat
        /\ turn[c].entry + 1 \in Nat
        /\ turn[c].retryable \in BOOLEAN
    BY <1>0 DEF TurnState
  <2>3. (turn[c].retryable \/ retryable) \in BOOLEAN
    BY <2>2
  <2>4. (IF turn[c].retryable \/ retryable THEN "transient" ELSE "failed") \in Outcome
    BY DEF Outcome
  <2>5. 0 \in Nat
    OBVIOUS
  <2>. QED  BY <2>1, <2>2, <2>3, <2>4, <2>5, QuietFresh, QuietEnd, Zenon
<1>8. CASE TurnBreaks(c)
  BY <1>8, QuietEnd DEF TurnBreaks, Outcome
<1>9. CASE Crash(c)
  BY <1>9, QuietEnd DEF Crash, Outcome
<1>. QED  BY <1>1, <1>2, <1>3, <1>4, <1>5, <1>6, <1>7, <1>8, <1>9 DEF Loop

-----------------------------------------------------------------------------
(* What one call does to the ledger and to the effects.                     *)

\* The key that a turn claims.
Claimed(t) == <<t.calls, Head(t.batch)>>

\* c takes the claim of k, does its effect, or resolves it.
Takes(c, k) ==
    /\ Claimable(ledger[k])
    /\ ledger' = [ledger EXCEPT ![k] = "STARTED"]
    /\ effects' = effects
    /\ \E t : Well(t) /\ Becomes(c, t) /\ t.pc = "call" /\ Claimed(t) = k

Does(c, k) ==
    /\ Holds(c, k)
    /\ At(c, "call")
    /\ ledger' = ledger
    /\ effects' = [effects EXCEPT ![k] = effects[k] + 1]
    /\ \E t : Well(t) /\ Becomes(c, t) /\ t.pc = "acted" /\ Claimed(t) = k

Frees(c, k) ==
    /\ Holds(c, k)
    /\ effects' = effects
    /\ \E status \in {"SUCCEEDED", "FAILED"} :
        /\ ledger' = [ledger EXCEPT ![k] = IF ledger[k] = "STARTED" THEN status ELSE ledger[k]]
        /\ status = "SUCCEEDED" => At(c, "acted")
        /\ status = "FAILED" => At(c, "call") \/ k[2] \in Timeouts
    /\ Quiet(c)

Rests(c) == Quiet(c) /\ UNCHANGED <<ledger, effects>>

LEMMA CountedTyped ==
  ASSUME Shaped, NEW c \in Callers
  PROVE  /\ Counted(c) \in TurnState
         /\ Counted(c).batch = turn[c].batch
         /\ Counted(c).calls = NextCall(c)
<1>. DEFINE n == NextCall(c)
<1>1. turn[c] \in TurnState /\ n \in Nat
  BY NextCallNat DEF Shaped, TypeOK
<1>2. Counted(c) = [turn[c] EXCEPT !.calls = n]
  BY DEF Counted
<1>. HIDE DEF n
<1>3. Counted(c) \in TurnState /\ Counted(c).batch = turn[c].batch /\ Counted(c).calls = n
  BY <1>1, <1>2 DEF TurnState
<1>. QED  BY <1>3 DEF n

\* A permitted call is one of the budget.
LEMMA PermittedCall ==
  ASSUME Shaped, NEW c \in Callers, Permitted(c)
  PROVE  /\ turn[c].batch # <<>> /\ At(c, "batch")
         /\ NextCall(c) \in 1..MaxToolCalls
<1>1. turn[c] \in TurnState /\ Usable(turn[c]) /\ turn[c].pc = "batch" /\ NextCall(c) <= MaxToolCalls
  BY DEF Shaped, TypeOK, TurnsOK, Permitted, At
<1>2. turn[c].batch # <<>> /\ At(c, "batch")
  BY <1>1 DEF Usable, At
<1>3. turn[c].calls \in Nat /\ MaxToolCalls \in Nat
  BY <1>1, TurnAssumption DEF TurnState, TurnAssumption
<1>4. NextCall(c) \in 1..MaxToolCalls
  BY <1>1, <1>3 DEF NextCall
<1>. QED  BY <1>2, <1>4

LEMMA CallMoves ==
  ASSUME Shaped, NEW c \in Callers, Call(c)
  PROVE  /\ Rests(c) \/ \E k \in Keys : Takes(c, k) \/ Does(c, k) \/ Frees(c, k)
         /\ begun' = begun
<1>. USE TurnAssumption
<1>0. /\ turn[c] \in TurnState /\ Usable(turn[c]) /\ turn \in [Callers -> TurnState]
  BY DEF Shaped, TypeOK, TurnsOK
<1>1. CASE Declined(c)
  <2>2. Counted(c) \in TurnState /\ Counted(c).batch # <<>>
    BY <1>0, <1>1, CountedTyped DEF Declined, At, Usable
  <2>3. Quiet(c)
    BY <1>1, <2>2, QuietProceed DEF Declined
  <2>. QED  BY <1>0, <1>1, <2>3 DEF Declined, Rests
<1>2. CASE CallsRead(c)
  <2>. DEFINE n == NextCall(c)
              t == [turn[c] EXCEPT !.pc = "call", !.calls = n]
  <2>1. /\ n \in Nat /\ n \in 1..MaxToolCalls /\ turn[c].batch # <<>>
        /\ Tool(c) \in Reads /\ Tool(c) \notin Effects
    BY <1>2, NextCallNat, PermittedCall DEF CallsRead, Shaped, TurnAssumption
  <2>2. Well(t) /\ t.pc = "call" /\ Head(t.batch) \notin Effects
    <3>. HIDE DEF n
    <3>. QED  BY <1>0, <2>1 DEF Well, Tool, Usable, TurnState
  <2>3. Becomes(c, t)
    BY <1>0, <1>2 DEF CallsRead, Becomes
  <2>4. Quiet(c)
    <3>. HIDE DEF t
    <3>. QED  BY <2>2, <2>3 DEF Quiet
  <2>. QED  BY <1>0, <1>2, <2>4 DEF CallsRead, Rests
<1>3. CASE Claims(c)
  <2>. DEFINE k == ClaimedKey(c)
              t == [Counted(c) EXCEPT !.pc = "call"]
  <2>1. At(c, "batch") /\ Tool(c) \in Effects /\ turn[c].batch # <<>>
    BY <1>0, <1>3 DEF Claims, Permitted, At, Usable
  <2>2. NextCall(c) \in 1..MaxToolCalls /\ k \in Keys
    BY <1>3, PermittedCall DEF Claims, ClaimedKey, Keys
  <2>3. Well(t) /\ t.pc = "call" /\ Claimed(t) = k
    BY <2>1, <2>2, CountedTyped DEF Well, Usable, TurnState, Claimed, ClaimedKey, Tool
  <2>4. Becomes(c, t)
    BY <1>3 DEF Claims, Becomes
  <2>. HIDE DEF t
  <2>5. Takes(c, k)
    BY <1>3, <2>3, <2>4 DEF Claims, Takes
  <2>. QED  BY <1>3, <2>1, <2>2, <2>5, CountedTyped DEF Claims
<1>4. CASE Replays(c)
  <2>. DEFINE r == Counted(c).recorded + 1
              t == [Counted(c) EXCEPT !.recorded = r]
  <2>1. At(c, "batch") /\ Tool(c) \in Effects /\ turn[c].batch # <<>>
    BY <1>0, <1>4 DEF Replays, Permitted, At, Usable
  <2>2. Counted(c) \in TurnState /\ r \in Nat
    BY <2>1, CountedTyped DEF TurnState
  <2>3. t \in TurnState /\ t.batch # <<>>
    <3>. HIDE DEF r
    <3>. QED  BY <2>1, <2>2, CountedTyped DEF TurnState
  <2>4. Quiet(c)
    <3>1. CASE turn' = [turn EXCEPT ![c] = Proceed(t)]
      BY <2>3, <3>1, QuietProceed
    <3>2. CASE turn' = [turn EXCEPT ![c] = Ended("failed")]
      BY <3>2, QuietEnd DEF End, Outcome
    <3>. QED  BY <1>4, <3>1, <3>2 DEF Replays
  <2>. QED  BY <1>4, <2>1, <2>4, CountedTyped DEF Replays, Rests
<1>5. CASE RefusesUnresolved(c)
  <2>1. Quiet(c)
    BY <1>5, QuietEnd DEF RefusesUnresolved, Outcome
  <2>2. At(c, "batch") /\ Tool(c) \in Effects
    BY <1>5 DEF RefusesUnresolved, Permitted
  <2>. QED  BY <1>5, <2>1, <2>2, CountedTyped DEF RefusesUnresolved, Rests
<1>6. CASE Acts(c)
  <2>. DEFINE k == Key(c)
              t == [turn[c] EXCEPT !.pc = "acted"]
  <2>1. k \in Keys /\ Holds(c, k) /\ At(c, "call") /\ Tool(c) \in Effects
    BY <1>0, <1>6 DEF Acts, At, Usable, Key, Keys, Holds
  <2>2. Well(t) /\ t.pc = "acted" /\ Claimed(t) = k
    BY <1>0, <2>1 DEF Well, Usable, TurnState, Claimed, Key, Tool, At
  <2>3. Becomes(c, t)
    BY <1>0, <1>6 DEF Acts, Becomes
  <2>. HIDE DEF t
  <2>. QED  BY <1>0, <1>6, <2>1, <2>2, <2>3 DEF Acts, Does
<1>7. ASSUME At(c, "call") \/ At(c, "acted"), NEW status \in {"SUCCEEDED", "FAILED"},
             NEW next, Well(next), next.pc \in {"idle", "model", "batch"},
             Resolves(c, status, next),
             status = "SUCCEEDED" => At(c, "acted") \/ Tool(c) \in Reads,
             status = "FAILED" => At(c, "call") \/ Tool(c) \in Timeouts,
             effects' = effects
      PROVE  Rests(c) \/ \E k \in Keys : Frees(c, k)
  <2>1. CASE Tool(c) \in Effects
    <3>. DEFINE k == Key(c)
    <3>1. k \in Keys /\ Holds(c, k)
      BY <1>0, <1>7, <2>1 DEF At, Usable, Key, Keys, Holds
    <3>2. Quiet(c)
      <4>1. CASE ledger[k] = "STARTED"
        BY <1>7, <2>1, <4>1 DEF Resolves, Quiet, Becomes
      <4>2. CASE ledger[k] # "STARTED"
        <5>1. End(c, "failed")
          BY <1>7, <2>1, <4>2 DEF Resolves, End
        <5>. QED  BY <5>1, QuietEnd DEF Outcome
      <4>. QED  BY <4>1, <4>2
    <3>3. ledger' = [ledger EXCEPT ![k] = IF ledger[k] = "STARTED" THEN status ELSE ledger[k]]
      BY <1>7, <2>1 DEF Resolves
    <3>4. status = "FAILED" => At(c, "call") \/ k[2] \in Timeouts
      BY <1>7 DEF Key
    <3>5. status = "SUCCEEDED" => At(c, "acted")
      BY <1>7, <2>1
    <3>6. Frees(c, k)
      <4>. HIDE DEF k
      <4>. QED  BY <1>7, <3>1, <3>2, <3>3, <3>4, <3>5 DEF Frees
    <3>. QED  BY <3>1, <3>6
  <2>2. CASE Tool(c) \notin Effects
    BY <1>7, <2>2 DEF Resolves, Rests, Quiet, Becomes
  <2>. QED  BY <2>1, <2>2
<1>8. ASSUME At(c, "call") \/ At(c, "acted")
      PROVE  turn[c].batch # <<>> /\ Well(Proceed(turn[c])) /\ Proceed(turn[c]).pc \in {"model", "batch"}
  BY <1>0, <1>8, ProceedWell DEF At, Usable
<1>9. CASE Returns(c)
  <2>. DEFINE t == [turn[c] EXCEPT !.recorded = turn[c].recorded + 1]
  <2>1. PICK next \in {Proceed(t), Ended("failed")} : Resolves(c, "SUCCEEDED", next)
    BY <1>9 DEF Returns
  <2>2. t \in TurnState /\ t.batch # <<>>
    <3>. DEFINE r == turn[c].recorded + 1
    <3>1. r \in Nat /\ turn[c].batch # <<>>
      BY <1>0, <1>8, <1>9 DEF TurnState, Returns
    <3>2. t = [turn[c] EXCEPT !.recorded = r]
      OBVIOUS
    <3>. HIDE DEF r, t
    <3>. QED  BY <1>0, <3>1, <3>2 DEF TurnState
  <2>. HIDE DEF t
  <2>3. Well(next) /\ next.pc \in {"idle", "model", "batch"}
    BY <2>2, ProceedWell, EndedWell DEF Outcome
  <2>. QED  BY <1>0, <1>7, <1>9, <2>1, <2>3 DEF Returns
<1>10. CASE Raises(c)
  <2>1. PICK next \in {Proceed(turn[c]), Ended("transient"), Ended("failed")} :
          Resolves(c, "FAILED", next)
    BY <1>10 DEF Raises
  <2>2. Well(next) /\ next.pc \in {"idle", "model", "batch"}
    BY <1>8, <1>10, EndedWell DEF Raises, Outcome
  <2>. QED  BY <1>0, <1>7, <1>10, <2>1, <2>2 DEF Raises
<1>11. CASE OutcomeUnknown(c)
  BY <1>0, <1>11, QuietEnd DEF OutcomeUnknown, Outcome, Rests
<1>12. CASE CancelledSafely(c)
  <2>1. Well(Ended("none")) /\ Ended("none").pc = "idle"
    BY EndedWell DEF Outcome
  <2>. QED  BY <1>0, <1>7, <1>12, <2>1 DEF CancelledSafely
<1>. QED
  BY <1>1, <1>2, <1>3, <1>4, <1>5, <1>6, <1>9, <1>10, <1>11, <1>12 DEF Call

-----------------------------------------------------------------------------
(* The invariant.                                                           *)

\* A turn that becomes t leaves the other turns as they are.
LEMMA Others ==
  ASSUME TypeOK, NEW c \in Callers, NEW t, Becomes(c, t)
  PROVE  turn'[c] = t /\ \A d \in Callers : d # c => turn'[d] = turn[d]
  BY DEF TypeOK, Becomes

\* The claims of the other callers stay, and those of c are what its turn says.
LEMMA HoldsMoves ==
  ASSUME TypeOK, NEW c \in Callers, NEW t, Becomes(c, t), NEW k
  PROVE  /\ Holds(c, k)' <=> t.pc \in {"call", "acted"} /\ Head(t.batch) \in Effects /\ Claimed(t) = k
         /\ At(c, "call")' <=> t.pc = "call"
         /\ At(c, "acted")' <=> t.pc = "acted"
         /\ \A d \in Callers : d # c =>
              /\ Holds(d, k)' <=> Holds(d, k)
              /\ At(d, "call")' <=> At(d, "call")
              /\ At(d, "acted")' <=> At(d, "acted")
  BY Others DEF Holds, At, Key, Tool, Claimed

LEMMA TurnsStay ==
  ASSUME Shaped, NEW c \in Callers, NEW t, Well(t), Becomes(c, t)
  PROVE  turn' \in [Callers -> TurnState] /\ TurnsOK'
<1>1. turn' \in [Callers -> TurnState]
  BY DEF Shaped, TypeOK, Becomes, Well
<1>2. ASSUME NEW d \in Callers PROVE Usable(turn'[d])
  BY Others, d = c \/ d # c DEF Shaped, TurnsOK, Well
<1>. QED  BY <1>1, <1>2 DEF TurnsOK

LEMMA InitShaped == Init => Shaped
<1>. SUFFICES ASSUME Init PROVE Shaped
  OBVIOUS
<1>1. Well(Ended("none"))
  BY EndedWell DEF Outcome
<1>2. turn \in [Callers -> TurnState] /\ TurnsOK
  BY <1>1 DEF Init, Well, TurnsOK
<1>. QED  BY <1>2 DEF Init, Shaped, TypeOK, Settled

\* What a step of c does, with the ledger and the effects typed.
LEMMA Moves ==
  ASSUME Shaped, NEW c \in Callers, Begin(c) \/ Loop(c) \/ Call(c) \/ Crash(c)
  PROVE  /\ Rests(c) \/ \E k \in Keys : Takes(c, k) \/ Does(c, k) \/ Frees(c, k)
         /\ begun' \in Nat
<1>0. begun \in Nat
  BY DEF Shaped, TypeOK
<1>1. CASE Call(c)
  BY <1>0, <1>1, CallMoves
<1>2. CASE Begin(c) \/ Loop(c) \/ Crash(c)
  <2>1. Quiet(c)
    BY <1>2, LoopQuiet
  <2>2. CASE Begin(c)
    BY <1>0, <2>1, <2>2 DEF Begin, Rests
  <2>3. CASE Loop(c)
    BY <1>0, <2>1, <2>3 DEF Loop, CeilingReached, AnswersTools, AnswersValid, AnswersInvalid,
                            AnswersNothing, ProviderFails, TurnBreaks, Rests
  <2>4. CASE Crash(c)
    BY <1>0, <2>1, <2>4 DEF Crash, Rests
  <2>. QED  BY <1>2, <2>2, <2>3, <2>4
<1>. QED  BY <1>1, <1>2

LEMMA ShapedStep ==
  ASSUME Shaped, NEW c \in Callers, Begin(c) \/ Loop(c) \/ Call(c) \/ Crash(c)
  PROVE  Shaped'
<1>0. ledger \in [Keys -> Settled \cup {"STARTED"}] /\ effects \in [Keys -> Nat]
  BY DEF Shaped, TypeOK
<1>1. turn' \in [Callers -> TurnState] /\ TurnsOK'
  BY Moves, TurnsStay DEF Rests, Quiet, Takes, Does, Frees
<1>2. ledger' \in [Keys -> Settled \cup {"STARTED"}] /\ effects' \in [Keys -> Nat]
  <2>1. CASE Rests(c)
    BY <1>0, <2>1 DEF Rests
  <2>2. ASSUME NEW k \in Keys, Takes(c, k) PROVE <1>2
    BY <1>0, <2>2 DEF Takes
  <2>3. ASSUME NEW k \in Keys, Does(c, k) PROVE <1>2
    BY <1>0, <2>3 DEF Does
  <2>4. ASSUME NEW k \in Keys, Frees(c, k) PROVE <1>2
    BY <1>0, <2>4 DEF Frees, Settled
  <2>. QED  BY <2>1, <2>2, <2>3, <2>4, Moves
<1>. QED  BY <1>1, <1>2, Moves DEF Shaped, TypeOK

\* What the two parts of the invariant say of one key, together.
KeyOK(k) ==
    /\ \A c \in Callers : Holds(c, k) =>
        /\ ledger[k] = "STARTED"
        /\ \A d \in Callers : Holds(d, k) => d = c
    /\ k[2] \notin Timeouts => EffectKnown(k)

LEMMA KeysOK == IInv <=> Shaped /\ \A k \in Keys : KeyOK(k)
  BY DEF IInv, ClaimHeld, EffectsKnown, KeyOK

\* A turn that claims nothing holds nothing.
LEMMA QuietHolds ==
  ASSUME TypeOK, NEW c \in Callers, Quiet(c), NEW k
  PROVE  /\ ~Holds(c, k)'
         /\ \A d \in Callers : d # c =>
              /\ Holds(d, k)' <=> Holds(d, k)
              /\ At(d, "call")' <=> At(d, "call")
              /\ At(d, "acted")' <=> At(d, "acted")
<1>1. PICK t : Well(t) /\ Becomes(c, t) /\ ~(t.pc \in {"call", "acted"} /\ Head(t.batch) \in Effects)
  BY DEF Quiet
<1>. QED  BY <1>1, HoldsMoves

LEMMA RestsKeyOK ==
  ASSUME Shaped, NEW c \in Callers, Rests(c), NEW k \in Keys, KeyOK(k)
  PROVE  KeyOK(k)'
<1>1. Quiet(c) /\ TypeOK /\ ledger' = ledger /\ effects' = effects
  BY DEF Rests, Shaped
<1>. QED  BY <1>1, QuietHolds DEF KeyOK, EffectKnown

LEMMA TakesKeyOK ==
  ASSUME Shaped, NEW c \in Callers, NEW i \in Keys, Takes(c, i), NEW k \in Keys, KeyOK(k)
  PROVE  KeyOK(k)'
<1>1. PICK t : Well(t) /\ Becomes(c, t) /\ t.pc = "call" /\ Claimed(t) = i
  BY DEF Takes
<1>2. TypeOK /\ ledger' = [ledger EXCEPT ![i] = "STARTED"] /\ effects' = effects
      /\ ledger[i] \in {"none", "FAILED"}
  BY DEF Takes, Shaped, Claimable
<1>3. ledger'[i] = "STARTED" /\ (k # i => ledger'[k] = ledger[k])
  BY <1>2 DEF TypeOK
<1>4. CASE k = i
  <2>1. \A d \in Callers : ~Holds(d, k)
    BY <1>2, <1>4 DEF KeyOK
  <2>2. \A d \in Callers : Holds(d, k)' => d = c
    BY <1>1, <1>2, <2>1, HoldsMoves
  <2>3. k[2] \notin Timeouts => effects[k] = 0
    BY <1>2, <1>4 DEF KeyOK, EffectKnown
  <2>4. At(c, "call")' /\ ~At(c, "acted")'
    BY <1>1, <1>2, HoldsMoves
  <2>. QED  BY <1>2, <1>3, <1>4, <2>2, <2>3, <2>4 DEF KeyOK, EffectKnown
<1>5. CASE k # i
  <2>1. ~Holds(c, k)'
    BY <1>1, <1>2, <1>5, HoldsMoves
  <2>2. \A d \in Callers : d # c =>
              /\ Holds(d, k)' <=> Holds(d, k)
              /\ At(d, "call")' <=> At(d, "call")
              /\ At(d, "acted")' <=> At(d, "acted")
    BY <1>1, <1>2, HoldsMoves
  <2>. QED  BY <1>2, <1>3, <1>5, <2>1, <2>2 DEF KeyOK, EffectKnown
<1>. QED  BY <1>4, <1>5

LEMMA DoesKeyOK ==
  ASSUME Shaped, NEW c \in Callers, NEW i \in Keys, Does(c, i), NEW k \in Keys, KeyOK(k)
  PROVE  KeyOK(k)'
<1>1. PICK t : Well(t) /\ Becomes(c, t) /\ t.pc = "acted" /\ Claimed(t) = i
  BY DEF Does
<1>2. /\ TypeOK /\ ledger' = ledger /\ effects' = [effects EXCEPT ![i] = effects[i] + 1]
      /\ Holds(c, i) /\ At(c, "call")
  BY DEF Does, Shaped
<1>3. effects'[i] = effects[i] + 1 /\ (k # i => effects'[k] = effects[k])
  BY <1>2 DEF TypeOK
<1>4. CASE k = i
  <2>1. ledger[k] = "STARTED" /\ \A d \in Callers : Holds(d, k) => d = c
    BY <1>2, <1>4 DEF KeyOK
  <2>2. \A d \in Callers : Holds(d, k)' => d = c
    BY <1>1, <1>2, <2>1, HoldsMoves
  <2>3. k[2] \notin Timeouts => effects[k] = 0
    BY <1>2, <1>4 DEF KeyOK, EffectKnown
  <2>4. ~At(c, "call")'
    BY <1>1, <1>2, HoldsMoves
  <2>5. k[2] \notin Timeouts => effects'[k] = 1
    BY <1>3, <1>4, <2>3
  <2>. QED  BY <1>2, <2>1, <2>2, <2>4, <2>5 DEF KeyOK, EffectKnown
<1>5. CASE k # i
  <2>1. ~Holds(c, k)'
    BY <1>1, <1>2, <1>5, HoldsMoves
  <2>2. \A d \in Callers : d # c =>
              /\ Holds(d, k)' <=> Holds(d, k)
              /\ At(d, "call")' <=> At(d, "call")
              /\ At(d, "acted")' <=> At(d, "acted")
    BY <1>1, <1>2, HoldsMoves
  <2>. QED  BY <1>2, <1>3, <1>5, <2>1, <2>2 DEF KeyOK, EffectKnown
<1>. QED  BY <1>4, <1>5

LEMMA FreesKeyOK ==
  ASSUME Shaped, NEW c \in Callers, NEW i \in Keys, Frees(c, i), NEW k \in Keys, KeyOK(k)
  PROVE  KeyOK(k)'
<1>1. PICK status \in {"SUCCEEDED", "FAILED"} :
        /\ ledger' = [ledger EXCEPT ![i] = IF ledger[i] = "STARTED" THEN status ELSE ledger[i]]
        /\ status = "SUCCEEDED" => At(c, "acted")
        /\ status = "FAILED" => At(c, "call") \/ i[2] \in Timeouts
  BY DEF Frees
<1>2. TypeOK /\ effects' = effects /\ Holds(c, i) /\ Quiet(c)
  BY DEF Frees, Shaped
<1>3. /\ ~Holds(c, k)'
      /\ \A d \in Callers : d # c =>
              /\ Holds(d, k)' <=> Holds(d, k)
              /\ At(d, "call")' <=> At(d, "call")
              /\ At(d, "acted")' <=> At(d, "acted")
  BY <1>2, QuietHolds
<1>4. CASE k = i
  <2>1. ledger[k] = "STARTED" /\ \A d \in Callers : Holds(d, k) => d = c
    BY <1>2, <1>4 DEF KeyOK
  <2>2. \A d \in Callers : ~Holds(d, k)'
    BY <1>3, <2>1
  <2>3. ledger'[k] = status
    BY <1>1, <1>2, <1>4, <2>1 DEF TypeOK
  <2>4. k[2] \notin Timeouts => /\ status = "SUCCEEDED" => effects[k] = 1
                                /\ status = "FAILED" => effects[k] = 0
    BY <1>1, <1>2, <1>4 DEF KeyOK, EffectKnown
  <2>. QED  BY <1>1, <1>2, <2>2, <2>3, <2>4 DEF KeyOK, EffectKnown
<1>5. CASE k # i
  <2>1. ledger'[k] = ledger[k]
    BY <1>1, <1>2, <1>5 DEF TypeOK
  <2>. QED  BY <1>2, <1>3, <2>1 DEF KeyOK, EffectKnown
<1>. QED  BY <1>4, <1>5

\* The invariant is inductive: a caller claims a key only when its effect never
\* happened, does it while its claim stands, and resolves it to what happened.
THEOREM Inductive == Spec => []IInv
<1>1. Init => IInv
  <2>. SUFFICES ASSUME Init PROVE Shaped /\ \A k \in Keys : KeyOK(k)
    BY KeysOK
  <2>1. \A c \in Callers : turn[c].pc = "idle"
    BY EndedWell DEF Init, Outcome
  <2>2. ASSUME NEW k \in Keys PROVE KeyOK(k)
    BY <2>1 DEF Init, KeyOK, EffectKnown, Holds
  <2>. QED  BY <2>2, InitShaped
<1>2. IInv /\ [Next]_vars => IInv'
  <2>. SUFFICES ASSUME IInv, [Next]_vars PROVE IInv'
    OBVIOUS
  <2>0. Shaped /\ \A k \in Keys : KeyOK(k)
    BY KeysOK
  <2>1. CASE UNCHANGED vars
    BY <2>1 DEF vars, IInv, Shaped, TypeOK, TurnsOK, Usable, ClaimHeld, EffectsKnown,
                EffectKnown, Holds, At, Key, Tool
  <2>2. ASSUME NEW c \in Callers, Begin(c) \/ Loop(c) \/ Call(c) \/ Crash(c)
        PROVE  IInv'
    <3>1. Shaped'
      BY <2>0, <2>2, ShapedStep
    <3>2. ASSUME NEW k \in Keys PROVE KeyOK(k)'
      BY <2>0, <2>2, Moves, RestsKeyOK, TakesKeyOK, DoesKeyOK, FreesKeyOK
    <3>. QED  BY <3>1, <3>2 DEF IInv, ClaimHeld, EffectsKnown, KeyOK
  <2>. QED  BY <2>1, <2>2 DEF Next
<1>. QED  BY <1>1, <1>2, PTL DEF Spec

\* Type correctness of the ledger and of the turns, from Inductive.
THEOREM TurnTypeCorrect == Spec => []TypeOK
<1>1. IInv => TypeOK
  BY DEF IInv, Shaped
<1>. QED  BY <1>1, Inductive, PTL

\* A claim has one holder and stays STARTED until that holder resolves it, so
\* that _record always finds the row it claimed.
THEOREM ClaimsAreHeld == Spec => []ClaimHeld
<1>1. IInv => ClaimHeld
  BY DEF IInv
<1>. QED  BY <1>1, Inductive, PTL

\* Retries, fallbacks, crashes and concurrent callers fire the effect of one
\* logical invocation at most once.
THEOREM EffectsHappenOnce == Spec => []EffectAtMostOnce
<1>1. IInv => EffectAtMostOnce
  BY DEF IInv, EffectsKnown, EffectKnown, EffectAtMostOnce
<1>. QED  BY <1>1, Inductive, PTL

\* A recorded success happened exactly once and a claimable key never did.
THEOREM LedgerIsTruthful == Spec => []LedgerTruth
<1>1. IInv => LedgerTruth
  BY DEF IInv, EffectsKnown, EffectKnown, LedgerTruth
<1>. QED  BY <1>1, Inductive, PTL

\* A claim whose holder is gone is never resolved or taken over by another call.
THEOREM UnresolvedStay == Spec => UnresolvedStays
<1>1. IInv /\ [Next]_vars =>
        [\A k \in Keys : ledger[k] = "STARTED" /\ (\A c \in Callers : ~Holds(c, k))
            => ledger'[k] = "STARTED" /\ (\A c \in Callers : ~Holds(c, k)')]_vars
  <2>. SUFFICES ASSUME IInv, Next, NEW k \in Keys,
                       ledger[k] = "STARTED", \A c \in Callers : ~Holds(c, k)
                PROVE  ledger'[k] = "STARTED" /\ \A d \in Callers : ~Holds(d, k)'
    OBVIOUS
  <2>0. Shaped /\ TypeOK /\ ledger \in [Keys -> Settled \cup {"STARTED"}]
    BY DEF IInv, Shaped, TypeOK
  <2>1. PICK c \in Callers : Begin(c) \/ Loop(c) \/ Call(c) \/ Crash(c)
    BY DEF Next
  <2>2. CASE Rests(c)
    <3>1. PICK t : /\ Becomes(c, t)
                   /\ ~(t.pc \in {"call", "acted"} /\ Head(t.batch) \in Effects)
      BY <2>2 DEF Rests, Quiet
    <3>. QED  BY <2>0, <2>2, <3>1, HoldsMoves DEF Rests
  <2>3. ASSUME NEW i \in Keys, Takes(c, i)
        PROVE  ledger'[k] = "STARTED" /\ \A d \in Callers : ~Holds(d, k)'
    <3>1. i # k
      BY <2>3 DEF Takes, Claimable
    <3>2. PICK t : Becomes(c, t) /\ Claimed(t) = i
      BY <2>3 DEF Takes
    <3>3. ledger'[k] = "STARTED"
      BY <2>0, <2>3, <3>1 DEF Takes
    <3>. QED  BY <2>0, <3>1, <3>2, <3>3, HoldsMoves
  <2>4. ASSUME NEW i \in Keys, Does(c, i)
        PROVE  ledger'[k] = "STARTED" /\ \A d \in Callers : ~Holds(d, k)'
    <3>1. i # k
      BY <2>4 DEF Does
    <3>2. PICK t : Becomes(c, t) /\ Claimed(t) = i
      BY <2>4 DEF Does
    <3>. QED  BY <2>0, <2>4, <3>1, <3>2, HoldsMoves DEF Does
  <2>5. ASSUME NEW i \in Keys, Frees(c, i)
        PROVE  ledger'[k] = "STARTED" /\ \A d \in Callers : ~Holds(d, k)'
    <3>1. i # k
      BY <2>5 DEF Frees
    <3>2. PICK t : /\ Becomes(c, t)
                   /\ ~(t.pc \in {"call", "acted"} /\ Head(t.batch) \in Effects)
      BY <2>5 DEF Frees, Quiet
    <3>3. ledger'[k] = "STARTED"
      BY <2>0, <2>5, <3>1 DEF Frees
    <3>. QED  BY <2>0, <3>2, <3>3, HoldsMoves
  <2>. QED  BY <2>0, <2>1, <2>2, <2>3, <2>4, <2>5, Moves
<1>. QED  BY <1>1, Inductive, PTL DEF Spec, UnresolvedStays

-----------------------------------------------------------------------------
(* The budgets of a turn.                                                   *)

\* A turn that runs is within its budgets, and a provider that honours a forced
\* submit has been asked once per counted call and repair, and once more while the
\* first call of its response is not counted; a turn that ended tells the truth.
Budgeted(t) ==
    /\ t.pc # "idle" =>
        /\ t.outcome = "none"
        /\ t.repairs <= MaxRepairs
        /\ t.calls <= MaxToolCalls + 1
        /\ t.recorded <= t.calls /\ t.recorded <= MaxToolCalls
        /\ t.pc \in {"call", "acted"} => t.recorded < t.calls
        /\ t.entry \in Compliant =>
            \/ t.models <= t.calls + t.repairs
            \/ /\ t.pc = "batch" /\ t.calls < MaxToolCalls
               /\ t.models <= t.calls + t.repairs + 1
    /\ t.outcome = "ceiling" => t.entry \notin Compliant
    /\ t.outcome = "returned" => t.recorded <= MaxToolCalls /\ t.repairs <= MaxRepairs

AllBudgeted == \A c \in Callers : Budgeted(turn[c])

\* A step gives its caller a turn that is budgeted.
Keeps(c) == \E t : Becomes(c, t) /\ Budgeted(t)

LEMMA EndedBudgeted ==
  ASSUME NEW outcome \in Outcome \ {"ceiling", "returned"}
  PROVE  Budgeted(Ended(outcome))
  BY DEF Budgeted, Ended, Outcome

LEMMA KeepsEnd ==
  ASSUME NEW c \in Callers, NEW outcome \in Outcome \ {"ceiling", "returned"}, End(c, outcome)
  PROVE  Keeps(c)
  BY EndedBudgeted DEF Keeps, Becomes, End

LEMMA FreshBudgeted ==
  ASSUME NEW entry \in Nat, NEW try \in Nat, NEW retryable \in BOOLEAN
  PROVE  Budgeted(Fresh(entry, try, retryable))
  BY TurnAssumption DEF Budgeted, Fresh, Ended, TurnAssumption

LEMMA KeepsFresh ==
  ASSUME NEW c \in Callers, NEW entry \in Nat, NEW try \in Nat, NEW retryable \in BOOLEAN,
         turn' = [turn EXCEPT ![c] = Fresh(entry, try, retryable)]
  PROVE  Keeps(c)
  BY FreshBudgeted DEF Keeps, Becomes

\* What the next call's number is.
LEMMA NextCallIs ==
  ASSUME Shaped, NEW c \in Callers, Budgeted(turn[c]), ~At(c, "idle")
  PROVE  /\ NextCall(c) \in Nat
         /\ turn[c].calls <= NextCall(c)
         /\ NextCall(c) <= MaxToolCalls + 1
         /\ turn[c].calls <= MaxToolCalls => NextCall(c) = turn[c].calls + 1
<1>1. turn[c].calls \in Nat /\ MaxToolCalls \in Nat /\ turn[c].calls <= MaxToolCalls + 1
  BY TurnAssumption DEF Shaped, TypeOK, TurnState, Budgeted, At, TurnAssumption
<1>. QED  BY <1>1 DEF NextCall

\* A turn whose call is settled goes on to the next one.
LEMMA ProceedBudgeted ==
  ASSUME NEW t \in TurnState, Budgeted(t), t.pc # "idle", t.batch # <<>>,
         t.entry \in Compliant => t.models <= t.calls + t.repairs
  PROVE  Budgeted(Proceed(t))
<1>. DEFINE rest == Tail(t.batch)
            p == IF rest = <<>> THEN "model" ELSE "batch"
<1>1. rest \in Seq(Calls) /\ p \in {"model", "batch"}
  BY DEF TurnState
<1>2. Proceed(t) = [t EXCEPT !.batch = rest, !.pc = p]
  BY DEF Proceed
<1>. HIDE DEF rest, p
<1>3. /\ Proceed(t).pc = p /\ Proceed(t).outcome = t.outcome /\ Proceed(t).calls = t.calls
      /\ Proceed(t).repairs = t.repairs /\ Proceed(t).recorded = t.recorded
      /\ Proceed(t).entry = t.entry /\ Proceed(t).models = t.models
  BY <1>2 DEF TurnState
<1>. QED  BY <1>1, <1>3 DEF Budgeted

\* The call at the head of the batch is counted.
LEMMA CountedBudgeted ==
  ASSUME Shaped, NEW c \in Callers, Budgeted(turn[c]), At(c, "batch")
  PROVE  /\ Counted(c) \in TurnState /\ Budgeted(Counted(c)) /\ Counted(c).pc = "batch"
         /\ Counted(c).batch # <<>>
         /\ Counted(c).calls = NextCall(c)
         /\ Counted(c).recorded = turn[c].recorded
         /\ Counted(c).entry \in Compliant => Counted(c).models <= Counted(c).calls + Counted(c).repairs
<1>. DEFINE n == NextCall(c)
            t == Counted(c)
            u == turn[c]
<1>1. /\ u \in TurnState /\ u.batch # <<>> /\ u.pc = "batch"
  BY DEF Shaped, TypeOK, TurnsOK, Usable, At
<1>2. /\ n \in Nat /\ u.calls <= n /\ n <= MaxToolCalls + 1
      /\ u.calls <= MaxToolCalls => n = u.calls + 1
  BY <1>1, NextCallIs DEF At
<1>3. t = [u EXCEPT !.calls = n]
  BY DEF Counted
<1>. HIDE DEF n, t
<1>4. /\ t \in TurnState /\ t.pc = "batch" /\ t.outcome = u.outcome /\ t.calls = n
      /\ t.repairs = u.repairs /\ t.recorded = u.recorded
      /\ t.entry = u.entry /\ t.models = u.models /\ t.batch = u.batch
  BY <1>1, <1>2, <1>3 DEF TurnState
<1>5. /\ u.calls \in Nat /\ u.models \in Nat /\ u.repairs \in Nat /\ u.recorded \in Nat
      /\ MaxToolCalls \in Nat
  BY <1>1, TurnAssumption DEF TurnState, TurnAssumption
<1>6. u.entry \in Compliant => u.models <= n + u.repairs
  <2>1. CASE u.models <= u.calls + u.repairs
    BY <1>2, <1>5, <2>1
  <2>2. CASE u.calls < MaxToolCalls /\ u.models <= u.calls + u.repairs + 1
    BY <1>2, <1>5, <2>2
  <2>. QED  BY <1>1, <2>1, <2>2 DEF Budgeted
<1>7. Budgeted(t)
  BY <1>1, <1>2, <1>4, <1>5, <1>6 DEF Budgeted
<1>. QED  BY <1>1, <1>4, <1>6, <1>7 DEF t, n

LEMMA LoopBudgeted ==
  ASSUME Shaped, AllBudgeted, NEW c \in Callers, Begin(c) \/ Loop(c) \/ Crash(c)
  PROVE  Keeps(c)
<1>. DEFINE u == turn[c]
<1>0. /\ u \in TurnState /\ Budgeted(u) /\ turn \in [Callers -> TurnState]
      /\ MaxToolCalls \in Nat /\ MaxRepairs \in Nat
  BY TurnAssumption DEF Shaped, TypeOK, AllBudgeted, TurnAssumption
<1>1. /\ u.calls \in Nat /\ u.models \in Nat /\ u.repairs \in Nat /\ u.recorded \in Nat
      /\ u.entry \in Nat /\ u.try \in Nat /\ u.retryable \in BOOLEAN
  BY <1>0 DEF TurnState
<1>2. CASE Begin(c)
  BY <1>2, KeepsFresh DEF Begin
<1>3. CASE CeilingReached(c)
  <2>. DEFINE e == u.entry
              t == [Ended("ceiling") EXCEPT !.entry = e]
  <2>1. u.pc = "model" /\ u.models >= MaxToolCalls + MaxRepairs + 2
    BY <1>3 DEF CeilingReached, At, Ceiling
  <2>2. e \notin Compliant
    BY <1>0, <1>1, <2>1 DEF Budgeted
  <2>3. Becomes(c, t)
    BY <1>3 DEF CeilingReached, Becomes
  <2>. HIDE DEF e
  <2>4. t.pc = "idle" /\ t.outcome = "ceiling" /\ t.entry = e
    BY DEF Ended
  <2>. HIDE DEF t
  <2>5. Budgeted(t)
    BY <2>2, <2>4 DEF Budgeted
  <2>. QED  BY <2>3, <2>5 DEF Keeps
<1>4. CASE AnswersTools(c)
  <2>0. PICK n \in 1..MaxBatch : \E b \in [1..n -> Calls] :
          turn' = [turn EXCEPT ![c].pc = "batch", ![c].models = turn[c].models + 1, ![c].batch = b]
    BY <1>4 DEF AnswersTools
  <2>1. PICK b \in [1..n -> Calls] :
          turn' = [turn EXCEPT ![c].pc = "batch", ![c].models = turn[c].models + 1, ![c].batch = b]
    BY <2>0
  <2>. DEFINE m == u.models + 1
              t == [u EXCEPT !.pc = "batch", !.models = m, !.batch = b]
  <2>2. Becomes(c, t)
    BY <1>0, <2>1 DEF Becomes
  <2>3. u.pc = "model" /\ (u.entry \in Compliant => u.calls < MaxToolCalls)
    BY <1>0, <1>1, <1>4 DEF AnswersTools, CanAsk, At, FreeToAnswer, Forced
  <2>4. u.entry \in Compliant => u.calls < MaxToolCalls /\ m <= u.calls + u.repairs + 1
    BY <1>0, <1>1, <2>3 DEF Budgeted
  <2>. HIDE DEF m
  <2>5. /\ t.pc = "batch" /\ t.models = m /\ t.calls = u.calls /\ t.repairs = u.repairs
        /\ t.recorded = u.recorded /\ t.entry = u.entry /\ t.outcome = u.outcome
    BY <1>0 DEF TurnState
  <2>. HIDE DEF t
  <2>6. Budgeted(t)
    BY <1>0, <2>3, <2>4, <2>5 DEF Budgeted
  <2>. QED  BY <2>2, <2>6 DEF Keeps
<1>5. CASE AnswersValid(c)
  <2>. DEFINE a == u.recorded
              b == u.repairs
              t == [Ended("returned") EXCEPT !.recorded = a, !.repairs = b]
  <2>1. Becomes(c, t)
    BY <1>5 DEF AnswersValid, Becomes
  <2>2. a <= MaxToolCalls /\ b <= MaxRepairs
    BY <1>0, <1>5 DEF Budgeted, AnswersValid, CanAsk, At
  <2>. HIDE DEF a, b
  <2>3. t.pc = "idle" /\ t.outcome = "returned" /\ t.recorded = a /\ t.repairs = b
    BY DEF Ended
  <2>. HIDE DEF t
  <2>4. Budgeted(t)
    BY <2>2, <2>3 DEF Budgeted
  <2>. QED  BY <2>1, <2>4 DEF Keeps
<1>6. CASE AnswersInvalid(c)
  <2>1. CASE End(c, "invalid")
    BY <2>1, KeepsEnd DEF Outcome
  <2>2. CASE /\ ~(u.repairs >= MaxRepairs)
             /\ turn' = [turn EXCEPT ![c].models = turn[c].models + 1, ![c].repairs = turn[c].repairs + 1]
    <3>. DEFINE m == u.models + 1
                r == u.repairs + 1
                t == [u EXCEPT !.models = m, !.repairs = r]
    <3>1. Becomes(c, t)
      BY <1>0, <2>2 DEF Becomes
    <3>2. u.pc = "model"
      BY <1>6 DEF AnswersInvalid, CanAsk, At
    <3>3. r <= MaxRepairs /\ (u.entry \in Compliant => m <= u.calls + r)
      BY <1>0, <1>1, <2>2, <3>2 DEF Budgeted
    <3>. HIDE DEF m, r
    <3>4. /\ t.pc = "model" /\ t.models = m /\ t.calls = u.calls /\ t.repairs = r
          /\ t.recorded = u.recorded /\ t.entry = u.entry /\ t.outcome = u.outcome
      BY <1>0, <3>2 DEF TurnState
    <3>. HIDE DEF t
    <3>5. Budgeted(t)
      BY <1>0, <3>2, <3>3, <3>4 DEF Budgeted
    <3>. QED  BY <3>1, <3>5 DEF Keeps
  <2>. QED  BY <1>6, <2>1, <2>2 DEF AnswersInvalid
<1>7. CASE AnswersNothing(c)
  <2>. DEFINE m == u.models + 1
              n == NextCall(c)
              t == [u EXCEPT !.models = m, !.calls = n]
  <2>1. Becomes(c, t)
    BY <1>0, <1>7 DEF Becomes, AnswersNothing
  <2>2. u.pc = "model" /\ (u.entry \in Compliant => u.calls < MaxToolCalls)
    BY <1>0, <1>1, <1>7 DEF AnswersNothing, CanAsk, At, FreeToAnswer, Forced
  <2>3. /\ n \in Nat /\ u.calls <= n /\ n <= MaxToolCalls + 1
        /\ u.calls <= MaxToolCalls => n = u.calls + 1
    BY <1>0, <2>2, NextCallIs DEF At
  <2>4. u.entry \in Compliant => m <= n + u.repairs
    BY <1>0, <1>1, <2>2, <2>3 DEF Budgeted
  <2>. HIDE DEF m, n
  <2>5. /\ t.pc = "model" /\ t.models = m /\ t.calls = n /\ t.repairs = u.repairs
        /\ t.recorded = u.recorded /\ t.entry = u.entry /\ t.outcome = u.outcome
    BY <1>0, <2>2 DEF TurnState
  <2>. HIDE DEF t
  <2>6. Budgeted(t)
    BY <1>0, <1>1, <2>2, <2>3, <2>4, <2>5 DEF Budgeted
  <2>. QED  BY <2>1, <2>6 DEF Keeps
<1>8. CASE ProviderFails(c)
  <2>1. PICK retryable \in BOOLEAN :
           LET t == turn[c]
               hope == t.retryable \/ retryable
           IN \/ turn' = [turn EXCEPT ![c] = Fresh(t.entry, t.try + 1, t.retryable)]
              \/ turn' = [turn EXCEPT ![c] = Fresh(t.entry + 1, 0, hope)]
              \/ End(c, IF hope THEN "transient" ELSE "failed")
    BY <1>8, Zenon DEF ProviderFails
  <2>2. u.try + 1 \in Nat /\ u.entry + 1 \in Nat /\ 0 \in Nat
    BY <1>1
  <2>3. (u.retryable \/ retryable) \in BOOLEAN
    BY <1>1
  <2>4. (IF u.retryable \/ retryable THEN "transient" ELSE "failed") \in Outcome \ {"ceiling", "returned"}
    BY DEF Outcome
  <2>. QED  BY <1>1, <2>1, <2>2, <2>3, <2>4, KeepsFresh, KeepsEnd, Zenon
<1>9. CASE TurnBreaks(c)
  BY <1>9, KeepsEnd DEF TurnBreaks, Outcome
<1>10. CASE Crash(c)
  BY <1>10, KeepsEnd DEF Crash, Outcome
<1>. QED  BY <1>2, <1>3, <1>4, <1>5, <1>6, <1>7, <1>8, <1>9, <1>10 DEF Loop

LEMMA CallBudgeted ==
  ASSUME Shaped, AllBudgeted, NEW c \in Callers, Call(c)
  PROVE  Keeps(c)
<1>. DEFINE u == turn[c]
<1>0. /\ u \in TurnState /\ Budgeted(u) /\ Usable(u) /\ turn \in [Callers -> TurnState]
      /\ MaxToolCalls \in Nat
  BY TurnAssumption DEF Shaped, TypeOK, TurnsOK, AllBudgeted, TurnAssumption
<1>1. /\ u.calls \in Nat /\ u.models \in Nat /\ u.repairs \in Nat /\ u.recorded \in Nat
  BY <1>0 DEF TurnState
<1>2. CASE Declined(c)
  <2>1. At(c, "batch")
    BY <1>2 DEF Declined
  <2>2. Budgeted(Proceed(Counted(c)))
    BY <1>0, <2>1, CountedBudgeted, ProceedBudgeted
  <2>. QED  BY <1>2, <2>2 DEF Declined, Keeps, Becomes
\* A permitted call is dispatched.
<1>3. ASSUME Permitted(c), turn' = [turn EXCEPT ![c] = [Counted(c) EXCEPT !.pc = "call"]]
      PROVE  Keeps(c)
  <2>. DEFINE v == Counted(c)
              t == [v EXCEPT !.pc = "call"]
  <2>1. At(c, "batch") /\ NextCall(c) <= MaxToolCalls
    BY <1>3 DEF Permitted
  <2>2. /\ v \in TurnState /\ Budgeted(v) /\ v.pc = "batch" /\ v.calls = NextCall(c)
        /\ v.recorded = u.recorded
        /\ v.entry \in Compliant => v.models <= v.calls + v.repairs
    BY <1>0, <2>1, CountedBudgeted
  <2>3. u.pc = "batch" /\ ~At(c, "idle")
    BY <2>1 DEF At
  <2>4. u.calls <= NextCall(c) /\ (u.calls <= MaxToolCalls => NextCall(c) = u.calls + 1)
        /\ NextCall(c) \in Nat
    BY <1>0, <2>3, NextCallIs
  <2>5. u.recorded < NextCall(c)
    BY <1>0, <1>1, <2>1, <2>3, <2>4 DEF Budgeted
  <2>6. Becomes(c, t)
    BY <1>3 DEF Becomes
  <2>. HIDE DEF v
  <2>7. /\ t.pc = "call" /\ t.models = v.models /\ t.calls = v.calls /\ t.repairs = v.repairs
        /\ t.recorded = v.recorded /\ t.entry = v.entry /\ t.outcome = v.outcome
    BY <2>2 DEF TurnState
  <2>. HIDE DEF t
  <2>8. Budgeted(t)
    BY <2>2, <2>5, <2>7 DEF Budgeted
  <2>. QED  BY <2>6, <2>8 DEF Keeps
<1>4. CASE CallsRead(c)
  <2>1. turn' = [turn EXCEPT ![c] = [Counted(c) EXCEPT !.pc = "call"]]
    BY <1>0, <1>4 DEF CallsRead, Counted
  <2>. QED  BY <1>3, <1>4, <2>1 DEF CallsRead
<1>5. CASE Claims(c)
  BY <1>3, <1>5 DEF Claims
<1>6. ASSUME Permitted(c)
      PROVE  LET t == [Counted(c) EXCEPT !.recorded = Counted(c).recorded + 1] IN Budgeted(Proceed(t))
  <2>. DEFINE v == Counted(c)
              r == v.recorded + 1
              t == [v EXCEPT !.recorded = r]
  <2>1. At(c, "batch") /\ NextCall(c) <= MaxToolCalls
    BY <1>6 DEF Permitted
  <2>2. /\ v \in TurnState /\ Budgeted(v) /\ v.pc = "batch" /\ v.calls = NextCall(c)
        /\ v.recorded = u.recorded /\ v.batch # <<>>
        /\ v.entry \in Compliant => v.models <= v.calls + v.repairs
    BY <1>0, <2>1, CountedBudgeted
  <2>3. u.pc = "batch" /\ ~At(c, "idle")
    BY <2>1 DEF At
  <2>4. u.calls <= NextCall(c) /\ (u.calls <= MaxToolCalls => NextCall(c) = u.calls + 1)
        /\ NextCall(c) \in Nat
    BY <1>0, <2>3, NextCallIs
  <2>5. r <= v.calls /\ r <= MaxToolCalls /\ r \in Nat
    BY <1>0, <1>1, <2>1, <2>2, <2>3, <2>4 DEF Budgeted
  <2>. HIDE DEF v, r
  <2>6. /\ t.pc = "batch" /\ t.models = v.models /\ t.calls = v.calls /\ t.repairs = v.repairs
        /\ t.recorded = r /\ t.entry = v.entry /\ t.outcome = v.outcome /\ t.batch = v.batch
        /\ t \in TurnState
    BY <2>2, <2>5 DEF TurnState
  <2>. HIDE DEF t
  <2>7. Budgeted(t)
    BY <2>2, <2>5, <2>6 DEF Budgeted
  <2>8. Budgeted(Proceed(t))
    BY <2>2, <2>6, <2>7, ProceedBudgeted
  <2>. QED  BY <2>8 DEF t, r, v
<1>7. CASE Replays(c)
  <2>1. CASE turn' = [turn EXCEPT ![c] = Proceed([Counted(c) EXCEPT !.recorded = Counted(c).recorded + 1])]
    BY <1>6, <1>7, <2>1 DEF Replays, Keeps, Becomes
  <2>2. CASE turn' = [turn EXCEPT ![c] = Ended("failed")]
    BY <2>2, KeepsEnd DEF End, Outcome
  <2>. QED  BY <1>7, <2>1, <2>2 DEF Replays
<1>8. CASE RefusesUnresolved(c)
  BY <1>8, KeepsEnd DEF RefusesUnresolved, Outcome
<1>9. CASE Acts(c)
  <2>. DEFINE t == [u EXCEPT !.pc = "acted"]
  <2>1. Becomes(c, t)
    BY <1>0, <1>9 DEF Acts, Becomes
  <2>2. u.pc = "call"
    BY <1>9 DEF Acts, At
  <2>3. /\ t.pc = "acted" /\ t.models = u.models /\ t.calls = u.calls /\ t.repairs = u.repairs
        /\ t.recorded = u.recorded /\ t.entry = u.entry /\ t.outcome = u.outcome
    BY <1>0 DEF TurnState
  <2>. HIDE DEF t
  <2>4. Budgeted(t)
    BY <1>0, <2>2, <2>3 DEF Budgeted
  <2>. QED  BY <2>1, <2>4 DEF Keeps
<1>10. ASSUME NEW status, NEW next, Budgeted(next), Resolves(c, status, next)
       PROVE  Keeps(c)
  <2>1. \/ turn' = [turn EXCEPT ![c] = next]
        \/ turn' = [turn EXCEPT ![c] = Ended("failed")]
    BY <1>10, Zenon DEF Resolves
  <2>2. Budgeted(Ended("failed"))
    BY EndedBudgeted DEF Outcome
  <2>. QED  BY <1>10, <2>1, <2>2 DEF Keeps, Becomes
<1>11. ASSUME At(c, "call") \/ At(c, "acted")
       PROVE  /\ Budgeted(Proceed(u))
              /\ Budgeted(Proceed([u EXCEPT !.recorded = u.recorded + 1]))
  <2>. DEFINE r == u.recorded + 1
              t == [u EXCEPT !.recorded = r]
  <2>1. /\ u.pc \in {"call", "acted"} /\ u.batch # <<>> /\ u.calls <= MaxToolCalls
        /\ u.entry \in Compliant => u.models <= u.calls + u.repairs
    BY <1>0, <1>11 DEF At, Usable, Budgeted
  <2>2. r <= u.calls /\ r <= MaxToolCalls /\ r \in Nat
    BY <1>0, <1>1, <2>1 DEF Budgeted
  <2>3. Budgeted(Proceed(u))
    BY <1>0, <2>1, ProceedBudgeted
  <2>. HIDE DEF r
  <2>4. /\ t.pc = u.pc /\ t.models = u.models /\ t.calls = u.calls /\ t.repairs = u.repairs
        /\ t.recorded = r /\ t.entry = u.entry /\ t.outcome = u.outcome /\ t.batch = u.batch
        /\ t \in TurnState
    BY <1>0, <2>2 DEF TurnState
  <2>. HIDE DEF t
  <2>5. Budgeted(Proceed(t))
    <3>. DEFINE w == [t EXCEPT !.pc = "batch"]
    <3>1. /\ w \in TurnState /\ w.pc = "batch" /\ w.models = u.models /\ w.calls = u.calls
          /\ w.repairs = u.repairs /\ w.recorded = r /\ w.entry = u.entry
          /\ w.outcome = u.outcome /\ w.batch = u.batch
      BY <2>4 DEF TurnState
    <3>2. Budgeted(w)
      <4>. HIDE DEF w
      <4>. QED  BY <1>0, <2>1, <2>2, <3>1 DEF Budgeted
    <3>3. Proceed(w) = Proceed(t)
      BY <2>4 DEF Proceed, TurnState
    <3>4. Budgeted(Proceed(w))
      <4>. HIDE DEF w
      <4>. QED  BY <2>1, <3>1, <3>2, ProceedBudgeted
    <3>. QED  BY <3>3, <3>4
  <2>. QED  BY <2>3, <2>5 DEF t, r
<1>12. CASE Returns(c)
  <2>1. At(c, "call") \/ At(c, "acted")
    BY <1>12 DEF Returns
  <2>2. PICK next \in {Proceed([u EXCEPT !.recorded = u.recorded + 1]), Ended("failed")} :
          Resolves(c, "SUCCEEDED", next)
    BY <1>12 DEF Returns
  <2>3. Budgeted(next)
    BY <1>11, <2>1, EndedBudgeted DEF Outcome
  <2>. QED  BY <1>10, <2>2, <2>3
<1>13. CASE Raises(c)
  <2>1. At(c, "call") \/ At(c, "acted")
    BY <1>13 DEF Raises
  <2>2. PICK next \in {Proceed(u), Ended("transient"), Ended("failed")} :
          Resolves(c, "FAILED", next)
    BY <1>13 DEF Raises
  <2>3. Budgeted(next)
    BY <1>11, <2>1, EndedBudgeted DEF Outcome
  <2>. QED  BY <1>10, <2>2, <2>3
<1>14. CASE OutcomeUnknown(c)
  BY <1>14, KeepsEnd DEF OutcomeUnknown, Outcome
<1>15. CASE CancelledSafely(c)
  BY <1>10, <1>15, EndedBudgeted DEF CancelledSafely, Outcome
<1>. QED
  BY <1>2, <1>4, <1>5, <1>7, <1>8, <1>9, <1>12, <1>13, <1>14, <1>15 DEF Call

\* The three budgets of a turn fit together: one model call is left over when a
\* provider that honours a forced submit has spent its calls and its repairs.
THEOREM BudgetsFit == Spec => []TurnBudgetsFit
<1>1. Init => AllBudgeted
  BY EndedBudgeted DEF Init, AllBudgeted, Outcome
<1>2. IInv /\ AllBudgeted /\ [Next]_vars => AllBudgeted'
  <2>. SUFFICES ASSUME IInv, AllBudgeted, [Next]_vars PROVE AllBudgeted'
    OBVIOUS
  <2>0. Shaped /\ TypeOK
    BY DEF IInv, Shaped
  <2>1. CASE UNCHANGED vars
    BY <2>1 DEF vars, AllBudgeted, Budgeted
  <2>2. ASSUME NEW c \in Callers, Begin(c) \/ Loop(c) \/ Call(c) \/ Crash(c)
        PROVE  AllBudgeted'
    <3>1. PICK t : Becomes(c, t) /\ Budgeted(t)
      BY <2>0, <2>2, LoopBudgeted, CallBudgeted DEF Keeps
    <3>2. turn'[c] = t /\ \A d \in Callers : d # c => turn'[d] = turn[d]
      BY <2>0, <3>1, Others
    <3>3. ASSUME NEW d \in Callers PROVE Budgeted(turn'[d])
      BY <3>1, <3>2, d = c \/ d # c DEF AllBudgeted
    <3>. QED  BY <3>3 DEF AllBudgeted, Budgeted
  <2>. QED  BY <2>1, <2>2 DEF Next
<1>3. AllBudgeted => TurnBudgetsFit
  BY DEF AllBudgeted, Budgeted, TurnBudgetsFit, CeilingClears, ReturnsWithinBudget
<1>. QED  BY <1>1, <1>2, <1>3, Inductive, PTL DEF Spec

=============================================================================
