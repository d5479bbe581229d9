-------------------------------- MODULE Turn --------------------------------
(***************************************************************************)
(* The agent turns of one logical visit of one node: LLMGateway.run_turn   *)
(* of src/ravana/runtime/gateway.py (the fallback chain and the tool loop) *)
(* and RavanaToolExecutor.execute of src/ravana/runtime/tool_executor.py   *)
(* (the idempotency ledger around side effects).                           *)
(*                                                                         *)
(* A "caller" is an engine attempt that runs a turn of this visit.  Turns  *)
(* of the same visit follow each other (retries, HITL resume) and, since   *)
(* nothing in the executor assumes otherwise, may also overlap in several  *)
(* processes; the ledger is what they share.  One step is what a caller    *)
(* does between two awaits or two commits.                                 *)
(*                                                                         *)
(* Messages, prompts, schemas and tokens are left out: what a provider     *)
(* answers is a nondeterministic choice.                                   *)
(***************************************************************************)
EXTENDS Naturals, Sequences, FiniteSets

CONSTANTS
    Callers,        \* the attempts that may run a turn of this visit
    Effects,        \* side-effecting calls (a tool with its arguments)
    Reads,          \* read-only calls
    Foreign,        \* calls of tools the agent was not granted
    Timeouts,       \* side-effecting calls whose connector reports a lost answer
                    \* as an ordinary transient error (api_connector)
    MaxToolCalls,   \* guards.max_tool_calls_per_turn
    MaxRepairs,     \* guards.max_output_repairs
    Chain,          \* the number of LLM entries: the primary and its fallbacks
    EntryRetries,   \* _PER_ENTRY_RETRIES
    Compliant,      \* the entries whose provider honours a forced tool_choice
    Crashing,       \* whether a caller's process may die or its task be cancelled
    MaxBatch,       \* bound: the calls in one response
    MaxTurns        \* bound: the turns that are begun

Calls == Effects \cup Reads \cup Foreign
Keys == (1..MaxToolCalls) \X Effects

ASSUME TurnAssumption ==
    /\ Reads \cap Effects = {} /\ Foreign \cap (Effects \cup Reads) = {}
    /\ Timeouts \subseteq Effects
    /\ MaxToolCalls \in Nat
    /\ MaxRepairs \in Nat
    /\ Chain \in Nat \ {0}
    /\ EntryRetries \in Nat
    /\ Compliant \subseteq 1..Chain
    /\ Crashing \in BOOLEAN
    /\ MaxBatch \in Nat
    /\ MaxTurns \in Nat

VARIABLES
    ledger,     \* tool_invocation: the status of each key, "none" without a row
    effects,    \* history: how often each key's effect has really happened
    turn,       \* the callers' turns
    begun       \* turns begun so far

vars == <<ledger, effects, turn, begun>>

Settled == {"none", "FAILED", "SUCCEEDED"}

\* How the caller's last turn ended: "transient" is TransientAgentError,
\* "ceiling" and "invalid" the two AgentOutputErrors, "failed" any other error.
Outcome == {"none", "returned", "transient", "ceiling", "invalid", "failed"}

\* `calls` is tool_call_count, saturated one past its budget (the code only
\* compares it with the budget); `models` is model_calls.
TurnState == [pc : {"idle", "model", "batch", "call", "acted"},
         entry : Nat, try : Nat, calls : Nat, models : Nat, repairs : Nat,
         batch : Seq(Calls), recorded : Nat, retryable : BOOLEAN, outcome : Outcome]

Ended(outcome) ==
    [pc |-> "idle", entry |-> 0, try |-> 0, calls |-> 0, models |-> 0, repairs |-> 0,
     batch |-> <<>>, recorded |-> 0, retryable |-> FALSE, outcome |-> outcome]

\* A try of an entry starts from nothing: _run_tool_loop's counters are local.
Fresh(entry, try, retryable) ==
    [Ended("none") EXCEPT !.pc = "model", !.entry = entry, !.try = try, !.retryable = retryable]

TypeOK ==
    /\ ledger \in [Keys -> Settled \cup {"STARTED"}]
    /\ effects \in [Keys -> Nat]
    /\ turn \in [Callers -> TurnState]
    /\ begun \in Nat

Init ==
    /\ ledger = [k \in Keys |-> "none"]
    /\ effects = [k \in Keys |-> 0]
    /\ turn = [c \in Callers |-> Ended("none")]
    /\ begun = 0

-----------------------------------------------------------------------------
(* The tool loop and the fallback chain.                                    *)

At(c, pc) == turn[c].pc = pc
Tool(c) == Head(turn[c].batch)

End(c, outcome) == turn' = [turn EXCEPT ![c] = Ended(outcome)]

\* A turn of the visit begins: its first, the engine's retry after a transient
\* error, or a HITL resume after a turn that returned.  A hard error fails the
\* run.
Begin(c) ==
    /\ At(c, "idle")
    /\ turn[c].outcome \in {"none", "transient", "returned"}
    /\ begun < MaxTurns
    /\ begun' = begun + 1
    /\ turn' = [turn EXCEPT ![c] = Fresh(1, 0, FALSE)]
    /\ UNCHANGED <<ledger, effects>>

\* Mutation: the ceiling without its slack.
CeilingTight == MaxToolCalls + MaxRepairs

\* The ceiling on model round trips clears every legitimate path.
Ceiling == MaxToolCalls + MaxRepairs + 2

\* submit_result is forced once the tool budget is spent.
Forced(c) == turn[c].calls >= MaxToolCalls

\* The provider may answer with something else than a submit_result.
FreeToAnswer(c) == ~(Forced(c) /\ turn[c].entry \in Compliant)

CanAsk(c) == At(c, "model") /\ turn[c].models < Ceiling

\* Saturating increment of tool_call_count.
NextCall(c) == IF turn[c].calls > MaxToolCalls THEN turn[c].calls ELSE turn[c].calls + 1
Counted(c) == [turn[c] EXCEPT !.calls = NextCall(c)]

CeilingReached(c) ==
    /\ At(c, "model")
    /\ turn[c].models >= Ceiling
    /\ turn' = [turn EXCEPT ![c] = [Ended("ceiling") EXCEPT !.entry = turn[c].entry]]
    /\ UNCHANGED <<ledger, effects, begun>>

\* The response holds tool calls; a submit_result among them is ignored.
AnswersTools(c) ==
    /\ CanAsk(c)
    /\ FreeToAnswer(c)
    /\ \E n \in 1..MaxBatch : \E batch \in [1..n -> Calls] :
        turn' = [turn EXCEPT ![c].pc = "batch", ![c].models = @ + 1, ![c].batch = batch]
    /\ UNCHANGED <<ledger, effects, begun>>

\* A valid submit_result returns the turn; its result keeps the counts of the
\* try that succeeded.
AnswersValid(c) ==
    /\ CanAsk(c)
    /\ turn' = [turn EXCEPT ![c] =
           [Ended("returned") EXCEPT !.recorded = turn[c].recorded,
                                     !.repairs = turn[c].repairs]]
    /\ UNCHANGED <<ledger, effects, begun>>

\* Mutation: the repair budget is compared after the repair.
AnswersInvalidLate(c) ==
    /\ CanAsk(c)
    /\ IF turn[c].repairs > MaxRepairs
       THEN End(c, "invalid")
       ELSE turn' = [turn EXCEPT ![c].models = @ + 1, ![c].repairs = @ + 1]
    /\ UNCHANGED <<ledger, effects, begun>>

\* An invalid one is repaired within the budget.
AnswersInvalid(c) ==
    /\ CanAsk(c)
    /\ IF turn[c].repairs >= MaxRepairs
       THEN End(c, "invalid")
       ELSE turn' = [turn EXCEPT ![c].models = @ + 1, ![c].repairs = @ + 1]
    /\ UNCHANGED <<ledger, effects, begun>>

\* No tool call at all: a nudge, which costs a tool call.
AnswersNothing(c) ==
    /\ CanAsk(c)
    /\ FreeToAnswer(c)
    /\ turn' = [turn EXCEPT ![c].models = @ + 1, ![c].calls = NextCall(c)]
    /\ UNCHANGED <<ledger, effects, begun>>

\* Mutation: a retry of an entry does not use one up.
ProviderFailsFree(c) ==
    /\ CanAsk(c)
    /\ \E retryable \in BOOLEAN :
        LET t == turn[c]
            hope == t.retryable \/ retryable
        IN CASE retryable -> turn' = [turn EXCEPT ![c] = Fresh(t.entry, t.try, t.retryable)]
             [] ~retryable /\ t.entry < Chain ->
                    turn' = [turn EXCEPT ![c] = Fresh(t.entry + 1, 0, hope)]
             [] OTHER -> End(c, IF hope THEN "transient" ELSE "failed")
    /\ UNCHANGED <<ledger, effects, begun>>

\* ProviderError: the entry is retried if the error is retryable and a retry is
\* left, the next entry is tried otherwise, and a chain that is spent is worth
\* the engine's retries if any entry ended on a retryable error.
ProviderFails(c) ==
    /\ CanAsk(c)
    /\ \E retryable \in BOOLEAN :
        LET t == turn[c]
            hope == t.retryable \/ retryable
        IN CASE retryable /\ t.try < EntryRetries ->
                    turn' = [turn EXCEPT ![c] = Fresh(t.entry, t.try + 1, t.retryable)]
             [] ~(retryable /\ t.try < EntryRetries) /\ t.entry < Chain ->
                    turn' = [turn EXCEPT ![c] = Fresh(t.entry + 1, 0, hope)]
             [] OTHER -> End(c, IF hope THEN "transient" ELSE "failed")
    /\ UNCHANGED <<ledger, effects, begun>>

\* Anything else that a try can raise: preparing the tools fails before the
\* first model call (transiently or not), a response leaks a secret.
TurnBreaks(c) ==
    /\ CanAsk(c)
    /\ \E outcome \in {"failed"} \cup (IF turn[c].models = 0 THEN {"transient"} ELSE {}) :
        End(c, outcome)
    /\ UNCHANGED <<ledger, effects, begun>>

\* The process dies or its task is cancelled: the ledger stays.
Crash(c) ==
    /\ Crashing
    /\ ~At(c, "idle")
    /\ End(c, "none")
    /\ UNCHANGED <<ledger, effects, begun>>

-----------------------------------------------------------------------------
(* One tool call of a response: the gateway's guards and the ledger.        *)

\* The turn after the call at the head of the batch.
Proceed(t) ==
    [t EXCEPT !.batch = Tail(@), !.pc = IF Tail(t.batch) = <<>> THEN "model" ELSE "batch"]

\* The key the call is given: compute_idempotency_key over its ordinal and its
\* content.
Key(c) == <<turn[c].calls, Tool(c)>>
ClaimedKey(c) == <<NextCall(c), Tool(c)>>

Permitted(c) == At(c, "batch") /\ Tool(c) \notin Foreign /\ NextCall(c) <= MaxToolCalls

\* An error goes back to the model: the tool is not granted, the budget is
\* exhausted, or the arguments do not fit the tool's schema.
Declined(c) ==
    /\ At(c, "batch")
    /\ turn' = [turn EXCEPT ![c] = Proceed(Counted(c))]
    /\ UNCHANGED <<ledger, effects, begun>>

\* A read-only call does not enter the ledger.
CallsRead(c) ==
    /\ Permitted(c)
    /\ Tool(c) \in Reads
    /\ turn' = [turn EXCEPT ![c].pc = "call", ![c].calls = NextCall(c)]
    /\ UNCHANGED <<ledger, effects, begun>>

\* Mutation: a STARTED row is taken over like a FAILED one.
ClaimableStarted(status) == status \in {"none", "FAILED", "STARTED"}

Claimable(status) == status \in {"none", "FAILED"}

\* _claim in one transaction: the key is new or its last attempt failed, ...
Claims(c) ==
    /\ Permitted(c)
    /\ Tool(c) \in Effects
    /\ Claimable(ledger[ClaimedKey(c)])
    /\ ledger' = [ledger EXCEPT ![ClaimedKey(c)] = "STARTED"]
    /\ turn' = [turn EXCEPT ![c] = [Counted(c) EXCEPT !.pc = "call"]]
    /\ UNCHANGED <<effects, begun>>

\* ... or it succeeded and its result is replayed (and may leak a secret), ...
Replays(c) ==
    /\ Permitted(c)
    /\ Tool(c) \in Effects
    /\ ledger[ClaimedKey(c)] = "SUCCEEDED"
    /\ LET t == [Counted(c) EXCEPT !.recorded = @ + 1]
       IN \E next \in {Proceed(t), Ended("failed")} : turn' = [turn EXCEPT ![c] = next]
    /\ UNCHANGED <<ledger, effects, begun>>

\* ... or its outcome is unresolved, and the call is refused for good.
RefusesUnresolved(c) ==
    /\ Permitted(c)
    /\ Tool(c) \in Effects
    /\ ~Claimable(ledger[ClaimedKey(c)])
    /\ ledger[ClaimedKey(c)] # "SUCCEEDED"
    /\ End(c, "failed")
    /\ UNCHANGED <<ledger, effects, begun>>

\* The effect happens while the handler is awaited.
Acts(c) ==
    /\ At(c, "call")
    /\ Tool(c) \in Effects
    /\ effects' = [effects EXCEPT ![Key(c)] = @ + 1]
    /\ turn' = [turn EXCEPT ![c].pc = "acted"]
    /\ UNCHANGED <<ledger, begun>>

\* Mutation: the row of a failed call is deleted.
ResolvesOrDeletes(c, status, next) ==
    /\ turn' = [turn EXCEPT ![c] = next]
    /\ ledger' = CASE Tool(c) \notin Effects -> ledger
                   [] Tool(c) \in Effects /\ status = "FAILED" -> [k \in Keys \ {Key(c)} |-> ledger[k]]
                   [] OTHER -> [ledger EXCEPT ![Key(c)] = status]

\* _record: only a STARTED row is resolved; a caller that lost its claim raises.
Resolves(c, status, next) ==
    IF Tool(c) \in Effects
    THEN /\ ledger' = [ledger EXCEPT ![Key(c)] = IF @ = "STARTED" THEN status ELSE @]
         /\ turn' = [turn EXCEPT ![c] = IF ledger[Key(c)] = "STARTED" THEN next ELSE Ended("failed")]
    ELSE /\ ledger' = ledger
         /\ turn' = [turn EXCEPT ![c] = next]

\* The handler returns: the result is recorded, and reported unless it leaks a
\* secret.
Returns(c) ==
    /\ At(c, "acted") \/ (At(c, "call") /\ Tool(c) \in Reads)
    /\ LET t == [turn[c] EXCEPT !.recorded = @ + 1]
       IN \E next \in {Proceed(t), Ended("failed")} : Resolves(c, "SUCCEEDED", next)
    /\ UNCHANGED <<effects, begun>>

\* The handler raises an ordinary error, a ToolkitError of any kind or another
\* exception: the key may be claimed again.
Raises(c) ==
    /\ At(c, "call") \/ (At(c, "acted") /\ Tool(c) \in Timeouts)
    /\ \E next \in {Proceed(turn[c]), Ended("transient"), Ended("failed")} : Resolves(c, "FAILED", next)
    /\ UNCHANGED <<effects, begun>>

\* Mutation: an unknown outcome is recorded like an ordinary error.
OutcomeUnknownFails(c) ==
    /\ At(c, "call") \/ At(c, "acted")
    /\ Tool(c) \in Effects
    /\ Resolves(c, "FAILED", Ended("failed"))
    /\ UNCHANGED <<effects, begun>>

\* ToolOutcomeUnknown: the row stays STARTED and the error is fatal.
OutcomeUnknown(c) ==
    /\ At(c, "call") \/ At(c, "acted")
    /\ Tool(c) \in Effects
    /\ End(c, "failed")
    /\ UNCHANGED <<ledger, effects, begun>>

\* ToolRetrySafeCancellation: cancelled before an effect was possible.
CancelledSafely(c) ==
    /\ At(c, "call")
    /\ Tool(c) \in Effects
    /\ Resolves(c, "FAILED", Ended("none"))
    /\ UNCHANGED <<effects, begun>>

-----------------------------------------------------------------------------
Loop(c) ==
    \/ CeilingReached(c) \/ AnswersTools(c) \/ AnswersValid(c) \/ AnswersInvalid(c)
    \/ AnswersNothing(c) \/ ProviderFails(c) \/ TurnBreaks(c)

Call(c) ==
    \/ Declined(c) \/ CallsRead(c) \/ Claims(c) \/ Replays(c) \/ RefusesUnresolved(c)
    \/ Acts(c) \/ Returns(c) \/ Raises(c) \/ OutcomeUnknown(c) \/ CancelledSafely(c)

Next == \E c \in Callers : Begin(c) \/ Loop(c) \/ Call(c) \/ Crash(c)

Spec == Init /\ [][Next]_vars

\* Every provider and every handler answers: both carry timeouts.
FairSpec == Spec /\ \A c \in Callers : WF_vars(Loop(c) \/ Call(c))

-----------------------------------------------------------------------------
(* Properties.                                                              *)

\* c has claimed k and has not resolved it.
Holds(c, k) == turn[c].pc \in {"call", "acted"} /\ Tool(c) \in Effects /\ Key(c) = k

\* Retries, fallbacks, crashes and other callers never make the effect of one
\* logical invocation happen twice, if its connector reports an ordinary error
\* only when the effect did not happen.  (The ledger's mandate.)
EffectAtMostOnce == \A k \in Keys : k[2] \notin Timeouts => effects[k] <= 1

\* The same of every connector the repository ships.
NeverTwice == \A k \in Keys : effects[k] <= 1

\* The ledger does not lie: a recorded success happened exactly once, and what
\* may be claimed again never happened.
LedgerTruth ==
    \A k \in Keys : k[2] \notin Timeouts =>
        /\ ledger[k] = "SUCCEEDED" => effects[k] = 1
        /\ ledger[k] \in {"none", "FAILED"} => effects[k] = 0

\* A claim belongs to one caller until it is resolved, so that no caller ever
\* loses its claim (the RuntimeError of _record cannot occur).
ClaimHeld ==
    \A k \in Keys : \A c \in Callers : Holds(c, k) =>
        /\ ledger[k] = "STARTED"
        /\ \A d \in Callers : Holds(d, k) => d = c

\* A claim that nobody holds any more is left for an operator: no caller
\* resolves it or claims it again.
UnresolvedStays ==
    [][\A k \in Keys : ledger[k] = "STARTED" /\ (\A c \in Callers : ~Holds(c, k))
                           => ledger'[k] = "STARTED" /\ (\A c \in Callers : ~Holds(c, k)')]_vars

\* The three budgets of a turn fit together: a provider that honours a forced
\* submit never meets the ceiling, whatever the entries before it did, and a turn
\* that returns is within its budgets, so the engine's guards after the turn do
\* not fail a run that the gateway already capped.
CeilingClears ==
    \A c \in Callers : turn[c].outcome = "ceiling" => turn[c].entry \notin Compliant
ReturnsWithinBudget ==
    \A c \in Callers : turn[c].outcome = "returned" =>
        turn[c].recorded <= MaxToolCalls /\ turn[c].repairs <= MaxRepairs
TurnBudgetsFit == CeilingClears /\ ReturnsWithinBudget

\* Every turn ends, even with a provider that ignores the forced submit.
TurnEnds == \A c \in Callers : ~At(c, "idle") ~> At(c, "idle")

=============================================================================
