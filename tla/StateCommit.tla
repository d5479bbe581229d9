----------------------------- MODULE StateCommit -----------------------------
(***************************************************************************)
(* The commits of a run's shared state: the on_enter part of _dispatch,    *)
(* _commit_state and _commit_turn of src/ravana/engine/loop.py.            *)
(*                                                                         *)
(* A writer is one attempt, from the load of shared_state to the end of    *)
(* its commit; several are under way when several processes drive one run. *)
(* A read and the transaction that depends on it are two steps, because    *)
(* sqlite3 begins a transaction at its first write; a transaction is one   *)
(* step, because from its first write on it holds the database's lock, and *)
(* a rollback leaves nothing of it.                                        *)
(***************************************************************************)
EXTENDS StateMerge

CONSTANTS
    Writers,        \* the attempts
    OnEnter,        \* the on_enter statement of those whose node has one
    TurnDeltas,     \* the payloads each attempt's turn may return
    InitialState    \* spec.state.initial

Entering == DOMAIN OnEnter

ASSUME CommitAssumption ==
    /\ Entering \subseteq Writers
    /\ \A w \in Entering : OnEnter[w] \in Statements
    /\ DOMAIN TurnDeltas = Writers
    /\ \A w \in Writers : \A d \in TurnDeltas[w] : IsState(d)
    /\ IsState(InitialState)

Tries == 3      \* `for _ in range(3)`

VARIABLES
    state,      \* run.shared_state
    version,    \* run.state_version
    log,        \* the COMMIT rows of state_transition_log
    past,       \* history: the states the run has been in
    rows,       \* node_execution.status of each attempt
    me          \* each attempt's locals

vars == <<state, version, log, past, rows, me>>

\* `base` is the state it merges into, read when the version was `at` (history
\* while on_enter is under way); `seen` is version_before.  `since` is history:
\* the version when its turn had returned.
At(w, pc) == me[w].pc = pc

Init ==
    /\ state = InitialState /\ version = 0 /\ log = <<>> /\ past = {InitialState}
    /\ rows = [w \in Writers |-> "RUNNING"]
    /\ me = [w \in Writers |-> [pc |-> "load", base |-> InitialState, at |-> 0,
                                delta |-> <<>>, seen |-> 0, try |-> 0, since |-> 0]]

Set(w, m) == me' = [me EXCEPT ![w] = m]
GoTo(w, pc) == me' = [me EXCEPT ![w].pc = pc]

\* Mutation: the version is written but not compared.
UnmovedAlways(w) == w \in Writers

\* UPDATE run ... WHERE state_version = version_before
Unmoved(w) == version = me[w].seen

Write(w, kind) ==
    /\ state' = MergeDelta(me[w].base, me[w].delta)
    /\ version' = me[w].seen + 1
    /\ past' = past \cup {state'}
    /\ log' = Append(log, [from |-> w, kind |-> kind, delta |-> me[w].delta,
                           before |-> me[w].seen, after |-> version', base |-> me[w].at])

NoWrite == UNCHANGED <<state, version, log, past>>

-----------------------------------------------------------------------------
(* on_enter                                                                 *)

Load(w) ==
    /\ At(w, "load")
    /\ LET m == [me[w] EXCEPT !.base = state, !.at = version]
       IN \/ w \notin Entering /\ Set(w, [m EXCEPT !.pc = "turn"])
          \/ /\ w \in Entering /\ ~EnterRaises(OnEnter[w], state)
             /\ Set(w, [m EXCEPT !.pc = "enter", !.delta = EnterDelta(OnEnter[w], state)])
          \/ /\ w \in Entering /\ EnterRaises(OnEnter[w], state)
             /\ Set(w, [m EXCEPT !.pc = "raised"])
    /\ NoWrite /\ UNCHANGED rows

\* _commit_state reads the version only now and merges into what was loaded
\* before.  An exception leaves the driver, the attempt stays RUNNING.
EnterRead(w) ==
    /\ At(w, "enter")
    /\ IF MergeRaises(me[w].base, me[w].delta)
       THEN GoTo(w, "raised")
       ELSE Set(w, [me[w] EXCEPT !.pc = "entering", !.seen = version])
    /\ NoWrite /\ UNCHANGED rows

EnterWrite(w) ==
    /\ At(w, "entering") /\ Unmoved(w)
    /\ Write(w, "enter") /\ GoTo(w, "turn") /\ UNCHANGED rows

EnterConflicts(w) ==
    /\ At(w, "entering") /\ ~Unmoved(w)
    /\ GoTo(w, "raised") /\ NoWrite /\ UNCHANGED rows

-----------------------------------------------------------------------------
(* The turn and its commit                                                  *)

TurnReturns(w) ==
    /\ At(w, "turn")
    /\ \E d \in TurnDeltas[w] :
           Set(w, [me[w] EXCEPT !.pc = "read", !.delta = d, !.try = 1, !.since = version])
    /\ NoWrite /\ UNCHANGED rows

\* _fail_run, or the mark of an attempt that is tried again: it is FAILED.
Fails(w, pc) == GoTo(w, pc) /\ rows' = [rows EXCEPT ![w] = "FAILED"] /\ NoWrite

TurnFails(w) == At(w, "turn") /\ Fails(w, "failed")

\* Mutation: a retry takes the new version and keeps the old state.
RereadVersion(w) ==
    Set(w, [me[w] EXCEPT !.pc = "write", !.seen = version,
                         !.base = IF me[w].try = 1 THEN state ELSE @,
                         !.at = IF me[w].try = 1 THEN version ELSE @])

Reread(w) ==
    Set(w, [me[w] EXCEPT !.pc = "write", !.base = state, !.at = version, !.seen = version])

CommitRead(w) ==
    /\ At(w, "read")
    /\ IF MergeRaises(state, me[w].delta)
       THEN Fails(w, "failed")
       ELSE Reread(w) /\ NoWrite /\ UNCHANGED rows

CommitWrite(w) ==
    /\ At(w, "write") /\ Unmoved(w)
    /\ Write(w, "turn")
    /\ rows' = [rows EXCEPT ![w] = "SUCCEEDED"]
    /\ GoTo(w, "done")

\* Mutations: one try too many, one too few.
MayRetryOnceMore(w) == me[w].try <= Tries
MayRetryOnceLess(w) == me[w].try < Tries - 1

MayRetry(w) == me[w].try < Tries

\* The CAS finds another version: everything is rolled back, the update of the
\* attempt and the message included.
CommitConflicts(w) ==
    /\ At(w, "write") /\ ~Unmoved(w)
    /\ IF MayRetry(w)
       THEN /\ Set(w, [me[w] EXCEPT !.pc = "read", !.try = @ + 1])
            /\ NoWrite /\ UNCHANGED rows
       ELSE Fails(w, "gave up")

\* The process dies.
Leaves(w) ==
    /\ me[w].pc \in {"load", "enter", "entering", "turn", "read", "write"}
    /\ GoTo(w, "gone") /\ NoWrite /\ UNCHANGED rows

Next == \E w \in Writers :
    \/ Load(w) \/ EnterRead(w) \/ EnterWrite(w) \/ EnterConflicts(w)
    \/ TurnReturns(w) \/ TurnFails(w)
    \/ CommitRead(w) \/ CommitWrite(w) \/ CommitConflicts(w) \/ Leaves(w)

Spec == Init /\ [][Next]_vars

-----------------------------------------------------------------------------
(* Properties                                                               *)

\* Every variable has its type: states and deltas have keys of the schema, and
\* an attempt never starts a fourth try of its commit (_commit_turn).
TypeOK ==
    /\ IsState(state) /\ \A s \in past : IsState(s)
    /\ version \in Nat
    /\ rows \in [Writers -> {"RUNNING", "SUCCEEDED", "FAILED"}]
    /\ DOMAIN me = Writers
    /\ \A w \in Writers :
          /\ me[w].pc \in {"load", "enter", "entering", "turn", "read", "write",
                           "done", "failed", "gave up", "raised", "gone"}
          /\ IsState(me[w].base) /\ IsState(me[w].delta)
          /\ me[w].at \in Nat /\ me[w].seen \in Nat /\ me[w].since \in Nat
          /\ me[w].try \in 0..Tries

\* The log can be verified against the version counter: its rows are numbered
\* by the versions they lead from and to, without gap or repetition, whatever
\* commits race (_commit_turn, _commit_state).
LogVerifies ==
    /\ version = Len(log)
    /\ \A i \in 1..Len(log) : log[i].before = i - 1 /\ log[i].after = i

\* Commit i was overwritten: a later commit was written with a state that had
\* been loaded before it.
Overwritten(i, upTo) == \E j \in (i + 1)..upTo : log[j].base < i

\* s has every contribution of the first n commits that was not overwritten.
KeptIn(s, n) == \A i \in 1..n : ~Overwritten(i, n) => Keeps(s, log[i].delta)

\* No commit clobbers what another one appended or merged into an object, in
\* any order of the writers.  The exception is _commit_state with a state that
\* was stale when it read the version: only an on_enter can do that.
NothingClobbered ==
    /\ KeptIn(state, Len(log))
    /\ \A i \in 1..Len(log) : log[i].kind = "turn" => log[i].base = i - 1

\* _commit_turn gives up only under contention: at least three other commits
\* came between the end of its turn and its last try.
GivesUpOnlyContended ==
    \A w \in Writers : At(w, "gave up") => me[w].seen >= me[w].since + Tries - 1 /\ version >= me[w].since + Tries

\* How far a writer has come, for the abstract specification.
StageOf(w) ==
    CASE rows[w] = "SUCCEEDED" -> "committed"
      [] rows[w] = "FAILED" \/ me[w].pc \in {"raised", "gone"} -> "failed"
      [] me[w].pc \in {"load", "enter", "entering"} -> "new"
      [] OTHER -> IF w \in Entering THEN "entered" ELSE "new"

Atomic == INSTANCE AtomicCommit WITH
    Merge <- MergeDelta,
    Mergeable <- LAMBDA s, d : ~MergeRaises(s, d),
    DeltaOnEnter <- LAMBDA w, s : EnterDelta(OnEnter[w], s),
    Enterable <- LAMBDA w, s : /\ ~EnterRaises(OnEnter[w], s)
                               /\ ~MergeRaises(s, EnterDelta(OnEnter[w], s)),
    stage <- [w \in Writers |-> StageOf(w)]

\* The races and retries of _commit_turn come down to one merge into the state
\* as it is, or to none; _commit_state's to one merge into a state the run has
\* been in.
Implements == Atomic!Spec

=============================================================================
