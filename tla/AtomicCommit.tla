---------------------------- MODULE AtomicCommit ----------------------------
(***************************************************************************)
(* What the commits of a run's shared state promise.  A turn's delta is    *)
(* merged into the state as it is, once, or the turn fails.  An on_enter   *)
(* statement is weaker: its delta, and the whole state it is written with, *)
(* come from some state that the run has been in.                          *)
(***************************************************************************)
CONSTANTS
    Writers,
    Entering,           \* the writers whose node has an on_enter statement
    TurnDeltas,         \* the deltas each writer's turn may return
    Merge(_, _),        \* a state with a delta merged into it
    Mergeable(_, _),    \* whether that is defined
    DeltaOnEnter(_, _), \* the delta of a writer's on_enter in a state
    Enterable(_, _)     \* whether that is defined, and can be merged there

VARIABLES
    state,      \* run.shared_state
    past,       \* the states the run has been in, the present one included
    stage       \* how far each writer has come

Becomes(s) == state' = s /\ past' = past \cup {s}

Init ==
    /\ past = {state}
    /\ stage = [w \in Writers |-> "new"]

Ready(w) == stage[w] = IF w \in Entering THEN "entered" ELSE "new"

Enter(w) ==
    /\ w \in Entering /\ stage[w] = "new"
    /\ \E s \in past : Enterable(w, s) /\ Becomes(Merge(s, DeltaOnEnter(w, s)))
    /\ stage' = [stage EXCEPT ![w] = "entered"]

Commit(w) ==
    /\ Ready(w)
    /\ \E d \in TurnDeltas[w] : Mergeable(state, d) /\ Becomes(Merge(state, d))
    /\ stage' = [stage EXCEPT ![w] = "committed"]

Fail(w) ==
    /\ stage[w] \in {"new", "entered"}
    /\ stage' = [stage EXCEPT ![w] = "failed"]
    /\ UNCHANGED <<state, past>>

Next == \E w \in Writers : Enter(w) \/ Commit(w) \/ Fail(w)

Spec == Init /\ [][Next]_<<state, past, stage>>

=============================================================================
