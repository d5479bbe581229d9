---------------------------- MODULE MCStateCommit ----------------------------
(***************************************************************************)
(* A small instance of StateCommit for TLC: a key of each policy, of       *)
(* which "count" is not declared and therefore overwritten.                *)
(***************************************************************************)
EXTENDS StateCommit, TLC

CONSTANTS a, b, c

MCKeys == {"log", "report", "count"}
MCSchema == [log |-> "append", report |-> "merge-object"]
MCInitial == [count |-> [scalar |-> 0], report |-> [object |-> <<>>]]

\* a counts its entries; b writes a scalar to a key that others append to.
MCOnEnter == (a :> [key |-> "count", op |-> "+=", rhs |-> 1])
          @@ (b :> [key |-> "log", op |-> "=", rhs |-> 2])

\* A turn reports under its own name and appends an item of its own.  c may
\* instead append a bare scalar, which the next append cannot extend if it came
\* first, and write what a's on_enter cannot count, under a's key.
MCTurnDeltas ==
    [w \in Writers |->
        {[report |-> [object |-> (w :> 1)], log |-> [list |-> <<[object |-> (w :> 1)]>>]]}
        \cup IF w = c
             THEN {[log |-> [scalar |-> 3], count |-> [list |-> <<[scalar |-> 3]>>]]}
             ELSE {}]

=============================================================================
