------------------------------ MODULE MCEngine ------------------------------
(***************************************************************************)
(* Small graphs for TLC.  A configuration picks one of them by assigning   *)
(* its definitions to the constants of Engine.                             *)
(***************************************************************************)
EXTENDS Engine, TLC

If(to) == [to |-> to, cond |-> TRUE]
Always(to) == [to |-> to, cond |-> FALSE]
NoCaps == [p \in {} |-> 0]
NoJoins == <<>>

\* Every construct of the repository's SDLC example on one graph: a broadcast
\* to b and c, each of which may ask a human, their join j, a capped loop from j
\* back to b, and an implicit terminal t.  b has no way on but its condition
\* and its human.
LoopNodes == {"a", "b", "c", "j", "t"}
LoopConditional ==
    [n \in LoopNodes |-> CASE n = "a" -> <<Always(<<"b", "c">>)>>
                           [] n \in {"b", "c"} -> <<If(<<"j">>)>>
                           [] n = "j" -> <<If(<<"b">>)>>
                           [] n = "t" -> <<>>]
LoopDefault ==
    [n \in LoopNodes |-> CASE n = "c" -> <<"end">>
                           [] n = "j" -> <<"t">>
                           [] n \in {"a", "b", "t"} -> <<>>]
LoopJoins == <<"j">>
LoopOnce == (<<"j", "b">> :> 1)

DriverSymmetry == Permutations(Drivers)

\* A fork whose branches may each ask a human, reconverging in a join that
\* ends the run implicitly.
ForkNodes == {"a", "b", "c", "j"}
ForkConditional ==
    [n \in ForkNodes |-> CASE n = "a" -> <<Always(<<"b", "c">>)>>
                           [] n \in {"b", "c"} -> <<If(<<"j">>)>>
                           [] n = "j" -> <<>>]
ForkDefault == [n \in ForkNodes |-> IF n \in {"b", "c"} THEN <<"end">> ELSE <<>>]
ForkJoins == <<"j">>

\* A diamond without a join: each branch enters w on its own, and w asks.
DiamondNodes == {"a", "b", "c", "w"}
DiamondConditional ==
    [n \in DiamondNodes |-> CASE n = "a" -> <<Always(<<"b", "c">>)>>
                              [] n \in {"b", "c"} -> <<Always(<<"w">>)>>
                              [] n = "w" -> <<If(<<"end">>)>>]
DiamondDefault == [n \in DiamondNodes |-> <<>>]

\* A join that feeds a later one, listed after it.
CascadeNodes == {"a", "b", "c", "x", "j1", "j2"}
CascadeConditional ==
    [n \in CascadeNodes |-> CASE n = "a" -> <<Always(<<"b", "c">>)>>
                              [] n = "b" -> <<If(<<"x">>)>>
                              [] n = "x" -> <<Always(<<"j1">>)>>
                              [] n \in {"c", "j1"} -> <<Always(<<"j2">>)>>
                              [] n = "j2" -> <<>>]
CascadeDefault == [n \in CascadeNodes |-> IF n = "b" THEN <<"j1">> ELSE <<>>]
CascadeJoins == <<"j2", "j1">>

\* A loop that the default edge closes: w works, r reviews, approves on a
\* condition and sends the work back otherwise, once at most.
ReviewNodes == {"w", "r"}
ReviewConditional ==
    [n \in ReviewNodes |-> IF n = "w" THEN <<Always(<<"r">>)>> ELSE <<If(<<"end">>)>>]
ReviewDefault == [n \in ReviewNodes |-> IF n = "r" THEN <<"w">> ELSE <<>>]
ReviewOnce == (<<"r", "w">> :> 1)

=============================================================================
