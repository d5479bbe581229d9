----------------------------- MODULE StateMerge -----------------------------
(***************************************************************************)
(* What a delta makes of a run's shared state: merge_delta of              *)
(* src/ravana/engine/state_merge.py with the policy of each key, and       *)
(* apply_on_enter of src/ravana/engine/expr.py, which computes the delta   *)
(* of an on_enter statement.                                               *)
(*                                                                         *)
(* A state, like a delta, is a function from the keys it has to values.  A *)
(* value is [list |-> a sequence of values], [object |-> a function from   *)
(* names to anything] or [scalar |-> an integer]; 0 stands for every       *)
(* scalar that Python takes for false (None, "", False).                   *)
(***************************************************************************)
EXTENDS Integers, Sequences

CONSTANTS
    Keys,       \* the keys of shared_state
    Schema      \* spec.state.schema: the merge policy of each declared key

Policies == {"overwrite", "merge-object", "append"}

ASSUME SchemaAssumption ==
    /\ DOMAIN Schema \subseteq Keys
    /\ \A k \in DOMAIN Schema : Schema[k] \in Policies

IsList(v) == DOMAIN v = {"list"}
IsObject(v) == DOMAIN v = {"object"}
IsScalar(v) == DOMAIN v = {"scalar"}

\* Python's truth value.
Truthy(v) ==
    \/ IsList(v) /\ v.list # <<>>
    \/ IsObject(v) /\ DOMAIN v.object # {}
    \/ IsScalar(v) /\ v.scalar # 0

\* The lists of a value are sequences.
IsSeq(s) == s \in Seq({s[i] : i \in DOMAIN s})
IsValue(v) == (IsList(v) /\ IsSeq(v.list)) \/ IsObject(v) \/ IsScalar(v)

IsState(s) == DOMAIN s \subseteq Keys /\ \A k \in DOMAIN s : IsValue(s[k])

PolicyOf(k) == IF k \in DOMAIN Schema THEN Schema[k] ELSE "overwrite"

\* `new` over `old`, key by key: {**old, **new}.
Over(old, new) ==
    [k \in DOMAIN old \cup DOMAIN new |-> IF k \in DOMAIN new THEN new[k] ELSE old[k]]

\* `merged.get(key) or {}` and `merged.get(key) or []`.
ObjectOf(v) == IF Truthy(v) THEN v.object ELSE <<>>
ListOf(v) == IF Truthy(v) THEN v.list ELSE <<>>

Items(v) == IF IsList(v) THEN v.list ELSE <<v>>

\* An existing value that a policy cannot combine with the new one.
Clashes(policy, old, new) ==
    \/ policy = "merge-object" /\ Truthy(old) /\ ~IsObject(old)
    \/ policy = "merge-object" /\ ~IsObject(new)
    \/ policy = "append" /\ Truthy(old) /\ ~IsList(old)

\* Mutation: an appended value replaces what other nodes have contributed.
MergedReplacing(policy, old, new) ==
    CASE policy = "merge-object" -> [object |-> Over(ObjectOf(old), new.object)]
      [] policy = "append" -> [list |-> Items(new)]
      [] OTHER -> new

Merged(policy, old, new) ==
    CASE policy = "merge-object" -> [object |-> Over(ObjectOf(old), new.object)]
      [] policy = "append" -> [list |-> ListOf(old) \o Items(new)]
      [] OTHER -> new

MergeRaises(state, delta) ==
    \E k \in DOMAIN state \cap DOMAIN delta : Clashes(PolicyOf(k), state[k], delta[k])

\* A key the state does not have yet takes the delta's value as it is, whatever
\* its policy and type.
MergeDelta(state, delta) ==
    [k \in DOMAIN state \cup DOMAIN delta |->
        IF k \notin DOMAIN delta THEN state[k]
        ELSE IF k \notin DOMAIN state THEN delta[k]
        ELSE Merged(PolicyOf(k), state[k], delta[k])]

-----------------------------------------------------------------------------
(* on_enter: `state.<key> (=|+=|-=) <rhs>`, here with a number as its right *)
(* side.                                                                    *)

Statements == [key : Keys, op : {"=", "+=", "-="}, rhs : Int]

\* `current or 0`
Number(state, k) ==
    IF k \in DOMAIN state /\ Truthy(state[k]) THEN state[k].scalar ELSE 0

EnterRaises(stmt, state) ==
    /\ stmt.op # "="
    /\ stmt.key \in DOMAIN state
    /\ Truthy(state[stmt.key]) /\ ~IsScalar(state[stmt.key])

EnterDelta(stmt, state) ==
    [k \in {stmt.key} |->
        [scalar |-> CASE stmt.op = "+=" -> Number(state, k) + stmt.rhs
                      [] stmt.op = "-=" -> Number(state, k) - stmt.rhs
                      [] OTHER -> stmt.rhs]]

-----------------------------------------------------------------------------
(* What a delta contributes to a state and must not lose again.             *)

Elements(v) == {Items(v)[i] : i \in DOMAIN Items(v)}

\* The state still has every item that the delta appended and every name that
\* it put into a merged object.  An overwritten key promises nothing, and a
\* false value counts as none.
Keeps(state, delta) ==
    \A k \in DOMAIN delta : Truthy(delta[k]) =>
        /\ PolicyOf(k) = "append" =>
               /\ k \in DOMAIN state /\ Truthy(state[k])
               /\ Elements(delta[k]) \subseteq Elements(state[k])
        /\ PolicyOf(k) = "merge-object" /\ IsObject(delta[k]) =>
               /\ k \in DOMAIN state /\ IsObject(state[k])
               /\ DOMAIN delta[k].object \subseteq DOMAIN state[k].object

=============================================================================
