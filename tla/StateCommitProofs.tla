-------------------------- MODULE StateCommitProofs --------------------------
(***************************************************************************)
(* Theorems about StateCommit: for every schema, every number of writers,  *)
(* every on_enter statement and every payload.                             *)
(***************************************************************************)
EXTENDS StateCommit, TLAPS

-----------------------------------------------------------------------------
(* What merge_delta preserves.                                              *)

\* Every element of s is one of u.
Embeds(s, u) == \A i \in DOMAIN s : \E j \in DOMAIN u : u[j] = s[i]

LEMMA ConcatSeq ==
  ASSUME NEW s, NEW t, IsSeq(s), IsSeq(t)
  PROVE  /\ IsSeq(s \o t)
         /\ Embeds(s, s \o t) /\ Embeds(t, s \o t)
         /\ t # <<>> => s \o t # <<>>
         /\ s # <<>> => s \o t # <<>>
<1>. DEFINE S == {s[i] : i \in DOMAIN s}
            T == {t[i] : i \in DOMAIN t}
            u == s \o t
<1>1. s \in Seq(S \cup T) /\ t \in Seq(S \cup T)
  <2>1. s \in Seq(S) /\ t \in Seq(T)
    BY DEF IsSeq
  <2>. HIDE DEF S, T
  <2>. QED  BY <2>1
<1>2. /\ u \in Seq(S \cup T) /\ Len(u) = Len(s) + Len(t)
      /\ Len(s) \in Nat /\ Len(t) \in Nat
      /\ DOMAIN s = 1..Len(s) /\ DOMAIN t = 1..Len(t) /\ DOMAIN u = 1..Len(u)
      /\ \A i \in 1..Len(s) : u[i] = s[i]
      /\ \A i \in 1..Len(t) : u[Len(s) + i] = t[i]
  <2>. HIDE DEF S, T
  <2>. QED  BY <1>1
<1>3. u \in Seq({u[i] : i \in DOMAIN u})
  <2>. DEFINE U == {u[j] : j \in DOMAIN u}
  <2>1. \A i \in 1..Len(u) : u[i] \in U
    BY <1>2
  <2>. HIDE DEF U, S, T, u
  <2>. QED  BY <1>2, <2>1
<1>4. \A i \in DOMAIN s : i \in DOMAIN u /\ u[i] = s[i]
  BY <1>2
<1>5. \A i \in DOMAIN t : Len(s) + i \in DOMAIN u /\ u[Len(s) + i] = t[i]
  BY <1>2
<1>6. (t # <<>> \/ s # <<>>) => u # <<>>
  <2>. HIDE DEF S, T, u
  <2>. QED  BY <1>1, <1>2
<1>7. Embeds(s, u) /\ Embeds(t, u)
  <2>. HIDE DEF u
  <2>. QED  BY <1>4, <1>5 DEF Embeds
<1>. QED  BY <1>3, <1>6, <1>7 DEF IsSeq

LEMMA SingletonSeq ==
  ASSUME NEW v
  PROVE  IsSeq(<<v>>) /\ <<v>> # <<>> /\ IsSeq(<<>>)
<1>1. <<v>> \in Seq({v}) /\ {<<v>>[i] : i \in DOMAIN <<v>>} = {v} /\ <<v>> # <<>>
  BY DEF IsSeq
<1>2. <<>> \in Seq({<<>>[i] : i \in DOMAIN <<>>})
  OBVIOUS
<1>. QED  BY <1>1, <1>2 DEF IsSeq

LEMMA ItemsSeq ==
  ASSUME NEW v, IsValue(v)
  PROVE  IsSeq(Items(v)) /\ (Truthy(v) => Items(v) # <<>>)
BY SingletonSeq DEF IsValue, Items, Truthy, IsList, IsObject, IsScalar

\* What the append policy makes of a value.
LEMMA Appending ==
  ASSUME NEW old, NEW new, IsValue(old), IsValue(new), ~Clashes("append", old, new)
  PROVE  LET v == Merged("append", old, new)
         IN /\ IsValue(v)
            /\ Elements(new) \subseteq Elements(v)
            /\ Truthy(old) => Elements(old) \subseteq Elements(v)
            /\ Truthy(old) \/ Truthy(new) => Truthy(v)
<1>. DEFINE l == ListOf(old) \o Items(new)
            v == [list |-> l]
<1>1. Merged("append", old, new) = v
  BY DEF Merged
<1>2. IsSeq(ListOf(old)) /\ IsSeq(Items(new))
  BY SingletonSeq, ItemsSeq DEF ListOf, Clashes, IsValue, IsList, IsObject, IsScalar
<1>3. IsList(v) /\ v.list = l
  BY DEF IsList
<1>4. IsSeq(l) /\ Items(v) = l
  BY <1>2, <1>3, ConcatSeq DEF Items
<1>5. IsValue(v)
  BY <1>3, <1>4 DEF IsValue
<1>6. Elements(new) \subseteq Elements(v)
  <2>1. Embeds(Items(new), l)
    BY <1>2, ConcatSeq
  <2>. HIDE DEF l, v
  <2>. QED  BY <1>4, <2>1 DEF Elements, Embeds
<1>7. Truthy(old) => IsList(old) /\ ListOf(old) = Items(old) /\ Items(old) # <<>>
  <2>1. Truthy(old) => IsList(old) /\ Items(old) # <<>>
    BY ItemsSeq DEF Clashes
  <2>. QED  BY <2>1 DEF ListOf, Items
<1>8. Truthy(old) => Elements(old) \subseteq Elements(v)
  <2>1. Truthy(old) => Embeds(Items(old), l)
    BY <1>2, <1>7, ConcatSeq
  <2>. HIDE DEF l, v
  <2>. QED  BY <1>4, <2>1 DEF Elements, Embeds
<1>9. Truthy(old) \/ Truthy(new) => l # <<>>
  <2>1. Truthy(new) => Items(new) # <<>>
    BY ItemsSeq
  <2>. QED  BY <1>2, <1>7, <2>1, ConcatSeq
<1>10. Truthy(old) \/ Truthy(new) => Truthy(v)
  BY <1>3, <1>9 DEF Truthy
<1>. HIDE DEF v
<1>. QED  BY <1>1, <1>5, <1>6, <1>8, <1>10

\* What the merge-object policy makes of a value.
LEMMA MergingObjects ==
  ASSUME NEW old, NEW new, ~Clashes("merge-object", old, new)
  PROVE  LET v == Merged("merge-object", old, new)
         IN /\ IsObject(v) /\ IsObject(new)
            /\ DOMAIN new.object \subseteq DOMAIN v.object
            /\ IsObject(old) => DOMAIN old.object \subseteq DOMAIN v.object
<1>1. Merged("merge-object", old, new) = [object |-> Over(ObjectOf(old), new.object)]
  BY DEF Merged
<1>2. DOMAIN Over(ObjectOf(old), new.object) = DOMAIN ObjectOf(old) \cup DOMAIN new.object
  BY DEF Over
<1>3. IsObject(old) => DOMAIN old.object \subseteq DOMAIN ObjectOf(old)
  BY DEF ObjectOf, Truthy
<1>. QED  BY <1>1, <1>2, <1>3 DEF IsObject, Clashes

LEMMA MergeIsState ==
  ASSUME SchemaAssumption, NEW s, NEW d, IsState(s), IsState(d), ~MergeRaises(s, d)
  PROVE  IsState(MergeDelta(s, d))
<1>. DEFINE m == MergeDelta(s, d)
<1>1. DOMAIN m = DOMAIN s \cup DOMAIN d
  BY DEF MergeDelta
<1>2. ASSUME NEW k \in DOMAIN m
      PROVE  IsValue(m[k])
  <2>1. CASE k \notin DOMAIN d \/ k \notin DOMAIN s
    BY <1>1, <2>1 DEF MergeDelta, IsState
  <2>2. CASE k \in DOMAIN d /\ k \in DOMAIN s
    <3>1. m[k] = Merged(PolicyOf(k), s[k], d[k]) /\ ~Clashes(PolicyOf(k), s[k], d[k])
      BY <2>2 DEF MergeDelta, MergeRaises
    <3>2. IsValue(s[k]) /\ IsValue(d[k])
      BY <2>2 DEF IsState
    <3>3. CASE PolicyOf(k) = "append"
      BY <3>1, <3>2, <3>3, Appending
    <3>4. CASE PolicyOf(k) = "merge-object"
      BY <3>1, <3>4, MergingObjects DEF IsValue
    <3>5. CASE PolicyOf(k) \notin {"append", "merge-object"}
      <4>1. m[k] = d[k]
        BY <3>1, <3>5 DEF Merged
      <4>. QED  BY <3>2, <4>1
    <3>. QED  BY <3>3, <3>4, <3>5
  <2>. QED  BY <2>1, <2>2
<1>. QED  BY <1>1, <1>2 DEF IsState

\* A delta is in the state it is merged into.
LEMMA MergeAdds ==
  ASSUME NEW s, NEW d, IsState(s), IsState(d), ~MergeRaises(s, d)
  PROVE  Keeps(MergeDelta(s, d), d)
<1>. DEFINE m == MergeDelta(s, d)
<1>. SUFFICES ASSUME NEW k \in DOMAIN d, Truthy(d[k])
              PROVE  /\ PolicyOf(k) = "append" =>
                          /\ k \in DOMAIN m /\ Truthy(m[k])
                          /\ Elements(d[k]) \subseteq Elements(m[k])
                     /\ PolicyOf(k) = "merge-object" /\ IsObject(d[k]) =>
                          /\ k \in DOMAIN m /\ IsObject(m[k])
                          /\ DOMAIN d[k].object \subseteq DOMAIN m[k].object
  BY DEF Keeps
<1>1. k \in DOMAIN m
  BY DEF MergeDelta
<1>2. CASE k \notin DOMAIN s
  <2>1. m[k] = d[k]
    BY <1>2 DEF MergeDelta
  <2>. QED  BY <1>1, <2>1
<1>3. CASE k \in DOMAIN s
  <2>1. m[k] = Merged(PolicyOf(k), s[k], d[k]) /\ ~Clashes(PolicyOf(k), s[k], d[k])
    BY <1>3 DEF MergeDelta, MergeRaises
  <2>2. IsValue(s[k]) /\ IsValue(d[k])
    BY <1>3 DEF IsState
  <2>3. CASE PolicyOf(k) = "append"
    BY <1>1, <2>1, <2>2, <2>3, Appending
  <2>4. CASE PolicyOf(k) = "merge-object"
    BY <1>1, <2>1, <2>4, MergingObjects
  <2>. QED  BY <2>3, <2>4
<1>. QED  BY <1>2, <1>3

\* A merge keeps what the state had kept of an earlier delta.
LEMMA MergeKeeps ==
  ASSUME NEW s, NEW d, NEW e, IsState(s), IsState(d), ~MergeRaises(s, d), Keeps(s, e)
  PROVE  Keeps(MergeDelta(s, d), e)
<1>. DEFINE m == MergeDelta(s, d)
<1>. SUFFICES ASSUME NEW k \in DOMAIN e, Truthy(e[k])
              PROVE  /\ PolicyOf(k) = "append" =>
                          /\ k \in DOMAIN m /\ Truthy(m[k])
                          /\ Elements(e[k]) \subseteq Elements(m[k])
                     /\ PolicyOf(k) = "merge-object" /\ IsObject(e[k]) =>
                          /\ k \in DOMAIN m /\ IsObject(m[k])
                          /\ DOMAIN e[k].object \subseteq DOMAIN m[k].object
  BY DEF Keeps
<1>1. CASE PolicyOf(k) = "append"
  <2>1. k \in DOMAIN s /\ Truthy(s[k]) /\ Elements(e[k]) \subseteq Elements(s[k])
    BY <1>1 DEF Keeps
  <2>2. k \in DOMAIN m
    BY <2>1 DEF MergeDelta
  <2>3. CASE k \notin DOMAIN d
    <3>1. m[k] = s[k]
      BY <2>1, <2>3 DEF MergeDelta
    <3>. QED  BY <1>1, <2>1, <2>2, <3>1
  <2>4. CASE k \in DOMAIN d
    <3>1. m[k] = Merged("append", s[k], d[k]) /\ ~Clashes("append", s[k], d[k])
      BY <1>1, <2>1, <2>4 DEF MergeDelta, MergeRaises
    <3>2. IsValue(s[k]) /\ IsValue(d[k])
      BY <2>1, <2>4 DEF IsState
    <3>3. Truthy(m[k]) /\ Elements(s[k]) \subseteq Elements(m[k])
      BY <2>1, <3>1, <3>2, Appending
    <3>. QED  BY <1>1, <2>1, <2>2, <3>3
  <2>. QED  BY <2>3, <2>4
<1>2. CASE PolicyOf(k) = "merge-object" /\ IsObject(e[k])
  <2>1. k \in DOMAIN s /\ IsObject(s[k]) /\ DOMAIN e[k].object \subseteq DOMAIN s[k].object
    BY <1>2 DEF Keeps
  <2>2. k \in DOMAIN m
    BY <2>1 DEF MergeDelta
  <2>3. CASE k \notin DOMAIN d
    <3>1. m[k] = s[k]
      BY <2>1, <2>3 DEF MergeDelta
    <3>. QED  BY <1>2, <2>1, <2>2, <3>1
  <2>4. CASE k \in DOMAIN d
    <3>1. m[k] = Merged("merge-object", s[k], d[k]) /\ ~Clashes("merge-object", s[k], d[k])
      BY <1>2, <2>1, <2>4 DEF MergeDelta, MergeRaises
    <3>2. IsObject(m[k]) /\ DOMAIN s[k].object \subseteq DOMAIN m[k].object
      BY <2>1, <3>1, MergingObjects
    <3>. QED  BY <1>2, <2>1, <2>2, <3>2
  <2>. QED  BY <2>3, <2>4
<1>. QED  BY <1>1, <1>2

-----------------------------------------------------------------------------
(* The invariant.                                                           *)

IsLocals(m) ==
    m = [pc |-> m.pc, base |-> m.base, at |-> m.at, delta |-> m.delta,
         seen |-> m.seen, try |-> m.try, since |-> m.since]

Typed(m) ==
    /\ IsLocals(m)
    /\ m.pc \in {"load", "enter", "entering", "turn", "read", "write",
                 "done", "failed", "gave up", "raised", "gone"}
    /\ IsState(m.base) /\ IsState(m.delta)
    /\ m.at \in Nat /\ m.seen \in Nat /\ m.since \in Nat
    /\ m.try \in 0..Tries

\* What a writer has read is, or once was, the run's state; what it holds has
\* every contribution of the commits before it was read.
HasRead(m) ==
    /\ m.base \in past
    /\ m.at <= version /\ m.seen <= version
    /\ KeptIn(m.base, m.at)

EnterOK(w, m) ==
    /\ m.pc \in {"enter", "entering"} =>
          /\ w \in Entering
          /\ ~EnterRaises(OnEnter[w], m.base)
          /\ m.delta = EnterDelta(OnEnter[w], m.base)
    /\ m.pc = "entering" => m.at <= m.seen /\ ~MergeRaises(m.base, m.delta)

\* While the version has not moved, what a commit read is the run's state; and
\* every failed try was due to a commit of another writer.
CommitOK(w, m) ==
    /\ m.pc \in {"read", "write"} =>
          /\ m.delta \in TurnDeltas[w]
          /\ m.try >= 1 /\ version >= m.since + m.try - 1
    /\ m.pc = "write" =>
          /\ m.at = m.seen /\ m.seen >= m.since + m.try - 1
          /\ m.seen = version => m.base = state
          /\ ~MergeRaises(m.base, m.delta)
    /\ m.pc = "gave up" =>
          m.seen >= m.since + Tries - 1 /\ version >= m.since + Tries

RowOK(m, row) ==
    /\ row \in {"RUNNING", "SUCCEEDED", "FAILED"}
    /\ row = "SUCCEEDED" <=> m.pc = "done"
    /\ row = "FAILED" <=> m.pc \in {"failed", "gave up"}

WriterOK(w, m, row) ==
    Typed(m) /\ HasRead(m) /\ EnterOK(w, m) /\ CommitOK(w, m) /\ RowOK(m, row)

StatesOK == IsState(state) /\ state \in past /\ \A s \in past : IsState(s)

LogOK ==
    /\ version \in Nat /\ IsSeq(log)
    /\ LogVerifies /\ NothingClobbered

WritersOK ==
    /\ me = [w \in Writers |-> me[w]] /\ rows = [w \in Writers |-> rows[w]]
    /\ \A w \in Writers : WriterOK(w, me[w], rows[w])

IInv == StatesOK /\ LogOK /\ WritersOK

LEMMA InitIInv ==
  ASSUME SchemaAssumption, CommitAssumption, Init
  PROVE  IInv
<1>1. StatesOK
  BY DEF StatesOK, Init, CommitAssumption
<1>2. Len(log) = 0 /\ log = <<>> /\ version = 0
  BY DEF Init
<1>3. KeptIn(InitialState, 0)
  BY DEF KeptIn
<1>4. LogOK
  <2>1. IsSeq(log)
    BY <1>2, SingletonSeq
  <2>2. KeptIn(state, Len(log))
    BY <1>2 DEF KeptIn
  <2>. QED  BY <1>2, <2>1, <2>2 DEF LogOK, LogVerifies, NothingClobbered
<1>5. ASSUME NEW w \in Writers
      PROVE  WriterOK(w, me[w], rows[w])
  <2>1. /\ rows[w] = "RUNNING"
        /\ me[w] = [pc |-> "load", base |-> InitialState, at |-> 0, delta |-> <<>>,
                    seen |-> 0, try |-> 0, since |-> 0]
    BY DEF Init
  <2>2. IsState(<<>>) /\ IsState(InitialState)
    BY DEF IsState, CommitAssumption
  <2>3. Typed(me[w])
    BY <2>1, <2>2 DEF Typed, IsLocals, Tries
  <2>4. HasRead(me[w])
    BY <1>2, <1>3, <2>1 DEF HasRead, Init
  <2>5. EnterOK(w, me[w]) /\ CommitOK(w, me[w]) /\ RowOK(me[w], rows[w])
    BY <2>1 DEF EnterOK, CommitOK, RowOK
  <2>. QED  BY <2>3, <2>4, <2>5 DEF WriterOK
<1>6. me = [w \in Writers |-> me[w]] /\ rows = [w \in Writers |-> rows[w]]
  BY DEF Init
<1>. QED  BY <1>1, <1>4, <1>5, <1>6 DEF IInv, WritersOK

-----------------------------------------------------------------------------
(* Steps that do not write the shared state.                                *)

Quiet(w) ==
    /\ NoWrite
    /\ \E m, r : /\ WriterOK(w, m, r)
                 /\ me' = [me EXCEPT ![w] = m] /\ rows' = [rows EXCEPT ![w] = r]

LEMMA Unchanged ==
  ASSUME NoWrite, NEW w, NEW m, NEW r, WriterOK(w, m, r)
  PROVE  WriterOK(w, m, r)'
<1>1. KeptIn(m.base, m.at) => KeptIn(m.base, m.at)'
  BY DEF KeptIn, Overwritten, NoWrite
<1>2. HasRead(m)'
  BY <1>1 DEF WriterOK, HasRead, NoWrite
<1>3. CommitOK(w, m)'
  BY DEF WriterOK, CommitOK, NoWrite
<1>. QED  BY <1>2, <1>3 DEF WriterOK, Typed, EnterOK, RowOK

LEMMA QuietIInv ==
  ASSUME IInv, NEW w \in Writers, Quiet(w)
  PROVE  IInv'
<1>1. PICK m, r : /\ WriterOK(w, m, r)
                  /\ me' = [me EXCEPT ![w] = m] /\ rows' = [rows EXCEPT ![w] = r]
  BY DEF Quiet
<1>2. StatesOK' /\ LogOK'
  BY DEF IInv, Quiet, NoWrite, StatesOK, LogOK, LogVerifies, NothingClobbered, KeptIn, Overwritten
<1>3. ASSUME NEW v \in Writers
      PROVE  WriterOK(v, me[v], rows[v])'
  <2>1. WriterOK(v, me'[v], rows'[v])
    BY <1>1 DEF IInv, WritersOK
  <2>2. \A n, s : WriterOK(v, n, s) => WriterOK(v, n, s)'
    BY Unchanged DEF Quiet
  <2>. QED  BY <2>1, <2>2
<1>4. /\ me' = [v \in Writers |-> me'[v]] /\ rows' = [v \in Writers |-> rows'[v]]
  BY <1>1 DEF IInv, WritersOK
<1>. QED  BY <1>2, <1>3, <1>4 DEF IInv, WritersOK

-----------------------------------------------------------------------------
(* Steps that write it.                                                     *)

LEMMA AppendSeq ==
  ASSUME NEW s, NEW e, IsSeq(s)
  PROVE  /\ IsSeq(Append(s, e))
         /\ Len(s) \in Nat /\ Len(Append(s, e)) = Len(s) + 1
         /\ \A i \in 1..Len(s) : Append(s, e)[i] = s[i]
         /\ Append(s, e)[Len(s) + 1] = e
<1>. DEFINE S == {s[i] : i \in DOMAIN s}
            t == Append(s, e)
<1>1. s \in Seq(S \cup {e})
  <2>1. s \in Seq(S)
    BY DEF IsSeq
  <2>. HIDE DEF S
  <2>. QED  BY <2>1
<1>2. /\ t \in Seq(S \cup {e}) /\ Len(s) \in Nat /\ Len(t) = Len(s) + 1
      /\ \A i \in 1..Len(s) : t[i] = s[i]
      /\ t[Len(s) + 1] = e
  <2>. HIDE DEF S
  <2>. QED  BY <1>1
<1>3. IsSeq(t)
  <2>. DEFINE T == {t[i] : i \in DOMAIN t}
  <2>1. \A i \in DOMAIN t : t[i] \in T
    OBVIOUS
  <2>. HIDE DEF S, T, t
  <2>2. t \in Seq(T)
    BY <1>2, <2>1
  <2>. QED  BY <2>2 DEF IsSeq, T
<1>. HIDE DEF t
<1>4. /\ IsSeq(t)
      /\ Len(s) \in Nat /\ Len(t) = Len(s) + 1
      /\ \A i \in 1..Len(s) : t[i] = s[i]
      /\ t[Len(s) + 1] = e
  BY <1>2, <1>3
<1>. QED  BY <1>4 DEF t

\* The log grows by one row with this delta, written with a state loaded at
\* version b.
Grows(d, b, kind) ==
    LET n == Len(log)
    IN /\ Len(log') = n + 1
       /\ \A i \in 1..n : log'[i] = log[i]
       /\ log'[n + 1].delta = d /\ log'[n + 1].base = b /\ log'[n + 1].kind = kind
       /\ log'[n + 1].before = n /\ log'[n + 1].after = n + 1

LEMMA KeptUnlessGrown ==
  ASSUME NEW s, NEW n \in Nat, NEW d, NEW b, NEW kind,
         Len(log) \in Nat, n <= Len(log), Grows(d, b, kind)
  PROVE  KeptIn(s, n)' <=> KeptIn(s, n)
<1>1. \A i \in 1..n : log'[i] = log[i]
  BY DEF Grows
<1>2. \A i \in 1..n : Overwritten(i, n)' <=> Overwritten(i, n)
  <2>1. \A i \in 1..n : \A j \in (i + 1)..n : j \in 1..n
    OBVIOUS
  <2>. QED  BY <1>1, <2>1 DEF Overwritten
<1>. QED  BY <1>1, <1>2 DEF KeptIn

\* Merging into what a writer holds loses nothing but what came after it.
LEMMA KeptWhenMerged ==
  ASSUME NEW s, NEW d, NEW b \in Nat, NEW n \in Nat, NEW kind,
         n = Len(log), b <= n, Grows(d, b, kind), KeptIn(s, b),
         IsState(s), IsState(d), ~MergeRaises(s, d)
  PROVE  KeptIn(MergeDelta(s, d), n + 1)'
<1>. SUFFICES ASSUME NEW i \in 1..(n + 1), ~Overwritten(i, n + 1)'
              PROVE  Keeps(MergeDelta(s, d), log'[i].delta)
  BY DEF KeptIn, Grows
<1>1. CASE i = n + 1
  BY <1>1, MergeAdds DEF Grows
<1>2. CASE i \in 1..n
  <2>1. b >= i
    <3>1. n + 1 \in (i + 1)..(n + 1)
      BY <1>2
    <3>2. ~(log'[n + 1].base < i)
      BY <3>1 DEF Overwritten
    <3>. QED  BY <3>2 DEF Grows
  <2>2. ~Overwritten(i, b)
    <3>1. \A j \in (i + 1)..b : j \in (i + 1)..(n + 1) /\ j \in 1..n
      OBVIOUS
    <3>. QED  BY <3>1 DEF Overwritten, Grows
  <2>3. Keeps(s, log[i].delta)
    BY <2>1, <2>2 DEF KeptIn
  <2>4. log'[i] = log[i]
    BY <1>2 DEF Grows
  <2>. QED  BY <2>3, <2>4, MergeKeeps
<1>. QED  BY <1>1, <1>2

\* The locals l, field by field.
Has(l, pc, base, at, delta, seen, try, since) ==
    /\ IsLocals(l)
    /\ l.pc = pc /\ l.base = base /\ l.at = at /\ l.delta = delta
    /\ l.seen = seen /\ l.try = try /\ l.since = since

\* w writes, and goes to pc with locals m and row r.
Writes(w, kind, pc, m, r) ==
    /\ me[w].pc \in {"entering", "write"} /\ (kind = "turn" => me[w].pc = "write")
    /\ Unmoved(w) /\ Write(w, kind)
    /\ pc \in {"turn", "done"} /\ RowOK(m, r)
    /\ Has(m, pc, me[w].base, me[w].at, me[w].delta, me[w].seen, me[w].try, me[w].since)
    /\ me' = [me EXCEPT ![w] = m] /\ rows' = [rows EXCEPT ![w] = r]

\* What that does to the invariant.
LEMMA WriteIInv ==
  ASSUME SchemaAssumption, IInv, NEW w \in Writers, NEW kind, NEW pc, NEW m, NEW r,
         Writes(w, kind, pc, m, r)
  PROVE  IInv'
<1>. PICK n, b, d, s : /\ n = Len(log) /\ b = me[w].at
                       /\ d = me[w].delta /\ s = me[w].base
  OBVIOUS
<1>1. /\ Typed(me[w]) /\ HasRead(me[w]) /\ EnterOK(w, me[w]) /\ CommitOK(w, me[w])
      /\ IsSeq(log) /\ version = n /\ version \in Nat /\ me[w].seen = n
  BY DEF Writes, IInv, WritersOK, WriterOK, LogOK, LogVerifies, Unmoved
<1>2. IsState(s) /\ IsState(d) /\ ~MergeRaises(s, d) /\ b \in Nat /\ b <= n /\ KeptIn(s, b)
  BY <1>1 DEF Writes, Typed, HasRead, EnterOK, CommitOK
<1>3. kind = "turn" => b = n
  BY <1>1 DEF Writes, CommitOK
<1>4. state' = MergeDelta(s, d) /\ version' = n + 1 /\ past' = past \cup {state'}
  BY <1>1 DEF Writes, Write
<1>5. Grows(d, b, kind) /\ IsSeq(log')
  <2>1. log' = Append(log, [from |-> w, kind |-> kind, delta |-> d, before |-> n,
                            after |-> n + 1, base |-> b])
    BY <1>1, <1>4 DEF Writes, Write
  <2>. QED  BY <1>1, <2>1, AppendSeq DEF Grows
<1>6. StatesOK'
  <2>1. IsState(state')
    BY <1>2, <1>4, MergeIsState
  <2>. QED  BY <1>4, <2>1 DEF StatesOK, IInv
<1>7. LogOK'
  <2>1. KeptIn(MergeDelta(s, d), n + 1)'
    BY <1>1, <1>2, <1>5, KeptWhenMerged
  <2>2. Len(log') = n + 1 /\ n \in Nat
    BY <1>1, <1>5 DEF Grows
  <2>3. KeptIn(state, Len(log))'
    BY <1>4, <2>1, <2>2 DEF KeptIn, Overwritten
  <2>4. LogVerifies'
    BY <1>4, <1>5, <2>2 DEF Grows, LogVerifies, IInv, LogOK
  <2>5. \A i \in 1..Len(log') : log'[i].kind = "turn" => log'[i].base = i - 1
    <3>1. \A i \in 1..n : log'[i] = log[i] /\ (log[i].kind = "turn" => log[i].base = i - 1)
      BY <1>5 DEF Grows, IInv, LogOK, NothingClobbered
    <3>2. log'[n + 1].kind = kind /\ log'[n + 1].base = b
      BY <1>5 DEF Grows
    <3>. QED  BY <1>3, <2>2, <3>1, <3>2
  <2>. QED  BY <1>4, <1>5, <2>2, <2>3, <2>4, <2>5 DEF LogOK, NothingClobbered
<1>8. ASSUME NEW l, HasRead(l), l.at \in Nat, l.seen \in Nat
      PROVE  HasRead(l)' /\ l.seen < version' /\ l.at < version'
  <2>1. KeptIn(l.base, l.at)'
    BY <1>1, <1>5, <1>8, KeptUnlessGrown DEF HasRead
  <2>2. l.seen < version' /\ l.at < version'
    BY <1>1, <1>4, <1>8 DEF HasRead
  <2>3. l.base \in past' /\ l.at <= version' /\ l.seen <= version'
    BY <1>1, <1>4, <1>8 DEF HasRead
  <2>. QED  BY <2>1, <2>2, <2>3 DEF HasRead
<1>9. ASSUME NEW v \in Writers
      PROVE  WriterOK(v, me[v], rows[v])'
  <2>1. CASE v = w
    <3>1. me'[v] = m /\ rows'[v] = r /\ RowOK(m, r)
      BY <2>1 DEF Writes, IInv, WritersOK
    <3>2. Typed(m) /\ m.base = s /\ m.at = b /\ m.seen = me[w].seen /\ m.pc = pc
      BY <1>1 DEF Writes, Typed, Has
    <3>3. HasRead(m)
      BY <1>1, <3>2 DEF HasRead
    <3>4. HasRead(m)'
      BY <1>1, <1>2, <1>8, <3>2, <3>3
    <3>5. EnterOK(v, m) /\ CommitOK(v, m)'
      BY <3>2 DEF Writes, EnterOK, CommitOK
    <3>. QED  BY <3>1, <3>2, <3>4, <3>5 DEF WriterOK, Typed, EnterOK, RowOK
  <2>2. CASE v # w
    <3>. PICK l, q : l = me[v] /\ q = rows[v]
      OBVIOUS
    <3>1. me'[v] = l /\ rows'[v] = q /\ WriterOK(v, l, q)
      BY <2>2 DEF Writes, IInv, WritersOK
    <3>2. Typed(l) /\ HasRead(l) /\ CommitOK(v, l)
      BY <3>1 DEF WriterOK
    <3>3. HasRead(l)' /\ l.seen < version'
      BY <1>8, <3>2 DEF Typed
    <3>4. CommitOK(v, l)'
      <4>1. /\ version \in Nat /\ version' = version + 1 /\ l.seen < version'
            /\ l.seen \in Nat /\ l.since \in Nat /\ l.try \in Int
        <5>1. version \in Nat /\ version' = version + 1
          BY <1>1, <1>4
        <5>2. l.seen \in Nat /\ l.since \in Nat /\ l.try \in 0..3
          BY <3>2 DEF Typed, Tries
        <5>. QED  BY <3>3, <5>1, <5>2
      <4>2. ASSUME NEW e \in Int, version >= e
            PROVE  version' >= e
        BY <4>1, <4>2
      <4>3. l.since + l.try - 1 \in Int /\ l.since + Tries \in Int /\ l.seen # version'
        BY <4>1 DEF Tries
      <4>. QED  BY <3>2, <4>2, <4>3 DEF CommitOK
    <3>. QED  BY <3>1, <3>3, <3>4 DEF WriterOK, Typed, EnterOK, RowOK
  <2>. QED  BY <2>1, <2>2
<1>10. me' = [v \in Writers |-> me'[v]] /\ rows' = [v \in Writers |-> rows'[v]]
  BY DEF Writes, IInv, WritersOK
<1>. QED  BY <1>6, <1>7, <1>9, <1>10 DEF IInv, WritersOK

-----------------------------------------------------------------------------
(* Every step keeps the invariant.                                          *)

LEMMA EnterDeltaIsState ==
  ASSUME CommitAssumption, NEW w \in Entering, NEW s
  PROVE  IsState(EnterDelta(OnEnter[w], s))
<1>1. OnEnter[w].key \in Keys
  BY DEF CommitAssumption, Statements
<1>. QED  BY <1>1 DEF EnterDelta, IsState, IsValue, IsScalar

\* What the invariant says of one writer, whose locals are m and whose row is q.
About(w, m, q) ==
    /\ m = me[w] /\ q = rows[w] /\ rows = [rows EXCEPT ![w] = q]
    /\ IsLocals(m)
    /\ WriterOK(w, m, q)
    /\ IsState(state) /\ state \in past
    /\ version \in Nat /\ KeptIn(state, version)

LEMMA AboutWriter ==
  ASSUME IInv, NEW w \in Writers
  PROVE  \E m, q : About(w, m, q)
<1>1. PICK m, q : m = me[w] /\ q = rows[w]
  OBVIOUS
<1>2. WriterOK(w, m, q) /\ rows = [rows EXCEPT ![w] = q]
  BY <1>1 DEF IInv, WritersOK
<1>3. About(w, m, q)
  BY <1>1, <1>2 DEF About, IInv, StatesOK, LogOK, LogVerifies, NothingClobbered, WriterOK, Typed
<1>. QED  BY <1>3

LEMMA Quietly ==
  ASSUME IInv, NEW w \in Writers, NEW l, NEW r,
         WriterOK(w, l, r), Set(w, l), rows' = [rows EXCEPT ![w] = r], NoWrite
  PROVE  IInv'
<1>1. Quiet(w)
  BY DEF Quiet, Set
<1>. QED  BY <1>1, QuietIInv

LEMMA LoadIInv ==
  ASSUME CommitAssumption, IInv, NEW w \in Writers, Load(w)
  PROVE  IInv'
<1>0. PICK m, q : About(w, m, q)
  BY AboutWriter
<1>1. m.pc = "load" /\ NoWrite /\ rows' = [rows EXCEPT ![w] = q]
  BY <1>0 DEF Load, At, About
<1>2. CASE w \notin Entering /\ Set(w, [m EXCEPT !.base = state, !.at = version, !.pc = "turn"])
  <2>1. PICK l : l = [m EXCEPT !.base = state, !.at = version, !.pc = "turn"]
    OBVIOUS
  <2>2. Has(l, "turn", state, version, m.delta, m.seen, m.try, m.since)
    BY <1>0, <2>1 DEF About, Has, IsLocals
  <2>3. WriterOK(w, l, q)
    BY <1>0, <2>2, <1>1 DEF About, Has, WriterOK, Typed, HasRead, EnterOK, CommitOK, RowOK
  <2>. QED  BY <1>1, <1>2, <2>1, <2>3, Quietly
<1>3. CASE /\ w \in Entering /\ ~EnterRaises(OnEnter[w], state)
           /\ Set(w, [m EXCEPT !.base = state, !.at = version, !.pc = "enter",
                               !.delta = EnterDelta(OnEnter[w], state)])
  <2>0. IsState(EnterDelta(OnEnter[w], state))
    BY <1>3, EnterDeltaIsState
  <2>1. PICK l : l = [m EXCEPT !.base = state, !.at = version, !.pc = "enter",
                              !.delta = EnterDelta(OnEnter[w], state)]
    OBVIOUS
  <2>2. Has(l, "enter", state, version, EnterDelta(OnEnter[w], state), m.seen, m.try, m.since)
    BY <1>0, <2>1 DEF About, Has, IsLocals
  <2>3. WriterOK(w, l, q)
    BY <1>0, <2>2, <1>1, <1>3, <2>0 DEF About, Has, WriterOK, Typed, HasRead, EnterOK, CommitOK, RowOK
  <2>. QED  BY <1>1, <1>3, <2>1, <2>3, Quietly
<1>4. CASE Set(w, [m EXCEPT !.base = state, !.at = version, !.pc = "raised"])
  <2>1. PICK l : l = [m EXCEPT !.base = state, !.at = version, !.pc = "raised"]
    OBVIOUS
  <2>2. Has(l, "raised", state, version, m.delta, m.seen, m.try, m.since)
    BY <1>0, <2>1 DEF About, Has, IsLocals
  <2>3. WriterOK(w, l, q)
    BY <1>0, <2>2, <1>1 DEF About, Has, WriterOK, Typed, HasRead, EnterOK, CommitOK, RowOK
  <2>. QED  BY <1>1, <1>4, <2>1, <2>3, Quietly
<1>. QED  BY <1>0, <1>2, <1>3, <1>4 DEF Load, About

LEMMA EnterReadIInv ==
  ASSUME CommitAssumption, IInv, NEW w \in Writers, EnterRead(w)
  PROVE  IInv'
<1>0. PICK m, q : About(w, m, q)
  BY AboutWriter
<1>1. m.pc = "enter" /\ NoWrite /\ rows' = [rows EXCEPT ![w] = q]
  BY <1>0 DEF EnterRead, At, About
<1>2. CASE MergeRaises(m.base, m.delta)
  <2>1. PICK l : l = [m EXCEPT !.pc = "raised"]
    OBVIOUS
  <2>2. Has(l, "raised", m.base, m.at, m.delta, m.seen, m.try, m.since)
    BY <1>0, <2>1 DEF About, Has, IsLocals
  <2>3. WriterOK(w, l, q)
    BY <1>0, <2>2, <1>1 DEF About, Has, WriterOK, Typed, HasRead, EnterOK, CommitOK, RowOK
  <2>4. Set(w, l)
    BY <1>0, <1>2, <2>1 DEF EnterRead, GoTo, Set, About
  <2>. QED  BY <1>1, <2>3, <2>4, Quietly
<1>3. CASE ~MergeRaises(m.base, m.delta)
  <2>1. PICK l : l = [m EXCEPT !.pc = "entering", !.seen = version]
    OBVIOUS
  <2>2. Has(l, "entering", m.base, m.at, m.delta, version, m.try, m.since)
    BY <1>0, <2>1 DEF About, Has, IsLocals
  <2>3. WriterOK(w, l, q)
    BY <1>0, <2>2, <1>1, <1>3 DEF About, Has, WriterOK, Typed, HasRead, EnterOK, CommitOK, RowOK
  <2>4. Set(w, l)
    BY <1>0, <1>3, <2>1 DEF EnterRead, About
  <2>. QED  BY <1>1, <2>3, <2>4, Quietly
<1>. QED  BY <1>2, <1>3

LEMMA EnterWriteIInv ==
  ASSUME SchemaAssumption, IInv, NEW w \in Writers, EnterWrite(w)
  PROVE  IInv'
<1>0. PICK m, q : About(w, m, q)
  BY AboutWriter
<1>1. PICK l : l = [m EXCEPT !.pc = "turn"]
  OBVIOUS
<1>2. Has(l, "turn", m.base, m.at, m.delta, m.seen, m.try, m.since)
  BY <1>0, <1>1 DEF About, Has, IsLocals
<1>3. me[w].pc = "entering" /\ RowOK(l, q)
  BY <1>0, <1>2 DEF About, EnterWrite, At, Has, WriterOK, RowOK
<1>4. Has(l, "turn", me[w].base, me[w].at, me[w].delta, me[w].seen, me[w].try, me[w].since)
  BY <1>0, <1>2 DEF About
<1>5. Unmoved(w) /\ Write(w, "enter")
  BY DEF EnterWrite
<1>6. me' = [me EXCEPT ![w] = l] /\ rows' = [rows EXCEPT ![w] = q]
  BY <1>0, <1>1 DEF EnterWrite, GoTo, About
<1>7. Writes(w, "enter", "turn", l, q)
  BY <1>3, <1>4, <1>5, <1>6 DEF Writes
<1>. QED  BY <1>7, WriteIInv

LEMMA EnterConflictsIInv ==
  ASSUME CommitAssumption, IInv, NEW w \in Writers, EnterConflicts(w)
  PROVE  IInv'
<1>0. PICK m, q : About(w, m, q)
  BY AboutWriter
<1>1. m.pc = "entering" /\ NoWrite /\ rows' = [rows EXCEPT ![w] = q]
  BY <1>0 DEF EnterConflicts, At, About
<1>2. PICK l : l = [m EXCEPT !.pc = "raised"]
  OBVIOUS
<1>3. Has(l, "raised", m.base, m.at, m.delta, m.seen, m.try, m.since)
  BY <1>0, <1>2 DEF About, Has, IsLocals
<1>4. WriterOK(w, l, q)
  BY <1>0, <1>1, <1>3 DEF About, Has, WriterOK, Typed, HasRead, EnterOK, CommitOK, RowOK
<1>5. Set(w, l)
  BY <1>0, <1>2 DEF EnterConflicts, GoTo, Set, About
<1>. QED  BY <1>1, <1>4, <1>5, Quietly

LEMMA TurnReturnsIInv ==
  ASSUME CommitAssumption, IInv, NEW w \in Writers, TurnReturns(w)
  PROVE  IInv'
<1>0. PICK m, q : About(w, m, q)
  BY AboutWriter
<1>1. m.pc = "turn" /\ NoWrite /\ rows' = [rows EXCEPT ![w] = q]
  BY <1>0 DEF TurnReturns, At, About
<1>2. PICK d \in TurnDeltas[w] :
         Set(w, [m EXCEPT !.pc = "read", !.delta = d, !.try = 1, !.since = version])
  BY <1>0 DEF TurnReturns, About
<1>3. IsState(d)
  BY DEF CommitAssumption
<1>4. PICK l : l = [m EXCEPT !.pc = "read", !.delta = d, !.try = 1, !.since = version]
  OBVIOUS
<1>5. Has(l, "read", m.base, m.at, d, m.seen, 1, version)
  BY <1>0, <1>4 DEF About, Has, IsLocals
<1>6. WriterOK(w, l, q)
  BY <1>0, <1>1, <1>3, <1>5 DEF About, Has, Tries, WriterOK, Typed, HasRead, EnterOK, CommitOK, RowOK
<1>. QED  BY <1>1, <1>2, <1>4, <1>6, Quietly

LEMMA TurnFailsIInv ==
  ASSUME IInv, NEW w \in Writers, TurnFails(w)
  PROVE  IInv'
<1>0. PICK m, q : About(w, m, q)
  BY AboutWriter
<1>1. m.pc = "turn" /\ NoWrite
  BY <1>0 DEF TurnFails, At, About, Fails
<1>2. PICK l : l = [m EXCEPT !.pc = "failed"]
  OBVIOUS
<1>3. Has(l, "failed", m.base, m.at, m.delta, m.seen, m.try, m.since)
  BY <1>0, <1>2 DEF About, Has, IsLocals
<1>4. WriterOK(w, l, "FAILED")
  BY <1>0, <1>1, <1>3 DEF About, Has, WriterOK, Typed, HasRead, EnterOK, CommitOK, RowOK
<1>5. Set(w, l) /\ rows' = [rows EXCEPT ![w] = "FAILED"]
  BY <1>0, <1>2 DEF TurnFails, Fails, GoTo, Set, About
<1>. QED  BY <1>1, <1>4, <1>5, Quietly

LEMMA CommitReadIInv ==
  ASSUME CommitAssumption, IInv, NEW w \in Writers, CommitRead(w)
  PROVE  IInv'
<1>0. PICK m, q : About(w, m, q)
  BY AboutWriter
<1>1. m.pc = "read" /\ NoWrite
  BY <1>0 DEF CommitRead, At, About, Fails
<1>2. CASE MergeRaises(state, m.delta)
  <2>1. PICK l : l = [m EXCEPT !.pc = "failed"]
    OBVIOUS
  <2>2. Has(l, "failed", m.base, m.at, m.delta, m.seen, m.try, m.since)
    BY <1>0, <2>1 DEF About, Has, IsLocals
  <2>3. WriterOK(w, l, "FAILED")
    BY <1>0, <2>2, <1>1 DEF About, Has, WriterOK, Typed, HasRead, EnterOK, CommitOK, RowOK
  <2>4. Set(w, l) /\ rows' = [rows EXCEPT ![w] = "FAILED"]
    BY <1>0, <1>2, <2>1 DEF CommitRead, Fails, GoTo, Set, About
  <2>. QED  BY <1>1, <2>3, <2>4, Quietly
<1>3. CASE ~MergeRaises(state, m.delta)
  <2>1. PICK l : l = [m EXCEPT !.pc = "write", !.base = state, !.at = version, !.seen = version]
    OBVIOUS
  <2>2. Has(l, "write", state, version, m.delta, version, m.try, m.since)
    BY <1>0, <2>1 DEF About, Has, IsLocals
  <2>3. WriterOK(w, l, q)
    BY <1>0, <2>2, <1>1, <1>3 DEF About, Has, Tries, WriterOK, Typed, HasRead, EnterOK, CommitOK, RowOK
  <2>4. Set(w, l) /\ rows' = [rows EXCEPT ![w] = q]
    BY <1>0, <1>3, <2>1 DEF CommitRead, Reread, About
  <2>. QED  BY <1>1, <2>3, <2>4, Quietly
<1>. QED  BY <1>2, <1>3

LEMMA CommitWriteIInv ==
  ASSUME SchemaAssumption, IInv, NEW w \in Writers, CommitWrite(w)
  PROVE  IInv'
<1>0. PICK m, q : About(w, m, q)
  BY AboutWriter
<1>1. PICK l : l = [m EXCEPT !.pc = "done"]
  OBVIOUS
<1>2. Has(l, "done", m.base, m.at, m.delta, m.seen, m.try, m.since)
  BY <1>0, <1>1 DEF About, Has, IsLocals
<1>3. me[w].pc = "write" /\ RowOK(l, "SUCCEEDED")
  BY <1>0, <1>2 DEF About, CommitWrite, At, Has, WriterOK, RowOK
<1>4. Has(l, "done", me[w].base, me[w].at, me[w].delta, me[w].seen, me[w].try, me[w].since)
  BY <1>0, <1>2 DEF About
<1>5. Unmoved(w) /\ Write(w, "turn")
  BY DEF CommitWrite
<1>6. me' = [me EXCEPT ![w] = l] /\ rows' = [rows EXCEPT ![w] = "SUCCEEDED"]
  BY <1>0, <1>1 DEF CommitWrite, GoTo, About
<1>7. Writes(w, "turn", "done", l, "SUCCEEDED")
  BY <1>3, <1>4, <1>5, <1>6 DEF Writes
<1>. QED  BY <1>7, WriteIInv

LEMMA CommitConflictsIInv ==
  ASSUME CommitAssumption, IInv, NEW w \in Writers, CommitConflicts(w)
  PROVE  IInv'
<1>0. PICK m, q : About(w, m, q)
  BY AboutWriter
<1>1. m.pc = "write" /\ m.seen # version /\ NoWrite /\ m.try \in 0..Tries
  BY <1>0 DEF CommitConflicts, At, About, Fails, Unmoved, WriterOK, Typed
<1>2. CASE MayRetry(w)
  <2>0. m.try < Tries
    BY <1>0, <1>2 DEF MayRetry, About
  <2>1. PICK l : l = [m EXCEPT !.pc = "read", !.try = m.try + 1]
    OBVIOUS
  <2>2. Has(l, "read", m.base, m.at, m.delta, m.seen, m.try + 1, m.since)
    BY <1>0, <2>1 DEF About, Has, IsLocals
  <2>3. WriterOK(w, l, q)
    <3>1. m.seen \in Nat /\ m.since \in Nat /\ m.try \in 0..2 /\ version \in Nat
          /\ m.seen < version /\ m.seen >= m.since + m.try - 1
      BY <1>0, <1>1, <2>0 DEF About, Tries, WriterOK, Typed, HasRead, CommitOK
    <3>2. m.try + 1 \in 0..3 /\ version >= m.since + (m.try + 1) - 1 /\ m.try + 1 >= 1
      BY <3>1
    <3>. QED  BY <1>0, <1>1, <2>2, <3>2 DEF About, Has, Tries, WriterOK, Typed, HasRead, EnterOK, CommitOK, RowOK
  <2>4. Set(w, l) /\ rows' = [rows EXCEPT ![w] = q]
    BY <1>0, <1>2, <2>1 DEF CommitConflicts, About
  <2>. QED  BY <1>1, <2>3, <2>4, Quietly
<1>3. CASE ~MayRetry(w)
  <2>0. m.try = Tries
    BY <1>0, <1>1, <1>3 DEF MayRetry, About, Tries
  <2>1. PICK l : l = [m EXCEPT !.pc = "gave up"]
    OBVIOUS
  <2>2. Has(l, "gave up", m.base, m.at, m.delta, m.seen, m.try, m.since)
    BY <1>0, <2>1 DEF About, Has, IsLocals
  <2>3. WriterOK(w, l, "FAILED")
    <3>1. m.seen \in Nat /\ m.since \in Nat /\ version \in Nat
          /\ m.seen < version /\ m.seen >= m.since + 2
      BY <1>0, <1>1, <2>0 DEF About, Tries, WriterOK, Typed, HasRead, CommitOK
    <3>2. m.seen >= m.since + 3 - 1 /\ version >= m.since + 3
      BY <3>1
    <3>. QED  BY <1>0, <1>1, <2>2, <3>2 DEF About, Has, Tries, WriterOK, Typed, HasRead, EnterOK, CommitOK, RowOK
  <2>4. Set(w, l) /\ rows' = [rows EXCEPT ![w] = "FAILED"]
    BY <1>0, <1>3, <2>1 DEF CommitConflicts, Fails, GoTo, Set, About
  <2>. QED  BY <1>1, <2>3, <2>4, Quietly
<1>. QED  BY <1>2, <1>3

LEMMA LeavesIInv ==
  ASSUME CommitAssumption, IInv, NEW w \in Writers, Leaves(w)
  PROVE  IInv'
<1>0. PICK m, q : About(w, m, q)
  BY AboutWriter
<1>1. /\ m.pc \in {"load", "enter", "entering", "turn", "read", "write"}
      /\ NoWrite /\ rows' = [rows EXCEPT ![w] = q]
  BY <1>0 DEF Leaves, At, About
<1>2. PICK l : l = [m EXCEPT !.pc = "gone"]
  OBVIOUS
<1>3. Has(l, "gone", m.base, m.at, m.delta, m.seen, m.try, m.since)
  BY <1>0, <1>2 DEF About, Has, IsLocals
<1>4. WriterOK(w, l, q)
  BY <1>0, <1>1, <1>3 DEF About, Has, WriterOK, Typed, HasRead, EnterOK, CommitOK, RowOK
<1>5. Set(w, l)
  BY <1>0, <1>2 DEF Leaves, GoTo, Set, About
<1>. QED  BY <1>1, <1>4, <1>5, Quietly

LEMMA StutterIInv ==
  ASSUME IInv, UNCHANGED vars
  PROVE  IInv'
<1>1. NoWrite /\ me' = me /\ rows' = rows
  BY DEF vars, NoWrite
<1>2. StatesOK' /\ LogOK'
  BY <1>1 DEF IInv, NoWrite, StatesOK, LogOK, LogVerifies, NothingClobbered, KeptIn, Overwritten
<1>3. \A w \in Writers : \A m, q : WriterOK(w, m, q) => WriterOK(w, m, q)'
  BY <1>1, Unchanged
<1>. QED  BY <1>1, <1>2, <1>3 DEF IInv, WritersOK

LEMMA NextIInv ==
  ASSUME SchemaAssumption, CommitAssumption, IInv, [Next]_vars
  PROVE  IInv'
BY StutterIInv, LoadIInv, EnterReadIInv, EnterWriteIInv, EnterConflictsIInv, TurnReturnsIInv, TurnFailsIInv,
   CommitReadIInv, CommitWriteIInv, CommitConflictsIInv, LeavesIInv DEF Next

\* From here on the assumptions on the constants hold.
THEOREM Inductive == Spec => []IInv
<1>1. Init => IInv
  BY InitIInv, SchemaAssumption, CommitAssumption
<1>2. IInv /\ [Next]_vars => IInv'
  BY NextIInv, SchemaAssumption, CommitAssumption
<1>. QED  BY <1>1, <1>2, PTL DEF Spec

\* Every reachable state is well typed, and no commit is tried a fourth time.
THEOREM StateCommitTypes == Spec => []TypeOK
<1>1. IInv => TypeOK
  BY DEF IInv, StatesOK, LogOK, WritersOK, WriterOK, Typed, RowOK, TypeOK
<1>. QED  BY <1>1, Inductive, PTL

\* The rows of the log are numbered like the versions, without gap or repetition.
THEOREM LogIsVerifiable == Spec => []LogVerifies
<1>1. IInv => LogVerifies
  BY DEF IInv, LogOK
<1>. QED  BY <1>1, Inductive, PTL

\* What a commit appended or merged into an object is lost only to a commit
\* written with a state that was loaded before it; no turn makes such a commit.
THEOREM CommitsAreKept == Spec => []NothingClobbered
<1>1. IInv => NothingClobbered
  BY DEF IInv, LogOK
<1>. QED  BY <1>1, Inductive, PTL

\* A commit gives up only after at least as many commits of others as it tried.
THEOREM GivingUpIsContended == Spec => []GivesUpOnlyContended
<1>1. IInv => GivesUpOnlyContended
  BY DEF IInv, WritersOK, WriterOK, CommitOK, GivesUpOnlyContended, At
<1>. QED  BY <1>1, Inductive, PTL

-----------------------------------------------------------------------------
(* The abstract specification.                                              *)

\* The invariant makes the stage of a writer a matter of its position.
StageAt(w, pc) ==
    IF pc = "done" THEN "committed"
    ELSE IF pc \in {"failed", "gave up", "raised", "gone"} THEN "failed"
    ELSE IF w \in Entering /\ pc \in {"turn", "read", "write"} THEN "entered"
    ELSE "new"

LEMMA StageByPosition ==
  ASSUME NEW w, NEW m, NEW row, Typed(m), RowOK(m, row)
  PROVE  StageAt(w, m.pc) =
             CASE row = "SUCCEEDED" -> "committed"
               [] row = "FAILED" \/ m.pc \in {"raised", "gone"} -> "failed"
               [] m.pc \in {"load", "enter", "entering"} -> "new"
               [] OTHER -> IF w \in Entering THEN "entered" ELSE "new"
<1>1. CASE m.pc = "done"
  BY <1>1 DEF StageAt, RowOK
<1>2. CASE m.pc \in {"failed", "gave up"}
  BY <1>2 DEF StageAt, RowOK
<1>3. CASE m.pc \in {"raised", "gone"}
  BY <1>3 DEF StageAt, RowOK
<1>4. CASE m.pc \in {"load", "enter", "entering"}
  BY <1>4 DEF StageAt, RowOK
<1>5. CASE m.pc \in {"turn", "read", "write"}
  BY <1>5 DEF StageAt, RowOK
<1>. QED  BY <1>1, <1>2, <1>3, <1>4, <1>5 DEF Typed

\* The variable of the abstract specification that is not one of ours.
stages == [w \in Writers |-> StageOf(w)]

LEMMA StagesArePositions ==
  ASSUME IInv
  PROVE  stages = [w \in Writers |-> StageAt(w, me[w].pc)]
<1>1. ASSUME NEW w \in Writers
      PROVE  StageOf(w) = StageAt(w, me[w].pc)
  <2>1. Typed(me[w]) /\ RowOK(me[w], rows[w])
    BY DEF IInv, WritersOK, WriterOK
  <2>. QED  BY <2>1, StageByPosition DEF StageOf
<1>. QED  BY <1>1 DEF stages

LEMMA StagesArePositionsNext ==
  ASSUME IInv'
  PROVE  stages' = [w \in Writers |-> StageAt(w, me'[w].pc)]
<1>1. ASSUME NEW w \in Writers
      PROVE  StageOf(w)' = StageAt(w, me'[w].pc)
  <2>1. Typed(me'[w]) /\ RowOK(me'[w], rows'[w])
    BY DEF IInv, WritersOK, WriterOK, Typed, IsLocals, RowOK, Tries
  <2>. QED  BY <2>1, StageByPosition DEF StageOf
<1>. QED  BY <1>1 DEF stages

\* A step of w takes it from one position to another.
Passes(w, from, to) ==
    /\ me[w].pc = from /\ me'[w].pc = to
    /\ \A v \in Writers \ {w} : me'[v] = me[v]

LEMMA PassesStage ==
  ASSUME IInv, IInv', NEW w \in Writers, NEW from, NEW to, Passes(w, from, to)
  PROVE  /\ stages[w] = StageAt(w, from)
         /\ stages' = [stages EXCEPT ![w] = StageAt(w, to)]
BY StagesArePositions, StagesArePositionsNext DEF Passes

\* A step that leaves the shared state alone is a stutter or a failure.
LEMMA QuietRefines ==
  ASSUME IInv, IInv', NEW w \in Writers, NEW from, NEW to, Passes(w, from, to), NoWrite,
         StageAt(w, from) \in {"new", "entered"},
         StageAt(w, to) \in {StageAt(w, from), "failed"}
  PROVE  Atomic!Next \/ UNCHANGED <<state, past, stages>>
<1>1. state' = state /\ past' = past
  BY DEF NoWrite
<1>2. CASE StageAt(w, to) = StageAt(w, from)
  <2>1. stages' = stages
    BY <1>2, PassesStage, StagesArePositions
  <2>. QED  BY <1>1, <2>1
<1>3. CASE StageAt(w, to) = "failed"
  <2>1. Atomic!Fail(w)
    BY <1>1, <1>3, PassesStage DEF Atomic!Fail, stages
  <2>. QED  BY <2>1 DEF Atomic!Next
<1>. QED  BY <1>2, <1>3

LEMMA GoesTo ==
  ASSUME IInv, NEW w \in Writers, NEW m, Set(w, m)
  PROVE  me'[w] = m /\ \A v \in Writers \ {w} : me'[v] = me[v]
BY DEF Set, IInv, WritersOK

LEMMA GoesToPc ==
  ASSUME IInv, NEW w \in Writers, NEW pc, GoTo(w, pc)
  PROVE  Passes(w, me[w].pc, pc)
<1>1. PICK m : m = me[w]
  OBVIOUS
<1>2. IsLocals(m) /\ me = [v \in Writers |-> me[v]]
  BY <1>1 DEF IInv, WritersOK, WriterOK, Typed
<1>3. PICK l : l = [m EXCEPT !.pc = pc]
  OBVIOUS
<1>4. l.pc = pc
  BY <1>2, <1>3 DEF IsLocals
<1>5. me' = [me EXCEPT ![w] = l]
  BY <1>1, <1>3 DEF GoTo
<1>. QED  BY <1>2, <1>4, <1>5 DEF Passes

LEMMA SetsPc ==
  ASSUME IInv, NEW w \in Writers, NEW l, Set(w, l)
  PROVE  Passes(w, me[w].pc, l.pc)
BY GoesTo DEF Passes

\* The steps that leave the shared state alone, by position.
LEMMA QuietPositions ==
  ASSUME IInv, NEW w \in Writers,
         \/ Load(w) \/ EnterRead(w) \/ EnterConflicts(w) \/ TurnReturns(w)
         \/ TurnFails(w) \/ CommitRead(w) \/ CommitConflicts(w) \/ Leaves(w)
  PROVE  /\ NoWrite
         /\ \E from, to : /\ Passes(w, from, to)
                          /\ StageAt(w, from) \in {"new", "entered"}
                          /\ StageAt(w, to) \in {StageAt(w, from), "failed"}
<1>. PICK m : m = me[w]
  OBVIOUS
<1>1. IsLocals(m)
  BY DEF IInv, WritersOK, WriterOK, Typed
<1>. DEFINE Live == {"load", "enter", "entering", "turn", "read", "write"}
            Dead == {"failed", "gave up", "raised", "gone"}
<1>2. /\ \A pc \in Live : StageAt(w, pc) \in {"new", "entered"}
      /\ \A pc \in Dead : StageAt(w, pc) = "failed"
      /\ StageAt(w, "entering") = StageAt(w, "enter")
      /\ StageAt(w, "read") = StageAt(w, "turn") /\ StageAt(w, "write") = StageAt(w, "turn")
  BY DEF StageAt
<1>3. ASSUME NEW from \in Live, NEW to \in Dead, Passes(w, from, to)
      PROVE  \E f, t : /\ Passes(w, f, t)
                       /\ StageAt(w, f) \in {"new", "entered"}
                       /\ StageAt(w, t) \in {StageAt(w, f), "failed"}
  BY <1>2, <1>3
<1>4. CASE Load(w)
  <2>2. \A l : l = [m EXCEPT !.base = state, !.at = version, !.pc = "turn"] => l.pc = "turn"
    BY <1>1 DEF IsLocals
  <2>3. PICK to \in {"turn", "enter", "raised"} :
           Passes(w, "load", to) /\ (to = "turn" => w \notin Entering)
    <3>1. CASE w \notin Entering
      <4>1. PICK l : l = [m EXCEPT !.base = state, !.at = version, !.pc = "turn"]
        OBVIOUS
      <4>2. Set(w, l)
        BY <1>4, <3>1, <4>1 DEF Load
      <4>. QED  BY <1>4, <2>2, <3>1, <4>1, <4>2, SetsPc DEF Load, At
    <3>2. CASE w \in Entering /\ ~EnterRaises(OnEnter[w], state)
      <4>1. PICK l : l = [m EXCEPT !.base = state, !.at = version, !.pc = "enter",
                                   !.delta = EnterDelta(OnEnter[w], state)]
        OBVIOUS
      <4>2. Set(w, l)
        BY <1>4, <3>2, <4>1 DEF Load
      <4>3. l.pc = "enter"
        BY <1>1, <4>1 DEF IsLocals
      <4>. QED  BY <1>4, <4>2, <4>3, SetsPc DEF Load, At
    <3>3. CASE w \in Entering /\ EnterRaises(OnEnter[w], state)
      <4>1. PICK l : l = [m EXCEPT !.base = state, !.at = version, !.pc = "raised"]
        OBVIOUS
      <4>2. Set(w, l)
        BY <1>4, <3>3, <4>1 DEF Load
      <4>3. l.pc = "raised"
        BY <1>1, <4>1 DEF IsLocals
      <4>. QED  BY <1>4, <4>2, <4>3, SetsPc DEF Load, At
    <3>. QED  BY <3>1, <3>2, <3>3
  <2>4. StageAt(w, "load") = "new" /\ StageAt(w, to) \in {"new", "failed"}
    BY <2>3 DEF StageAt
  <2>. QED  BY <1>4, <2>3, <2>4 DEF Load
<1>5. CASE EnterRead(w)
  <2>1. CASE GoTo(w, "raised")
    BY <1>3, <1>5, <2>1, GoesToPc DEF EnterRead, At
  <2>2. CASE Set(w, [m EXCEPT !.pc = "entering", !.seen = version])
    <3>1. PICK l : l = [m EXCEPT !.pc = "entering", !.seen = version]
      OBVIOUS
    <3>2. l.pc = "entering"
      BY <1>1, <3>1 DEF IsLocals
    <3>3. Passes(w, "enter", "entering")
      BY <1>5, <2>2, <3>1, <3>2, SetsPc DEF EnterRead, At
    <3>. QED  BY <1>2, <1>5, <3>3 DEF EnterRead
  <2>. QED  BY <1>5, <2>1, <2>2 DEF EnterRead
<1>6. CASE EnterConflicts(w)
  BY <1>3, <1>6, GoesToPc DEF EnterConflicts, At
<1>7. CASE TurnReturns(w)
  <2>1. PICK d \in TurnDeltas[w] :
           Set(w, [m EXCEPT !.pc = "read", !.delta = d, !.try = 1, !.since = version])
    BY <1>7 DEF TurnReturns
  <2>2. PICK l : l = [m EXCEPT !.pc = "read", !.delta = d, !.try = 1, !.since = version]
    OBVIOUS
  <2>3. l.pc = "read"
    BY <1>1, <2>2 DEF IsLocals
  <2>4. Passes(w, "turn", "read")
    BY <1>7, <2>1, <2>2, <2>3, SetsPc DEF TurnReturns, At
  <2>. QED  BY <1>2, <1>7, <2>4 DEF TurnReturns
<1>8. CASE CommitRead(w)
  <2>1. NoWrite
    BY <1>8 DEF CommitRead, Fails
  <2>2. CASE GoTo(w, "failed")
    BY <1>3, <1>8, <2>1, <2>2, GoesToPc DEF CommitRead, At
  <2>3. CASE Reread(w)
    <3>1. PICK l : l = [m EXCEPT !.pc = "write", !.base = state, !.at = version, !.seen = version]
      OBVIOUS
    <3>2. l.pc = "write"
      BY <1>1, <3>1 DEF IsLocals
    <3>3. Passes(w, "read", "write")
      BY <1>8, <2>3, <3>1, <3>2, SetsPc DEF CommitRead, Reread, At
    <3>4. StageAt(w, "read") \in {"new", "entered"} /\ StageAt(w, "write") = StageAt(w, "read")
      BY <1>2
    <3>. QED  BY <2>1, <3>3, <3>4
  <2>. QED  BY <1>8, <2>2, <2>3 DEF CommitRead, Fails
<1>9. CASE CommitConflicts(w)
  <2>1. NoWrite
    BY <1>9 DEF CommitConflicts, Fails
  <2>2. CASE GoTo(w, "gave up")
    BY <1>3, <1>9, <2>1, <2>2, GoesToPc DEF CommitConflicts, At
  <2>3. CASE Set(w, [m EXCEPT !.pc = "read", !.try = @ + 1])
    <3>1. PICK l : l = [m EXCEPT !.pc = "read", !.try = @ + 1]
      OBVIOUS
    <3>2. l.pc = "read"
      BY <1>1, <3>1 DEF IsLocals
    <3>3. Passes(w, "write", "read")
      BY <1>9, <2>3, <3>1, <3>2, SetsPc DEF CommitConflicts, At
    <3>4. StageAt(w, "write") \in {"new", "entered"} /\ StageAt(w, "read") = StageAt(w, "write")
      BY <1>2
    <3>. QED  BY <2>1, <3>3, <3>4
  <2>. QED  BY <1>9, <2>2, <2>3 DEF CommitConflicts, Fails
<1>10. CASE Leaves(w)
  <2>1. Passes(w, me[w].pc, "gone") /\ me[w].pc \in Live
    BY <1>10, GoesToPc DEF Leaves
  <2>. QED  BY <1>3, <1>10, <2>1 DEF Leaves
<1>11. CASE TurnFails(w)
  BY <1>3, <1>11, GoesToPc DEF TurnFails, Fails, At
<1>. QED  BY <1>4, <1>5, <1>6, <1>7, <1>8, <1>9, <1>10, <1>11

LEMMA WritingStages ==
  ASSUME NEW w
  PROVE  /\ StageAt(w, "entering") = "new" /\ StageAt(w, "done") = "committed"
         /\ w \in Entering => StageAt(w, "turn") = "entered"
         /\ StageAt(w, "write") = IF w \in Entering THEN "entered" ELSE "new"
BY DEF StageAt

\* A step that writes is the abstract step of its kind.
LEMMA EnterWriteRefines ==
  ASSUME IInv, IInv', NEW w \in Writers, EnterWrite(w)
  PROVE  Atomic!Enter(w)
<1>1. Passes(w, "entering", "turn")
  BY GoesToPc DEF EnterWrite, At
<1>2. PICK m : m = me[w]
  OBVIOUS
<1>3. /\ w \in Entering /\ m.base \in past /\ ~MergeRaises(m.base, m.delta)
      /\ ~EnterRaises(OnEnter[w], m.base) /\ m.delta = EnterDelta(OnEnter[w], m.base)
  BY <1>1, <1>2 DEF Passes, IInv, WritersOK, WriterOK, HasRead, EnterOK
<1>4. state' = MergeDelta(m.base, m.delta) /\ past' = past \cup {state'}
  BY <1>2 DEF EnterWrite, Write
<1>5. stages[w] = "new" /\ stages' = [stages EXCEPT ![w] = "entered"]
  BY <1>1, <1>3, PassesStage, WritingStages
<1>. QED  BY <1>3, <1>4, <1>5 DEF Atomic!Enter, Atomic!Becomes, stages

LEMMA CommitWriteRefines ==
  ASSUME IInv, IInv', NEW w \in Writers, CommitWrite(w)
  PROVE  Atomic!Commit(w)
<1>1. Passes(w, "write", "done")
  BY GoesToPc DEF CommitWrite, At
<1>2. PICK m : m = me[w]
  OBVIOUS
<1>3. m.delta \in TurnDeltas[w] /\ m.base = state /\ ~MergeRaises(m.base, m.delta)
  BY <1>1, <1>2 DEF Passes, IInv, WritersOK, WriterOK, CommitOK, CommitWrite, Unmoved
<1>4. state' = MergeDelta(m.base, m.delta) /\ past' = past \cup {state'}
  BY <1>2 DEF CommitWrite, Write
<1>5. /\ stages[w] = IF w \in Entering THEN "entered" ELSE "new"
      /\ stages' = [stages EXCEPT ![w] = "committed"]
  BY <1>1, PassesStage, WritingStages
<1>. QED  BY <1>3, <1>4, <1>5 DEF Atomic!Commit, Atomic!Ready, Atomic!Becomes, stages

\* The races of the commits come down to atomic merges.
THEOREM CommitsAreAtomic == Spec => Implements
<1>1. Init => Atomic!Init
  BY DEF Init, Atomic!Init, StageOf
<1>2. IInv /\ IInv' /\ [Next]_vars => [Atomic!Next]_<<state, past, stages>>
  <2>. SUFFICES ASSUME IInv, IInv', [Next]_vars
                PROVE  Atomic!Next \/ UNCHANGED <<state, past, stages>>
    OBVIOUS
  <2>1. CASE UNCHANGED vars
    <3>1. stages' = stages
      BY <2>1, StagesArePositions, StagesArePositionsNext DEF vars
    <3>. QED  BY <2>1, <3>1 DEF vars
  <2>2. ASSUME NEW w \in Writers,
               \/ Load(w) \/ EnterRead(w) \/ EnterConflicts(w) \/ TurnReturns(w)
               \/ TurnFails(w) \/ CommitRead(w) \/ CommitConflicts(w) \/ Leaves(w)
        PROVE  Atomic!Next \/ UNCHANGED <<state, past, stages>>
    BY <2>2, QuietPositions, QuietRefines
  <2>3. ASSUME NEW w \in Writers, EnterWrite(w)
        PROVE  Atomic!Next
    BY <2>3, EnterWriteRefines DEF Atomic!Next
  <2>4. ASSUME NEW w \in Writers, CommitWrite(w)
        PROVE  Atomic!Next
    BY <2>4, CommitWriteRefines DEF Atomic!Next
  <2>. QED  BY <2>1, <2>2, <2>3, <2>4 DEF Next
<1>. QED  BY <1>1, <1>2, Inductive, PTL DEF Spec, Implements, Atomic!Spec, stages

=============================================================================
