---------------------------- MODULE EngineProofs ----------------------------
(***************************************************************************)
(* Theorems about Engine, for every graph, every set of guards, any number *)
(* of concurrent drivers and any number of crashes, cancellations and      *)
(* write faults.  All of them rest on one inductive invariant, IInv.       *)
(***************************************************************************)
EXTENDS Engine, FiniteSetTheorems, TLAPS

\* The parts of a driver's context that its next step dereferences exist: the
\* item to insert an attempt of, the row of its attempt, the target to fire,
\* the join to look at, the request.
Usable(c, rows, requests) ==
    /\ c.pc \in {"enter", "turn", "commit", "backoff", "route", "fire"} => c.row \in rows
    /\ c.pc = "insert" => c.queue # <<>>
    /\ c.pc = "fire" => c.todo # <<>>
    /\ c.pc = "flush" => c.todo \in Seq(Joins)
    /\ c.pc = "prepare" => c.req \in requests
    /\ c.write \notin Terminal

ContextsOK == \A d \in Drivers : Usable(ctx[d], DOMAIN execs, DOMAIN hitl)

IInv == TypeOK /\ ContextsOK

LEMMA PCs ==
  {"drain", "insert", "enter", "turn", "commit", "backoff", "route", "fire", "prepare", "flush", "finalize",
   "write", "judge", "deliver"} \subseteq PC
  BY DEF PC

LEMMA IdleContext ==
  /\ Idle \in Context
  /\ \A rows, requests : Usable(Idle, rows, requests)
  BY DEF Idle, Context, PC, Status, Active, Terminal, Usable

\* A step of one driver that gives it a usable context disturbs no other one,
\* since rows are never deleted.
LEMMA ContextStep ==
  ASSUME IInv, NEW d \in Drivers, NEW c \in Context, ctx' = [ctx EXCEPT ![d] = c],
         DOMAIN execs \subseteq DOMAIN execs', DOMAIN hitl \subseteq DOMAIN hitl',
         Usable(c, DOMAIN execs', DOMAIN hitl')
  PROVE  ctx' \in [Drivers -> Context] /\ ContextsOK'
<1>1. ctx' \in [Drivers -> Context]
  BY DEF IInv, TypeOK
<1>2. ASSUME NEW e \in Drivers PROVE Usable(ctx'[e], DOMAIN execs', DOMAIN hitl')
  <2>1. CASE e = d
    BY <2>1 DEF IInv, TypeOK
  <2>2. CASE e # d
    <3>1. ctx'[e] = ctx[e] /\ Usable(ctx[e], DOMAIN execs, DOMAIN hitl)
      BY <2>2 DEF IInv, TypeOK, ContextsOK
    <3>. QED  BY <3>1 DEF Usable
  <2>. QED  BY <2>1, <2>2
<1>. QED  BY <1>1, <1>2 DEF ContextsOK

LEMMA JoinsAreNodes == Joins \subseteq Nodes
  BY GraphAssumption DEF Joins

LEMMA FailuresNat ==
  ASSUME TypeOK, NEW n
  PROVE  ConsecutiveFailures(n) \in Nat
<1>1. IsFiniteSet(1..Len(execs))
  BY FS_Interval DEF TypeOK
<1>2. {i \in Rows(n) : \A k \in Rows(n) : k >= i => execs[k].status = "FAILED"}
        \subseteq 1..Len(execs)
  BY DEF Rows, TypeOK
<1>. QED  BY <1>1, <1>2, FS_Subset, FS_CardinalityType DEF ConsecutiveFailures

LEMMA VisitNat ==
  ASSUME TypeOK, NEW n
  PROVE  VisitForDispatch(n) \in Nat
<1>1. CASE \E i \in DOMAIN execs : IsLatest(i, n) /\ execs[i].status \in {"FAILED", "WAITING_HUMAN"}
  <2>. DEFINE latest == CHOOSE i \in DOMAIN execs : IsLatest(i, n)
  <2>1. latest \in DOMAIN execs
    BY <1>1
  <2>2. VisitForDispatch(n) = execs[latest].visit
    BY <1>1 DEF VisitForDispatch
  <2>. HIDE DEF latest
  <2>3. execs[latest] \in ExecRow
    BY <2>1 DEF TypeOK
  <2>. QED  BY <2>2, <2>3 DEF ExecRow
<1>2. CASE ~ \E i \in DOMAIN execs : IsLatest(i, n) /\ execs[i].status \in {"FAILED", "WAITING_HUMAN"}
  BY <1>2 DEF VisitForDispatch, TypeOK
<1>. QED  BY <1>1, <1>2

\* What _fail_run does to the rows and to the drivers keeps the invariant.
LEMMA FailedRows ==
  ASSUME TypeOK, NEW n, NEW t \in Nat
  PROVE  /\ Failed(n) \in Seq(ExecRow) /\ DOMAIN Failed(n) = DOMAIN execs
         /\ Rejected(n, t) \in Seq(ExecRow) /\ DOMAIN Rejected(n, t) = DOMAIN execs
<1>. DEFINE rows == 1..Len(execs)
<1>1. execs \in [rows -> ExecRow] /\ DOMAIN execs = rows /\ Len(execs) \in Nat
  BY DEF TypeOK
<1>2. \A i \in rows : [execs[i] EXCEPT !.status = "FAILED"] \in ExecRow
  BY <1>1 DEF ExecRow
<1>3. \A i \in rows : [execs[i] EXCEPT !.status = "FAILED", !.tokens = t] \in ExecRow
  BY <1>1 DEF ExecRow
<1>4. Failed(n) \in [rows -> ExecRow]
  BY <1>1, <1>2 DEF Failed
<1>5. Rejected(n, t) \in [rows -> ExecRow]
  BY <1>1, <1>3 DEF Rejected
<1>. QED  BY <1>1, <1>4, <1>5

LEMMA FailRunStep ==
  ASSUME IInv, NEW d \in Drivers, NEW rows \in Seq(ExecRow), DOMAIN rows = DOMAIN execs,
         FailRun(d, rows)
  PROVE  IInv'
<1>1. ctx' \in [Drivers -> Context] /\ ContextsOK'
  BY IdleContext, ContextStep DEF FailRun, Release
<1>2. TypeOK'
  BY <1>1 DEF IInv, TypeOK, FailRun, Status, Terminal
<1>. QED  BY <1>1, <1>2 DEF IInv

LEMMA ReleaseStep ==
  ASSUME IInv, NEW d \in Drivers, Release(d), UNCHANGED <<execs, hitl>>
  PROVE  ctx' \in [Drivers -> Context] /\ ContextsOK'
  BY IdleContext, ContextStep DEF Release

LEMMA AnsweredRow ==
  ASSUME NEW r \in HitlRow
  PROVE  Answered(r) \in HitlRow
<1>1. \A k \in Nat : [r EXCEPT !.status = "ANSWERED", !.answers = k] \in HitlRow
  BY DEF HitlRow
<1>2. r.answers + 1 \in Nat
  BY DEF HitlRow
<1>. QED  BY <1>1, <1>2, Zenon DEF Answered

-----------------------------------------------------------------------------
(* The inductive step, by the groups of actions that Engine defines.        *)

LEMMA BeginStep ==
  ASSUME IInv, NEW d \in Drivers, Start(d) \/ ResumeBegin(d) \/ Resume(d) \/ Crash(d)
  PROVE  IInv'
<1>. USE GraphAssumption, GuardAssumption
<1>1. CASE Start(d)
  <2>. DEFINE c == [Idle EXCEPT !.pc = "drain", !.queue = <<[node |-> Entry, want |-> 0]>>]
  <2>. <<[node |-> Entry, want |-> 0]>> \in Seq(QueueItem)
    BY DEF QueueItem
  <2>1. c \in Context /\ Usable(c, DOMAIN execs', DOMAIN hitl')
    BY PCs, IdleContext DEF Idle, Context, Usable
  <2>2. ctx' \in [Drivers -> Context] /\ ContextsOK'
    BY <1>1, <2>1, ContextStep DEF Start
  <2>. QED  BY <1>1, <2>2 DEF Start, IInv, TypeOK, Status, Active
<1>2. CASE ResumeBegin(d)
  <2>1. PICK h \in DOMAIN hitl :
          ctx' = [ctx EXCEPT ![d] = [Idle EXCEPT !.pc = "prepare", !.req = h]]
    BY <1>2 DEF ResumeBegin
  <2>. DEFINE c == [Idle EXCEPT !.pc = "prepare", !.req = h]
  <2>2. c \in Context /\ Usable(c, DOMAIN execs', DOMAIN hitl')
    <3>1. DOMAIN hitl' = DOMAIN hitl
      BY <1>2 DEF ResumeBegin
    <3>2. h \in Nat
      BY <2>1 DEF IInv, TypeOK
    <3>. QED  BY <2>1, <3>1, <3>2, PCs, IdleContext DEF Idle, Context, Usable
  <2>3. ctx' \in [Drivers -> Context] /\ ContextsOK'
    BY <1>2, <2>1, <2>2, ContextStep DEF ResumeBegin
  <2>. QED  BY <1>2, <2>3 DEF ResumeBegin, IInv, TypeOK
<1>3. CASE ResumePrepareFails(d)
  BY <1>3, ReleaseStep DEF ResumePrepareFails, IInv, TypeOK
<1>4. CASE ResumeAnswer(d)
  <2>. DEFINE h == ctx[d].req
              c == [Idle EXCEPT !.pc = "drain",
                                !.queue = <<[node |-> hitl[h].node, want |-> hitl[h].visit]>>]
  <2>1. h \in DOMAIN hitl /\ hitl[h] \in HitlRow
    BY <1>4 DEF ResumeAnswer, At, IInv, TypeOK, ContextsOK, Usable
  <2>2. Answered(hitl[h]) \in HitlRow
    BY <2>1, AnsweredRow
  <2>3. hitl' = [hitl EXCEPT ![h] = Answered(hitl[h])]
    BY <1>4 DEF ResumeAnswer
  <2>6. hitl' \in Seq(HitlRow) /\ DOMAIN hitl' = DOMAIN hitl
    BY <2>1, <2>2, <2>3 DEF IInv, TypeOK
  <2>4. c \in Context /\ Usable(c, DOMAIN execs', DOMAIN hitl')
    <3>1. <<[node |-> hitl[h].node, want |-> hitl[h].visit]>> \in Seq(QueueItem)
      BY <2>1 DEF QueueItem, HitlRow
    <3>. QED  BY <3>1, PCs, IdleContext DEF Idle, Context, Usable
  <2>5. ctx' \in [Drivers -> Context] /\ ContextsOK'
    BY <1>4, <2>6, <2>4, ContextStep DEF ResumeAnswer
  <2>. QED  BY <1>4, <2>6, <2>5 DEF ResumeAnswer, IInv, TypeOK
<1>5. CASE Crash(d)
  BY <1>5, ReleaseStep DEF Crash, IInv, TypeOK
<1>. QED  BY <1>1, <1>2, <1>3, <1>4, <1>5 DEF Resume

\* A driver whose attempt has a row dispatches a node of the graph.
LEMMA NodeOfRow ==
  ASSUME IInv, NEW d \in Drivers,
         ctx[d].pc \in {"enter", "turn", "commit", "backoff", "route", "fire"}
  PROVE  /\ ctx[d] \in Context
         /\ ctx[d].row \in DOMAIN execs
         /\ Row(d) \in ExecRow
         /\ Node(d) \in Nodes
<1>1. ctx[d] \in Context /\ execs \in Seq(ExecRow)
  BY DEF IInv, TypeOK
<1>2. ctx[d].row \in DOMAIN execs
  BY DEF IInv, ContextsOK, Usable
<1>3. Row(d) \in ExecRow
  BY <1>1, <1>2 DEF Row
<1>. QED  BY <1>1, <1>2, <1>3 DEF Node, ExecRow

LEMMA RetryQueue ==
  ASSUME IInv, NEW d \in Drivers, ctx[d].pc \in {"turn", "backoff"}
  PROVE  Retry(d) \in Seq(QueueItem)
<1>1. <<[node |-> Node(d), want |-> Row(d).visit]>> \in Seq(QueueItem)
  BY NodeOfRow DEF QueueItem, ExecRow
<1>2. ctx[d].queue \in Seq(QueueItem)
  BY NodeOfRow DEF Context
<1>. QED  BY <1>1, <1>2 DEF Retry

LEMMA CommitTyped ==
  ASSUME TypeOK, NEW n, Commit(n)
  PROVE  arrivals' \in [Joins -> SUBSET Nodes]
  BY DEF TypeOK, Commit

\* The attempt is inserted, and its driver refers to it.
LEMMA InsertStep ==
  ASSUME IInv, NEW d \in Drivers, DispatchInsert(d)
  PROVE  /\ IInv'
         /\ \E row \in ExecRow : execs' = Append(execs, row)
<1>. DEFINE item == Head(ctx[d].queue)
            n == item.node
            visit == IF ctx[d].visit = 0 THEN Len(execs) + 1 ELSE ctx[d].visit
            row == [node |-> n, visit |-> visit, want |-> item.want, tokens |-> 0,
                    status |-> "RUNNING"]
            p == IF n \in EnterNodes THEN "enter" ELSE "turn"
            r == Len(execs) + 1
            c == [Popped(d) EXCEPT !.pc = p, !.row = r, !.visit = 0]
<1>0. ctx[d] \in Context /\ ctx[d].queue # <<>> /\ ctx[d].write \notin Terminal
  BY DEF DispatchInsert, At, IInv, TypeOK, ContextsOK, Usable
<1>1. item \in QueueItem /\ Tail(ctx[d].queue) \in Seq(QueueItem)
  BY <1>0 DEF Context
<1>2. execs \in Seq(ExecRow) /\ r \in Nat /\ p \in {"enter", "turn"}
  BY DEF IInv, TypeOK
<1>3. visit \in Nat
  BY <1>0, <1>2 DEF Context
<1>4. row \in ExecRow
  <2>. HIDE DEF visit
  <2>. QED  BY <1>1, <1>3 DEF QueueItem, ExecRow
<1>5. /\ execs' = Append(execs, row)
      /\ ctx' = [ctx EXCEPT ![d] = c]
      /\ UNCHANGED <<status, hitl, fires, arrivals, dodLog, handoffs, cancel, crashes>>
  BY DEF DispatchInsert
<1>6. execs' \in Seq(ExecRow) /\ DOMAIN execs \subseteq DOMAIN execs' /\ r \in DOMAIN execs'
  <2>. HIDE DEF row
  <2>. QED  BY <1>2, <1>4, <1>5
<1>7. Popped(d) \in Context /\ Popped(d).write \notin Terminal
  BY <1>0, <1>1 DEF Popped, Context
<1>8. c \in Context /\ Usable(c, DOMAIN execs', DOMAIN hitl')
  <2>1. c = [Popped(d) EXCEPT !.pc = p, !.row = r, !.visit = 0]
    OBVIOUS
  <2>. HIDE DEF c, p, r
  <2>2. c \in Context /\ c.pc = p /\ c.row = r /\ c.write = Popped(d).write
    BY <1>2, <1>7, <2>1, PCs DEF Context
  <2>. QED  BY <1>2, <1>6, <1>7, <2>2 DEF Usable
<1>. HIDE DEF c, row
<1>9. ctx' \in [Drivers -> Context] /\ ContextsOK'
  BY <1>5, <1>6, <1>8, ContextStep
<1>. QED  BY <1>4, <1>5, <1>6, <1>9 DEF IInv, TypeOK

LEMMA DispatchStep ==
  ASSUME IInv, NEW d \in Drivers, Dispatch(d)
  PROVE  IInv'
<1>. USE GraphAssumption, GuardAssumption
<1>0. ctx[d] \in Context
  BY DEF IInv, TypeOK
<1>1. CASE DispatchRefused(d)
  <2>. DEFINE n == Head(ctx[d].queue).node
  <2>1. FailRun(d, Failed(n)) /\ Failed(n) \in Seq(ExecRow) /\ DOMAIN Failed(n) = DOMAIN execs
    BY <1>1, FailedRows DEF DispatchRefused, IInv
  <2>. QED  BY <2>1, FailRunStep
<1>2. CASE DispatchBegin(d)
  <2>. DEFINE n == Head(ctx[d].queue).node
              v == VisitForDispatch(n)
              k == ConsecutiveFailures(n)
              r == Len(execs)
              c == [ctx[d] EXCEPT !.pc = "insert", !.row = r, !.visit = v, !.streak = k]
  <2>1. v \in Nat /\ k \in Nat /\ r \in Nat
    BY VisitNat, FailuresNat DEF IInv, TypeOK
  <2>2. ctx[d].queue # <<>> /\ ctx[d].write \notin Terminal
    BY <1>2 DEF DispatchBegin, IInv, ContextsOK, Usable
  <2>3. ctx' = [ctx EXCEPT ![d] = c] /\ UNCHANGED <<execs, hitl>>
    BY <1>2 DEF DispatchBegin
  <2>4. c \in Context /\ Usable(c, DOMAIN execs, DOMAIN hitl)
    <3>. HIDE DEF v, k, r
    <3>. QED  BY <1>0, <2>1, <2>2, PCs DEF Context, Usable
  <2>. HIDE DEF c
  <2>5. ctx' \in [Drivers -> Context] /\ ContextsOK'
    BY <2>3, <2>4, ContextStep
  <2>. QED  BY <1>2, <2>5 DEF DispatchBegin, IInv, TypeOK
<1>10. CASE DispatchInsert(d)
  BY <1>10, InsertStep
<1>11. CASE DispatchCollides(d)
  BY <1>11, ReleaseStep DEF DispatchCollides, IInv, TypeOK
<1>3. CASE OnEnter(d)
  <2>. DEFINE c == [ctx[d] EXCEPT !.pc = "turn"]
  <2>1. c \in Context /\ Usable(c, DOMAIN execs, DOMAIN hitl)
    BY <1>0, <1>3, NodeOfRow, PCs DEF OnEnter, At, Context, IInv, ContextsOK, Usable
  <2>2. ctx' = [ctx EXCEPT ![d] = c] /\ UNCHANGED <<execs, hitl>>
    BY <1>3 DEF OnEnter
  <2>. HIDE DEF c
  <2>3. ctx' \in [Drivers -> Context] /\ ContextsOK'
    BY <2>1, <2>2, ContextStep
  <2>. QED  BY <1>3, <2>3, CommitTyped DEF OnEnter, IInv, TypeOK
<1>4. CASE OnEnterRaises(d)
  BY <1>4, ReleaseStep DEF OnEnterRaises, IInv, TypeOK
<1>12. CASE TurnReturns(d)
  <2>1. PICK t \in TurnTokens :
          ctx' = [ctx EXCEPT ![d] = [ctx[d] EXCEPT !.pc = "commit", !.tokens = t]]
    BY <1>12 DEF TurnReturns
  <2>. DEFINE c == [ctx[d] EXCEPT !.pc = "commit", !.tokens = t]
  <2>2. t \in Nat /\ ctx[d].row \in DOMAIN execs /\ ctx[d].write \notin Terminal
    BY <1>12, NodeOfRow DEF TurnReturns, At, IInv, ContextsOK, Usable
  <2>3. c \in Context /\ Usable(c, DOMAIN execs, DOMAIN hitl)
    BY <1>0, <2>2, PCs DEF Context, Usable
  <2>4. ctx' = [ctx EXCEPT ![d] = c] /\ UNCHANGED <<execs, hitl>>
    BY <1>12, <2>1 DEF TurnReturns
  <2>. HIDE DEF c
  <2>5. ctx' \in [Drivers -> Context] /\ ContextsOK'
    BY <2>3, <2>4, ContextStep
  <2>. QED  BY <1>12, <2>5 DEF TurnReturns, IInv, TypeOK
<1>5. CASE TurnCommits(d)
  <2>. DEFINE t == ctx[d].tokens
              c == [ctx[d] EXCEPT !.pc = "route", !.streak = 0, !.tokens = 0]
  <2>1. execs' = [execs EXCEPT ![ctx[d].row] =
                      [execs[ctx[d].row] EXCEPT !.status = "SUCCEEDED", !.tokens = t]]
    BY <1>5 DEF TurnCommits
  <2>2. ctx[d].row \in DOMAIN execs /\ execs[ctx[d].row] \in ExecRow /\ t \in Nat
    BY <1>0, <1>5, NodeOfRow DEF TurnCommits, At, Row, Context
  <2>3. [execs[ctx[d].row] EXCEPT !.status = "SUCCEEDED", !.tokens = t] \in ExecRow
    <3>. HIDE DEF t
    <3>. QED  BY <2>2 DEF ExecRow
  <2>4. execs' \in Seq(ExecRow) /\ DOMAIN execs' = DOMAIN execs
    BY <2>1, <2>2, <2>3 DEF IInv, TypeOK
  <2>5. c \in Context /\ Usable(c, DOMAIN execs, DOMAIN hitl)
    BY <1>0, <2>2, PCs DEF Context, IInv, ContextsOK, Usable
  <2>6. ctx' = [ctx EXCEPT ![d] = c] /\ hitl' = hitl
    BY <1>5 DEF TurnCommits
  <2>. HIDE DEF c
  <2>7. ctx' \in [Drivers -> Context] /\ ContextsOK'
    BY <2>4, <2>5, <2>6, ContextStep
  <2>. QED  BY <1>5, <2>4, <2>7, CommitTyped DEF TurnCommits, IInv, TypeOK
<1>6. CASE TurnRejected(d)
  <2>1. PICK t \in TurnTokens : FailRun(d, Rejected(Node(d), t))
    BY <1>6 DEF TurnRejected
  <2>2. t \in Nat
    OBVIOUS
  <2>. QED  BY <2>1, <2>2, FailedRows, FailRunStep DEF IInv
<1>7. CASE TurnFails(d)
  BY <1>7, FailedRows, FailRunStep DEF TurnFails, IInv
<1>8. CASE TurnTransient(d)
  <2>. DEFINE spent == [ctx[d] EXCEPT !.pc = "drain", !.queue = Retry(d), !.row = 0, !.streak = 0]
              waits == [ctx[d] EXCEPT !.pc = "backoff", !.streak = 0]
              c == IF ctx[d].streak + 1 > MaxRetries THEN spent ELSE waits
  <2>2. ctx[d].row \in DOMAIN execs /\ execs[ctx[d].row] \in ExecRow
    BY <1>8, NodeOfRow DEF TurnTransient, At, Row
  <2>3. [execs[ctx[d].row] EXCEPT !.status = "FAILED"] \in ExecRow
    BY <2>2 DEF ExecRow
  <2>4. execs' \in Seq(ExecRow) /\ DOMAIN execs' = DOMAIN execs
    BY <1>8, <2>2, <2>3 DEF TurnTransient, IInv, TypeOK
  <2>5. spent \in Context /\ Usable(spent, DOMAIN execs, DOMAIN hitl)
    <3>1. Retry(d) \in Seq(QueueItem)
      BY <1>8, RetryQueue DEF TurnTransient, At
    <3>. QED  BY <1>0, <3>1, PCs DEF Context, IInv, ContextsOK, Usable
  <2>6. waits \in Context /\ Usable(waits, DOMAIN execs, DOMAIN hitl)
    BY <1>0, <2>2, PCs DEF Context, IInv, ContextsOK, Usable
  <2>7. ctx' = [ctx EXCEPT ![d] = c] /\ hitl' = hitl
    BY <1>8 DEF TurnTransient
  <2>. HIDE DEF spent, waits
  <2>8. c \in Context /\ Usable(c, DOMAIN execs, DOMAIN hitl)
    BY <2>5, <2>6
  <2>. HIDE DEF c
  <2>9. ctx' \in [Drivers -> Context] /\ ContextsOK'
    BY <2>4, <2>7, <2>8, ContextStep
  <2>. QED  BY <1>8, <2>4, <2>9 DEF TurnTransient, IInv, TypeOK
<1>9. CASE BackoffEnds(d)
  <2>. DEFINE c == [ctx[d] EXCEPT !.pc = "drain", !.queue = Retry(d), !.row = 0]
  <2>1. Retry(d) \in Seq(QueueItem)
    BY <1>9, RetryQueue DEF BackoffEnds, At
  <2>2. c \in Context /\ Usable(c, DOMAIN execs, DOMAIN hitl)
    BY <1>0, <2>1, PCs DEF Context, IInv, ContextsOK, Usable
  <2>3. ctx' = [ctx EXCEPT ![d] = c] /\ UNCHANGED <<execs, hitl>>
    BY <1>9 DEF BackoffEnds
  <2>. HIDE DEF c
  <2>4. ctx' \in [Drivers -> Context] /\ ContextsOK'
    BY <2>2, <2>3, ContextStep
  <2>. QED  BY <1>9, <2>4 DEF BackoffEnds, IInv, TypeOK
<1>. QED
  BY <1>1, <1>2, <1>3, <1>4, <1>5, <1>6, <1>7, <1>8, <1>9, <1>10, <1>11, <1>12 DEF Dispatch

\* Every edge leads somewhere in the graph, and somewhere at all.
LEMMA EdgeTargets ==
  ASSUME NEW n \in Nodes
  PROVE  /\ \A i \in DOMAIN Conditional[n] :
               Conditional[n][i].to \in Seq(Targets) \ {<<>>}
         /\ Default[n] \in Seq(Targets)
<1>1. Conditional[n] \in Seq(Edge) /\ Default[n] \in Seq(Targets)
  BY GraphAssumption
<1>2. \A i \in DOMAIN Conditional[n] : Conditional[n][i] \in Edge
  BY <1>1
<1>. QED  BY <1>1, <1>2 DEF Edge

\* Firing an edge leaves the driver with a target to fire next.
LEMMA FireStep ==
  ASSUME IInv, NEW d \in Drivers, At(d, "route"), NEW to \in Seq(Targets) \ {<<>>},
         Fire(d, to), UNCHANGED <<execs, hitl>>
  PROVE  ctx' \in [Drivers -> Context] /\ ContextsOK'
<1>. DEFINE c == [ctx[d] EXCEPT !.pc = "fire", !.todo = to]
<1>1. ctx[d] \in Context /\ ctx[d].row \in DOMAIN execs
  BY NodeOfRow DEF At
<1>2. c \in Context /\ Usable(c, DOMAIN execs, DOMAIN hitl)
  BY <1>1, PCs DEF Context, IInv, ContextsOK, Usable
<1>3. ctx' = [ctx EXCEPT ![d] = c]
  BY DEF Fire
<1>. HIDE DEF c
<1>. QED  BY <1>2, <1>3, ContextStep

\* One target: its event, its arrival, and the dispatch that it leads to.
LEMMA FireTargetStep ==
  ASSUME IInv, NEW d \in Drivers, FireTarget(d)
  PROVE  IInv'
<1>. DEFINE c == ctx[d]
            n == Node(d)
            t == Head(c.todo)
            arrived == [arrivals EXCEPT ![t] = @ \cup {n}]
            ready == \/ t \in Nodes \ Joins
                     \/ t \in Joins /\ Covered(t, arrived[t]) /\ ~Queued(d, t)
            last == Tail(c.todo) = <<>>
            p == IF last THEN "drain" ELSE "fire"
            row == IF last THEN 0 ELSE c.row
            term == c.term \/ t = End
            queue == IF ready THEN Append(c.queue, [node |-> t, want |-> 0]) ELSE c.queue
            e == [c EXCEPT !.pc = p, !.row = row, !.todo = Tail(c.todo), !.term = term,
                           !.queue = queue]
<1>1. c \in Context /\ c.row \in DOMAIN execs /\ n \in Nodes
  BY NodeOfRow DEF FireTarget, At
<1>2. c.pc = "fire" /\ c.todo # <<>> /\ c.todo \in Seq(Targets)
  BY <1>1 DEF FireTarget, At, IInv, ContextsOK, Usable, Context
<1>3. t \in Targets /\ Tail(c.todo) \in Seq(Targets)
  BY <1>2
<1>4. fires' \in [DOMAIN LoopCap -> Nat]
  BY DEF FireTarget, IInv, TypeOK
<1>5. arrivals' \in [Joins -> SUBSET Nodes]
  BY <1>1 DEF FireTarget, IInv, TypeOK
<1>6. queue \in Seq(QueueItem)
  <2>1. ASSUME ready PROVE [node |-> t, want |-> 0] \in QueueItem
    BY <2>1, JoinsAreNodes DEF QueueItem
  <2>2. c.queue \in Seq(QueueItem)
    BY <1>1 DEF Context
  <2>. HIDE DEF ready, c, t
  <2>. QED  BY <2>1, <2>2
<1>7. ctx' = [ctx EXCEPT ![d] = e] /\ UNCHANGED <<execs, hitl>>
  BY DEF FireTarget
<1>8. p \in PC /\ row \in Nat /\ term \in BOOLEAN
  BY <1>1, PCs DEF Context
<1>9. e \in Context /\ Usable(e, DOMAIN execs, DOMAIN hitl)
  <2>1. c.write \notin Terminal
    BY DEF IInv, ContextsOK, Usable
  <2>. DEFINE rest == Tail(c.todo)
  <2>2. p \in {"drain", "fire"} /\ (p = "fire" => row \in DOMAIN execs /\ rest # <<>>)
    BY <1>1
  <2>3. rest \in Seq(Targets)
    BY <1>3
  <2>4. e = [c EXCEPT !.pc = p, !.row = row, !.todo = rest, !.term = term, !.queue = queue]
    OBVIOUS
  <2>. HIDE DEF p, row, term, queue, rest, c, e
  <2>5. /\ e \in Context
        /\ e.pc = p /\ e.row = row /\ e.todo = rest /\ e.write = c.write
    BY <1>1, <1>6, <1>8, <2>3, <2>4 DEF Context
  <2>. QED  BY <2>1, <2>2, <2>5 DEF Usable
<1>. HIDE DEF e
<1>10. ctx' \in [Drivers -> Context] /\ ContextsOK'
  BY <1>7, <1>9, ContextStep
<1>. QED  BY <1>4, <1>5, <1>10 DEF FireTarget, IInv, TypeOK

LEMMA RouteStep ==
  ASSUME IInv, NEW d \in Drivers, Route(d)
  PROVE  IInv'
<1>0. ctx[d] \in Context
  BY DEF IInv, TypeOK
<1>1. CASE RouteConditional(d)
  <2>1. PICK i \in DOMAIN Conditional[Node(d)] : Fire(d, Conditional[Node(d)][i].to)
    BY <1>1 DEF RouteConditional
  <2>2. Node(d) \in Nodes
    BY <1>1, NodeOfRow DEF RouteConditional, At
  <2>3. ctx' \in [Drivers -> Context] /\ ContextsOK'
    BY <1>1, <2>1, <2>2, EdgeTargets, FireStep DEF RouteConditional
  <2>. QED  BY <1>1, <2>3 DEF RouteConditional, IInv, TypeOK
<1>2. CASE RaiseHitl(d)
  <2>. DEFINE c == [ctx[d] EXCEPT !.pc = "drain", !.row = 0]
              request == [node |-> Node(d), visit |-> Row(d).visit, answers |-> 0,
                          status |-> "PENDING"]
  <2>1. ctx[d].row \in DOMAIN execs /\ Row(d) \in ExecRow /\ Node(d) \in Nodes
    BY <1>2, NodeOfRow DEF RaiseHitl, At
  <2>2. request \in HitlRow
    BY <2>1 DEF HitlRow, ExecRow
  <2>3. [execs[ctx[d].row] EXCEPT !.status = "WAITING_HUMAN"] \in ExecRow
    BY <2>1 DEF Row, ExecRow
  <2>4. execs' \in Seq(ExecRow) /\ DOMAIN execs' = DOMAIN execs
    BY <1>2, <2>1, <2>3 DEF RaiseHitl, IInv, TypeOK
  <2>5. hitl' = Append(hitl, request) /\ hitl \in Seq(HitlRow)
    BY <1>2 DEF RaiseHitl, IInv, TypeOK
  <2>. HIDE DEF request
  <2>6. hitl' \in Seq(HitlRow) /\ DOMAIN hitl \subseteq DOMAIN hitl'
    BY <2>2, <2>5
  <2>7. c \in Context /\ \A rows, requests : Usable(c, rows, requests)
    BY <1>0, PCs DEF Context, IInv, ContextsOK, Usable
  <2>8. ctx' = [ctx EXCEPT ![d] = c]
    BY <1>2 DEF RaiseHitl
  <2>. HIDE DEF c
  <2>9. ctx' \in [Drivers -> Context] /\ ContextsOK'
    BY <2>4, <2>6, <2>7, <2>8, ContextStep
  <2>. QED  BY <1>2, <2>4, <2>6, <2>9 DEF RaiseHitl, IInv, TypeOK
<1>3. CASE RouteDefault(d)
  <2>1. Node(d) \in Nodes
    BY <1>3, NodeOfRow DEF RouteDefault, At
  <2>2. ctx' \in [Drivers -> Context] /\ ContextsOK'
    BY <1>3, <2>1, EdgeTargets, FireStep DEF RouteDefault
  <2>. QED  BY <1>3, <2>2 DEF RouteDefault, IInv, TypeOK
<1>4. CASE RouteFailsFast(d)
  BY <1>4, FailedRows, FailRunStep DEF RouteFailsFast, IInv
<1>5. CASE Terminate(d)
  <2>. DEFINE c == [ctx[d] EXCEPT !.pc = "drain", !.row = 0, !.term = TRUE]
  <2>1. c \in Context /\ Usable(c, DOMAIN execs, DOMAIN hitl)
    BY <1>0, PCs DEF Context, IInv, ContextsOK, Usable
  <2>2. ctx' = [ctx EXCEPT ![d] = c] /\ UNCHANGED <<execs, hitl>>
    BY <1>5 DEF Terminate
  <2>. HIDE DEF c
  <2>3. ctx' \in [Drivers -> Context] /\ ContextsOK'
    BY <2>1, <2>2, ContextStep
  <2>. QED  BY <1>5, <2>3 DEF Terminate, IInv, TypeOK
<1>6. CASE RouteRaises(d)
  BY <1>6, ReleaseStep DEF RouteRaises, IInv, TypeOK
<1>7. CASE FireTarget(d)
  BY <1>7, FireTargetStep
<1>. QED  BY <1>1, <1>2, <1>3, <1>4, <1>5, <1>6, <1>7 DEF Route

\* One join of the quiescence check.
LEMMA FlushJoinStep ==
  ASSUME IInv, NEW d \in Drivers, FlushJoin(d)
  PROVE  IInv'
<1>. DEFINE c == ctx[d]
            j == Head(c.todo)
            rest == Tail(c.todo)
            queue == IF Held(d, j) THEN Append(c.queue, [node |-> j, want |-> 0]) ELSE c.queue
            p == IF rest = <<>> /\ queue # <<>> THEN "drain" ELSE "flush"
            e == [c EXCEPT !.pc = p, !.todo = rest, !.queue = queue]
<1>1. c \in Context /\ c.pc = "flush" /\ c.todo # <<>>
  BY DEF FlushJoin, At, IInv, TypeOK
<1>2. c.todo \in Seq(Joins) /\ c.write \notin Terminal
  BY <1>1 DEF IInv, ContextsOK, Usable
<1>3. j \in Nodes /\ rest \in Seq(Joins)
  BY <1>1, <1>2, JoinsAreNodes
<1>4. rest \in Seq(Targets)
  BY <1>3, JoinsAreNodes DEF Targets
<1>5. queue \in Seq(QueueItem)
  <2>1. [node |-> j, want |-> 0] \in QueueItem /\ c.queue \in Seq(QueueItem)
    BY <1>1, <1>3 DEF QueueItem, Context
  <2>. HIDE DEF c, j
  <2>. QED  BY <2>1
<1>6. ctx' = [ctx EXCEPT ![d] = e] /\ UNCHANGED <<execs, hitl>>
  BY DEF FlushJoin
<1>7. e \in Context /\ Usable(e, DOMAIN execs, DOMAIN hitl)
  <2>1. p \in {"drain", "flush"}
    OBVIOUS
  <2>. HIDE DEF c, p, rest, queue
  <2>2. e \in Context /\ e.pc = p /\ e.todo = rest /\ e.write = c.write
    BY <1>1, <1>4, <1>5, <2>1, PCs DEF Context
  <2>. QED  BY <1>2, <1>3, <2>1, <2>2 DEF Usable
<1>. HIDE DEF e
<1>8. ctx' \in [Drivers -> Context] /\ ContextsOK'
  BY <1>6, <1>7, ContextStep
<1>. QED  BY <1>8 DEF FlushJoin, IInv, TypeOK

LEMMA HandOffStep ==
  ASSUME IInv, NEW d \in Drivers, HandOffIfCompleted(d), UNCHANGED <<execs, hitl>>
  PROVE  ctx' \in [Drivers -> Context] /\ ContextsOK'
<1>. DEFINE deliver == [Idle EXCEPT !.pc = "deliver"]
            c == IF status' = "COMPLETED" THEN deliver ELSE Idle
<1>1. deliver \in Context /\ Usable(deliver, DOMAIN execs, DOMAIN hitl)
  BY IdleContext, PCs DEF Idle, Context, Usable
<1>2. ctx' = [ctx EXCEPT ![d] = c]
  BY DEF HandOffIfCompleted
<1>. HIDE DEF deliver
<1>3. c \in Context /\ Usable(c, DOMAIN execs, DOMAIN hitl)
  BY <1>1, IdleContext
<1>. HIDE DEF c
<1>. QED  BY <1>2, <1>3, ContextStep

LEMMA FinishStep ==
  ASSUME IInv, NEW d \in Drivers, Finish(d)
  PROVE  IInv'
<1>0. ctx[d] \in Context /\ ctx[d].write \notin Terminal
  BY DEF IInv, TypeOK, ContextsOK, Usable
<1>1. CASE FlushBegin(d)
  <2>. DEFINE c == [ctx[d] EXCEPT !.pc = "flush", !.todo = JoinOrder]
  <2>1. JoinOrder \in Seq(Joins) /\ JoinOrder \in Seq(Targets)
    BY GraphAssumption DEF Joins, Targets
  <2>2. c \in Context /\ Usable(c, DOMAIN execs, DOMAIN hitl)
    BY <1>0, <2>1, PCs DEF Context, Usable
  <2>3. ctx' = [ctx EXCEPT ![d] = c] /\ UNCHANGED <<execs, hitl>>
    BY <1>1 DEF FlushBegin
  <2>. HIDE DEF c
  <2>4. ctx' \in [Drivers -> Context] /\ ContextsOK'
    BY <2>2, <2>3, ContextStep
  <2>. QED  BY <1>1, <2>4 DEF FlushBegin, IInv, TypeOK
<1>2. CASE FlushJoin(d)
  BY <1>2, FlushJoinStep
<1>3. CASE DrainEnds(d)
  <2>. DEFINE c == [ctx[d] EXCEPT !.pc = "finalize", !.todo = <<>>]
  <2>1. c \in Context /\ Usable(c, DOMAIN execs, DOMAIN hitl)
    <3>1. <<>> \in Seq(Targets)
      OBVIOUS
    <3>. QED  BY <1>0, <3>1, PCs DEF Context, Usable
  <2>2. ctx' = [ctx EXCEPT ![d] = c] /\ UNCHANGED <<execs, hitl>>
    BY <1>3 DEF DrainEnds
  <2>. HIDE DEF c
  <2>3. ctx' \in [Drivers -> Context] /\ ContextsOK'
    BY <2>1, <2>2, ContextStep
  <2>. QED  BY <1>3, <2>3 DEF DrainEnds, IInv, TypeOK
<1>4. CASE FinalizePaused(d)
  <2>. DEFINE w == IF PendingHitl THEN "WAITING_HUMAN" ELSE status
              c == [Idle EXCEPT !.pc = "write", !.write = w]
  <2>1. w \in Status /\ w \notin Terminal
    BY <1>4 DEF FinalizePaused, IInv, TypeOK, Status, Active, Terminal
  <2>2. c \in Context /\ Usable(c, DOMAIN execs, DOMAIN hitl)
    <3>. HIDE DEF w
    <3>. QED  BY <2>1, IdleContext, PCs DEF Context, Usable
  <2>3. ctx' = [ctx EXCEPT ![d] = c] /\ UNCHANGED <<execs, hitl>>
    BY <1>4 DEF FinalizePaused
  <2>. HIDE DEF c
  <2>4. ctx' \in [Drivers -> Context] /\ ContextsOK'
    BY <2>2, <2>3, ContextStep
  <2>. QED  BY <1>4, <2>4 DEF FinalizePaused, IInv, TypeOK
<1>5. CASE WriteStatus(d)
  <2>1. status' \in Status
    BY <1>0, <1>5 DEF WriteStatus, StatusIfActive, IInv, TypeOK, Context, Status, Terminal
  <2>. QED  BY <1>5, <2>1, ReleaseStep DEF WriteStatus, IInv, TypeOK
<1>6. CASE FinalizeAgain(d)
  BY <1>6, ReleaseStep DEF FinalizeAgain, IInv, TypeOK
<1>7. CASE Judge(d)
  <2>. DEFINE c == [Idle EXCEPT !.pc = "judge"]
  <2>1. c \in Context /\ Usable(c, DOMAIN execs, DOMAIN hitl)
    BY IdleContext, PCs DEF Idle, Context, Usable
  <2>2. ctx' = [ctx EXCEPT ![d] = c] /\ UNCHANGED <<execs, hitl>>
    BY <1>7 DEF Judge
  <2>. HIDE DEF c
  <2>3. ctx' \in [Drivers -> Context] /\ ContextsOK'
    BY <2>1, <2>2, ContextStep
  <2>. QED  BY <1>7, <2>3 DEF Judge, IInv, TypeOK
<1>8. CASE WriteVerdict(d)
  <2>1. PICK judgement \in Verdicts : status' = StatusIfActive(judgement) /\ LogVerdict(judgement)
    BY <1>8 DEF WriteVerdict, Verdicts
  <2>2. status' \in Status /\ dodLog' \in Seq(Verdicts)
    <3>1. status' \in Status
      BY <2>1 DEF StatusIfActive, IInv, TypeOK, Status, Terminal, Verdicts
    <3>2. dodLog' = dodLog \/ dodLog' = Append(dodLog, judgement)
      BY <2>1 DEF LogVerdict
    <3>3. dodLog \in Seq(Verdicts) /\ Append(dodLog, judgement) \in Seq(Verdicts)
      BY DEF IInv, TypeOK
    <3>. QED  BY <3>1, <3>2, <3>3
  <2>3. HandOffIfCompleted(d) /\ UNCHANGED <<execs, hitl>>
    BY <1>8 DEF WriteVerdict
  <2>4. ctx' \in [Drivers -> Context] /\ ContextsOK'
    BY <2>3, HandOffStep
  <2>. QED  BY <1>8, <2>2, <2>4 DEF WriteVerdict, IInv, TypeOK
<1>9. CASE WriteVerdictFaults(d)
  <2>1. status' \in Status
    BY <1>9 DEF WriteVerdictFaults, StatusIfActive, IInv, TypeOK, Status, Terminal
  <2>2. ctx' \in [Drivers -> Context] /\ ContextsOK'
    BY <1>9, HandOffStep, ReleaseStep DEF WriteVerdictFaults
  <2>. QED  BY <1>9, <2>1, <2>2 DEF WriteVerdictFaults, IInv, TypeOK
<1>10. CASE Deliver(d)
  BY <1>10, ReleaseStep DEF Deliver, IInv, TypeOK
<1>. QED
  BY <1>1, <1>2, <1>3, <1>4, <1>5, <1>6, <1>7, <1>8, <1>9, <1>10 DEF Finish

-----------------------------------------------------------------------------
(* The invariant.                                                           *)

LEMMA InitIInv ==
  ASSUME Init
  PROVE  IInv
<1>1. fires \in [DOMAIN LoopCap -> Nat] /\ arrivals \in [Joins -> SUBSET Nodes]
  BY DEF Init
<1>2. ctx \in [Drivers -> Context] /\ ContextsOK
  BY IdleContext DEF Init, ContextsOK
<1>3. execs \in Seq(ExecRow) /\ hitl \in Seq(HitlRow) /\ dodLog \in Seq(Verdicts)
  BY DEF Init
<1>. QED  BY <1>1, <1>2, <1>3 DEF Init, IInv, TypeOK, Status

LEMMA NextIInv ==
  ASSUME IInv, [Next]_vars
  PROVE  IInv'
<1>1. ASSUME NEW d \in Drivers, Start(d) \/ ResumeBegin(d) \/ Advance(d) \/ Crash(d)
      PROVE  IInv'
  BY <1>1, BeginStep, DispatchStep, RouteStep, FinishStep DEF Advance
<1>2. CASE CancelScan
  BY <1>2 DEF CancelScan, IInv, TypeOK, ContextsOK
<1>3. CASE CancelWrite
  BY <1>3 DEF CancelWrite, IInv, TypeOK, ContextsOK, Status, Terminal
<1>4. CASE UNCHANGED vars
  BY <1>4 DEF vars, IInv, TypeOK, ContextsOK
<1>. QED  BY <1>1, <1>2, <1>3, <1>4 DEF Next

\* The rows, the event log's derivatives and the drivers' contexts always have
\* the shape that the code reads back, for every graph and any number of
\* drivers (_RunCtx and the tables of schema/db.py).
THEOREM TypeCorrect == Spec => []TypeOK
<1>1. Init => IInv
  BY InitIInv
<1>2. IInv /\ [Next]_vars => IInv'
  BY NextIInv
<1>3. IInv => TypeOK
  BY DEF IInv
<1>. QED  BY <1>1, <1>2, <1>3, PTL DEF Spec

THEOREM Inductive == Spec => []IInv
<1>1. Init => IInv
  BY InitIInv
<1>2. IInv /\ [Next]_vars => IInv'
  BY NextIInv
<1>. QED  BY <1>1, <1>2, PTL DEF Spec

-----------------------------------------------------------------------------
(* The terminal status.                                                     *)

\* Every write of the run's status either goes through
\* _update_run_status_if_active, or sets FAILED or CANCELLED.
LEMMA StatusWrites ==
  ASSUME IInv, [Next]_vars
  PROVE  \/ status' = status
         \/ status = "NONE" /\ status' = "RUNNING"
         \/ status' = "FAILED" /\ UNCHANGED <<dodLog, handoffs>>
         \/ status' = "CANCELLED" /\ UNCHANGED <<dodLog, handoffs>>
         \/ \E d \in Drivers : WriteStatus(d) \/ WriteVerdict(d) \/ WriteVerdictFaults(d)
<1>1. ASSUME NEW d \in Drivers, Start(d) \/ ResumeBegin(d) \/ Advance(d) \/ Crash(d)
      PROVE  \/ status' = status
             \/ status = "NONE" /\ status' = "RUNNING"
             \/ status' = "FAILED" /\ UNCHANGED <<dodLog, handoffs>>
             \/ WriteStatus(d) \/ WriteVerdict(d) \/ WriteVerdictFaults(d)
  <2>1. CASE Start(d) \/ ResumeBegin(d) \/ Resume(d) \/ Crash(d)
    BY <2>1 DEF Start, ResumeBegin, Resume, ResumePrepareFails, ResumeAnswer, Crash
  <2>2. CASE Dispatch(d)
    BY <2>2 DEF Dispatch, DispatchRefused, DispatchBegin, DispatchInsert,
         DispatchCollides, OnEnter, OnEnterRaises, TurnReturns, TurnCommits, TurnRejected,
         TurnFails, TurnTransient, BackoffEnds, FailRun
  <2>3. CASE Route(d)
    BY <2>3 DEF Route, RouteConditional, RaiseHitl, RouteDefault, RouteFailsFast, Terminate,
         RouteRaises, FireTarget, FailRun
  <2>4. CASE Finish(d)
    BY <2>4 DEF Finish, FlushBegin, FlushJoin, DrainEnds, FinalizePaused, FinalizeAgain,
         Judge, Deliver
  <2>. QED  BY <1>1, <2>1, <2>2, <2>3, <2>4 DEF Advance
<1>2. CASE CancelScan \/ CancelWrite
  BY <1>2 DEF CancelScan, CancelWrite
<1>3. CASE UNCHANGED vars
  BY <1>3 DEF vars
<1>. QED  BY <1>1, <1>2, <1>3 DEF Next

LEMMA RunStaysTerminalStep ==
  ASSUME IInv, [Next]_vars, status \in Terminal
  PROVE  status' \in Terminal
<1>1. ASSUME NEW d \in Drivers, WriteStatus(d) \/ WriteVerdict(d) \/ WriteVerdictFaults(d)
      PROVE  status' = status
  BY <1>1 DEF WriteStatus, WriteVerdict, WriteVerdictFaults, StatusIfActive
<1>. QED  BY <1>1, StatusWrites DEF Terminal

\* A terminal run never becomes active again: neither a drain that still runs
\* after a cancellation, nor a second driver, nor a crash, nor a failing
\* write can reopen it.
THEOREM RunStaysTerminal == Spec => TerminalStays
<1>1. IInv /\ [Next]_vars => (status \in Terminal => status' \in Terminal)
  BY RunStaysTerminalStep
<1>. QED  BY <1>1, Inductive, PTL DEF Spec, TerminalStays

-----------------------------------------------------------------------------
(* The completion gate.                                                     *)

\* A step of driver d that gives it neither a handoff to deliver nor a row to
\* insert, and leaves the other drivers alone.
Quiet(d) ==
    ctx'[d].pc \notin {"deliver", "insert"} /\ \A e \in Drivers \ {d} : ctx'[e] = ctx[e]

LEMMA BeginsQuietly ==
  ASSUME IInv, NEW d \in Drivers, Start(d) \/ ResumeBegin(d) \/ Resume(d) \/ Crash(d)
  PROVE  Quiet(d)
<1>0. ctx \in [Drivers -> Context] /\ ctx[d] \in Context /\ Idle.pc = "idle"
  BY DEF IInv, TypeOK, Idle
<1>1. CASE Start(d)
  BY <1>0, <1>1 DEF Start, Idle, Quiet, Context
<1>2. CASE ResumeBegin(d)
  <2>1. PICK h \in DOMAIN hitl : ctx' = [ctx EXCEPT ![d] = [Idle EXCEPT !.pc = "prepare", !.req = h]]
    BY <1>2 DEF ResumeBegin
  <2>2. [Idle EXCEPT !.pc = "prepare", !.req = h].pc = "prepare"
    BY DEF Idle
  <2>. QED  BY <1>0, <2>1, <2>2 DEF Quiet
<1>3. CASE ResumePrepareFails(d)
  BY <1>0, <1>3 DEF ResumePrepareFails, Release, Quiet, Context
<1>4. CASE ResumeAnswer(d)
  BY <1>0, <1>4 DEF ResumeAnswer, Idle, Quiet, Context
<1>5. CASE Crash(d)
  BY <1>0, <1>5 DEF Crash, Release, Quiet, Context
<1>. QED  BY <1>1, <1>2, <1>3, <1>4, <1>5 DEF Resume

LEMMA DispatchesQuietly ==
  ASSUME IInv, NEW d \in Drivers, Dispatch(d)
  PROVE  Quiet(d) \/ DispatchBegin(d)
<1>0. ctx \in [Drivers -> Context] /\ ctx[d] \in Context /\ Idle.pc = "idle"
  BY DEF IInv, TypeOK, Idle
<1>1. CASE DispatchRefused(d)
  BY <1>0, <1>1 DEF DispatchRefused, FailRun, Release, Quiet, Context
<1>2. CASE DispatchInsert(d)
  BY <1>0, <1>2 DEF DispatchInsert, Popped, Quiet, Context
<1>10. CASE DispatchCollides(d)
  BY <1>0, <1>10 DEF DispatchCollides, Release, Quiet, Context
<1>11. CASE TurnReturns(d)
  BY <1>0, <1>11 DEF TurnReturns, Quiet, Context
<1>3. CASE OnEnter(d)
  BY <1>0, <1>3 DEF OnEnter, Quiet, Context
<1>4. CASE OnEnterRaises(d)
  BY <1>0, <1>4 DEF OnEnterRaises, Release, Quiet, Context
<1>5. CASE TurnCommits(d)
  BY <1>0, <1>5 DEF TurnCommits, Quiet, Context
<1>6. CASE TurnRejected(d)
  BY <1>0, <1>6 DEF TurnRejected, FailRun, Release, Quiet, Context
<1>7. CASE TurnFails(d)
  BY <1>0, <1>7 DEF TurnFails, FailRun, Release, Quiet, Context
<1>8. CASE TurnTransient(d)
  BY <1>0, <1>8 DEF TurnTransient, Quiet, Context
<1>9. CASE BackoffEnds(d)
  BY <1>0, <1>9 DEF BackoffEnds, Quiet, Context
<1>. QED
  BY <1>1, <1>2, <1>3, <1>4, <1>5, <1>6, <1>7, <1>8, <1>9, <1>10, <1>11 DEF Dispatch

LEMMA RoutesQuietly ==
  ASSUME IInv, NEW d \in Drivers, Route(d)
  PROVE  Quiet(d)
<1>0. ctx \in [Drivers -> Context] /\ ctx[d] \in Context /\ Idle.pc = "idle"
  BY DEF IInv, TypeOK, Idle
<1>1. CASE RouteConditional(d)
  BY <1>0, <1>1 DEF RouteConditional, Fire, Quiet, Context
<1>2. CASE RaiseHitl(d)
  BY <1>0, <1>2 DEF RaiseHitl, Quiet, Context
<1>3. CASE RouteDefault(d)
  BY <1>0, <1>3 DEF RouteDefault, Fire, Quiet, Context
<1>4. CASE RouteFailsFast(d)
  BY <1>0, <1>4 DEF RouteFailsFast, FailRun, Release, Quiet, Context
<1>5. CASE Terminate(d)
  BY <1>0, <1>5 DEF Terminate, Quiet, Context
<1>6. CASE RouteRaises(d)
  BY <1>0, <1>6 DEF RouteRaises, Release, Quiet, Context
<1>7. CASE FireTarget(d)
  BY <1>0, <1>7 DEF FireTarget, Quiet, Context
<1>. QED  BY <1>1, <1>2, <1>3, <1>4, <1>5, <1>6, <1>7 DEF Route

LEMMA FinishesQuietly ==
  ASSUME IInv, NEW d \in Drivers, Finish(d)
  PROVE  Quiet(d) \/ (HandOffIfCompleted(d) /\ (WriteVerdict(d) \/ WriteVerdictFaults(d)))
<1>0. ctx \in [Drivers -> Context] /\ ctx[d] \in Context /\ Idle.pc = "idle"
  BY DEF IInv, TypeOK, Idle
<1>1. CASE FlushBegin(d)
  BY <1>0, <1>1 DEF FlushBegin, Quiet, Context
<1>2. CASE FlushJoin(d)
  BY <1>0, <1>2 DEF FlushJoin, Quiet, Context
<1>3. CASE DrainEnds(d)
  BY <1>0, <1>3 DEF DrainEnds, Quiet, Context
<1>4. CASE FinalizePaused(d)
  BY <1>0, <1>4 DEF FinalizePaused, Idle, Quiet, Context
<1>5. CASE WriteStatus(d)
  BY <1>0, <1>5 DEF WriteStatus, Release, Quiet, Context
<1>6. CASE FinalizeAgain(d)
  BY <1>0, <1>6 DEF FinalizeAgain, Release, Quiet, Context
<1>7. CASE Judge(d)
  BY <1>0, <1>7 DEF Judge, Idle, Quiet, Context
<1>8. CASE WriteVerdict(d)
  BY <1>0, <1>8 DEF WriteVerdict, Quiet, Context
<1>9. CASE WriteVerdictFaults(d)
  BY <1>0, <1>9 DEF WriteVerdictFaults, Release, Quiet, Context
<1>10. CASE Deliver(d)
  BY <1>0, <1>10 DEF Deliver, Release, Quiet, Context
<1>. QED  BY <1>1, <1>2, <1>3, <1>4, <1>5, <1>6, <1>7, <1>8, <1>9, <1>10 DEF Finish

\* Only WriteVerdict writes the event log's verdicts, only Deliver hands off,
\* and only a judgement's write decides to.
LEMMA GateWrites ==
  ASSUME IInv, [Next]_vars
  PROVE  /\ dodLog' = dodLog \/ \E d \in Drivers : WriteVerdict(d)
         /\ handoffs' = handoffs \/ \E d \in Drivers : Deliver(d)
         /\ \/ UNCHANGED ctx
            \/ \E d \in Drivers :
                  \/ Quiet(d)
                  \/ DispatchBegin(d)
                  \/ HandOffIfCompleted(d) /\ (WriteVerdict(d) \/ WriteVerdictFaults(d))
<1>1. ASSUME NEW d \in Drivers, Start(d) \/ ResumeBegin(d) \/ Advance(d) \/ Crash(d)
      PROVE  /\ dodLog' = dodLog \/ WriteVerdict(d)
             /\ handoffs' = handoffs \/ Deliver(d)
  <2>1. CASE Start(d) \/ ResumeBegin(d) \/ Resume(d) \/ Crash(d)
    BY <2>1 DEF Start, ResumeBegin, Resume, ResumePrepareFails, ResumeAnswer, Crash
  <2>2. CASE Dispatch(d)
    BY <2>2 DEF Dispatch, DispatchRefused, DispatchBegin, DispatchInsert,
         DispatchCollides, OnEnter, OnEnterRaises, TurnReturns, TurnCommits, TurnRejected,
         TurnFails, TurnTransient, BackoffEnds, FailRun
  <2>3. CASE Route(d)
    BY <2>3 DEF Route, RouteConditional, RaiseHitl, RouteDefault, RouteFailsFast, Terminate,
         RouteRaises, FireTarget, FailRun
  <2>4. CASE Finish(d)
    BY <2>4 DEF Finish, FlushBegin, FlushJoin, DrainEnds, FinalizePaused, WriteStatus,
         FinalizeAgain, Judge, WriteVerdict, WriteVerdictFaults, Deliver
  <2>. QED  BY <1>1, <2>1, <2>2, <2>3, <2>4 DEF Advance
<1>2. ASSUME NEW d \in Drivers, Start(d) \/ ResumeBegin(d) \/ Advance(d) \/ Crash(d)
      PROVE  \/ Quiet(d)
             \/ DispatchBegin(d)
             \/ HandOffIfCompleted(d) /\ (WriteVerdict(d) \/ WriteVerdictFaults(d))
  BY <1>2, BeginsQuietly, DispatchesQuietly, RoutesQuietly, FinishesQuietly DEF Advance
<1>3. CASE CancelScan \/ CancelWrite
  BY <1>3 DEF CancelScan, CancelWrite
<1>4. CASE UNCHANGED vars
  BY <1>4 DEF vars
<1>. QED  BY <1>1, <1>2, <1>3, <1>4 DEF Next

LEMMA GateStep ==
  ASSUME IInv, GateEvidence, [Next]_vars
  PROVE  GateEvidence'
<1>0. status \in Status /\ dodLog \in Seq(Verdicts)
  BY DEF IInv, TypeOK
<1>1. CASE \E d \in Drivers : WriteVerdict(d)
  <2>1. PICK judgement \in Verdicts : status' = StatusIfActive(judgement) /\ LogVerdict(judgement)
    BY <1>1 DEF WriteVerdict, Verdicts
  <2>2. CASE status \in Terminal
    BY <2>1, <2>2 DEF GateEvidence, StatusIfActive, LogVerdict
  <2>3. CASE status \notin Terminal
    <3>1. status' = judgement /\ dodLog = <<>>
      BY <2>1, <2>3 DEF GateEvidence, StatusIfActive
    <3>2. dodLog' = IF HasDod THEN <<judgement>> ELSE <<>>
      BY <2>1, <2>3, <3>1 DEF LogVerdict
    <3>. QED  BY <3>1, <3>2 DEF GateEvidence, Verdicts, Terminal
  <2>. QED  BY <2>2, <2>3
<1>2. CASE dodLog' = dodLog
  <2>1. status' \in Terminal \/ dodLog = <<>>
    <3>1. CASE status \in Terminal
      BY <3>1, RunStaysTerminalStep
    <3>2. CASE status \notin Terminal
      BY <3>2 DEF GateEvidence
    <3>. QED  BY <3>1, <3>2
  <2>2. status' = "COMPLETED" => status = "COMPLETED" \/ \E d \in Drivers : WriteVerdict(d)
    <3>1. ASSUME NEW d \in Drivers, WriteStatus(d), status' = "COMPLETED"
          PROVE  status = "COMPLETED"
      <4>1. ctx[d].write \notin Terminal
        BY DEF IInv, ContextsOK, Usable
      <4>. QED  BY <3>1, <4>1 DEF WriteStatus, StatusIfActive, Terminal
    <3>2. ASSUME NEW d \in Drivers, WriteVerdictFaults(d), status' = "COMPLETED"
          PROVE  status = "COMPLETED"
      BY <3>2 DEF WriteVerdictFaults, StatusIfActive
    <3>. QED  BY <3>1, <3>2, StatusWrites
  <2>. QED  BY <1>1, <1>2, <2>1, <2>2 DEF GateEvidence
<1>. QED  BY <1>1, <1>2, GateWrites

\* The gate speaks at most once; its event is never left beside a run that is
\* not over; and with a definition of done, a run is COMPLETED only on a
\* recorded "met".  (_write_final's single transaction.)
THEOREM GateIsEvidenced == Spec => []GateEvidence
<1>1. Init => GateEvidence
  BY DEF Init, GateEvidence
<1>2. IInv /\ GateEvidence /\ [Next]_vars => GateEvidence'
  BY GateStep
<1>. QED  BY <1>1, <1>2, Inductive, PTL DEF Spec

\* Only a run whose gate was passed is handed off, whatever is committed while
\* the judge is in flight.  (_hand_off_if_completed.)
THEOREM HandOffIsEarned == Spec => []HandOffEarned
<1>1. Init => HandOffEarned
  BY DEF Init, HandOffEarned, At, Idle
<1>2. IInv /\ GateEvidence /\ HandOffEarned /\ [Next]_vars => HandOffEarned'
  <2>. SUFFICES ASSUME IInv, GateEvidence, HandOffEarned, [Next]_vars, HasDod,
                       handoffs' > 0 \/ \E d \in Drivers : ctx'[d].pc = "deliver"
                PROVE  dodLog' = <<"COMPLETED">>
    BY DEF HandOffEarned, At
  <2>1. dodLog = <<"COMPLETED">> => dodLog' = <<"COMPLETED">>
    <3>1. ASSUME NEW d \in Drivers, WriteVerdict(d), dodLog = <<"COMPLETED">>
          PROVE  dodLog' = dodLog
      BY <3>1 DEF WriteVerdict, LogVerdict, GateEvidence
    <3>. QED  BY <3>1, GateWrites
  <2>2. CASE handoffs' > 0
    <3>1. handoffs > 0 \/ \E d \in Drivers : Deliver(d)
      BY <2>2, GateWrites
    <3>. QED  BY <2>1, <3>1 DEF Deliver, HandOffEarned
  <2>3. CASE \E d \in Drivers : ctx'[d].pc = "deliver"
    <3>1. CASE \E d \in Drivers : ctx[d].pc = "deliver"
      BY <2>1, <3>1 DEF HandOffEarned, At
    <3>2. CASE \E d \in Drivers :
                  HandOffIfCompleted(d) /\ (WriteVerdict(d) \/ WriteVerdictFaults(d))
      <4>1. PICK d \in Drivers :
                   HandOffIfCompleted(d) /\ (WriteVerdict(d) \/ WriteVerdictFaults(d))
        BY <3>2
      <4>2. CASE status' = "COMPLETED"
        BY <4>2, GateStep DEF GateEvidence
      <4>3. CASE status' # "COMPLETED"
        <5>1. ctx' = [ctx EXCEPT ![d] = Idle] /\ ctx \in [Drivers -> Context]
          BY <4>1, <4>3 DEF HandOffIfCompleted, IInv, TypeOK
        <5>2. \E e \in Drivers : ctx[e].pc = "deliver"
          BY <2>3, <5>1 DEF Idle
        <5>. QED  BY <2>1, <5>2 DEF HandOffEarned, At
      <4>. QED  BY <4>2, <4>3
    <3>3. CASE UNCHANGED ctx \/ \E d \in Drivers : Quiet(d)
      BY <2>3, <3>1, <3>3 DEF Quiet
    <3>4. CASE \E d \in Drivers : DispatchBegin(d)
      <4>1. PICK d \in Drivers : DispatchBegin(d)
        BY <3>4
      <4>2. ctx \in [Drivers -> Context] /\ ctx[d] \in Context
        BY DEF IInv, TypeOK
      <4>3. \A e \in Drivers : ctx'[e].pc = "deliver" => ctx[e].pc = "deliver"
        BY <4>1, <4>2 DEF DispatchBegin, Context
      <4>. QED  BY <2>3, <3>1, <4>3
    <3>. QED  BY <3>1, <3>2, <3>3, <3>4, GateWrites
  <2>. QED  BY <2>2, <2>3
<1>. QED  BY <1>1, <1>2, Inductive, GateIsEvidenced, PTL DEF Spec

\* Nothing is judged or completed after a cancellation.
THEOREM CancellationBeatsGate == Spec => CancelBeatsGate
<1>1. IInv /\ [Next]_vars =>
        (status = "CANCELLED" => status' # "COMPLETED" /\ dodLog' = dodLog)
  <2>. SUFFICES ASSUME IInv, [Next]_vars, status = "CANCELLED"
                PROVE  status' # "COMPLETED" /\ dodLog' = dodLog
    OBVIOUS
  <2>1. ASSUME NEW d \in Drivers, WriteStatus(d) \/ WriteVerdict(d) \/ WriteVerdictFaults(d)
        PROVE  status' = status
    BY <2>1 DEF WriteStatus, WriteVerdict, WriteVerdictFaults, StatusIfActive, Terminal
  <2>2. ASSUME NEW d \in Drivers, WriteVerdict(d) PROVE dodLog' = dodLog
    BY <2>2 DEF WriteVerdict, LogVerdict, Terminal
  <2>. QED  BY <2>1, <2>2, StatusWrites, GateWrites
<1>. QED  BY <1>1, Inductive, PTL DEF Spec, CancelBeatsGate

-----------------------------------------------------------------------------
(* The step budget.                                                         *)

\* The drivers that have passed the guards and not inserted their row yet.
Inserting == {d \in Drivers : At(d, "insert")}

\* Each of them may still add a row; one that was admitted found the budget
\* unspent, and all the others may have been admitted before it.
SlotsReserved == Len(execs) + Cardinality(Inserting) < MaxTotalSteps + Cardinality(Drivers)

LEMMA InsertingFinite ==
  /\ IsFiniteSet(Inserting) /\ Cardinality(Inserting) \in Nat
  /\ Cardinality(Drivers) \in Nat /\ Cardinality(Drivers) > 0
  /\ Cardinality(Inserting) <= Cardinality(Drivers)
<1>1. Inserting \subseteq Drivers
  BY DEF Inserting
<1>. QED  BY <1>1, GuardAssumption, FS_Subset, FS_CardinalityType, FS_EmptySet

\* Rows are only ever added by DispatchInsert, and only DispatchBegin reserves
\* a place for one.
LEMMA RowsAdded ==
  ASSUME IInv, [Next]_vars
  PROVE  \/ DOMAIN execs' = DOMAIN execs /\ Inserting' \subseteq Inserting
         \/ \E d \in Drivers : DispatchBegin(d) \/ DispatchInsert(d)
<1>1. ASSUME NEW d \in Drivers, Start(d) \/ ResumeBegin(d) \/ Advance(d) \/ Crash(d)
      PROVE  \/ DOMAIN execs' = DOMAIN execs
             \/ DispatchInsert(d)
  <2>1. CASE Start(d) \/ ResumeBegin(d) \/ Resume(d) \/ Crash(d)
    BY <2>1 DEF Start, ResumeBegin, Resume, ResumePrepareFails, ResumeAnswer, Crash
  <2>2. CASE Dispatch(d)
    BY <2>2 DEF Dispatch, DispatchRefused, DispatchBegin, DispatchCollides, OnEnter,
         OnEnterRaises, TurnReturns, TurnCommits, TurnRejected, TurnFails, TurnTransient,
         BackoffEnds, FailRun, Failed, Rejected
  <2>3. CASE Route(d)
    BY <2>3 DEF Route, RouteConditional, RaiseHitl, RouteDefault, RouteFailsFast, Terminate,
         RouteRaises, FireTarget, FailRun, Failed
  <2>4. CASE Finish(d)
    BY <2>4 DEF Finish, FlushBegin, FlushJoin, DrainEnds, FinalizePaused, WriteStatus,
         FinalizeAgain, Judge, WriteVerdict, WriteVerdictFaults, Deliver
  <2>. QED  BY <1>1, <2>1, <2>2, <2>3, <2>4 DEF Advance
<1>2. CASE UNCHANGED ctx
  <2>1. DOMAIN execs' = DOMAIN execs \/ \E d \in Drivers : DispatchInsert(d)
    BY <1>1 DEF Next, vars, CancelScan, CancelWrite
  <2>. QED  BY <1>2, <2>1 DEF Inserting, At
<1>3. CASE \E d \in Drivers : Quiet(d)
  <2>1. DOMAIN execs' = DOMAIN execs \/ \E d \in Drivers : DispatchInsert(d)
    BY <1>1 DEF Next, vars, CancelScan, CancelWrite
  <2>2. Inserting' \subseteq Inserting
    BY <1>3 DEF Quiet, Inserting, At
  <2>. QED  BY <2>1, <2>2
<1>4. CASE \E d \in Drivers :
              HandOffIfCompleted(d) /\ (WriteVerdict(d) \/ WriteVerdictFaults(d))
  <2>1. PICK d \in Drivers :
               HandOffIfCompleted(d) /\ (WriteVerdict(d) \/ WriteVerdictFaults(d))
    BY <1>4
  <2>2. DOMAIN execs' = DOMAIN execs
    BY <2>1 DEF WriteVerdict, WriteVerdictFaults
  <2>3. ctx \in [Drivers -> Context]
    BY DEF IInv, TypeOK
  <2>4. Inserting' \subseteq Inserting
    BY <2>1, <2>3 DEF HandOffIfCompleted, Inserting, At, Idle
  <2>. QED  BY <2>2, <2>4
<1>. QED  BY <1>2, <1>3, <1>4, GateWrites

LEMMA SlotsStep ==
  ASSUME IInv, SlotsReserved, [Next]_vars
  PROVE  SlotsReserved'
<1>. USE GuardAssumption
<1>0. /\ Len(execs) \in Nat /\ Len(execs') \in Nat
      /\ execs \in Seq(ExecRow) /\ execs' \in Seq(ExecRow)
      /\ ctx \in [Drivers -> Context]
  BY NextIInv DEF IInv, TypeOK
<1>1. CASE DOMAIN execs' = DOMAIN execs /\ Inserting' \subseteq Inserting
  <2>1. Len(execs') = Len(execs)
    BY <1>0, <1>1
  <2>2. Cardinality(Inserting') <= Cardinality(Inserting) /\ Cardinality(Inserting') \in Nat
    BY <1>1, InsertingFinite, FS_Subset, FS_CardinalityType
  <2>. QED  BY <1>0, <2>1, <2>2, InsertingFinite DEF SlotsReserved
<1>2. ASSUME NEW d \in Drivers, DispatchBegin(d)
      PROVE  SlotsReserved'
  <2>1. Len(execs) < MaxTotalSteps /\ execs' = execs
    BY <1>0, <1>2 DEF DispatchBegin, Refused
  <2>2. Cardinality(Inserting') \in Nat /\ Cardinality(Inserting') <= Cardinality(Drivers)
    <3>1. Inserting' \subseteq Drivers
      BY DEF Inserting
    <3>. QED  BY <3>1, FS_Subset, FS_CardinalityType
  <2>. QED  BY <1>0, <2>1, <2>2, InsertingFinite DEF SlotsReserved
<1>3. ASSUME NEW d \in Drivers, DispatchInsert(d)
      PROVE  SlotsReserved'
  <2>1. Len(execs') = Len(execs) + 1
    BY <1>0, <1>3, InsertStep
  <2>2. d \in Inserting /\ Inserting' \subseteq Inserting \ {d}
    <3>1. ctx[d] \in Context
      BY <1>0
    <3>. QED  BY <1>0, <1>3, <3>1 DEF DispatchInsert, Popped, Inserting, At, Context
  <2>3. Cardinality(Inserting \ {d}) = Cardinality(Inserting) - 1 /\ IsFiniteSet(Inserting \ {d})
    BY <2>2, InsertingFinite, FS_RemoveElement
  <2>4. /\ Cardinality(Inserting') <= Cardinality(Inserting) - 1
        /\ Cardinality(Inserting') \in Nat
    BY <2>2, <2>3, FS_Subset, FS_CardinalityType
  <2>. QED  BY <1>0, <2>1, <2>4, InsertingFinite DEF SlotsReserved
<1>. QED  BY <1>1, <1>2, <1>3, RowsAdded

\* All attempts of a run respect guards.max_total_steps, save one for each
\* further driver: the guard is read before the transaction it guards begins.
THEOREM StepBudgetHolds == Spec => []StepBudget
<1>1. Init => SlotsReserved
  <2>. SUFFICES ASSUME Init PROVE SlotsReserved
    OBVIOUS
  <2>1. Inserting = {} /\ Len(execs) = 0
    BY DEF Init, Inserting, At, Idle
  <2>. QED  BY <2>1, GuardAssumption, InsertingFinite, FS_EmptySet DEF SlotsReserved
<1>2. IInv /\ SlotsReserved /\ [Next]_vars => SlotsReserved'
  BY SlotsStep
<1>3. IInv /\ SlotsReserved => StepBudget
  BY GuardAssumption, InsertingFinite DEF SlotsReserved, StepBudget, IInv, TypeOK
<1>. QED  BY <1>1, <1>2, <1>3, Inductive, PTL DEF Spec

=============================================================================
