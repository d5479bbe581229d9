---------------------------- MODULE DriverProofs ----------------------------
(***************************************************************************)
(* Theorems about Engine with one driver: one call of start_run or         *)
(* resume_hitl is at work on the run at a time, which is what the guards   *)
(* of loop.py are written for (they are read before the transaction they   *)
(* guard begins).  They hold for every graph and every set of guards; the  *)
(* further hypotheses of a theorem are in its statement.                   *)
(***************************************************************************)
EXTENDS EngineProofs

\* The calls do not overlap.  They may be many: a driver that is idle again
\* can resume the run.
OneDriver == \A d, e \in Drivers : d = e

\* No process dies, and no expression of the workflow raises.
Undisturbed == MaxCrashes = 0 /\ RaisingNodes = {}

-----------------------------------------------------------------------------
(* What each step does to the context of its driver.                        *)

Moves(d, pc, queue, row, todo, term) ==
    /\ ctx'[d].pc = pc
    /\ ctx'[d].queue = queue
    /\ ctx'[d].row = row
    /\ ctx'[d].todo = todo
    /\ ctx'[d].term = term

Step(d) == Start(d) \/ ResumeBegin(d) \/ Advance(d) \/ Crash(d)

\* Whatever else happens is none of the driver's business.
LEMMA OneSteps ==
  ASSUME OneDriver, [Next]_vars, NEW d \in Drivers
  PROVE  Step(d) \/ UNCHANGED <<execs, hitl, fires, arrivals, ctx>>
  BY DEF OneDriver, Next, vars, CancelScan, CancelWrite, Step

LEMMA ReleaseMoves ==
  ASSUME IInv, NEW d \in Drivers, Release(d)
  PROVE  Moves(d, "idle", <<>>, 0, <<>>, FALSE)
  BY DEF IInv, TypeOK, Release, Idle, Moves

LEMMA BeginMoves ==
  ASSUME IInv, NEW d \in Drivers
  PROVE  /\ Start(d) => Moves(d, "drain", <<[node |-> Entry, want |-> 0]>>, 0, <<>>, FALSE)
         /\ ResumeBegin(d) =>
              /\ Moves(d, "prepare", <<>>, 0, <<>>, FALSE)
              /\ ctx'[d].req \in DOMAIN hitl /\ hitl[ctx'[d].req].status = "PENDING"
         /\ ResumePrepareFails(d) => Moves(d, "idle", <<>>, 0, <<>>, FALSE)
         /\ ResumeAnswer(d) =>
              Moves(d, "drain", <<[node |-> hitl[ctx[d].req].node,
                                   want |-> hitl[ctx[d].req].visit]>>, 0, <<>>, FALSE)
         /\ Crash(d) => Moves(d, "idle", <<>>, 0, <<>>, FALSE)
<1>0. ctx \in [Drivers -> Context]
  BY DEF IInv, TypeOK
<1>1. ASSUME Start(d)
      PROVE  Moves(d, "drain", <<[node |-> Entry, want |-> 0]>>, 0, <<>>, FALSE)
  BY <1>0, <1>1 DEF Start, Idle, Moves
<1>2. ASSUME ResumeBegin(d)
      PROVE  /\ Moves(d, "prepare", <<>>, 0, <<>>, FALSE)
             /\ ctx'[d].req \in DOMAIN hitl /\ hitl[ctx'[d].req].status = "PENDING"
  <2>1. PICK h \in DOMAIN hitl :
          /\ hitl[h].status = "PENDING"
          /\ ctx' = [ctx EXCEPT ![d] = [Idle EXCEPT !.pc = "prepare", !.req = h]]
    BY <1>2 DEF ResumeBegin
  <2>. QED  BY <1>0, <2>1 DEF Idle, Moves
<1>3. ASSUME ResumeAnswer(d)
      PROVE  Moves(d, "drain", <<[node |-> hitl[ctx[d].req].node,
                                  want |-> hitl[ctx[d].req].visit]>>, 0, <<>>, FALSE)
  <2>. DEFINE queue == <<[node |-> hitl[ctx[d].req].node, want |-> hitl[ctx[d].req].visit]>>
  <2>1. ctx' = [ctx EXCEPT ![d] = [Idle EXCEPT !.pc = "drain", !.queue = queue]]
    BY <1>3 DEF ResumeAnswer
  <2>. HIDE DEF queue
  <2>2. Moves(d, "drain", queue, 0, <<>>, FALSE)
    BY <1>0, <2>1 DEF Idle, Moves
  <2>. QED  BY <2>2 DEF queue
<1>. QED  BY <1>1, <1>2, <1>3, ReleaseMoves DEF ResumePrepareFails, Crash

LEMMA DispatchMoves ==
  ASSUME IInv, NEW d \in Drivers
  PROVE  /\ DispatchRefused(d) => Moves(d, "idle", <<>>, 0, <<>>, FALSE)
         /\ DispatchBegin(d) =>
              /\ Moves(d, "insert", ctx[d].queue, Len(execs), ctx[d].todo, ctx[d].term)
              /\ ctx'[d].visit = VisitForDispatch(Head(ctx[d].queue).node)
         /\ DispatchInsert(d) =>
              \E pc \in {"enter", "turn"} :
                 Moves(d, pc, Tail(ctx[d].queue), Len(execs) + 1, ctx[d].todo, ctx[d].term)
         /\ DispatchCollides(d) => Moves(d, "idle", <<>>, 0, <<>>, FALSE)
         /\ OnEnter(d) => Moves(d, "turn", ctx[d].queue, ctx[d].row, ctx[d].todo, ctx[d].term)
         /\ OnEnterRaises(d) => Moves(d, "idle", <<>>, 0, <<>>, FALSE)
         /\ TurnReturns(d) =>
              /\ Moves(d, "commit", ctx[d].queue, ctx[d].row, ctx[d].todo, ctx[d].term)
              /\ ctx'[d].tokens \in TurnTokens /\ WithinCap(ctx'[d].tokens)
         /\ TurnCommits(d) => Moves(d, "route", ctx[d].queue, ctx[d].row, ctx[d].todo, ctx[d].term)
         /\ TurnRejected(d) => Moves(d, "idle", <<>>, 0, <<>>, FALSE)
         /\ TurnFails(d) => Moves(d, "idle", <<>>, 0, <<>>, FALSE)
         /\ TurnTransient(d) =>
              \/ Moves(d, "drain", Retry(d), 0, ctx[d].todo, ctx[d].term)
              \/ Moves(d, "backoff", ctx[d].queue, ctx[d].row, ctx[d].todo, ctx[d].term)
         /\ BackoffEnds(d) => Moves(d, "drain", Retry(d), 0, ctx[d].todo, ctx[d].term)
<1>0. ctx \in [Drivers -> Context] /\ ctx[d] \in Context
  BY DEF IInv, TypeOK
<1>1. ASSUME DispatchBegin(d)
      PROVE  /\ Moves(d, "insert", ctx[d].queue, Len(execs), ctx[d].todo, ctx[d].term)
             /\ ctx'[d].visit = VisitForDispatch(Head(ctx[d].queue).node)
  <2>. DEFINE n == Head(ctx[d].queue).node
              v == VisitForDispatch(n)
              k == ConsecutiveFailures(n)
              r == Len(execs)
  <2>1. ctx' = [ctx EXCEPT ![d] =
                   [ctx[d] EXCEPT !.pc = "insert", !.row = r, !.visit = v, !.streak = k]]
    BY <1>1 DEF DispatchBegin
  <2>. HIDE DEF v, k, r
  <2>2. Moves(d, "insert", ctx[d].queue, r, ctx[d].todo, ctx[d].term) /\ ctx'[d].visit = v
    BY <1>0, <2>1 DEF Context, Moves
  <2>. QED  BY <2>2 DEF v, r
<1>2. ASSUME DispatchInsert(d)
      PROVE  \E pc \in {"enter", "turn"} :
                Moves(d, pc, Tail(ctx[d].queue), Len(execs) + 1, ctx[d].todo, ctx[d].term)
  <2>. DEFINE p == IF Head(ctx[d].queue).node \in EnterNodes THEN "enter" ELSE "turn"
              r == Len(execs) + 1
              rest == Tail(ctx[d].queue)
  <2>1. ctx' = [ctx EXCEPT ![d] = [Popped(d) EXCEPT !.pc = p, !.row = r, !.visit = 0]]
    BY <1>2 DEF DispatchInsert
  <2>2. Popped(d) = [ctx[d] EXCEPT !.queue = rest]
    BY DEF Popped
  <2>3. p \in {"enter", "turn"}
    OBVIOUS
  <2>. HIDE DEF p, r, rest
  <2>4. Moves(d, p, rest, r, ctx[d].todo, ctx[d].term)
    BY <1>0, <2>1, <2>2 DEF Context, Moves
  <2>5. Moves(d, p, Tail(ctx[d].queue), Len(execs) + 1, ctx[d].todo, ctx[d].term)
    BY <2>4 DEF rest, r
  <2>. QED  BY <2>3, <2>5
<1>3. ASSUME OnEnter(d)
      PROVE  Moves(d, "turn", ctx[d].queue, ctx[d].row, ctx[d].todo, ctx[d].term)
  BY <1>0, <1>3 DEF OnEnter, Context, Moves
<1>4. ASSUME TurnReturns(d)
      PROVE  /\ Moves(d, "commit", ctx[d].queue, ctx[d].row, ctx[d].todo, ctx[d].term)
             /\ ctx'[d].tokens \in TurnTokens /\ WithinCap(ctx'[d].tokens)
  <2>1. PICK t \in TurnTokens :
          /\ WithinCap(t)
          /\ ctx' = [ctx EXCEPT ![d] = [ctx[d] EXCEPT !.pc = "commit", !.tokens = t]]
    BY <1>4 DEF TurnReturns
  <2>2. /\ Moves(d, "commit", ctx[d].queue, ctx[d].row, ctx[d].todo, ctx[d].term)
        /\ ctx'[d].tokens = t
    BY <1>0, <2>1 DEF Context, Moves
  <2>. QED  BY <2>1, <2>2
<1>5. ASSUME TurnCommits(d)
      PROVE  Moves(d, "route", ctx[d].queue, ctx[d].row, ctx[d].todo, ctx[d].term)
  BY <1>0, <1>5 DEF TurnCommits, Context, Moves
<1>6. ASSUME TurnTransient(d)
      PROVE  \/ Moves(d, "drain", Retry(d), 0, ctx[d].todo, ctx[d].term)
             \/ Moves(d, "backoff", ctx[d].queue, ctx[d].row, ctx[d].todo, ctx[d].term)
  <2>. DEFINE retry == Retry(d)
  <2>1. \/ ctx' = [ctx EXCEPT ![d] = [ctx[d] EXCEPT !.pc = "drain", !.queue = retry, !.row = 0,
                                                    !.streak = 0]]
        \/ ctx' = [ctx EXCEPT ![d] = [ctx[d] EXCEPT !.pc = "backoff", !.streak = 0]]
    BY <1>6 DEF TurnTransient
  <2>. HIDE DEF retry
  <2>2. ASSUME ctx' = [ctx EXCEPT ![d] = [ctx[d] EXCEPT !.pc = "drain", !.queue = retry,
                                                        !.row = 0, !.streak = 0]]
        PROVE  Moves(d, "drain", retry, 0, ctx[d].todo, ctx[d].term)
    BY <1>0, <2>2 DEF Context, Moves
  <2>3. ASSUME ctx' = [ctx EXCEPT ![d] = [ctx[d] EXCEPT !.pc = "backoff", !.streak = 0]]
        PROVE  Moves(d, "backoff", ctx[d].queue, ctx[d].row, ctx[d].todo, ctx[d].term)
    BY <1>0, <2>3 DEF Context, Moves
  <2>. QED  BY <2>1, <2>2, <2>3 DEF retry
<1>7. ASSUME BackoffEnds(d)
      PROVE  Moves(d, "drain", Retry(d), 0, ctx[d].todo, ctx[d].term)
  <2>. DEFINE retry == Retry(d)
  <2>1. ctx' = [ctx EXCEPT ![d] = [ctx[d] EXCEPT !.pc = "drain", !.queue = retry, !.row = 0]]
    BY <1>7 DEF BackoffEnds
  <2>. HIDE DEF retry
  <2>2. Moves(d, "drain", retry, 0, ctx[d].todo, ctx[d].term)
    BY <1>0, <2>1 DEF Context, Moves
  <2>. QED  BY <2>2 DEF retry
<1>8. ASSUME DispatchRefused(d) \/ TurnRejected(d) \/ TurnFails(d)
      PROVE  Moves(d, "idle", <<>>, 0, <<>>, FALSE)
  BY <1>8, ReleaseMoves DEF DispatchRefused, TurnRejected, TurnFails, FailRun
<1>9. ASSUME DispatchCollides(d) \/ OnEnterRaises(d)
      PROVE  Moves(d, "idle", <<>>, 0, <<>>, FALSE)
  BY <1>9, ReleaseMoves DEF DispatchCollides, OnEnterRaises
<1>. QED  BY <1>1, <1>2, <1>3, <1>4, <1>5, <1>6, <1>7, <1>8, <1>9

LEMMA RouteMoves ==
  ASSUME IInv, NEW d \in Drivers
  PROVE  /\ \A to : Fire(d, to) =>
              Moves(d, "fire", ctx[d].queue, ctx[d].row, to, ctx[d].term)
         /\ RaiseHitl(d) => Moves(d, "drain", ctx[d].queue, 0, ctx[d].todo, ctx[d].term)
         /\ RouteFailsFast(d) => Moves(d, "idle", <<>>, 0, <<>>, FALSE)
         /\ Terminate(d) => Moves(d, "drain", ctx[d].queue, 0, ctx[d].todo, TRUE)
         /\ RouteRaises(d) => Moves(d, "idle", <<>>, 0, <<>>, FALSE)
<1>0. ctx \in [Drivers -> Context] /\ ctx[d] \in Context
  BY DEF IInv, TypeOK
<1>1. ASSUME NEW to, Fire(d, to)
      PROVE  Moves(d, "fire", ctx[d].queue, ctx[d].row, to, ctx[d].term)
  BY <1>0, <1>1 DEF Fire, Context, Moves
<1>2. ASSUME RaiseHitl(d)
      PROVE  Moves(d, "drain", ctx[d].queue, 0, ctx[d].todo, ctx[d].term)
  BY <1>0, <1>2 DEF RaiseHitl, Context, Moves
<1>3. ASSUME Terminate(d)
      PROVE  Moves(d, "drain", ctx[d].queue, 0, ctx[d].todo, TRUE)
  BY <1>0, <1>3 DEF Terminate, Context, Moves
<1>4. ASSUME RouteFailsFast(d) \/ RouteRaises(d)
      PROVE  Moves(d, "idle", <<>>, 0, <<>>, FALSE)
  BY <1>4, ReleaseMoves DEF RouteFailsFast, RouteRaises, FailRun
<1>. QED  BY <1>1, <1>2, <1>3, <1>4

\* A target that FireTarget dispatches: any plain node, and a join that is
\* covered and not queued yet.
Ready(d, t) ==
    \/ t \in Nodes \ Joins
    \/ t \in Joins /\ Covered(t, arrivals'[t]) /\ ~Queued(d, t)

LEMMA FireMoves ==
  ASSUME IInv, NEW d \in Drivers, FireTarget(d)
  PROVE  LET c == ctx[d]
             t == Head(c.todo)
         IN /\ t \in Targets /\ c.todo # <<>>
            /\ t \in Joins =>
                 arrivals' = [arrivals EXCEPT ![t] = arrivals[t] \cup {Node(d)}]
            /\ t \notin Joins => arrivals' = arrivals
            /\ \E pc \in {"drain", "fire"}, row \in Nat, queue \in Seq(QueueItem) :
                  /\ Moves(d, pc, queue, row, Tail(c.todo), c.term \/ t = End)
                  /\ pc = "fire" <=> Tail(c.todo) # <<>>
                  /\ pc = "fire" => row = c.row
                  /\ queue = IF Ready(d, t) THEN Append(c.queue, [node |-> t, want |-> 0])
                             ELSE c.queue
<1>. DEFINE c == ctx[d]
            t == Head(c.todo)
            arrived == [arrivals EXCEPT ![t] = @ \cup {Node(d)}]
            ready == \/ t \in Nodes \ Joins
                     \/ t \in Joins /\ Covered(t, arrived[t]) /\ ~Queued(d, t)
            last == Tail(c.todo) = <<>>
            p == IF last THEN "drain" ELSE "fire"
            row == IF last THEN 0 ELSE c.row
            rest == Tail(c.todo)
            term == c.term \/ t = End
            queue == IF ready THEN Append(c.queue, [node |-> t, want |-> 0]) ELSE c.queue
<1>1. ctx \in [Drivers -> Context] /\ c \in Context
  BY DEF IInv, TypeOK
<1>2. c.todo # <<>> /\ c.todo \in Seq(Targets) /\ c.row \in Nat /\ c.queue \in Seq(QueueItem)
  BY <1>1 DEF FireTarget, At, IInv, ContextsOK, Usable, Context
<1>3. t \in Targets
  BY <1>2
<1>4. arrivals' = IF t \in Joins THEN arrived ELSE arrivals
  BY DEF FireTarget
<1>5. ready <=> Ready(d, t)
  BY <1>4 DEF Ready
<1>6. ctx' = [ctx EXCEPT ![d] = [c EXCEPT !.pc = p, !.row = row, !.todo = rest, !.term = term,
                                         !.queue = queue]]
  BY DEF FireTarget
<1>7. queue \in Seq(QueueItem)
  <2>1. ASSUME ready PROVE [node |-> t, want |-> 0] \in QueueItem
    BY <2>1, JoinsAreNodes DEF QueueItem
  <2>. HIDE DEF ready, c, t
  <2>. QED  BY <1>2, <2>1
<1>8. Moves(d, p, queue, row, rest, term)
  <2>. HIDE DEF p, row, rest, term, queue, c
  <2>. QED  BY <1>1, <1>6 DEF c, Context, Moves
<1>9. /\ p \in {"drain", "fire"} /\ row \in Nat
      /\ p = "fire" <=> rest # <<>>
      /\ p = "fire" => row = c.row
  BY <1>2
<1>10. queue = IF Ready(d, t) THEN Append(c.queue, [node |-> t, want |-> 0]) ELSE c.queue
  BY <1>5
<1>11. /\ t \in Joins => arrivals' = [arrivals EXCEPT ![t] = arrivals[t] \cup {Node(d)}]
       /\ t \notin Joins => arrivals' = arrivals
  BY <1>4
<1>12. \E pc \in {"drain", "fire"}, r \in Nat, q \in Seq(QueueItem) :
          /\ Moves(d, pc, q, r, Tail(c.todo), c.term \/ t = End)
          /\ pc = "fire" <=> Tail(c.todo) # <<>>
          /\ pc = "fire" => r = c.row
          /\ q = IF Ready(d, t) THEN Append(c.queue, [node |-> t, want |-> 0]) ELSE c.queue
  <2>. HIDE DEF p, row, queue
  <2>. QED  BY <1>7, <1>8, <1>9, <1>10
<1>. HIDE DEF p, row, queue
<1>. QED  BY <1>2, <1>3, <1>11, <1>12

LEMMA FinishMoves ==
  ASSUME IInv, NEW d \in Drivers
  PROVE  /\ FlushBegin(d) => Moves(d, "flush", ctx[d].queue, ctx[d].row, JoinOrder, ctx[d].term)
         /\ FlushJoin(d) =>
              LET j == Head(ctx[d].todo) IN
              \E pc \in {"drain", "flush"}, queue \in Seq(QueueItem) :
                 /\ Moves(d, pc, queue, ctx[d].row, Tail(ctx[d].todo), ctx[d].term)
                 /\ pc = "drain" => queue # <<>>
                 /\ j \in Joins
                 /\ queue = IF Held(d, j) THEN Append(ctx[d].queue, [node |-> j, want |-> 0])
                            ELSE ctx[d].queue
         /\ DrainEnds(d) => Moves(d, "finalize", ctx[d].queue, ctx[d].row, <<>>, ctx[d].term)
         /\ FinalizePaused(d) =>
              /\ Moves(d, "write", <<>>, 0, <<>>, FALSE)
              /\ ctx'[d].write = IF PendingHitl THEN "WAITING_HUMAN" ELSE status
         /\ WriteStatus(d) => Moves(d, "idle", <<>>, 0, <<>>, FALSE)
         /\ FinalizeAgain(d) => Moves(d, "idle", <<>>, 0, <<>>, FALSE)
         /\ Judge(d) => Moves(d, "judge", <<>>, 0, <<>>, FALSE)
         /\ WriteVerdict(d) \/ WriteVerdictFaults(d) =>
              \E pc \in {"idle", "deliver"} :
                 /\ Moves(d, pc, <<>>, 0, <<>>, FALSE)
                 /\ pc = "deliver" => status' = "COMPLETED"
         /\ Deliver(d) => Moves(d, "idle", <<>>, 0, <<>>, FALSE)
<1>0. ctx \in [Drivers -> Context] /\ ctx[d] \in Context
  BY DEF IInv, TypeOK
<1>1. ASSUME FlushBegin(d)
      PROVE  Moves(d, "flush", ctx[d].queue, ctx[d].row, JoinOrder, ctx[d].term)
  BY <1>0, <1>1 DEF FlushBegin, Context, Moves
<1>2. ASSUME FlushJoin(d)
      PROVE  LET j == Head(ctx[d].todo) IN
             \E pc \in {"drain", "flush"}, queue \in Seq(QueueItem) :
                /\ Moves(d, pc, queue, ctx[d].row, Tail(ctx[d].todo), ctx[d].term)
                /\ pc = "drain" => queue # <<>>
                /\ j \in Joins
                /\ queue = IF Held(d, j) THEN Append(ctx[d].queue, [node |-> j, want |-> 0])
                           ELSE ctx[d].queue
  <2>. DEFINE j == Head(ctx[d].todo)
              rest == Tail(ctx[d].todo)
              q == IF Held(d, j) THEN Append(ctx[d].queue, [node |-> j, want |-> 0]) ELSE ctx[d].queue
              p == IF rest = <<>> /\ q # <<>> THEN "drain" ELSE "flush"
  <2>1. ctx' = [ctx EXCEPT ![d] = [ctx[d] EXCEPT !.pc = p, !.todo = rest, !.queue = q]]
    BY <1>2 DEF FlushJoin
  <2>2. p \in {"drain", "flush"} /\ (p = "drain" => q # <<>>)
    OBVIOUS
  <2>3. j \in Joins
    BY <1>2 DEF FlushJoin, At, IInv, ContextsOK, Usable
  <2>4. q \in Seq(QueueItem)
    <3>1. [node |-> j, want |-> 0] \in QueueItem /\ ctx[d].queue \in Seq(QueueItem)
      BY <1>0, <2>3, JoinsAreNodes DEF QueueItem, Context
    <3>. HIDE DEF j
    <3>. QED  BY <3>1
  <2>5. Moves(d, p, q, ctx[d].row, rest, ctx[d].term)
    <3>. HIDE DEF p, q, rest
    <3>. QED  BY <1>0, <2>1 DEF Context, Moves
  <2>6. q = IF Held(d, j) THEN Append(ctx[d].queue, [node |-> j, want |-> 0]) ELSE ctx[d].queue
    OBVIOUS
  <2>. HIDE DEF p, q
  <2>. QED  BY <2>2, <2>3, <2>4, <2>5, <2>6
<1>3. ASSUME DrainEnds(d)
      PROVE  Moves(d, "finalize", ctx[d].queue, ctx[d].row, <<>>, ctx[d].term)
  BY <1>0, <1>3 DEF DrainEnds, Context, Moves
<1>4. ASSUME FinalizePaused(d)
      PROVE  /\ Moves(d, "write", <<>>, 0, <<>>, FALSE)
             /\ ctx'[d].write = IF PendingHitl THEN "WAITING_HUMAN" ELSE status
  BY <1>0, <1>4 DEF FinalizePaused, Idle, Moves
<1>5. ASSUME Judge(d)
      PROVE  Moves(d, "judge", <<>>, 0, <<>>, FALSE)
  BY <1>0, <1>5 DEF Judge, Idle, Moves
<1>6. ASSUME HandOffIfCompleted(d)
      PROVE  \E pc \in {"idle", "deliver"} :
                 /\ Moves(d, pc, <<>>, 0, <<>>, FALSE)
                 /\ pc = "deliver" => status' = "COMPLETED"
  <2>1. CASE status' = "COMPLETED"
    <3>1. Moves(d, "deliver", <<>>, 0, <<>>, FALSE)
      BY <1>0, <1>6, <2>1 DEF HandOffIfCompleted, Idle, Moves
    <3>. QED  BY <2>1, <3>1
  <2>2. CASE status' # "COMPLETED"
    <3>1. Moves(d, "idle", <<>>, 0, <<>>, FALSE)
      BY <1>0, <1>6, <2>2 DEF HandOffIfCompleted, Idle, Moves
    <3>. QED  BY <3>1
  <2>. QED  BY <2>1, <2>2
<1>7. ASSUME WriteVerdict(d) \/ WriteVerdictFaults(d)
      PROVE  \E pc \in {"idle", "deliver"} :
                 /\ Moves(d, pc, <<>>, 0, <<>>, FALSE)
                 /\ pc = "deliver" => status' = "COMPLETED"
  <2>1. HandOffIfCompleted(d) \/ Release(d)
    BY <1>7 DEF WriteVerdict, WriteVerdictFaults
  <2>. QED  BY <1>6, <2>1, ReleaseMoves
<1>8. ASSUME WriteStatus(d) \/ FinalizeAgain(d) \/ Deliver(d)
      PROVE  Moves(d, "idle", <<>>, 0, <<>>, FALSE)
  BY <1>8, ReleaseMoves DEF WriteStatus, FinalizeAgain, Deliver
<1>. QED  BY <1>1, <1>2, <1>3, <1>4, <1>5, <1>7, <1>8

-----------------------------------------------------------------------------
(* The rows of the attempts.                                                *)

AtWork == {"enter", "turn", "commit"}
Dispatched == AtWork \cup {"backoff", "route", "fire"}

\* The row of a dispatch is the latest one of its node ("latest row" and "row
\* of this dispatch" are the same thing, which _fail_run takes for granted),
\* and its status tells how far the dispatch is.  No row is inserted between
\* a driver's guards and its own.
RowOK(d) ==
    /\ ctx[d].pc \in Dispatched => IsLatest(ctx[d].row, Node(d))
    /\ ctx[d].pc \in AtWork => Row(d).status = "RUNNING"
    /\ ctx[d].pc = "backoff" => Row(d).status = "FAILED"
    /\ ctx[d].pc \in {"route", "fire"} => Row(d).status = "SUCCEEDED"
    /\ ctx[d].pc = "insert" => ctx[d].row = Len(execs)

LatestOK == \A n \in Nodes : Rows(n) # {} => \E i \in Rows(n) : IsLatest(i, n)

RowsInv == LatestOK /\ \A d \in Drivers : RowOK(d)

\* A step that rewrites the status and the token count of the i-th row only.
Marks(i, s, t) ==
    /\ i \in DOMAIN execs /\ DOMAIN execs' = DOMAIN execs
    /\ \A k \in DOMAIN execs \ {i} : execs'[k] = execs[k]
    /\ execs'[i] = [execs[i] EXCEPT !.status = s, !.tokens = t]

LEMMA MarkedRow ==
  ASSUME IInv, NEW i, NEW s, NEW t, Marks(i, s, t)
  PROVE  /\ execs'[i].status = s /\ execs'[i].tokens = t
         /\ \A k \in DOMAIN execs :
              /\ execs'[k].node = execs[k].node
              /\ execs'[k].visit = execs[k].visit
              /\ execs'[k].want = execs[k].want
         /\ \A n : Rows(n)' = Rows(n)
         /\ \A k, n : IsLatest(k, n)' <=> IsLatest(k, n)
<1>1. execs[i] \in ExecRow
  BY DEF IInv, TypeOK, Marks
<1>2. /\ execs'[i].status = s /\ execs'[i].tokens = t
      /\ execs'[i].node = execs[i].node
      /\ execs'[i].visit = execs[i].visit
      /\ execs'[i].want = execs[i].want
  BY <1>1 DEF Marks, ExecRow
<1>3. \A k \in DOMAIN execs :
        /\ execs'[k].node = execs[k].node
        /\ execs'[k].visit = execs[k].visit
        /\ execs'[k].want = execs[k].want
  BY <1>2 DEF Marks
<1>4. \A n : Rows(n)' = Rows(n)
  BY <1>3 DEF Marks, Rows
<1>. QED  BY <1>2, <1>3, <1>4 DEF IsLatest

LEMMA LatestUnique ==
  ASSUME TypeOK, NEW n, NEW i, NEW k, IsLatest(i, n), IsLatest(k, n)
  PROVE  i = k
<1>1. i \in Nat /\ k \in Nat /\ i <= k /\ k <= i
  BY DEF IsLatest, Rows, TypeOK
<1>. QED  BY <1>1

\* _fail_run marks one row, if its node has any.
LEMMA FailedMarks ==
  ASSUME IInv, NEW n, NEW i, IsLatest(i, n)
  PROVE  /\ execs' = Failed(n) => Marks(i, "FAILED", execs[i].tokens)
         /\ \A t : execs' = Rejected(n, t) => Marks(i, "FAILED", t)
<1>1. i \in DOMAIN execs /\ execs[i] \in ExecRow
  BY DEF IsLatest, Rows, IInv, TypeOK
<1>2. \A k \in DOMAIN execs \ {i} : ~IsLatest(k, n)
  BY LatestUnique DEF IInv
<1>3. [execs[i] EXCEPT !.status = "FAILED"] =
        [execs[i] EXCEPT !.status = "FAILED", !.tokens = execs[i].tokens]
  BY <1>1 DEF ExecRow
<1>4. ASSUME execs' = Failed(n) PROVE Marks(i, "FAILED", execs[i].tokens)
  <2>1. DOMAIN execs' = DOMAIN execs /\ \A k \in DOMAIN execs \ {i} : execs'[k] = execs[k]
    BY <1>2, <1>4 DEF Failed
  <2>2. execs'[i] = [execs[i] EXCEPT !.status = "FAILED"]
    BY <1>1, <1>4 DEF Failed
  <2>. QED  BY <1>1, <1>3, <2>1, <2>2 DEF Marks
<1>5. ASSUME NEW t, execs' = Rejected(n, t) PROVE Marks(i, "FAILED", t)
  <2>1. DOMAIN execs' = DOMAIN execs /\ \A k \in DOMAIN execs \ {i} : execs'[k] = execs[k]
    BY <1>2, <1>5 DEF Rejected
  <2>2. execs'[i] = [execs[i] EXCEPT !.status = "FAILED", !.tokens = t]
    BY <1>1, <1>5 DEF Rejected
  <2>. QED  BY <1>1, <2>1, <2>2 DEF Marks
<1>. QED  BY <1>4, <1>5

LEMMA NoRowsFailed ==
  ASSUME IInv, NEW n, Rows(n) = {}
  PROVE  Failed(n) = execs
<1>1. execs \in Seq(ExecRow) /\ \A i : ~IsLatest(i, n)
  BY DEF IInv, TypeOK, IsLatest
<1>. QED  BY <1>1 DEF Failed

\* Which row each step rewrites, and how.
LEMMA RowMarks ==
  ASSUME IInv, RowsInv, NEW d \in Drivers
  PROVE  /\ DispatchRefused(d) =>
              \/ execs' = execs
              \/ \E i : /\ IsLatest(i, Head(ctx[d].queue).node)
                        /\ Marks(i, "FAILED", execs[i].tokens)
         /\ TurnCommits(d) => Marks(ctx[d].row, "SUCCEEDED", ctx[d].tokens)
         /\ TurnRejected(d) => \E t \in TurnTokens : Marks(ctx[d].row, "FAILED", t)
         /\ TurnFails(d) \/ TurnTransient(d) \/ RouteFailsFast(d) =>
              Marks(ctx[d].row, "FAILED", Row(d).tokens)
         /\ RaiseHitl(d) => Marks(ctx[d].row, "WAITING_HUMAN", Row(d).tokens)
<1>0. execs \in Seq(ExecRow) /\ ctx[d] \in Context
  BY DEF IInv, TypeOK
<1>1. ASSUME DispatchRefused(d)
      PROVE  \/ execs' = execs
             \/ \E i : /\ IsLatest(i, Head(ctx[d].queue).node)
                       /\ Marks(i, "FAILED", execs[i].tokens)
  <2>. DEFINE n == Head(ctx[d].queue).node
  <2>1. ctx[d].queue \in Seq(QueueItem) /\ ctx[d].queue # <<>>
    BY <1>0, <1>1 DEF DispatchRefused, Context
  <2>2. n \in Nodes
    <3>1. Head(ctx[d].queue) \in QueueItem
      BY <2>1
    <3>. QED  BY <3>1 DEF QueueItem
  <2>3. execs' = Failed(n)
    BY <1>1 DEF DispatchRefused, FailRun
  <2>. HIDE DEF n
  <2>4. CASE Rows(n) = {}
    BY <2>3, <2>4, NoRowsFailed
  <2>5. CASE Rows(n) # {}
    <3>1. PICK i \in Rows(n) : IsLatest(i, n)
      BY <2>2, <2>5 DEF RowsInv, LatestOK
    <3>. QED  BY <2>3, <3>1, FailedMarks DEF n
  <2>. QED  BY <2>4, <2>5 DEF n
<1>2. ASSUME ctx[d].pc \in Dispatched
      PROVE  /\ ctx[d].row \in DOMAIN execs
             /\ execs[ctx[d].row] \in ExecRow
             /\ IsLatest(ctx[d].row, Node(d))
  BY <1>2, NodeOfRow DEF RowsInv, RowOK, Dispatched, AtWork, Row
<1>3. ASSUME TurnCommits(d)
      PROVE  Marks(ctx[d].row, "SUCCEEDED", ctx[d].tokens)
  BY <1>0, <1>2, <1>3 DEF TurnCommits, At, Dispatched, AtWork, Marks
<1>4. ASSUME TurnRejected(d)
      PROVE  \E t \in TurnTokens : Marks(ctx[d].row, "FAILED", t)
  <2>1. PICK t \in TurnTokens : execs' = Rejected(Node(d), t)
    BY <1>4 DEF TurnRejected, FailRun
  <2>2. IsLatest(ctx[d].row, Node(d))
    BY <1>2, <1>4 DEF TurnRejected, At, Dispatched, AtWork
  <2>. QED  BY <2>1, <2>2, FailedMarks
<1>5. ASSUME TurnFails(d) \/ RouteFailsFast(d)
      PROVE  Marks(ctx[d].row, "FAILED", Row(d).tokens)
  <2>1. execs' = Failed(Node(d))
    BY <1>5 DEF TurnFails, RouteFailsFast, FailRun
  <2>2. IsLatest(ctx[d].row, Node(d))
    BY <1>2, <1>5 DEF TurnFails, RouteFailsFast, At, Dispatched, AtWork
  <2>. QED  BY <2>1, <2>2, FailedMarks DEF Row
<1>6. ASSUME NEW s, ctx[d].pc \in Dispatched, execs' = [execs EXCEPT ![ctx[d].row].status = s]
      PROVE  Marks(ctx[d].row, s, Row(d).tokens)
  <2>1. ctx[d].row \in DOMAIN execs /\ execs[ctx[d].row] \in ExecRow
    BY <1>2, <1>6
  <2>2. execs'[ctx[d].row] = [execs[ctx[d].row] EXCEPT !.status = s]
    BY <1>6, <2>1
  <2>3. execs'[ctx[d].row] = [execs[ctx[d].row] EXCEPT !.status = s, !.tokens = Row(d).tokens]
    BY <2>1, <2>2 DEF Row, ExecRow
  <2>. QED  BY <1>6, <2>1, <2>3 DEF Marks
<1>7. ASSUME TurnTransient(d)
      PROVE  Marks(ctx[d].row, "FAILED", Row(d).tokens)
  BY <1>6, <1>7 DEF TurnTransient, At, Dispatched, AtWork
<1>8. ASSUME RaiseHitl(d)
      PROVE  Marks(ctx[d].row, "WAITING_HUMAN", Row(d).tokens)
  BY <1>6, <1>8 DEF RaiseHitl, At, Dispatched, AtWork
<1>. QED  BY <1>1, <1>3, <1>4, <1>5, <1>7, <1>8

\* The row that DispatchInsert adds.
Adds(new, item, visit) ==
    /\ new \notin DOMAIN execs /\ DOMAIN execs' = DOMAIN execs \cup {new}
    /\ \A k \in DOMAIN execs : execs'[k] = execs[k]
    /\ execs'[new] = [node |-> item.node, visit |-> visit, want |-> item.want,
                      tokens |-> 0, status |-> "RUNNING"]

LEMMA InsertedRow ==
  ASSUME IInv, NEW d \in Drivers, DispatchInsert(d)
  PROVE  /\ ctx[d].queue \in Seq(QueueItem) /\ ctx[d].queue # <<>>
         /\ Head(ctx[d].queue) \in QueueItem
         /\ Len(execs) + 1 \in Nat /\ Len(execs') = Len(execs) + 1
         /\ Adds(Len(execs) + 1, Head(ctx[d].queue),
                 IF ctx[d].visit = 0 THEN Len(execs) + 1 ELSE ctx[d].visit)
<1>. DEFINE item == Head(ctx[d].queue)
            visit == IF ctx[d].visit = 0 THEN Len(execs) + 1 ELSE ctx[d].visit
            row == [node |-> item.node, visit |-> visit, want |-> item.want, tokens |-> 0,
                    status |-> "RUNNING"]
<1>1. execs \in Seq(ExecRow)
  BY DEF IInv, TypeOK
<1>2. ctx[d].queue # <<>> /\ ctx[d].queue \in Seq(QueueItem)
  BY DEF DispatchInsert, At, IInv, TypeOK, ContextsOK, Usable, Context
<1>3. item \in QueueItem
  BY <1>2
<1>4. execs' = Append(execs, row)
  BY DEF DispatchInsert
<1>. HIDE DEF row
<1>5. /\ Len(execs) + 1 \in Nat /\ Len(execs') = Len(execs) + 1
      /\ Len(execs) + 1 \notin DOMAIN execs
      /\ DOMAIN execs' = DOMAIN execs \cup {Len(execs) + 1}
      /\ \A k \in DOMAIN execs : execs'[k] = execs[k]
      /\ execs'[Len(execs) + 1] = row
  BY <1>1, <1>4
<1>. QED  BY <1>2, <1>3, <1>5 DEF Adds, row

LEMMA AddedRow ==
  ASSUME IInv, NEW new \in Nat, new = Len(execs) + 1, NEW item \in QueueItem, NEW visit,
         Adds(new, item, visit)
  PROVE  /\ \A n : Rows(n)' = IF n = item.node THEN Rows(n) \cup {new} ELSE Rows(n)
         /\ \A k, n : n # item.node => (IsLatest(k, n)' <=> IsLatest(k, n))
         /\ IsLatest(new, item.node)'
<1>1. \A k \in DOMAIN execs : k \in Nat /\ k <= new
  BY DEF IInv, TypeOK
<1>2. \A n : Rows(n)' = IF n = item.node THEN Rows(n) \cup {new} ELSE Rows(n)
  BY DEF Adds, Rows
<1>3. \A k, n : n # item.node => (IsLatest(k, n)' <=> IsLatest(k, n))
  BY <1>2 DEF IsLatest
<1>4. Rows(item.node)' = Rows(item.node) \cup {new}
  BY <1>2
<1>5. \A k \in Rows(item.node)' : k <= new
  BY <1>1, <1>4 DEF Rows
<1>6. IsLatest(new, item.node)'
  BY <1>4, <1>5 DEF IsLatest
<1>. QED  BY <1>2, <1>3, <1>6

\* The rows only change in these ways.
LEMMA RowWrites ==
  ASSUME IInv, RowsInv, NEW d \in Drivers, Step(d)
  PROVE  \/ execs' = execs
         \/ DispatchInsert(d) \/ TurnCommits(d) \/ TurnRejected(d) \/ RaiseHitl(d)
         \/ \E i : IsLatest(i, execs[i].node) /\ Marks(i, "FAILED", execs[i].tokens)
<1>1. CASE Start(d) \/ ResumeBegin(d) \/ Resume(d) \/ Crash(d)
  BY <1>1 DEF Start, ResumeBegin, Resume, ResumePrepareFails, ResumeAnswer, Crash
<1>2. CASE DispatchRefused(d)
  <2>1. \A i, n : IsLatest(i, n) => IsLatest(i, execs[i].node)
    BY DEF IsLatest, Rows
  <2>. QED  BY <1>2, <2>1, RowMarks
<1>3. CASE TurnFails(d) \/ TurnTransient(d) \/ RouteFailsFast(d)
  <2>1. IsLatest(ctx[d].row, execs[ctx[d].row].node)
    BY <1>3 DEF TurnFails, TurnTransient, RouteFailsFast, At, RowsInv, RowOK, Node, Row,
         Dispatched, AtWork
  <2>. QED  BY <1>3, <2>1, RowMarks DEF Row
<1>4. CASE Dispatch(d)
  BY <1>2, <1>3, <1>4 DEF Dispatch, DispatchBegin, DispatchCollides, OnEnter, OnEnterRaises,
       TurnReturns, BackoffEnds
<1>5. CASE Route(d)
  BY <1>3, <1>5 DEF Route, RouteConditional, RouteDefault, Terminate, RouteRaises, FireTarget
<1>6. CASE Finish(d)
  BY <1>6 DEF Finish, FlushBegin, FlushJoin, DrainEnds, FinalizePaused, WriteStatus,
       FinalizeAgain, Judge, WriteVerdict, WriteVerdictFaults, Deliver
<1>. QED  BY <1>1, <1>4, <1>5, <1>6 DEF Step, Advance

LEMMA RowChanges ==
  ASSUME IInv, RowsInv, [Next]_vars
  PROVE  \/ execs' = execs
         \/ \E i : \E s, t : IsLatest(i, execs[i].node) /\ Marks(i, s, t)
         \/ \E d \in Drivers : DispatchInsert(d)
<1>1. ASSUME NEW d \in Drivers, Step(d)
      PROVE  \/ execs' = execs
             \/ \E i : \E s, t : IsLatest(i, execs[i].node) /\ Marks(i, s, t)
             \/ DispatchInsert(d)
  <2>1. ASSUME TurnCommits(d) \/ TurnRejected(d) \/ RaiseHitl(d)
        PROVE  \E i : \E s, t : IsLatest(i, execs[i].node) /\ Marks(i, s, t)
    <3>1. IsLatest(ctx[d].row, execs[ctx[d].row].node)
      BY <2>1 DEF TurnCommits, TurnRejected, RaiseHitl, At, RowsInv, RowOK, Node, Row,
           Dispatched, AtWork
    <3>2. \E s, t : Marks(ctx[d].row, s, t)
      BY <2>1, RowMarks
    <3>. QED  BY <3>1, <3>2
  <2>2. CASE \E i : IsLatest(i, execs[i].node) /\ Marks(i, "FAILED", execs[i].tokens)
    <3>1. PICK i, s, t : IsLatest(i, execs[i].node) /\ Marks(i, s, t)
      BY <2>2
    <3>. QED  BY <3>1
  <2>. QED  BY <1>1, <2>1, <2>2, RowWrites
<1>2. CASE CancelScan \/ CancelWrite
  BY <1>2 DEF CancelScan, CancelWrite
<1>3. CASE UNCHANGED vars
  BY <1>3 DEF vars
<1>. QED  BY <1>1, <1>2, <1>3 DEF Next, Step

LEMMA LatestStep ==
  ASSUME IInv, RowsInv, [Next]_vars
  PROVE  LatestOK'
<1>1. CASE execs' = execs
  BY <1>1 DEF RowsInv, LatestOK, IsLatest, Rows
<1>2. CASE \E i : \E s, t : IsLatest(i, execs[i].node) /\ Marks(i, s, t)
  BY <1>2, MarkedRow DEF RowsInv, LatestOK
<1>3. ASSUME NEW d \in Drivers, DispatchInsert(d)
      PROVE  LatestOK'
  <2>1. PICK new \in Nat, item \in QueueItem :
          /\ new = Len(execs) + 1
          /\ \E visit : Adds(new, item, visit)
    BY <1>3, InsertedRow
  <2>2. /\ \A n : n # item.node => Rows(n)' = Rows(n)
        /\ \A k, n : n # item.node => (IsLatest(k, n)' <=> IsLatest(k, n))
        /\ IsLatest(new, item.node)'
    BY <2>1, AddedRow
  <2>3. new \in Rows(item.node)'
    BY <2>2 DEF IsLatest
  <2>. QED  BY <2>2, <2>3 DEF RowsInv, LatestOK
<1>. QED  BY <1>1, <1>2, <1>3, RowChanges

\* A driver that is not in a dispatch has no row to answer for.
LEMMA RowFree ==
  ASSUME NEW d \in Drivers, ctx'[d].pc \notin Dispatched \cup {"insert"}
  PROVE  RowOK(d)'
  BY DEF RowOK, Dispatched, AtWork

LEMMA RowKept ==
  ASSUME NEW d \in Drivers, RowOK(d), execs' = execs, ctx[d].pc \in Dispatched,
         NEW pc, NEW queue, NEW todo, NEW term,
         Moves(d, pc, queue, ctx[d].row, todo, term),
         \/ ctx[d].pc \in AtWork /\ pc \in AtWork
         \/ ctx[d].pc \in {"route", "fire"} /\ pc \in {"route", "fire"}
  PROVE  RowOK(d)'
  BY DEF RowOK, Moves, Node, Row, IsLatest, Rows, Dispatched, AtWork

LEMMA RowMarked ==
  ASSUME IInv, NEW d \in Drivers, RowOK(d), ctx[d].pc \in Dispatched,
         NEW pc, NEW s, NEW t, Marks(ctx[d].row, s, t),
         NEW queue, NEW todo, NEW term, Moves(d, pc, queue, ctx[d].row, todo, term),
         \/ pc = "route" /\ s = "SUCCEEDED"
         \/ pc = "backoff" /\ s = "FAILED"
  PROVE  RowOK(d)'
<1>1. PICK i : i = ctx[d].row
  OBVIOUS
<1>2. i \in DOMAIN execs /\ IsLatest(i, execs[i].node)
  BY <1>1 DEF RowOK, Marks, Node, Row
<1>3. IsLatest(i, execs[i].node)' /\ execs'[i].status = s
  BY <1>1, <1>2, MarkedRow
<1>4. ctx'[d].row = i /\ ctx'[d].pc = pc
  BY <1>1 DEF Moves
<1>. QED  BY <1>3, <1>4 DEF RowOK, Node, Row, AtWork

LEMMA RowStep ==
  ASSUME IInv, RowsInv, NEW d \in Drivers, Step(d)
  PROVE  RowOK(d)'
<1>0. RowOK(d)
  BY DEF RowsInv
<1>1. CASE Start(d) \/ ResumeBegin(d) \/ Resume(d) \/ Crash(d)
  BY <1>1, BeginMoves, RowFree DEF Resume, Moves, Dispatched, AtWork
<1>2. CASE Dispatch(d)
  <2>1. CASE \/ DispatchRefused(d) \/ DispatchCollides(d) \/ OnEnterRaises(d) \/ TurnRejected(d)
             \/ TurnFails(d) \/ BackoffEnds(d)
    BY <2>1, DispatchMoves, RowFree DEF Moves, Dispatched, AtWork
  <2>2. CASE DispatchBegin(d)
    <3>1. ctx'[d].pc = "insert" /\ ctx'[d].row = Len(execs) /\ execs' = execs
      BY <2>2, DispatchMoves DEF DispatchBegin, Moves
    <3>. QED  BY <3>1 DEF RowOK, Dispatched, AtWork
  <2>3. CASE DispatchInsert(d)
    <3>1. ctx'[d].pc \in {"enter", "turn"} /\ ctx'[d].row = Len(execs) + 1
      BY <2>3, DispatchMoves DEF Moves
    <3>2. PICK new \in Nat, item \in QueueItem :
            /\ new = Len(execs) + 1
            /\ \E visit : Adds(new, item, visit)
      BY <2>3, InsertedRow
    <3>3. /\ execs'[new].node = item.node /\ execs'[new].status = "RUNNING"
          /\ IsLatest(new, item.node)'
      BY <3>2, AddedRow DEF Adds
    <3>4. ctx'[d].row = new
      BY <3>1, <3>2
    <3>. QED  BY <3>1, <3>3, <3>4 DEF RowOK, Node, Row, AtWork
  <2>4. CASE OnEnter(d)
    BY <1>0, <2>4, DispatchMoves, RowKept DEF OnEnter, At, Dispatched, AtWork
  <2>5. CASE TurnReturns(d)
    BY <1>0, <2>5, DispatchMoves, RowKept DEF TurnReturns, At, Dispatched, AtWork
  <2>6. CASE TurnCommits(d)
    <3>1. ctx[d].pc \in Dispatched
      BY <2>6 DEF TurnCommits, At, Dispatched, AtWork
    <3>. QED  BY <1>0, <2>6, <3>1, DispatchMoves, RowMarks, RowMarked
  <2>7. CASE TurnTransient(d)
    <3>1. ctx[d].pc \in Dispatched
      BY <2>7 DEF TurnTransient, At, Dispatched, AtWork
    <3>2. CASE Moves(d, "drain", Retry(d), 0, ctx[d].todo, ctx[d].term)
      BY <3>2, RowFree DEF Moves, Dispatched, AtWork
    <3>3. CASE Moves(d, "backoff", ctx[d].queue, ctx[d].row, ctx[d].todo, ctx[d].term)
      BY <1>0, <2>7, <3>1, <3>3, RowMarks, RowMarked
    <3>. QED  BY <2>7, <3>2, <3>3, DispatchMoves
  <2>. QED  BY <1>2, <2>1, <2>2, <2>3, <2>4, <2>5, <2>6, <2>7 DEF Dispatch
<1>3. CASE Route(d)
  <2>1. CASE RaiseHitl(d) \/ RouteFailsFast(d) \/ Terminate(d) \/ RouteRaises(d)
    BY <2>1, RouteMoves, RowFree DEF Moves, Dispatched, AtWork
  <2>2. CASE RouteConditional(d) \/ RouteDefault(d)
    <3>1. PICK to : Fire(d, to)
      BY <2>2 DEF RouteConditional, RouteDefault
    <3>2. execs' = execs /\ ctx[d].pc = "route"
      BY <2>2 DEF RouteConditional, RouteDefault, At
    <3>3. Moves(d, "fire", ctx[d].queue, ctx[d].row, to, ctx[d].term)
      BY <3>1, RouteMoves
    <3>. QED  BY <1>0, <3>2, <3>3, RowKept DEF Dispatched
  <2>3. CASE FireTarget(d)
    <3>1. execs' = execs /\ ctx[d].pc = "fire"
      BY <2>3 DEF FireTarget, At
    <3>2. PICK pc \in {"drain", "fire"}, row \in Nat, queue \in Seq(QueueItem) :
            /\ \E todo, term : Moves(d, pc, queue, row, todo, term)
            /\ pc = "fire" => row = ctx[d].row
      BY <2>3, FireMoves
    <3>3. CASE pc = "drain"
      BY <3>2, <3>3, RowFree DEF Moves, Dispatched, AtWork
    <3>4. CASE pc = "fire"
      BY <1>0, <3>1, <3>2, <3>4, RowKept DEF Dispatched
    <3>. QED  BY <3>2, <3>3, <3>4
  <2>. QED  BY <1>3, <2>1, <2>2, <2>3 DEF Route
<1>4. CASE Finish(d)
  <2>1. ctx'[d].pc \in {"flush", "drain", "finalize", "write", "judge", "idle", "deliver"}
    BY <1>4, FinishMoves DEF Finish, Moves
  <2>. QED  BY <2>1, RowFree DEF Dispatched, AtWork
<1>. QED  BY <1>1, <1>2, <1>3, <1>4 DEF Step, Advance

\* Between two steps of its own, a single driver's rows do not change.
LEMMA RowsStep ==
  ASSUME OneDriver, IInv, RowsInv, [Next]_vars
  PROVE  RowsInv'
<1>1. ASSUME NEW d \in Drivers
      PROVE  RowOK(d)'
  <2>1. CASE Step(d)
    BY <2>1, RowStep
  <2>2. CASE UNCHANGED <<execs, ctx>>
    BY <2>2 DEF RowsInv, RowOK, Node, Row, IsLatest, Rows
  <2>. QED  BY <2>1, <2>2, OneSteps
<1>. QED  BY <1>1, LatestStep DEF RowsInv

LEMMA RowsInductive == OneDriver => (Spec => []RowsInv)
<1>. SUFFICES ASSUME OneDriver PROVE Spec => []RowsInv
  OBVIOUS
<1>1. Init => RowsInv
  BY DEF Init, RowsInv, LatestOK, RowOK, Rows, Idle, Dispatched, AtWork
<1>2. IInv /\ RowsInv /\ [Next]_vars => RowsInv'
  BY RowsStep
<1>. QED  BY <1>1, <1>2, Inductive, PTL DEF Spec

-----------------------------------------------------------------------------
(* The retry budget.                                                        *)

\* The attempts of the node of row i that failed in a row right before it.
FailuresBefore(i) ==
    {k \in Rows(execs[i].node) :
        /\ k < i
        /\ \A m \in Rows(execs[i].node) : k <= m /\ m < i => execs[m].status = "FAILED"}

\* Every attempt was admitted by the guard: what counts is how many failures
\* it found, since only the latest attempt can still fail.
RetryInv ==
    /\ \A i \in DOMAIN execs : Cardinality(FailuresBefore(i)) <= MaxRetries
    /\ \A d \in Drivers : At(d, "insert") => ~Refused(Head(ctx[d].queue).node)

\* Only DispatchBegin comes to "insert", and no row changes until the insertion.
LEMMA InsertComes ==
  ASSUME OneDriver, IInv, [Next]_vars, NEW d \in Drivers, ctx'[d].pc = "insert"
  PROVE  DispatchBegin(d) \/ UNCHANGED <<execs, hitl, ctx>>
<1>1. CASE Start(d) \/ ResumeBegin(d) \/ Resume(d) \/ Crash(d)
  BY <1>1, BeginsQuietly DEF Quiet
<1>2. CASE Dispatch(d)
  BY <1>2, DispatchesQuietly DEF Quiet
<1>3. CASE Route(d)
  BY <1>3, RoutesQuietly DEF Quiet
<1>4. CASE Finish(d)
  BY <1>4, FinishesQuietly, FinishMoves DEF Quiet, Moves
<1>. QED  BY <1>1, <1>2, <1>3, <1>4, OneSteps DEF Step, Advance

LEMMA AdmittedStep ==
  ASSUME OneDriver, IInv, RetryInv, [Next]_vars, NEW d \in Drivers, ctx'[d].pc = "insert"
  PROVE  ~Refused(Head(ctx[d].queue).node)'
<1>1. \A n : execs' = execs => (Refused(n)' <=> Refused(n))
  BY DEF Refused, ConsecutiveFailures, Rows
<1>2. CASE UNCHANGED <<execs, hitl, ctx>>
  BY <1>1, <1>2 DEF RetryInv, At
<1>3. CASE DispatchBegin(d)
  <2>1. ctx'[d].queue = ctx[d].queue /\ execs' = execs /\ ~Refused(Head(ctx[d].queue).node)
    BY <1>3, DispatchMoves DEF DispatchBegin, Moves
  <2>2. PICK n : n = Head(ctx[d].queue).node
    OBVIOUS
  <2>. QED  BY <1>1, <2>1, <2>2
<1>. QED  BY <1>2, <1>3, InsertComes

LEMMA FailuresBeforeStep ==
  ASSUME IInv, RowsInv, RetryInv, [Next]_vars, NEW k \in DOMAIN execs'
  PROVE  Cardinality(FailuresBefore(k))' <= MaxRetries
<1>0. \A i \in DOMAIN execs : i \in Nat
  BY DEF IInv, TypeOK
<1>1. CASE execs' = execs
  BY <1>1 DEF RetryInv, FailuresBefore, Rows
<1>2. ASSUME NEW i, NEW s, NEW t, IsLatest(i, execs[i].node), Marks(i, s, t)
      PROVE  Cardinality(FailuresBefore(k))' <= MaxRetries
  <2>0. k \in DOMAIN execs
    BY <1>2 DEF Marks
  <2>1. k \in DOMAIN execs /\ execs'[k].node = execs[k].node /\ \A n : Rows(n)' = Rows(n)
    BY <1>2, <2>0, MarkedRow
  <2>2. ASSUME NEW m \in Rows(execs[k].node), m < k
        PROVE  execs'[m] = execs[m]
    <3>1. m \in DOMAIN execs /\ execs[m].node = execs[k].node /\ k \in Rows(execs[k].node)
      BY <2>1 DEF Rows
    <3>2. m # i
      BY <1>0, <1>2, <2>1, <2>2, <3>1 DEF IsLatest
    <3>. QED  BY <1>2, <3>1, <3>2 DEF Marks
  <2>3. FailuresBefore(k)' = FailuresBefore(k)
    BY <2>1, <2>2 DEF FailuresBefore
  <2>. QED  BY <2>1, <2>3 DEF RetryInv
<1>3. ASSUME NEW d \in Drivers, DispatchInsert(d)
      PROVE  Cardinality(FailuresBefore(k))' <= MaxRetries
  <2>0. PICK new \in Nat, item \in QueueItem :
          /\ new = Len(execs) + 1 /\ item = Head(ctx[d].queue)
          /\ \E visit : Adds(new, item, visit)
    BY <1>3, InsertedRow
  <2>1. PICK visit : /\ new = Len(execs) + 1 /\ item = Head(ctx[d].queue)
                     /\ Adds(new, item, visit)
    BY <2>0
  <2>2. \A n : Rows(n)' = IF n = item.node THEN Rows(n) \cup {new} ELSE Rows(n)
    BY <2>1, AddedRow
  <2>3. \A m \in DOMAIN execs : m < new /\ m \in Nat
    BY <2>1 DEF IInv, TypeOK
  <2>4. \A m \in DOMAIN execs : execs'[m] = execs[m]
    BY <2>1 DEF Adds
  <2>5. CASE k \in DOMAIN execs
    <3>1. PICK n : n = execs[k].node /\ n = execs'[k].node
      BY <2>4, <2>5
    <3>2. \A m : m < k /\ m \in Rows(n)' <=> m < k /\ m \in Rows(n)
      BY <2>2, <2>3, <2>5
    <3>3. \A m \in Rows(n) : execs'[m] = execs[m]
      BY <2>4 DEF Rows
    <3>4. FailuresBefore(k)' = FailuresBefore(k)
      BY <3>1, <3>2, <3>3 DEF FailuresBefore
    <3>. QED  BY <2>5, <3>4 DEF RetryInv
  <2>6. CASE k = new
    <3>1. PICK n : n = item.node /\ n = execs'[k].node
      BY <2>1, <2>6 DEF Adds
    <3>2. \A m : m < k /\ m \in Rows(n)' <=> m \in Rows(n)
      BY <2>2, <2>3, <2>6, <3>1 DEF Rows
    <3>3. \A m \in Rows(n) : execs'[m] = execs[m] /\ m < k
      BY <2>3, <2>4, <2>6 DEF Rows
    <3>4. FailuresBefore(k)' =
            {m \in Rows(n) : \A l \in Rows(n) : l >= m => execs[l].status = "FAILED"}
      <4>. DEFINE failed == {m \in Rows(n) : \A l \in Rows(n) : l >= m => execs[l].status = "FAILED"}
      <4>1. \A m, l \in Rows(n) : m <= l <=> l >= m
        BY <2>3 DEF Rows
      <4>2. \A m : m \in FailuresBefore(k)' <=> m \in failed
        BY <3>1, <3>2, <3>3, <4>1 DEF FailuresBefore
      <4>. QED  BY <4>2
    <3>5. Cardinality(FailuresBefore(k))' = ConsecutiveFailures(n)
      BY <3>4 DEF ConsecutiveFailures
    <3>6. ~Refused(n)
      BY <1>3, <2>1, <3>1 DEF DispatchInsert, RetryInv
    <3>7. ConsecutiveFailures(n) \in Nat
      BY FailuresNat DEF IInv
    <3>. QED  BY <3>5, <3>6, <3>7, GuardAssumption DEF Refused
  <2>. QED  BY <2>1, <2>5, <2>6 DEF Adds
<1>. QED  BY <1>1, <1>2, <1>3, RowChanges

\* A node's failures in a row are those the latest attempt found, and itself.
LEMMA RetryBound ==
  ASSUME IInv, RowsInv, RetryInv
  PROVE  RetryBudget
<1>. SUFFICES ASSUME NEW n \in Nodes
              PROVE  ConsecutiveFailures(n) <= MaxRetries + 1
  BY DEF RetryBudget
<1>. DEFINE failed == {i \in Rows(n) : \A k \in Rows(n) : k >= i => execs[k].status = "FAILED"}
<1>0. /\ \A i \in Rows(n) : i \in Nat /\ i \in DOMAIN execs /\ execs[i].node = n
      /\ Rows(n) \subseteq 1..Len(execs) /\ Len(execs) \in Nat
  BY DEF IInv, TypeOK, Rows
<1>1. CASE Rows(n) = {}
  <2>1. failed = {}
    BY <1>1
  <2>2. Cardinality({}) = 0
    BY FS_EmptySet
  <2>3. ConsecutiveFailures(n) = 0
    BY <2>1, <2>2 DEF ConsecutiveFailures
  <2>. QED  BY <2>3, GuardAssumption
<1>2. CASE Rows(n) # {}
  <2>1. PICK i \in Rows(n) : IsLatest(i, n)
    BY <1>2 DEF RowsInv, LatestOK
  <2>2. FailuresBefore(i) \subseteq 1..Len(execs)
    BY <1>0, <2>1 DEF FailuresBefore
  <2>3. IsFiniteSet(FailuresBefore(i))
    <3>1. IsFiniteSet(1..Len(execs))
      BY <1>0, FS_Interval
    <3>. QED  BY <2>2, <3>1, FS_Subset
  <2>4. failed \subseteq FailuresBefore(i) \cup {i}
    <3>1. \A k \in Rows(n) : k <= i
      BY <2>1 DEF IsLatest
    <3>2. \A k, m \in Rows(n) : k <= m <=> m >= k
      BY <1>0
    <3>3. \A k \in Rows(n) : k = i \/ k < i
      BY <1>0, <3>1
    <3>4. execs[i].node = n
      BY <1>0
    <3>. QED  BY <3>2, <3>3, <3>4 DEF FailuresBefore
  <2>5. /\ IsFiniteSet(FailuresBefore(i) \cup {i})
        /\ Cardinality(FailuresBefore(i) \cup {i}) <= Cardinality(FailuresBefore(i)) + 1
        /\ Cardinality(FailuresBefore(i)) \in Nat
    <3>1. PICK before : before = FailuresBefore(i)
      OBVIOUS
    <3>2. Cardinality(before) \in Nat
      BY <2>3, <3>1, FS_CardinalityType
    <3>3. /\ IsFiniteSet(before \cup {i})
          /\ Cardinality(before \cup {i}) = IF i \in before THEN Cardinality(before)
                                            ELSE Cardinality(before) + 1
      BY <2>3, <3>1, FS_AddElement
    <3>. QED  BY <3>1, <3>2, <3>3
  <2>6. IsFiniteSet(failed) /\ Cardinality(failed) <= Cardinality(FailuresBefore(i) \cup {i})
    BY <2>4, <2>5, FS_Subset
  <2>7. Cardinality(failed) \in Nat /\ Cardinality(FailuresBefore(i) \cup {i}) \in Nat
    BY <2>5, <2>6, FS_CardinalityType
  <2>8. Cardinality(FailuresBefore(i)) <= MaxRetries
    BY <1>0, <2>1 DEF RetryInv
  <2>9. ConsecutiveFailures(n) = Cardinality(failed)
    BY DEF ConsecutiveFailures
  <2>. HIDE DEF failed
  <2>. QED  BY <2>5, <2>6, <2>7, <2>8, <2>9, GuardAssumption
<1>. QED  BY <1>1, <1>2

\* No mix of retries, loops, joins and resumes lets a node fail more often in
\* a row than its retry budget allows.  (_dispatch's first guard.)
LEMMA RetryInductive == OneDriver => (Spec => [](RetryInv /\ RetryBudget))
<1>. SUFFICES ASSUME OneDriver PROVE Spec => [](RetryInv /\ RetryBudget)
  OBVIOUS
<1>1. Init => RetryInv
  BY DEF Init, RetryInv, At, Idle
<1>2. IInv /\ RowsInv /\ RetryInv /\ [Next]_vars => RetryInv'
  BY AdmittedStep, FailuresBeforeStep DEF RetryInv, At
<1>3. IInv /\ RowsInv /\ RetryInv => RetryBudget
  BY RetryBound
<1>. QED  BY <1>1, <1>2, <1>3, Inductive, RowsInductive, PTL DEF Spec

-----------------------------------------------------------------------------
(* The token cap.                                                           *)

\* What is about to be committed still fits, because nothing is recorded
\* between the check and the commit.
TokenInv ==
    /\ IsFiniteSet(TokenUnits)
    /\ \A d \in Drivers : At(d, "commit") => WithinCap(ctx[d].tokens)
    /\ TokenCap

LEMMA CommitComes ==
  ASSUME OneDriver, IInv, [Next]_vars, NEW d \in Drivers, ctx'[d].pc = "commit"
  PROVE  TurnReturns(d) \/ UNCHANGED <<execs, ctx>>
<1>1. CASE Start(d) \/ ResumeBegin(d) \/ Resume(d) \/ Crash(d)
  BY <1>1, BeginMoves DEF Resume, Moves
<1>2. CASE Dispatch(d)
  BY <1>2, DispatchMoves DEF Dispatch, Moves
<1>3. CASE Route(d)
  <2>1. CASE RouteConditional(d) \/ RouteDefault(d)
    BY <2>1, RouteMoves DEF RouteConditional, RouteDefault, Moves
  <2>2. CASE FireTarget(d)
    BY <2>2, FireMoves DEF Moves
  <2>. QED  BY <1>3, <2>1, <2>2, RouteMoves DEF Route, Moves
<1>4. CASE Finish(d)
  BY <1>4, FinishMoves DEF Finish, Moves
<1>. QED  BY <1>1, <1>2, <1>3, <1>4, OneSteps DEF Step, Advance

LEMMA CapHeldStep ==
  ASSUME OneDriver, IInv, TokenInv, [Next]_vars, NEW d \in Drivers, ctx'[d].pc = "commit"
  PROVE  WithinCap(ctx[d].tokens)'
<1>1. CASE UNCHANGED <<execs, ctx>>
  BY <1>1 DEF TokenInv, At, WithinCap, TotalTokens, TokenUnits
<1>2. CASE TurnReturns(d)
  <2>1. execs' = execs /\ WithinCap(ctx'[d].tokens)
    BY <1>2, DispatchMoves DEF TurnReturns
  <2>. QED  BY <2>1 DEF WithinCap, TotalTokens, TokenUnits
<1>. QED  BY <1>1, <1>2, CommitComes

\* Recording t tokens for one row adds t at most.
LEMMA UnitsMarked ==
  ASSUME IInv, IsFiniteSet(TokenUnits), NEW i, NEW s, NEW t \in Nat, Marks(i, s, t)
  PROVE  /\ IsFiniteSet(TokenUnits') /\ TotalTokens \in Nat /\ TotalTokens' \in Nat
         /\ TotalTokens' <= TotalTokens + t
         /\ t = execs[i].tokens => TotalTokens' = TotalTokens
<1>. DEFINE new == {i} \X (1..t)
<1>1. execs'[i].tokens = t
  BY MarkedRow
<1>2. /\ i \in DOMAIN execs /\ DOMAIN execs' = DOMAIN execs
      /\ \A k \in DOMAIN execs \ {i} : execs'[k] = execs[k]
  BY DEF Marks
<1>3. IsFiniteSet(new) /\ Cardinality(new) = t
  <2>1. IsFiniteSet({i}) /\ Cardinality({i}) = 1
    BY FS_Singleton
  <2>2. IsFiniteSet(1..t) /\ Cardinality(1..t) = t
    BY FS_Interval
  <2>3. IsFiniteSet(new) /\ Cardinality(new) = Cardinality({i}) * Cardinality(1..t)
    BY <2>1, <2>2, FS_Product
  <2>. QED  BY <2>1, <2>2, <2>3
<1>4. TokenUnits' \subseteq TokenUnits \cup new
  <2>1. ASSUME NEW u \in TokenUnits' PROVE u \in TokenUnits \cup new
    <3>1. PICK k \in DOMAIN execs' : u \in {k} \X (1..execs'[k].tokens)
      BY <2>1 DEF TokenUnits
    <3>2. CASE k = i
      BY <1>1, <3>1, <3>2
    <3>3. CASE k # i
      <4>1. u \in {k} \X (1..execs[k].tokens) /\ k \in DOMAIN execs
        BY <1>2, <3>1, <3>3
      <4>. QED  BY <4>1 DEF TokenUnits
    <3>. QED  BY <3>2, <3>3
  <2>. QED  BY <2>1
<1>5. t = execs[i].tokens => TokenUnits' = TokenUnits
  <2>1. ASSUME t = execs[i].tokens PROVE TokenUnits' = TokenUnits
    <3>1. \A k \in DOMAIN execs : execs'[k].tokens = execs[k].tokens
      BY <1>1, <1>2, <2>1
    <3>. QED  BY <1>2, <3>1 DEF TokenUnits
  <2>. QED  BY <2>1
<1>. HIDE DEF new
<1>6. IsFiniteSet(TokenUnits \cup new) /\ IsFiniteSet(TokenUnits \cap new)
  BY <1>3, FS_Union, FS_Intersection
<1>7. /\ Cardinality(TokenUnits \cup new) <= Cardinality(TokenUnits) + t
      /\ Cardinality(TokenUnits \cup new) \in Nat
  <2>1. Cardinality(TokenUnits \cup new) =
          Cardinality(TokenUnits) + Cardinality(new) - Cardinality(TokenUnits \cap new)
    BY <1>3, FS_Union
  <2>2. /\ Cardinality(TokenUnits \cap new) \in Nat /\ Cardinality(TokenUnits) \in Nat
        /\ Cardinality(TokenUnits \cup new) \in Nat
    BY <1>6, FS_CardinalityType
  <2>. QED  BY <1>3, <2>1, <2>2
<1>8. IsFiniteSet(TokenUnits') /\ Cardinality(TokenUnits') <= Cardinality(TokenUnits \cup new)
  BY <1>4, <1>6, FS_Subset
<1>9. Cardinality(TokenUnits) \in Nat /\ Cardinality(TokenUnits') \in Nat
  BY <1>8, FS_CardinalityType
<1>. QED  BY <1>5, <1>7, <1>8, <1>9 DEF TotalTokens

\* A run that failed or was cancelled stays so.
LEMMA EndedStays ==
  ASSUME IInv, [Next]_vars, status \in {"FAILED", "CANCELLED"}
  PROVE  status' \in {"FAILED", "CANCELLED"}
<1>1. ASSUME NEW d \in Drivers, WriteStatus(d) \/ WriteVerdict(d) \/ WriteVerdictFaults(d)
      PROVE  status' = status
  BY <1>1 DEF WriteStatus, WriteVerdict, WriteVerdictFaults, StatusIfActive, Terminal
<1>. QED  BY <1>1, StatusWrites

\* The attempt that overspent: FAILED, with the tokens it spent on record.
Overspent(i) == i \in DOMAIN execs /\ execs[i].status = "FAILED" /\ execs[i].tokens > 0

LEMMA OverspentStays ==
  ASSUME IInv, NEW i, Overspent(i), NEW k, NEW s, NEW t, Marks(k, s, t),
         i = k => s = "FAILED" /\ t = execs[i].tokens
  PROVE  Overspent(i)'
<1>1. CASE i = k
  <2>1. execs'[k].status = s /\ execs'[k].tokens = t
    BY MarkedRow
  <2>. QED  BY <1>1, <2>1 DEF Overspent, Marks
<1>2. CASE i # k
  BY <1>2 DEF Overspent, Marks
<1>. QED  BY <1>1, <1>2

LEMMA TokenStep ==
  ASSUME IInv, RowsInv, TokenInv, [Next]_vars, NEW d \in Drivers, Step(d)
  PROVE  IsFiniteSet(TokenUnits') /\ TokenCap'
<1>. USE GuardAssumption
<1>0. /\ IsFiniteSet(TokenUnits)
      /\ TotalTokens > MaxTokens =>
           status \in {"FAILED", "CANCELLED"} /\ \E i : Overspent(i)
  BY DEF TokenInv, TokenCap, Overspent
<1>. SUFFICES /\ IsFiniteSet(TokenUnits')
              /\ TotalTokens' > MaxTokens =>
                   status' \in {"FAILED", "CANCELLED"} /\ \E i : Overspent(i)'
  BY DEF TokenCap, Overspent
<1>1. CASE execs' = execs
  BY <1>0, <1>1, EndedStays DEF TotalTokens, TokenUnits, Overspent
<1>2. CASE DispatchInsert(d)
  <2>1. PICK new, item, visit : Adds(new, item, visit)
    BY <1>2, InsertedRow
  <2>2. execs'[new].tokens = 0 /\ \A k \in DOMAIN execs : execs'[k] = execs[k]
    BY <2>1 DEF Adds
  <2>3. 1..0 = {}
    OBVIOUS
  <2>4. TokenUnits' = TokenUnits
    <3>1. \A u : u \in TokenUnits' <=> \E k \in DOMAIN execs' : u \in {k} \X (1..execs'[k].tokens)
      BY DEF TokenUnits
    <3>2. \A u : u \in TokenUnits <=> \E k \in DOMAIN execs : u \in {k} \X (1..execs[k].tokens)
      BY DEF TokenUnits
    <3>3. \A u : u \notin {new} \X (1..execs'[new].tokens)
      BY <2>2, <2>3
    <3>4. DOMAIN execs' = DOMAIN execs \cup {new}
      BY <2>1 DEF Adds
    <3>5. \A u : u \in TokenUnits' <=> u \in TokenUnits
      BY <2>2, <3>1, <3>2, <3>3, <3>4
    <3>. QED  BY <3>5
  <2>5. \A i : Overspent(i) => Overspent(i)'
    BY <2>1 DEF Adds, Overspent
  <2>. QED  BY <1>0, <2>4, <2>5, EndedStays DEF TotalTokens
<1>3. CASE TurnCommits(d)
  <2>1. Marks(ctx[d].row, "SUCCEEDED", ctx[d].tokens) /\ WithinCap(ctx[d].tokens)
    BY <1>3, RowMarks DEF TokenInv, TurnCommits
  <2>2. ctx[d].tokens \in Nat
    BY DEF IInv, TypeOK, Context
  <2>3. IsFiniteSet(TokenUnits') /\ TotalTokens' <= MaxTokens
    <3>1. PICK i, t : i = ctx[d].row /\ t = ctx[d].tokens
      OBVIOUS
    <3>2. Marks(i, "SUCCEEDED", t) /\ TotalTokens + t <= MaxTokens
      BY <2>1, <3>1 DEF WithinCap
    <3>3. /\ IsFiniteSet(TokenUnits') /\ TotalTokens \in Nat /\ TotalTokens' \in Nat
          /\ TotalTokens' <= TotalTokens + t
      BY <1>0, <2>2, <3>1, <3>2, UnitsMarked
    <3>. QED  BY <2>2, <3>1, <3>2, <3>3
  <2>4. TotalTokens' \in Nat
    BY <2>3, FS_CardinalityType DEF TotalTokens
  <2>. QED  BY <2>3, <2>4
<1>4. CASE TurnRejected(d)
  <2>1. PICK i, t : i = ctx[d].row /\ t \in TurnTokens /\ Marks(i, "FAILED", t)
    BY <1>4, RowMarks
  <2>2. t \in Nat /\ status' = "FAILED"
    BY <1>4, <2>1 DEF TurnRejected, FailRun
  <2>3. /\ IsFiniteSet(TokenUnits') /\ TotalTokens \in Nat /\ TotalTokens' \in Nat
        /\ TotalTokens' <= TotalTokens + t
    BY <1>0, <2>1, <2>2, UnitsMarked
  <2>4. CASE t > 0
    <3>1. execs'[i].status = "FAILED" /\ execs'[i].tokens = t
      BY <2>1, MarkedRow
    <3>2. Overspent(i)'
      BY <2>1, <2>4, <3>1 DEF Overspent, Marks
    <3>. QED  BY <2>2, <2>3, <3>2
  <2>5. CASE t = 0 /\ TotalTokens' > MaxTokens
    <3>1. PICK k : Overspent(k)
      BY <1>0, <2>3, <2>5
    <3>2. k # i
      BY <1>4, <2>1, <3>1 DEF Overspent, TurnRejected, At, RowsInv, RowOK, Row, AtWork
    <3>3. Overspent(k)'
      BY <2>1, <3>1, <3>2, OverspentStays
    <3>. QED  BY <2>2, <2>3, <3>3
  <2>. QED  BY <2>2, <2>3, <2>4, <2>5
<1>5. CASE RaiseHitl(d)
  <2>1. PICK i, t : i = ctx[d].row /\ t = execs[i].tokens /\ Marks(i, "WAITING_HUMAN", t)
    BY <1>5, RowMarks DEF Row
  <2>2. t \in Nat
    BY <1>5, <2>1, NodeOfRow DEF RaiseHitl, At, Row, ExecRow
  <2>3. IsFiniteSet(TokenUnits') /\ TotalTokens' = TotalTokens
    BY <1>0, <2>1, <2>2, UnitsMarked
  <2>4. \A k : Overspent(k) => k # i
    BY <1>5, <2>1 DEF Overspent, RaiseHitl, At, RowsInv, RowOK, Row
  <2>5. \A k : Overspent(k) => Overspent(k)'
    BY <2>1, <2>4, OverspentStays
  <2>. QED  BY <1>0, <2>3, <2>5, EndedStays
<1>6. CASE \E i : IsLatest(i, execs[i].node) /\ Marks(i, "FAILED", execs[i].tokens)
  <2>1. PICK i, t : t = execs[i].tokens /\ Marks(i, "FAILED", t)
    BY <1>6
  <2>2. t \in Nat
    <3>1. execs[i] \in ExecRow
      BY <2>1 DEF Marks, IInv, TypeOK
    <3>. QED  BY <2>1, <3>1 DEF ExecRow
  <2>3. IsFiniteSet(TokenUnits') /\ TotalTokens' = TotalTokens
    BY <1>0, <2>1, <2>2, UnitsMarked
  <2>4. \A k : Overspent(k) => Overspent(k)'
    BY <2>1, OverspentStays
  <2>. QED  BY <1>0, <2>3, <2>4, EndedStays
<1>. QED  BY <1>1, <1>2, <1>3, <1>4, <1>5, <1>6, RowWrites

LEMMA TokenInductive == OneDriver => (Spec => []TokenInv)
<1>. SUFFICES ASSUME OneDriver PROVE Spec => []TokenInv
  OBVIOUS
<1>1. Init => TokenInv
  <2>. SUFFICES ASSUME Init PROVE TokenInv
    OBVIOUS
  <2>1. TokenUnits = {}
    BY DEF Init, TokenUnits
  <2>2. IsFiniteSet(TokenUnits) /\ TotalTokens = 0
    BY <2>1, FS_EmptySet DEF TotalTokens
  <2>3. \A d \in Drivers : ~At(d, "commit")
    BY DEF Init, At, Idle
  <2>. QED  BY <2>2, <2>3, GuardAssumption DEF TokenInv, TokenCap
<1>2. IInv /\ RowsInv /\ TokenInv /\ [Next]_vars => TokenInv'
  <2>. SUFFICES ASSUME IInv, RowsInv, TokenInv, [Next]_vars PROVE TokenInv'
    OBVIOUS
  <2>1. \A d \in Drivers : At(d, "commit")' => WithinCap(ctx[d].tokens)'
    BY CapHeldStep DEF At
  <2>2. IsFiniteSet(TokenUnits') /\ TokenCap'
    <3>1. CASE \E d \in Drivers : Step(d)
      BY <3>1, TokenStep
    <3>2. CASE execs' = execs
      BY <3>2, EndedStays DEF TokenInv, TokenCap, TotalTokens, TokenUnits
    <3>3. Drivers # {}
      BY GuardAssumption
    <3>. QED  BY <3>1, <3>2, <3>3, OneSteps
  <2>. QED  BY <2>1, <2>2 DEF TokenInv
<1>. QED  BY <1>1, <1>2, Inductive, RowsInductive, PTL DEF Spec

-----------------------------------------------------------------------------
(* The loop caps.                                                           *)

\* Each target of an asked pair that is still to be fired was below its cap when
\* its edge was chosen, and is fired once.
CapOK(d) ==
    ctx[d].pc = "fire" =>
        \A i \in DOMAIN ctx[d].todo :
            <<Node(d), ctx[d].todo[i]>> \in AskedPairs =>
                /\ fires[<<Node(d), ctx[d].todo[i]>>] < LoopCap[<<Node(d), ctx[d].todo[i]>>]
                /\ \A k \in DOMAIN ctx[d].todo : ctx[d].todo[k] = ctx[d].todo[i] => k = i

CapInv == LoopCapHeld /\ \A d \in Drivers : CapOK(d)

\* An edge that is chosen is not capped out.
LEMMA CapChosen ==
  ASSUME IInv, NEW d \in Drivers, RouteConditional(d) \/ RouteDefault(d)
  PROVE  CapOK(d)'
<1>0. Node(d) \in Nodes /\ ctx[d].pc = "route"
  BY NodeOfRow DEF RouteConditional, RouteDefault, At
<1>1. PICK n : n = Node(d)
  OBVIOUS
<1>2. PICK to :
        /\ Fire(d, to)
        /\ \A i \in DOMAIN to :
              <<n, to[i]>> \in AskedPairs =>
                  /\ fires[<<n, to[i]>>] < LoopCap[<<n, to[i]>>]
                  /\ \A k \in DOMAIN to : to[k] = to[i] => k = i
  <2>1. CASE RouteConditional(d)
    <3>1. PICK i \in DOMAIN Conditional[n] :
            /\ ~LoopCapped(n, Conditional[n][i])
            /\ Fire(d, Conditional[n][i].to)
      BY <1>1, <2>1 DEF RouteConditional
    <3>2. PICK to : to = Conditional[n][i].to
      OBVIOUS
    <3>3. \A k, m \in DOMAIN to : to[k] = to[m] /\ <<n, to[k]>> \in AskedPairs => k = m
      BY <3>2 DEF AskedPairs
    <3>4. \A k \in DOMAIN to : <<n, to[k]>> \in AskedPairs =>
                                  ~(fires[<<n, to[k]>>] >= LoopCap[<<n, to[k]>>])
      BY <3>1, <3>2 DEF LoopCapped, AskedPairs
    <3>5. \A p \in AskedPairs : fires[p] \in Nat /\ LoopCap[p] \in Nat
      BY GuardAssumption DEF IInv, TypeOK, AskedPairs
    <3>6. \A k \in DOMAIN to : <<n, to[k]>> \in AskedPairs =>
                                  fires[<<n, to[k]>>] < LoopCap[<<n, to[k]>>]
      BY <3>4, <3>5
    <3>. QED  BY <3>1, <3>2, <3>3, <3>6
  <2>2. CASE RouteDefault(d)
    <3>1. Fire(d, Default[n])
      BY <1>1, <2>2 DEF RouteDefault
    <3>2. \A i \in DOMAIN Default[n] : <<n, Default[n][i]>> \notin AskedPairs
      BY DEF AskedPairs, Range
    <3>. QED  BY <3>1, <3>2
  <2>. QED  BY <2>1, <2>2
<1>3. ctx'[d].todo = to /\ ctx'[d].row = ctx[d].row
  BY <1>2, RouteMoves DEF Moves
<1>4. fires' = fires /\ execs' = execs
  BY DEF RouteConditional, RouteDefault
<1>5. Node(d)' = n
  BY <1>1, <1>3, <1>4 DEF Node, Row
<1>. QED  BY <1>2, <1>3, <1>4, <1>5 DEF CapOK

\* A target that is fired uses up one iteration of its pair, which none of the
\* remaining targets has.
LEMMA CapFired ==
  ASSUME IInv, CapInv, NEW d \in Drivers, FireTarget(d)
  PROVE  LoopCapHeld' /\ CapOK(d)'
<1>1. PICK n, t, todo, rest :
        /\ n = Node(d) /\ todo = ctx[d].todo /\ t = Head(todo) /\ rest = Tail(todo)
  OBVIOUS
<1>2. todo \in Seq(Targets) /\ todo # <<>>
  BY <1>1, FireMoves DEF IInv, TypeOK, Context
<1>3. /\ 1 \in DOMAIN todo /\ t = todo[1]
      /\ \A i \in DOMAIN rest : i + 1 \in DOMAIN todo /\ i + 1 # 1 /\ rest[i] = todo[i + 1]
      /\ \A i \in DOMAIN rest : i \in Nat
  BY <1>1, <1>2
<1>4. \A i \in DOMAIN todo :
        <<n, todo[i]>> \in AskedPairs =>
            /\ fires[<<n, todo[i]>>] < LoopCap[<<n, todo[i]>>]
            /\ \A k \in DOMAIN todo : todo[k] = todo[i] => k = i
  BY <1>1 DEF CapInv, CapOK, FireTarget, At
<1>5. fires' = IF <<n, t>> \in DOMAIN LoopCap
               THEN [fires EXCEPT ![<<n, t>>] = fires[<<n, t>>] + 1] ELSE fires
  BY <1>1 DEF FireTarget
<1>6. /\ fires \in [DOMAIN LoopCap -> Nat] /\ AskedPairs \subseteq DOMAIN LoopCap
      /\ \A p \in AskedPairs : LoopCap[p] \in Nat
  BY GuardAssumption DEF IInv, TypeOK, AskedPairs
<1>7. LoopCapHeld'
  <2>1. ASSUME NEW p \in AskedPairs PROVE fires'[p] <= LoopCap[p]
    <3>1. fires[p] <= LoopCap[p]
      BY DEF CapInv, LoopCapHeld
    <3>2. CASE p = <<n, t>>
      <4>1. fires[p] < LoopCap[p] /\ fires'[p] = fires[p] + 1
        BY <1>3, <1>4, <1>5, <1>6, <3>2
      <4>. QED  BY <1>6, <4>1
    <3>3. CASE p # <<n, t>>
      BY <1>5, <1>6, <3>1, <3>3
    <3>. QED  BY <3>2, <3>3
  <2>. QED  BY <2>1 DEF LoopCapHeld
<1>8. CASE ctx'[d].pc = "fire"
  <2>1. ctx'[d].todo = rest /\ ctx'[d].row = ctx[d].row /\ execs' = execs
    BY <1>1, <1>8, FireMoves DEF Moves, FireTarget
  <2>2. Node(d)' = n
    BY <1>1, <2>1 DEF Node, Row
  <2>3. ASSUME NEW i \in DOMAIN rest, <<n, rest[i]>> \in AskedPairs
        PROVE  /\ fires'[<<n, rest[i]>>] < LoopCap[<<n, rest[i]>>]
               /\ \A k \in DOMAIN rest : rest[k] = rest[i] => k = i
    <3>1. rest[i] # t
      BY <1>3, <1>4, <2>3
    <3>2. fires'[<<n, rest[i]>>] = fires[<<n, rest[i]>>]
      BY <1>5, <1>6, <2>3, <3>1
    <3>. QED  BY <1>3, <1>4, <2>3, <3>2
  <2>. QED  BY <1>7, <2>1, <2>2, <2>3 DEF CapOK
<1>9. CASE ctx'[d].pc # "fire"
  BY <1>7, <1>9 DEF CapOK
<1>. QED  BY <1>8, <1>9

LEMMA FireComes ==
  ASSUME IInv, NEW d \in Drivers, Step(d)
  PROVE  \/ ctx'[d].pc # "fire" /\ fires' = fires
         \/ RouteConditional(d) \/ RouteDefault(d) \/ FireTarget(d)
<1>1. CASE Start(d) \/ ResumeBegin(d) \/ Resume(d) \/ Crash(d)
  <2>1. ctx'[d].pc # "fire"
    BY <1>1, BeginMoves DEF Resume, Moves
  <2>. QED
    BY <1>1, <2>1 DEF Start, ResumeBegin, Resume, ResumePrepareFails, ResumeAnswer, Crash
<1>2. CASE Dispatch(d)
  <2>1. ctx'[d].pc # "fire"
    BY <1>2, DispatchMoves DEF Dispatch, Moves
  <2>. QED
    BY <1>2, <2>1 DEF Dispatch, DispatchRefused, DispatchBegin, DispatchInsert, DispatchCollides,
         OnEnter, OnEnterRaises, TurnReturns, TurnCommits, TurnRejected, TurnFails,
         TurnTransient, BackoffEnds, FailRun
<1>3. CASE RaiseHitl(d) \/ RouteFailsFast(d) \/ Terminate(d) \/ RouteRaises(d)
  <2>1. ctx'[d].pc # "fire"
    BY <1>3, RouteMoves DEF Moves
  <2>. QED  BY <1>3, <2>1 DEF RaiseHitl, RouteFailsFast, Terminate, RouteRaises, FailRun
<1>4. CASE Finish(d)
  <2>1. ctx'[d].pc # "fire"
    BY <1>4, FinishMoves DEF Finish, Moves
  <2>. QED
    BY <1>4, <2>1 DEF Finish, FlushBegin, FlushJoin, DrainEnds, FinalizePaused, WriteStatus,
         FinalizeAgain, Judge, WriteVerdict, WriteVerdictFaults, Deliver
<1>. QED  BY <1>1, <1>2, <1>3, <1>4 DEF Step, Advance, Route

LEMMA CapStep ==
  ASSUME OneDriver, IInv, CapInv, [Next]_vars, NEW d \in Drivers
  PROVE  LoopCapHeld' /\ CapOK(d)'
<1>1. CASE RouteConditional(d) \/ RouteDefault(d)
  <2>1. fires' = fires
    BY <1>1 DEF RouteConditional, RouteDefault
  <2>. QED  BY <1>1, <2>1, CapChosen DEF CapInv, LoopCapHeld
<1>2. CASE FireTarget(d)
  BY <1>2, CapFired
<1>3. CASE ctx'[d].pc # "fire" /\ fires' = fires
  BY <1>3 DEF CapInv, LoopCapHeld, CapOK
<1>4. CASE UNCHANGED <<execs, hitl, fires, arrivals, ctx>>
  BY <1>4 DEF CapInv, LoopCapHeld, CapOK, Node, Row
<1>. QED  BY <1>1, <1>2, <1>3, <1>4, FireComes, OneSteps

LEMMA CapInductive == OneDriver => (Spec => []CapInv)
<1>. SUFFICES ASSUME OneDriver PROVE Spec => []CapInv
  OBVIOUS
<1>1. Init => CapInv
  BY GuardAssumption DEF Init, CapInv, LoopCapHeld, AskedPairs, CapOK, Idle
<1>2. IInv /\ CapInv /\ [Next]_vars => CapInv'
  <2>1. Drivers # {}
    BY GuardAssumption
  <2>. QED  BY <2>1, CapStep DEF CapInv
<1>. QED  BY <1>1, <1>2, Inductive, PTL DEF Spec

\* Whatever mix of retries, loops, joins and resumes dispatches the nodes: no
\* node fails more often in a row than its retry budget allows, no capped pair
\* that only conditional edges close fires more often than its cap, and a run
\* whose recorded turns spent more than the token cap has failed on the turn
\* that spent it, or was cancelled.
THEOREM BudgetsHold == OneDriver => (Spec => []Budgets)
<1>. SUFFICES ASSUME OneDriver PROVE Spec => []Budgets
  OBVIOUS
<1>1. RetryBudget /\ CapInv /\ TokenInv => Budgets
  BY DEF CapInv, TokenInv, Budgets
<1>. QED  BY <1>1, RetryInductive, CapInductive, TokenInductive, PTL

-----------------------------------------------------------------------------
(* The drain: what there is left to do, and where it is kept.               *)

Unconsumed == \E j \in Joins : arrivals[j] # {}

\* A drain that goes on has a reason to end well: a terminal was reached, a
\* request is pending, a dispatch is queued, or a join holds arrivals.  The
\* quiescence check looks at every join that holds some, and meanwhile queues
\* nothing but joins.
DrainOK(d) ==
    /\ ctx[d].pc \in {"idle", "prepare", "finalize", "write", "judge", "deliver"} =>
           ctx[d].queue = <<>>
    /\ ctx[d].pc = "drain" =>
           ctx[d].term \/ PendingHitl \/ ctx[d].queue # <<>> \/ Unconsumed
    /\ ctx[d].pc = "flush" =>
           /\ ~PendingHitl
           /\ ctx[d].term \/ ctx[d].queue # <<>> \/ Unconsumed
           /\ \A i \in DOMAIN ctx[d].queue : ctx[d].queue[i].node \in Joins
           /\ \A j \in Joins :
                  arrivals[j] # {} => \/ Queued(d, j)
                                      \/ \E i \in DOMAIN ctx[d].todo : ctx[d].todo[i] = j
    /\ ctx[d].pc = "finalize" => PendingHitl \/ (ctx[d].term /\ ~Unconsumed)
    /\ ctx[d].pc = "judge" => ~PendingHitl /\ ~Unconsumed
    /\ ctx[d].pc = "write" => ctx[d].write = "WAITING_HUMAN" /\ PendingHitl

DrainInv == \A d \in Drivers : DrainOK(d)

InDispatch == {"insert", "enter", "turn", "commit", "backoff", "route", "fire"}

LEMMA DrainFree ==
  ASSUME NEW d \in Drivers,
         \/ ctx'[d].pc \in InDispatch
         \/ ctx'[d].pc \in {"idle", "prepare", "deliver"} /\ ctx'[d].queue = <<>>
         \/ ctx'[d].pc = "drain" /\ (ctx'[d].queue # <<>> \/ ctx'[d].term)
  PROVE  DrainOK(d)'
  BY DEF DrainOK, InDispatch

LEMMA RetryQueued ==
  ASSUME IInv, NEW d \in Drivers
  PROVE  Retry(d) # <<>>
<1>1. PICK item : Retry(d) = <<item>> \o ctx[d].queue
  BY DEF Retry
<1>2. ctx[d].queue \in Seq(QueueItem)
  BY DEF IInv, TypeOK, Context
<1>3. Len(<<item>> \o ctx[d].queue) = 1 + Len(ctx[d].queue)
  BY <1>2
<1>. QED  BY <1>1, <1>2, <1>3

LEMMA DrainDispatches ==
  ASSUME IInv, NEW d \in Drivers, Dispatch(d)
  PROVE  DrainOK(d)'
<1>1. \/ ctx'[d].pc \in InDispatch
      \/ ctx'[d].pc = "idle" /\ ctx'[d].queue = <<>>
      \/ ctx'[d].pc = "drain" /\ ctx'[d].queue = Retry(d)
  BY DispatchMoves DEF Dispatch, Moves, InDispatch
<1>. QED  BY <1>1, RetryQueued, DrainFree

LEMMA DrainFires ==
  ASSUME IInv, NEW d \in Drivers, FireTarget(d)
  PROVE  DrainOK(d)'
<1>1. PICK t : t = Head(ctx[d].todo)
  OBVIOUS
<1>2. /\ t \in Targets
      /\ t \in Joins => arrivals' = [arrivals EXCEPT ![t] = arrivals[t] \cup {Node(d)}]
      /\ \E pc \in {"drain", "fire"}, row \in Nat, queue \in Seq(QueueItem) :
            /\ Moves(d, pc, queue, row, Tail(ctx[d].todo), ctx[d].term \/ t = End)
            /\ queue = IF Ready(d, t) THEN Append(ctx[d].queue, [node |-> t, want |-> 0])
                       ELSE ctx[d].queue
  BY <1>1, FireMoves
<1>3. PICK pc \in {"drain", "fire"}, queue \in Seq(QueueItem) :
         /\ ctx'[d].pc = pc /\ ctx'[d].queue = queue
         /\ ctx'[d].term = (ctx[d].term \/ t = End)
         /\ queue = IF Ready(d, t) THEN Append(ctx[d].queue, [node |-> t, want |-> 0])
                    ELSE ctx[d].queue
  BY <1>2 DEF Moves
<1>4. CASE t = End
  BY <1>3, <1>4, DrainFree DEF InDispatch
<1>5. CASE t \in Nodes \ Joins
  <2>1. queue = Append(ctx[d].queue, [node |-> t, want |-> 0]) /\ ctx[d].queue \in Seq(QueueItem)
    BY <1>3, <1>5 DEF Ready, IInv, TypeOK, Context
  <2>2. queue # <<>>
    BY <2>1
  <2>. QED  BY <1>3, <2>2, DrainFree DEF InDispatch
<1>6. CASE t \in Joins
  <2>1. arrivals'[t] = arrivals[t] \cup {Node(d)}
    BY <1>2, <1>6 DEF IInv, TypeOK
  <2>2. Unconsumed'
    BY <1>6, <2>1 DEF Unconsumed
  <2>. QED  BY <1>3, <2>2 DEF DrainOK
<1>. QED  BY <1>2, <1>4, <1>5, <1>6 DEF Targets

LEMMA DrainRoutes ==
  ASSUME IInv, NEW d \in Drivers, Route(d)
  PROVE  DrainOK(d)'
<1>1. CASE RouteConditional(d) \/ RouteDefault(d)
  <2>1. ctx'[d].pc = "fire"
    BY <1>1, RouteMoves DEF RouteConditional, RouteDefault, Moves
  <2>. QED  BY <2>1, DrainFree DEF InDispatch
<1>2. CASE RaiseHitl(d)
  <2>1. PICK request : request.status = "PENDING" /\ hitl' = Append(hitl, request)
    BY <1>2 DEF RaiseHitl
  <2>2. hitl \in Seq(HitlRow)
    BY DEF IInv, TypeOK
  <2>3. PendingHitl'
    BY <2>1, <2>2 DEF PendingHitl
  <2>4. ctx'[d].pc = "drain"
    BY <1>2, RouteMoves DEF Moves
  <2>. QED  BY <2>3, <2>4 DEF DrainOK
<1>3. CASE Terminate(d) \/ RouteFailsFast(d) \/ RouteRaises(d)
  BY <1>3, RouteMoves, DrainFree DEF Moves
<1>. QED  BY <1>1, <1>2, <1>3, DrainFires DEF Route

\* One join of the quiescence check.
LEMMA DrainFlushes ==
  ASSUME IInv, NEW d \in Drivers, DrainOK(d), FlushJoin(d)
  PROVE  DrainOK(d)'
<1>0. PICK j, rest : j = Head(ctx[d].todo) /\ rest = Tail(ctx[d].todo)
  OBVIOUS
<1>1. PICK pc \in {"drain", "flush"}, queue \in Seq(QueueItem) :
        /\ ctx'[d].pc = pc /\ ctx'[d].queue = queue
        /\ ctx'[d].todo = rest /\ ctx'[d].term = ctx[d].term
        /\ pc = "drain" => queue # <<>>
        /\ j \in Joins
        /\ queue = IF Held(d, j) THEN Append(ctx[d].queue, [node |-> j, want |-> 0])
                   ELSE ctx[d].queue
  BY <1>0, FinishMoves DEF Moves
<1>2. /\ ctx[d].pc = "flush" /\ ctx[d].todo # <<>> /\ ctx[d].todo \in Seq(Joins)
      /\ ctx[d].queue \in Seq(QueueItem)
      /\ UNCHANGED <<hitl, arrivals>>
  BY DEF FlushJoin, At, IInv, TypeOK, ContextsOK, Usable, Context
<1>3. CASE pc = "drain"
  BY <1>1, <1>3, DrainFree
<1>4. CASE pc = "flush"
  <2>1. /\ \A i \in DOMAIN ctx[d].queue :
              i \in DOMAIN queue /\ queue[i] = ctx[d].queue[i]
        /\ \A i \in DOMAIN queue : queue[i].node = j \/ i \in DOMAIN ctx[d].queue
        /\ Held(d, j) => \E i \in DOMAIN queue : queue[i].node = j
        /\ ctx[d].queue # <<>> => queue # <<>>
    <3>1. CASE Held(d, j)
      <4>1. queue = Append(ctx[d].queue, [node |-> j, want |-> 0])
        BY <1>1, <3>1
      <4>2. Len(ctx[d].queue) + 1 \in DOMAIN queue /\ queue[Len(ctx[d].queue) + 1].node = j
        BY <1>2, <4>1
      <4>3. /\ \A i \in DOMAIN ctx[d].queue : i \in DOMAIN queue /\ queue[i] = ctx[d].queue[i]
            /\ \A i \in DOMAIN queue : i = Len(ctx[d].queue) + 1 \/ i \in DOMAIN ctx[d].queue
        BY <1>2, <4>1
      <4>. QED  BY <4>2, <4>3
    <3>2. CASE ~Held(d, j)
      BY <1>1, <3>2
    <3>. QED  BY <3>1, <3>2
  <2>2. \A n : Queued(d, n) => Queued(d, n)'
    BY <1>1, <2>1 DEF Queued
  <2>3. \A i \in DOMAIN queue : queue[i].node \in Joins
    BY <1>1, <1>2, <2>1 DEF DrainOK
  <2>4. \A i \in DOMAIN ctx[d].todo : ctx[d].todo[i] = j \/ \E k \in DOMAIN rest : rest[k] = ctx[d].todo[i]
    <3>1. \A k \in 1..(Len(ctx[d].todo) - 1) : k \in DOMAIN rest /\ rest[k] = ctx[d].todo[k + 1]
      BY <1>0, <1>2
    <3>2. \A i \in DOMAIN ctx[d].todo :
             i = 1 \/ (i - 1 \in 1..(Len(ctx[d].todo) - 1) /\ (i - 1) + 1 = i)
      BY <1>2
    <3>3. ctx[d].todo[1] = j
      BY <1>0, <1>2
    <3>. QED  BY <3>1, <3>2, <3>3
  <2>5. ASSUME NEW k \in Joins, arrivals[k] # {}
        PROVE  Queued(d, k)' \/ \E i \in DOMAIN rest : rest[i] = k
    <3>1. Queued(d, k) \/ \E i \in DOMAIN ctx[d].todo : ctx[d].todo[i] = k
      BY <1>2, <2>5 DEF DrainOK
    <3>2. CASE k = j
      <4>1. Held(d, j) \/ Queued(d, j)
        BY <2>5, <3>2 DEF Held
      <4>. QED  BY <1>1, <2>1, <2>2, <3>2, <4>1 DEF Queued
    <3>. QED  BY <2>2, <2>4, <3>1, <3>2
  <2>6. ~PendingHitl /\ (ctx[d].term \/ ctx[d].queue # <<>> \/ Unconsumed)
    BY <1>2 DEF DrainOK
  <2>7. ~PendingHitl' /\ (ctx'[d].term \/ ctx'[d].queue # <<>> \/ Unconsumed')
    BY <1>1, <1>2, <2>1, <2>6 DEF PendingHitl, Unconsumed
  <2>. QED  BY <1>1, <1>2, <1>4, <2>3, <2>5, <2>7 DEF DrainOK
<1>. QED  BY <1>1, <1>3, <1>4

LEMMA DrainFinishes ==
  ASSUME IInv, NEW d \in Drivers, DrainOK(d), Finish(d)
  PROVE  DrainOK(d)'
<1>0. hitl' = hitl /\ arrivals' = arrivals
  BY DEF Finish, FlushBegin, FlushJoin, DrainEnds, FinalizePaused, WriteStatus, FinalizeAgain,
     Judge, WriteVerdict, WriteVerdictFaults, Deliver
<1>1. (PendingHitl' <=> PendingHitl) /\ (Unconsumed' <=> Unconsumed)
  BY <1>0 DEF PendingHitl, Unconsumed
<1>2. CASE FlushBegin(d)
  <2>1. /\ ctx[d].queue = <<>> /\ ~PendingHitl
        /\ ctx[d].term \/ Unconsumed
    BY <1>2 DEF FlushBegin, At, DrainOK
  <2>2. /\ ctx'[d].pc = "flush" /\ ctx'[d].queue = <<>>
        /\ ctx'[d].todo = JoinOrder /\ ctx'[d].term = ctx[d].term
    BY <1>2, <2>1, FinishMoves DEF Moves
  <2>3. \A j \in Joins : \E i \in DOMAIN JoinOrder : JoinOrder[i] = j
    BY DEF Joins
  <2>. QED  BY <1>1, <2>1, <2>2, <2>3 DEF DrainOK
<1>3. CASE FlushJoin(d)
  BY <1>3, DrainFlushes
<1>4. CASE DrainEnds(d)
  <2>1. /\ ctx'[d].pc = "finalize" /\ ctx'[d].term = ctx[d].term
        /\ ctx'[d].queue = <<>> /\ ctx[d].queue = <<>>
    BY <1>4, FinishMoves DEF DrainEnds, Moves
  <2>2. CASE PendingHitl
    BY <1>1, <2>1, <2>2 DEF DrainOK
  <2>3. CASE ctx[d].pc = "flush" /\ ctx[d].todo = <<>>
    <3>1. ~Unconsumed
      BY <2>1, <2>3 DEF DrainOK, Unconsumed, Queued
    <3>2. ctx[d].term
      BY <2>1, <2>3, <3>1 DEF DrainOK
    <3>. QED  BY <1>1, <2>1, <3>1, <3>2 DEF DrainOK
  <2>. QED  BY <1>4, <2>2, <2>3 DEF DrainEnds, At
<1>5. CASE FinalizePaused(d)
  <2>1. PendingHitl
    BY <1>5 DEF FinalizePaused, At, DrainOK
  <2>2. ctx'[d].pc = "write" /\ ctx'[d].queue = <<>> /\ ctx'[d].write = "WAITING_HUMAN"
    BY <1>5, <2>1, FinishMoves DEF Moves
  <2>. QED  BY <1>1, <2>1, <2>2 DEF DrainOK
<1>6. CASE Judge(d)
  <2>1. ~PendingHitl /\ ~Unconsumed
    BY <1>6 DEF Judge, At, DrainOK
  <2>2. ctx'[d].pc = "judge" /\ ctx'[d].queue = <<>>
    BY <1>6, FinishMoves DEF Moves
  <2>. QED  BY <1>1, <2>1, <2>2 DEF DrainOK
<1>7. CASE \/ WriteStatus(d) \/ FinalizeAgain(d) \/ Deliver(d)
           \/ WriteVerdict(d) \/ WriteVerdictFaults(d)
  <2>1. ctx'[d].pc \in {"idle", "deliver"} /\ ctx'[d].queue = <<>>
    BY <1>7, FinishMoves DEF Moves
  <2>. QED  BY <2>1, DrainFree
<1>. QED  BY <1>2, <1>3, <1>4, <1>5, <1>6, <1>7 DEF Finish

LEMMA DrainStep ==
  ASSUME OneDriver, IInv, DrainInv, [Next]_vars
  PROVE  DrainInv'
<1>. SUFFICES ASSUME NEW d \in Drivers PROVE DrainOK(d)'
  BY DEF DrainInv
<1>1. CASE Start(d) \/ ResumeBegin(d) \/ Resume(d) \/ Crash(d)
  <2>1. \A x : <<x>> # <<>>
    OBVIOUS
  <2>2. \/ ctx'[d].pc \in {"idle", "prepare"} /\ ctx'[d].queue = <<>>
        \/ ctx'[d].pc = "drain" /\ ctx'[d].queue # <<>>
    BY <1>1, <2>1, BeginMoves DEF Resume, Moves
  <2>. QED  BY <2>2, DrainFree
<1>2. CASE Finish(d)
  BY <1>2, DrainFinishes DEF DrainInv
<1>3. CASE UNCHANGED <<execs, hitl, fires, arrivals, ctx>>
  <2>1. DrainOK(d)
    BY DEF DrainInv
  <2>. QED  BY <1>3, <2>1 DEF DrainOK, PendingHitl, Unconsumed, Queued
<1>. QED  BY <1>1, <1>2, <1>3, DrainDispatches, DrainRoutes, OneSteps DEF Step, Advance

LEMMA DrainInductive == OneDriver => (Spec => []DrainInv)
<1>. SUFFICES ASSUME OneDriver PROVE Spec => []DrainInv
  OBVIOUS
<1>1. Init => DrainInv
  BY DEF Init, DrainInv, DrainOK, Idle
<1>2. IInv /\ DrainInv /\ [Next]_vars => DrainInv'
  BY DrainStep
<1>. QED  BY <1>1, <1>2, Inductive, PTL DEF Spec

\* A run whose row does not exist has nothing else, and nobody works on it.
FreshInv ==
    status = "NONE" => execs = <<>> /\ hitl = <<>> /\ \A d \in Drivers : At(d, "idle")

LEMMA FreshStep ==
  ASSUME IInv, DrainInv, FreshInv, [Next]_vars
  PROVE  FreshInv'
<1>. SUFFICES ASSUME status' = "NONE" PROVE FreshInv'
  BY DEF FreshInv
<1>1. ASSUME NEW d \in Drivers, WriteStatus(d)
      PROVE  status = "NONE"
  <2>1. ctx[d].write = "WAITING_HUMAN"
    BY <1>1 DEF WriteStatus, At, DrainInv, DrainOK
  <2>. QED  BY <1>1, <2>1 DEF WriteStatus, StatusIfActive
<1>2. ASSUME NEW d \in Drivers, WriteVerdict(d) \/ WriteVerdictFaults(d)
      PROVE  status = "NONE"
  BY <1>2 DEF WriteVerdict, WriteVerdictFaults, StatusIfActive, Verdicts
<1>3. status = "NONE"
  BY <1>1, <1>2, StatusWrites
<1>4. hitl = <<>> /\ \A d \in Drivers : ctx[d].pc = "idle"
  BY <1>3 DEF FreshInv, At
<1>5. ASSUME NEW d \in Drivers
      PROVE  ~Step(d)
  <2>1. ~Start(d) /\ ~ResumeBegin(d) /\ ~Crash(d) /\ ~Resume(d)
    BY <1>4 DEF Start, ResumeBegin, Crash, Resume, ResumePrepareFails, ResumeAnswer, At
  <2>2. ~Dispatch(d)
    BY <1>4 DEF Dispatch, DispatchRefused, DispatchBegin, DispatchInsert, DispatchCollides,
       OnEnter, OnEnterRaises, TurnReturns, TurnCommits, TurnRejected, TurnFails, TurnTransient,
       BackoffEnds, At
  <2>3. ~Route(d)
    BY <1>4 DEF Route, RouteConditional, RaiseHitl, RouteDefault, RouteFailsFast, Terminate,
       RouteRaises, FireTarget, At
  <2>4. ~Finish(d)
    BY <1>4 DEF Finish, FlushBegin, FlushJoin, DrainEnds, FinalizePaused, WriteStatus,
       FinalizeAgain, Judge, WriteVerdict, WriteVerdictFaults, Deliver, At
  <2>. QED  BY <2>1, <2>2, <2>3, <2>4 DEF Step, Advance
<1>6. UNCHANGED <<execs, hitl, ctx>>
  BY <1>5 DEF Next, Step, vars, CancelScan, CancelWrite
<1>. QED  BY <1>3, <1>6 DEF FreshInv, At

LEMMA FreshInductive == OneDriver => (Spec => []FreshInv)
<1>. SUFFICES ASSUME OneDriver PROVE Spec => []FreshInv
  OBVIOUS
<1>1. Init => FreshInv
  BY DEF Init, FreshInv, At, Idle
<1>2. IInv /\ DrainInv /\ FreshInv /\ [Next]_vars => FreshInv'
  BY FreshStep
<1>. QED  BY <1>1, <1>2, Inductive, DrainInductive, PTL DEF Spec

\* A driver that routes or looks at the joins comes to hold a dispatch of a
\* join only by FireTarget, when it is covered, or by FlushJoin.
LEMMA JoinQueued ==
  ASSUME OneDriver, IInv, FreshInv, [Next]_vars, NEW d \in Drivers, NEW j \in Joins,
         ~Queued(d, j), Queued(d, j)', ctx[d].pc \in {"fire", "flush"}
  PROVE  FlushJoin(d) \/ Required(j) \subseteq arrivals'[j]
<1>1. CASE FireTarget(d)
  <2>1. PICK t : t = Head(ctx[d].todo)
    OBVIOUS
  <2>2. ctx'[d].queue = IF Ready(d, t) THEN Append(ctx[d].queue, [node |-> t, want |-> 0])
                        ELSE ctx[d].queue
    BY <1>1, <2>1, FireMoves DEF Moves
  <2>3. ctx[d].queue \in Seq(QueueItem)
    BY DEF IInv, TypeOK, Context
  <2>4. Ready(d, t)
    BY <2>2 DEF Queued
  <2>5. \A i \in DOMAIN ctx'[d].queue :
          ctx'[d].queue[i].node = t \/ (i \in DOMAIN ctx[d].queue /\ ctx'[d].queue[i] = ctx[d].queue[i])
    BY <2>2, <2>3, <2>4
  <2>6. j = t
    BY <2>5 DEF Queued
  <2>. QED  BY <2>4, <2>6 DEF Ready, Covered
<1>2. CASE ctx'[d].queue = ctx[d].queue \/ ctx'[d].queue = <<>>
  BY <1>2 DEF Queued
<1>3. ASSUME Step(d)
      PROVE  \/ FireTarget(d) \/ FlushJoin(d)
             \/ ctx'[d].queue = ctx[d].queue \/ ctx'[d].queue = <<>>
  <2>1. CASE ResumeBegin(d) \/ Resume(d) \/ Dispatch(d) \/ Route(d) \/ Crash(d)
    BY <2>1, BeginMoves, RouteMoves
       DEF ResumeBegin, Resume, ResumePrepareFails, ResumeAnswer, Dispatch, DispatchRefused,
           DispatchBegin, DispatchInsert, DispatchCollides, OnEnter, OnEnterRaises, TurnReturns,
           TurnCommits, TurnRejected, TurnFails, TurnTransient, BackoffEnds, Route,
           RouteConditional, RaiseHitl, RouteDefault, RouteFailsFast, Terminate, At, Moves
  <2>2. CASE Finish(d)
    BY <2>2, FinishMoves DEF Finish, Moves
  <2>3. ~Start(d)
    BY DEF Start, FreshInv, At
  <2>. QED  BY <1>3, <2>1, <2>2, <2>3 DEF Step, Advance
<1>. QED  BY <1>1, <1>2, <1>3, OneSteps

\* A join is dispatched on partial arrivals only by the quiescence check: when
\* nothing but joins is queued and no request is pending that could still
\* deliver one.
THEOREM PartialJoinsWaitForQuiescence == OneDriver => (Spec => PartialJoinOnlyAtQuiescence)
<1>. SUFFICES ASSUME OneDriver PROVE Spec => PartialJoinOnlyAtQuiescence
  OBVIOUS
<1>. DEFINE Partial(d, j) ==
              /\ ~Queued(d, j)
              /\ Queued(d, j)'
              /\ ctx[d].pc \in {"fire", "flush"}
              /\ ~(Required(j) \subseteq arrivals'[j])
<1>1. ASSUME IInv, DrainInv, FreshInv, [Next]_vars, NEW d \in Drivers, NEW j \in Joins,
             Partial(d, j)
      PROVE  /\ \A i \in DOMAIN ctx[d].queue : ctx[d].queue[i].node \in Joins
             /\ ~PendingHitl
  <2>1. FlushJoin(d)
    BY <1>1, JoinQueued
  <2>. QED  BY <1>1, <2>1 DEF FlushJoin, At, DrainInv, DrainOK
<1>2. IInv /\ DrainInv /\ FreshInv /\ [Next]_vars =>
        \A d \in Drivers : \A j \in Joins :
           Partial(d, j) => /\ \A i \in DOMAIN ctx[d].queue : ctx[d].queue[i].node \in Joins
                            /\ ~PendingHitl
  BY <1>1
<1>. QED  BY <1>2, Inductive, DrainInductive, FreshInductive, PTL
          DEF Spec, PartialJoinOnlyAtQuiescence

-----------------------------------------------------------------------------
(* What is left behind.                                                     *)

\* A driver at work that is not disturbed goes on with its attempt or settles it.
LEMMA AtWorkStep ==
  ASSUME OneDriver, Undisturbed, IInv, RowsInv, FreshInv, NEW d \in Drivers,
         ctx[d].pc \in AtWork, Step(d)
  PROVE  \/ execs' = execs /\ ctx'[d].row = ctx[d].row /\ ctx'[d].pc \in AtWork
         \/ \E s \in {"SUCCEEDED", "FAILED"} : \E t : Marks(ctx[d].row, s, t)
<1>1. ~Start(d) /\ ~ResumeBegin(d) /\ ~Resume(d)
  BY DEF Start, FreshInv, At, AtWork, ResumeBegin, Resume, ResumePrepareFails, ResumeAnswer
<1>2. ~Crash(d)
  BY DEF Crash, Undisturbed, IInv, TypeOK
<1>3. ~Route(d) /\ ~Finish(d)
  BY DEF Route, RouteConditional, RaiseHitl, RouteDefault, RouteFailsFast, Terminate,
     RouteRaises, FireTarget, Finish, FlushBegin, FlushJoin, DrainEnds, FinalizePaused,
     WriteStatus, FinalizeAgain, Judge, WriteVerdict, WriteVerdictFaults, Deliver, At, AtWork
<1>4. ~OnEnterRaises(d)
  BY DEF OnEnterRaises, Undisturbed, Contended, OneDriver
<1>5. CASE Dispatch(d)
  <2>1. CASE OnEnter(d) \/ TurnReturns(d)
    <3>1. execs' = execs
      BY <2>1 DEF OnEnter, TurnReturns
    <3>2. ctx'[d].row = ctx[d].row /\ ctx'[d].pc \in AtWork
      BY <2>1, DispatchMoves DEF Moves, AtWork
    <3>. QED  BY <3>1, <3>2
  <2>2. CASE TurnCommits(d) \/ TurnRejected(d) \/ TurnFails(d) \/ TurnTransient(d)
    BY <2>2, RowMarks
  <2>. QED
    BY <1>4, <1>5, <2>1, <2>2 DEF Dispatch, DispatchRefused, DispatchBegin, DispatchInsert,
       DispatchCollides, BackoffEnds, At, AtWork
<1>. QED  BY <1>1, <1>2, <1>3, <1>5 DEF Step, Advance

\* A row that is RUNNING was RUNNING before, or is the one that is inserted.
LEMMA RunningRows ==
  ASSUME IInv, RowsInv, NEW d \in Drivers, Step(d), ~DispatchInsert(d),
         NEW i \in DOMAIN execs', execs'[i].status = "RUNNING"
  PROVE  i \in DOMAIN execs /\ execs[i].status = "RUNNING"
<1>1. CASE execs' = execs
  BY <1>1
<1>2. CASE \E k : \E s \in {"SUCCEEDED", "FAILED", "WAITING_HUMAN"} : \E t : Marks(k, s, t)
  <2>1. PICK k, s, t : s # "RUNNING" /\ Marks(k, s, t)
    BY <1>2
  <2>2. i # k
    BY <2>1, MarkedRow
  <2>. QED  BY <2>1, <2>2 DEF Marks
<1>3. CASE \E k : IsLatest(k, execs[k].node) /\ Marks(k, "FAILED", execs[k].tokens)
  BY <1>2, <1>3
<1>4. CASE TurnCommits(d) \/ TurnRejected(d) \/ RaiseHitl(d)
  BY <1>2, <1>4, RowMarks
<1>. QED  BY <1>1, <1>3, <1>4, RowWrites

LEMMA OrphanStep ==
  ASSUME OneDriver, Undisturbed, IInv, RowsInv, FreshInv, NoOrphanAttempt, [Next]_vars
  PROVE  NoOrphanAttempt'
<1>. SUFFICES ASSUME NEW i \in DOMAIN execs', execs'[i].status = "RUNNING"
              PROVE  \E d \in Drivers : ctx'[d].row = i /\ ctx'[d].pc \in AtWork
  BY DEF NoOrphanAttempt, AtWork
<1>1. ASSUME i \in DOMAIN execs, execs[i].status = "RUNNING", NEW d \in Drivers
      PROVE  ctx[d].row = i /\ ctx[d].pc \in AtWork
  BY <1>1 DEF NoOrphanAttempt, OneDriver, AtWork
<1>2. PICK d \in Drivers : TRUE
  BY GuardAssumption
<1>3. CASE DispatchInsert(d)
  <2>1. ctx[d].pc = "insert"
    BY <1>3 DEF DispatchInsert, At
  <2>2. PICK new : /\ new = Len(execs) + 1
                   /\ DOMAIN execs' = DOMAIN execs \cup {new}
                   /\ \A k \in DOMAIN execs : execs'[k] = execs[k]
    BY <1>3, InsertedRow DEF Adds
  <2>3. i = new
    BY <1>1, <2>1, <2>2 DEF AtWork
  <2>4. ctx'[d].row = Len(execs) + 1 /\ ctx'[d].pc \in {"enter", "turn"}
    BY <1>3, DispatchMoves DEF Moves
  <2>. QED  BY <2>2, <2>3, <2>4 DEF AtWork
<1>4. CASE Step(d) /\ ~DispatchInsert(d)
  <2>1. i \in DOMAIN execs /\ execs[i].status = "RUNNING"
    BY <1>4, RunningRows
  <2>2. ctx[d].row = i /\ ctx[d].pc \in AtWork
    BY <1>1, <2>1
  <2>3. ASSUME NEW s \in {"SUCCEEDED", "FAILED"}, NEW t, Marks(i, s, t)
        PROVE  FALSE
    BY <2>3, MarkedRow
  <2>. QED  BY <1>4, <2>2, <2>3, AtWorkStep
<1>5. CASE UNCHANGED <<execs, ctx>>
  BY <1>1, <1>2, <1>5
<1>. QED  BY <1>3, <1>4, <1>5, OneSteps

\* A completed run has nothing pending, no join holds arrivals, and its driver
\* has at most the handoff left to do.
DoneInv ==
    status = "COMPLETED" =>
        /\ ~PendingHitl /\ ~Unconsumed
        /\ \A d \in Drivers : ctx[d].pc \in {"idle", "deliver"}

LEMMA DoneStep ==
  ASSUME OneDriver, IInv, DrainInv, DoneInv, [Next]_vars
  PROVE  DoneInv'
<1>. SUFFICES ASSUME status' = "COMPLETED" PROVE DoneInv'
  BY DEF DoneInv
<1>1. CASE \E d \in Drivers : WriteVerdict(d)
  <2>1. PICK d \in Drivers : WriteVerdict(d)
    BY <1>1
  <2>2. ~PendingHitl /\ ~Unconsumed
    BY <2>1 DEF WriteVerdict, At, DrainInv, DrainOK
  <2>3. UNCHANGED <<hitl, arrivals>>
    BY <2>1 DEF WriteVerdict
  <2>4. ctx'[d].pc \in {"idle", "deliver"}
    BY <2>1, FinishMoves DEF Moves
  <2>5. \A e \in Drivers : e = d
    BY DEF OneDriver
  <2>. QED  BY <2>2, <2>3, <2>4, <2>5 DEF DoneInv, PendingHitl, Unconsumed
<1>2. CASE status = "COMPLETED"
  <2>1. /\ ~PendingHitl /\ ~Unconsumed
        /\ \A d \in Drivers : ctx[d].pc \in {"idle", "deliver"}
    BY <1>2 DEF DoneInv
  <2>2. ASSUME NEW d \in Drivers, Step(d)
        PROVE  UNCHANGED <<hitl, arrivals>> /\ ctx'[d].pc = "idle"
    <3>1. ~Start(d) /\ ~ResumeBegin(d) /\ ~Resume(d)
      BY <1>2, <2>1 DEF Start, ResumeBegin, PendingHitl, Resume, ResumePrepareFails,
         ResumeAnswer, At
    <3>2. ~Dispatch(d)
      BY <2>1 DEF Dispatch, DispatchRefused, DispatchBegin, DispatchInsert, DispatchCollides,
         OnEnter, OnEnterRaises, TurnReturns, TurnCommits, TurnRejected, TurnFails,
         TurnTransient, BackoffEnds, At
    <3>3. ~Route(d)
      BY <2>1 DEF Route, RouteConditional, RaiseHitl, RouteDefault, RouteFailsFast, Terminate,
         RouteRaises, FireTarget, At
    <3>4. ~Finish(d) \/ Deliver(d)
      BY <2>1 DEF Finish, FlushBegin, FlushJoin, DrainEnds, FinalizePaused, WriteStatus,
         FinalizeAgain, Judge, WriteVerdict, WriteVerdictFaults, At
    <3>5. Deliver(d) \/ Crash(d)
      BY <2>2, <3>1, <3>2, <3>3, <3>4 DEF Step, Advance
    <3>. QED  BY <3>5, BeginMoves, FinishMoves DEF Deliver, Crash, Moves
  <2>3. ASSUME NEW d \in Drivers
        PROVE  UNCHANGED <<hitl, arrivals>> /\ ctx'[d].pc \in {"idle", "deliver"}
    BY <2>1, <2>2, OneSteps
  <2>4. Drivers # {}
    BY GuardAssumption
  <2>. QED  BY <2>1, <2>3, <2>4 DEF DoneInv, PendingHitl, Unconsumed
<1>3. ASSUME NEW d \in Drivers, WriteStatus(d)
      PROVE  status = "COMPLETED"
  <2>1. ctx[d].write \notin Terminal
    BY DEF IInv, ContextsOK, Usable
  <2>. QED  BY <1>3, <2>1 DEF WriteStatus, StatusIfActive, Terminal
<1>4. ASSUME NEW d \in Drivers, WriteVerdictFaults(d)
      PROVE  status = "COMPLETED"
  BY <1>4 DEF WriteVerdictFaults, StatusIfActive
<1>. QED  BY <1>1, <1>2, <1>3, <1>4, StatusWrites

LEMMA DoneInductive == OneDriver => (Spec => []DoneInv)
<1>. SUFFICES ASSUME OneDriver PROVE Spec => []DoneInv
  OBVIOUS
<1>1. Init => DoneInv
  BY DEF Init, DoneInv
<1>2. IInv /\ DrainInv /\ DoneInv /\ [Next]_vars => DoneInv'
  BY DoneStep
<1>. QED  BY <1>1, <1>2, Inductive, DrainInductive, PTL DEF Spec

\* What an undisturbed driver leaves behind can be told from the database: a
\* COMPLETED run has no request, attempt, dispatch or join left, no attempt is
\* left RUNNING, and no drain ends without something to report.
THEOREM NothingIsLeft == OneDriver /\ Undisturbed => (Spec => []NothingLeft)
<1>. SUFFICES ASSUME OneDriver, Undisturbed PROVE Spec => []NothingLeft
  OBVIOUS
<1>1. Init => NoOrphanAttempt
  BY DEF Init, NoOrphanAttempt
<1>2. IInv /\ RowsInv /\ FreshInv /\ NoOrphanAttempt /\ [Next]_vars => NoOrphanAttempt'
  BY OrphanStep
<1>3. ASSUME DrainInv, DoneInv, NoOrphanAttempt
      PROVE  NothingLeft
  <2>1. CompletedIsQuiet
    <3>1. ASSUME status = "COMPLETED", NEW i \in DOMAIN execs
          PROVE  execs[i].status # "RUNNING"
      BY <1>3, <3>1 DEF NoOrphanAttempt, DoneInv
    <3>2. ASSUME status = "COMPLETED", NEW d \in Drivers
          PROVE  ctx[d].queue = <<>>
      BY <1>3, <3>2 DEF DoneInv, DrainInv, DrainOK
    <3>. QED  BY <1>3, <3>1, <3>2 DEF CompletedIsQuiet, DoneInv, Unconsumed
  <2>2. NoSilentEnd
    BY <1>3 DEF NoSilentEnd, At, DrainInv, DrainOK
  <2>. QED  BY <1>3, <2>1, <2>2 DEF NothingLeft
<1>. QED  BY <1>1, <1>2, <1>3, Inductive, RowsInductive, FreshInductive, DrainInductive,
          DoneInductive, PTL DEF Spec

-----------------------------------------------------------------------------
(* The run at rest.                                                         *)

\* The run is over or has not begun, or it waits for a request that can be answered.
Resolved ==
    \/ status \in {"NONE"} \cup Terminal
    \/ status = "WAITING_HUMAN" /\ PendingHitl

RestOK(d) ==
    /\ ctx[d].pc \in {"idle", "prepare"} => Resolved
    /\ ctx[d].pc = "deliver" => status \in Terminal

RestInv == \A d \in Drivers : RestOK(d)

\* None of the exceptions that leave a driver unhandled is raised.
LEMMA NothingRaised ==
  ASSUME OneDriver, Undisturbed, ~DbFaults, IInv, RowsInv, NEW d \in Drivers
  PROVE  /\ ~DispatchCollides(d) /\ ~OnEnterRaises(d) /\ ~RouteRaises(d)
         /\ ~WriteVerdictFaults(d) /\ ~Crash(d)
<1>1. ~Contended(d)
  BY DEF Contended, OneDriver
<1>2. ASSUME DispatchCollides(d)
      PROVE  FALSE
  <2>1. ctx[d].row = Len(execs)
    BY <1>2 DEF DispatchCollides, At, RowsInv, RowOK
  <2>2. PICK i \in DOMAIN execs : i > Len(execs)
    BY <1>2, <2>1 DEF DispatchCollides, AttemptTaken, Rows
  <2>. QED  BY <2>2 DEF IInv, TypeOK
<1>3. ~Crash(d)
  BY DEF Crash, Undisturbed, IInv, TypeOK
<1>. QED  BY <1>1, <1>2, <1>3 DEF Undisturbed, OnEnterRaises, RouteRaises, WriteVerdictFaults

LEMMA RestFinishes ==
  ASSUME ~DbFaults, IInv, DrainInv, RestInv, NEW d \in Drivers, Finish(d), ~WriteVerdictFaults(d)
  PROVE  RestOK(d)'
<1>1. CASE FlushBegin(d) \/ FlushJoin(d) \/ DrainEnds(d) \/ FinalizePaused(d) \/ Judge(d)
  BY <1>1, FinishMoves DEF Moves, RestOK
<1>2. CASE WriteStatus(d)
  <2>1. ctx[d].write = "WAITING_HUMAN" /\ PendingHitl
    BY <1>2 DEF WriteStatus, At, DrainInv, DrainOK
  <2>2. status' = StatusIfActive("WAITING_HUMAN") /\ hitl' = hitl
    BY <1>2, <2>1 DEF WriteStatus
  <2>3. Resolved'
    BY <2>1, <2>2 DEF StatusIfActive, Resolved, PendingHitl
  <2>4. ctx'[d].pc = "idle"
    BY <1>2, FinishMoves DEF Moves
  <2>. QED  BY <2>3, <2>4 DEF RestOK
<1>3. CASE FinalizeAgain(d) \/ WriteVerdict(d) \/ Deliver(d)
  <2>1. status' \in Terminal
    BY <1>3 DEF FinalizeAgain, WriteVerdict, Deliver, At, RestInv, RestOK, StatusIfActive,
       Verdicts, Terminal
  <2>. QED  BY <2>1 DEF RestOK, Resolved
<1>. QED  BY <1>1, <1>2, <1>3 DEF Finish

LEMMA RestStep ==
  ASSUME OneDriver, Undisturbed, ~DbFaults, IInv, RowsInv, DrainInv, RestInv, [Next]_vars
  PROVE  RestInv'
<1>1. ASSUME NEW d \in Drivers, Step(d)
      PROVE  RestOK(d)'
  <2>0. /\ ~DispatchCollides(d) /\ ~OnEnterRaises(d) /\ ~RouteRaises(d)
        /\ ~WriteVerdictFaults(d) /\ ~Crash(d)
    BY NothingRaised
  <2>1. CASE Start(d)
    BY <2>1, BeginMoves DEF Moves, RestOK
  <2>2. CASE ResumeBegin(d) \/ Resume(d)
    <3>1. CASE ResumeBegin(d) \/ ResumePrepareFails(d)
      <4>1. Resolved /\ status' = status /\ hitl' = hitl
        BY <3>1 DEF ResumeBegin, ResumePrepareFails, At, RestInv, RestOK
      <4>2. ctx'[d].pc \in {"idle", "prepare"}
        BY <3>1, BeginMoves DEF Moves
      <4>. QED  BY <4>1, <4>2 DEF RestOK, Resolved, PendingHitl
    <3>2. CASE ResumeAnswer(d)
      BY <3>2, BeginMoves DEF Moves, RestOK
    <3>. QED  BY <2>2, <3>1, <3>2 DEF Resume
  <2>3. CASE DispatchRefused(d) \/ TurnRejected(d) \/ TurnFails(d) \/ RouteFailsFast(d)
    <3>1. status' = "FAILED"
      BY <2>3 DEF DispatchRefused, TurnRejected, TurnFails, RouteFailsFast, FailRun
    <3>. QED  BY <3>1 DEF RestOK, Resolved, Terminal
  <2>4. CASE Dispatch(d)
    <3>1. \/ DispatchRefused(d) \/ TurnRejected(d) \/ TurnFails(d)
          \/ ctx'[d].pc \notin {"idle", "prepare", "deliver"}
      BY <2>0, <2>4, DispatchMoves DEF Dispatch, Moves
    <3>. QED  BY <2>3, <3>1 DEF RestOK
  <2>5. CASE Route(d)
    <3>1. RouteFailsFast(d) \/ ctx'[d].pc \in {"fire", "drain"}
      <4>1. CASE RouteConditional(d) \/ RouteDefault(d)
        BY <4>1, RouteMoves DEF RouteConditional, RouteDefault, Moves
      <4>2. CASE FireTarget(d)
        BY <4>2, FireMoves DEF Moves
      <4>. QED  BY <2>0, <2>5, <4>1, <4>2, RouteMoves DEF Route, Moves
    <3>. QED  BY <2>3, <3>1 DEF RestOK
  <2>6. CASE Finish(d)
    BY <2>0, <2>6, RestFinishes
  <2>. QED  BY <1>1, <2>0, <2>1, <2>2, <2>4, <2>5, <2>6 DEF Step, Advance
<1>2. CASE CancelWrite
  BY <1>2 DEF CancelWrite, RestInv, RestOK, Resolved, Terminal
<1>3. CASE UNCHANGED <<status, hitl, ctx>>
  BY <1>3 DEF RestInv, RestOK, Resolved, PendingHitl
<1>4. CASE \E d \in Drivers : Step(d)
  <2>1. PICK d \in Drivers : RestOK(d)'
    BY <1>1, <1>4
  <2>. QED  BY <2>1 DEF RestInv, OneDriver
<1>. QED  BY <1>2, <1>3, <1>4 DEF Next, Step, CancelScan, vars

\* When the driver of an undisturbed run whose status writes do not fail is
\* done, the run's owner can act on its status: it is over, or it waits for a
\* request that can still be answered.
THEOREM RestIsResolved ==
  OneDriver /\ Undisturbed /\ ~DbFaults => (Spec => []AtRestResolved)
<1>. SUFFICES ASSUME OneDriver, Undisturbed, ~DbFaults PROVE Spec => []AtRestResolved
  OBVIOUS
<1>1. Init => RestInv
  BY DEF Init, RestInv, RestOK, Resolved, Idle
<1>2. IInv /\ RowsInv /\ DrainInv /\ RestInv /\ [Next]_vars => RestInv'
  BY RestStep
<1>3. RestInv => AtRestResolved
  BY GuardAssumption DEF RestInv, RestOK, AtRestResolved, AllIdle, At, Resolved
<1>. QED  BY <1>1, <1>2, <1>3, Inductive, RowsInductive, DrainInductive, PTL DEF Spec

-----------------------------------------------------------------------------
(* The logical visits.                                                      *)

\* No dispatch of a node begins while a request of that node is pending: what
\* the code takes for granted when it looks at the latest attempt only.  (A
\* graph that routes to a node twice breaks it: EngineDiamond.)
Unasked ==
    \A d \in Drivers : At(d, "insert") =>
        \A h \in DOMAIN hitl :
            hitl[h].status = "PENDING" => hitl[h].node # Head(ctx[d].queue).node

\* A dispatch of n would continue visit v.
Continues(n, v) ==
    \E i \in DOMAIN execs :
        IsLatest(i, n) /\ execs[i].status \in {"FAILED", "WAITING_HUMAN"} /\ execs[i].visit = v

Entries(queue) == \A i \in DOMAIN queue : queue[i].want = 0

\* Only the dispatch that is next can be a retry or a resume, and the visit it
\* belongs to is then the one that the code will find.
QueueOK(d) ==
    \/ Entries(ctx[d].queue)
    \/ /\ ctx[d].pc \in {"drain", "insert"}
       /\ ctx[d].queue # <<>>
       /\ Entries(Tail(ctx[d].queue))
       /\ Continues(Head(ctx[d].queue).node, Head(ctx[d].queue).want)

\* The request is pending as long as it is prepared for; the visit that was
\* read is still what the rows say.
VisitOK(d) ==
    /\ ctx[d].pc = "prepare" => hitl[ctx[d].req].status = "PENDING"
    /\ ctx[d].pc = "insert" => ctx[d].visit = VisitForDispatch(Head(ctx[d].queue).node)
    /\ QueueOK(d)

\* A pending request is that of the latest visit of its node.
AskedInv ==
    \A h \in DOMAIN hitl :
        hitl[h].status = "PENDING" => Continues(hitl[h].node, hitl[h].visit)

VisitInv == VisitIdentity /\ AskedInv /\ \A d \in Drivers : VisitOK(d)

LEMMA VisitFound ==
  ASSUME TypeOK, NEW n, NEW v, Continues(n, v)
  PROVE  VisitForDispatch(n) = v
<1>1. PICK i \in DOMAIN execs :
        IsLatest(i, n) /\ execs[i].status \in {"FAILED", "WAITING_HUMAN"} /\ execs[i].visit = v
  BY DEF Continues
<1>2. PICK k : k = CHOOSE j \in DOMAIN execs : IsLatest(j, n)
  OBVIOUS
<1>3. IsLatest(k, n)
  BY <1>1, <1>2
<1>4. k = i
  BY <1>1, <1>3, LatestUnique
<1>. QED  BY <1>1, <1>2, <1>4 DEF VisitForDispatch

\* Only a dispatch of the node itself, or its success, ends what a dispatch of
\* it would continue; and a node whose attempt succeeds had nothing to continue.
LEMMA ContinuesKept ==
  ASSUME IInv, RowsInv, NEW d \in Drivers, Step(d), NEW n, NEW v, Continues(n, v),
         DispatchInsert(d) => Head(ctx[d].queue).node # n
  PROVE  Continues(n, v)'
<1>1. PICK i \in DOMAIN execs :
        IsLatest(i, n) /\ execs[i].status \in {"FAILED", "WAITING_HUMAN"} /\ execs[i].visit = v
  BY DEF Continues
<1>2. CASE execs' = execs
  BY <1>1, <1>2 DEF Continues, IsLatest, Rows
<1>3. ASSUME NEW k, NEW s, NEW t, Marks(k, s, t), s \in {"FAILED", "WAITING_HUMAN"} \/ k # i
      PROVE  Continues(n, v)'
  <2>1. i \in DOMAIN execs' /\ IsLatest(i, n)' /\ execs'[i].visit = v
    <3>1. i \in DOMAIN execs'
      BY <1>3 DEF Marks
    <3>2. IsLatest(i, n)' /\ execs'[i].visit = v
      BY <1>1, <1>3, MarkedRow
    <3>. QED  BY <3>1, <3>2
  <2>2. CASE k = i
    <3>1. execs'[i].status = s
      BY <1>3, <2>2, MarkedRow
    <3>. QED  BY <1>3, <2>1, <2>2, <3>1 DEF Continues
  <2>3. CASE k # i
    <3>1. execs'[i].status = execs[i].status
      BY <1>3, <2>3 DEF Marks
    <3>. QED  BY <1>1, <2>1, <3>1 DEF Continues
  <2>. QED  BY <2>2, <2>3
<1>4. CASE DispatchInsert(d)
  <2>1. PICK new \in Nat, item \in QueueItem :
          /\ new = Len(execs) + 1 /\ item = Head(ctx[d].queue)
          /\ \E visit : Adds(new, item, visit)
    BY <1>4, InsertedRow
  <2>2. n # item.node
    BY <1>4, <2>1
  <2>3. IsLatest(i, n)'
    BY <1>1, <2>1, <2>2, AddedRow
  <2>4. i \in DOMAIN execs' /\ execs'[i] = execs[i]
    BY <2>1 DEF Adds
  <2>. QED  BY <1>1, <2>3, <2>4 DEF Continues
<1>5. CASE TurnCommits(d)
  <2>1. execs[ctx[d].row].status = "RUNNING"
    BY <1>5 DEF TurnCommits, At, RowsInv, RowOK, AtWork, Row
  <2>2. ctx[d].row # i
    BY <1>1, <2>1
  <2>. QED  BY <1>3, <1>5, <2>2, RowMarks
<1>6. CASE TurnRejected(d) \/ RaiseHitl(d)
  BY <1>3, <1>6, RowMarks
<1>7. CASE \E k : IsLatest(k, execs[k].node) /\ Marks(k, "FAILED", execs[k].tokens)
  BY <1>3, <1>7
<1>. QED  BY <1>2, <1>4, <1>5, <1>6, <1>7, RowWrites

\* The request that a prepared driver holds is answered by nobody else.
LEMMA RequestStep ==
  ASSUME OneDriver, IInv, VisitInv, [Next]_vars, NEW d \in Drivers, ctx'[d].pc = "prepare"
  PROVE  hitl'[ctx'[d].req].status = "PENDING"
<1>1. CASE ResumeBegin(d)
  <2>1. hitl' = hitl
    BY <1>1 DEF ResumeBegin
  <2>. QED  BY <1>1, <2>1, BeginMoves
<1>2. CASE UNCHANGED <<hitl, ctx>>
  BY <1>2 DEF VisitInv, VisitOK
<1>3. ASSUME Step(d)
      PROVE  ResumeBegin(d)
  <2>1. ~Start(d) /\ ~Resume(d) /\ ~Crash(d)
    BY BeginMoves DEF Resume, Moves
  <2>2. ~Dispatch(d)
    BY DispatchMoves DEF Dispatch, Moves
  <2>3. ~Route(d)
    <3>1. ~RouteConditional(d) /\ ~RouteDefault(d)
      BY RouteMoves DEF RouteConditional, RouteDefault, Moves
    <3>2. ~FireTarget(d)
      BY FireMoves DEF Moves
    <3>. QED  BY <3>1, <3>2, RouteMoves DEF Route, Moves
  <2>4. ~Finish(d)
    BY FinishMoves DEF Finish, Moves
  <2>. QED  BY <1>3, <2>1, <2>2, <2>3, <2>4 DEF Step, Advance
<1>. QED  BY <1>1, <1>2, <1>3, OneSteps

\* The visit is read where it is used: nothing is written in between.
LEMMA VisitReadStep ==
  ASSUME OneDriver, IInv, VisitInv, [Next]_vars, NEW d \in Drivers, ctx'[d].pc = "insert"
  PROVE  ctx'[d].visit = VisitForDispatch(Head(ctx[d].queue).node)'
<1>1. \A n : execs' = execs => VisitForDispatch(n)' = VisitForDispatch(n)
  BY DEF VisitForDispatch, IsLatest, Rows
<1>2. PICK n : n = Head(ctx[d].queue).node
  OBVIOUS
<1>3. CASE DispatchBegin(d)
  <2>1. ctx'[d].queue = ctx[d].queue /\ execs' = execs /\ ctx'[d].visit = VisitForDispatch(n)
    BY <1>2, <1>3, DispatchMoves DEF DispatchBegin, Moves
  <2>. QED  BY <1>1, <1>2, <2>1
<1>4. CASE UNCHANGED <<execs, hitl, ctx>>
  <2>1. ctx[d].visit = VisitForDispatch(n)
    BY <1>2, <1>4 DEF VisitInv, VisitOK
  <2>. QED  BY <1>1, <1>2, <1>4, <2>1
<1>. QED  BY <1>3, <1>4, InsertComes

\* A dispatch that is not next is a graph entry.
LEMMA EntriesAppend ==
  ASSUME NEW queue \in Seq(QueueItem), Entries(queue), NEW n \in Nodes
  PROVE  Entries(Append(queue, [node |-> n, want |-> 0]))
<1>. DEFINE item == [node |-> n, want |-> 0]
<1>1. item \in QueueItem /\ item.want = 0
  BY DEF QueueItem
<1>. HIDE DEF item
<1>2. \A i \in DOMAIN Append(queue, item) :
        Append(queue, item)[i] = item \/ (i \in DOMAIN queue /\ Append(queue, item)[i] = queue[i])
  BY <1>1
<1>. QED  BY <1>1, <1>2 DEF Entries, item

LEMMA EntriesTail ==
  ASSUME NEW queue \in Seq(QueueItem), queue # <<>>, Entries(queue)
  PROVE  Entries(Tail(queue))
<1>1. \A i \in DOMAIN Tail(queue) : i + 1 \in DOMAIN queue /\ Tail(queue)[i] = queue[i + 1]
  OBVIOUS
<1>. QED  BY <1>1 DEF Entries

LEMMA EntriesRetry ==
  ASSUME NEW queue \in Seq(QueueItem), Entries(queue), NEW item \in QueueItem
  PROVE  /\ <<item>> \o queue # <<>>
         /\ Head(<<item>> \o queue) = item
         /\ Entries(Tail(<<item>> \o queue))
<1>. DEFINE s == <<item>> \o queue
<1>1. <<item>> \in Seq(QueueItem) /\ Len(<<item>>) = 1 /\ <<item>>[1] = item
  OBVIOUS
<1>2. /\ s \in Seq(QueueItem) /\ Len(s) = 1 + Len(queue) /\ s[1] = item
      /\ \A i \in DOMAIN queue : s[i + 1] = queue[i]
  BY <1>1
<1>. HIDE DEF s
<1>3. s # <<>> /\ Head(s) = item
  BY <1>2
<1>4. \A i \in DOMAIN Tail(s) : i \in DOMAIN queue /\ Tail(s)[i] = s[i + 1]
  BY <1>2, <1>3
<1>5. Entries(Tail(s))
  BY <1>2, <1>4 DEF Entries
<1>. QED  BY <1>3, <1>5 DEF s

\* The attempt of a driver that retries is the latest of its node, and FAILED.
LEMMA RetryContinues ==
  ASSUME IInv, RowsInv, NEW d \in Drivers, TurnTransient(d) \/ BackoffEnds(d)
  PROVE  \E n \in Nodes, v \in Nat : n = Node(d) /\ v = Row(d).visit /\ Continues(n, v)'
<1>1. ctx[d].pc \in {"turn", "backoff"}
  BY DEF TurnTransient, BackoffEnds, At
<1>2. PICK i, n, v : i = ctx[d].row /\ n = Node(d) /\ v = Row(d).visit
  OBVIOUS
<1>3. i \in DOMAIN execs /\ IsLatest(i, n) /\ execs[i].visit = v /\ n \in Nodes /\ v \in Nat
  BY <1>1, <1>2, NodeOfRow DEF RowsInv, RowOK, Dispatched, AtWork, Row, ExecRow
<1>4. CASE TurnTransient(d)
  <2>1. PICK t : Marks(i, "FAILED", t)
    BY <1>2, <1>4, RowMarks
  <2>2. IsLatest(i, n)' /\ execs'[i].status = "FAILED" /\ execs'[i].visit = v
    BY <1>3, <2>1, MarkedRow
  <2>3. i \in DOMAIN execs'
    BY <2>1 DEF Marks
  <2>4. Continues(n, v)'
    BY <2>2, <2>3 DEF Continues
  <2>. QED  BY <1>2, <1>3, <2>4
<1>5. CASE BackoffEnds(d)
  <2>1. execs' = execs /\ execs[i].status = "FAILED"
    BY <1>2, <1>5 DEF BackoffEnds, At, RowsInv, RowOK, Row
  <2>2. Continues(n, v)'
    BY <1>3, <2>1 DEF Continues, IsLatest, Rows
  <2>. QED  BY <1>2, <1>3, <2>2
<1>. QED  BY <1>4, <1>5

LEMMA RetryQueueOK ==
  ASSUME IInv, RowsInv, NEW d \in Drivers, TurnTransient(d) \/ BackoffEnds(d),
         Entries(ctx[d].queue), ctx'[d].pc = "drain", ctx'[d].queue = Retry(d)
  PROVE  QueueOK(d)'
<1>1. PICK n \in Nodes, v \in Nat : n = Node(d) /\ v = Row(d).visit /\ Continues(n, v)'
  BY RetryContinues
<1>2. PICK item \in QueueItem : item = [node |-> n, want |-> v]
  BY DEF QueueItem
<1>3. ctx'[d].queue = <<item>> \o ctx[d].queue
  BY <1>1, <1>2 DEF Retry
<1>4. ctx[d].queue \in Seq(QueueItem)
  BY DEF IInv, TypeOK, Context
<1>5. ctx'[d].queue # <<>> /\ Head(ctx'[d].queue) = item /\ Entries(Tail(ctx'[d].queue))
  BY <1>3, <1>4, EntriesRetry
<1>6. Continues(item.node, item.want)'
  BY <1>1, <1>2
<1>7. Head(ctx'[d].queue).node = item.node /\ Head(ctx'[d].queue).want = item.want
  BY <1>5
<1>8. Continues(Head(ctx[d].queue).node, Head(ctx[d].queue).want)'
  BY <1>6, <1>7 DEF Continues, IsLatest, Rows
<1>9. Entries(Tail(ctx[d].queue))'
  BY <1>5 DEF Entries
<1>. QED  BY <1>5, <1>8, <1>9 DEF QueueOK

LEMMA QueueFree ==
  ASSUME NEW d \in Drivers, Entries(ctx'[d].queue)
  PROVE  QueueOK(d)'
  BY DEF QueueOK, Entries

LEMMA EntriesNone == Entries(<<>>)
  BY DEF Entries

LEMMA QueueBegins ==
  ASSUME IInv, VisitInv, NEW d \in Drivers, Start(d) \/ ResumeBegin(d) \/ Resume(d) \/ Crash(d)
  PROVE  QueueOK(d)'
<1>1. CASE Start(d)
  <2>1. ctx'[d].queue = <<[node |-> Entry, want |-> 0]>>
    BY <1>1, BeginMoves DEF Moves
  <2>. QED  BY <2>1, QueueFree DEF Entries
<1>2. CASE ResumeBegin(d) \/ ResumePrepareFails(d) \/ Crash(d)
  BY <1>2, BeginMoves, QueueFree, EntriesNone DEF Moves
<1>3. CASE ResumeAnswer(d)
  <2>1. PICK n, v, h : h = ctx[d].req /\ n = hitl[h].node /\ v = hitl[h].visit
    OBVIOUS
  <2>2. h \in DOMAIN hitl /\ hitl[h].status = "PENDING" /\ execs' = execs
    BY <1>3, <2>1 DEF ResumeAnswer, At, IInv, ContextsOK, Usable, VisitInv, VisitOK
  <2>3. Continues(n, v)
    BY <2>1, <2>2 DEF VisitInv, AskedInv
  <2>4. Continues(n, v)'
    BY <2>2, <2>3 DEF Continues, IsLatest, Rows
  <2>5. PICK item : item = [node |-> n, want |-> v]
    OBVIOUS
  <2>6. ctx'[d].pc = "drain" /\ ctx'[d].queue = <<item>>
    BY <1>3, <2>1, <2>5, BeginMoves DEF Moves
  <2>7. ctx'[d].queue # <<>> /\ Head(ctx'[d].queue) = item /\ Tail(ctx'[d].queue) = <<>>
    BY <2>6
  <2>8. Continues(Head(ctx[d].queue).node, Head(ctx[d].queue).want)'
    BY <2>4, <2>5, <2>7 DEF Continues, IsLatest, Rows
  <2>9. Entries(Tail(ctx[d].queue))'
    BY <2>7, EntriesNone DEF Entries
  <2>. QED  BY <2>6, <2>7, <2>8, <2>9 DEF QueueOK
<1>. QED  BY <1>1, <1>2, <1>3 DEF Resume

LEMMA QueueDispatches ==
  ASSUME IInv, RowsInv, VisitInv, NEW d \in Drivers, Dispatch(d)
  PROVE  QueueOK(d)'
<1>0. QueueOK(d) /\ ctx[d].queue \in Seq(QueueItem)
  BY DEF VisitInv, VisitOK, IInv, TypeOK, Context
<1>1. CASE DispatchBegin(d)
  <2>1. /\ execs' = execs /\ ctx'[d].pc = "insert" /\ ctx'[d].queue = ctx[d].queue
    BY <1>1, DispatchMoves DEF DispatchBegin, Moves
  <2>2. \A n, v : Continues(n, v)' <=> Continues(n, v)
    BY <2>1 DEF Continues, IsLatest, Rows
  <2>. QED  BY <1>0, <2>1, <2>2 DEF QueueOK, Entries
<1>2. CASE DispatchInsert(d)
  <2>1. ctx[d].queue # <<>> /\ ctx'[d].queue = Tail(ctx[d].queue)
    BY <1>2, InsertedRow, DispatchMoves DEF Moves
  <2>2. Entries(Tail(ctx[d].queue))
    BY <1>0, <2>1, EntriesTail DEF QueueOK
  <2>. QED  BY <2>1, <2>2, QueueFree
<1>3. ASSUME ctx[d].pc \notin {"drain", "insert"}
      PROVE  Entries(ctx[d].queue)
  BY <1>0, <1>3 DEF QueueOK
<1>4. CASE OnEnter(d) \/ TurnReturns(d) \/ TurnCommits(d)
  <2>1. Entries(ctx[d].queue)
    BY <1>3, <1>4 DEF OnEnter, TurnReturns, TurnCommits, At
  <2>. QED  BY <1>4, <2>1, DispatchMoves, QueueFree DEF Moves
<1>5. CASE TurnTransient(d) \/ BackoffEnds(d)
  <2>1. Entries(ctx[d].queue)
    BY <1>3, <1>5 DEF TurnTransient, BackoffEnds, At
  <2>2. \/ ctx'[d].pc = "drain" /\ ctx'[d].queue = Retry(d)
        \/ ctx'[d].queue = ctx[d].queue
    BY <1>5, DispatchMoves DEF Moves
  <2>. QED  BY <1>5, <2>1, <2>2, RetryQueueOK, QueueFree
<1>6. CASE \/ DispatchRefused(d) \/ DispatchCollides(d) \/ OnEnterRaises(d)
           \/ TurnRejected(d) \/ TurnFails(d)
  BY <1>6, DispatchMoves, QueueFree, EntriesNone DEF Moves
<1>. QED  BY <1>1, <1>2, <1>4, <1>5, <1>6 DEF Dispatch

LEMMA QueueRoutes ==
  ASSUME IInv, VisitInv, NEW d \in Drivers, Route(d)
  PROVE  QueueOK(d)'
<1>0. ctx[d].pc \in {"route", "fire"} /\ ctx[d].queue \in Seq(QueueItem)
  BY DEF Route, RouteConditional, RaiseHitl, RouteDefault, RouteFailsFast, Terminate, RouteRaises,
     FireTarget, At, IInv, TypeOK, Context
<1>1. Entries(ctx[d].queue)
  BY <1>0 DEF VisitInv, VisitOK, QueueOK
<1>2. CASE FireTarget(d)
  <2>1. PICK t : /\ t \in Targets
                 /\ ctx'[d].queue = IF Ready(d, t) THEN Append(ctx[d].queue, [node |-> t, want |-> 0])
                                    ELSE ctx[d].queue
    BY <1>2, FireMoves DEF Moves
  <2>2. Ready(d, t) => t \in Nodes
    BY JoinsAreNodes DEF Ready
  <2>. QED  BY <1>0, <1>1, <2>1, <2>2, EntriesAppend, QueueFree
<1>3. CASE RouteConditional(d) \/ RouteDefault(d)
  BY <1>1, <1>3, RouteMoves, QueueFree DEF RouteConditional, RouteDefault, Moves
<1>4. CASE RaiseHitl(d) \/ Terminate(d)
  BY <1>1, <1>4, RouteMoves, QueueFree DEF Moves
<1>5. CASE RouteFailsFast(d) \/ RouteRaises(d)
  BY <1>5, RouteMoves, QueueFree, EntriesNone DEF Moves
<1>. QED  BY <1>2, <1>3, <1>4, <1>5 DEF Route

LEMMA QueueFinishes ==
  ASSUME IInv, VisitInv, NEW d \in Drivers, Finish(d)
  PROVE  QueueOK(d)'
<1>1. CASE FlushBegin(d) \/ DrainEnds(d)
  <2>1. ctx'[d].queue = <<>>
    BY <1>1, FinishMoves DEF FlushBegin, DrainEnds, Moves
  <2>. QED  BY <2>1, QueueFree, EntriesNone
<1>2. CASE FlushJoin(d)
  <2>1. Entries(ctx[d].queue) /\ ctx[d].queue \in Seq(QueueItem)
    BY <1>2 DEF FlushJoin, At, VisitInv, VisitOK, QueueOK, IInv, TypeOK, Context
  <2>2. PICK j \in Nodes :
          ctx'[d].queue = IF Held(d, j) THEN Append(ctx[d].queue, [node |-> j, want |-> 0])
                          ELSE ctx[d].queue
    BY <1>2, FinishMoves, JoinsAreNodes DEF Moves
  <2>. QED  BY <2>1, <2>2, EntriesAppend, QueueFree
<1>3. CASE \/ FinalizePaused(d) \/ WriteStatus(d) \/ FinalizeAgain(d) \/ Judge(d)
           \/ WriteVerdict(d) \/ WriteVerdictFaults(d) \/ Deliver(d)
  BY <1>3, FinishMoves, QueueFree, EntriesNone DEF Moves
<1>. QED  BY <1>1, <1>2, <1>3 DEF Finish

\* A request is raised by a paused attempt, the latest of its node.
LEMMA RaisedContinues ==
  ASSUME IInv, RowsInv, NEW d \in Drivers, RaiseHitl(d)
  PROVE  \E request : /\ hitl' = Append(hitl, request)
                      /\ Continues(request.node, request.visit)'
<1>1. PICK i, n, v : i = ctx[d].row /\ n = Node(d) /\ v = Row(d).visit
  OBVIOUS
<1>2. i \in DOMAIN execs /\ IsLatest(i, n) /\ execs[i].visit = v
  BY <1>1, NodeOfRow DEF RaiseHitl, At, RowsInv, RowOK, Dispatched, Row
<1>3. PICK t : Marks(i, "WAITING_HUMAN", t)
  BY <1>1, RowMarks
<1>4. IsLatest(i, n)' /\ execs'[i].status = "WAITING_HUMAN" /\ execs'[i].visit = v
  BY <1>2, <1>3, MarkedRow
<1>5. i \in DOMAIN execs'
  BY <1>3 DEF Marks
<1>6. Continues(n, v)'
  BY <1>4, <1>5 DEF Continues
<1>7. PICK request : /\ request = [node |-> n, visit |-> v, answers |-> 0, status |-> "PENDING"]
                     /\ hitl' = Append(hitl, request)
  BY <1>1 DEF RaiseHitl
<1>8. request.node = n /\ request.visit = v
  BY <1>7
<1>. QED  BY <1>6, <1>7, <1>8

LEMMA AskedStep ==
  ASSUME IInv, RowsInv, VisitInv, Unasked, NEW d \in Drivers, Step(d)
  PROVE  AskedInv'
<1>1. ASSUME NEW h \in DOMAIN hitl, hitl[h].status = "PENDING",
             NEW n, NEW v, n = hitl[h].node, v = hitl[h].visit
      PROVE  Continues(n, v)'
  <2>1. Continues(n, v)
    BY <1>1 DEF VisitInv, AskedInv
  <2>2. DispatchInsert(d) => Head(ctx[d].queue).node # n
    BY <1>1 DEF Unasked, DispatchInsert
  <2>. QED  BY <2>1, <2>2, ContinuesKept
<1>. SUFFICES ASSUME NEW h \in DOMAIN hitl', NEW n, NEW v, hitl'[h].status = "PENDING",
                     n = hitl'[h].node, v = hitl'[h].visit
              PROVE  Continues(n, v)'
  BY DEF AskedInv, Continues, IsLatest, Rows
<1>2. CASE hitl' = hitl
  BY <1>1, <1>2
<1>3. CASE ResumeAnswer(d)
  <2>1. PICK r : r = ctx[d].req
    OBVIOUS
  <2>2. r \in DOMAIN hitl /\ hitl[r] \in HitlRow
    BY <1>3, <2>1 DEF ResumeAnswer, At, IInv, TypeOK, ContextsOK, Usable
  <2>3. hitl' = [hitl EXCEPT ![r] = Answered(hitl[r])]
    BY <1>3, <2>1 DEF ResumeAnswer
  <2>4. Answered(hitl[r]).status = "ANSWERED"
    BY <2>2 DEF Answered, HitlRow
  <2>5. h # r
    BY <2>2, <2>3, <2>4
  <2>6. h \in DOMAIN hitl /\ hitl'[h] = hitl[h]
    BY <2>3, <2>5
  <2>. QED  BY <1>1, <2>6
<1>4. CASE RaiseHitl(d)
  <2>1. PICK request : hitl' = Append(hitl, request) /\ Continues(request.node, request.visit)'
    BY <1>4, RaisedContinues
  <2>2. hitl \in Seq(HitlRow)
    BY DEF IInv, TypeOK
  <2>3. hitl'[h] = request \/ (h \in DOMAIN hitl /\ hitl'[h] = hitl[h])
    BY <2>1, <2>2
  <2>. QED  BY <1>1, <2>1, <2>3
<1>5. ResumeAnswer(d) \/ RaiseHitl(d) \/ hitl' = hitl
  <2>1. CASE Start(d) \/ ResumeBegin(d) \/ Resume(d) \/ Crash(d)
    BY <2>1 DEF Start, ResumeBegin, Resume, ResumePrepareFails, Crash
  <2>2. CASE Dispatch(d)
    BY <2>2 DEF Dispatch, DispatchRefused, DispatchBegin, DispatchInsert, DispatchCollides,
       OnEnter, OnEnterRaises, TurnReturns, TurnCommits, TurnRejected, TurnFails,
       TurnTransient, BackoffEnds, FailRun
  <2>3. CASE Route(d)
    BY <2>3 DEF Route, RouteConditional, RouteDefault, RouteFailsFast, Terminate, RouteRaises,
       FireTarget, FailRun
  <2>4. CASE Finish(d)
    BY <2>4 DEF Finish, FlushBegin, FlushJoin, DrainEnds, FinalizePaused, WriteStatus,
       FinalizeAgain, Judge, WriteVerdict, WriteVerdictFaults, Deliver
  <2>. QED  BY <2>1, <2>2, <2>3, <2>4 DEF Step, Advance
<1>. QED  BY <1>2, <1>3, <1>4, <1>5

LEMMA IdentityStep ==
  ASSUME IInv, RowsInv, VisitInv, NEW d \in Drivers, Step(d)
  PROVE  VisitIdentity'
<1>1. CASE execs' = execs
  BY <1>1 DEF VisitInv, VisitIdentity
<1>2. CASE \E k : \E s, t : Marks(k, s, t)
  <2>1. PICK k, s, t : Marks(k, s, t)
    BY <1>2
  <2>2. \A i \in DOMAIN execs : execs'[i].visit = execs[i].visit /\ execs'[i].want = execs[i].want
    BY <2>1, MarkedRow
  <2>3. DOMAIN execs' = DOMAIN execs
    BY <2>1 DEF Marks
  <2>. QED  BY <2>2, <2>3 DEF VisitInv, VisitIdentity
<1>3. CASE DispatchInsert(d)
  <2>1. PICK item, visit, new :
          /\ item = Head(ctx[d].queue)
          /\ visit = IF ctx[d].visit = 0 THEN Len(execs) + 1 ELSE ctx[d].visit
          /\ Adds(new, item, visit)
    BY <1>3, InsertedRow
  <2>2. ASSUME item.want # 0 PROVE visit = item.want
    <3>1. ~Entries(ctx[d].queue)
      <4>1. 1 \in DOMAIN ctx[d].queue /\ item = ctx[d].queue[1]
        BY <1>3, <2>1, InsertedRow
      <4>. QED  BY <2>2, <4>1 DEF Entries
    <3>2. Continues(item.node, item.want)
      BY <2>1, <3>1 DEF VisitInv, VisitOK, QueueOK
    <3>3. ctx[d].visit = VisitForDispatch(item.node)
      BY <1>3, <2>1 DEF DispatchInsert, At, VisitInv, VisitOK
    <3>4. ctx[d].visit = item.want
      BY <3>2, <3>3, VisitFound DEF IInv
    <3>. QED  BY <2>1, <2>2, <3>4
  <2>3. execs'[new].visit = visit /\ execs'[new].want = item.want
    BY <2>1 DEF Adds
  <2>. QED  BY <2>1, <2>2, <2>3 DEF Adds, VisitInv, VisitIdentity
<1>4. CASE TurnCommits(d) \/ TurnRejected(d) \/ RaiseHitl(d)
  BY <1>2, <1>4, RowMarks
<1>. QED  BY <1>1, <1>2, <1>3, <1>4, RowWrites

LEMMA VisitStep ==
  ASSUME OneDriver, IInv, RowsInv, VisitInv, Unasked, [Next]_vars
  PROVE  VisitInv'
<1>1. ASSUME NEW d \in Drivers, Step(d)
      PROVE  VisitInv'
  <2>1. VisitIdentity' /\ AskedInv'
    BY <1>1, IdentityStep, AskedStep
  <2>2. QueueOK(d)'
    BY <1>1, QueueBegins, QueueDispatches, QueueRoutes, QueueFinishes DEF Step, Advance
  <2>3. VisitOK(d)'
    BY <2>2, RequestStep, VisitReadStep DEF VisitOK
  <2>. QED  BY <2>1, <2>3 DEF VisitInv, OneDriver
<1>2. CASE UNCHANGED <<execs, hitl, ctx>>
  <2>1. VisitIdentity'
    BY <1>2 DEF VisitInv, VisitIdentity
  <2>2. AskedInv'
    BY <1>2 DEF VisitInv, AskedInv, Continues, IsLatest, Rows
  <2>3. ASSUME NEW d \in Drivers PROVE VisitOK(d)'
    <3>1. VisitOK(d)
      BY DEF VisitInv
    <3>2. QueueOK(d)'
      BY <1>2, <3>1 DEF VisitOK, QueueOK, Entries, Continues, IsLatest, Rows
    <3>3. ctx'[d].pc = "insert" => ctx'[d].visit = VisitForDispatch(Head(ctx[d].queue).node)'
      BY VisitReadStep
    <3>. QED  BY <1>2, <3>1, <3>2, <3>3 DEF VisitOK
  <2>. QED  BY <2>1, <2>2, <2>3 DEF VisitInv
<1>3. PICK d \in Drivers : TRUE
  BY GuardAssumption
<1>. QED  BY <1>1, <1>2, <1>3, OneSteps

\* As long as no node is dispatched while a request of it is pending, a retry
\* and a resume continue the logical visit they belong to, however many
\* dispatches of other nodes, crashes and failures lie between.
THEOREM VisitsContinue == OneDriver => (Spec /\ []Unasked => []VisitIdentity)
<1>. SUFFICES ASSUME OneDriver PROVE Spec /\ []Unasked => []VisitIdentity
  OBVIOUS
<1>1. Init => VisitInv
  BY EntriesNone DEF Init, VisitInv, VisitIdentity, AskedInv, VisitOK, QueueOK, Idle
<1>2. IInv /\ RowsInv /\ VisitInv /\ Unasked /\ [Next]_vars => VisitInv'
  BY VisitStep
<1>3. VisitInv => VisitIdentity
  BY DEF VisitInv
<1>. QED  BY <1>1, <1>2, <1>3, Inductive, RowsInductive, PTL DEF Spec
=============================================================================
