------------------------------- MODULE Engine -------------------------------
(***************************************************************************)
(* The run engine of src/ravana/engine/loop.py: one run of one compiled    *)
(* workflow graph, advanced by "drivers".  A driver is one call of         *)
(* start_run or resume_hitl; it owns an in-memory context (the dispatch    *)
(* queue and the terminal_reached flag of _RunCtx) and shares the run's    *)
(* database rows with every other driver, each being a process of its own. *)
(*                                                                         *)
(* One step is what a driver does between two points at which another      *)
(* process can see or change the database: an await, a commit, or a guard  *)
(* that is read before the transaction it guards begins (sqlite3 opens a   *)
(* transaction at the first write, so such a read can be stale).           *)
(*                                                                         *)
(* Data the control does not depend on is left out.  An agent's output, a  *)
(* condition's value and a DoD judgement are nondeterministic choices; the   *)
(* event log is represented by what the code derives from it (the fire     *)
(* counts and the join arrivals).                                          *)
(***************************************************************************)
EXTENDS Naturals, Sequences, FiniteSets, Functions

CONSTANTS
    Nodes,          \* the graph's node ids
    Entry,          \* the entry node
    End,            \* the target "__terminal__"
    Conditional,    \* node -> its non-default edges, by descending priority
    Default,        \* node -> the targets of its default edge, <<>> for none
    JoinOrder,      \* the join: all nodes, in the order of the graph's node list
    HitlNodes,      \* the nodes whose contract enables HITL
    EnterNodes,     \* the nodes with an on_enter mutation
    RaisingNodes,   \* the nodes whose on_enter or routing expressions may raise
    MaxTotalSteps, MaxRetries, LoopCap, MaxTokens,   \* graph.guards
    TurnTokens,     \* the token counts a turn may report
    HasDod,         \* whether the workflow has a definition_of_done
    Drivers,        \* the concurrent start_run / resume_hitl calls
    Cancelling,     \* whether a cancel_previous trigger may come
    MaxCrashes,     \* bound: the process crashes in a behaviour
    DbFaults        \* whether the writes of _write_final may fail

Targets == Nodes \cup {End}
Joins == {JoinOrder[i] : i \in DOMAIN JoinOrder}
Edge == [to : Seq(Targets) \ {<<>>}, cond : BOOLEAN]    \* cond: has a condition

ASSUME GraphAssumption ==
    /\ Entry \in Nodes
    /\ End \notin Nodes
    /\ Conditional \in [Nodes -> Seq(Edge)]
    /\ Default \in [Nodes -> Seq(Targets)]
    /\ JoinOrder \in Seq(Nodes) /\ IsInjective(JoinOrder)
    /\ HitlNodes \subseteq Nodes
    /\ EnterNodes \subseteq Nodes
    /\ RaisingNodes \subseteq Nodes

ASSUME GuardAssumption ==
    /\ MaxTotalSteps \in Nat
    /\ IsFiniteSet(Drivers) /\ Drivers # {}
    /\ MaxRetries \in Nat
    /\ DOMAIN LoopCap \subseteq Nodes \X Targets
    /\ \A p \in DOMAIN LoopCap : LoopCap[p] \in Nat
    /\ MaxTokens \in Nat
    /\ TurnTokens \subseteq Nat
    /\ HasDod \in BOOLEAN
    /\ Cancelling \in BOOLEAN
    /\ MaxCrashes \in Nat
    /\ DbFaults \in BOOLEAN

VARIABLES
    status,     \* run.status; "NONE" before the row exists
    execs,      \* node_execution rows, in insertion order
    hitl,       \* hitl_request rows, in insertion order
    fires,      \* ROUTE events per capped <<from, to>> pair
    arrivals,   \* per join: sources that ROUTEd to it since its last COMMIT
    dodLog,     \* the DOD_EVALUATED events, by the status each one led to
    handoffs,   \* how often hand_off_run delivered the workspace
    ctx,        \* the drivers' in-memory contexts
    cancel,     \* progress of the cancel_previous trigger
    crashes     \* crashes so far

vars == <<status, execs, hitl, fires, arrivals, dodLog, handoffs, ctx, cancel, crashes>>

Terminal == {"COMPLETED", "FAILED", "CANCELLED"}
Active == {"RUNNING", "WAITING_HUMAN"}
Verdicts == {"COMPLETED", "FAILED"}
Status == {"NONE"} \cup Active \cup Terminal

\* `want` is history: the logical visit this dispatch continues (a retry or a
\* HITL resume), 0 when the dispatch is a graph entry.
QueueItem == [node : Nodes, want : Nat]
ExecRow == [node : Nodes, visit : Nat, want : Nat, tokens : Nat,
            status : {"RUNNING", "SUCCEEDED", "FAILED", "WAITING_HUMAN"}]
\* `visit` and `answers` are history: the visit that raised the request, and
\* how many responders answered it.
HitlRow == [node : Nodes, visit : Nat, answers : Nat, status : {"PENDING", "ANSWERED"}]

PC == {"idle", "prepare", "drain", "insert", "enter", "turn", "commit", "backoff", "route",
       "fire", "flush", "finalize", "write", "judge", "deliver"}
Context == [pc : PC, queue : Seq(QueueItem), row : Nat, todo : Seq(Targets),
            streak : Nat, visit : Nat, tokens : Nat, term : BOOLEAN, req : Nat,
            write : Status]

Idle == [pc |-> "idle", queue |-> <<>>, row |-> 0, todo |-> <<>>,
         streak |-> 0, visit |-> 0, tokens |-> 0, term |-> FALSE, req |-> 0, write |-> "NONE"]

TypeOK ==
    /\ status \in Status
    /\ execs \in Seq(ExecRow)
    /\ hitl \in Seq(HitlRow)
    /\ fires \in [DOMAIN LoopCap -> Nat]
    /\ arrivals \in [Joins -> SUBSET Nodes]
    /\ dodLog \in Seq(Verdicts)
    /\ handoffs \in Nat
    /\ ctx \in [Drivers -> Context]
    /\ cancel \in {"off", "scanned", "done"}
    /\ crashes \in Nat

-----------------------------------------------------------------------------
(* What the code reads from the database.                                  *)

Rows(n) == {i \in DOMAIN execs : execs[i].node = n}

\* The row with the highest attempt number of a node.
IsLatest(i, n) == i \in Rows(n) /\ \A k \in Rows(n) : k <= i

ConsecutiveFailures(n) ==
    Cardinality({i \in Rows(n) : \A k \in Rows(n) : k >= i => execs[k].status = "FAILED"})

\* SUM(input_tokens + output_tokens), as the number of single tokens of all rows.
TokenUnits == UNION {{i} \X (1..execs[i].tokens) : i \in DOMAIN execs}
TotalTokens == Cardinality(TokenUnits)

\* Mutation: a HITL resume mints a visit of its own.
VisitIfFailed(n) ==
    IF \E i \in DOMAIN execs : IsLatest(i, n) /\ execs[i].status = "FAILED"
    THEN execs[CHOOSE i \in DOMAIN execs : IsLatest(i, n)].visit
    ELSE 0

\* Stable across retries and HITL resume: inherited from a latest row that
\* failed or waits.  0: minted, and named after the row that is inserted.
VisitForDispatch(n) ==
    IF \E i \in DOMAIN execs : IsLatest(i, n) /\ execs[i].status \in {"FAILED", "WAITING_HUMAN"}
    THEN execs[CHOOSE i \in DOMAIN execs : IsLatest(i, n)].visit
    ELSE 0

PendingHitl == \E i \in DOMAIN hitl : hitl[i].status = "PENDING"

Required(j) ==
    {n \in Nodes : \/ \E i \in DOMAIN Conditional[n] : j \in Range(Conditional[n][i].to)
                   \/ j \in Range(Default[n])}

Queued(d, n) == \E i \in DOMAIN ctx[d].queue : ctx[d].queue[i].node = n

\* Mutation: the cap is compared after the edge fired, not before.
LoopCappedLate(n, e) ==
    \E i \in DOMAIN e.to :
        /\ <<n, e.to[i]>> \in DOMAIN LoopCap
        /\ fires[<<n, e.to[i]>>] > LoopCap[<<n, e.to[i]>>]

LoopCapped(n, e) ==
    \E i \in DOMAIN e.to :
        /\ <<n, e.to[i]>> \in DOMAIN LoopCap
        /\ fires[<<n, e.to[i]>>] >= LoopCap[<<n, e.to[i]>>]

At(d, pc) == ctx[d].pc = pc

\* Another driver is at work: between a read of d and the write that relies on
\* it, it may commit the attempt number, event number or state version that d
\* is about to write.
Contended(d) == \E e \in Drivers \ {d} : ~At(e, "idle")
Row(d) == execs[ctx[d].row]
Node(d) == Row(d).node

-----------------------------------------------------------------------------
(* Updates that several actions share.                                     *)

Release(d) == ctx' = [ctx EXCEPT ![d] = Idle]

\* Mutation: the dispatched join's own entry is lost instead of emptied.
CommitDrops(n) == arrivals' = [j \in Joins \ {n} |-> arrivals[j]]

\* The part of a COMMIT event of node n that other code reads back: it
\* consumes the arrivals that led to the dispatch.
Commit(n) == arrivals' = [j \in Joins |-> IF j = n THEN {} ELSE arrivals[j]]

\* Mutation: the run fails and its attempt is left RUNNING.
AttemptKept(n) == execs

\* _fail_run marks the node's latest row, not a row of this dispatch, and the
\* run; its queue is cleared and the drain ends without another write.
Failed(n) ==
    [i \in DOMAIN execs |->
        IF IsLatest(i, n) THEN [execs[i] EXCEPT !.status = "FAILED"] ELSE execs[i]]

Rejected(n, t) ==
    [i \in DOMAIN execs |->
        IF IsLatest(i, n) THEN [execs[i] EXCEPT !.status = "FAILED", !.tokens = t] ELSE execs[i]]

FailRun(d, rows) ==
    /\ execs' = rows
    /\ status' = "FAILED"
    /\ Release(d)
    /\ UNCHANGED <<hitl, fires, arrivals, dodLog, handoffs, cancel, crashes>>

\* Mutation: the status is written by id alone.
StatusAlways(s) == s

\* _update_run_status_if_active: a terminal status is not overwritten.
StatusIfActive(s) == IF status \in Terminal THEN status ELSE s

Init ==
    /\ status = "NONE"
    /\ execs = <<>>
    /\ hitl = <<>>
    /\ fires = [p \in DOMAIN LoopCap |-> 0]
    /\ arrivals = [j \in Joins |-> {}]
    /\ dodLog = <<>>
    /\ handoffs = 0
    /\ ctx = [d \in Drivers |-> Idle]
    /\ cancel = "off"
    /\ crashes = 0

-----------------------------------------------------------------------------
(* start_run, resume_hitl and the trigger of another run.                   *)

\* start_run of the run this module follows: its row is RUNNING and the entry
\* node is queued.
Start(d) ==
    /\ status = "NONE"
    /\ status' = "RUNNING"
    /\ ctx' = [ctx EXCEPT ![d] = [Idle EXCEPT !.pc = "drain",
                                              !.queue = <<[node |-> Entry, want |-> 0]>>]]
    /\ UNCHANGED <<execs, hitl, fires, arrivals, dodLog, handoffs, cancel, crashes>>

\* resume_hitl up to its first await: only the request's status is checked.
ResumeBegin(d) ==
    /\ At(d, "idle")
    /\ \E h \in DOMAIN hitl :
        /\ hitl[h].status = "PENDING"
        /\ ctx' = [ctx EXCEPT ![d] = [Idle EXCEPT !.pc = "prepare", !.req = h]]
    /\ UNCHANGED <<status, execs, hitl, fires, arrivals, dodLog, handoffs, cancel, crashes>>

\* prepare_run raises: the request stays PENDING.
ResumePrepareFails(d) ==
    /\ At(d, "prepare")
    /\ Release(d)
    /\ UNCHANGED <<status, execs, hitl, fires, arrivals, dodLog, handoffs, cancel, crashes>>

Answered(request) == [request EXCEPT !.status = "ANSWERED", !.answers = @ + 1]

\* prepare_run returned: answer the request and dispatch its node afresh.
ResumeAnswer(d) ==
    /\ At(d, "prepare")
    /\ LET h == ctx[d].req IN
        /\ hitl' = [hitl EXCEPT ![h] = Answered(hitl[h])]
        /\ ctx' = [ctx EXCEPT ![d] =
               [Idle EXCEPT !.pc = "drain",
                            !.queue = <<[node |-> hitl[h].node, want |-> hitl[h].visit]>>]]
    /\ UNCHANGED <<status, execs, fires, arrivals, dodLog, handoffs, cancel, crashes>>

\* start_run of a later run of the same group, strategy cancel_previous: it
\* selects the active runs first and then updates them by id alone.
CancelScan ==
    /\ Cancelling
    /\ cancel = "off"
    /\ status \in Active
    /\ cancel' = "scanned"
    /\ UNCHANGED <<status, execs, hitl, fires, arrivals, dodLog, handoffs, ctx, crashes>>

CancelWrite ==
    /\ cancel = "scanned"
    /\ cancel' = "done"
    /\ status' = "CANCELLED"
    /\ UNCHANGED <<execs, hitl, fires, arrivals, dodLog, handoffs, ctx, crashes>>

-----------------------------------------------------------------------------
(* _dispatch: guards, the attempt's row, on_enter, the turn, the commit.    *)

Popped(d) == [ctx[d] EXCEPT !.queue = Tail(@)]

\* Mutations: one of the two budgets is not looked at.
RefusedBySteps(n) == Len(execs) >= MaxTotalSteps
RefusedByRetries(n) == ConsecutiveFailures(n) > MaxRetries

\* The retry budget of the node or the step budget of the run is spent.
Refused(n) ==
    \/ ConsecutiveFailures(n) > MaxRetries
    \/ Len(execs) >= MaxTotalSteps

DispatchRefused(d) ==
    /\ At(d, "drain")
    /\ ctx[d].queue # <<>>
    /\ Refused(Head(ctx[d].queue).node)
    /\ FailRun(d, Failed(Head(ctx[d].queue).node))

\* The guards, the attempt number and the visit are read ...
DispatchBegin(d) ==
    /\ At(d, "drain")
    /\ ctx[d].queue # <<>>
    /\ LET n == Head(ctx[d].queue).node IN
        /\ ~Refused(n)
        /\ ctx' = [ctx EXCEPT ![d] = [@ EXCEPT !.pc = "insert",
                                              !.row = Len(execs),
                                              !.visit = VisitForDispatch(n),
                                              !.streak = ConsecutiveFailures(n)]]
    /\ UNCHANGED <<status, execs, hitl, fires, arrivals, dodLog, handoffs, cancel, crashes>>

\* An attempt of n that was inserted since has the number d has read.
AttemptTaken(d) == \E i \in Rows(Head(ctx[d].queue).node) : i > ctx[d].row

\* ... and the attempt is inserted,
DispatchInsert(d) ==
    /\ At(d, "insert")
    /\ ~AttemptTaken(d)
    /\ LET item == Head(ctx[d].queue)
           n == item.node
           visit == IF ctx[d].visit = 0 THEN Len(execs) + 1 ELSE ctx[d].visit
       IN /\ execs' = Append(execs, [node |-> n, visit |-> visit, want |-> item.want,
                                     tokens |-> 0, status |-> "RUNNING"])
          /\ ctx' = [ctx EXCEPT ![d] =
                 [Popped(d) EXCEPT !.pc = IF n \in EnterNodes THEN "enter" ELSE "turn",
                                   !.row = Len(execs) + 1,
                                   !.visit = 0]]
    /\ UNCHANGED <<status, hitl, fires, arrivals, dodLog, handoffs, cancel, crashes>>

\* or violates UNIQUE (run_id, node_id, attempt): the exception leaves the
\* driver unhandled.
DispatchCollides(d) ==
    /\ At(d, "insert")
    /\ AttemptTaken(d)
    /\ Release(d)
    /\ UNCHANGED <<status, execs, hitl, fires, arrivals, dodLog, handoffs, cancel, crashes>>

\* on_enter's delta is committed before the turn, on every attempt.
OnEnter(d) ==
    /\ At(d, "enter")
    /\ Commit(Node(d))
    /\ ctx' = [ctx EXCEPT ![d] = [@ EXCEPT !.pc = "turn"]]
    /\ UNCHANGED <<status, execs, hitl, fires, dodLog, handoffs, cancel, crashes>>

\* apply_on_enter raises, or _commit_state loses its CAS to another driver,
\* outside _dispatch's try: the exception leaves the driver unhandled.
OnEnterRaises(d) ==
    /\ At(d, "enter")
    /\ Node(d) \in RaisingNodes \/ Contended(d)
    /\ Release(d)
    /\ UNCHANGED <<status, execs, hitl, fires, arrivals, dodLog, handoffs, cancel, crashes>>

\* Mutation: the turn that is to be recorded is not counted.
WithinCapBefore(t) == TotalTokens <= MaxTokens

WithinCap(t) == TotalTokens + t <= MaxTokens

\* The turn returns within the token cap ...
TurnReturns(d) ==
    /\ At(d, "turn")
    /\ \E t \in TurnTokens :
        /\ WithinCap(t)
        /\ ctx' = [ctx EXCEPT ![d] = [@ EXCEPT !.pc = "commit", !.tokens = t]]
    /\ UNCHANGED <<status, execs, hitl, fires, arrivals, dodLog, handoffs, cancel, crashes>>

\* ... and is committed: the row, the message and the COMMIT event in one
\* transaction.
TurnCommits(d) ==
    /\ At(d, "commit")
    /\ execs' = [execs EXCEPT ![ctx[d].row] = [@ EXCEPT !.status = "SUCCEEDED",
                                                       !.tokens = ctx[d].tokens]]
    /\ Commit(Node(d))
    /\ ctx' = [ctx EXCEPT ![d] = [@ EXCEPT !.pc = "route", !.streak = 0, !.tokens = 0]]
    /\ UNCHANGED <<status, hitl, fires, dodLog, handoffs, cancel, crashes>>

\* The turn is recorded but rejected: the token cap, or (any total) the tool
\* call and repair budgets of a turn.
TurnRejected(d) ==
    /\ At(d, "turn")
    /\ \E t \in TurnTokens : FailRun(d, Rejected(Node(d), t))

\* A non-transient error of the turn, or a commit that cannot be written.
TurnFails(d) ==
    /\ At(d, "turn") \/ At(d, "commit")
    /\ FailRun(d, Failed(Node(d)))

\* TransientAgentError: the attempt fails and the node is retried, after a
\* backoff unless the budget is already spent.
Retry(d) == <<[node |-> Node(d), want |-> Row(d).visit]>> \o ctx[d].queue

TurnTransient(d) ==
    /\ At(d, "turn")
    /\ execs' = [execs EXCEPT ![ctx[d].row].status = "FAILED"]
    /\ ctx' = [ctx EXCEPT ![d] =
           IF ctx[d].streak + 1 > MaxRetries
           THEN [@ EXCEPT !.pc = "drain", !.queue = Retry(d), !.row = 0, !.streak = 0]
           ELSE [@ EXCEPT !.pc = "backoff", !.streak = 0]]
    /\ UNCHANGED <<status, hitl, fires, arrivals, dodLog, handoffs, cancel, crashes>>

BackoffEnds(d) ==
    /\ At(d, "backoff")
    /\ ctx' = [ctx EXCEPT ![d] = [@ EXCEPT !.pc = "drain", !.queue = Retry(d), !.row = 0]]
    /\ UNCHANGED <<status, execs, hitl, fires, arrivals, dodLog, handoffs, cancel, crashes>>

-----------------------------------------------------------------------------
(* _route: an edge, a HITL pause, the default edge, fail fast or terminate. *)

\* No conditional edge before the i-th takes the turn: it is capped out, or it
\* has a condition, which may be false.
Passed(n, i) ==
    \A k \in 1..(i - 1) : LoopCapped(n, Conditional[n][k]) \/ Conditional[n][k].cond

NoneMatches(n) == Passed(n, Len(Conditional[n]) + 1)

Fire(d, to) == ctx' = [ctx EXCEPT ![d] = [@ EXCEPT !.pc = "fire", !.todo = to]]

RouteConditional(d) ==
    /\ At(d, "route")
    /\ \E i \in DOMAIN Conditional[Node(d)] :
        /\ Passed(Node(d), i)
        /\ ~LoopCapped(Node(d), Conditional[Node(d)][i])
        /\ Fire(d, Conditional[Node(d)][i].to)
    /\ UNCHANGED <<status, execs, hitl, fires, arrivals, dodLog, handoffs, cancel, crashes>>

RaiseHitl(d) ==
    /\ At(d, "route")
    /\ NoneMatches(Node(d))
    /\ Node(d) \in HitlNodes
    /\ execs' = [execs EXCEPT ![ctx[d].row].status = "WAITING_HUMAN"]
    /\ hitl' = Append(hitl, [node |-> Node(d), visit |-> Row(d).visit, answers |-> 0,
                             status |-> "PENDING"])
    /\ ctx' = [ctx EXCEPT ![d] = [@ EXCEPT !.pc = "drain", !.row = 0]]
    /\ UNCHANGED <<status, fires, arrivals, dodLog, handoffs, cancel, crashes>>

RouteDefault(d) ==
    /\ At(d, "route")
    /\ NoneMatches(Node(d))
    /\ Default[Node(d)] # <<>>
    /\ Fire(d, Default[Node(d)])
    /\ UNCHANGED <<status, execs, hitl, fires, arrivals, dodLog, handoffs, cancel, crashes>>

RouteFailsFast(d) ==
    /\ At(d, "route")
    /\ NoneMatches(Node(d))
    /\ Default[Node(d)] = <<>>
    /\ Conditional[Node(d)] # <<>>
    /\ FailRun(d, Failed(Node(d)))

\* Mutation: the implicit terminal is not reported (an earlier version of the
\* code, says the comment in _route).
TerminateSilently(d) ==
    /\ At(d, "route")
    /\ Default[Node(d)] = <<>>
    /\ Conditional[Node(d)] = <<>>
    /\ ctx' = [ctx EXCEPT ![d] = [@ EXCEPT !.pc = "drain", !.row = 0]]
    /\ UNCHANGED <<status, execs, hitl, fires, arrivals, dodLog, handoffs, cancel, crashes>>

Terminate(d) ==
    /\ At(d, "route")
    /\ Default[Node(d)] = <<>>
    /\ Conditional[Node(d)] = <<>>
    /\ ctx' = [ctx EXCEPT ![d] = [@ EXCEPT !.pc = "drain", !.row = 0, !.term = TRUE]]
    /\ UNCHANGED <<status, execs, hitl, fires, arrivals, dodLog, handoffs, cancel, crashes>>

\* eval_condition raises, or the event's number is taken: nothing in _route,
\* _dispatch or _drain_queue catches it.
RouteRaises(d) ==
    /\ \/ At(d, "route") /\ (Node(d) \in RaisingNodes \/ Contended(d))
       \/ At(d, "fire") /\ Contended(d)
    /\ Release(d)
    /\ UNCHANGED <<status, execs, hitl, fires, arrivals, dodLog, handoffs, cancel, crashes>>

\* Mutation: the first arrival dispatches a join.
CoveredByAny(j, from) == from # {}

Covered(j, from) == Required(j) \subseteq from

\* _fire_edge, one target: the ROUTE event, and the dispatch it leads to.  A
\* join is queued only once every inbound source has arrived.
FireTarget(d) ==
    /\ At(d, "fire")
    /\ LET c == ctx[d]
           n == Node(d)
           t == Head(c.todo)
           arrived == [arrivals EXCEPT ![t] = @ \cup {n}]
           ready == \/ t \in Nodes \ Joins
                    \/ t \in Joins /\ Covered(t, arrived[t]) /\ ~Queued(d, t)
           last == Tail(c.todo) = <<>>
       IN /\ fires' = IF <<n, t>> \in DOMAIN LoopCap THEN [fires EXCEPT ![<<n, t>>] = @ + 1] ELSE fires
          /\ arrivals' = IF t \in Joins THEN arrived ELSE arrivals
          /\ ctx' = [ctx EXCEPT ![d] =
                 [c EXCEPT !.pc = IF last THEN "drain" ELSE "fire",
                           !.row = IF last THEN 0 ELSE c.row,
                           !.todo = Tail(c.todo),
                           !.term = c.term \/ t = End,
                           !.queue = IF ready THEN Append(c.queue, [node |-> t, want |-> 0])
                                     ELSE c.queue]]
    /\ UNCHANGED <<status, execs, hitl, dodLog, handoffs, cancel, crashes>>

-----------------------------------------------------------------------------
(* _drain_queue's quiescence check, _finalize_status and _write_final.      *)

\* The queue is empty and no request is pending: look at the joins one by one.
FlushBegin(d) ==
    /\ At(d, "drain")
    /\ ctx[d].queue = <<>>
    /\ ~PendingHitl
    /\ ctx' = [ctx EXCEPT ![d] = [@ EXCEPT !.pc = "flush", !.todo = JoinOrder]]
    /\ UNCHANGED <<status, execs, hitl, fires, arrivals, dodLog, handoffs, cancel, crashes>>

\* Mutation: quiescence waits for every source too.
HeldIfCovered(d, j) == Covered(j, arrivals[j]) /\ ~Queued(d, j)

\* A join with unconsumed arrivals that is not in the queue is dispatched.
Held(d, j) == arrivals[j] # {} /\ ~Queued(d, j)

FlushJoin(d) ==
    /\ At(d, "flush")
    /\ ctx[d].todo # <<>>
    /\ LET j == Head(ctx[d].todo)
           queue == IF Held(d, j) THEN Append(ctx[d].queue, [node |-> j, want |-> 0]) ELSE ctx[d].queue
           done == Tail(ctx[d].todo) = <<>> /\ queue # <<>>
       IN ctx' = [ctx EXCEPT ![d] =
              [@ EXCEPT !.pc = IF done THEN "drain" ELSE "flush",
                        !.todo = Tail(ctx[d].todo),
                        !.queue = queue]]
    /\ UNCHANGED <<status, execs, hitl, fires, arrivals, dodLog, handoffs, cancel, crashes>>

\* The loop ends: a request is pending, or no join is held either.
DrainEnds(d) ==
    /\ ctx[d].queue = <<>>
    /\ \/ At(d, "drain") /\ PendingHitl
       \/ At(d, "flush") /\ ctx[d].todo = <<>>
    /\ ctx' = [ctx EXCEPT ![d] = [@ EXCEPT !.pc = "finalize", !.todo = <<>>]]
    /\ UNCHANGED <<status, execs, hitl, fires, arrivals, dodLog, handoffs, cancel, crashes>>

\* A drain that ends paused, or with nothing to say: the status to write is
\* decided from a read of the run's row ...
FinalizePaused(d) ==
    /\ At(d, "finalize")
    /\ status \notin Terminal
    /\ PendingHitl \/ ~ctx[d].term
    /\ ctx' = [ctx EXCEPT ![d] =
           [Idle EXCEPT !.pc = "write", !.write = IF PendingHitl THEN "WAITING_HUMAN" ELSE status]]
    /\ UNCHANGED <<status, execs, hitl, fires, arrivals, dodLog, handoffs, cancel, crashes>>

\* ... and written in a transaction of its own, with the same fallback as a
\* judgement if the write fails.
WriteStatus(d) ==
    /\ At(d, "write")
    /\ \/ status' = StatusIfActive(ctx[d].write)
       \/ DbFaults /\ status' \in {status, StatusIfActive("FAILED")}
    /\ Release(d)
    /\ UNCHANGED <<execs, hitl, fires, arrivals, dodLog, handoffs, cancel, crashes>>

\* A re-entry: the run is terminal already.
FinalizeAgain(d) ==
    /\ At(d, "finalize")
    /\ status \in Terminal
    /\ Release(d)
    /\ UNCHANGED <<status, execs, hitl, fires, arrivals, dodLog, handoffs, cancel, crashes>>

\* A terminal was reached: decide the definition of done (an await).
Judge(d) ==
    /\ At(d, "finalize")
    /\ status \notin Terminal
    /\ ~PendingHitl
    /\ ctx[d].term
    /\ ctx' = [ctx EXCEPT ![d] = [Idle EXCEPT !.pc = "judge"]]
    /\ UNCHANGED <<status, execs, hitl, fires, arrivals, dodLog, handoffs, cancel, crashes>>

\* Mutation: the handoff trusts the status that was asked for.
HandOffUnread(d) == ctx' = [ctx EXCEPT ![d] = [Idle EXCEPT !.pc = "deliver"]]

\* _hand_off_if_completed re-reads the status that is in the database.
HandOffIfCompleted(d) ==
    ctx' = [ctx EXCEPT ![d] = IF status' = "COMPLETED" THEN [Idle EXCEPT !.pc = "deliver"] ELSE Idle]

\* Mutation: the event is not rolled back with the status.
LogVerdictAlways(judgement) == dodLog' = IF HasDod THEN Append(dodLog, judgement) ELSE dodLog

LogVerdict(judgement) ==
    dodLog' = IF HasDod /\ status \notin Terminal THEN Append(dodLog, judgement) ELSE dodLog

\* The event and the status in one transaction; if a terminal status was
\* committed meanwhile, both are rolled back.
WriteVerdict(d) ==
    /\ At(d, "judge")
    /\ \E judgement \in IF HasDod THEN Verdicts ELSE {"COMPLETED"} :
        /\ status' = StatusIfActive(judgement)
        /\ LogVerdict(judgement)
    /\ HandOffIfCompleted(d)
    /\ UNCHANGED <<execs, hitl, fires, arrivals, handoffs, cancel, crashes>>

\* The transaction fails and only a FAILED status is written; if that fails
\* too, TerminalPersistenceError leaves the driver.
WriteVerdictFaults(d) ==
    /\ At(d, "judge")
    /\ DbFaults \/ Contended(d)
    /\ \/ status' = StatusIfActive("FAILED") /\ HandOffIfCompleted(d)
       \/ status' = status /\ Release(d)
    /\ UNCHANGED <<execs, hitl, fires, arrivals, dodLog, handoffs, cancel, crashes>>

\* hand_off_run returns, or raises and is logged; the status is not touched.
Deliver(d) ==
    /\ At(d, "deliver")
    /\ handoffs' \in {handoffs, handoffs + 1}
    /\ Release(d)
    /\ UNCHANGED <<status, execs, hitl, fires, arrivals, dodLog, cancel, crashes>>

\* The driver's process dies, or its task is cancelled at an await: its context is lost, the database stays.
Crash(d) ==
    /\ ~At(d, "idle")
    /\ crashes < MaxCrashes
    /\ crashes' = crashes + 1
    /\ Release(d)
    /\ UNCHANGED <<status, execs, hitl, fires, arrivals, dodLog, handoffs, cancel>>

-----------------------------------------------------------------------------
Dispatch(d) ==
    \/ DispatchRefused(d) \/ DispatchBegin(d) \/ DispatchInsert(d) \/ DispatchCollides(d)
    \/ OnEnter(d) \/ OnEnterRaises(d) \/ TurnReturns(d) \/ TurnCommits(d) \/ TurnRejected(d)
    \/ TurnFails(d) \/ TurnTransient(d) \/ BackoffEnds(d)

Route(d) ==
    \/ RouteConditional(d) \/ RaiseHitl(d) \/ RouteDefault(d) \/ RouteFailsFast(d)
    \/ Terminate(d) \/ RouteRaises(d) \/ FireTarget(d)

Finish(d) ==
    \/ FlushBegin(d) \/ FlushJoin(d) \/ DrainEnds(d) \/ FinalizePaused(d) \/ WriteStatus(d)
    \/ FinalizeAgain(d) \/ Judge(d) \/ WriteVerdict(d) \/ WriteVerdictFaults(d) \/ Deliver(d)

Resume(d) == ResumePrepareFails(d) \/ ResumeAnswer(d)

\* What a driver does once it has begun.
Advance(d) == Resume(d) \/ Dispatch(d) \/ Route(d) \/ Finish(d)

Next ==
    \/ \E d \in Drivers : Start(d) \/ ResumeBegin(d) \/ Advance(d) \/ Crash(d)
    \/ CancelScan
    \/ CancelWrite

Spec == Init /\ [][Next]_vars

\* The event loop runs a driver that can continue, and every await returns
\* (run_turn and the sandbox carry timeouts).  Humans, triggers and crashes
\* owe nothing.
FairSpec == Spec /\ \A d \in Drivers : WF_vars(Advance(d))

-----------------------------------------------------------------------------
(* Properties.                                                              *)

AllIdle == \A d \in Drivers : At(d, "idle")

\* A run nobody is working on has a status its owner can act on: it is over,
\* or it waits for a request that can still be answered.  (_drain_queue and
\* _finalize_status; no driver crashed and no expression raised.)
AtRestResolved ==
    AllIdle => \/ status \in {"NONE"} \cup Terminal
               \/ status = "WAITING_HUMAN" /\ PendingHitl

\* A COMPLETED run has nothing left to do: no pending request, no attempt in
\* flight, no queued dispatch, no arrival that a join has not consumed.
CompletedIsQuiet ==
    status = "COMPLETED" =>
        /\ ~PendingHitl
        /\ \A i \in DOMAIN execs : execs[i].status # "RUNNING"
        /\ \A d \in Drivers : ctx[d].queue = <<>>
        /\ \A j \in Joins : arrivals[j] = {}

\* Every attempt recorded as RUNNING is the attempt of a live driver, so none
\* is left behind (the failure _dispatch's except clause is written against).
NoOrphanAttempt ==
    \A i \in DOMAIN execs :
        execs[i].status = "RUNNING" =>
            \E d \in Drivers : ctx[d].row = i /\ ctx[d].pc \in {"enter", "turn", "commit"}

\* A drain never ends without something to report: the branch that persists
\* the status "as is" is not taken (_finalize_status says it should not be).
NoSilentEnd ==
    \A d \in Drivers : At(d, "finalize") /\ status \notin Terminal /\ ~PendingHitl => ctx[d].term

\* What a driver leaves behind can be told from the database: completion means
\* that nothing is left, no attempt is left in flight, no end goes unreported.
NothingLeft == CompletedIsQuiet /\ NoOrphanAttempt /\ NoSilentEnd

\* A retry and a HITL resume continue the logical visit they belong to, however
\* many dispatches of the node lie between (_logical_visit_for_dispatch, which
\* only looks at the latest one).
VisitIdentity ==
    \A i \in DOMAIN execs : execs[i].want # 0 => execs[i].visit = execs[i].want

\* All attempts of a run together respect guards.max_total_steps, save one for
\* each further driver that read the count before the last row was inserted.
StepBudget == Len(execs) < MaxTotalSteps + Cardinality(Drivers)

\* Every request is answered by at most one responder (resume_hitl's status
\* check).
AnsweredOnce == \A h \in DOMAIN hitl : hitl[h].answers <= 1

\* The capped pairs that only conditional edges close, each naming the target
\* once: of these, and no others, _route asks _edge_is_loop_capped for each fire.
AskedPairs ==
    {p \in DOMAIN LoopCap :
        /\ p[2] \notin Range(Default[p[1]])
        /\ \A i \in DOMAIN Conditional[p[1]] :
              LET to == Conditional[p[1]][i].to
              IN \A k, m \in DOMAIN to : to[k] = p[2] /\ to[m] = p[2] => k = m}

\* Whatever mix of retries, loops, joins and resumes dispatches a node: it never
\* fails more often in a row than its retry budget allows; a pair of nodes that
\* conditional edges close respects its guards.max_loop_iterations (a default
\* edge does not: EdgesCapped); and a run whose recorded turns spent more than
\* guards.max_tokens_total has failed (or was cancelled), the turn that spent it
\* not committed.  (_dispatch's guards, _edge_is_loop_capped.)
RetryBudget == \A n \in Nodes : ConsecutiveFailures(n) <= MaxRetries + 1
LoopCapHeld == \A p \in AskedPairs : fires[p] <= LoopCap[p]
TokenCap ==
    TotalTokens > MaxTokens =>
        /\ status \in {"FAILED", "CANCELLED"}
        /\ \E i \in DOMAIN execs : execs[i].status = "FAILED" /\ execs[i].tokens > 0
Budgets == RetryBudget /\ LoopCapHeld /\ TokenCap

\* The loop guard is a hard cap on every edge, as _edge_is_loop_capped's
\* docstring says.  Expected to fail: _route does not ask it of a default edge.
EdgesCapped == \A p \in DOMAIN LoopCap : fires[p] <= LoopCap[p]

\* The gate speaks at most once; an event means the run is over, and a
\* completed run has passed it.  (_write_final's single transaction.)
GateEvidence ==
    /\ Len(dodLog) <= 1
    /\ dodLog # <<>> => status \in Terminal
    /\ HasDod /\ status = "COMPLETED" => dodLog = <<"COMPLETED">>

\* Only a run that completed is handed off; one whose cancellation won the
\* race against the judge is not.  (_hand_off_if_completed.)
HandOffEarned ==
    (handoffs > 0 \/ \E d \in Drivers : At(d, "deliver")) /\ HasDod => dodLog = <<"COMPLETED">>

\* A logical visit is not shared: a graph entry opens one of its own.
EntryOpensVisit == \A i \in DOMAIN execs : execs[i].want = 0 => execs[i].visit = i

\* When a join is dispatched short of arrivals, no other dispatch that is
\* still queued can bring the missing one.
PartialJoinIsLast ==
    \A d \in Drivers : At(d, "drain") /\ ctx[d].queue # <<>> =>
        LET item == Head(ctx[d].queue)
            later == {ctx[d].queue[i].node : i \in 2..Len(ctx[d].queue)}
        IN item.node \in Joins /\ item.want = 0 =>
               (Required(item.node) \ arrivals[item.node]) \cap later = {}

\* Cancellation wins against a judge in flight: nothing is judged or completed
\* after it.
CancelBeatsGate ==
    [][(status = "CANCELLED") => (status' # "COMPLETED" /\ dodLog' = dodLog)]_vars

\* A terminal status never changes again.
TerminalFinal == [][(status \in Terminal) => (status' = status)]_vars

\* A terminal run never becomes active again, however many drivers, triggers,
\* crashes and write faults it meets.
TerminalStays == [][(status \in Terminal) => (status' \in Terminal)]_vars

\* A join is dispatched on partial arrivals only when the queue has run dry
\* and no pending request could still deliver one.
PartialJoinOnlyAtQuiescence ==
    [][\A d \in Drivers : \A j \in Joins :
          (/\ ~Queued(d, j)
           /\ Queued(d, j)'
           /\ ctx[d].pc \in {"fire", "flush"}
           /\ ~(Required(j) \subseteq arrivals'[j]))
          => /\ \A i \in DOMAIN ctx[d].queue : ctx[d].queue[i].node \in Joins
             /\ ~PendingHitl]_vars

\* If every request is answered and prepare_run does not fail for ever, the
\* run ends: pauses, partial joins and retries never leave it with nothing to
\* do and no end.  (_drain_queue's quiescence check.)
RequestsAnswered == \A d \in Drivers : WF_vars(ResumeBegin(d)) /\ SF_vars(ResumeAnswer(d))
RunEnds == RequestsAnswered => ((status = "RUNNING") ~> (status \in Terminal))

=============================================================================
