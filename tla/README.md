# A formal model of Ravana

Ravana runs declarative multi-agent workflows: a graph of agent nodes, edges
with conditions, loops, joins, human-in-the-loop (HITL) pauses and a
definition of done (DoD), persisted in SQLite. This directory holds TLA+
modules that model its control, the TLC configurations that check them on
small instances, and proofs that TLAPS checks for every instance.

Paths below are relative to `src/ravana/` of the repository; `ARCH` is
`docs/ARCHITECTURE.md`.

## 1. Inventory

| Component | State it keeps | Operations | Hard behaviours |
|---|---|---|---|
| **Run engine** `engine/loop.py` | the rows `run`, `node_execution`, `hitl_request`, `message`, `state_transition_log`; per driver an in-memory `_RunCtx` (queue, `terminal_reached`) | `start_run`, `resume_hitl`, `_drain_queue`, `_dispatch`, `_route`, `_fire_edge`, `_finalize_status`, `_write_final`, `_fail_run` | several processes on one run; awaits between a read and the write it guards; crashes; joins that wait; retries |
| **Agent turn** `runtime/gateway.py`, `runtime/backoff.py` | counters local to a try | `run_turn`, `_run_with_fallback`, `_run_tool_loop`, `judge_prose` | retries and fallbacks that repeat side effects; three budgets that interact; providers that ignore a forced submit |
| **Tool executor and ledger** `runtime/tool_executor.py`, `runtime/idempotency.py` | `tool_invocation` rows | `execute`, `_claim`, `_record`, `_record_indeterminate`; `prepare_run`, `release_run`, `hand_off_run` | crash between effect and record; two callers of one key; cancellation; lost answers |
| **Sandbox runner** `runtime/toolkits/sandbox.py` | locals of one `run`; two CLI clients, their requests at the daemon, the container | create, start, watch, stop, remove, verify, report | cancellation at every await; clients that appear late; requests that outlive their client; a cleanup with a deadline |
| **Code interpreter** `runtime/toolkits/code_interpreter.py`, workers of `sandbox.py` | the workspace lock, the published script, staging files, operations and reapers of the supervisor | `call`, `_write_script`, `aclose` | two calls on one workspace; slow workers; close while in use |
| **Git workspace and handoff** `runtime/git_workspace.py`, `runtime/git_handoff.py` | workspace, provenance record, patch set, branch | provision, adopt, refuse, undo, deliver | processes that race; crash between `rename` and provenance; failing git commands |
| **MCP toolkit** `runtime/toolkits/mcp_server.py`, `mcp_snapshot.py` | the pinned list of each process, rows of `mcp_tool_snapshot`, one session per call | prepare, discover, pin, restore, release, call | a server that changes its list; resume in another process; failures before and after dispatch |
| **Definition of done** `engine/dod.py`, `engine/expr.py` | none | classify criteria, evaluate, apply verdicts | fail-closed on every malformed verdict |
| **State merge** `engine/state_merge.py`, `_commit_turn`, `_commit_state` | `run.shared_state`, `run.state_version` | merge a delta, compare-and-swap | concurrent commits |
| **Concurrency groups** `start_run` | active runs of a group | reject, queue, cancel previous | check-then-insert between processes |
| **Compiled graph** `compiler/graph.py`, `compiler/validate.py` | immutable | parse, order edges, validate | reachability, coverage of nodes |
| **Persistence of definitions** `compiler/persist.py`, `schema/workflow_snapshot.py` | definition tables, pinned snapshot | upsert, pin, load | a run resumed under an edited definition |
| **LLM providers, connectors** `runtime/providers/*`, `runtime/toolkits/api_connector.py`, `http_client.py` | none | one request, one response | lost answers, retryable and permanent errors |
| **Command line** `cli.py` | none | `run start`, `run resume`, `run watch` | one process per call, stale lists of requests |
| **Secrets, observability, models, loader** | audit rows, log lines | redaction, parsing, validation | none that feeds back into a run |

Interactions. The command line starts a *driver* (one call of `start_run` or
`resume_hitl`). A driver pops a node from its queue, inserts an attempt, awaits
`AgentRuntime.run_turn` (the gateway), commits what it returns and routes. The
gateway awaits a provider and, for every tool call, the executor, which claims
a key in the ledger, awaits a toolkit handler and records the result. All
drivers and executors share one SQLite database and nothing else.

What makes each part correct:

- *engine*: a run that nobody works on is over or can be answered; completion
  means nothing is left; terminal statuses are final; the gate speaks once and
  beats nothing but is beaten by a cancellation; budgets (steps, retries,
  tokens, loop iterations) hold; joins fire once per wave and short of arrivals
  only at quiescence; logical visits follow retries and resumes; a run settles.
- *turn*: it ends; what it returns respects the budgets the engine checks again;
  the ceiling never cuts a legitimate turn off.
- *ledger*: an effect happens at most once; a recorded success happened; an
  unresolved outcome is never retried by itself.
- *commits of the shared state*: what one attempt appends or merges is not lost to
  another; the log follows the version counter; only contention makes a commit
  give up.
- *sandbox*: what it reports about the agent's code is true and stays true; what
  it leaves behind is reported; it returns, and its clients end, whatever the
  daemon does.
- *code interpreter*: a container runs the script of its own call; one agent is
  in a workspace; what may be retried left nothing; close loses no worker.
- *workspace*: its record names the commit it was cut from; a workspace in use is
  never replaced; a patch set is delivered once.
- *MCP tools*: a run sees one list of tools as long as it lives, also across a
  restart; a call is only retried if it was not sent.

`PROJECT.json` lists the hazards behind these at their lines.

## 2. Modules, and the plan

| Module | Contents | State |
|---|---|---|
| `Engine` | one run of any graph, driven by any number of drivers, with a cancelling trigger, crashes and write faults | done |
| `MCEngine` | five small graphs | done |
| `EngineProofs` | proofs about `Engine`, for any number of drivers | six theorems |
| `DriverProofs` | proofs about `Engine` with one driver at a time; EXTENDS `EngineProofs` | five theorems |
| `Turn` | the turns of one logical visit: fallback chain, tool loop and ledger | done |
| `MCTurn` | symmetry for TLC | done |
| `TurnProofs` | proofs about `Turn` | seven theorems |
| `StateMerge` | `merge_delta` and `apply_on_enter` as operators | done |
| `AtomicCommit` | abstract: commits of the shared state as single merges | done |
| `StateCommit` | `_commit_turn`'s read, compare-and-swap and retry, and `_commit_state`'s compare against a version read too late; implements `AtomicCommit` | done |
| `MCStateCommit` | three racing attempts with a key of each merge policy | done |
| `StateCommitProofs` | proofs about `StateCommit`, its refinement among them | five theorems |
| `SandboxContract` | abstract: what a runner promises about agent code | done |
| `Sandbox` | one `DockerSandboxRunner.run` with its clients, the daemon, the caller and its reapers; implements `SandboxContract` | done |
| `SandboxProofs` | proofs about `Sandbox`, its refinement among them | three theorems |
| `CodeInterpreter` | the calls of one handler on one workspace, its workers and its close; uses `SandboxContract` for the container | done |
| `CodeInterpreterProofs` | proofs about `CodeInterpreter` | four theorems |
| `Workspace` | provisioning, adoption, undo and delivery by processes that may die | done |
| `WorkspaceProofs` | proofs about `Workspace` | four theorems |
| `McpTools` | the tools one run is offered by one server, and its calls | done |
| `McpProofs` | proofs about `McpTools` | three theorems |
| `MCSandbox`, `MCCodeInterpreter`, `MCWorkspace`, `MCMcpTools` | symmetry for TLC, where there is some | done |

Left for later, in this order: `EngineLifecycle`, an abstract life of a run
(status, gate, handoff) that `Engine` implements; `RunGate` (`start_run` of
several runs of a group in several processes); the metering of the judge
(`judge_prose`, `_decide_dod`); the event log as a sequence, from which the code
derives what `Engine` keeps incrementally. The list "Not modelled" is at the end
of section 9.

Composition: `Turn` is one dispatch of `Engine` seen from inside; `Engine`'s
choice between `TurnReturns`, `TurnTransient` and `TurnFails` is `Turn`'s
`outcome`. `StateCommit` is `Engine`'s `OnEnter` and `TurnCommits` seen from
inside, for attempts of any number of drivers; it EXTENDS `StateMerge` and
instantiates `AtomicCommit` with its operators. `Turn`'s handler, when the tool
is the code interpreter or an MCP server, is `CodeInterpreter` or `McpTools`:
what those report ("transient", "retrySafe", "unknown") is what `Raises`,
`CancelledSafely` and `OutcomeUnknown` of `Turn` stand for, so the properties of
the toolkits are the assumptions under which the ledger is truthful. The
container of a `CodeInterpreter` call is `SandboxContract`, instantiated by
`CodeInterpreter` for its steps and by `Sandbox` as the abstract specification
that the runner implements: what is shown of the calls holds of the runner.

## 3. `Engine`: one run

### State

| Variable | Code |
|---|---|
| `status` | `run.status`, `"NONE"` before the row is inserted |
| `execs` | `node_execution` rows in insertion order: node, logical visit, tokens, status |
| `hitl` | `hitl_request` rows |
| `fires` | `_edge_fire_count`: ROUTE events of each capped pair |
| `arrivals` | `_join_arrivals`: sources with a ROUTE to the join since its last COMMIT |
| `dodLog` | `DOD_EVALUATED` events |
| `handoffs` | deliveries by `hand_off_run` |
| `ctx` | each driver's position and its `_RunCtx` |
| `cancel` | how far a `cancel_previous` trigger has come |
| `crashes` | processes that died |

`want` (rows and queue items) and `answers` (requests) are history variables:
the first records whether a dispatch is a graph entry or continues a visit, the
second counts responders. No guard reads them.

### The grain of a step

A step is what a driver does between two points at which another process can
see or change the database: an await, a commit, or a read made before the
transaction it guards begins (Python's `sqlite3` opens a transaction at the
first write, so such a read can be stale). The order of steps is the code's:

| Code | Actions |
|---|---|
| `start_run` (of the followed run) | `Start`; `CancelScan`, `CancelWrite` (of a later run of the group) |
| `resume_hitl` | `ResumeBegin`, `ResumePrepareFails`, `ResumeAnswer` |
| `_dispatch` up to the turn | `DispatchRefused`, `DispatchBegin`, `DispatchInsert`, `DispatchCollides`, `OnEnter`, `OnEnterRaises` |
| the turn and its commit | `TurnReturns`, `TurnCommits`, `TurnRejected`, `TurnFails`, `TurnTransient`, `BackoffEnds` |
| `_route`, `_fire_edge` | `RouteConditional`, `RaiseHitl`, `RouteDefault`, `RouteFailsFast`, `Terminate`, `RouteRaises`, `FireTarget` |
| `_drain_queue` | `FlushBegin`, `FlushJoin`, `DrainEnds` |
| `_finalize_status`, `_write_final`, `_hand_off_if_completed` | `FinalizePaused`, `WriteStatus`, `FinalizeAgain`, `Judge`, `WriteVerdict`, `WriteVerdictFaults`, `Deliver` |
| a process dies, a task is cancelled | `Crash` |

Abstractions of the grain, all of them coarser than the code: `_fail_run` is one
step (its read of the row count and its writes are adjacent); the two reads of
`_finalize_status` (the run's status, the pending requests) are one step; the
ROUTE event of a target that is not a join is counted when it is logged, a
moment before it is committed. `Contended(d)` over-approximates the collisions
of numbers (an attempt, an event, a state version) that two drivers can
allocate from the same read: the loser's exception leaves it unhandled.

### Data

What an agent answers, what a condition evaluates to and what the judge says
are nondeterministic. So is a turn's token count, from `TurnTokens`. The content
of `shared_state` is left out (it is the subject of `StateCommit`), a non-default edge is
its targets and whether it has a condition, and an expression that raises is a
property of its node (`RaisingNodes`). `locked` errors of SQLite other than at
the final write are not modelled; nor are negative guards.

### Runs

Bounds are constants or occur in guards, so that no state constraint is needed:
`MaxTotalSteps` (the code's own guard, which makes every run finite),
`MaxCrashes`, `TurnTokens`. `CHECK_DEADLOCK FALSE` everywhere: a run that is
over stops, by design.

| Run | Question | Result |
|---|---|---|
| `EngineLoop` | On a graph with every construct of the SDLC example (humans, broadcast, join, capped loop, `on_enter`, both terminals), one driver at a time: do the budgets of retries, tokens and loops hold (`Budgets`), are visits continued, is a run at rest always resolved, does completion or rest leave anything behind (`NothingLeft`), are partial joins only fired at quiescence, does a run end if its requests are answered (`RunEnds`)? | pass |
| `EngineHostile` | With two drivers, a cancelling trigger, a crash and failing writes: step budget, evidence of the gate, handoff, terminal statuses, cancellation against the judge | pass |
| `EngineDefaultLoop` | Does every edge respect its loop cap (`EdgesCapped`), one that is a default edge too? | violated, section 11 |
| `EngineCancelled` | Are terminal statuses final? | violated, section 11 |

Why the bounds are enough. Between them the graphs of `MCEngine` contain each
construct the engine has (default, unconditional and conditional edge,
broadcast, join, loop, implicit and explicit terminal, HITL, `on_enter`).
`EngineLoop` needs seven attempts to go once round its loop and end;
`MaxTotalSteps` 8 leaves one for a retry or a resume on the way, and shorter
paths leave more. `MaxTokens` 7 with counts of 1 and 2 is crossed after four to
eight attempts. Two drivers show every race of two processes that the code has a
check for; a third would only repeat them, and the dependence of the step budget
on their number is proved. One crash suffices, as nothing recovers a run: a
crashed driver is a driver that stopped.

Where several drivers or crashes falsify a property by the code's design, the
property is checked with one driver and its comment says so: `AtRestResolved`
and `NothingLeft` (a crash leaves a RUNNING attempt; nothing reaps it),
`Budgets` and `VisitIdentity` (two drivers may dispatch one node
from one read). Of the loop caps, `Budgets` speaks for the pairs of nodes that
conditional edges close (`AskedPairs`), because `_route` asks the cap of no other. `VisitIdentity` says that a continuing dispatch keeps its visit;
the other half of the rule, that an entry opens one, is false on a graph where a
node has two concurrent entries (`EngineDiamond`).

### Fairness

`FairSpec` asks weak fairness of `Advance(d)`, all steps of a driver that has
begun: the event loop runs a task that can continue, and what it awaits
returns, because provider calls and sandbox operations carry timeouts. No
fairness is asked of humans, triggers or crashes. `RunEnds` needs humans who
answer, so it is conditional: under `RequestsAnswered` (requests are picked up,
and `prepare_run` does not fail for ever: strong fairness of `ResumeAnswer`,
which is enabled again whenever a resume begins) every run ends. It is checked
with one driver and no crash, in the run `EngineLoop` (whose specification is
`FairSpec`; its safety properties need no fairness): with a crash it is false, since nothing recovers a
run.

## 4. `Turn`: what happens inside a dispatch

Callers are the attempts that run turns of one logical visit. `ledger` is
`tool_invocation` by key, the key being the call's ordinal in the turn and its
content (`compute_idempotency_key`). `effects` counts what really happened
outside. `turn` holds each caller's locals: entry and try of the fallback
chain, `tool_call_count` (saturated one past its budget, as the code only
compares it), `model_calls`, repairs, and the rest of the batch.
`effects` is history.

| Code | Actions |
|---|---|
| `run_turn`, `_run_with_fallback` | `Begin`, `ProviderFails`, `TurnBreaks`, `Crash` |
| `_run_tool_loop` | `CeilingReached`, `AnswersTools`, `AnswersValid`, `AnswersInvalid`, `AnswersNothing` |
| the call's guards | `Declined`, `CallsRead` |
| `_claim` | `Claims`, `Replays`, `RefusesUnresolved` |
| the handler and `_record` | `Acts`, `Returns`, `Raises`, `OutcomeUnknown`, `CancelledSafely` |

Overlapping turns of one visit: `Turn` lets several callers run turns of one
visit at the same time. In the engine as it is that is rare (a crashed attempt
stays RUNNING, and its visit is not inherited; two drivers must dispatch one
failed node from one read), so what the runs show about it is a property of
the executor's own contract, as the comment on `_claim` states it, more than of
today's engine. `effects` counts what a handler sends; whether the remote side
dedupes by the `Idempotency-Key` header is outside.

| Run | Question | Result |
|---|---|---|
| `TurnLedger` | Two callers, two turns, crashes: at most one effect, a truthful ledger, one holder per claim, unresolved claims stay | pass |
| `TurnBudgets` | With a primary that honours a forced submit and a fallback that ignores it: is only the second ever cut off by the ceiling, and is what returns within the budgets (`TurnBudgetsFit`)? Does every turn end? | pass |

Bounds: `MaxTurns` (turns begun), `MaxBatch` (calls in one response), and the
code's own budgets, set to 1 or 2. Two calls per response are needed for the
budget to be crossed in the middle of a batch; two entries with one retry each
reach every branch of the fallback chain; three turns of two callers let a claim
be left behind by one, met by the second and met again by a third. `FairSpec`
asks weak fairness of a caller's own steps: every provider and handler answers,
since both carry timeouts; a crash owes nothing.

Not modelled: the guided one-shot path, `judge_prose`, prompts, redaction.

## 5. `StateCommit`: the shared state

Drivers of one run in several processes commit to one `run.shared_state`. A
writer is one attempt, from the load of the state in `_dispatch` to the end of
its commit.

| Variable | Code |
|---|---|
| `state`, `version` | `run.shared_state`, `run.state_version` |
| `log` | the COMMIT rows of `state_transition_log` |
| `rows` | `node_execution.status` of each attempt |
| `me` | each attempt's locals: the state it merges into, its delta, `version_before`, the number of its try |

`past`, the field `base` of a log entry and the fields `at` and `since` of a
writer are history: which states there were, and which version a state that was
read belongs to. No guard reads them.

| Code | Actions |
|---|---|
| `_dispatch` up to `on_enter` | `Load` |
| `_commit_state` | `EnterRead`, `EnterWrite`, `EnterConflicts` |
| the turn | `TurnReturns`, `TurnFails` |
| `_commit_turn` | `CommitRead`, `CommitWrite`, `CommitConflicts` |
| a process dies | `Leaves` |

A read and the transaction that depends on it are two steps, because `sqlite3`
begins a transaction at its first write. The transaction is one step: from its
first write on it holds the database's lock, and a rollback leaves nothing of
it, the attempt's status and its message included. A CAS that fails in
`_commit_state` raises without a rollback; its transaction ends with the process
and has changed nothing, so it is a step that changes nothing, except that the
lock it holds until then is not modelled. Neither are `locked` errors.

Values are lists, objects and integers; 0 stands for every scalar that Python
takes for false, since `x or []` and `x or 0` replace those. The right side of
an `on_enter` statement is a number.

| Run | Question | Result |
|---|---|---|
| `StateRaces` | Three attempts race, two of them with an `on_enter`: is anything lost that was appended or merged, does the log follow the version counter, does a commit give up only under contention, and is every interleaving a sequence of atomic merges? | pass |

`NothingClobbered` is what ARCH:484 asks for ("can't silently clobber each
other"), with the one exception that the code makes: a commit is excused if a
later one was written with a state loaded before it, and a second conjunct says
that no commit of a turn ever is such a later one. An overwritten key promises
nothing to anybody. `AtomicCommit` says the same without versions: a turn's
delta is merged into the state as it is, an `on_enter`'s into some state the run
has been in.

Bounds: every writer commits at most twice, so the run needs no further bound.
Three writers with two `on_enter` statements make up to five commits, so that a
commit can lose all its three tries; the keys have one policy each, and the
payloads include a scalar where a list is expected, which makes a merge raise or
not depending on who came first. Only safety is stated: nobody is owed a commit,
as the code gives up after three tries.

## 6. `Sandbox`: one container

One call of `DockerSandboxRunner.run` with everybody it deals with: the caller,
who may cancel at any await; the two CLI clients, which the OS may be slow to
spawn; the daemon, which carries out what it was sent when it likes; the
container; and the reapers of clients that came too late.

| Variable | Code |
|---|---|
| `pc`, `why`, `known`, `removed`, `err` | where the coroutine is, which path asked for the cleanup in progress, `identity_known`, and what the cleanup has seen |
| `cancelled`, `expired`, `cut` | a pending cancellation; whether the deadlines of the run and of the cleanup have passed |
| `client`, `req`, `ctr`, `marker` | the processes of `docker create` and `docker start --attach`, what became of their requests, the container, the startup marker on stderr |
| `late` | the client a late reaper waits for |
| `out`, `noted` | what `run` returned or raised; whether it names a cleanup error |

`ran` is history. Time is the two flags: only their order against the other
steps matters.

| Code | Actions |
|---|---|
| scan and create | `InitialScan`, `CreateContainer`, `WaitForCreatedContainer` |
| start and run | `StartContainer`, `AwaitStartClient`, `RunSpawnedProcess`, `VerifyAttachedExit`, `FinalScan` |
| `_await_spawn_uninterruptibly` | `RecoverHandle`, `RecoverNoClient`, `RecoverTimesOut` |
| `_cleanup_container_uninterruptibly` | `StopClient`, `ForceRemoveContainer`, `ContainerIsAbsent`, `CleanupExpires` |
| what a path reports | `FinishCreate`, `FinishBeforeStart`, `FinishCancelledSpawn`, `FinishExpiredSpawn`, `FinishTimeout`, `FinishWorkspaceViolation`, `FinishNoMarker`, `FinishUnproven` |
| the late reapers | `LateSpawnFailed`, `LateStop` |

`SandboxContract` is the promise in the docstrings of the error classes: an
ordinary report means that the code is over (or never was), a cancellation
"before start" that it never ran, and any other report leaves it open whether
the code runs, or is still to start.

| Run | Question | Result |
|---|---|---|
| `SandboxRun` | Is the contract kept (`KeepsContract`), is everything left behind reported (`LeakIsReported`), and does the run return and do its clients end (`RunEnds`)? | pass |

There is nothing to bound: one run has two clients and one container, and every
flag goes up once per phase. `FairSpec` asks that the event loop runs the
coroutine and its reaper, that clocks advance and that the OS answers a spawn;
it asks nothing of the daemon, the clients, the container or the caller. For the
late reapers this is optimistic: `_schedule_late_control_cleanup` and
`_schedule_late_spawn_cleanup` create their task without keeping a reference
(sandbox.py:2184, :2216), and nothing awaits it, so that an event loop that is torn down meanwhile drops it, and the client it
waits for outlives the process. `RunEnds` is about an event loop that goes on; a
crash of the process is not modelled.

Assumed of the outside: the exit status of `docker create` tells what the daemon
did with the request; a client that is killed ends; a container that was removed
does not come back under its ID. A removal may be reported as failed
although it was carried out, and an inspection may fail.

Not modelled: notes attached to a cancellation, the content of the output, the
arguments of the container.

## 7. `CodeInterpreter`: the calls on one workspace

| Variable | Code |
|---|---|
| `pc`, `out`, `cancelled` | each call, how it ended, whether its task carries a cancellation |
| `holder`, `script`, `temp` | the `flock` of the workspace, the published script, the staging files |
| `worker` | each call's measuring or staging process |
| `box`, `what` | its container, as `SandboxContract` has it, and (history) whose script it started with |
| `inside`, `sealed` | `AsyncResourceLifecycle._active`, `_closing` |
| `ops`, `reapers`, `errors`, `closing`, `closed` | `WorkspaceWorkerSupervisor` |
| `closer` | where `aclose()` is |

| Code | Actions |
|---|---|
| `call` | `Enter`, `AcquireLock`, `RunReturns` |
| `_write_script` | `Measured`, `Staged`, `Publish`, `WorkerFails` |
| reapers, processes, the container | `SpawnResolves`, `ReapSpawn`, `WorkerDies`, `ContainerStarts`, `ContainerEnds` |
| `aclose`, the caller | `Close`, `Drain`, `CloseWorkers`, `Cancel` |

| Run | Question | Result |
|---|---|---|
| `Interpreter` | Does a container run the script of its own call, with no second agent beside it (`WorkspaceOwned`)? Did a retry-safe call leave nothing (`RetrySafeLeavesNothing`)? Has a closed supervisor lost a worker (`ClosedIsQuiet`)? Does every call end, and its worker (`CallsEnd`)? | pass |

Two calls suffice to TLC (two contenders for one lock, one in flight while the
other leaves a reaper or the handler closes); the invariants are proved for any
number. Each call has one worker at a time, as in the code. `FairSpec` lets
the loop run calls and reapers and lets the OS end what was killed; a container
need not end and nobody need close again. A call in its `run` phase is fair
because `Sandbox` shows that the runner returns.

Not modelled: validation of paths and of the configuration, what is measured.

## 8. `Workspace`: provisioning and delivery

Processes share nothing but the file system. `ws`, `prov` and `handoff` are the
three paths the code renames into place (`os.rename` of the staged workspace,
`os.replace` of the record, `os.rename` of the staged patch set); `head` is the
tip of the source repository, `mode` whether there is one. `want`, `patch` and
`told` are locals and the last answer of each process.

| Code | Actions |
|---|---|
| `prepare_run`, `provision_workspace` | `Provision`, `Cloned`, `Copied`, `PublishWorkspace`, `WriteProvenance` |
| an existing workspace | `ValidateExistingWorkspace` |
| a failed record | `RemoveWorkspace`, `UnlinkProvenance` |
| `git_handoff.py` | `HandOff`, `CountChanges`, `WritePatches`, `PublishStaging` |
| a git command fails, a process dies | `GitFails`, `Crash` |
| agents, the developer | `AgentWorks`, `DeveloperCommits`, `DeveloperDiscards` |

| Run | Question | Result |
|---|---|---|
| `WorkspaceRaces` | Does the record match the workspace, is work never replaced, is a patch set delivered once? | pass |
| `WorkspaceResume` | Does a resumed run keep a valid workspace? | violated, section 11 |

Bounds: two processes, so one can be at any step while the other provisions,
adopts, undoes or delivers; two commits of the source (`MaxHead`), which two
provisioners can resolve differently; one commit of the agent (`MaxCommits`).
Crashes and failures are unbounded. The developer discards a workspace only
while no process works on it. Safety only: nobody is owed a workspace.

Not modelled: checks of paths and symlinks, the content of commits and patches.

## 9. `McpTools`: the tools of one server

Drivers are processes that drive one run, at once or one after the other. The
server is not trusted: it may publish another list each time, fail, hang or act
on a request whose caller has gone.

| Variable | Code |
|---|---|
| `config`, `saved` | the admin's definition on disk (a fingerprint), the rows of `mcp_tool_snapshot` |
| `proc` | each process: the definition it read, the pinned list, where it is, the tool of its call, what it last told |
| `wire` | what became of its last request |
| `shown`, `raced`, `reread` | history: the lists that models were offered; two drivers read the list at once; the list of a run that was over was read again |

| Code | Actions |
|---|---|
| `build_registry`, snapshot clean-up | `Starts` |
| `prepare_run` | `PrepareRun`, `PinTools`, `DiscoveryFails`, `Pin` |
| `sub_tools_for`, the turn | `ToolsFor`, `TurnEnds` |
| `call` | `Call`, `Dispatch`, `CallFails`, `CredentialFails`, `ServerRuns`, `Answers`, `Returns` |
| `release_run`, a death | `ReleaseRun`, `Crash` |
| the run, the admin | `RunMoves`, `AdminEdits` |

| Run | Question | Result |
|---|---|---|
| `McpPins` | Is a run offered one list, however often it is paused, resumed and prepared, and is that list saved while the run lives (`ListIsKept`)? Is a call only retried if it was not sent (`RetryMeansNotSent`)? | pass |

Bounds: two drivers, a tool that is read-only and one that is not (a server's
list has four values then), two edits of the definition. `Allowed` is None (no
allow-list); with a list, `Exposed` and `Acceptable` only get stricter, and the
theorems hold for both. Abstracted: the clean-up spares young rows without a
run, which is idle here, as a run has its row before any node asks for tools.
Safety only; that a session ends is the timeouts of the client.

`PrepareRun` does not look at the status, as the code does not: a resumed run is
prepared while it still waits for its human, and a run that is over is prepared
too, if a request it left pending is answered. `ListIsKept` therefore names two
cases in which a run may see a second list: two drivers that read it at once
(`raced`), and a run that is over, whose list was deleted and is read again
(`reread`). `McpReread` shows the second with one driver.

**Not modelled**, in the whole project. Provider adapters, prompts, models, the
loader and schema validation are stateless and have no control to check. Workflow
persistence is one transaction. Redaction, audit and logs feed nothing back. The
guided one-shot path of the gateway, `judge_prose` and `_map_verdicts` are choices
of `Engine`'s `Judge` and `Turn`'s outcomes. Validation passes of the compiler are
algorithms over a fixed graph, and `Engine` assumes their result
(`GraphAssumption`).

## 10. What is proved

The proof modules hold for all constants that satisfy the assumptions named in
the modules (`GraphAssumption`, `GuardAssumption`, `TurnAssumption`,
`SchemaAssumption`, `CommitAssumption`, `ToolsAssumption`, `ConfigAssumption`,
`BoundAssumption`, and `NoneAssumption`, which only says that None is no other
value): every graph, every number of drivers, callers, writers, calls or
processes, every schema and every payload, crashes without bound. `DriverProofs`
needs more, and each of its theorems says what.

**`EngineProofs`.** `Inductive` proves `IInv`: `TypeOK` and `ContextsOK`, which
says that what a driver's next step dereferences exists (the row of its attempt,
the item to insert, the join to look at, the request) and that a driver about to
persist "the status as it is" never holds a terminal one. `TypeOK` is not
inductive without it: a step reads `execs[ctx[d].row].node`. The theorems:

- `TypeCorrect` (`TypeOK`).
- `RunStaysTerminal` (`TerminalStays`) and `CancellationBeatsGate`
  (`CancelBeatsGate`), from a lemma that summarises every write of the status:
  it is FAILED or CANCELLED, the RUNNING of `Start` over no row, or goes through
  `StatusIfActive`.
- `GateIsEvidenced` (`GateEvidence`), inductive relative to `IInv`, and
  `HandOffIsEarned` (`HandOffEarned`), inductive relative to both: who delivers
  has read the status COMPLETED in the step that committed the evidence, and
  evidence is never rewritten.
- `StepBudgetHolds` (`StepBudget`): attempts exceed `max_total_steps` by at most
  one for each further driver. `SlotsReserved` counts the drivers that have
  passed the guard and not inserted yet: the rows plus those drivers stay below
  the bound.

**`DriverProofs`.** The properties that the code only has while one call of
`start_run` or `resume_hitl` is at work at a time (`OneDriver`; the calls may be
any number, one after the other). The guards of `loop.py` are read before the
transaction they guard begins, so two drivers break them, which section 3 says of
the runs too. `Moves` and its lemmas first say, action by action, what a step does
to its driver's position, queue and row; `RowWrites` says how the attempts can
change (a row is inserted, or one row is marked). Then one layer of invariant
after the other, each inductive relative to `IInv` and the layers before it:

| Invariant | What it says | For |
|---|---|---|
| `RowsInv` | the row a driver holds is the latest of its node, its status tells how far the dispatch is, and between a driver's guards and its insertion no row appears | all of the others |
| `RetryInv` | every attempt found at most `MaxRetries` failures in a row before it: only the latest attempt can still fail, so the count never passes one more | `RetryBudget` |
| `TokenInv` | what is about to be committed fits the cap that was checked before; a total above the cap has a FAILED attempt that spent it | `TokenCap` |
| `CapInv` | the targets that a chosen edge has still to fire have an iteration left, and none occurs twice | `LoopCapHeld` |
| `DrainInv` | a drain that goes on has a terminal reached, a request, a dispatch or a join with arrivals to show for it; the quiescence check has still before it every join it has not queued | the four below |
| `FreshInv` | a run without a row has nothing else | `NothingLeft` |
| `DoneInv` | once COMPLETED, no request, no arrival, and no driver but one that delivers | `NothingLeft` |
| `RestInv` | a driver that is idle or prepares a resume has left a status that is resolved | `AtRestResolved` |
| `VisitInv` | a pending request belongs to the visit that a dispatch of its node would continue; so does the item at the head of the queue, and no other item is a retry or a resume | `VisitIdentity` |

- `BudgetsHold` (`Budgets`), for every graph. Of the capped pairs it speaks for
  those in `AskedPairs`: no default edge closes them, of which `_route` does not ask
  the cap, and no broadcast names their target twice, which asks once and fires
  twice. For the others the statement is false (`EngineDefaultLoop`).
- `PartialJoinsWaitForQuiescence` (`PartialJoinOnlyAtQuiescence`).
- `NothingIsLeft` (`NothingLeft`) under `Undisturbed`: no crash and no raising
  expression, either of which leaves an attempt RUNNING.
- `RestIsResolved` (`AtRestResolved`) under `Undisturbed` and without faults of the
  final write, the exceptions that leave a driver unhandled.
- `VisitsContinue` (`VisitIdentity`) for the behaviours in which no node is
  dispatched while a request of it is pending (`Unasked`). The code takes that for
  granted when it looks at the latest attempt only; section 11 shows a graph
  where it does not hold, and what happens then. Crashes, raising
  expressions and failing writes are allowed.

No hypothesis is empty: the run with one driver (`EngineLoop`) satisfies
`OneDriver` and `Undisturbed`, and `Unasked` holds in all its states.
Each layer was checked by TLC on its graph before it was proved.

**`TurnProofs`.** `Inductive` proves `IInv`, the conjunction of `TypeOK`,
`TurnsOK` (a call in flight is of a permitted tool within the budget),
`ClaimHeld` and `EffectsKnown`. The last relates the three places a claim's
history is in: while a caller holds a key and has not acted there was no effect;
once it has acted there was exactly one; a recorded success has had one, a
claimable key none, an unresolved one at most one. Without it neither
`LedgerTruth` nor `EffectAtMostOnce` is inductive. From it: `TurnTypeCorrect`
(`TypeOK`), `ClaimsAreHeld` (`ClaimHeld`), `EffectsHappenOnce`
(`EffectAtMostOnce`), `LedgerIsTruthful` (`LedgerTruth`), `UnresolvedStay`
(`UnresolvedStays`). The keys of `Timeouts` are excluded, as they are from the
properties: for them the statements are false (`TurnTimeout`).

`BudgetsFit` (`TurnBudgetsFit`) rests on a second invariant, `AllBudgeted`: a
provider that honours a forced submit has been asked at most once per counted
call and repair, and once more while the first call of its response is not
counted. It answers with calls only while the call budget is not spent, so with
every repair used it stays below the ceiling. A dispatched call has one fewer
recorded than counted, which is why what is recorded never exceeds the budget
although the count does.

**`StateCommitProofs`.** The lemmas about `MergeDelta` come first: it yields a
state (`MergeIsState`), its result keeps what the delta contributes
(`MergeAdds`) and what was there (`MergeKeeps`); their work is in the append
policy, where a sequence must be found inside a concatenation. `Inductive`
proves `IInv`, the conjunction of `StatesOK` (the history of states), `LogOK`
(`LogVerifies` and `NothingClobbered`) and `WritersOK`. The last says of each
writer that the state it read is one the run was in and has every contribution
of the commits up to the version it was read at (`HasRead`), that an `on_enter`
holds the delta of that state and compares with a version no older (`EnterOK`),
and that a commit whose version has not moved holds the state as it is, after
one foreign commit for each failed try (`CommitOK`). `NothingClobbered` alone is
not inductive: the next write depends on what a writer has read. From it:
`StateCommitTypes` (`TypeOK`), `LogIsVerifiable` (`LogVerifies`),
`CommitsAreKept` (`NothingClobbered`), `GivingUpIsContended`
(`GivesUpOnlyContended`), and `CommitsAreAtomic` (`Implements`): the initial
states map to initial ones, `EnterWrite` and `CommitWrite` to `Enter` and
`Commit`, and every other step to `Fail` or a stutter, by the writer's position.

**`SandboxProofs`.** `IInv` adds four facts to `TypeOK`. `WorldOK`: requests, the
container and `ran` agree, and a client that never came sent nothing. `PlaceOK`:
where the runner is tells how far the clients have come. `CleanupOK`: a cleanup
that ended well saw an absence that is final, because the create had been
answered (`known`) or its container was removed (`removed`). `ReportOK`: after a
report that promises something, either no start client ever existed or the
container is gone. From it `SandboxTypes`, `LeaksAreReported` and
`KeepsItsContract`: a report is a `Returns` of the contract, a container that
stops is its `Ends`, and `StartStarts` shows why a start that is carried out late
is always one that the contract expects. `ReportOK` is what makes it so: without
it, a start after an "error" would map to no step.

**`CodeInterpreterProofs`.** `CallsOK` ties a call's place to the lock, the
lifecycle, the operation and the staging file; `BoxesOK` ties a container to the
end of its call; `WorkersOK` says that every worker that lives is watched, by an
operation or by a reaper; `CloseOK` that once the supervisor is closing nobody is
inside, and once it is closed no reaper is left. From them `InterpreterTypes`,
`WorkspaceHasOneOwner`, `RetrySafeIsSafe`, `ClosedMeansQuiet`.

**`WorkspaceProofs`.** `RecordingOK` is the heart: a provisioner between rename and
record owns the workspace, whose record does not exist yet, and while anybody
stages a workspace a record never stands alone, so that a later rename cannot put a
workspace beside a foreign record. `ReadyOK`: while somebody was told "ready",
nobody is about to undo. From them `WorkspaceTypes`, `RecordsMatch`, `WorkStays`,
`PatchIsDeliveredOnce`.

**`McpProofs`.** The actions are first classified by what they do to the list
(`Passes`, `Erases`, `Restores`, `BeginsToRead`, `Pins`, `Offers`); the invariant
(`PinnedIsSaved`, `OneReader`, `OneList`) is then proved for the six kinds. While
the only reader is at it there is no list anywhere, so the one it pins is the
only one: a driver finds nothing saved only if the run has no list yet
(`PinnedIsSaved`) or is over, and then `reread` records that it has one. From it `McpTypes`, `ListIsPinned`, `RetriedWasNotSent`.

**Only model-checked**: liveness (the two `RunEnds`, `TurnEnds`, `CallsEnd`), which
is out of the prover's reach, as ENABLED is. Every other property of a passing run
is stated by a theorem.

## 11. Findings

Three statements of the repository that the code does not keep are runs of
`PROJECT.json`, which quotes them:

| Run | What happens |
|---|---|
| `EngineDefaultLoop` | a loop that a default edge closes goes round more often than its cap allows: `_route` asks `_edge_is_loop_capped` ("a hard cap", loop.py:939) of non-default edges only |
| `EngineCancelled` | a cancelled run becomes FAILED when its driver fails afterwards |
| `WorkspaceResume` | a run is resumed after its source repository moved on, and its valid workspace is refused |

More of the kind, each with a configuration that shows it (a violation is the
expected result):

| Configuration | What happens |
|---|---|
| `EngineDiamond` | two branches enter a node; the second entry inherits the visit of the first, and if it succeeds while the first one's request is still pending, the answer to that request mints a fresh visit (`VisitIdentity` in place of `EntryOpensVisit`), against loop.py:221 "Stable identity across retries/HITL resume" |
| `EngineRaises` | a routing expression that raises leaves the run RUNNING for ever |
| `EngineCascade` | two held joins are released together, though one feeds the other |
| `EngineTwoAnswers` | two responders answer one request |
| `TurnTimeout` | a side effect whose answer was lost fires again on the retry |
| `SandboxRetry` | the agent's code ran, but the startup marker was lost with the attached client: the run is reported as a plain `SandboxError`, which sandbox.py:65-69 defines as "not the agent's code" and the executor retries (sandbox.py:1591-1614, `_finish_timeout`) |
| `McpReread` | a run that ended with a request pending is resumed after a clean-up or a release deleted its saved list: one driver alone reads the server's list again and offers a second one, against mcp_server.py:13-17 "it is never re-read mid-run" (neither `resume_hitl`, loop.py:1105, nor `prepare_run` asks for the run's status) |
| `WorkspaceCrash` | a process dies between the rename of the workspace and its record (git_workspace.py:171-173): every later process refuses the workspace, against git_workspace.py:115 |

Further behaviours of the code that its documents do not expect, met while
modelling. The modules contain them where marked.

- Undoing a failed provisioning unlinks the record by path, and may remove the
  one another provisioner wrote meanwhile (in `Workspace`).
- The handoff counts commits before it cuts patches, so that the count can be
  older than the patches; merges are counted and not cut (in `Workspace`).
- The workspace lock is released when a call ends, also with an unknown outcome:
  its container may still run, or start, beside the next call (in
  `CodeInterpreter`, as the exception of `WorkspaceOwned`).
- Two drivers that both find no saved list each read the server's and each save
  theirs, against mcp_server.py:13-17 (in `McpTools`, as an exception of
  `ListIsKept`).
- A read-only MCP call that is cancelled after dispatch raises a `ToolkitError`: the
  cancellation is swallowed (mcp_server.py:466-486).
- `start_run` selects the active runs of a group before it inserts its own
  (loop.py:259), so that two calls can both run; a run of the queue strategy is
  never unblocked.
- A capped edge is skipped even if it is unconditional, so a node that
  `validate` calls covered can fail for want of a route (in `Engine`).
- The guards of `_dispatch` call `_fail_run` before the attempt has a row; it
  then marks the node's latest row, which may be a committed one (in `Engine`).
- "Already queued" is asked of one driver's memory: two concurrent resumes can
  dispatch a join twice for one wave (in `Engine`).
- A request answered between the end of a drain and `_finalize_status` leads to
  the branch that "shouldn't happen" without any gap in the graph (in `Engine`).
- The ordinal in a key counts refused calls and nudges, and starts again in
  every try: a retried try that asks for the same call at another position gets
  another key (in `Turn`).
- `recorded_tool_calls` belongs to one try: what a failed try of the chain ran is
  not in the count the turn reports (in `Turn`).
- `_commit_state` merges into the state that `_dispatch` loaded and reads the
  version to compare with afterwards: a commit of another process in between is
  overwritten without a conflict, against ARCH:484, and replaying the log (ARCH:480)
  then gives another state (in `StateCommit`, as the exception of
  `NothingClobbered`).
- `merge_delta` stores the first value of a key as it is. A scalar that comes
  first under the append policy stays a scalar, and the next append raises; the
  other way round both are in the list. A false value that is there already is
  replaced by a list or an object (in `StateMerge`).
- ARCH:504 says that all matching edges fire, `_route` fires the first (in
  `Engine`); the tokens of failed tries of a fallback chain do not count toward
  `max_tokens_total`; a resumed run keeps `WAITING_HUMAN` until it is finalized
  (in `Engine`).

## 12. Running it

    tlc -config EngineLoop.cfg MCEngine.tla
    tlc -config TurnLedger.cfg MCTurn.tla
    tlc -config StateRaces.cfg MCStateCommit.tla
    tlc -config SandboxRun.cfg MCSandbox.tla
    tlc -config Interpreter.cfg MCCodeInterpreter.tla
    tlc -config WorkspaceRaces.cfg MCWorkspace.tla
    tlc -config McpPins.cfg MCMcpTools.tla
    tlapm EngineProofs.tla        # and the other *Proofs modules

The operators commented "Mutation" are plausible bugs of the definition that
follows them; `PROJECT.json` says which property notices each.
