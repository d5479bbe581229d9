-------------------------- MODULE CodeInterpreter --------------------------
(***************************************************************************)
(* The calls of one CodeInterpreterHandler on one run's workspace          *)
(* (src/ravana/runtime/toolkits/code_interpreter.py): the workspace lock,  *)
(* the measuring and the staging worker, the publication of the script,    *)
(* the sandbox, and the handler's close.  The workers are owned by a       *)
(* WorkspaceWorkerSupervisor (sandbox.py): an operation that gives up      *)
(* leaves a reaper behind, and close waits for operations and reapers.     *)
(*                                                                         *)
(* The sandbox runner is SandboxContract, which Sandbox implements.        *)
(***************************************************************************)
EXTENDS Naturals

CONSTANTS Calls, None

ASSUME NoneAssumption == None \notin Calls

VARIABLES
  pc,        \* where each call is
  cancelled, \* the calls whose task carries a cancellation
  holder,    \* the call that holds the workspace's file lock, or None
  script,    \* the call whose script is the published one, or None
  worker,    \* each call's worker process, measuring or staging
  temp,      \* the calls whose staging file exists
  box,       \* each call's container
  what,      \* the call whose script the container of a call started with
  out,       \* how each call ended
  inside,    \* lifecycle._active: the calls admitted and not yet left
  sealed,    \* lifecycle._closing
  ops,       \* supervisor._active_operations
  reapers,   \* supervisor._reapers, as <<call, what is awaited>>
  errors,    \* supervisor._errors is not empty
  closing, closed, \* of the supervisor
  closer     \* where the handler's aclose() is

calls      == <<pc, cancelled, holder, script, out>>
processes  == <<worker, temp, box, what>>
supervisor == <<ops, reapers, errors>>
close      == <<sealed, closing, closed, closer>>
vars       == <<calls, processes, inside, supervisor, close>>

Unsafe == {"unknown", "cancelled"}
Ends   == Unsafe \cup {"result", "transient", "modelError", "retrySafe", "fatal"}
Resting == {"none", "nospawn", "dead"}

TypeOK ==
  /\ pc \in [Calls -> {"idle", "lock", "measure", "stage", "publish", "run", "ended"}]
  /\ cancelled \subseteq Calls
  /\ holder \in Calls \cup {None} /\ script \in Calls \cup {None}
  /\ worker \in [Calls -> Resting \cup {"spawning", "live", "killed"}]
  /\ temp \subseteq Calls
  /\ box \in [Calls -> {"none", "running", "late", "gone"}]
  /\ what \in [Calls -> Calls \cup {None}]
  /\ out \in [Calls -> Ends \cup {"none"}]
  /\ inside \subseteq Calls /\ ops \subseteq Calls
  /\ reapers \subseteq Calls \X {"spawn", "exit"}
  /\ sealed \in BOOLEAN /\ errors \in BOOLEAN /\ closing \in BOOLEAN /\ closed \in BOOLEAN
  /\ closer \in {"open", "drain", "workers", "failed", "done"}

Init ==
  /\ pc = [c \in Calls |-> "idle"]
  /\ cancelled = {} /\ holder = None /\ script = None
  /\ worker = [c \in Calls |-> "none"] /\ temp = {}
  /\ box = [c \in Calls |-> "none"] /\ what = [c \in Calls |-> None]
  /\ out = [c \in Calls |-> "none"]
  /\ inside = {} /\ ops = {} /\ reapers = {} /\ errors = FALSE
  /\ sealed = FALSE /\ closing = FALSE /\ closed = FALSE /\ closer = "open"

-----------------------------------------------------------------------------
(* Entering, leaving, and the workspace lock.                              *)

Goto(c, p) == pc' = [pc EXCEPT ![c] = p]

\* The call returns or raises: the lock and the lifecycle are left on the way.
End(c, o) ==
  /\ Goto(c, "ended") /\ out' = [out EXCEPT ![c] = o]
  /\ holder' = IF holder = c THEN None ELSE holder
  /\ inside' = inside \ {c}

\* begin_operation, then the spawn of the operation's worker.
BeginWorker(c) ==
  /\ ops' = IF closing THEN ops ELSE ops \cup {c}
  /\ worker' = [worker EXCEPT ![c] = "spawning"]

Enter(c) ==
  /\ pc[c] = "idle"
  /\ IF sealed
     THEN End(c, "fatal")
     ELSE inside' = inside \cup {c} /\ Goto(c, "lock") /\ UNCHANGED <<out, holder>>
  /\ UNCHANGED <<cancelled, script, processes, supervisor, close>>

\* Mutation: a lock that every process has to itself.
LockFreeAlways == TRUE

LockFree == holder = None

\* flock, polled until the deadline; then the execution directory is validated.
AcquireLock(c) ==
  /\ pc[c] = "lock"
  /\ \/ /\ LockFree
        /\ holder' = c /\ Goto(c, "measure") /\ BeginWorker(c) /\ UNCHANGED <<out, inside>>
     \/ LockFree /\ End(c, "fatal") /\ UNCHANGED <<worker, ops>>
     \/ End(c, "transient") /\ UNCHANGED <<worker, ops>>  \* the deadline, or no lock file
     \/ ~LockFree /\ c \in cancelled /\ End(c, "retrySafe") /\ UNCHANGED <<worker, ops>>
  /\ UNCHANGED <<cancelled, script, temp, box, what, reapers, errors, close>>

-----------------------------------------------------------------------------
(* A worker that is given up.                                              *)

\* Mutations: a reaper that is not kept; the call in place of what is awaited.
TrackNothing(r) == UNCHANGED reapers
TrackCall(r) == reapers' = reapers \cup {r[1]}

\* supervisor.track: refused once the supervisor is closed.
Track(r) == reapers' = IF closed THEN reapers ELSE reapers \cup {r}

\* The spawn is handed to a reaper; a process is killed and waited for, and
\* the wait is handed over when it does not die in time.
LetGo(c) ==
  \/ /\ worker[c] = "spawning"
     /\ Track(<<c, "spawn">>) /\ UNCHANGED worker
  \/ /\ worker[c] = "live"
     /\ \/ worker' = [worker EXCEPT ![c] = "dead"] /\ UNCHANGED reapers
        \/ worker' = [worker EXCEPT ![c] = "killed"] /\ Track(<<c, "exit">>)
  \/ /\ worker[c] = "nospawn" /\ UNCHANGED <<worker, reapers>>

\* Mutation: the outcome that was to be reported.
LitteredAnyway(o) == o

\* A staging file that could not be unlinked may still be published.
Littered(o) == "unknown"

\* The staging file is unlinked; when that fails the outcome is unknown.
GiveUp(c, o) ==
  /\ LetGo(c)
  /\ \/ temp' = temp \ {c} /\ End(c, o)
     \/ c \in temp /\ UNCHANGED temp /\ End(c, Littered(o))
  /\ ops' = ops \ {c}

\* A deadline or a failure of the worker, or the caller's cancellation.
WorkerFails(c) ==
  /\ pc[c] \in {"measure", "stage"}
  /\ \/ GiveUp(c, "transient")
     \/ worker[c] # "nospawn" /\ c \in cancelled /\ GiveUp(c, "retrySafe")
  /\ UNCHANGED <<cancelled, script, box, what, errors, close>>

-----------------------------------------------------------------------------
(* _write_script: measure, stage, publish.                                 *)

\* Within the limits: mkstemp and the staging worker follow.
Measured(c) ==
  /\ pc[c] = "measure" /\ worker[c] = "live"
  /\ \/ /\ Goto(c, "stage") /\ BeginWorker(c) /\ temp' = temp \cup {c}
        /\ UNCHANGED <<out, holder, inside>>
     \/ /\ worker' = [worker EXCEPT ![c] = "dead"] /\ ops' = ops \ {c}
        /\ \E o \in {"modelError", "transient"} : End(c, o)
        /\ UNCHANGED temp
  /\ UNCHANGED <<cancelled, script, box, what, reapers, errors, close>>

Staged(c) ==
  /\ pc[c] = "stage" /\ worker[c] = "live"
  /\ worker' = [worker EXCEPT ![c] = "dead"] /\ ops' = ops \ {c}
  /\ Goto(c, "publish")
  /\ UNCHANGED <<cancelled, holder, script, out, inside, temp, box, what, reapers, errors, close>>

\* Nothing is awaited here: a pending cancellation is looked at once, before
\* os.replace makes the staged file the script.
Publish(c) ==
  /\ pc[c] = "publish"
  /\ \/ /\ c \notin cancelled
        /\ script' = c /\ temp' = temp \ {c} /\ Goto(c, "run")
        /\ UNCHANGED <<out, holder, inside>>
     \/ /\ \/ temp' = temp \ {c} /\ End(c, IF c \in cancelled THEN "retrySafe" ELSE "transient")
           \/ UNCHANGED temp /\ End(c, "unknown")
        /\ UNCHANGED script
  /\ UNCHANGED <<cancelled, worker, box, what, supervisor, close>>

-----------------------------------------------------------------------------
(* The sandbox, as its contract has it.                                    *)

Runner == INSTANCE SandboxContract WITH box <- box, out <- out

ContainerStarts(c) ==
  /\ \/ pc[c] = "run" /\ box[c] = "none"
     \/ box[c] = "late"
  /\ box' = [box EXCEPT ![c] = "running"] /\ what' = [what EXCEPT ![c] = script]
  /\ UNCHANGED <<calls, worker, temp, inside, supervisor, close>>

ContainerEnds(c) ==
  /\ box[c] \in {"running", "late"}
  /\ box' = [box EXCEPT ![c] = "gone"]
  /\ UNCHANGED <<calls, worker, temp, what, inside, supervisor, close>>

\* What call() makes of the runner's report.
Told ==
  [result |-> "result", error |-> "transient", cancelledBefore |-> "retrySafe",
   unknown |-> "unknown", cancelled |-> "cancelled"]

RunReturns(c) ==
  /\ pc[c] = "run"
  /\ \E o \in Runner!Reports :
       /\ o \in {"cancelled", "cancelledBefore"} => c \in cancelled
       /\ Runner!Permits(box[c], o)
       /\ box' = [box EXCEPT ![c] = Runner!Left(@, o)]
       /\ End(c, Told[o])
  /\ UNCHANGED <<cancelled, script, worker, temp, what, supervisor, close>>

-----------------------------------------------------------------------------
(* Reapers and processes.                                                  *)

SpawnResolves(c) ==
  /\ worker[c] = "spawning"
  /\ \E s \in {"live", "nospawn"} : worker' = [worker EXCEPT ![c] = s]
  /\ UNCHANGED <<calls, temp, box, what, inside, supervisor, close>>

\* The late process is killed; the descriptor and the file are cleaned up.  (A
\* measuring worker has no file; its reaper may fail all the same.)
ReapSpawn(c) ==
  /\ <<c, "spawn">> \in reapers
  /\ \/ worker[c] = "nospawn" /\ UNCHANGED worker /\ reapers' = reapers \ {<<c, "spawn">>}
     \/ /\ worker[c] = "live" /\ worker' = [worker EXCEPT ![c] = "dead"]
        /\ reapers' = reapers \ {<<c, "spawn">>}
     \/ /\ worker[c] = "live" /\ worker' = [worker EXCEPT ![c] = "killed"]
        /\ reapers' = (reapers \ {<<c, "spawn">>}) \cup {<<c, "exit">>}
  /\ \/ temp' = temp \ {c} /\ UNCHANGED errors
     \/ UNCHANGED temp /\ errors' = TRUE
  /\ UNCHANGED <<calls, box, what, inside, ops, close>>

WorkerDies(c) ==
  /\ worker[c] = "killed"
  /\ worker' = [worker EXCEPT ![c] = "dead"]
  /\ reapers' = reapers \ {<<c, "exit">>}
  /\ UNCHANGED <<calls, temp, box, what, inside, ops, errors, close>>

-----------------------------------------------------------------------------
(* aclose: seal and drain the lifecycle, then the workers, then the runner.*)

Close ==
  /\ closer \in {"open", "failed"}
  /\ sealed' = TRUE /\ closer' = "drain"
  /\ UNCHANGED <<calls, processes, inside, supervisor, closing, closed>>

\* lifecycle.aclose: every admitted call left, or the deadline passed.
Drain ==
  /\ closer = "drain"
  /\ \/ inside = {} /\ closing' = TRUE /\ closer' = "workers"
     \/ inside # {} /\ closer' = "failed" /\ UNCHANGED closing
  /\ UNCHANGED <<calls, processes, inside, supervisor, sealed, closed>>

\* Mutation: operations are waited for, reapers are not.
QuietOps == ops = {}

Quiet == ops = {} /\ reapers = {}

\* supervisor.aclose, and the runner's whatever came of it: the first error
\* is raised, and a later close tries again.
CloseWorkers ==
  /\ closer = "workers"
  /\ \/ closed /\ closer' \in {"done", "failed"} /\ UNCHANGED <<closed, errors>>
     \/ /\ ~closed /\ Quiet
        /\ closed' = TRUE /\ errors' = FALSE
        /\ closer' \in IF errors THEN {"failed"} ELSE {"done", "failed"}
     \/ /\ ~closed /\ ~Quiet
        /\ closer' = "failed" /\ UNCHANGED <<closed, errors>>
  /\ UNCHANGED <<calls, processes, inside, ops, reapers, sealed, closing>>

Cancel(c) ==
  /\ pc[c] \notin {"idle", "ended"} /\ c \notin cancelled
  /\ cancelled' = cancelled \cup {c}
  /\ UNCHANGED <<pc, holder, script, out, processes, inside, supervisor, close>>

Call(c) ==
  \/ Enter(c) \/ AcquireLock(c) \/ WorkerFails(c) \/ Measured(c) \/ Staged(c)
  \/ Publish(c) \/ RunReturns(c)

Reap(c) == SpawnResolves(c) \/ ReapSpawn(c) \/ WorkerDies(c)

Next ==
  \/ \E c \in Calls : Call(c) \/ Reap(c) \/ ContainerStarts(c) \/ ContainerEnds(c) \/ Cancel(c)
  \/ Close \/ Drain \/ CloseWorkers

Spec == Init /\ [][Next]_vars

\* The loop runs every call and every reaper, and the OS ends what was killed;
\* a container need not end, and close need not be tried again.
FairSpec == Spec /\ \A c \in Calls : WF_vars(Call(c)) /\ WF_vars(Reap(c))

-----------------------------------------------------------------------------
(* Properties.                                                             *)

\* The workspace has one owner from publication through execution
\* (code_interpreter.py:593-597): a container runs the script of the call that
\* started it, never one that another call published over it, and no second
\* call's code runs beside it.  Only a call that ended unknown or cancelled may
\* still start a container, on whatever is published by then.
RunsOwnScript == \A c \in Calls : what[c] \in {None, c} \/ out[c] \in Unsafe
OneAgent ==
  \A c, d \in Calls :
    c # d /\ box[c] = "running" /\ holder = d => out[c] \in Unsafe
WorkspaceOwned == RunsOwnScript /\ OneAgent

\* A retry-safe cancellation ran nothing, and a staging file outlives its call
\* only behind an unknown outcome.
RetrySafeLeavesNothing ==
  \A c \in Calls :
    /\ out[c] = "retrySafe" => what[c] = None /\ box[c] = "none"
    /\ pc[c] = "ended" /\ c \in temp => out[c] = "unknown"

\* A closed supervisor has lost no worker: no process of it lives, no reaper
\* is pending and no call is inside (sandbox.py:259, :324-349).
ClosedIsQuiet ==
  closed => /\ inside = {} /\ reapers = {}
            /\ \A c \in Calls : worker[c] \in Resting

\* Every call ends and every worker with it, however it is cancelled, unless
\* the sandbox holds it (module Sandbox shows that it returns).
CallsEnd == \A c \in Calls : pc[c] # "idle" ~> (pc[c] = "ended" /\ worker[c] \in Resting)
=============================================================================
