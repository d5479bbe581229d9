------------------------------ MODULE Sandbox ------------------------------
(***************************************************************************)
(* One DockerSandboxRunner.run (src/ravana/runtime/toolkits/sandbox.py):   *)
(* `docker create`, then `docker start --attach <id>`, then the proof that *)
(* the container is gone.  The runner is a coroutine that its caller may   *)
(* cancel at any await; the two CLI clients are processes that the OS may  *)
(* be slow to spawn; the daemon carries a request out when it likes, also  *)
(* after the client that sent it was killed.  What the runner reports is   *)
(* what the tool executor believes about the agent's code: an "error" or a *)
(* "cancelledBefore" is retried, the rest is not.                          *)
(*                                                                         *)
(* Time is two flags: `expired`, the run's deadline, and `cut`, the        *)
(* deadline of the cleanup in progress.  Output is the startup marker.     *)
(***************************************************************************)
EXTENDS Naturals

VARIABLES
  pc,        \* the await the runner is at
  why,       \* the path that asked for the cleanup in progress
  known,     \* identity_known: one verified absence is final
  removed,   \* this cleanup saw a removal succeed
  err,       \* this cleanup ended with an error
  cancelled, \* the task carries a cancellation request
  expired,   \* the run deadline has passed
  cut,       \* the cleanup deadline has passed
  client,    \* the processes of the two CLI clients
  req,       \* what became of their requests at the daemon
  ctr,       \* the container, as the daemon sees it
  marker,    \* the startup marker on the start client's stderr
  ran,       \* history: agent code was started
  late,      \* the client a late reaper waits for, or "none"
  out,       \* what run() returned or raised
  noted      \* an error or an unknown outcome names a cleanup error

runner == <<pc, why, known, removed, err>>
world  == <<client, req, ctr, marker, ran>>
report == <<out, noted>>
vars   == <<runner, cancelled, expired, cut, world, late, report>>

Clients    == {"create", "start"}
Retryable  == {"error", "cancelledBefore"}
Outcomes   == Retryable \cup {"result", "unknown", "cancelled"}
Absent     == {"none", "gone"}
Recovering == {"createExpired", "createCancelled", "startExpired", "startCancelled"}
Reasons    == Recovering \cup
  {"none", "createFailed", "startLate", "startDropped", "startFailed", "startLost",
   "timeout", "violation", "monitorFailed", "noMarker", "outputLost", "unproven",
   "runCancelled"}

TypeOK ==
  /\ pc \in {"scan", "creating", "waitCreate", "start", "starting", "running", "verify",
             "finalScan", "recover", "stop", "rm", "inspect", "cleaned", "returned"}
  /\ why \in Reasons
  /\ known \in BOOLEAN /\ removed \in BOOLEAN /\ err \in BOOLEAN
  /\ cancelled \in BOOLEAN /\ expired \in BOOLEAN /\ cut \in BOOLEAN
  /\ client \in [Clients -> {"none", "spawning", "live", "nospawn", "exit0", "exit1", "killed"}]
  /\ req \in [Clients -> {"no", "sent", "done", "refused"}]
  /\ ctr \in {"none", "created", "running", "exited", "gone"}
  /\ marker \in {"none", "inflight", "seen"}
  /\ ran \in BOOLEAN
  /\ late \in Clients \cup {"none"}
  /\ out \in Outcomes \cup {"none"} /\ noted \in BOOLEAN

Init ==
  /\ pc = "scan" /\ why = "none"
  /\ known = FALSE /\ removed = FALSE /\ err = FALSE
  /\ cancelled = FALSE /\ expired = FALSE /\ cut = FALSE
  /\ client = [c \in Clients |-> "none"]
  /\ req = [c \in Clients |-> "no"]
  /\ ctr = "none" /\ marker = "none" /\ ran = FALSE
  /\ late = "none" /\ out = "none" /\ noted = FALSE

-----------------------------------------------------------------------------
(* Steps every path shares.                                                *)

Goto(p) == pc' = p /\ UNCHANGED <<why, known, removed, err>>

Return(o, note) ==
  /\ pc' = "returned" /\ out' = o /\ noted' = note
  /\ UNCHANGED <<why, known, removed, err, cut>>

\* asyncio.create_task(create_subprocess_exec(...)): the handle comes later.
Spawn(c) == client' = [client EXCEPT ![c] = "spawning"]

\* The spawn returned a process, which may already have exited.
Handle(c) == client[c] \in {"live", "exit0", "exit1"}

\* _finish_uninterruptibly / _cleanup_container_uninterruptibly on a new
\* cleanup deadline: stop the client first when there is one.
Cleanup(p, w, identity) ==
  /\ pc' = p /\ why' = w /\ known' = identity
  /\ removed' = FALSE /\ err' = FALSE /\ cut' = FALSE

\* _await_spawn_uninterruptibly on the first half of a new cleanup deadline.
Recover(w) ==
  /\ pc' = "recover" /\ why' = w /\ cut' = FALSE
  /\ UNCHANGED <<known, removed, err>>

-----------------------------------------------------------------------------
(* Create: nothing here can start agent code.                              *)

InitialScan ==
  /\ pc = "scan"
  /\ \/ cancelled /\ Return("cancelledBefore", FALSE) /\ UNCHANGED client
     \/ ~cancelled /\ Return("error", FALSE) /\ UNCHANGED client   \* not measurable
     \/ ~cancelled /\ Return("result", FALSE) /\ UNCHANGED client  \* over the limit
     \/ ~cancelled /\ Goto("creating") /\ Spawn("create") /\ UNCHANGED <<report, cut>>
  /\ UNCHANGED <<cancelled, expired, req, ctr, marker, ran, late>>

CreateContainer ==
  /\ pc = "creating"
  /\ \/ /\ Handle("create") /\ ~cancelled
        /\ Goto("waitCreate") /\ UNCHANGED <<report, cut>>
     \/ /\ Handle("create") /\ cancelled
        /\ Cleanup("stop", "createCancelled", FALSE) /\ UNCHANGED report
     \/ /\ client["create"] = "nospawn"
        /\ Return(IF cancelled THEN "cancelledBefore" ELSE "error", FALSE)
     \/ /\ client["create"] = "spawning" /\ expired
        /\ Recover("createExpired") /\ UNCHANGED report
     \/ /\ client["create"] = "spawning" /\ cancelled
        /\ Recover("createCancelled") /\ UNCHANGED report
  /\ UNCHANGED <<cancelled, expired, world, late>>

\* A usable identity needs a zero exit, streams that closed, and an ID in them.
WaitForCreatedContainer ==
  /\ pc = "waitCreate"
  /\ \/ client["create"] = "exit0" /\ Goto("start") /\ UNCHANGED cut
     \/ client["create"] \in {"exit0", "exit1"} /\ Cleanup("rm", "createFailed", TRUE)
     \/ client["create"] = "live" /\ expired /\ Cleanup("stop", "createExpired", FALSE)
     \/ cancelled /\ Cleanup("stop", "createCancelled", client["create"] # "live")
  /\ UNCHANGED <<cancelled, expired, world, late, report>>

-----------------------------------------------------------------------------
(* Start: from the spawn of the start client on, agent code may run.       *)

StartContainer ==
  /\ pc = "start"
  /\ \/ expired /\ Cleanup("rm", "startLate", TRUE) /\ UNCHANGED client
     \/ ~expired /\ cancelled /\ Cleanup("rm", "startDropped", TRUE) /\ UNCHANGED client
     \/ ~expired /\ ~cancelled /\ Goto("starting") /\ Spawn("start") /\ UNCHANGED cut
  /\ UNCHANGED <<cancelled, expired, req, ctr, marker, ran, late, report>>

AwaitStartClient ==
  /\ pc = "starting"
  /\ \/ Handle("start") /\ ~cancelled /\ Goto("running") /\ UNCHANGED cut
     \/ Handle("start") /\ cancelled /\ Cleanup("stop", "startCancelled", TRUE)
     \/ client["start"] = "nospawn" /\ Cleanup("rm", "startFailed", TRUE)
     \/ client["start"] = "spawning" /\ expired /\ Recover("startExpired")
     \/ client["start"] = "spawning" /\ cancelled /\ Recover("startCancelled")
  /\ UNCHANGED <<cancelled, expired, world, late, report>>

Exited == client["start"] \in {"exit0", "exit1"}

RunSpawnedProcess ==
  /\ pc = "running"
  /\ \/ cancelled /\ Cleanup("stop", "runCancelled", TRUE)
     \/ ~Exited /\ expired /\ Cleanup("stop", "timeout", TRUE)
     \/ \E w \in {"violation", "monitorFailed"} : Cleanup("stop", w, TRUE)
     \/ Exited /\ Cleanup("stop", "outputLost", TRUE)
     \/ Exited /\ marker # "seen" /\ Cleanup("stop", "noMarker", TRUE)
     \/ Exited /\ marker = "seen" /\ Goto("verify") /\ UNCHANGED cut
  /\ UNCHANGED <<cancelled, expired, world, late, report>>

\* The client's exit proves nothing: the daemon must say the container is gone.
VerifyAttachedExit ==
  /\ pc = "verify"
  /\ \/ ctr \in Absent /\ cancelled /\ Return("cancelled", FALSE)
     \/ ctr \in Absent /\ ~cancelled /\ Goto("finalScan") /\ UNCHANGED <<report, cut>>
     \/ Cleanup("rm", "unproven", TRUE) /\ UNCHANGED report  \* still there, or inspect failed
  /\ UNCHANGED <<cancelled, expired, world, late>>

FinalScan ==
  /\ pc = "finalScan"
  /\ \/ cancelled /\ Return("cancelled", FALSE)
     \/ \E o \in {"result", "unknown"} : Return(o, FALSE)
  /\ UNCHANGED <<cancelled, expired, world, late>>

-----------------------------------------------------------------------------
(* A client that is not there yet when the run gives up on it.             *)

Unspawned == IF why \in {"createExpired", "createCancelled"} THEN "create" ELSE "start"

\* The handle came: stop the client, then remove the container.
RecoverHandle ==
  /\ pc = "recover" /\ Handle(Unspawned)
  /\ pc' = "stop" /\ known' = (Unspawned = "start")
  /\ why' = IF why = "startExpired" THEN IF cancelled THEN "runCancelled" ELSE "timeout" ELSE why
  /\ removed' = FALSE /\ err' = FALSE
  /\ UNCHANGED <<cut, cancelled, expired, world, late, report>>

\* The spawn failed: no client ever existed.
RecoverNoClient ==
  /\ pc = "recover" /\ client[Unspawned] = "nospawn"
  /\ \/ /\ Unspawned = "create"
        /\ Return(IF cancelled THEN "cancelledBefore" ELSE "error", FALSE)
     \/ /\ Unspawned = "start"
        /\ pc' = "rm" /\ why' = "startFailed" /\ known' = TRUE
        /\ removed' = FALSE /\ err' = FALSE /\ UNCHANGED <<report, cut>>
  /\ UNCHANGED <<cancelled, expired, world, late>>

\* Mutation: a create that cannot run agent code is not worth a reaper.
HandedOverStart == IF Unspawned = "start" THEN "start" ELSE "none"

\* Half of the cleanup deadline went by: a reaper takes the spawn over.
HandedOver == Unspawned

RecoverTimesOut ==
  /\ pc = "recover" /\ client[Unspawned] = "spawning"
  /\ late' = HandedOver
  /\ pc' = "rm" /\ known' = (Unspawned = "start")
  /\ why' = IF why = "startExpired" THEN "startLost" ELSE why
  /\ removed' = FALSE /\ err' = FALSE
  /\ UNCHANGED <<cut, cancelled, expired, world, report>>

-----------------------------------------------------------------------------
(* Cleanup: stop the client; remove, then inspect, until the daemon agrees *)
(* or the deadline passes.  A control command may fail, and a removal that *)
(* is reported as failed may have been carried out.                        *)

Client == IF why \in {"createExpired", "createCancelled", "createFailed"} THEN "create" ELSE "start"

StopClient ==
  /\ pc = "stop"
  /\ client' = IF client[Client] = "live" THEN [client EXCEPT ![Client] = "killed"] ELSE client
  /\ err' \in {err, cut}
  /\ pc' = "rm"
  /\ UNCHANGED <<why, known, removed, cancelled, expired, cut, req, ctr, marker, ran, late, report>>

ForceRemoveContainer ==
  /\ pc = "rm" /\ ~cut
  /\ \/ ctr \notin Absent /\ ctr' = "gone" /\ removed' \in {removed, TRUE}
     \/ UNCHANGED <<ctr, removed>>
  /\ pc' = "inspect"
  /\ UNCHANGED <<why, known, err, cancelled, expired, cut, client, req, marker, ran, late, report>>

\* Mutation: an absence is an absence.
SettledByAbsence == ctr \in Absent

\* An interrupted create may still be on its way: only a removal that
\* succeeded, followed by an absence, ends the wait for it.
Settled == ctr \in Absent /\ (known \/ removed)

ContainerIsAbsent ==
  /\ pc = "inspect"
  /\ \/ ~cut /\ Settled /\ pc' = "cleaned"
     \/ pc' = "rm"
  /\ UNCHANGED <<why, known, removed, err, cancelled, expired, cut, world, late, report>>

\* Mutation: a container that is known to exist is waited for.
OverdueUnlessKnown == cut /\ ~known

\* The deadline of the cleanup is looked at between two commands.
Overdue == cut

CleanupExpires ==
  /\ pc = "rm" /\ Overdue
  /\ pc' = "cleaned" /\ err' = TRUE
  /\ UNCHANGED <<why, known, removed, cancelled, expired, cut, world, late, report>>

-----------------------------------------------------------------------------
(* What a path reports once its cleanup is over.                           *)

Cleaned(reasons) == pc = "cleaned" /\ why \in reasons

FinishCreate ==
  /\ Cleaned({"createExpired", "createFailed", "createCancelled"})
  /\ IF cancelled THEN Return("cancelledBefore", FALSE) ELSE Return("error", err)
  /\ UNCHANGED <<cancelled, expired, world, late>>

FinishBeforeStart ==
  /\ Cleaned({"startLate", "startDropped", "startFailed"})
  /\ IF cancelled THEN Return("cancelledBefore", FALSE) ELSE Return("error", err)
  /\ UNCHANGED <<cancelled, expired, world, late>>

\* Mutations: the start client was stopped, so nothing ran; a name of its own.
CancelledTooSoon == "cancelledBefore"
CancelledUnnamed == "stopped"

\* From the spawn of the start client on, a cancellation may have left effects.
CancelledAfterStart == "cancelled"

FinishCancelledSpawn ==
  /\ Cleaned({"startCancelled", "runCancelled"})
  /\ Return(CancelledAfterStart, FALSE)
  /\ UNCHANGED <<cancelled, expired, world, late>>

FinishExpiredSpawn ==
  /\ Cleaned({"startLost"})
  /\ IF cancelled THEN Return("cancelled", FALSE) ELSE Return("unknown", err)
  /\ UNCHANGED <<cancelled, expired, world, late>>

\* Mutation: the output was complete, whatever the cleanup says.
UnprovedByOutput(lost) == lost

\* What forbids a verdict on a run that was stopped.
Unproved(lost) == err \/ lost

\* A timeout without the marker is taken for a command that never started.
FinishTimeout ==
  /\ Cleaned({"timeout"})
  /\ \E lost \in BOOLEAN :
       \/ cancelled /\ Return("cancelled", FALSE)
       \/ ~cancelled /\ Unproved(lost) /\ Return("unknown", TRUE)
       \/ ~cancelled /\ ~Unproved(lost)
          /\ Return(IF marker = "seen" THEN "result" ELSE "error", FALSE)
  /\ UNCHANGED <<cancelled, expired, world, late>>

FinishWorkspaceViolation ==
  /\ Cleaned({"violation", "monitorFailed"})
  /\ \E lost \in BOOLEAN :
       \/ cancelled /\ Return("cancelled", FALSE)
       \/ ~cancelled /\ (Unproved(lost) \/ why = "monitorFailed") /\ Return("unknown", Unproved(lost))
       \/ ~cancelled /\ ~Unproved(lost) /\ why = "violation" /\ Return("result", FALSE)
  /\ UNCHANGED <<cancelled, expired, world, late>>

FinishNoMarker ==
  /\ Cleaned({"noMarker"})
  /\ \/ cancelled /\ Return("cancelled", FALSE)
     \/ ~cancelled /\ Return(IF err THEN "unknown" ELSE "error", err)
  /\ UNCHANGED <<cancelled, expired, world, late>>

FinishUnproven ==
  /\ Cleaned({"outputLost", "unproven"})
  /\ IF cancelled THEN Return("cancelled", FALSE) ELSE Return("unknown", err)
  /\ UNCHANGED <<cancelled, expired, world, late>>

-----------------------------------------------------------------------------
(* The reaper of a spawn the run did not wait for.                         *)

LateSpawnFailed ==
  /\ late # "none" /\ client[late] = "nospawn"
  /\ late' = "none"
  /\ UNCHANGED <<runner, cancelled, expired, cut, world, report>>

LateStop ==
  /\ late # "none" /\ Handle(late)
  /\ client' = IF client[late] = "live" THEN [client EXCEPT ![late] = "killed"] ELSE client
  /\ late' = "none"
  \* its own removal, carried out or given up; one still to come may be missed
  /\ \/ ctr \notin Absent /\ ctr' = "gone"
     \/ UNCHANGED ctr
  /\ UNCHANGED <<runner, cancelled, expired, cut, req, marker, ran, report>>

-----------------------------------------------------------------------------
(* The clients, the daemon and the caller.                                 *)

SpawnResolves(c) ==
  /\ client[c] = "spawning"
  /\ \E s \in {"live", "nospawn"} : client' = [client EXCEPT ![c] = s]
  /\ UNCHANGED <<runner, cancelled, expired, cut, req, ctr, marker, ran, late, report>>

ClientSends(c) ==
  /\ client[c] = "live" /\ req[c] = "no"
  /\ req' = [req EXCEPT ![c] = "sent"]
  /\ UNCHANGED <<runner, cancelled, expired, cut, client, ctr, marker, ran, late, report>>

\* The create client's exit tells what the daemon did; the attached client
\* relays the container's output to its end, or loses the connection.
ClientExits(c) ==
  /\ client[c] = "live"
  /\ \/ /\ c = "create" /\ req[c] # "sent"
        /\ client' = [client EXCEPT ![c] = IF req[c] = "done" THEN "exit0" ELSE "exit1"]
     \/ /\ c = "start" /\ ctr \in {"exited", "gone"} /\ marker = "seen"
        /\ client' = [client EXCEPT ![c] = "exit0"]
     \/ c = "start" /\ client' = [client EXCEPT ![c] = "exit1"]
  /\ UNCHANGED <<runner, cancelled, expired, cut, req, ctr, marker, ran, late, report>>

DaemonCreates ==
  /\ req["create"] = "sent"
  /\ \/ req' = [req EXCEPT !["create"] = "done"] /\ ctr' = "created"
     \/ req' = [req EXCEPT !["create"] = "refused"] /\ UNCHANGED ctr
  /\ UNCHANGED <<runner, cancelled, expired, cut, client, marker, ran, late, report>>

\* The container's shell writes the marker, then runs the agent's command.
DaemonStarts ==
  /\ req["start"] = "sent"
  /\ \/ /\ ctr = "created"
        /\ ctr' = "running" /\ ran' = TRUE /\ marker' = "inflight"
        /\ req' = [req EXCEPT !["start"] = "done"]
     \/ /\ req' = [req EXCEPT !["start"] = "refused"] /\ UNCHANGED <<ctr, ran, marker>>
  /\ UNCHANGED <<runner, cancelled, expired, cut, client, late, report>>

MarkerArrives ==
  /\ marker = "inflight" /\ client["start"] = "live"
  /\ marker' = "seen"
  /\ UNCHANGED <<runner, cancelled, expired, cut, client, req, ctr, ran, late, report>>

\* The command ends, and then --rm removes the container.
ContainerEnds ==
  /\ \/ ctr = "running" /\ ctr' = "exited"
     \/ ctr = "exited" /\ ctr' = "gone"
  /\ UNCHANGED <<runner, cancelled, expired, cut, client, req, marker, ran, late, report>>

Cancel ==
  /\ ~cancelled /\ pc # "returned"
  /\ cancelled' = TRUE
  /\ UNCHANGED <<runner, expired, cut, world, late, report>>

RunDeadline ==
  /\ ~expired /\ pc \in {"creating", "waitCreate", "start", "starting", "running"}
  /\ expired' = TRUE
  /\ UNCHANGED <<runner, cancelled, cut, world, late, report>>

CleanupDeadline ==
  /\ ~cut /\ pc \in {"stop", "rm", "inspect"}
  /\ cut' = TRUE
  /\ UNCHANGED <<runner, cancelled, expired, world, late, report>>

Finish ==
  \/ FinishCreate \/ FinishBeforeStart \/ FinishCancelledSpawn \/ FinishExpiredSpawn
  \/ FinishTimeout \/ FinishWorkspaceViolation \/ FinishNoMarker \/ FinishUnproven

Runner ==
  \/ InitialScan \/ CreateContainer \/ WaitForCreatedContainer
  \/ StartContainer \/ AwaitStartClient \/ RunSpawnedProcess \/ VerifyAttachedExit \/ FinalScan
  \/ RecoverHandle \/ RecoverNoClient \/ RecoverTimesOut
  \/ StopClient \/ ForceRemoveContainer \/ ContainerIsAbsent \/ CleanupExpires
  \/ Finish

Reaper == LateSpawnFailed \/ LateStop

World ==
  \/ \E c \in Clients : SpawnResolves(c) \/ ClientSends(c) \/ ClientExits(c)
  \/ DaemonCreates \/ DaemonStarts \/ MarkerArrives \/ ContainerEnds

Next == Runner \/ Reaper \/ World \/ Cancel \/ RunDeadline \/ CleanupDeadline

Spec == Init /\ [][Next]_vars

\* The loop runs the coroutine and its reaper, clocks advance, the OS answers
\* a spawn.  Nothing is asked of the daemon, the clients or the caller.
\* The reapers of late spawns are tasks that nobody refers to or awaits: fairness
\* towards them supposes that the event loop is not torn down before they end.
Fairness ==
  /\ WF_vars(Runner) /\ WF_vars(Reaper)
  /\ WF_vars(RunDeadline) /\ WF_vars(CleanupDeadline)
  /\ \A c \in Clients : WF_vars(SpawnResolves(c))

FairSpec == Spec /\ Fairness

-----------------------------------------------------------------------------
(* Properties.                                                             *)

\* Sandbox implements SandboxContract: the container's command is the code, an
\* exited container runs none, and a start still possible is a late one.  So a
\* cancellation before the start means that nothing ran (sandbox.py:80-81), and
\* after a retry-safe report no request still on its way, no reaper and no client
\* left behind starts agent code, which the retry would run twice
\* (sandbox.py:100-103).
Box ==
  IF ran THEN IF ctr = "running" THEN "running" ELSE "gone"
  ELSE IF out \in {"unknown", "cancelled"} THEN "late" ELSE "none"

Contract == INSTANCE SandboxContract WITH box <- Box, out <- out

KeepsContract == Contract!Spec

\* After a result, or an error without a cleanup note, there is no container
\* and none appears: also not from a create that was still on its way.
LeakIsReported == out \in {"result", "error"} /\ ~noted => ctr \in Absent

\* No path waits for ever: whatever the daemon and the CLI do, and whenever the
\* caller cancels, the run reports something, and every client process that it
\* created ends, also one spawned after it gave up.
RunEnds == <>[](out # "none" /\ \A c \in Clients : client[c] \notin {"spawning", "live"})

\* "Retrying this invocation is unsafe because agent code may already have
\* mutated the workspace" (sandbox.py:72-77) is kept for OutcomeUnknown; an
\* "error" is "NOT the agent's code" (sandbox.py:65-69): nothing ran.
ErrorMeansNeverRan == out = "error" => ~ran
=============================================================================
