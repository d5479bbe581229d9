------------------------------ MODULE McpTools ------------------------------
(***************************************************************************)
(* The tools one run is offered by one MCP server: src/ravana/runtime/     *)
(* toolkits/mcp_server.py and mcp_snapshot.py, called through the tool     *)
(* executor.  The server is not trusted and may publish another list each  *)
(* time it is asked; the list is therefore read once, pinned in the memory *)
(* of the process that read it, and saved so that the process that resumes *)
(* the run restores it.  A call runs in a session of its own, which may    *)
(* fail, time out or be cancelled at any await.                            *)
(*                                                                         *)
(* Drivers are processes that drive the run, at the same time or one after *)
(* the other, each with a runtime built when it starts.  The fingerprint   *)
(* of the admin's definition is a number, 0 if the allow-list lacks it.    *)
(***************************************************************************)
EXTENDS Naturals, FiniteSets

CONSTANTS
  Drivers,
  Tools,     \* names the server may publish
  Allowed,   \* config.allowed_tools, or None
  ReadOnly,  \* the admin's read_only_tools
  None,
  MaxConfig  \* bound: edits of the admin's definition

ASSUME ToolsAssumption ==
  /\ ReadOnly \subseteq Tools /\ Allowed # {}
  /\ IF Allowed = None THEN TRUE ELSE Allowed \subseteq Tools
ASSUME ConfigAssumption == MaxConfig \in Nat \ {0}

VARIABLES
  config,  \* the definition on disk
  status,  \* run.status
  saved,   \* the rows of mcp_tool_snapshot, or None
  proc,    \* the memory of each process
  wire,    \* what became of a driver's last call at the server
  shown,   \* history: the lists models were offered
  raced,   \* history: two drivers were reading the list at once
  reread   \* history: a driver went to read again the list of a run that was over

vars == <<config, status, saved, proc, wire, shown, raced, reread>>

Ended == {"COMPLETED", "FAILED", "CANCELLED"}
Over == status \in Ended
Configs == 0..MaxConfig
Lists == (SUBSET Tools) \ {{}}
Snapshots == [fp : Configs, list : Lists]
ASSUME NoneAssumption ==
  None \notin Tools /\ (\A l \in Lists : l # None) /\ \A s \in Snapshots : s # None

Processes == [fp : Configs, pinned : {None} \cup Lists, tool : Tools \cup {None},
              pc : {"down", "idle", "discover", "pin", "offer", "turn", "open", "sent", "closing"},
              heard : {None} \cup Lists,
              told : {"nothing", "result", "retry", "unknown", "fatal", "refused"}]

Down == [fp |-> 0, pinned |-> None, tool |-> None, pc |-> "down", heard |-> None, told |-> "nothing"]

TypeOK ==
  /\ config \in Configs
  /\ status \in {"RUNNING", "WAITING_HUMAN"} \cup Ended
  /\ saved \in {None} \cup Snapshots
  /\ proc \in [Drivers -> Processes]
  /\ wire \in [Drivers -> {"none", "sent", "ran"}]
  /\ shown \subseteq Lists
  /\ raced \in BOOLEAN /\ reread \in BOOLEAN

Init ==
  /\ config = 1 /\ status = "RUNNING" /\ saved = None
  /\ proc = [d \in Drivers |-> Down]
  /\ wire = [d \in Drivers |-> "none"]
  /\ shown = {} /\ raced = FALSE /\ reread = FALSE

At(d, pc) == proc[d].pc = pc
Becomes(d, p) == proc' = [proc EXCEPT ![d] = p]
Goes(d, pc) == Becomes(d, [proc[d] EXCEPT !.pc = pc])
Tells(d, what) == Becomes(d, [proc[d] EXCEPT !.pc = "idle", !.tool = None, !.heard = None, !.told = what])

-----------------------------------------------------------------------------
(* The life of a process and of its run.                                   *)

\* Mutation: a run that waits for an answer is taken for one that is over.
SavedUnlessRunning == IF status # "RUNNING" THEN None ELSE saved

\* cleanup: the rows of runs that are over.  (A run has its row before any
\* node of it asks for tools, so the grace for rows without a run is idle.)
SavedAfterCleanup == IF Over THEN None ELSE saved

\* build_registry reads the allow-list as it is now.
Starts(d) ==
  /\ At(d, "down")
  /\ saved' = SavedAfterCleanup
  /\ Becomes(d, [Down EXCEPT !.fp = config, !.pc = "idle"])
  /\ UNCHANGED <<config, status, wire, shown, raced, reread>>

\* Mutation: release at the end of every drain, without a look at the status.
SavedUntilRelease == None

\* What release deletes: nothing of a run that waits or goes on.
SavedAfterRelease == IF Over THEN None ELSE saved

ReleaseRun(d) ==
  /\ At(d, "idle")
  /\ saved' = SavedAfterRelease
  /\ Becomes(d, Down)
  /\ UNCHANGED <<config, status, wire, shown, raced, reread>>

Crash(d) ==
  /\ ~At(d, "down") /\ Becomes(d, Down)
  /\ UNCHANGED <<config, status, saved, wire, shown, raced, reread>>

\* The engine pauses, resumes or ends the run; another process may cancel it.
RunMoves ==
  /\ ~Over
  /\ status' \in {"RUNNING", "WAITING_HUMAN"} \cup Ended
  /\ UNCHANGED <<config, saved, proc, wire, shown, raced, reread>>

AdminEdits ==
  /\ config < MaxConfig
  /\ config' \in {0, config + 1}
  /\ UNCHANGED <<status, saved, proc, wire, shown, raced, reread>>

-----------------------------------------------------------------------------
(* A node asks for its tools.                                              *)

\* The workflow names a server that is not on the admin's list.
Refused(d) == proc[d].fp = 0

\* restore: the saved list, if it was read under the same definition.
Restorable(d) == IF saved = None THEN FALSE ELSE saved.fp = proc[d].fp

\* Another driver is between its look at what is saved and its own list.
Discovering(d) == \E e \in Drivers \ {d} : proc[e].pc \in {"discover", "pin"}

\* The run has a list already: models were offered it, or a process holds it.
Listed == shown # {} \/ \E d \in Drivers : proc[d].pinned # None

\* prepare_tools: pinned in memory, or restored, or to be discovered.  Nobody
\* looks at the status of the run: a resumed run still waits for its human, and
\* a run that is over is prepared like any other if one of its requests is
\* pending, whatever a clean-up has deleted.
PrepareRun(d) ==
  /\ At(d, "idle")
  /\ \/ /\ Refused(d) /\ Tells(d, "fatal") /\ UNCHANGED <<raced, reread>>
     \/ /\ ~Refused(d) /\ proc[d].pinned # None
        /\ Goes(d, "offer") /\ UNCHANGED <<raced, reread>>
     \/ /\ ~Refused(d) /\ proc[d].pinned = None /\ Restorable(d)
        /\ Becomes(d, [proc[d] EXCEPT !.pinned = saved.list, !.pc = "offer"])
        /\ UNCHANGED <<raced, reread>>
     \/ /\ ~Refused(d) /\ proc[d].pinned = None /\ saved # None /\ ~Restorable(d)
        /\ Tells(d, "fatal") /\ UNCHANGED <<raced, reread>>
     \/ /\ ~Refused(d) /\ proc[d].pinned = None /\ saved = None
        /\ Goes(d, "discover")
        /\ raced' = (raced \/ Discovering(d))
        /\ reread' = (reread \/ (Over /\ Listed))
  /\ UNCHANGED <<config, status, saved, wire, shown>>

Exposed(list) == IF Allowed = None THEN list ELSE list \cap Allowed

\* Mutation: the grant is published, whatever is left of the list.
AcceptableByGrant(list) == IF Allowed = None THEN TRUE ELSE Allowed \subseteq list

\* What _pin_tools accepts: the grant and the admin's read-only tools are all
\* published, and something is left to expose.
Acceptable(list) ==
  /\ IF Allowed = None THEN TRUE ELSE Allowed \subseteq list
  /\ ReadOnly \subseteq list
  /\ Exposed(list) # {}

\* The pages of tools/list, whatever the server says this time.
PinTools(d) ==
  /\ At(d, "discover")
  /\ \E list \in SUBSET Tools :
       \/ Acceptable(list) /\ Becomes(d, [proc[d] EXCEPT !.pc = "pin", !.heard = Exposed(list)])
       \/ ~Acceptable(list) /\ Tells(d, "fatal")
  /\ UNCHANGED <<config, status, saved, wire, shown, raced, reread>>

\* The server does not start, dies, or is slower than the startup timeout; the
\* session is closed before the list is used, and that may fail as well.
DiscoveryFails(d) ==
  /\ proc[d].pc \in {"discover", "pin"} /\ Tells(d, "retry")
  /\ UNCHANGED <<config, status, saved, wire, shown, raced, reread>>

\* persist replaces the rows of the run, then the list is pinned.
Pin(d) ==
  /\ At(d, "pin")
  /\ saved' = [fp |-> proc[d].fp, list |-> proc[d].heard]
  /\ Becomes(d, [proc[d] EXCEPT !.pinned = proc[d].heard, !.heard = None, !.pc = "offer"])
  /\ UNCHANGED <<config, status, wire, shown, raced, reread>>

\* tools_for: what is pinned reaches the model.
ToolsFor(d) ==
  /\ At(d, "offer") /\ Goes(d, "turn")
  /\ shown' = shown \cup {proc[d].pinned}
  /\ UNCHANGED <<config, status, saved, wire, raced, reread>>

\* The turn is over without a call.
TurnEnds(d) ==
  /\ At(d, "turn") /\ Tells(d, "nothing")
  /\ UNCHANGED <<config, status, saved, wire, shown, raced, reread>>

-----------------------------------------------------------------------------
(* The model calls a tool.                                                 *)

\* Resolution is by membership in the pinned list; a new session, a new phase.
Call(d) ==
  /\ At(d, "turn")
  /\ \E t \in Tools :
       \/ t \notin proc[d].pinned /\ Tells(d, "refused") /\ UNCHANGED wire
       \/ /\ t \in proc[d].pinned
          /\ Becomes(d, [proc[d] EXCEPT !.pc = "open", !.tool = t])
          /\ wire' = [wire EXCEPT ![d] = "none"]
  /\ UNCHANGED <<config, status, saved, shown, raced, reread>>

\* phase.dispatched, and then the request.
Dispatch(d) ==
  /\ At(d, "open") /\ Goes(d, "sent")
  /\ wire' = [wire EXCEPT ![d] = "sent"]
  /\ UNCHANGED <<config, status, saved, shown, raced, reread>>

\* Mutation: the phase is marked when the request has been answered.
DispatchedLate(d) == At(d, "closing")

Dispatched(d) == proc[d].pc \in {"sent", "closing"}

\* One policy for every failure, timeout and cancellation.
FailureForPhase(d) ==
  IF Dispatched(d) /\ proc[d].tool \notin ReadOnly THEN "unknown" ELSE "retry"

CallFails(d) ==
  /\ proc[d].pc \in {"open", "sent", "closing"} /\ Tells(d, FailureForPhase(d))
  /\ UNCHANGED <<config, status, saved, wire, shown, raced, reread>>

\* No credential to open the session with.
CredentialFails(d) ==
  /\ At(d, "open") /\ Tells(d, "fatal")
  /\ UNCHANGED <<config, status, saved, wire, shown, raced, reread>>

\* The server acts, also on a request whose caller has gone.
ServerRuns(d) ==
  /\ wire[d] = "sent" /\ wire' = [wire EXCEPT ![d] = "ran"]
  /\ UNCHANGED <<config, status, saved, proc, shown, raced, reread>>

\* The answer is rendered; one that holds the credential is never shown.
Answers(d) ==
  /\ At(d, "sent") /\ wire[d] = "ran"
  /\ Goes(d, "closing") \/ Tells(d, "unknown")
  /\ UNCHANGED <<config, status, saved, wire, shown, raced, reread>>

\* The session closed within its timeout.  The model is asked again.
Returns(d) ==
  /\ At(d, "closing")
  /\ Becomes(d, [proc[d] EXCEPT !.pc = "turn", !.tool = None, !.told = "result"])
  /\ UNCHANGED <<config, status, saved, wire, shown, raced, reread>>

-----------------------------------------------------------------------------
Step(d) ==
  \/ Starts(d) \/ ReleaseRun(d) \/ Crash(d)
  \/ PrepareRun(d) \/ PinTools(d) \/ DiscoveryFails(d) \/ Pin(d) \/ ToolsFor(d) \/ TurnEnds(d)
  \/ Call(d) \/ Dispatch(d) \/ CallFails(d) \/ CredentialFails(d)
  \/ ServerRuns(d) \/ Answers(d) \/ Returns(d)

Next == RunMoves \/ AdminEdits \/ \E d \in Drivers : Step(d)

Spec == Init /\ [][Next]_vars

-----------------------------------------------------------------------------
(* Properties.                                                             *)

\* However often a run is paused, resumed, crashed and prepared again, its
\* models are offered one list ("it is never re-read mid-run",
\* mcp_server.py:13-17), in two cases not: two drivers that both find nothing
\* saved each read the list and pin their own; and a run that is over, whose
\* saved list is deleted, reads it again if a request it left pending is answered
\* (resume_hitl asks for the status of the request only).  And as long as the
\* run lives, a list that was offered can be resumed with: what is saved is not
\* deleted by a pause, a clean-up or a failed preparation of anybody.
OneListPerRun == ~raced /\ ~reread => Cardinality(shown) <= 1
OfferedIsSaved == shown # {} /\ ~Over => saved # None
ListIsKept == OneListPerRun /\ OfferedIsSaved

\* A run has one list, unless two drivers read it at once.  Expected to fail: one
\* driver after the other reads it again once the run is over.
NeverReread == ~raced => Cardinality(shown) <= 1

\* An outcome that lets the ledger fire a side effect again is reported only
\* if the server neither acted on the request nor ever will.
RetryMeansNotSent ==
  [][\A d \in Drivers :
       /\ proc[d].tool \in Tools \ ReadOnly
       /\ At(d, "idle")' /\ proc'[d].told \in {"retry", "fatal"}
       => wire'[d] = "none"]_vars
=============================================================================
