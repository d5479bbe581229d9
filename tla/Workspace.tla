----------------------------- MODULE Workspace -----------------------------
(***************************************************************************)
(* The git workspace of one run: its provisioning (src/ravana/runtime/     *)
(* git_workspace.py) and its delivery as a patch (git_handoff.py), by      *)
(* processes that share nothing but the file system and may die at any     *)
(* step.  A workspace is staged and renamed into place; the provenance     *)
(* record is written beside it afterwards; a patch set is staged and       *)
(* renamed into place likewise.  A later process adopts what it finds if   *)
(* the record matches what it asks for.                                    *)
(*                                                                         *)
(* A commit of the source repository is a number; Head is the tip.         *)
(***************************************************************************)
EXTENDS Naturals

CONSTANTS
  Procs,      \* processes, and coroutines of one process
  None,
  MaxHead,    \* bound: commits of the source repository
  MaxCommits  \* bound: commits of the agent on the run branch

ASSUME BoundAssumption == MaxHead \in Nat \ {0} /\ MaxCommits \in Nat

VARIABLES
  mode,     \* "clone" of a git project, or "copy" of one without git
  head,     \* the tip of the source repository
  ws,       \* runs/<id>/workspace, or None
  prov,     \* the base commit in the provenance record, or None
  handoff,  \* artifacts/handoff, or None
  pc,       \* where each process is
  want,     \* the base commit it resolved, or None
  patch,    \* the patch set it has counted, then staged, or None
  told      \* what its last operation returned

files == <<ws, prov, handoff>>
procs == <<pc, want, patch, told>>
vars  == <<mode, head, files, procs>>

Bases == 1..MaxHead
Workspaces == [owner : Procs, base : Bases, commits : 0..MaxCommits,
               dirty : BOOLEAN, onBranch : BOOLEAN]
Kinds == {"start", "resume", "call"}
Patches == [commits : 0..MaxCommits, dirty : BOOLEAN]

ASSUME NoneAssumption ==
  None \notin Procs \cup Nat /\ (\A w \in Workspaces : w # None) /\ \A q \in Patches : q # None

TypeOK ==
  /\ mode \in {"clone", "copy"} /\ head \in Bases
  /\ ws \in Workspaces \cup {None}
  /\ prov \in Bases \cup {None}
  /\ handoff \in Patches \cup {None}
  /\ pc \in [Procs -> {"idle", "validate", "adopt", "clone", "publish", "record", "undo", "unlink",
                       "count", "stage", "deliver"}]
  /\ want \in [Procs -> Bases \cup {None}]
  /\ patch \in [Procs -> Patches \cup {None}]
  /\ told \in [Procs -> {"nothing", "ready", "failed", "otherBase", "stale", "patch", "noChanges"}]

Init ==
  /\ mode \in {"clone", "copy"} /\ head = 1
  /\ ws = None /\ prov = None /\ handoff = None
  /\ pc = [p \in Procs |-> "idle"]
  /\ want = [p \in Procs |-> None]
  /\ patch = [p \in Procs |-> None]
  /\ told = [p \in Procs |-> "nothing"]

Goto(p, place) == pc' = [pc EXCEPT ![p] = place]

\* The operation of p is over.
Tell(p, what) ==
  /\ Goto(p, "idle") /\ told' = [told EXCEPT ![p] = what]
  /\ want' = [want EXCEPT ![p] = None] /\ patch' = [patch EXCEPT ![p] = None]

-----------------------------------------------------------------------------
(* Provisioning.                                                           *)

\* What a request for an existing workspace insists on: prepare_run resolves
\* its own base ref (a start may name one, a resume has HEAD), a call of a
\* process that did not prepare insists on nothing, nor does a copy.
Requested(k) ==
  IF mode = "copy" \/ k = "call" THEN {None}
  ELSE IF k = "start" THEN 1..head ELSE {head}

\* Mutation: the commit before the first one.
NewBaseUnborn(k) == IF k = "start" THEN 0..head ELSE {head}

\* What a new workspace is cut from.
NewBase(k) == IF k = "start" THEN 1..head ELSE {head}

\* A new workspace is cut from the base ref, and never over a record left alone.
Provision(p, k) ==
  /\ pc[p] = "idle"
  /\ \/ /\ ws # None
        /\ \E b \in Requested(k) : want' = [want EXCEPT ![p] = b]
        /\ Goto(p, IF k = "resume" THEN "adopt" ELSE "validate")
        /\ UNCHANGED <<told, patch>>
     \/ ws = None /\ prov # None /\ Tell(p, "failed")
     \/ /\ ws = None /\ prov = None
        /\ \E b \in NewBase(k) : want' = [want EXCEPT ![p] = b]
        /\ Goto(p, "clone") /\ UNCHANGED <<told, patch>>
  /\ UNCHANGED <<mode, head, files>>

OnBranch == IF ws = None THEN FALSE ELSE ws.onBranch

\* The branch is inspected, then the record is read and compared.
ValidateExistingWorkspace(p) ==
  /\ pc[p] \in {"validate", "adopt"}
  /\ \/ OnBranch /\ prov # None /\ want[p] \in {None, prov} /\ Tell(p, "ready")
     \/ /\ OnBranch /\ prov # None /\ want[p] \notin {None, prov}
        /\ Tell(p, IF pc[p] = "adopt" THEN "stale" ELSE "otherBase")
     \/ (~OnBranch \/ prov = None) /\ Tell(p, "failed")
  /\ UNCHANGED <<mode, head, files>>

\* git clone --no-hardlinks, and checkout -b of the base commit.
Cloned(p) ==
  /\ pc[p] = "clone" /\ mode = "clone" /\ Goto(p, "publish")
  /\ UNCHANGED <<mode, head, files, want, patch, told>>

\* The shadow copy and the first commit of its new repository.
Copied(p) ==
  /\ pc[p] = "clone" /\ mode = "copy" /\ Goto(p, "publish")
  /\ UNCHANGED <<mode, head, files, want, patch, told>>

\* Mutation: os.replace of a directory that is there.
MayPublishOver == TRUE

\* os.rename onto a directory that is not empty fails.
MayPublish == ws = None

\* The loser of two provisioners removes its own staging directory, no more.
PublishWorkspace(p) ==
  /\ pc[p] = "publish"
  /\ \/ /\ MayPublish
        /\ ws' = [owner |-> p, base |-> want[p], commits |-> 0, dirty |-> FALSE, onBranch |-> TRUE]
        /\ Goto(p, "record") /\ UNCHANGED <<want, patch, told>>
     \/ ~MayPublish /\ Tell(p, "failed") /\ UNCHANGED ws
  /\ UNCHANGED <<mode, head, prov, handoff>>

\* A temporary file, fsync, os.replace; a failure takes the workspace back.
WriteProvenance(p) ==
  /\ pc[p] = "record"
  /\ \/ prov' = want[p] /\ Tell(p, "ready")
     \/ Goto(p, "undo") /\ UNCHANGED <<prov, want, patch, told>>
  /\ UNCHANGED <<mode, head, ws, handoff>>

RemoveWorkspace(p) ==
  /\ pc[p] = "undo"
  /\ ws' = None
  /\ Goto(p, "unlink")
  /\ UNCHANGED <<mode, head, prov, handoff, want, patch, told>>

\* By path, whoever wrote it.
UnlinkProvenance(p) ==
  /\ pc[p] = "unlink"
  /\ prov' = None /\ Tell(p, "failed")
  /\ UNCHANGED <<mode, head, ws, handoff>>

-----------------------------------------------------------------------------
(* Delivery.                                                               *)

\* Answered from the run directory alone once a patch set is there.
HandOff(p) ==
  /\ pc[p] = "idle"
  /\ \/ prov # None /\ handoff # None /\ Tell(p, "patch")
     \/ /\ prov # None /\ handoff = None /\ OnBranch
        /\ Goto(p, "count") /\ UNCHANGED <<want, patch, told>>
     \/ (prov = None \/ (handoff = None /\ ~OnBranch)) /\ Tell(p, "failed")
  /\ UNCHANGED <<mode, head, files>>

\* rev-list --count and status --porcelain.
CountChanges(p) ==
  /\ pc[p] = "count" /\ ws # None
  /\ \/ ws.commits = 0 /\ ~ws.dirty /\ Tell(p, "noChanges")
     \/ /\ ws.commits > 0 \/ ws.dirty
        /\ patch' = [patch EXCEPT ![p] = [commits |-> ws.commits, dirty |-> ws.dirty]]
        /\ Goto(p, "stage") /\ UNCHANGED <<want, told>>
  /\ UNCHANGED <<mode, head, files>>

\* format-patch, and the diff of the worktree if it was dirty when counted.
WritePatches(p) ==
  /\ pc[p] = "stage" /\ ws # None
  /\ patch' = [patch EXCEPT ![p].commits = ws.commits]
  /\ Goto(p, "deliver")
  /\ UNCHANGED <<mode, head, files, want, told>>

\* Mutation: a delivery made again.
MayDeliverAgain == TRUE

\* The same of a patch set.
MayDeliver == handoff = None

PublishStaging(p) ==
  /\ pc[p] = "deliver"
  /\ \/ MayDeliver /\ handoff' = patch[p] /\ Tell(p, "patch")
     \/ ~MayDeliver /\ UNCHANGED handoff /\ Tell(p, "failed")
  /\ UNCHANGED <<mode, head, ws, prov>>

-----------------------------------------------------------------------------
(* Failures, and everybody else.                                           *)

\* A git command fails or is cancelled: remove_tree(staging), and raise.
GitFails(p) ==
  /\ pc[p] \in {"validate", "adopt", "clone", "publish", "count", "stage", "deliver"}
  /\ Tell(p, "failed")
  /\ UNCHANGED <<mode, head, files>>

\* The process dies: what it renamed stays, its staging directory is litter.
Crash(p) ==
  /\ pc[p] # "idle" /\ Tell(p, "nothing")
  /\ UNCHANGED <<mode, head, files>>

\* Agent code, also a container that outlived its call.
AgentWorks ==
  /\ ws # None
  /\ \/ ws.commits < MaxCommits /\ ws' = [ws EXCEPT !.commits = @ + 1, !.dirty = FALSE]
     \/ ws' = [ws EXCEPT !.dirty = TRUE]
     \/ ws' = [ws EXCEPT !.onBranch = ~@]
  /\ UNCHANGED <<mode, head, prov, handoff, procs>>

\* The developer commits to the project, or throws the workspace away.
DeveloperCommits ==
  /\ head < MaxHead /\ head' = head + 1
  /\ UNCHANGED <<mode, files, procs>>

DeveloperDiscards ==
  /\ ws # None /\ \A p \in Procs : pc[p] = "idle"
  /\ ws' = None /\ told' = [p \in Procs |-> "nothing"]
  /\ UNCHANGED <<mode, head, prov, handoff, pc, want, patch>>

Step(p) ==
  \/ \E k \in Kinds : Provision(p, k)
  \/ ValidateExistingWorkspace(p) \/ Cloned(p) \/ Copied(p) \/ PublishWorkspace(p) \/ WriteProvenance(p)
  \/ RemoveWorkspace(p) \/ UnlinkProvenance(p)
  \/ HandOff(p) \/ CountChanges(p) \/ WritePatches(p) \/ PublishStaging(p)
  \/ GitFails(p) \/ Crash(p)

Next ==
  \/ \E p \in Procs : Step(p)
  \/ AgentWorks \/ DeveloperCommits \/ DeveloperDiscards

Spec == Init /\ [][Next]_vars

-----------------------------------------------------------------------------
(* Properties.                                                             *)

\* Two provisioners that resolved different commits, one rename and one record:
\* the record never names a base that the workspace was not cut from, so a
\* patch is always against the run's own history (git_handoff.py:14-18).
RecordMatchesWorkspace == ws # None /\ prov # None => prov = ws.base

\* Once anybody was told that the workspace is ready, no provisioner replaces
\* or removes it: "re-cloning would wipe the run's work" (git_workspace.py:117).
WorkIsKept ==
  [][(\E p \in Procs : told[p] = "ready") /\ ws # None =>
       \/ ws' # None /\ ws'.owner = ws.owner /\ ws'.commits >= ws.commits
       \/ DeveloperDiscards]_vars

\* A patch set is delivered once: no later or concurrent delivery, and nothing
\* that happens to the workspace, changes what the developer reads, and whoever
\* reports a patch found or published one (git_handoff.py:108-110).
DeliveredOnce ==
  [][/\ handoff # None => handoff' = handoff
     /\ (\E p \in Procs : told[p] # "patch" /\ told'[p] = "patch") => handoff' # None]_vars

\* "A resumed run / retry that finds a valid workspace keeps it"
\* (git_workspace.py:116-117): it is not turned away over the base commit.
ResumeKeepsWorkspace == \A p \in Procs : told[p] # "stale"

\* "so `workspace` exists iff it was fully provisioned" (git_workspace.py:115):
\* a workspace that nobody is recording has its record.
ExistsIffProvisioned ==
  ws # None /\ (\A p \in Procs : pc[p] = "idle") => prov # None
=============================================================================
