-------------------------- MODULE WorkspaceProofs --------------------------
(***************************************************************************)
(* Theorems about Workspace, for every number of processes and commits,    *)
(* whatever fails or dies.                                                 *)
(***************************************************************************)
EXTENDS Workspace, TLAPS

Places == {"idle", "validate", "adopt", "clone", "publish", "record", "undo", "unlink",
           "count", "stage", "deliver"}

\* The parts of TypeOK.
FilesTyped ==
  /\ mode \in {"clone", "copy"} /\ head \in Bases
  /\ ws \in Workspaces \cup {None}
  /\ prov \in Bases \cup {None}
  /\ handoff \in Patches \cup {None}

ProcsTyped ==
  /\ pc \in [Procs -> Places]
  /\ want \in [Procs -> Bases \cup {None}]
  /\ patch \in [Procs -> Patches \cup {None}]
  /\ told \in [Procs -> {"nothing", "ready", "failed", "otherBase", "stale", "patch", "noChanges"}]

\* What an operation in progress dereferences exists.
PlacesOK ==
  \A p \in Procs :
    /\ pc[p] \in {"clone", "publish", "record", "undo"} => want[p] # None
    /\ pc[p] \in {"stage", "deliver"} => patch[p] # None

\* A provisioner that is not over owns the workspace, and it has no record yet.
RecordingOK ==
  /\ \A p \in Procs :
       pc[p] \in {"record", "undo"} =>
         ws # None /\ ws.owner = p /\ ws.base = want[p] /\ prov = None
  /\ \A p \in Procs : pc[p] \in {"clone", "publish"} => (prov # None => ws # None)
  /\ RecordMatchesWorkspace

\* Whoever was told that there is a workspace can rely on it.
ReadyOK ==
  \A p \in Procs : told[p] = "ready" =>
    ws # None /\ \A q \in Procs : pc[q] \notin {"record", "undo"}

IInv == FilesTyped /\ ProcsTyped /\ PlacesOK /\ RecordingOK /\ ReadyOK

LEMMA InitInv == Init => IInv
<1>. USE NoneAssumption, BoundAssumption DEF Init
<1>1. Init => FilesTyped
  BY DEF FilesTyped, Bases
<1>2. Init => ProcsTyped
  BY DEF ProcsTyped, Places
<1>3. Init => PlacesOK /\ RecordingOK /\ ReadyOK
  BY DEF PlacesOK, RecordingOK, RecordMatchesWorkspace, ReadyOK
<1>. QED  BY <1>1, <1>2, <1>3 DEF IInv

-----------------------------------------------------------------------------
(* What a step writes, where it is a record.                               *)

LEMMA NewWorkspace ==
  ASSUME IInv, NEW p \in Procs, PublishWorkspace(p), ws = None \/ ws' # ws
  PROVE  /\ ws = None /\ ws' \in Workspaces /\ ws' # None /\ ws'.owner = p /\ ws'.base = want[p]
         /\ pc' = [pc EXCEPT ![p] = "record"] /\ UNCHANGED <<want, patch, told>>
<1>. DEFINE w == [owner |-> p, base |-> want[p], commits |-> 0, dirty |-> FALSE, onBranch |-> TRUE]
<1>1. ws = None /\ ws' = w /\ pc' = [pc EXCEPT ![p] = "record"] /\ UNCHANGED <<want, patch, told>>
  BY DEF PublishWorkspace, MayPublish, Goto
<1>2. want[p] \in Bases
  BY DEF PublishWorkspace, IInv, PlacesOK, ProcsTyped
<1>3. w \in Workspaces /\ w.owner = p /\ w.base = want[p]
  BY <1>2, BoundAssumption DEF Workspaces
<1>. QED  BY <1>1, <1>3, NoneAssumption

LEMMA AgentKeeps ==
  ASSUME IInv, AgentWorks
  PROVE  /\ ws # None /\ ws' \in Workspaces /\ ws' # None
         /\ ws'.owner = ws.owner /\ ws'.base = ws.base /\ ws'.commits >= ws.commits
<1>1. ws \in Workspaces /\ ws # None
  BY DEF IInv, FilesTyped, AgentWorks
<1>0. ws.commits \in Nat
  BY <1>1, BoundAssumption DEF Workspaces
<1>2. CASE ws.commits < MaxCommits /\ ws' = [ws EXCEPT !.commits = @ + 1, !.dirty = FALSE]
  <2>1. ws.commits + 1 \in 0..MaxCommits
    BY <1>1, <1>2, BoundAssumption DEF Workspaces
  <2>2. ws' \in Workspaces
    BY <1>1, <1>2, <2>1 DEF Workspaces
  <2>3. ws'.owner = ws.owner /\ ws'.base = ws.base /\ ws'.commits = ws.commits + 1
    BY <1>1, <1>2 DEF Workspaces
  <2>. QED  BY <1>0, <1>1, <2>2, <2>3, NoneAssumption
<1>3. CASE ws' = [ws EXCEPT !.dirty = TRUE]
  <2>1. ws' \in Workspaces
    BY <1>1, <1>3 DEF Workspaces
  <2>2. ws'.owner = ws.owner /\ ws'.base = ws.base /\ ws'.commits = ws.commits
    BY <1>1, <1>3 DEF Workspaces
  <2>. QED  BY <1>0, <1>1, <2>1, <2>2, NoneAssumption
<1>4. CASE ws' = [ws EXCEPT !.onBranch = ~@]
  <2>1. ws' \in Workspaces
    BY <1>1, <1>4 DEF Workspaces
  <2>2. ws'.owner = ws.owner /\ ws'.base = ws.base /\ ws'.commits = ws.commits
    BY <1>1, <1>4 DEF Workspaces
  <2>. QED  BY <1>0, <1>1, <2>1, <2>2, NoneAssumption
<1>. QED  BY <1>2, <1>3, <1>4 DEF AgentWorks

LEMMA NewPatch ==
  ASSUME IInv, NEW p \in Procs, CountChanges(p) \/ WritePatches(p)
  PROVE  \/ /\ pc' = [pc EXCEPT ![p] = "idle"] /\ told' = [told EXCEPT ![p] = "noChanges"]
            /\ want' = [want EXCEPT ![p] = None] /\ patch' = [patch EXCEPT ![p] = None]
         \/ \E q \in Patches, place \in {"stage", "deliver"} :
              /\ pc' = [pc EXCEPT ![p] = place] /\ patch' = [patch EXCEPT ![p] = q]
              /\ q # None /\ UNCHANGED <<want, told>>
<1>0. ws # None => ws \in Workspaces
  BY DEF IInv, FilesTyped
<1>1. CASE CountChanges(p)
  <2>. DEFINE q == [commits |-> ws.commits, dirty |-> ws.dirty]
  <2>1. q \in Patches
    BY <1>0, <1>1 DEF CountChanges, Workspaces, Patches
  <2>. QED  BY <1>1, <2>1, NoneAssumption DEF CountChanges, Tell, Goto
<1>2. CASE WritePatches(p)
  <2>1. patch[p] \in Patches
    BY <1>2 DEF WritePatches, IInv, PlacesOK, ProcsTyped
  <2>2. [patch[p] EXCEPT !.commits = ws.commits] \in Patches
    BY <1>0, <1>2, <2>1 DEF WritePatches, Workspaces, Patches
  <2>3. patch' = [patch EXCEPT ![p] = [patch[p] EXCEPT !.commits = ws.commits]]
    BY <1>2 DEF WritePatches, IInv, ProcsTyped
  <2>. QED  BY <1>2, <2>2, <2>3, NoneAssumption DEF WritePatches, Goto
<1>. QED  BY <1>1, <1>2

-----------------------------------------------------------------------------
(* One lemma for each part of the invariant, one step for each action.     *)

LEMMA FilesKept ==
  ASSUME IInv, Next
  PROVE  FilesTyped'
<1>. USE NoneAssumption, BoundAssumption
     DEF IInv, FilesTyped, ProcsTyped, PlacesOK, Workspaces,
         vars, files, procs, Goto, Tell
<1>1. ASSUME NEW p \in Procs, NEW k \in Kinds, Provision(p, k) PROVE FilesTyped'
  BY <1>1 DEF Provision, Requested, NewBase, Bases
<1>2. ASSUME NEW p \in Procs, ValidateExistingWorkspace(p) PROVE FilesTyped'
  BY <1>2 DEF ValidateExistingWorkspace, OnBranch
<1>3. ASSUME NEW p \in Procs, Cloned(p) PROVE FilesTyped'
  BY <1>3 DEF Cloned
<1>4. ASSUME NEW p \in Procs, Copied(p) PROVE FilesTyped'
  BY <1>4 DEF Copied
<1>5. ASSUME NEW p \in Procs, PublishWorkspace(p) PROVE FilesTyped'
  <2>1. CASE ws # None
    BY <1>5, <2>1 DEF PublishWorkspace, MayPublish
  <2>2. CASE ws = None
    <3>1. UNCHANGED <<mode, head, prov, handoff>> /\ pc[p] = "publish"
      BY <1>5 DEF PublishWorkspace
    <3>. QED  BY <1>5, <2>2, <3>1, NewWorkspace
  <2>. QED  BY <2>1, <2>2
<1>6. ASSUME NEW p \in Procs, WriteProvenance(p) PROVE FilesTyped'
  BY <1>6 DEF WriteProvenance
<1>7. ASSUME NEW p \in Procs, RemoveWorkspace(p) PROVE FilesTyped'
  BY <1>7 DEF RemoveWorkspace
<1>8. ASSUME NEW p \in Procs, UnlinkProvenance(p) PROVE FilesTyped'
  BY <1>8 DEF UnlinkProvenance
<1>9. ASSUME NEW p \in Procs, HandOff(p) PROVE FilesTyped'
  BY <1>9 DEF HandOff
<1>10. ASSUME NEW p \in Procs, CountChanges(p) PROVE FilesTyped'
  BY <1>10 DEF CountChanges
<1>11. ASSUME NEW p \in Procs, WritePatches(p) PROVE FilesTyped'
  BY <1>11 DEF WritePatches
<1>12. ASSUME NEW p \in Procs, PublishStaging(p) PROVE FilesTyped'
  BY <1>12 DEF PublishStaging, MayDeliver
<1>13. ASSUME NEW p \in Procs, GitFails(p) PROVE FilesTyped'
  BY <1>13 DEF GitFails
<1>14. ASSUME NEW p \in Procs, Crash(p) PROVE FilesTyped'
  BY <1>14 DEF Crash
<1>15. CASE AgentWorks
  <2>1. UNCHANGED <<mode, head, prov, handoff, procs>>
    BY <1>15 DEF AgentWorks
  <2>. QED  BY <1>15, <2>1, AgentKeeps
<1>16. CASE DeveloperCommits
  BY <1>16 DEF DeveloperCommits, Bases, Workspaces
<1>17. CASE DeveloperDiscards
  BY <1>17 DEF DeveloperDiscards
<1>. QED
  BY <1>1, <1>2, <1>3, <1>4, <1>5, <1>6, <1>7, <1>8, <1>9, <1>10, <1>11, <1>12, <1>13, <1>14,
     <1>15, <1>16, <1>17
  DEF Next, Step

LEMMA ProcsKept ==
  ASSUME IInv, Next
  PROVE  ProcsTyped'
<1>. USE NoneAssumption, BoundAssumption
     DEF IInv, FilesTyped, ProcsTyped, PlacesOK, Places,
         vars, files, procs, Goto, Tell
<1>1. ASSUME NEW p \in Procs, NEW k \in Kinds, Provision(p, k) PROVE ProcsTyped'
  BY <1>1 DEF Provision, Requested, NewBase, Bases
<1>2. ASSUME NEW p \in Procs, ValidateExistingWorkspace(p) PROVE ProcsTyped'
  BY <1>2 DEF ValidateExistingWorkspace, OnBranch
<1>3. ASSUME NEW p \in Procs, Cloned(p) PROVE ProcsTyped'
  BY <1>3 DEF Cloned
<1>4. ASSUME NEW p \in Procs, Copied(p) PROVE ProcsTyped'
  BY <1>4 DEF Copied
<1>5. ASSUME NEW p \in Procs, PublishWorkspace(p) PROVE ProcsTyped'
  BY <1>5 DEF PublishWorkspace, MayPublish
<1>6. ASSUME NEW p \in Procs, WriteProvenance(p) PROVE ProcsTyped'
  BY <1>6 DEF WriteProvenance
<1>7. ASSUME NEW p \in Procs, RemoveWorkspace(p) PROVE ProcsTyped'
  BY <1>7 DEF RemoveWorkspace
<1>8. ASSUME NEW p \in Procs, UnlinkProvenance(p) PROVE ProcsTyped'
  BY <1>8 DEF UnlinkProvenance
<1>9. ASSUME NEW p \in Procs, HandOff(p) PROVE ProcsTyped'
  BY <1>9 DEF HandOff
<1>10. ASSUME NEW p \in Procs, CountChanges(p) PROVE ProcsTyped'
  BY <1>10, NewPatch
<1>11. ASSUME NEW p \in Procs, WritePatches(p) PROVE ProcsTyped'
  BY <1>11, NewPatch
<1>12. ASSUME NEW p \in Procs, PublishStaging(p) PROVE ProcsTyped'
  BY <1>12 DEF PublishStaging, MayDeliver
<1>13. ASSUME NEW p \in Procs, GitFails(p) PROVE ProcsTyped'
  BY <1>13 DEF GitFails
<1>14. ASSUME NEW p \in Procs, Crash(p) PROVE ProcsTyped'
  BY <1>14 DEF Crash
<1>15. CASE AgentWorks
  BY <1>15 DEF AgentWorks, Workspaces
<1>16. CASE DeveloperCommits
  BY <1>16 DEF DeveloperCommits
<1>17. CASE DeveloperDiscards
  BY <1>17 DEF DeveloperDiscards
<1>. QED
  BY <1>1, <1>2, <1>3, <1>4, <1>5, <1>6, <1>7, <1>8, <1>9, <1>10, <1>11, <1>12, <1>13, <1>14,
     <1>15, <1>16, <1>17
  DEF Next, Step

LEMMA PlacesKept ==
  ASSUME IInv, Next
  PROVE  PlacesOK'
<1>. USE NoneAssumption, BoundAssumption
     DEF IInv, FilesTyped, ProcsTyped, PlacesOK,
         vars, files, procs, Goto, Tell
<1>1. ASSUME NEW p \in Procs, NEW k \in Kinds, Provision(p, k) PROVE PlacesOK'
  BY <1>1 DEF Provision, Requested, NewBase, Bases
<1>2. ASSUME NEW p \in Procs, ValidateExistingWorkspace(p) PROVE PlacesOK'
  BY <1>2 DEF ValidateExistingWorkspace, OnBranch
<1>3. ASSUME NEW p \in Procs, Cloned(p) PROVE PlacesOK'
  BY <1>3 DEF Cloned
<1>4. ASSUME NEW p \in Procs, Copied(p) PROVE PlacesOK'
  BY <1>4 DEF Copied
<1>5. ASSUME NEW p \in Procs, PublishWorkspace(p) PROVE PlacesOK'
  BY <1>5 DEF PublishWorkspace, MayPublish
<1>6. ASSUME NEW p \in Procs, WriteProvenance(p) PROVE PlacesOK'
  BY <1>6 DEF WriteProvenance
<1>7. ASSUME NEW p \in Procs, RemoveWorkspace(p) PROVE PlacesOK'
  BY <1>7 DEF RemoveWorkspace
<1>8. ASSUME NEW p \in Procs, UnlinkProvenance(p) PROVE PlacesOK'
  BY <1>8 DEF UnlinkProvenance
<1>9. ASSUME NEW p \in Procs, HandOff(p) PROVE PlacesOK'
  BY <1>9 DEF HandOff
<1>10. ASSUME NEW p \in Procs, CountChanges(p) PROVE PlacesOK'
  BY <1>10, NewPatch
<1>11. ASSUME NEW p \in Procs, WritePatches(p) PROVE PlacesOK'
  BY <1>11, NewPatch
<1>12. ASSUME NEW p \in Procs, PublishStaging(p) PROVE PlacesOK'
  BY <1>12 DEF PublishStaging, MayDeliver
<1>13. ASSUME NEW p \in Procs, GitFails(p) PROVE PlacesOK'
  BY <1>13 DEF GitFails
<1>14. ASSUME NEW p \in Procs, Crash(p) PROVE PlacesOK'
  BY <1>14 DEF Crash
<1>15. CASE AgentWorks
  BY <1>15 DEF AgentWorks, Workspaces
<1>16. CASE DeveloperCommits
  BY <1>16 DEF DeveloperCommits
<1>17. CASE DeveloperDiscards
  BY <1>17 DEF DeveloperDiscards
<1>. QED
  BY <1>1, <1>2, <1>3, <1>4, <1>5, <1>6, <1>7, <1>8, <1>9, <1>10, <1>11, <1>12, <1>13, <1>14,
     <1>15, <1>16, <1>17
  DEF Next, Step

LEMMA RecordingKept ==
  ASSUME IInv, Next
  PROVE  RecordingOK'
<1>. USE NoneAssumption, BoundAssumption
     DEF IInv, FilesTyped, ProcsTyped, PlacesOK, RecordingOK, RecordMatchesWorkspace,
         vars, files, procs, Goto, Tell
<1>1. ASSUME NEW p \in Procs, NEW k \in Kinds, Provision(p, k) PROVE RecordingOK'
  BY <1>1 DEF Provision, Requested, NewBase, Bases
<1>2. ASSUME NEW p \in Procs, ValidateExistingWorkspace(p) PROVE RecordingOK'
  BY <1>2 DEF ValidateExistingWorkspace, OnBranch
<1>3. ASSUME NEW p \in Procs, Cloned(p) PROVE RecordingOK'
  BY <1>3 DEF Cloned
<1>4. ASSUME NEW p \in Procs, Copied(p) PROVE RecordingOK'
  BY <1>4 DEF Copied
<1>5. ASSUME NEW p \in Procs, PublishWorkspace(p) PROVE RecordingOK'
  <2>1. CASE ws # None
    BY <1>5, <2>1 DEF PublishWorkspace, MayPublish
  <2>2. CASE ws = None
    <3>1. UNCHANGED <<mode, head, prov, handoff>> /\ pc[p] = "publish"
      BY <1>5 DEF PublishWorkspace
    <3>. QED  BY <1>5, <2>2, <3>1, NewWorkspace
  <2>. QED  BY <2>1, <2>2
<1>6. ASSUME NEW p \in Procs, WriteProvenance(p) PROVE RecordingOK'
  BY <1>6 DEF WriteProvenance
<1>7. ASSUME NEW p \in Procs, RemoveWorkspace(p) PROVE RecordingOK'
  BY <1>7 DEF RemoveWorkspace
<1>8. ASSUME NEW p \in Procs, UnlinkProvenance(p) PROVE RecordingOK'
  BY <1>8 DEF UnlinkProvenance
<1>9. ASSUME NEW p \in Procs, HandOff(p) PROVE RecordingOK'
  BY <1>9 DEF HandOff
<1>10. ASSUME NEW p \in Procs, CountChanges(p) PROVE RecordingOK'
  BY <1>10 DEF CountChanges
<1>11. ASSUME NEW p \in Procs, WritePatches(p) PROVE RecordingOK'
  BY <1>11 DEF WritePatches
<1>12. ASSUME NEW p \in Procs, PublishStaging(p) PROVE RecordingOK'
  BY <1>12 DEF PublishStaging, MayDeliver
<1>13. ASSUME NEW p \in Procs, GitFails(p) PROVE RecordingOK'
  BY <1>13 DEF GitFails
<1>14. ASSUME NEW p \in Procs, Crash(p) PROVE RecordingOK'
  BY <1>14 DEF Crash
<1>15. CASE AgentWorks
  <2>1. UNCHANGED <<mode, head, prov, handoff, procs>>
    BY <1>15 DEF AgentWorks
  <2>. QED  BY <1>15, <2>1, AgentKeeps
<1>16. CASE DeveloperCommits
  BY <1>16 DEF DeveloperCommits
<1>17. CASE DeveloperDiscards
  BY <1>17 DEF DeveloperDiscards
<1>. QED
  BY <1>1, <1>2, <1>3, <1>4, <1>5, <1>6, <1>7, <1>8, <1>9, <1>10, <1>11, <1>12, <1>13, <1>14,
     <1>15, <1>16, <1>17
  DEF Next, Step

LEMMA ReadyKept ==
  ASSUME IInv, Next
  PROVE  ReadyOK'
<1>. USE NoneAssumption, BoundAssumption
     DEF IInv, FilesTyped, ProcsTyped, RecordingOK, ReadyOK,
         vars, files, procs, Goto, Tell
<1>1. ASSUME NEW p \in Procs, NEW k \in Kinds, Provision(p, k) PROVE ReadyOK'
  BY <1>1 DEF Provision, Requested, NewBase, Bases
<1>2. ASSUME NEW p \in Procs, ValidateExistingWorkspace(p) PROVE ReadyOK'
  BY <1>2 DEF ValidateExistingWorkspace, OnBranch
<1>3. ASSUME NEW p \in Procs, Cloned(p) PROVE ReadyOK'
  BY <1>3 DEF Cloned
<1>4. ASSUME NEW p \in Procs, Copied(p) PROVE ReadyOK'
  BY <1>4 DEF Copied
<1>5. ASSUME NEW p \in Procs, PublishWorkspace(p) PROVE ReadyOK'
  BY <1>5 DEF PublishWorkspace, MayPublish
<1>6. ASSUME NEW p \in Procs, WriteProvenance(p) PROVE ReadyOK'
  BY <1>6 DEF WriteProvenance
<1>7. ASSUME NEW p \in Procs, RemoveWorkspace(p) PROVE ReadyOK'
  BY <1>7 DEF RemoveWorkspace
<1>8. ASSUME NEW p \in Procs, UnlinkProvenance(p) PROVE ReadyOK'
  BY <1>8 DEF UnlinkProvenance
<1>9. ASSUME NEW p \in Procs, HandOff(p) PROVE ReadyOK'
  BY <1>9 DEF HandOff
<1>10. ASSUME NEW p \in Procs, CountChanges(p) PROVE ReadyOK'
  BY <1>10 DEF CountChanges
<1>11. ASSUME NEW p \in Procs, WritePatches(p) PROVE ReadyOK'
  BY <1>11 DEF WritePatches
<1>12. ASSUME NEW p \in Procs, PublishStaging(p) PROVE ReadyOK'
  BY <1>12 DEF PublishStaging, MayDeliver
<1>13. ASSUME NEW p \in Procs, GitFails(p) PROVE ReadyOK'
  BY <1>13 DEF GitFails
<1>14. ASSUME NEW p \in Procs, Crash(p) PROVE ReadyOK'
  BY <1>14 DEF Crash
<1>15. CASE AgentWorks
  <2>1. UNCHANGED <<mode, head, prov, handoff, procs>>
    BY <1>15 DEF AgentWorks
  <2>. QED  BY <1>15, <2>1, AgentKeeps
<1>16. CASE DeveloperCommits
  BY <1>16 DEF DeveloperCommits
<1>17. CASE DeveloperDiscards
  BY <1>17 DEF DeveloperDiscards
<1>. QED
  BY <1>1, <1>2, <1>3, <1>4, <1>5, <1>6, <1>7, <1>8, <1>9, <1>10, <1>11, <1>12, <1>13, <1>14,
     <1>15, <1>16, <1>17
  DEF Next, Step

LEMMA Inductive == Spec => []IInv
<1>1. IInv /\ [Next]_vars => IInv'
  <2>. SUFFICES ASSUME IInv, [Next]_vars PROVE IInv'
    OBVIOUS
  <2>1. CASE Next
    BY <2>1, FilesKept, ProcsKept, PlacesKept, RecordingKept, ReadyKept DEF IInv
  <2>2. CASE UNCHANGED vars
    BY <2>2 DEF vars, files, procs, IInv, FilesTyped, ProcsTyped, PlacesOK, RecordingOK,
                RecordMatchesWorkspace, ReadyOK
  <2>. QED  BY <2>1, <2>2
<1>. QED  BY <1>1, InitInv, PTL DEF Spec

-----------------------------------------------------------------------------
(* The theorems.                                                           *)

\* The files and what every process remembers are well typed.
THEOREM WorkspaceTypes == Spec => []TypeOK
<1>1. IInv => TypeOK
  BY DEF IInv, TypeOK, FilesTyped, ProcsTyped, Places
<1>. QED  BY <1>1, Inductive, PTL

\* The record beside a workspace names the commit that it was cut from.
THEOREM RecordsMatch == Spec => []RecordMatchesWorkspace
<1>1. IInv => RecordMatchesWorkspace
  BY DEF IInv, RecordingOK
<1>. QED  BY <1>1, Inductive, PTL

\* A workspace that somebody was told of is only removed by the developer.
THEOREM WorkStays == Spec => WorkIsKept
<1>1. IInv /\ [Next]_vars =>
        [(\E p \in Procs : told[p] = "ready") /\ ws # None =>
           \/ ws' # None /\ ws'.owner = ws.owner /\ ws'.commits >= ws.commits
           \/ DeveloperDiscards]_vars
  <2>. SUFFICES ASSUME IInv, Next, NEW r \in Procs, told[r] = "ready", ws # None, ~DeveloperDiscards
                PROVE  ws' # None /\ ws'.owner = ws.owner /\ ws'.commits >= ws.commits
    OBVIOUS
  <2>0. ws \in Workspaces /\ ws.commits \in Nat
    BY BoundAssumption DEF IInv, FilesTyped, Workspaces
  <2>1. CASE AgentWorks
    BY <2>1, AgentKeeps
  <2>2. CASE ws' = ws
    BY <2>0, <2>2
  <2>3. CASE ~AgentWorks /\ ws' # ws
    <3>1. PICK p \in Procs : PublishWorkspace(p) \/ RemoveWorkspace(p)
      BY <2>3 DEF Next, Step, Provision, ValidateExistingWorkspace, Cloned, Copied, WriteProvenance,
         UnlinkProvenance, HandOff, CountChanges, WritePatches, PublishStaging, GitFails, Crash,
         DeveloperCommits, files
    <3>2. ~RemoveWorkspace(p)
      BY DEF RemoveWorkspace, IInv, ReadyOK
    <3>. QED  BY <2>3, <3>1, <3>2, NewWorkspace
  <2>. QED  BY <2>1, <2>2, <2>3
<1>. QED  BY <1>1, Inductive, PTL DEF Spec, WorkIsKept

\* A patch set never changes once it is there, and a reported one is there.
THEOREM PatchIsDeliveredOnce == Spec => DeliveredOnce
<1>1. IInv /\ [Next]_vars =>
        [/\ handoff # None => handoff' = handoff
         /\ (\E p \in Procs : told[p] # "patch" /\ told'[p] = "patch") => handoff' # None]_vars
  <2>. SUFFICES ASSUME IInv, Next
                PROVE  /\ handoff # None => handoff' = handoff
                       /\ \A p \in Procs : told[p] # "patch" /\ told'[p] = "patch" => handoff' # None
    OBVIOUS
  <2>1. ASSUME NEW p \in Procs, PublishStaging(p)
        PROVE  (handoff # None => handoff' = handoff) /\ (handoff' # None \/ told'[p] = "failed")
    BY <2>1 DEF PublishStaging, MayDeliver, IInv, PlacesOK, ProcsTyped, Tell
  <2>2. ASSUME ~\E p \in Procs : PublishStaging(p) PROVE handoff' = handoff
    BY <2>2 DEF Next, Step, Provision, ValidateExistingWorkspace, Cloned, Copied, PublishWorkspace,
       WriteProvenance, RemoveWorkspace, UnlinkProvenance, HandOff, CountChanges, WritePatches,
       GitFails, Crash, AgentWorks, DeveloperCommits, DeveloperDiscards, files
  <2>3. ASSUME NEW p \in Procs, told[p] # "patch", told'[p] = "patch" PROVE handoff' # None
    <3>0. told \in [Procs -> {"nothing", "ready", "failed", "otherBase", "stale", "patch", "noChanges"}]
      BY DEF IInv, ProcsTyped
    <3>1. CASE \E q \in Procs : PublishStaging(q)
      BY <2>3, <3>0, <3>1, NoneAssumption
         DEF PublishStaging, Tell, IInv, PlacesOK
    <3>2. CASE \E q \in Procs : HandOff(q)
      BY <2>3, <3>0, <3>2 DEF HandOff, Tell, files
    <3>3. CASE ~(\E q \in Procs : PublishStaging(q) \/ HandOff(q))
      BY <2>3, <3>0, <3>3 DEF Next, Step, Provision, ValidateExistingWorkspace, Cloned, Copied,
         PublishWorkspace, WriteProvenance, RemoveWorkspace, UnlinkProvenance, CountChanges,
         WritePatches, GitFails, Crash, AgentWorks, DeveloperCommits, DeveloperDiscards, procs, Tell
    <3>. QED  BY <3>1, <3>2, <3>3
  <2>. QED  BY <2>1, <2>2, <2>3
<1>. QED  BY <1>1, Inductive, PTL DEF Spec, DeliveredOnce

=============================================================================
