--------------------------- MODULE SandboxProofs ---------------------------
(***************************************************************************)
(* Theorems about Sandbox: its types, that it implements SandboxContract,  *)
(* and that it reports what it leaves behind.                              *)
(***************************************************************************)
EXTENDS Sandbox, TLAPS

\* The two halves of TypeOK.
Booleans ==
  /\ known \in BOOLEAN /\ removed \in BOOLEAN /\ err \in BOOLEAN
  /\ cancelled \in BOOLEAN /\ expired \in BOOLEAN /\ cut \in BOOLEAN
  /\ ran \in BOOLEAN /\ noted \in BOOLEAN

Strings ==
  /\ pc \in {"scan", "creating", "waitCreate", "start", "starting", "running", "verify",
             "finalScan", "recover", "stop", "rm", "inspect", "cleaned", "returned"}
  /\ why \in Reasons
  /\ client \in [Clients -> {"none", "spawning", "live", "nospawn", "exit0", "exit1", "killed"}]
  /\ req \in [Clients -> {"no", "sent", "done", "refused"}]
  /\ ctr \in {"none", "created", "running", "exited", "gone"}
  /\ marker \in {"none", "inflight", "seen"}
  /\ late \in Clients \cup {"none"}
  /\ out \in Outcomes \cup {"none"}

\* What became of the requests and what the daemon has agree.
WorldOK ==
  /\ req["create"] = "done" <=> ctr # "none"
  /\ req["start"] = "done" <=> ran
  /\ ran => ctr \in {"running", "exited", "gone"}
  /\ ctr \in {"running", "exited"} => ran
  /\ \A c \in Clients : client[c] \in {"none", "spawning", "nospawn"} => req[c] = "no"
  /\ client["create"] = "exit0" => req["create"] = "done"
  /\ client["create"] = "exit1" => req["create"] # "sent"

NotStarted == client["start"] \in {"none", "nospawn"}
Early == {"createExpired", "createFailed", "createCancelled"}
Cleaning == {"stop", "rm", "inspect", "cleaned"}

\* Where the runner is tells how far the clients have come.
PlaceOK ==
  /\ pc = "scan" => client["create"] = "none"
  /\ pc \in {"scan", "creating", "waitCreate", "start"} => client["start"] = "none"
  /\ pc \in {"start", "starting", "running", "verify", "finalScan"} => client["create"] = "exit0"
  /\ pc = "waitCreate" => client["create"] \in {"live", "exit0", "exit1"}
  /\ pc = "finalScan" => ctr = "gone"
  /\ pc = "recover" => why \in Recovering
  /\ pc \in Cleaning \cup {"recover"} =>
       IF why \in Early THEN client["start"] = "none" ELSE client["create"] = "exit0"
  /\ pc \in Cleaning /\ why \in {"startLate", "startDropped", "startFailed"} => NotStarted
  /\ late # "none" => pc \in Cleaning \cup {"returned"}

\* What a cleanup may conclude from an absence.
CleanupOK ==
  /\ pc \in Cleaning /\ why \notin Early => known
  /\ pc \in Cleaning /\ known => client["create"] \in {"exit0", "exit1"}
  /\ pc \in Cleaning /\ removed => ctr = "gone"
  /\ pc = "cleaned" /\ ~err => ctr \in Absent /\ (known \/ removed)

\* A report that promises something leaves nothing that could break it.
ReportOK ==
  /\ out = "none" <=> pc # "returned"
  /\ out \in {"result", "error", "cancelledBefore"} => NotStarted \/ ctr = "gone"
  /\ out = "cancelledBefore" => NotStarted
  /\ out \in {"result", "error"} /\ ~noted =>
       ctr = "gone" \/ (ctr = "none" /\ client["create"] \in {"none", "nospawn", "exit0", "exit1"})

IInv == TypeOK /\ WorldOK /\ PlaceOK /\ CleanupOK /\ ReportOK

LEMMA InitInv == Init => IInv
  BY DEF Init, IInv, TypeOK, WorldOK, PlaceOK, CleanupOK, ReportOK, Clients, Reasons, Recovering,
         Outcomes, Retryable, NotStarted, Cleaning, Early, Absent

-----------------------------------------------------------------------------
(* One lemma for each part of the invariant, one step for each action.     *)

LEMMA StringsKept ==
  ASSUME IInv, Next
  PROVE  Strings'
<1>. USE DEF IInv, TypeOK, Clients, Strings, Reasons, Recovering, Outcomes, Retryable,
         vars, runner, world, report
<1>1. CASE InitialScan
  BY <1>1 DEF InitialScan, Return, Goto, Spawn
<1>2. CASE CreateContainer
  BY <1>2 DEF CreateContainer, Handle, Goto, Cleanup, Return, Recover
<1>3. CASE WaitForCreatedContainer
  BY <1>3 DEF WaitForCreatedContainer, Goto, Cleanup
<1>4. CASE StartContainer
  BY <1>4 DEF StartContainer, Cleanup, Goto, Spawn
<1>5. CASE AwaitStartClient
  BY <1>5 DEF AwaitStartClient, Handle, Goto, Cleanup, Recover
<1>6. CASE RunSpawnedProcess
  BY <1>6 DEF RunSpawnedProcess, Cleanup, Exited, Goto
<1>7. CASE VerifyAttachedExit
  BY <1>7 DEF VerifyAttachedExit, Return, Goto, Cleanup
<1>8. CASE FinalScan
  BY <1>8 DEF FinalScan, Return
<1>9. CASE RecoverHandle
  BY <1>9 DEF RecoverHandle, Unspawned, Handle
<1>10. CASE RecoverNoClient
  BY <1>10 DEF RecoverNoClient, Unspawned, Return
<1>11. CASE RecoverTimesOut
  BY <1>11 DEF RecoverTimesOut, Unspawned, HandedOver
<1>12. CASE StopClient
  BY <1>12 DEF StopClient, Client
<1>13. CASE ForceRemoveContainer
  <2>1. ctr' \in {"none", "created", "running", "exited", "gone"}
    BY <1>13 DEF ForceRemoveContainer
  <2>2. pc' = "inspect" /\ UNCHANGED <<why, client, req, marker, late, out>>
    BY <1>13 DEF ForceRemoveContainer
  <2>. QED  BY <2>1, <2>2
<1>14. CASE ContainerIsAbsent
  BY <1>14 DEF ContainerIsAbsent, Settled
<1>15. CASE CleanupExpires
  BY <1>15 DEF CleanupExpires, Overdue
<1>16. CASE FinishCreate
  BY <1>16 DEF FinishCreate, Cleaned, Return
<1>17. CASE FinishBeforeStart
  BY <1>17 DEF FinishBeforeStart, Cleaned, Return
<1>18. CASE FinishCancelledSpawn
  BY <1>18 DEF FinishCancelledSpawn, Cleaned, Return, CancelledAfterStart
<1>19. CASE FinishExpiredSpawn
  BY <1>19 DEF FinishExpiredSpawn, Cleaned, Return
<1>20. CASE FinishTimeout
  BY <1>20 DEF FinishTimeout, Cleaned, Return, Unproved
<1>21. CASE FinishWorkspaceViolation
  BY <1>21 DEF FinishWorkspaceViolation, Cleaned, Return, Unproved
<1>22. CASE FinishNoMarker
  BY <1>22 DEF FinishNoMarker, Cleaned, Return
<1>23. CASE FinishUnproven
  BY <1>23 DEF FinishUnproven, Cleaned, Return
<1>24. CASE LateSpawnFailed
  BY <1>24 DEF LateSpawnFailed
<1>25. CASE LateStop
  BY <1>25 DEF LateStop, Handle
<1>26. ASSUME NEW c \in Clients, SpawnResolves(c) PROVE Strings'
  BY <1>26 DEF SpawnResolves
<1>27. ASSUME NEW c \in Clients, ClientSends(c) PROVE Strings'
  BY <1>27 DEF ClientSends
<1>28. ASSUME NEW c \in Clients, ClientExits(c) PROVE Strings'
  BY <1>28 DEF ClientExits
<1>29. CASE DaemonCreates
  BY <1>29 DEF DaemonCreates
<1>30. CASE DaemonStarts
  BY <1>30 DEF DaemonStarts
<1>31. CASE MarkerArrives
  BY <1>31 DEF MarkerArrives
<1>32. CASE ContainerEnds
  BY <1>32 DEF ContainerEnds
<1>33. CASE Cancel
  BY <1>33 DEF Cancel
<1>34. CASE RunDeadline
  BY <1>34 DEF RunDeadline
<1>35. CASE CleanupDeadline
  BY <1>35 DEF CleanupDeadline
<1>. QED
  BY <1>1, <1>2, <1>3, <1>4, <1>5, <1>6, <1>7, <1>8, <1>9, <1>10, <1>11, <1>12, <1>13, <1>14,
     <1>15, <1>16, <1>17, <1>18, <1>19, <1>20, <1>21, <1>22, <1>23, <1>24, <1>25, <1>26,
     <1>27, <1>28, <1>29, <1>30, <1>31, <1>32, <1>33, <1>34, <1>35
  DEF Next, Runner, Reaper, World, Finish

LEMMA BooleansKept ==
  ASSUME IInv, Next
  PROVE  Booleans'
<1>. USE DEF IInv, TypeOK, Clients, Booleans,
         vars, runner, world, report
<1>1. CASE InitialScan
  BY <1>1 DEF InitialScan, Return, Goto, Spawn
<1>2. CASE CreateContainer
  BY <1>2 DEF CreateContainer, Handle, Goto, Cleanup, Return, Recover
<1>3. CASE WaitForCreatedContainer
  BY <1>3 DEF WaitForCreatedContainer, Goto, Cleanup
<1>4. CASE StartContainer
  BY <1>4 DEF StartContainer, Cleanup, Goto, Spawn
<1>5. CASE AwaitStartClient
  BY <1>5 DEF AwaitStartClient, Handle, Goto, Cleanup, Recover
<1>6. CASE RunSpawnedProcess
  BY <1>6 DEF RunSpawnedProcess, Cleanup, Exited, Goto
<1>7. CASE VerifyAttachedExit
  BY <1>7 DEF VerifyAttachedExit, Return, Goto, Cleanup
<1>8. CASE FinalScan
  BY <1>8 DEF FinalScan, Return
<1>9. CASE RecoverHandle
  BY <1>9 DEF RecoverHandle, Unspawned, Handle
<1>10. CASE RecoverNoClient
  BY <1>10 DEF RecoverNoClient, Unspawned, Return
<1>11. CASE RecoverTimesOut
  BY <1>11 DEF RecoverTimesOut, Unspawned, HandedOver
<1>12. CASE StopClient
  BY <1>12 DEF StopClient, Client
<1>13. CASE ForceRemoveContainer
  BY <1>13 DEF ForceRemoveContainer
<1>14. CASE ContainerIsAbsent
  BY <1>14 DEF ContainerIsAbsent, Settled
<1>15. CASE CleanupExpires
  BY <1>15 DEF CleanupExpires, Overdue
<1>16. CASE FinishCreate
  BY <1>16 DEF FinishCreate, Cleaned, Return
<1>17. CASE FinishBeforeStart
  BY <1>17 DEF FinishBeforeStart, Cleaned, Return
<1>18. CASE FinishCancelledSpawn
  BY <1>18 DEF FinishCancelledSpawn, Cleaned, Return, CancelledAfterStart
<1>19. CASE FinishExpiredSpawn
  BY <1>19 DEF FinishExpiredSpawn, Cleaned, Return
<1>20. CASE FinishTimeout
  BY <1>20 DEF FinishTimeout, Cleaned, Return, Unproved
<1>21. CASE FinishWorkspaceViolation
  BY <1>21 DEF FinishWorkspaceViolation, Cleaned, Return, Unproved
<1>22. CASE FinishNoMarker
  BY <1>22 DEF FinishNoMarker, Cleaned, Return
<1>23. CASE FinishUnproven
  BY <1>23 DEF FinishUnproven, Cleaned, Return
<1>24. CASE LateSpawnFailed
  BY <1>24 DEF LateSpawnFailed
<1>25. CASE LateStop
  BY <1>25 DEF LateStop, Handle
<1>26. ASSUME NEW c \in Clients, SpawnResolves(c) PROVE Booleans'
  BY <1>26 DEF SpawnResolves
<1>27. ASSUME NEW c \in Clients, ClientSends(c) PROVE Booleans'
  BY <1>27 DEF ClientSends
<1>28. ASSUME NEW c \in Clients, ClientExits(c) PROVE Booleans'
  BY <1>28 DEF ClientExits
<1>29. CASE DaemonCreates
  BY <1>29 DEF DaemonCreates
<1>30. CASE DaemonStarts
  BY <1>30 DEF DaemonStarts
<1>31. CASE MarkerArrives
  BY <1>31 DEF MarkerArrives
<1>32. CASE ContainerEnds
  BY <1>32 DEF ContainerEnds
<1>33. CASE Cancel
  BY <1>33 DEF Cancel
<1>34. CASE RunDeadline
  BY <1>34 DEF RunDeadline
<1>35. CASE CleanupDeadline
  BY <1>35 DEF CleanupDeadline
<1>. QED
  BY <1>1, <1>2, <1>3, <1>4, <1>5, <1>6, <1>7, <1>8, <1>9, <1>10, <1>11, <1>12, <1>13, <1>14,
     <1>15, <1>16, <1>17, <1>18, <1>19, <1>20, <1>21, <1>22, <1>23, <1>24, <1>25, <1>26,
     <1>27, <1>28, <1>29, <1>30, <1>31, <1>32, <1>33, <1>34, <1>35
  DEF Next, Runner, Reaper, World, Finish

LEMMA WorldKept ==
  ASSUME IInv, Next
  PROVE  WorldOK'
<1>. USE DEF IInv, TypeOK, Clients, WorldOK, PlaceOK, Absent,
         vars, runner, world, report
<1>1. CASE InitialScan
  BY <1>1 DEF InitialScan, Return, Goto, Spawn
<1>2. CASE CreateContainer
  BY <1>2 DEF CreateContainer, Handle, Goto, Cleanup, Return, Recover
<1>3. CASE WaitForCreatedContainer
  BY <1>3 DEF WaitForCreatedContainer, Goto, Cleanup
<1>4. CASE StartContainer
  BY <1>4 DEF StartContainer, Cleanup, Goto, Spawn
<1>5. CASE AwaitStartClient
  BY <1>5 DEF AwaitStartClient, Handle, Goto, Cleanup, Recover
<1>6. CASE RunSpawnedProcess
  BY <1>6 DEF RunSpawnedProcess, Cleanup, Exited, Goto
<1>7. CASE VerifyAttachedExit
  BY <1>7 DEF VerifyAttachedExit, Return, Goto, Cleanup
<1>8. CASE FinalScan
  BY <1>8 DEF FinalScan, Return
<1>9. CASE RecoverHandle
  BY <1>9 DEF RecoverHandle, Unspawned, Handle
<1>10. CASE RecoverNoClient
  BY <1>10 DEF RecoverNoClient, Unspawned, Return
<1>11. CASE RecoverTimesOut
  BY <1>11 DEF RecoverTimesOut, Unspawned, HandedOver
<1>12. CASE StopClient
  BY <1>12 DEF StopClient, Client
<1>13. CASE ForceRemoveContainer
  BY <1>13 DEF ForceRemoveContainer
<1>14. CASE ContainerIsAbsent
  BY <1>14 DEF ContainerIsAbsent, Settled
<1>15. CASE CleanupExpires
  BY <1>15 DEF CleanupExpires, Overdue
<1>16. CASE FinishCreate
  BY <1>16 DEF FinishCreate, Cleaned, Return
<1>17. CASE FinishBeforeStart
  BY <1>17 DEF FinishBeforeStart, Cleaned, Return
<1>18. CASE FinishCancelledSpawn
  BY <1>18 DEF FinishCancelledSpawn, Cleaned, Return, CancelledAfterStart
<1>19. CASE FinishExpiredSpawn
  BY <1>19 DEF FinishExpiredSpawn, Cleaned, Return
<1>20. CASE FinishTimeout
  BY <1>20 DEF FinishTimeout, Cleaned, Return, Unproved
<1>21. CASE FinishWorkspaceViolation
  BY <1>21 DEF FinishWorkspaceViolation, Cleaned, Return, Unproved
<1>22. CASE FinishNoMarker
  BY <1>22 DEF FinishNoMarker, Cleaned, Return
<1>23. CASE FinishUnproven
  BY <1>23 DEF FinishUnproven, Cleaned, Return
<1>24. CASE LateSpawnFailed
  BY <1>24 DEF LateSpawnFailed
<1>25. CASE LateStop
  BY <1>25 DEF LateStop, Handle
<1>26. ASSUME NEW c \in Clients, SpawnResolves(c) PROVE WorldOK'
  BY <1>26 DEF SpawnResolves
<1>27. ASSUME NEW c \in Clients, ClientSends(c) PROVE WorldOK'
  BY <1>27 DEF ClientSends
<1>28. ASSUME NEW c \in Clients, ClientExits(c) PROVE WorldOK'
  BY <1>28 DEF ClientExits
<1>29. CASE DaemonCreates
  BY <1>29 DEF DaemonCreates
<1>30. CASE DaemonStarts
  BY <1>30 DEF DaemonStarts
<1>31. CASE MarkerArrives
  BY <1>31 DEF MarkerArrives
<1>32. CASE ContainerEnds
  BY <1>32 DEF ContainerEnds
<1>33. CASE Cancel
  BY <1>33 DEF Cancel
<1>34. CASE RunDeadline
  BY <1>34 DEF RunDeadline
<1>35. CASE CleanupDeadline
  BY <1>35 DEF CleanupDeadline
<1>. QED
  BY <1>1, <1>2, <1>3, <1>4, <1>5, <1>6, <1>7, <1>8, <1>9, <1>10, <1>11, <1>12, <1>13, <1>14,
     <1>15, <1>16, <1>17, <1>18, <1>19, <1>20, <1>21, <1>22, <1>23, <1>24, <1>25, <1>26,
     <1>27, <1>28, <1>29, <1>30, <1>31, <1>32, <1>33, <1>34, <1>35
  DEF Next, Runner, Reaper, World, Finish

LEMMA PlaceKept ==
  ASSUME IInv, Next
  PROVE  PlaceOK'
<1>. USE DEF IInv, TypeOK, Clients, WorldOK, PlaceOK, NotStarted, Early, Cleaning, Recovering, Absent,
         vars, runner, world, report
<1>1. CASE InitialScan
  BY <1>1 DEF InitialScan, Return, Goto, Spawn
<1>2. CASE CreateContainer
  BY <1>2 DEF CreateContainer, Handle, Goto, Cleanup, Return, Recover
<1>3. CASE WaitForCreatedContainer
  BY <1>3 DEF WaitForCreatedContainer, Goto, Cleanup
<1>4. CASE StartContainer
  BY <1>4 DEF StartContainer, Cleanup, Goto, Spawn
<1>5. CASE AwaitStartClient
  BY <1>5 DEF AwaitStartClient, Handle, Goto, Cleanup, Recover
<1>6. CASE RunSpawnedProcess
  BY <1>6 DEF RunSpawnedProcess, Cleanup, Exited, Goto
<1>7. CASE VerifyAttachedExit
  BY <1>7 DEF VerifyAttachedExit, Return, Goto, Cleanup
<1>8. CASE FinalScan
  BY <1>8 DEF FinalScan, Return
<1>9. CASE RecoverHandle
  BY <1>9 DEF RecoverHandle, Unspawned, Handle
<1>10. CASE RecoverNoClient
  BY <1>10 DEF RecoverNoClient, Unspawned, Return
<1>11. CASE RecoverTimesOut
  BY <1>11 DEF RecoverTimesOut, Unspawned, HandedOver
<1>12. CASE StopClient
  BY <1>12 DEF StopClient, Client
<1>13. CASE ForceRemoveContainer
  BY <1>13 DEF ForceRemoveContainer
<1>14. CASE ContainerIsAbsent
  BY <1>14 DEF ContainerIsAbsent, Settled
<1>15. CASE CleanupExpires
  BY <1>15 DEF CleanupExpires, Overdue
<1>16. CASE FinishCreate
  BY <1>16 DEF FinishCreate, Cleaned, Return
<1>17. CASE FinishBeforeStart
  BY <1>17 DEF FinishBeforeStart, Cleaned, Return
<1>18. CASE FinishCancelledSpawn
  BY <1>18 DEF FinishCancelledSpawn, Cleaned, Return, CancelledAfterStart
<1>19. CASE FinishExpiredSpawn
  BY <1>19 DEF FinishExpiredSpawn, Cleaned, Return
<1>20. CASE FinishTimeout
  BY <1>20 DEF FinishTimeout, Cleaned, Return, Unproved
<1>21. CASE FinishWorkspaceViolation
  BY <1>21 DEF FinishWorkspaceViolation, Cleaned, Return, Unproved
<1>22. CASE FinishNoMarker
  BY <1>22 DEF FinishNoMarker, Cleaned, Return
<1>23. CASE FinishUnproven
  BY <1>23 DEF FinishUnproven, Cleaned, Return
<1>24. CASE LateSpawnFailed
  BY <1>24 DEF LateSpawnFailed
<1>25. CASE LateStop
  BY <1>25 DEF LateStop, Handle
<1>26. ASSUME NEW c \in Clients, SpawnResolves(c) PROVE PlaceOK'
  BY <1>26 DEF SpawnResolves
<1>27. ASSUME NEW c \in Clients, ClientSends(c) PROVE PlaceOK'
  BY <1>27 DEF ClientSends
<1>28. ASSUME NEW c \in Clients, ClientExits(c) PROVE PlaceOK'
  BY <1>28 DEF ClientExits
<1>29. CASE DaemonCreates
  BY <1>29 DEF DaemonCreates
<1>30. CASE DaemonStarts
  BY <1>30 DEF DaemonStarts
<1>31. CASE MarkerArrives
  BY <1>31 DEF MarkerArrives
<1>32. CASE ContainerEnds
  BY <1>32 DEF ContainerEnds
<1>33. CASE Cancel
  BY <1>33 DEF Cancel
<1>34. CASE RunDeadline
  BY <1>34 DEF RunDeadline
<1>35. CASE CleanupDeadline
  BY <1>35 DEF CleanupDeadline
<1>. QED
  BY <1>1, <1>2, <1>3, <1>4, <1>5, <1>6, <1>7, <1>8, <1>9, <1>10, <1>11, <1>12, <1>13, <1>14,
     <1>15, <1>16, <1>17, <1>18, <1>19, <1>20, <1>21, <1>22, <1>23, <1>24, <1>25, <1>26,
     <1>27, <1>28, <1>29, <1>30, <1>31, <1>32, <1>33, <1>34, <1>35
  DEF Next, Runner, Reaper, World, Finish

LEMMA CleanupKept ==
  ASSUME IInv, Next
  PROVE  CleanupOK'
<1>. USE DEF IInv, TypeOK, Clients, WorldOK, PlaceOK, CleanupOK, Early, Cleaning, Recovering, Absent,
         vars, runner, world, report
<1>1. CASE InitialScan
  BY <1>1 DEF InitialScan, Return, Goto, Spawn
<1>2. CASE CreateContainer
  BY <1>2 DEF CreateContainer, Handle, Goto, Cleanup, Return, Recover
<1>3. CASE WaitForCreatedContainer
  <2>1. CASE client["create"] = "live"
    BY <1>3, <2>1 DEF WaitForCreatedContainer, Goto, Cleanup
  <2>2. CASE client["create"] # "live" /\ Cleanup("stop", "createCancelled", TRUE)
    BY <1>3, <2>2 DEF WaitForCreatedContainer, Cleanup
  <2>3. CASE ~Cleanup("stop", "createCancelled", client["create"] # "live")
    BY <1>3, <2>3 DEF WaitForCreatedContainer, Goto, Cleanup
  <2>4. (client["create"] # "live") = TRUE \/ client["create"] = "live"
    BY Zenon
  <2>. QED  BY <2>1, <2>2, <2>3, <2>4
<1>4. CASE StartContainer
  BY <1>4 DEF StartContainer, Cleanup, Goto, Spawn
<1>5. CASE AwaitStartClient
  BY <1>5 DEF AwaitStartClient, Handle, Goto, Cleanup, Recover
<1>6. CASE RunSpawnedProcess
  BY <1>6 DEF RunSpawnedProcess, Cleanup, Exited, Goto
<1>7. CASE VerifyAttachedExit
  BY <1>7 DEF VerifyAttachedExit, Return, Goto, Cleanup
<1>8. CASE FinalScan
  BY <1>8 DEF FinalScan, Return
<1>9. CASE RecoverHandle
  BY <1>9 DEF RecoverHandle, Unspawned, Handle
<1>10. CASE RecoverNoClient
  BY <1>10 DEF RecoverNoClient, Unspawned, Return
<1>11. CASE RecoverTimesOut
  BY <1>11 DEF RecoverTimesOut, Unspawned, HandedOver
<1>12. CASE StopClient
  BY <1>12 DEF StopClient, Client
<1>13. CASE ForceRemoveContainer
  <2>1. ctr' = "gone" \/ (removed' = removed /\ UNCHANGED ctr)
    BY <1>13, Zenon DEF ForceRemoveContainer
  <2>2. pc = "rm" /\ pc' = "inspect" /\ UNCHANGED <<why, known, client>>
    BY <1>13 DEF ForceRemoveContainer
  <2>. QED  BY <2>1, <2>2
<1>14. CASE ContainerIsAbsent
  BY <1>14 DEF ContainerIsAbsent, Settled
<1>15. CASE CleanupExpires
  BY <1>15 DEF CleanupExpires, Overdue
<1>16. CASE FinishCreate
  BY <1>16 DEF FinishCreate, Cleaned, Return
<1>17. CASE FinishBeforeStart
  BY <1>17 DEF FinishBeforeStart, Cleaned, Return
<1>18. CASE FinishCancelledSpawn
  BY <1>18 DEF FinishCancelledSpawn, Cleaned, Return, CancelledAfterStart
<1>19. CASE FinishExpiredSpawn
  BY <1>19 DEF FinishExpiredSpawn, Cleaned, Return
<1>20. CASE FinishTimeout
  BY <1>20 DEF FinishTimeout, Cleaned, Return, Unproved
<1>21. CASE FinishWorkspaceViolation
  BY <1>21 DEF FinishWorkspaceViolation, Cleaned, Return, Unproved
<1>22. CASE FinishNoMarker
  BY <1>22 DEF FinishNoMarker, Cleaned, Return
<1>23. CASE FinishUnproven
  BY <1>23 DEF FinishUnproven, Cleaned, Return
<1>24. CASE LateSpawnFailed
  BY <1>24 DEF LateSpawnFailed
<1>25. CASE LateStop
  BY <1>25 DEF LateStop, Handle
<1>26. ASSUME NEW c \in Clients, SpawnResolves(c) PROVE CleanupOK'
  BY <1>26 DEF SpawnResolves
<1>27. ASSUME NEW c \in Clients, ClientSends(c) PROVE CleanupOK'
  BY <1>27 DEF ClientSends
<1>28. ASSUME NEW c \in Clients, ClientExits(c) PROVE CleanupOK'
  BY <1>28 DEF ClientExits
<1>29. CASE DaemonCreates
  BY <1>29 DEF DaemonCreates
<1>30. CASE DaemonStarts
  BY <1>30 DEF DaemonStarts
<1>31. CASE MarkerArrives
  BY <1>31 DEF MarkerArrives
<1>32. CASE ContainerEnds
  BY <1>32 DEF ContainerEnds
<1>33. CASE Cancel
  BY <1>33 DEF Cancel
<1>34. CASE RunDeadline
  BY <1>34 DEF RunDeadline
<1>35. CASE CleanupDeadline
  BY <1>35 DEF CleanupDeadline
<1>. QED
  BY <1>1, <1>2, <1>3, <1>4, <1>5, <1>6, <1>7, <1>8, <1>9, <1>10, <1>11, <1>12, <1>13, <1>14,
     <1>15, <1>16, <1>17, <1>18, <1>19, <1>20, <1>21, <1>22, <1>23, <1>24, <1>25, <1>26,
     <1>27, <1>28, <1>29, <1>30, <1>31, <1>32, <1>33, <1>34, <1>35
  DEF Next, Runner, Reaper, World, Finish

LEMMA ReportKept ==
  ASSUME IInv, Next
  PROVE  ReportOK'
<1>. USE DEF IInv, TypeOK, Clients, WorldOK, PlaceOK, CleanupOK, ReportOK, NotStarted, Early, Cleaning, Recovering, Absent, Outcomes, Retryable,
         vars, runner, world, report
<1>1. CASE InitialScan
  BY <1>1 DEF InitialScan, Return, Goto, Spawn
<1>2. CASE CreateContainer
  BY <1>2 DEF CreateContainer, Handle, Goto, Cleanup, Return, Recover
<1>3. CASE WaitForCreatedContainer
  BY <1>3 DEF WaitForCreatedContainer, Goto, Cleanup
<1>4. CASE StartContainer
  BY <1>4 DEF StartContainer, Cleanup, Goto, Spawn
<1>5. CASE AwaitStartClient
  BY <1>5 DEF AwaitStartClient, Handle, Goto, Cleanup, Recover
<1>6. CASE RunSpawnedProcess
  BY <1>6 DEF RunSpawnedProcess, Cleanup, Exited, Goto
<1>7. CASE VerifyAttachedExit
  BY <1>7 DEF VerifyAttachedExit, Return, Goto, Cleanup
<1>8. CASE FinalScan
  BY <1>8 DEF FinalScan, Return
<1>9. CASE RecoverHandle
  BY <1>9 DEF RecoverHandle, Unspawned, Handle
<1>10. CASE RecoverNoClient
  BY <1>10 DEF RecoverNoClient, Unspawned, Return
<1>11. CASE RecoverTimesOut
  BY <1>11 DEF RecoverTimesOut, Unspawned, HandedOver
<1>12. CASE StopClient
  BY <1>12 DEF StopClient, Client
<1>13. CASE ForceRemoveContainer
  BY <1>13 DEF ForceRemoveContainer
<1>14. CASE ContainerIsAbsent
  BY <1>14 DEF ContainerIsAbsent, Settled
<1>15. CASE CleanupExpires
  BY <1>15 DEF CleanupExpires, Overdue
<1>16. CASE FinishCreate
  BY <1>16 DEF FinishCreate, Cleaned, Return
<1>17. CASE FinishBeforeStart
  BY <1>17 DEF FinishBeforeStart, Cleaned, Return
<1>18. CASE FinishCancelledSpawn
  BY <1>18 DEF FinishCancelledSpawn, Cleaned, Return, CancelledAfterStart
<1>19. CASE FinishExpiredSpawn
  BY <1>19 DEF FinishExpiredSpawn, Cleaned, Return
<1>20. CASE FinishTimeout
  BY <1>20 DEF FinishTimeout, Cleaned, Return, Unproved
<1>21. CASE FinishWorkspaceViolation
  BY <1>21 DEF FinishWorkspaceViolation, Cleaned, Return, Unproved
<1>22. CASE FinishNoMarker
  BY <1>22 DEF FinishNoMarker, Cleaned, Return
<1>23. CASE FinishUnproven
  BY <1>23 DEF FinishUnproven, Cleaned, Return
<1>24. CASE LateSpawnFailed
  BY <1>24 DEF LateSpawnFailed
<1>25. CASE LateStop
  BY <1>25 DEF LateStop, Handle
<1>26. ASSUME NEW c \in Clients, SpawnResolves(c) PROVE ReportOK'
  BY <1>26 DEF SpawnResolves
<1>27. ASSUME NEW c \in Clients, ClientSends(c) PROVE ReportOK'
  BY <1>27 DEF ClientSends
<1>28. ASSUME NEW c \in Clients, ClientExits(c) PROVE ReportOK'
  BY <1>28 DEF ClientExits
<1>29. CASE DaemonCreates
  BY <1>29 DEF DaemonCreates
<1>30. CASE DaemonStarts
  BY <1>30 DEF DaemonStarts
<1>31. CASE MarkerArrives
  BY <1>31 DEF MarkerArrives
<1>32. CASE ContainerEnds
  BY <1>32 DEF ContainerEnds
<1>33. CASE Cancel
  BY <1>33 DEF Cancel
<1>34. CASE RunDeadline
  BY <1>34 DEF RunDeadline
<1>35. CASE CleanupDeadline
  BY <1>35 DEF CleanupDeadline
<1>. QED
  BY <1>1, <1>2, <1>3, <1>4, <1>5, <1>6, <1>7, <1>8, <1>9, <1>10, <1>11, <1>12, <1>13, <1>14,
     <1>15, <1>16, <1>17, <1>18, <1>19, <1>20, <1>21, <1>22, <1>23, <1>24, <1>25, <1>26,
     <1>27, <1>28, <1>29, <1>30, <1>31, <1>32, <1>33, <1>34, <1>35
  DEF Next, Runner, Reaper, World, Finish

LEMMA StepKept ==
  ASSUME IInv, Next
  PROVE  IInv'
<1>1. Booleans' /\ Strings'
  BY BooleansKept, StringsKept
<1>2. TypeOK'
  BY <1>1 DEF Booleans, Strings, TypeOK
<1>. QED  BY <1>2, WorldKept, PlaceKept, CleanupKept, ReportKept DEF IInv

LEMMA Inductive == Spec => []IInv
<1>1. IInv /\ [Next]_vars => IInv'
  <2>. SUFFICES ASSUME IInv, [Next]_vars PROVE IInv'
    OBVIOUS
  <2>1. CASE Next
    BY <2>1, StepKept
  <2>2. CASE UNCHANGED vars
    BY <2>2 DEF vars, runner, world, report, IInv, TypeOK, WorldOK, PlaceOK, CleanupOK, ReportOK,
                NotStarted
  <2>. QED  BY <2>1, <2>2
<1>. QED  BY <1>1, InitInv, PTL DEF Spec

-----------------------------------------------------------------------------
(* The theorems.                                                           *)

\* The runner, its clients, the daemon and the reports are well typed.
THEOREM SandboxTypes == Spec => []TypeOK
<1>1. IInv => TypeOK
  BY DEF IInv
<1>. QED  BY <1>1, Inductive, PTL

\* What is left behind after a result, or after a plain error, is nothing.
THEOREM LeaksAreReported == Spec => []LeakIsReported
<1>1. IInv => LeakIsReported
  BY DEF IInv, ReportOK, LeakIsReported, Absent
<1>. QED  BY <1>1, Inductive, PTL

-----------------------------------------------------------------------------
(* The refinement: every step of the runner, the daemon and the clients is *)
(* one of the contract, or does not concern the agent's code.              *)

Unmoved == UNCHANGED <<ctr, ran, out>>

LEMMA UnmovedStutters ==
  ASSUME Unmoved
  PROVE  Box' = Box /\ out' = out
  BY DEF Unmoved, Box

\* A report is one of the contract's, if it is one that the code permits.
LEMMA ReportReturns ==
  ASSUME IInv, UNCHANGED <<ctr, ran>>, out = "none", out' \in Outcomes,
         out' \in {"result", "error"} => ~ran \/ ctr # "running",
         out' = "cancelledBefore" => ~ran
  PROVE  Contract!Next
<1>1. Contract!Permits(Box, out')
  BY DEF Contract!Permits, Contract!Unsafe, Box, Outcomes, Retryable
<1>2. Box' = Contract!Left(Box, out')
  BY DEF Contract!Left, Contract!Unsafe, Box, Outcomes, Retryable
<1>3. out' \in Contract!Reports
  BY DEF Contract!Reports, Outcomes, Retryable
<1>. QED  BY <1>1, <1>2, <1>3 DEF Contract!Next, Contract!Returns

\* A container that stops or disappears ends the agent's code, if there was any.
LEMMA StopEnds ==
  ASSUME IInv, UNCHANGED <<ran, out>>, ctr \in {"created", "running", "exited"},
         ctr' \in {"exited", "gone"}
  PROVE  Contract!Next \/ UNCHANGED <<Box, out>>
<1>1. CASE ran /\ ctr = "running"
  BY <1>1 DEF Contract!Next, Contract!Ends, Box
<1>2. CASE ~(ran /\ ctr = "running")
  BY <1>2 DEF Box, IInv, WorldOK
<1>. QED  BY <1>1, <1>2

\* No start is carried out after a report that promises that there is none.
LEMMA StartStarts ==
  ASSUME IInv, DaemonStarts, ~Unmoved
  PROVE  Contract!Next
<1>. USE DEF IInv, TypeOK
<1>1. ctr = "created" /\ ctr' = "running" /\ ran' /\ UNCHANGED out /\ req["start"] = "sent"
  BY DEF DaemonStarts, Unmoved, report
<1>2. ~ran /\ ~NotStarted
  BY <1>1 DEF WorldOK, NotStarted, Clients
<1>3. out \in Contract!Unsafe \cup {"none"}
  BY <1>1, <1>2 DEF ReportOK, Contract!Unsafe, Outcomes, Retryable
<1>4. Box' = "running" /\ Box = IF out = "none" THEN "none" ELSE "late"
  BY <1>1, <1>2, <1>3 DEF Box, Contract!Unsafe
<1>. QED  BY <1>1, <1>3, <1>4 DEF Contract!Next, Contract!Starts

LEMMA StepsAreContracted ==
  ASSUME IInv, Next
  PROVE  Contract!Next \/ UNCHANGED <<Box, out>>
<1>. USE DEF vars, runner, world, report
<1>0. IInv' /\ UNCHANGED <<ctr, ran>> /\ out = "none" /\ out' # "none" =>
        Contract!Next \/ UNCHANGED <<Box, out>>
  <2>. SUFFICES ASSUME IInv', UNCHANGED <<ctr, ran>>, out = "none", out' # "none"
                PROVE  Contract!Next
    OBVIOUS
  <2>1. out' \in Outcomes
    BY DEF IInv, TypeOK
  <2>2. NotStarted' => ~ran
    BY DEF IInv, WorldOK, NotStarted, Clients
  <2>3. out' \in {"result", "error"} => ~ran \/ ctr # "running"
    BY <2>2 DEF IInv, ReportOK
  <2>4. out' = "cancelledBefore" => ~ran
    BY <2>2 DEF IInv, ReportOK
  <2>. QED  BY <2>1, <2>3, <2>4, ReportReturns
<1>00. IInv'
  BY StepKept
<1>1. CASE InitialScan
  <2>1. UNCHANGED <<ctr, ran>> /\ (Unmoved \/ out' # "none") /\ out = "none"
    BY <1>1 DEF InitialScan, Return, Goto, Spawn, Unmoved, IInv, ReportOK, Outcomes, Retryable
  <2>. QED  BY <1>0, <1>00, <2>1, UnmovedStutters
<1>2. CASE CreateContainer
  <2>1. UNCHANGED <<ctr, ran>> /\ (Unmoved \/ out' # "none") /\ out = "none"
    BY <1>2 DEF CreateContainer, Handle, Goto, Cleanup, Return, Recover, Unmoved, IInv, ReportOK, Outcomes, Retryable
  <2>. QED  BY <1>0, <1>00, <2>1, UnmovedStutters
<1>3. CASE WaitForCreatedContainer
  BY <1>3, UnmovedStutters DEF WaitForCreatedContainer, Goto, Cleanup, Unmoved
<1>4. CASE StartContainer
  BY <1>4, UnmovedStutters DEF StartContainer, Cleanup, Goto, Spawn, Unmoved
<1>5. CASE AwaitStartClient
  BY <1>5, UnmovedStutters DEF AwaitStartClient, Handle, Goto, Cleanup, Recover, Unmoved
<1>6. CASE RunSpawnedProcess
  BY <1>6, UnmovedStutters DEF RunSpawnedProcess, Cleanup, Exited, Goto, Unmoved
<1>7. CASE VerifyAttachedExit
  <2>1. UNCHANGED <<ctr, ran>> /\ (Unmoved \/ out' # "none") /\ out = "none"
    BY <1>7 DEF VerifyAttachedExit, Return, Goto, Cleanup, Unmoved, IInv, ReportOK, Outcomes, Retryable
  <2>. QED  BY <1>0, <1>00, <2>1, UnmovedStutters
<1>8. CASE FinalScan
  <2>1. UNCHANGED <<ctr, ran>> /\ (Unmoved \/ out' # "none") /\ out = "none"
    BY <1>8 DEF FinalScan, Return, Unmoved, IInv, ReportOK, Outcomes, Retryable
  <2>. QED  BY <1>0, <1>00, <2>1, UnmovedStutters
<1>9. CASE RecoverHandle
  BY <1>9, UnmovedStutters DEF RecoverHandle, Unspawned, Handle, Unmoved
<1>10. CASE RecoverNoClient
  <2>1. UNCHANGED <<ctr, ran>> /\ (Unmoved \/ out' # "none") /\ out = "none"
    BY <1>10 DEF RecoverNoClient, Unspawned, Return, Unmoved, IInv, ReportOK, Outcomes, Retryable
  <2>. QED  BY <1>0, <1>00, <2>1, UnmovedStutters
<1>11. CASE RecoverTimesOut
  BY <1>11, UnmovedStutters DEF RecoverTimesOut, Unspawned, HandedOver, Unmoved
<1>12. CASE StopClient
  BY <1>12, UnmovedStutters DEF StopClient, Client, Unmoved
<1>13. CASE ForceRemoveContainer
  <2>1. UNCHANGED <<ran, out>>
    BY <1>13 DEF ForceRemoveContainer
  <2>2. Unmoved \/ (ctr \in {"created", "running", "exited"} /\ ctr' \in {"exited", "gone"})
    BY <1>13, <2>1 DEF ForceRemoveContainer, Unmoved, Absent, IInv, TypeOK
  <2>. QED  BY <2>1, <2>2, StopEnds, UnmovedStutters
<1>14. CASE ContainerIsAbsent
  BY <1>14, UnmovedStutters DEF ContainerIsAbsent, Settled, Unmoved
<1>15. CASE CleanupExpires
  BY <1>15, UnmovedStutters DEF CleanupExpires, Overdue, Unmoved
<1>16. CASE FinishCreate
  <2>1. UNCHANGED <<ctr, ran>> /\ (Unmoved \/ out' # "none") /\ out = "none"
    BY <1>16 DEF FinishCreate, Cleaned, Return, Unmoved, IInv, ReportOK, Outcomes, Retryable
  <2>. QED  BY <1>0, <1>00, <2>1, UnmovedStutters
<1>17. CASE FinishBeforeStart
  <2>1. UNCHANGED <<ctr, ran>> /\ (Unmoved \/ out' # "none") /\ out = "none"
    BY <1>17 DEF FinishBeforeStart, Cleaned, Return, Unmoved, IInv, ReportOK, Outcomes, Retryable
  <2>. QED  BY <1>0, <1>00, <2>1, UnmovedStutters
<1>18. CASE FinishCancelledSpawn
  <2>1. UNCHANGED <<ctr, ran>> /\ (Unmoved \/ out' # "none") /\ out = "none"
    BY <1>18 DEF FinishCancelledSpawn, Cleaned, Return, CancelledAfterStart, Unmoved, IInv, ReportOK, Outcomes, Retryable
  <2>. QED  BY <1>0, <1>00, <2>1, UnmovedStutters
<1>19. CASE FinishExpiredSpawn
  <2>1. UNCHANGED <<ctr, ran>> /\ (Unmoved \/ out' # "none") /\ out = "none"
    BY <1>19 DEF FinishExpiredSpawn, Cleaned, Return, Unmoved, IInv, ReportOK, Outcomes, Retryable
  <2>. QED  BY <1>0, <1>00, <2>1, UnmovedStutters
<1>20. CASE FinishTimeout
  <2>1. UNCHANGED <<ctr, ran>> /\ (Unmoved \/ out' # "none") /\ out = "none"
    BY <1>20 DEF FinishTimeout, Cleaned, Return, Unproved, Unmoved, IInv, ReportOK, Outcomes, Retryable
  <2>. QED  BY <1>0, <1>00, <2>1, UnmovedStutters
<1>21. CASE FinishWorkspaceViolation
  <2>1. UNCHANGED <<ctr, ran>> /\ (Unmoved \/ out' # "none") /\ out = "none"
    BY <1>21 DEF FinishWorkspaceViolation, Cleaned, Return, Unproved, Unmoved, IInv, ReportOK, Outcomes, Retryable
  <2>. QED  BY <1>0, <1>00, <2>1, UnmovedStutters
<1>22. CASE FinishNoMarker
  <2>1. UNCHANGED <<ctr, ran>> /\ (Unmoved \/ out' # "none") /\ out = "none"
    BY <1>22 DEF FinishNoMarker, Cleaned, Return, Unmoved, IInv, ReportOK, Outcomes, Retryable
  <2>. QED  BY <1>0, <1>00, <2>1, UnmovedStutters
<1>23. CASE FinishUnproven
  <2>1. UNCHANGED <<ctr, ran>> /\ (Unmoved \/ out' # "none") /\ out = "none"
    BY <1>23 DEF FinishUnproven, Cleaned, Return, Unmoved, IInv, ReportOK, Outcomes, Retryable
  <2>. QED  BY <1>0, <1>00, <2>1, UnmovedStutters
<1>24. CASE LateSpawnFailed
  BY <1>24, UnmovedStutters DEF LateSpawnFailed, Unmoved
<1>25. CASE LateStop
  <2>1. UNCHANGED <<ran, out>>
    BY <1>25 DEF LateStop, Handle
  <2>2. Unmoved \/ (ctr \in {"created", "running", "exited"} /\ ctr' \in {"exited", "gone"})
    BY <1>25, <2>1 DEF LateStop, Handle, Unmoved, Absent, IInv, TypeOK
  <2>. QED  BY <2>1, <2>2, StopEnds, UnmovedStutters
<1>26. ASSUME NEW c \in Clients, SpawnResolves(c)
      PROVE  Contract!Next \/ UNCHANGED <<Box, out>>
  BY <1>26, UnmovedStutters DEF SpawnResolves, Unmoved
<1>27. ASSUME NEW c \in Clients, ClientSends(c)
      PROVE  Contract!Next \/ UNCHANGED <<Box, out>>
  BY <1>27, UnmovedStutters DEF ClientSends, Unmoved
<1>28. ASSUME NEW c \in Clients, ClientExits(c)
      PROVE  Contract!Next \/ UNCHANGED <<Box, out>>
  BY <1>28, UnmovedStutters DEF ClientExits, Unmoved
<1>29. CASE DaemonCreates
  <2>1. ~ran /\ ~ran' /\ UNCHANGED out
    BY <1>29 DEF DaemonCreates, IInv, WorldOK
  <2>. QED  BY <2>1 DEF Box
<1>30. CASE DaemonStarts
  BY <1>30, StartStarts, UnmovedStutters
<1>31. CASE MarkerArrives
  BY <1>31, UnmovedStutters DEF MarkerArrives, Unmoved
<1>32. CASE ContainerEnds
  <2>1. UNCHANGED <<ran, out>>
    BY <1>32 DEF ContainerEnds
  <2>2. Unmoved \/ (ctr \in {"created", "running", "exited"} /\ ctr' \in {"exited", "gone"})
    BY <1>32, <2>1 DEF ContainerEnds, Unmoved, Absent, IInv, TypeOK
  <2>. QED  BY <2>1, <2>2, StopEnds, UnmovedStutters
<1>33. CASE Cancel
  BY <1>33, UnmovedStutters DEF Cancel, Unmoved
<1>34. CASE RunDeadline
  BY <1>34, UnmovedStutters DEF RunDeadline, Unmoved
<1>35. CASE CleanupDeadline
  BY <1>35, UnmovedStutters DEF CleanupDeadline, Unmoved
<1>. QED
  BY <1>1, <1>2, <1>3, <1>4, <1>5, <1>6, <1>7, <1>8, <1>9, <1>10, <1>11, <1>12, <1>13, <1>14,
     <1>15, <1>16, <1>17, <1>18, <1>19, <1>20, <1>21, <1>22, <1>23, <1>24, <1>25, <1>26,
     <1>27, <1>28, <1>29, <1>30, <1>31, <1>32, <1>33, <1>34, <1>35
  DEF Next, Runner, Reaper, World, Finish

\* Sandbox implements SandboxContract, for every interleaving of the runner,
\* the daemon, the clients and the caller.
THEOREM KeepsItsContract == Spec => KeepsContract
<1>1. Init => Contract!Init
  BY DEF Init, Contract!Init, Box
<1>2. IInv /\ [Next]_vars => [Contract!Next]_<<Box, out>>
  <2>1. ASSUME UNCHANGED vars PROVE UNCHANGED <<Box, out>>
    BY <2>1 DEF vars, runner, world, report, Box
  <2>. QED  BY <2>1, StepsAreContracted
<1>. QED  BY <1>1, <1>2, Inductive, PTL DEF Spec, KeepsContract, Contract!Spec

=============================================================================
