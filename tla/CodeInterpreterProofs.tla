----------------------- MODULE CodeInterpreterProofs -----------------------
(***************************************************************************)
(* Theorems about CodeInterpreter, for every number of calls: the          *)
(* workspace has one owner, what was reported stays true, and a closed     *)
(* supervisor has lost no worker.                                          *)
(***************************************************************************)
EXTENDS CodeInterpreter, TLAPS

Places == {"idle", "lock", "measure", "stage", "publish", "run", "ended"}
Holding == {"measure", "stage", "publish", "run"}

\* The parts of TypeOK.
CallsTyped ==
  /\ pc \in [Calls -> Places] /\ cancelled \subseteq Calls
  /\ holder \in Calls \cup {None} /\ script \in Calls \cup {None}
  /\ out \in [Calls -> Ends \cup {"none"}]
  /\ inside \subseteq Calls /\ ops \subseteq Calls

ProcessesTyped ==
  /\ worker \in [Calls -> Resting \cup {"spawning", "live", "killed"}]
  /\ temp \subseteq Calls
  /\ box \in [Calls -> {"none", "running", "late", "gone"}]
  /\ what \in [Calls -> Calls \cup {None}]
  /\ reapers \subseteq Calls \X {"spawn", "exit"}

CloseTyped ==
  /\ sealed \in BOOLEAN /\ errors \in BOOLEAN /\ closing \in BOOLEAN /\ closed \in BOOLEAN
  /\ closer \in {"open", "drain", "workers", "failed", "done"}

\* Where a call is, what it holds and what it has left.
CallsOK ==
  \A c \in Calls :
    /\ pc[c] \in Holding <=> holder = c
    /\ c \in inside <=> pc[c] \in Holding \cup {"lock"}
    /\ c \in ops <=> pc[c] \in {"measure", "stage"}
    /\ pc[c] # "ended" => out[c] = "none"
    /\ pc[c] = "run" => script = c
    /\ c \in temp => pc[c] \in {"stage", "publish"} \/ out[c] = "unknown"

\* What a container may still do follows from the place and the end of its call.
BoxesOK ==
  \A c \in Calls :
    /\ box[c] \notin {"none", "gone"} => pc[c] = "run" \/ out[c] \in Unsafe
    /\ box[c] = "late" => out[c] \in Unsafe
    /\ box[c] # "none" => pc[c] \in {"run", "ended"}
    /\ what[c] # None => box[c] \in {"running", "gone"}
    /\ what[c] \in {None, c} \/ out[c] \in Unsafe
    /\ out[c] = "retrySafe" => box[c] = "none"

\* Every worker that lives has somebody who waits for it.
Watched(c) ==
  /\ worker[c] \in {"spawning", "live"} => c \in ops \/ <<c, "spawn">> \in reapers
  /\ worker[c] = "killed" => <<c, "exit">> \in reapers
  /\ pc[c] \in {"idle", "lock"} => worker[c] = "none"

WorkersOK == \A c \in Calls : Watched(c)

CloseOK ==
  /\ closer # "open" => sealed
  /\ closer = "workers" => closing
  /\ closing => sealed /\ inside = {}
  /\ closed => closing /\ reapers = {}

IInv == CallsTyped /\ ProcessesTyped /\ CloseTyped /\ CallsOK /\ BoxesOK /\ WorkersOK /\ CloseOK

LEMMA InitInv == Init => IInv
<1>. USE NoneAssumption DEF Init
<1>1. Init => CallsTyped
  BY DEF CallsTyped, Places
<1>2. Init => ProcessesTyped
  BY DEF ProcessesTyped, Resting
<1>3. Init => CloseTyped
  BY DEF CloseTyped
<1>4. Init => CallsOK /\ BoxesOK /\ WorkersOK /\ CloseOK
  BY DEF CallsOK, BoxesOK, WorkersOK, Watched, CloseOK, Holding
<1>. QED  BY <1>1, <1>2, <1>3, <1>4 DEF IInv

-----------------------------------------------------------------------------
(* One lemma for each part of the invariant, one step for each action.     *)

LEMMA CallsTypedKept ==
  ASSUME IInv, Next
  PROVE  CallsTyped'
<1>. USE NoneAssumption
     DEF IInv, CallsTyped, Places, Ends, Unsafe,
         vars, calls, processes, supervisor, close
<1>1. ASSUME NEW c \in Calls, Enter(c) PROVE CallsTyped'
  BY <1>1 DEF Enter, End, Goto
<1>2. ASSUME NEW c \in Calls, AcquireLock(c) PROVE CallsTyped'
  BY <1>2 DEF AcquireLock, End, Goto, BeginWorker, LockFree
<1>3. ASSUME NEW c \in Calls, WorkerFails(c) PROVE CallsTyped'
  BY <1>3 DEF WorkerFails, GiveUp, LetGo, Track, Littered, End, Goto
<1>4. ASSUME NEW c \in Calls, Measured(c) PROVE CallsTyped'
  BY <1>4 DEF Measured, End, Goto, BeginWorker
<1>5. ASSUME NEW c \in Calls, Staged(c) PROVE CallsTyped'
  BY <1>5 DEF Staged, Goto
<1>6. ASSUME NEW c \in Calls, Publish(c) PROVE CallsTyped'
  BY <1>6 DEF Publish, End, Goto
<1>7. ASSUME NEW c \in Calls, RunReturns(c) PROVE CallsTyped'
  BY <1>7 DEF RunReturns, End, Goto, Told, Runner!Reports, Runner!Permits, Runner!Left, Runner!Unsafe
<1>8. ASSUME NEW c \in Calls, SpawnResolves(c) PROVE CallsTyped'
  BY <1>8 DEF SpawnResolves
<1>9. ASSUME NEW c \in Calls, ReapSpawn(c) PROVE CallsTyped'
  BY <1>9 DEF ReapSpawn
<1>10. ASSUME NEW c \in Calls, WorkerDies(c) PROVE CallsTyped'
  BY <1>10 DEF WorkerDies
<1>11. ASSUME NEW c \in Calls, ContainerStarts(c) PROVE CallsTyped'
  BY <1>11 DEF ContainerStarts
<1>12. ASSUME NEW c \in Calls, ContainerEnds(c) PROVE CallsTyped'
  BY <1>12 DEF ContainerEnds
<1>13. ASSUME NEW c \in Calls, Cancel(c) PROVE CallsTyped'
  BY <1>13 DEF Cancel
<1>14. CASE Close
  BY <1>14 DEF Close
<1>15. CASE Drain
  BY <1>15 DEF Drain
<1>16. CASE CloseWorkers
  BY <1>16 DEF CloseWorkers, Quiet
<1>. QED
  BY <1>1, <1>2, <1>3, <1>4, <1>5, <1>6, <1>7, <1>8, <1>9, <1>10, <1>11, <1>12, <1>13, <1>14,
     <1>15, <1>16
  DEF Next, Call, Reap

LEMMA ProcessesTypedKept ==
  ASSUME IInv, Next
  PROVE  ProcessesTyped'
<1>. USE NoneAssumption
     DEF IInv, CallsTyped, ProcessesTyped, Resting,
         vars, calls, processes, supervisor, close
<1>1. ASSUME NEW c \in Calls, Enter(c) PROVE ProcessesTyped'
  BY <1>1 DEF Enter, End, Goto
<1>2. ASSUME NEW c \in Calls, AcquireLock(c) PROVE ProcessesTyped'
  BY <1>2 DEF AcquireLock, End, Goto, BeginWorker, LockFree
<1>3. ASSUME NEW c \in Calls, WorkerFails(c) PROVE ProcessesTyped'
  BY <1>3 DEF WorkerFails, GiveUp, LetGo, Track, Littered, End, Goto
<1>4. ASSUME NEW c \in Calls, Measured(c) PROVE ProcessesTyped'
  BY <1>4 DEF Measured, End, Goto, BeginWorker
<1>5. ASSUME NEW c \in Calls, Staged(c) PROVE ProcessesTyped'
  BY <1>5 DEF Staged, Goto
<1>6. ASSUME NEW c \in Calls, Publish(c) PROVE ProcessesTyped'
  BY <1>6 DEF Publish, End, Goto
<1>7. ASSUME NEW c \in Calls, RunReturns(c) PROVE ProcessesTyped'
  BY <1>7 DEF RunReturns, End, Goto, Told, Runner!Reports, Runner!Permits, Runner!Left, Runner!Unsafe
<1>8. ASSUME NEW c \in Calls, SpawnResolves(c) PROVE ProcessesTyped'
  BY <1>8 DEF SpawnResolves
<1>9. ASSUME NEW c \in Calls, ReapSpawn(c) PROVE ProcessesTyped'
  BY <1>9 DEF ReapSpawn
<1>10. ASSUME NEW c \in Calls, WorkerDies(c) PROVE ProcessesTyped'
  BY <1>10 DEF WorkerDies
<1>11. ASSUME NEW c \in Calls, ContainerStarts(c) PROVE ProcessesTyped'
  BY <1>11 DEF ContainerStarts
<1>12. ASSUME NEW c \in Calls, ContainerEnds(c) PROVE ProcessesTyped'
  BY <1>12 DEF ContainerEnds
<1>13. ASSUME NEW c \in Calls, Cancel(c) PROVE ProcessesTyped'
  BY <1>13 DEF Cancel
<1>14. CASE Close
  BY <1>14 DEF Close
<1>15. CASE Drain
  BY <1>15 DEF Drain
<1>16. CASE CloseWorkers
  BY <1>16 DEF CloseWorkers, Quiet
<1>. QED
  BY <1>1, <1>2, <1>3, <1>4, <1>5, <1>6, <1>7, <1>8, <1>9, <1>10, <1>11, <1>12, <1>13, <1>14,
     <1>15, <1>16
  DEF Next, Call, Reap

LEMMA CloseTypedKept ==
  ASSUME IInv, Next
  PROVE  CloseTyped'
<1>. USE NoneAssumption
     DEF IInv, CloseTyped,
         vars, calls, processes, supervisor, close
<1>1. ASSUME NEW c \in Calls, Enter(c) PROVE CloseTyped'
  BY <1>1 DEF Enter, End, Goto
<1>2. ASSUME NEW c \in Calls, AcquireLock(c) PROVE CloseTyped'
  BY <1>2 DEF AcquireLock, End, Goto, BeginWorker, LockFree
<1>3. ASSUME NEW c \in Calls, WorkerFails(c) PROVE CloseTyped'
  BY <1>3 DEF WorkerFails, GiveUp, LetGo, Track, Littered, End, Goto
<1>4. ASSUME NEW c \in Calls, Measured(c) PROVE CloseTyped'
  BY <1>4 DEF Measured, End, Goto, BeginWorker
<1>5. ASSUME NEW c \in Calls, Staged(c) PROVE CloseTyped'
  BY <1>5 DEF Staged, Goto
<1>6. ASSUME NEW c \in Calls, Publish(c) PROVE CloseTyped'
  BY <1>6 DEF Publish, End, Goto
<1>7. ASSUME NEW c \in Calls, RunReturns(c) PROVE CloseTyped'
  BY <1>7 DEF RunReturns, End, Goto, Told, Runner!Reports, Runner!Permits, Runner!Left, Runner!Unsafe
<1>8. ASSUME NEW c \in Calls, SpawnResolves(c) PROVE CloseTyped'
  BY <1>8 DEF SpawnResolves
<1>9. ASSUME NEW c \in Calls, ReapSpawn(c) PROVE CloseTyped'
  BY <1>9 DEF ReapSpawn
<1>10. ASSUME NEW c \in Calls, WorkerDies(c) PROVE CloseTyped'
  BY <1>10 DEF WorkerDies
<1>11. ASSUME NEW c \in Calls, ContainerStarts(c) PROVE CloseTyped'
  BY <1>11 DEF ContainerStarts
<1>12. ASSUME NEW c \in Calls, ContainerEnds(c) PROVE CloseTyped'
  BY <1>12 DEF ContainerEnds
<1>13. ASSUME NEW c \in Calls, Cancel(c) PROVE CloseTyped'
  BY <1>13 DEF Cancel
<1>14. CASE Close
  BY <1>14 DEF Close
<1>15. CASE Drain
  BY <1>15 DEF Drain
<1>16. CASE CloseWorkers
  BY <1>16 DEF CloseWorkers, Quiet
<1>. QED
  BY <1>1, <1>2, <1>3, <1>4, <1>5, <1>6, <1>7, <1>8, <1>9, <1>10, <1>11, <1>12, <1>13, <1>14,
     <1>15, <1>16
  DEF Next, Call, Reap

LEMMA CallsKept ==
  ASSUME IInv, Next
  PROVE  CallsOK'
<1>. USE NoneAssumption
     DEF IInv, CallsTyped, CallsOK, CloseOK, Holding, Places, Ends, Unsafe,
         vars, calls, processes, supervisor, close
<1>1. ASSUME NEW c \in Calls, Enter(c) PROVE CallsOK'
  BY <1>1 DEF Enter, End, Goto
<1>2. ASSUME NEW c \in Calls, AcquireLock(c) PROVE CallsOK'
  BY <1>2 DEF AcquireLock, End, Goto, BeginWorker, LockFree
<1>3. ASSUME NEW c \in Calls, WorkerFails(c) PROVE CallsOK'
  BY <1>3 DEF WorkerFails, GiveUp, LetGo, Track, Littered, End, Goto
<1>4. ASSUME NEW c \in Calls, Measured(c) PROVE CallsOK'
  BY <1>4 DEF Measured, End, Goto, BeginWorker
<1>5. ASSUME NEW c \in Calls, Staged(c) PROVE CallsOK'
  BY <1>5 DEF Staged, Goto
<1>6. ASSUME NEW c \in Calls, Publish(c) PROVE CallsOK'
  BY <1>6 DEF Publish, End, Goto
<1>7. ASSUME NEW c \in Calls, RunReturns(c) PROVE CallsOK'
  BY <1>7 DEF RunReturns, End, Goto, Told, Runner!Reports, Runner!Permits, Runner!Left, Runner!Unsafe
<1>8. ASSUME NEW c \in Calls, SpawnResolves(c) PROVE CallsOK'
  BY <1>8 DEF SpawnResolves
<1>9. ASSUME NEW c \in Calls, ReapSpawn(c) PROVE CallsOK'
  BY <1>9 DEF ReapSpawn
<1>10. ASSUME NEW c \in Calls, WorkerDies(c) PROVE CallsOK'
  BY <1>10 DEF WorkerDies
<1>11. ASSUME NEW c \in Calls, ContainerStarts(c) PROVE CallsOK'
  BY <1>11 DEF ContainerStarts
<1>12. ASSUME NEW c \in Calls, ContainerEnds(c) PROVE CallsOK'
  BY <1>12 DEF ContainerEnds
<1>13. ASSUME NEW c \in Calls, Cancel(c) PROVE CallsOK'
  BY <1>13 DEF Cancel
<1>14. CASE Close
  BY <1>14 DEF Close
<1>15. CASE Drain
  BY <1>15 DEF Drain
<1>16. CASE CloseWorkers
  BY <1>16 DEF CloseWorkers, Quiet
<1>. QED
  BY <1>1, <1>2, <1>3, <1>4, <1>5, <1>6, <1>7, <1>8, <1>9, <1>10, <1>11, <1>12, <1>13, <1>14,
     <1>15, <1>16
  DEF Next, Call, Reap

LEMMA BoxesKept ==
  ASSUME IInv, Next
  PROVE  BoxesOK'
<1>. USE NoneAssumption
     DEF IInv, CallsTyped, ProcessesTyped, CallsOK, BoxesOK, Holding, Places, Ends, Unsafe,
         vars, calls, processes, supervisor, close
<1>1. ASSUME NEW c \in Calls, Enter(c) PROVE BoxesOK'
  BY <1>1 DEF Enter, End, Goto
<1>2. ASSUME NEW c \in Calls, AcquireLock(c) PROVE BoxesOK'
  BY <1>2 DEF AcquireLock, End, Goto, BeginWorker, LockFree
<1>3. ASSUME NEW c \in Calls, WorkerFails(c) PROVE BoxesOK'
  BY <1>3 DEF WorkerFails, GiveUp, LetGo, Track, Littered, End, Goto
<1>4. ASSUME NEW c \in Calls, Measured(c) PROVE BoxesOK'
  BY <1>4 DEF Measured, End, Goto, BeginWorker
<1>5. ASSUME NEW c \in Calls, Staged(c) PROVE BoxesOK'
  BY <1>5 DEF Staged, Goto
<1>6. ASSUME NEW c \in Calls, Publish(c) PROVE BoxesOK'
  BY <1>6 DEF Publish, End, Goto
<1>7. ASSUME NEW c \in Calls, RunReturns(c) PROVE BoxesOK'
  <2>1. PICK o \in Runner!Reports : /\ Runner!Permits(box[c], o)
                                    /\ box' = [box EXCEPT ![c] = Runner!Left(@, o)]
                                    /\ End(c, Told[o])
    BY <1>7 DEF RunReturns
  <2>2. /\ pc' = [pc EXCEPT ![c] = "ended"] /\ out' = [out EXCEPT ![c] = Told[o]]
        /\ UNCHANGED what /\ pc[c] = "run" /\ out[c] = "none"
    BY <1>7, <2>1 DEF RunReturns, End, Goto
  <2>3. CASE o \in Runner!Unsafe
    <3>1. Told[o] = o
      BY <2>3 DEF Told, Runner!Unsafe
    <3>2. Runner!Left(box[c], o) = IF box[c] = "none" THEN "late" ELSE box[c]
      BY <2>3 DEF Runner!Left
    <3>. QED  BY <2>1, <2>2, <2>3, <3>1, <3>2 DEF Runner!Unsafe
  <2>4. CASE o \notin Runner!Unsafe
    <3>1. o \in {"result", "error", "cancelledBefore"}
      BY <2>4 DEF Runner!Reports, Runner!Unsafe
    <3>2. box[c] \in {"none", "gone"} /\ (o = "cancelledBefore" => box[c] = "none")
      <4>1. CASE o = "cancelledBefore"
        BY <2>1, <4>1 DEF Runner!Permits, Runner!Unsafe
      <4>2. CASE o \in {"result", "error"}
        BY <2>1, <4>2 DEF Runner!Permits, Runner!Unsafe
      <4>. QED  BY <3>1, <4>1, <4>2
    <3>3. Told[o] = "retrySafe" => o = "cancelledBefore"
      BY <3>1 DEF Told
    <3>4. box' = [box EXCEPT ![c] = box[c]]
      BY <2>1, <2>4 DEF Runner!Left
    <3>. QED  BY <2>1, <2>2, <3>2, <3>3, <3>4
  <2>. QED  BY <2>3, <2>4
<1>8. ASSUME NEW c \in Calls, SpawnResolves(c) PROVE BoxesOK'
  BY <1>8 DEF SpawnResolves
<1>9. ASSUME NEW c \in Calls, ReapSpawn(c) PROVE BoxesOK'
  BY <1>9 DEF ReapSpawn
<1>10. ASSUME NEW c \in Calls, WorkerDies(c) PROVE BoxesOK'
  BY <1>10 DEF WorkerDies
<1>11. ASSUME NEW c \in Calls, ContainerStarts(c) PROVE BoxesOK'
  BY <1>11 DEF ContainerStarts
<1>12. ASSUME NEW c \in Calls, ContainerEnds(c) PROVE BoxesOK'
  BY <1>12 DEF ContainerEnds
<1>13. ASSUME NEW c \in Calls, Cancel(c) PROVE BoxesOK'
  BY <1>13 DEF Cancel
<1>14. CASE Close
  BY <1>14 DEF Close
<1>15. CASE Drain
  BY <1>15 DEF Drain
<1>16. CASE CloseWorkers
  BY <1>16 DEF CloseWorkers, Quiet
<1>. QED
  BY <1>1, <1>2, <1>3, <1>4, <1>5, <1>6, <1>7, <1>8, <1>9, <1>10, <1>11, <1>12, <1>13, <1>14,
     <1>15, <1>16
  DEF Next, Call, Reap

\* What a step of one call leaves to the others.
Beside(c) ==
  \A d \in Calls \ {c} :
    /\ pc'[d] = pc[d] /\ worker'[d] = worker[d]
    /\ d \in ops => d \in ops'
    /\ \A k \in {"spawn", "exit"} : <<d, k>> \in reapers => <<d, k>> \in reapers'

LEMMA BesideKept ==
  ASSUME IInv, NEW c \in Calls, Beside(c), Watched(c)'
  PROVE  WorkersOK'
<1>. SUFFICES ASSUME NEW d \in Calls PROVE Watched(d)'
  BY DEF WorkersOK
<1>1. CASE d = c
  BY <1>1
<1>2. CASE d # c
  BY <1>2 DEF Beside, Watched, IInv, WorkersOK
<1>. QED  BY <1>1, <1>2

LEMMA WorkersKept ==
  ASSUME IInv, Next
  PROVE  WorkersOK'
<1>. USE DEF IInv, CallsTyped, ProcessesTyped, vars, calls, processes, supervisor, close
<1>0. \A c \in Calls : Watched(c)
  BY DEF WorkersOK
<1>1. ASSUME NEW c \in Calls, Enter(c) PROVE WorkersOK'
  <2>1. Beside(c)
    BY <1>1 DEF Enter, End, Goto, Beside
  <2>2. Watched(c)'
    BY <1>1, <1>0 DEF Enter, End, Goto, Watched
  <2>. QED  BY <2>1, <2>2, BesideKept
<1>2. ASSUME NEW c \in Calls, AcquireLock(c) PROVE WorkersOK'
  <2>1. Beside(c)
    BY <1>2 DEF AcquireLock, End, Goto, BeginWorker, Beside
  <2>2. Watched(c)'
    BY <1>2, <1>0 DEF AcquireLock, End, Goto, BeginWorker, CallsOK, CloseOK, Holding, Watched
  <2>. QED  BY <2>1, <2>2, BesideKept
<1>3. ASSUME NEW c \in Calls, WorkerFails(c) PROVE WorkersOK'
  <2>1. Beside(c)
    BY <1>3 DEF WorkerFails, GiveUp, LetGo, Track, End, Goto, Beside
  <2>2. Watched(c)'
    BY <1>3, <1>0 DEF WorkerFails, GiveUp, LetGo, Track, End, Goto, CallsOK, CloseOK, Holding, Watched
  <2>. QED  BY <2>1, <2>2, BesideKept
<1>4. ASSUME NEW c \in Calls, Measured(c) PROVE WorkersOK'
  <2>1. Beside(c)
    BY <1>4 DEF Measured, End, Goto, BeginWorker, Beside
  <2>2. Watched(c)'
    BY <1>4, <1>0 DEF Measured, End, Goto, BeginWorker, CallsOK, CloseOK, Holding, Watched
  <2>. QED  BY <2>1, <2>2, BesideKept
<1>5. ASSUME NEW c \in Calls, Staged(c) PROVE WorkersOK'
  <2>1. Beside(c)
    BY <1>5 DEF Staged, Goto, Beside
  <2>2. Watched(c)'
    BY <1>5, <1>0 DEF Staged, Goto, Watched
  <2>. QED  BY <2>1, <2>2, BesideKept
<1>6. ASSUME NEW c \in Calls, Publish(c) PROVE WorkersOK'
  <2>1. Beside(c)
    BY <1>6 DEF Publish, End, Goto, Beside
  <2>2. Watched(c)'
    BY <1>6, <1>0 DEF Publish, End, Goto, CallsOK, Watched
  <2>. QED  BY <2>1, <2>2, BesideKept
<1>7. ASSUME NEW c \in Calls, RunReturns(c) PROVE WorkersOK'
  <2>1. Beside(c)
    BY <1>7 DEF RunReturns, End, Goto, Beside
  <2>2. Watched(c)'
    BY <1>7, <1>0 DEF RunReturns, End, Goto, CallsOK, Watched
  <2>. QED  BY <2>1, <2>2, BesideKept
<1>8. ASSUME NEW c \in Calls, SpawnResolves(c) PROVE WorkersOK'
  <2>1. Beside(c)
    BY <1>8 DEF SpawnResolves, Beside
  <2>2. Watched(c)'
    BY <1>8, <1>0 DEF SpawnResolves, Watched
  <2>. QED  BY <2>1, <2>2, BesideKept
<1>9. ASSUME NEW c \in Calls, ReapSpawn(c) PROVE WorkersOK'
  <2>1. Beside(c)
    BY <1>9 DEF ReapSpawn, Beside
  <2>2. Watched(c)'
    BY <1>9, <1>0 DEF ReapSpawn, Resting, Watched
  <2>. QED  BY <2>1, <2>2, BesideKept
<1>10. ASSUME NEW c \in Calls, WorkerDies(c) PROVE WorkersOK'
  <2>1. Beside(c)
    BY <1>10 DEF WorkerDies, Beside
  <2>2. Watched(c)'
    BY <1>10, <1>0 DEF WorkerDies, Watched
  <2>. QED  BY <2>1, <2>2, BesideKept
<1>11. ASSUME NEW c \in Calls, ContainerStarts(c) \/ ContainerEnds(c) \/ Cancel(c)
      PROVE  WorkersOK'
  BY <1>11 DEF ContainerStarts, ContainerEnds, Cancel, WorkersOK, Watched
<1>12. CASE Close \/ Drain
  BY <1>12 DEF Close, Drain, WorkersOK, Watched
<1>13. CASE CloseWorkers
  BY <1>13 DEF CloseWorkers, WorkersOK, Watched
<1>. QED
  BY <1>1, <1>2, <1>3, <1>4, <1>5, <1>6, <1>7, <1>8, <1>9, <1>10, <1>11, <1>12, <1>13
  DEF Next, Call, Reap

LEMMA CloseKept ==
  ASSUME IInv, Next
  PROVE  CloseOK'
<1>. USE DEF IInv, CloseOK, vars, calls, processes, supervisor, close
<1>1. ASSUME NEW c \in Calls, Enter(c) PROVE CloseOK'
  <2>1. UNCHANGED <<close, reapers>> /\ (inside' \subseteq inside \/ ~sealed)
    BY <1>1 DEF Enter, End
  <2>. QED  BY <2>1
<1>2. ASSUME NEW c \in Calls, Call(c), ~Enter(c) PROVE CloseOK'
  <2>1. pc[c] \in Holding \cup {"lock"}
    BY <1>2 DEF Call, AcquireLock, WorkerFails, Measured, Staged, Publish, RunReturns, Holding
  <2>2. c \in inside
    BY <2>1 DEF CallsOK
  <2>3. ~closing /\ ~closed /\ UNCHANGED close
    BY <1>2, <2>2 DEF Call, AcquireLock, WorkerFails, Measured, Staged, Publish, RunReturns
  <2>. QED  BY <2>3
<1>3. ASSUME NEW c \in Calls, ReapSpawn(c) PROVE CloseOK'
  <2>1. ~closed
    BY <1>3 DEF ReapSpawn
  <2>2. UNCHANGED <<close, inside>>
    BY <1>3 DEF ReapSpawn
  <2>. QED  BY <2>1, <2>2
<1>4. ASSUME NEW c \in Calls, WorkerDies(c) PROVE CloseOK'
  BY <1>4 DEF WorkerDies
<1>5. ASSUME NEW c \in Calls, SpawnResolves(c) \/ ContainerStarts(c) \/ ContainerEnds(c) \/ Cancel(c)
      PROVE  CloseOK'
  BY <1>5 DEF SpawnResolves, ContainerStarts, ContainerEnds, Cancel
<1>6. CASE Close \/ Drain
  BY <1>6 DEF Close, Drain
<1>7. CASE CloseWorkers
  BY <1>7 DEF CloseWorkers, Quiet
<1>. QED  BY <1>1, <1>2, <1>3, <1>4, <1>5, <1>6, <1>7 DEF Next, Reap

LEMMA Inductive == Spec => []IInv
<1>1. IInv /\ [Next]_vars => IInv'
  <2>. SUFFICES ASSUME IInv, [Next]_vars PROVE IInv'
    OBVIOUS
  <2>1. CASE Next
    BY <2>1, CallsTypedKept, ProcessesTypedKept, CloseTypedKept, CallsKept, BoxesKept, WorkersKept,
       CloseKept DEF IInv
  <2>2. CASE UNCHANGED vars
    BY <2>2 DEF vars, calls, processes, supervisor, close, IInv, CallsTyped, ProcessesTyped,
                CloseTyped, CallsOK, BoxesOK, WorkersOK, Watched, CloseOK
  <2>. QED  BY <2>1, <2>2
<1>. QED  BY <1>1, InitInv, PTL DEF Spec

-----------------------------------------------------------------------------
(* The theorems.                                                           *)

\* The calls, their processes, the supervisor and the close are well typed.
THEOREM InterpreterTypes == Spec => []TypeOK
<1>1. IInv => TypeOK
  BY DEF IInv, TypeOK, CallsTyped, ProcessesTyped, CloseTyped, Places
<1>. QED  BY <1>1, Inductive, PTL

\* A container runs the script of its own call and no second agent is beside it.
THEOREM WorkspaceHasOneOwner == Spec => []WorkspaceOwned
<1>1. IInv => WorkspaceOwned
  <2>. SUFFICES ASSUME IInv PROVE WorkspaceOwned
    OBVIOUS
  <2>1. RunsOwnScript
    BY DEF IInv, BoxesOK, RunsOwnScript
  <2>2. OneAgent
    BY DEF IInv, BoxesOK, CallsOK, OneAgent, Holding
  <2>. QED  BY <2>1, <2>2 DEF WorkspaceOwned
<1>. QED  BY <1>1, Inductive, PTL

\* A call that may be retried ran nothing, and a staged file is confessed.
THEOREM RetrySafeIsSafe == Spec => []RetrySafeLeavesNothing
<1>1. IInv => RetrySafeLeavesNothing
  BY DEF IInv, CallsOK, BoxesOK, RetrySafeLeavesNothing
<1>. QED  BY <1>1, Inductive, PTL

\* When the supervisor is closed, nothing of it is left.
THEOREM ClosedMeansQuiet == Spec => []ClosedIsQuiet
<1>1. IInv => ClosedIsQuiet
  <2>. SUFFICES ASSUME IInv, closed, NEW c \in Calls
                PROVE  inside = {} /\ reapers = {} /\ worker[c] \in Resting
    BY DEF ClosedIsQuiet, IInv, CloseOK
  <2>1. inside = {} /\ reapers = {}
    BY DEF IInv, CloseOK
  <2>2. c \notin ops
    BY <2>1 DEF IInv, CallsOK, Holding
  <2>3. worker[c] \notin {"spawning", "live", "killed"}
    BY <2>1, <2>2 DEF IInv, WorkersOK, Watched
  <2>. QED  BY <2>1, <2>3 DEF IInv, ProcessesTyped
<1>. QED  BY <1>1, Inductive, PTL

=============================================================================
