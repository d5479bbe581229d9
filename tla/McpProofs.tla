----------------------------- MODULE McpProofs -----------------------------
(***************************************************************************)
(* Theorems about McpTools, for every number of drivers, every set of      *)
(* tools and every server, whatever is edited, paused, released or dies.   *)
(***************************************************************************)
EXTENDS McpTools, FiniteSetTheorems, TLAPS

\* What the next step of a process dereferences exists, and a request that was
\* not dispatched was not sent.
Well(p, w) ==
  /\ p \in Processes
  /\ p.pc \in {"offer", "turn", "open", "sent", "closing"} => p.pinned # None
  /\ p.pc = "pin" => p.heard # None
  /\ p.tool # None => p.pc \in {"open", "sent", "closing"}
  /\ p.pc = "open" => w = "none"

Shaped == TypeOK /\ \A d \in Drivers : Well(proc[d], wire[d])

\* While the run lives, a list that is pinned somewhere, or was offered, is saved.
PinnedIsSaved == ~Over /\ Listed => saved # None

\* Neither of the two ways to a second list was taken.
Regular == ~raced /\ ~reread

Reading == {"discover", "pin"}

\* While the only reader of the list is at it, there is no list.
Unread == saved = None /\ shown = {} /\ \A d \in Drivers : proc[d].pinned = None

OneReader ==
  Regular => \A d \in Drivers : proc[d].pc \in Reading =>
               Unread /\ \A e \in Drivers \ {d} : proc[e].pc \notin Reading

\* All copies of the list are of one list.
Agree(list) ==
  /\ shown \subseteq {list}
  /\ saved # None => saved.list = list
  /\ \A d \in Drivers : proc[d].pinned \in {None, list}

OneList == Regular => \E list : Agree(list)

IInv == Shaped /\ PinnedIsSaved /\ OneReader /\ OneList

LEMMA InitInv == Init => IInv
<1>. SUFFICES ASSUME Init PROVE IInv
  OBVIOUS
<1>. USE ConfigAssumption, NoneAssumption DEF Init
<1>1. Down \in Processes /\ Down.pc = "down" /\ Down.pinned = None /\ Down.tool = None
  BY DEF Down, Processes, Configs
<1>2. \A d \in Drivers : Well(proc[d], wire[d])
  BY <1>1 DEF Well
<1>5. TypeOK
  <2>1. proc \in [Drivers -> Processes] /\ wire \in [Drivers -> {"none", "sent", "ran"}]
    BY <1>1
  <2>2. config \in Configs
    BY DEF Configs
  <2>3. raced \in BOOLEAN /\ reread \in BOOLEAN
    BY Zenon
  <2>. QED  BY <2>1, <2>2, <2>3 DEF TypeOK
<1>3. PinnedIsSaved /\ OneReader
  BY <1>1 DEF PinnedIsSaved, Listed, OneReader, Reading
<1>4. Agree({})
  BY <1>1 DEF Agree
<1>. QED  BY <1>2, <1>5, <1>3, <1>4 DEF IInv, OneList, Shaped

-----------------------------------------------------------------------------
(* The steps, by what they do to the list.                                 *)

\* One process becomes p; the others and their requests stay as they are.
Alters(d, p) ==
  /\ Becomes(d, p) /\ Well(p, wire'[d])
  /\ wire' \in [Drivers -> {"none", "sent", "ran"}]
  /\ \A e \in Drivers \ {d} : wire'[e] = "none" <=> wire[e] = "none"
  /\ UNCHANGED <<config, status>>

\* The list is left alone, or forgotten by one process.
Passes(d) ==
  \E p : /\ Alters(d, p)
         /\ p.pinned \in {None, proc[d].pinned}
         /\ p.pc \in Reading => proc[d].pc \in Reading
         /\ UNCHANGED <<saved, shown, raced, reread>>

\* The rows of a run that is over are deleted.
Erases(d) ==
  \E p : /\ Alters(d, p) /\ p.pinned = None /\ p.pc \notin Reading
         /\ saved' = (IF Over THEN None ELSE saved)
         /\ UNCHANGED <<shown, raced, reread>>

Restores(d) ==
  \E p : /\ Alters(d, p) /\ p.pc \notin Reading
         /\ saved # None /\ p.pinned = saved.list /\ saved \in Snapshots
         /\ UNCHANGED <<saved, shown, raced, reread>>

BeginsToRead(d) ==
  \E p : /\ Alters(d, p) /\ p.pinned = None /\ p.pc \in Reading
         /\ saved = None
         /\ raced' = (raced \/ Discovering(d)) /\ reread' = (reread \/ (Over /\ Listed))
         /\ UNCHANGED <<saved, shown>>

Pins(d) ==
  \E p : /\ Alters(d, p) /\ p.pinned \in Lists /\ p.pc \notin Reading
         /\ proc[d].pc \in Reading
         /\ saved' \in Snapshots /\ saved'.list = p.pinned
         /\ UNCHANGED <<shown, raced, reread>>

Offers(d) ==
  \E p : /\ Alters(d, p) /\ p.pinned = proc[d].pinned /\ p.pinned \in Lists /\ p.pc \notin Reading
         /\ shown' = shown \cup {p.pinned}
         /\ UNCHANGED <<saved, raced, reread>>

Others == /\ UNCHANGED <<saved, proc, wire, shown, raced, reread>>
          /\ config' \in Configs /\ status' \in {"RUNNING", "WAITING_HUMAN"} \cup Ended
          /\ Over => status' = status

Kinds(d) ==
  Passes(d) \/ Erases(d) \/ Restores(d) \/ BeginsToRead(d) \/ Pins(d) \/ Offers(d)

LEMMA ToldWell ==
  ASSUME NEW p \in Processes, NEW w,
         NEW what \in {"nothing", "result", "retry", "unknown", "fatal", "refused"}
  PROVE  LET q == [p EXCEPT !.pc = "idle", !.tool = None, !.heard = None, !.told = what]
         IN  Well(q, w) /\ q.pinned = p.pinned /\ q.pc = "idle"
  BY DEF Well, Processes

\* An operation that is over passes the list on.
LEMMA TellsPasses ==
  ASSUME Shaped, NEW d \in Drivers, UNCHANGED <<config, status, saved, wire, shown, raced, reread>>,
         NEW what \in {"nothing", "result", "retry", "unknown", "fatal", "refused"}, Tells(d, what)
  PROVE  Passes(d)
<1>. DEFINE q == [proc[d] EXCEPT !.pc = "idle", !.tool = None, !.heard = None, !.told = what]
<1>1. proc[d] \in Processes /\ Becomes(d, q)
  BY DEF Tells, Shaped, TypeOK
<1>2. Well(q, wire[d]) /\ q.pinned = proc[d].pinned /\ q.pc = "idle"
  BY <1>1, ToldWell
<1>. HIDE DEF q
<1>3. Alters(d, q)
  BY <1>1, <1>2 DEF Alters, Shaped, TypeOK
<1>. QED  BY <1>2, <1>3 DEF Passes, Reading

LEMMA Steps ==
  ASSUME Shaped, Next
  PROVE  Others \/ \E d \in Drivers : Kinds(d)
<1>. USE ConfigAssumption, NoneAssumption
<1>0. /\ \A d \in Drivers : proc[d] \in Processes /\ Well(proc[d], wire[d])
      /\ proc \in [Drivers -> Processes] /\ wire \in [Drivers -> {"none", "sent", "ran"}]
      /\ config \in Configs /\ saved \in {None} \cup Snapshots
  BY DEF Shaped, TypeOK
<1>1. CASE RunMoves
  BY <1>1, <1>0 DEF RunMoves, Others, Over
<1>2. CASE AdminEdits
  BY <1>2, <1>0 DEF AdminEdits, Others, Configs, Shaped, TypeOK
<1>3. ASSUME NEW d \in Drivers, Step(d)
      PROVE  Kinds(d)
  <2>0. Well(proc[d], wire[d]) /\ proc[d] \in Processes
    BY <1>0
  <2>1. CASE Starts(d)
    <3>. DEFINE p == [Down EXCEPT !.fp = config, !.pc = "idle"]
    <3>1. Well(p, wire[d]) /\ p.pinned = None /\ p.pc = "idle"
      BY <1>0 DEF Well, Processes, Down
    <3>. HIDE DEF p
    <3>. QED  BY <2>1, <1>0, <3>1 DEF Starts, SavedAfterCleanup, Kinds, Erases, Alters, Reading, p
  <2>2. CASE ReleaseRun(d)
    <3>1. Well(Down, wire[d]) /\ Down.pinned = None /\ Down.pc = "down"
      BY DEF Well, Processes, Down, Configs
    <3>. QED  BY <2>2, <1>0, <3>1 DEF ReleaseRun, SavedAfterRelease, Kinds, Erases, Alters, Reading
  <2>3. CASE Crash(d)
    <3>1. Well(Down, wire[d]) /\ Down.pinned = None /\ Down.pc = "down"
      BY DEF Well, Processes, Down, Configs
    <3>. QED  BY <2>3, <1>0, <3>1 DEF Crash, Kinds, Passes, Alters, Reading
  <2>4. CASE PrepareRun(d)
    <3>1. CASE Tells(d, "fatal") /\ UNCHANGED <<raced, reread>>
      BY <2>4, <3>1, TellsPasses DEF PrepareRun, Kinds
    <3>2. CASE proc[d].pinned # None /\ Goes(d, "offer") /\ UNCHANGED <<raced, reread>>
      <4>. DEFINE p == [proc[d] EXCEPT !.pc = "offer"]
      <4>1. Well(p, wire[d]) /\ p.pinned = proc[d].pinned /\ p.pc = "offer"
        BY <2>0, <2>4, <3>2 DEF Well, Processes, PrepareRun, At
      <4>. QED  BY <2>4, <3>2, <1>0, <4>1 DEF PrepareRun, Goes, Kinds, Passes, Alters, Reading
    <3>3. CASE /\ Restorable(d) /\ UNCHANGED <<raced, reread>>
               /\ Becomes(d, [proc[d] EXCEPT !.pinned = saved.list, !.pc = "offer"])
      <4>. DEFINE p == [proc[d] EXCEPT !.pinned = saved.list, !.pc = "offer"]
      <4>1. saved # None /\ saved \in Snapshots /\ saved.list \in Lists
        BY <3>3, <1>0 DEF Restorable, Snapshots
      <4>2. Well(p, wire[d]) /\ p.pinned = saved.list /\ p.pc = "offer"
        BY <2>0, <2>4, <4>1 DEF Well, Processes, PrepareRun, At
      <4>. QED  BY <2>4, <3>3, <1>0, <4>1, <4>2 DEF PrepareRun, Kinds, Restores, Alters, Reading
    <3>4. CASE /\ saved = None /\ proc[d].pinned = None
               /\ Goes(d, "discover")
               /\ raced' = (raced \/ Discovering(d)) /\ reread' = (reread \/ (Over /\ Listed))
      <4>. DEFINE p == [proc[d] EXCEPT !.pc = "discover"]
      <4>1. Well(p, wire[d]) /\ p.pinned = None /\ p.pc = "discover"
        BY <2>0, <2>4, <3>4 DEF Well, Processes, PrepareRun, At
      <4>. HIDE DEF p
      <4>. QED  BY <2>4, <3>4, <1>0, <4>1 DEF PrepareRun, Goes, Kinds, BeginsToRead, Alters, Reading, p
    <3>. QED  BY <2>4, <3>1, <3>2, <3>3, <3>4 DEF PrepareRun
  <2>5. CASE PinTools(d)
    <3>1. PICK list \in SUBSET Tools :
            \/ Acceptable(list) /\ Becomes(d, [proc[d] EXCEPT !.pc = "pin", !.heard = Exposed(list)])
            \/ Tells(d, "fatal")
      BY <2>5 DEF PinTools
    <3>2. CASE Tells(d, "fatal")
      BY <2>5, <3>2, TellsPasses DEF PinTools, Kinds
    <3>3. CASE Acceptable(list) /\ Becomes(d, [proc[d] EXCEPT !.pc = "pin", !.heard = Exposed(list)])
      <4>. DEFINE p == [proc[d] EXCEPT !.pc = "pin", !.heard = Exposed(list)]
      <4>1. Exposed(list) \in Lists
        BY <3>3 DEF Acceptable, Exposed, Lists
      <4>2. Well(p, wire[d]) /\ p.pinned = proc[d].pinned
        BY <2>0, <2>5, <4>1 DEF Well, Processes, PinTools, At
      <4>. QED  BY <2>5, <3>3, <1>0, <4>2 DEF PinTools, At, Kinds, Passes, Alters, Reading
    <3>. QED  BY <3>1, <3>2, <3>3
  <2>6. CASE DiscoveryFails(d)
    BY <2>6, TellsPasses DEF DiscoveryFails, Kinds
  <2>7. CASE Pin(d)
    <3>. DEFINE p == [proc[d] EXCEPT !.pinned = proc[d].heard, !.heard = None, !.pc = "offer"]
    <3>1. proc[d].heard \in Lists /\ proc[d].fp \in Configs
      BY <2>0, <2>7 DEF Pin, At, Well, Processes
    <3>2. Well(p, wire[d]) /\ p.pinned = proc[d].heard /\ p.pc = "offer"
      BY <2>0, <2>7, <3>1 DEF Well, Processes, Pin, At
    <3>3. saved' \in Snapshots /\ saved'.list = p.pinned
      BY <2>7, <3>1, <3>2 DEF Pin, Snapshots
    <3>. HIDE DEF p
    <3>. QED  BY <2>7, <1>0, <3>1, <3>2, <3>3 DEF Pin, At, Kinds, Pins, Alters, Reading, p
  <2>8. CASE ToolsFor(d)
    <3>. DEFINE p == [proc[d] EXCEPT !.pc = "turn"]
    <3>1. Well(p, wire[d]) /\ p.pinned = proc[d].pinned /\ p.pc = "turn" /\ p.pinned \in Lists
      BY <2>0, <2>8 DEF Well, Processes, ToolsFor, At
    <3>. HIDE DEF p
    <3>. QED  BY <2>8, <1>0, <3>1 DEF ToolsFor, Goes, Kinds, Offers, Alters, Reading, p
  <2>9. CASE TurnEnds(d)
    BY <2>9, TellsPasses DEF TurnEnds, Kinds
  <2>10. CASE Call(d)
    <3>1. PICK t \in Tools :
            \/ Tells(d, "refused") /\ UNCHANGED wire
            \/ /\ Becomes(d, [proc[d] EXCEPT !.pc = "open", !.tool = t])
               /\ wire' = [wire EXCEPT ![d] = "none"]
      BY <2>10 DEF Call
    <3>2. CASE Tells(d, "refused") /\ UNCHANGED wire
      BY <2>10, <3>2, TellsPasses DEF Call, Kinds
    <3>3. CASE /\ Becomes(d, [proc[d] EXCEPT !.pc = "open", !.tool = t])
               /\ wire' = [wire EXCEPT ![d] = "none"]
      <4>. DEFINE p == [proc[d] EXCEPT !.pc = "open", !.tool = t]
      <4>1. Well(p, "none") /\ p.pinned = proc[d].pinned /\ p.pc = "open"
        BY <2>0, <2>10 DEF Well, Processes, Call, At
      <4>. QED  BY <2>10, <3>3, <1>0, <4>1 DEF Call, Kinds, Passes, Alters, Reading
    <3>. QED  BY <3>1, <3>2, <3>3
  <2>11. CASE Dispatch(d)
    <3>. DEFINE p == [proc[d] EXCEPT !.pc = "sent"]
    <3>1. Well(p, "sent") /\ p.pinned = proc[d].pinned /\ p.pc = "sent"
      BY <2>0, <2>11 DEF Well, Processes, Dispatch, At
    <3>. QED  BY <2>11, <1>0, <3>1 DEF Dispatch, Goes, Kinds, Passes, Alters, Reading
  <2>12. CASE CallFails(d)
    BY <2>12, TellsPasses DEF CallFails, FailureForPhase, Kinds
  <2>13. CASE CredentialFails(d)
    BY <2>13, TellsPasses DEF CredentialFails, Kinds
  <2>14. CASE ServerRuns(d)
    <3>1. Becomes(d, proc[d]) /\ Well(proc[d], "ran")
      BY <2>0, <2>14, <1>0 DEF ServerRuns, Becomes, Well
    <3>. QED  BY <2>14, <1>0, <3>1 DEF ServerRuns, Kinds, Passes, Alters
  <2>15. CASE Answers(d)
    <3>1. CASE Tells(d, "unknown")
      BY <2>15, <3>1, TellsPasses DEF Answers, Kinds
    <3>2. CASE Goes(d, "closing")
      <4>. DEFINE p == [proc[d] EXCEPT !.pc = "closing"]
      <4>1. Well(p, wire[d]) /\ p.pinned = proc[d].pinned /\ p.pc = "closing"
        BY <2>0, <2>15 DEF Well, Processes, Answers, At
      <4>. QED  BY <2>15, <3>2, <1>0, <4>1 DEF Answers, Goes, Kinds, Passes, Alters, Reading
    <3>. QED  BY <2>15, <3>1, <3>2 DEF Answers
  <2>16. CASE Returns(d)
    <3>. DEFINE p == [proc[d] EXCEPT !.pc = "turn", !.tool = None, !.told = "result"]
    <3>1. Well(p, wire[d]) /\ p.pinned = proc[d].pinned /\ p.pc = "turn"
      BY <2>0, <2>16 DEF Well, Processes, Returns, At
    <3>. QED  BY <2>16, <1>0, <3>1 DEF Returns, Kinds, Passes, Alters, Reading
  <2>. QED  BY <1>3, <2>1, <2>2, <2>3, <2>4, <2>5, <2>6, <2>7, <2>8, <2>9, <2>10, <2>11, <2>12,
            <2>13, <2>14, <2>15, <2>16 DEF Step
<1>. QED  BY <1>1, <1>2, <1>3 DEF Next

-----------------------------------------------------------------------------
(* The invariant.                                                          *)

\* What becomes of the other processes.
LEMMA OthersStay ==
  ASSUME Shaped, NEW d \in Drivers, NEW p, Alters(d, p)
  PROVE  /\ proc'[d] = p /\ p \in Processes /\ proc' \in [Drivers -> Processes]
         /\ \A e \in Drivers \ {d} : proc'[e] = proc[e]
  BY DEF Shaped, TypeOK, Alters, Becomes, Well

LEMMA AltersShaped ==
  ASSUME Shaped, NEW d \in Drivers, NEW p, Alters(d, p),
         saved' \in {None} \cup Snapshots, shown' \subseteq Lists,
         raced' \in BOOLEAN, reread' \in BOOLEAN
  PROVE  Shaped'
<1>1. TypeOK'
  BY OthersStay DEF Shaped, TypeOK, Alters
<1>2. ASSUME NEW e \in Drivers PROVE Well(proc'[e], wire'[e])
  <2>1. CASE e = d
    BY <2>1, OthersStay DEF Alters
  <2>2. CASE e # d
    BY <2>2, OthersStay DEF Shaped, Alters, Well
  <2>. QED  BY <2>1, <2>2
<1>. QED  BY <1>1, <1>2 DEF Shaped

LEMMA ShapedKept ==
  ASSUME Shaped, NEW d \in Drivers, Kinds(d)
  PROVE  Shaped'
<1>0. /\ saved \in {None} \cup Snapshots /\ shown \subseteq Lists
      /\ raced \in BOOLEAN /\ reread \in BOOLEAN
  BY DEF Shaped, TypeOK
<1>1. CASE Passes(d) \/ Restores(d) \/ Erases(d)
  BY <1>0, <1>1, AltersShaped DEF Passes, Restores, Erases
<1>2. CASE BeginsToRead(d)
  BY <1>0, <1>2, AltersShaped DEF BeginsToRead, Discovering
<1>3. CASE Pins(d) \/ Offers(d)
  BY <1>0, <1>3, AltersShaped DEF Pins, Offers
<1>. QED  BY <1>1, <1>2, <1>3 DEF Kinds

LEMMA PinnedKept ==
  ASSUME IInv, NEW d \in Drivers, Kinds(d)
  PROVE  PinnedIsSaved'
<1>. USE NoneAssumption DEF PinnedIsSaved, Listed
<1>0. Shaped /\ PinnedIsSaved /\ (\A p : Alters(d, p) => Over' = Over)
  BY DEF IInv, Alters, Over
<1>1. CASE Passes(d)
  BY <1>0, <1>1, OthersStay DEF Passes
<1>2. CASE Erases(d)
  BY <1>0, <1>2, OthersStay DEF Erases
<1>3. CASE Restores(d) \/ Pins(d)
  BY <1>0, <1>3, OthersStay DEF Restores, Pins
<1>4. CASE BeginsToRead(d)
  BY <1>0, <1>4, OthersStay DEF BeginsToRead
<1>5. CASE Offers(d)
  BY <1>0, <1>5, OthersStay DEF Offers, Lists
<1>. QED  BY <1>1, <1>2, <1>3, <1>4, <1>5 DEF Kinds

LEMMA ReaderKept ==
  ASSUME IInv, NEW d \in Drivers, Kinds(d)
  PROVE  OneReader'
<1>. USE NoneAssumption DEF OneReader, Unread, Regular
<1>0. Shaped /\ OneReader
  BY DEF IInv
<1>1. CASE Passes(d) \/ Erases(d)
  BY <1>0, <1>1, OthersStay DEF Passes, Erases
<1>2. CASE Restores(d)
  BY <1>0, <1>2, OthersStay DEF Restores
<1>3. CASE BeginsToRead(d)
  <2>1. Regular' => Unread
    BY <1>3 DEF IInv, PinnedIsSaved, Listed, BeginsToRead
  <2>2. Regular' => Regular /\ \A e \in Drivers \ {d} : proc[e].pc \notin Reading
    BY <1>3 DEF BeginsToRead, Discovering, Reading
  <2>. QED  BY <1>0, <1>3, <2>1, <2>2, OthersStay DEF BeginsToRead
<1>4. CASE Pins(d)
  BY <1>0, <1>4, OthersStay DEF Pins
<1>5. CASE Offers(d)
  BY <1>0, <1>5, OthersStay DEF Offers, Lists
<1>. QED  BY <1>1, <1>2, <1>3, <1>4, <1>5 DEF Kinds

LEMMA ListKept ==
  ASSUME IInv, NEW d \in Drivers, Kinds(d)
  PROVE  OneList'
<1>. SUFFICES ASSUME Regular' PROVE \E list : Agree(list)'
  BY DEF OneList
<1>0. Shaped /\ OneReader /\ OneList /\ Regular
  <2>1. ~raced' /\ ~reread'
    BY DEF Regular
  <2>2. raced' = raced \/ raced' = (raced \/ Discovering(d))
    BY DEF Kinds, Passes, Erases, Restores, BeginsToRead, Pins, Offers
  <2>3. reread' = reread \/ reread' = (reread \/ (Over /\ Listed))
    BY DEF Kinds, Passes, Erases, Restores, BeginsToRead, Pins, Offers
  <2>4. ~raced
    BY <2>1, <2>2, Zenon
  <2>5. ~reread
    BY <2>1, <2>3, Zenon
  <2>. QED  BY <2>4, <2>5 DEF IInv, Regular
<1>1. PICK list : Agree(list)
  BY <1>0 DEF OneList
<1>. USE NoneAssumption DEF Agree
<1>2. CASE Passes(d) \/ Erases(d) \/ Restores(d) \/ BeginsToRead(d)
  <2>1. Agree(list)'
    BY <1>0, <1>1, <1>2, OthersStay DEF Passes, Erases, Restores, BeginsToRead
  <2>. QED  BY <2>1
<1>3. CASE Pins(d)
  <2>1. PICK p : Alters(d, p) /\ saved'.list = p.pinned /\ UNCHANGED shown
    BY <1>3 DEF Pins
  <2>2. Unread
    BY <1>0, <1>3 DEF Pins, OneReader
  <2>3. Agree(p.pinned)'
    BY <1>0, <2>1, <2>2, OthersStay DEF Unread
  <2>. QED  BY <2>3
<1>4. CASE Offers(d)
  <2>1. Agree(list)'
    BY <1>0, <1>1, <1>4, OthersStay DEF Offers, Lists
  <2>. QED  BY <2>1
<1>. QED  BY <1>2, <1>3, <1>4 DEF Kinds

LEMMA Inductive == Spec => []IInv
<1>1. IInv /\ [Next]_vars => IInv'
  <2>. SUFFICES ASSUME IInv, [Next]_vars PROVE IInv'
    OBVIOUS
  <2>1. CASE UNCHANGED vars
    BY <2>1 DEF vars, IInv, Shaped, TypeOK, PinnedIsSaved, Listed, Over, OneReader, Unread, Regular, OneList, Agree
  <2>2. CASE Others
    BY <2>2 DEF Others, IInv, Shaped, TypeOK, PinnedIsSaved, Listed, Over, OneReader, Unread, Regular, OneList, Agree
  <2>3. ASSUME NEW d \in Drivers, Kinds(d) PROVE IInv'
    BY <2>3, ShapedKept, PinnedKept, ReaderKept, ListKept DEF IInv
  <2>. QED  BY <2>1, <2>2, <2>3, Steps DEF IInv
<1>. QED  BY <1>1, InitInv, PTL DEF Spec

-----------------------------------------------------------------------------
(* The theorems.                                                           *)

\* The memory of every process and the saved list are well typed.
THEOREM McpTypes == Spec => []TypeOK
<1>1. IInv => TypeOK
  BY DEF IInv, Shaped
<1>. QED  BY <1>1, Inductive, PTL

\* Whatever its status when it is prepared, a run is offered one list, unless two
\* drivers read it at once or it was read again when the run was over; and a list
\* that was offered is saved for as long as the run lives.
THEOREM ListIsPinned == Spec => []ListIsKept
<1>1. IInv => ListIsKept
  <2>. SUFFICES ASSUME IInv PROVE ListIsKept
    OBVIOUS
  <2>1. OneListPerRun
    <3>. SUFFICES ASSUME Regular PROVE Cardinality(shown) <= 1
      BY DEF OneListPerRun, Regular
    <3>1. PICK list : shown \subseteq {list}
      BY DEF IInv, OneList, Agree
    <3>2. CASE shown = {}
      BY <3>2, FS_EmptySet
    <3>3. CASE shown = {list}
      <4>1. Cardinality({list}) = 1
        BY FS_Singleton
      <4>. QED  BY <3>3, <4>1
    <3>. QED  BY <3>1, <3>2, <3>3
  <2>2. OfferedIsSaved
    BY DEF IInv, PinnedIsSaved, Listed, OfferedIsSaved
  <2>. QED  BY <2>1, <2>2 DEF ListIsKept
<1>. QED  BY <1>1, Inductive, PTL

\* A call is only reported as repeatable if its request was not sent.
THEOREM RetriedWasNotSent == Spec => RetryMeansNotSent
<1>1. IInv /\ [Next]_vars =>
        [\A d \in Drivers :
           /\ proc[d].tool \in Tools \ ReadOnly
           /\ At(d, "idle")' /\ proc'[d].told \in {"retry", "fatal"}
           => wire'[d] = "none"]_vars
  <2>. SUFFICES ASSUME IInv, Next, NEW d \in Drivers,
                       proc[d].tool \in Tools \ ReadOnly,
                       At(d, "idle")', proc'[d].told \in {"retry", "fatal"}
                PROVE  wire'[d] = "none"
    OBVIOUS
  <2>1. /\ proc[d].pc \in {"open", "sent", "closing"} /\ proc[d] \in Processes
        /\ At(d, "open") => wire[d] = "none"
        /\ proc \in [Drivers -> Processes]
    BY NoneAssumption DEF IInv, Shaped, TypeOK, Well, At
  <2>2. proc'[d] # proc[d]
    BY <2>1 DEF At
  <2>3. PICK e \in Drivers : Step(e)
    BY <2>2 DEF Next, RunMoves, AdminEdits
  <2>4. e = d
    <3>1. SUFFICES ASSUME e # d PROVE proc'[d] = proc[d]
      BY <2>2
    <3>. QED  BY <2>1, <2>3, <3>1 DEF Step, Starts, ReleaseRun, Crash, PrepareRun, PinTools,
                DiscoveryFails, Pin, ToolsFor, TurnEnds, Call, Dispatch, CallFails, CredentialFails,
                ServerRuns, Answers, Returns, Becomes, Goes, Tells
  <2>5. Crash(d) \/ Dispatch(d) \/ CallFails(d) \/ CredentialFails(d) \/ ServerRuns(d)
        \/ Answers(d) \/ Returns(d)
    BY <2>1, <2>3, <2>4 DEF Step, Starts, ReleaseRun, PrepareRun, PinTools,
       DiscoveryFails, Pin, ToolsFor, TurnEnds, Call, At
  <2>. USE DEF At, Becomes, Goes, Tells
  <2>6. CASE CallFails(d)
    BY <2>1, <2>6 DEF CallFails, FailureForPhase, Dispatched
  <2>7. CASE CredentialFails(d)
    BY <2>1, <2>7 DEF CredentialFails
  <2>8. CASE Crash(d) \/ Dispatch(d)
    BY <2>1, <2>8 DEF Crash, Down, Dispatch, Processes
  <2>9. CASE ServerRuns(d)
    BY <2>2, <2>9 DEF ServerRuns
  <2>10. CASE Answers(d)
    <3>. DEFINE q == [proc[d] EXCEPT !.pc = "idle", !.tool = None, !.heard = None, !.told = "unknown"]
    <3>1. q.told = "unknown" /\ [proc[d] EXCEPT !.pc = "closing"].pc = "closing"
      BY <2>1 DEF Processes
    <3>2. proc'[d] = q \/ proc'[d] = [proc[d] EXCEPT !.pc = "closing"]
      BY <2>1, <2>10 DEF Answers
    <3>. HIDE DEF q
    <3>. QED  BY <3>1, <3>2
  <2>11. CASE Returns(d)
    BY <2>1, <2>11 DEF Returns, Processes
  <2>. QED  BY <2>5, <2>6, <2>7, <2>8, <2>9, <2>10, <2>11
<1>. QED  BY <1>1, Inductive, PTL DEF Spec, RetryMeansNotSent

=============================================================================
