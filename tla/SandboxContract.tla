-------------------------- MODULE SandboxContract --------------------------
(***************************************************************************)
(* What a sandbox runner promises its caller about agent code, as the      *)
(* classes of errors in src/ravana/runtime/toolkits/sandbox.py put it: an  *)
(* ordinary report is made when the code is over, a cancellation before    *)
(* the start when it never ran; any other report leaves it open whether    *)
(* the code runs on, or starts later.                                      *)
(***************************************************************************)
VARIABLES
  box,  \* the agent's code: not started, running, able to start later, over
  out   \* the report, or "none"

Reports == {"result", "error", "unknown", "cancelled", "cancelledBefore"}
Unsafe  == {"unknown", "cancelled"}

\* The reports that a state of the code permits.
Permits(b, o) ==
  CASE o \in {"result", "error"} -> b \in {"none", "gone"}
    [] o = "cancelledBefore"     -> b = "none"
    [] o \in Unsafe              -> TRUE

\* Code that did not start may start after an unsafe report, and only then.
Left(b, o) == IF o \in Unsafe /\ b = "none" THEN "late" ELSE b

Init == box = "none" /\ out = "none"

Starts ==
  /\ (box = "none" /\ out = "none") \/ box = "late"
  /\ box' = "running" /\ UNCHANGED out

Ends == box \in {"running", "late"} /\ box' = "gone" /\ UNCHANGED out

Returns ==
  /\ out = "none"
  /\ \E o \in Reports : Permits(box, o) /\ out' = o /\ box' = Left(box, o)

Next == Starts \/ Ends \/ Returns

Spec == Init /\ [][Next]_<<box, out>>
=============================================================================
