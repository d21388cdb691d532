----------------------------- MODULE AgentStream -----------------------------
(* What the server relies on an agent process for: a log of consecutively      *)
(* numbered events, nothing numbered after a Done or Error event, and at the   *)
(* end perhaps one line that is not an event.                                  *)
EXTENDS AgentEvents

VARIABLES out,   \* the lines written so far
          over   \* whether the process has exited

vars == <<out, over>>

Init == out = <<>> /\ over = FALSE

Write == \E l \in Follow(out) : ~over /\ out' = Append(out, l) /\ UNCHANGED over

Exit == ~over /\ over' = TRUE /\ UNCHANGED out

Next == Write \/ Exit

Spec == Init /\ [][Next]_vars
=============================================================================
