----------------------------- MODULE AgentEvents -----------------------------
(* What an agent writes to its container's log, as far as the server can tell  *)
(* it apart: NDJSON lines that decode as an AgentEvent, and any other line.    *)
(* Of the event kinds only the two that end a stream matter here: "final" is   *)
(* Done or Error, "progress" is every other kind.                              *)
EXTENDS Naturals, Sequences

Event(n, k) == [t |-> "event", seq |-> n, kind |-> k]
Text        == [t |-> "text"]
EventLine   == [t : {"event"}, seq : Nat, kind : {"progress", "final"}]
Line        == EventLine \cup {Text}

IsEvent(l) == l.t = "event"
IsFinal(l) == l.t = "event" /\ l.kind = "final"

(* The agent numbers its events from 0 (SeqEmitter) and prints other text only *)
(* when it is about to exit (a warning or an error on stderr).                 *)
Follow(log) ==
  IF log # <<>> /\ log[Len(log)] = Text THEN {}
  ELSE IF log # <<>> /\ IsFinal(log[Len(log)]) THEN {Text}
  ELSE {Text} \cup {Event(Len(log), k) : k \in {"progress", "final"}}
=============================================================================
