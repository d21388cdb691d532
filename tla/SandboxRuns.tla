---------------------------- MODULE SandboxRuns ----------------------------
(***************************************************************************)
(* Sandboxed runs: executed by the server or reported by a command line,   *)
(* counted, and pushed on the ring and table of recent runs.  The counters *)
(* are single atomics; the answer's numbers are read from them without     *)
(* PostgreSQL and from the table with it.                                  *)
(***************************************************************************)
EXTENDS WebSession

VARIABLES
  total,        \* sandbox_runs_total
  failed,       \* sandbox_runs_failed
  denied        \* sandbox_runs_denied

runVars == <<total, failed, denied>>

Run(r, outcome) == [id |-> r, tag |-> outcome]

\* handle_sandbox_run: a session first, then the list of allowed commands.
ExecStart(r, s) ==
  /\ Require("sandbox", r, s, [at |-> "exec"])
  /\ UNCHANGED <<runVars, storeVars>>

ExecDenied(r) ==
  /\ req[r].at = "exec"
  /\ denied' = denied + 1
  /\ Push("sandbox", Run(r, "denied"))
  /\ To(r, Done)
  /\ UNCHANGED <<total, failed, table, torn>>

\* The blocking run has ended; or the client has left, and the handler that would
\* have counted it is dropped.
ExecCounts(r) ==
  /\ req[r].at = "exec"
  /\ total' = total + 1
  /\ To(r, [at |-> "counted"])
  /\ UNCHANGED <<failed, denied, storeVars>>

ExecDropped(r) ==
  /\ req[r].at = "exec"
  /\ To(r, Done)
  /\ UNCHANGED <<runVars, storeVars>>

\* Mutant: a reported run is not counted.
Ingest_NoCount(r) ==
  /\ Routed(r, "ingest")
  /\ To(r, [at |-> "counted"])
  /\ UNCHANGED <<runVars, storeVars>>

\* handle_sandbox_ingest: a shared secret or a live token of some user.
Ingest(r) ==
  /\ Routed(r, "ingest")
  /\ total' = total + 1
  /\ To(r, [at |-> "counted"])
  /\ UNCHANGED <<failed, denied, storeVars>>

IngestByToken(r, k) == TRUE \in CliTokenLookup(k) /\ Ingest(r)

\* The failure is counted after the run, and the run is pushed after that.
Fails(r) ==
  /\ req[r].at = "counted"
  /\ failed' = failed + 1
  /\ To(r, [at |-> "failed"])
  /\ UNCHANGED <<total, denied, storeVars>>

Pushes(r) ==
  /\ req[r].at \in {"counted", "failed"}
  /\ Push("sandbox", Run(r, IF req[r].at = "failed" THEN "failed" ELSE "ok"))
  /\ To(r, Done)
  /\ UNCHANGED <<runVars, table, torn>>

\* The blocking task itself broke: counted as failed, and not pushed.
JoinFails(r) ==
  /\ req[r].at = "failed"
  /\ To(r, Done)
  /\ UNCHANGED <<runVars, storeVars>>

RunsInit == total = 0 /\ failed = 0 /\ denied = 0

RunsRestart == total' = 0 /\ failed' = 0 /\ denied' = 0

RunsStep ==
  \E r \in Req :
    \/ \E s \in Sid : ExecStart(r, s)
    \/ ExecDenied(r) \/ ExecCounts(r) \/ ExecDropped(r)
    \/ Ingest(r) \/ \E k \in Token : IngestByToken(r, k)
    \/ Fails(r) \/ Pushes(r) \/ JoinFails(r)

-----------------------------------------------------------------------------
\* The runs of the ring with one of the outcomes.
Listed(outcomes) == {r \in Req : \E o \in outcomes : Run(r, o) \in Range(ring["sandbox"])}

(***************************************************************************)
(* The counters are never behind the list of recent runs, nor the failures *)
(* ahead of the runs: each run is counted before it fails and fails before *)
(* it is listed.                                                           *)
(***************************************************************************)
RunsAreCounted ==
  /\ failed <= total
  /\ Cardinality(Listed({"ok", "failed"})) <= total
  /\ Cardinality(Listed({"failed"})) <= failed
  /\ Cardinality(Listed({"denied"})) <= denied
=============================================================================
