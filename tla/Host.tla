-------------------------------- MODULE Host --------------------------------
(***************************************************************************)
(* Invocations of jkr on one machine: proxied commands with their children *)
(* and pipes, and administrative ones, which meet only in the vault.  An   *)
(* invocation may be killed at any step.                                   *)
(***************************************************************************)
EXTENDS HostVault

CONSTANT MaxKills     \* bound: how many invocations are killed

ASSUME HostAssumption == MaxKills \in Nat

hostVars == <<plan, proxyVars, vaultVars>>

HostInit == ProxyInit /\ VaultInit

Proxy(p) ==
  /\ MainThread(p) \/ Outside(p) \/ \E s \in Streams : Reader(p, s)
  /\ UNCHANGED vaultVars

\* record_pipeline_stats: a thread boots the vault and writes the row; it is joined.
Record(p) ==
  /\ InPhase(p, "waited")
  /\ Enter(p, "stats")
  /\ Session(p)
  /\ UNCHANGED <<child, pipe, readers, chan, fates, sink, code>>

\* Mutant: a command whose run is not recorded fails.
FinalCodeOfRecord(p) == IF p \in due THEN run[p].code ELSE Failed

\* What is left of run when the thread has ended, with a record or a warning:
\* the transcript, whose name is printed, and the exit.
FinalCode(p) == IF KeepsTranscript(p) /\ ~sink[p] THEN Panic ELSE run[p].code

Finish(p) ==
  /\ InPhase(p, "stats") /\ todo[p] = <<>>
  /\ Exit(p, FinalCode(p))
  /\ UNCHANGED <<child, pipe, readers, chan, fates, sink, vaultVars>>

\* gain, admin_reset, vault_run and clean_stats of main.rs.
Administers(p) ==
  /\ InPhase(p, "off") /\ plan[p].does \in {"gain", "reset", "rotate", "clean"}
  /\ Enter(p, "busy")
  /\ Session(p)
  /\ UNCHANGED <<child, pipe, readers, chan, fates, sink, code>>

Administered(p) ==
  /\ InPhase(p, "busy") /\ todo[p] = <<>>
  /\ Enter(p, "exited")
  /\ UNCHANGED <<child, pipe, readers, chan, fates, sink, code, vaultVars>>

\* jkr is killed; the files are as it left them.
Kill(p) ==
  /\ Alive(p)
  /\ Cardinality({q \in Command : InPhase(q, "dead")}) < MaxKills
  /\ ProxyCrash(p)
  /\ Goto(p, <<>>)
  /\ cut' = (cut \/ Swapping(p))
  /\ UNCHANGED <<dirs, key, db, due, lapped>>

InVault(p) == VaultStep(p) /\ UNCHANGED proxyVars

HostNext ==
  /\ \E p \in Command :
       \/ Proxy(p) \/ Record(p) \/ Finish(p)
       \/ Administers(p) \/ Administered(p) \/ InVault(p) \/ Kill(p)
  /\ UNCHANGED plan

(***************************************************************************)
(* Fairness: the threads of a running jkr are scheduled.  Nothing is       *)
(* assumed of the child, of what holds its pipes, and of who reads the     *)
(* output of jkr.                                                          *)
(***************************************************************************)
HostFairness ==
  \A p \in Command :
    /\ \A s \in Streams : WF_hostVars(Reader(p, s) /\ UNCHANGED <<vaultVars, plan>>)
    /\ WF_hostVars(MainThread(p) /\ UNCHANGED <<vaultVars, plan>>)
    /\ WF_hostVars((Record(p) \/ Finish(p) \/ InVault(p)) /\ UNCHANGED plan)

HostSpec == HostInit /\ [][HostNext]_hostVars /\ HostFairness

-----------------------------------------------------------------------------
OutputOver(p) == child[p].status \in {"ended", "killed"} /\ child[p].open = {}

(***************************************************************************)
(* A proxied command ends: once the child has ended and nobody holds its   *)
(* pipes, or no child is needed, jkr exits, also after a panic and         *)
(* whatever others do to the vault, unless it is killed; a large git diff  *)
(* is run a second time first.                                             *)
(***************************************************************************)
ProxyEnds ==
  \A p \in Command :
    OutputOver(p) \/ InPhase(p, "reading") ~> run[p].phase \in {"exited", "dead", "again"}

Phases == {"off", "collecting", "scanning", "again", "reading", "piping", "unwinding", "waiting", "waited", "stats", "busy", "exited", "dead"}

(***************************************************************************)
(* The types of the host's state; the reader threads of an invocation live *)
(* no longer than its LineStream, or the handler that reads the child.     *)
(***************************************************************************)
HostTypeOK ==
  /\ plan \in Plans
  /\ \A p \in Command :
       /\ child[p].status \in {"none", "running", "ended", "killed"}
       /\ child[p].open \subseteq Streams /\ readers[p] \subseteq Streams
       /\ run[p].phase \in Phases
       /\ readers[p] # {} =>
            run[p].phase \in {"collecting", "scanning", "piping", "unwinding", "waiting"}
       /\ code[p] \in {0, 1, Panic, Killed, NoCode}
       /\ key[p] \in Key /\ db[p] \subseteq Command
  /\ \A d \in Places : dirs[d] = NoDir \/ dirs[d] \in Dir
  /\ due \subseteq Command /\ lapped \subseteq Command
=============================================================================
