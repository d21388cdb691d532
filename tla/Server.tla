------------------------------- MODULE Server -------------------------------
(***************************************************************************)
(* jkr-server as one process: web sessions, the LLM proxy and the sandbox  *)
(* runs share its requests, its rings and tables, and its restarts.        *)
(***************************************************************************)
EXTENDS LlmProxy, SandboxRuns

serverVars == <<setting, req, storeVars, restarts, webVars, llmVars, runVars>>

ServerInit == StoresInit /\ WebInit /\ LlmInit /\ RunsInit

Tasks ==
  \E t \in tasks :
    /\ TaskFails(t) \/ TaskInserts(t) \/ TaskTrims(t) \/ TaskTrimFails(t)
    /\ UNCHANGED <<req, webVars, llmVars, runVars>>

Web == WebStep /\ UNCHANGED <<storeVars, llmVars, runVars>>

Llm == LlmStep /\ UNCHANGED <<webVars, runVars>>

Runs == RunsStep /\ UNCHANGED <<webVars, llmVars>>

Restart == StoresRestart /\ WebRestart /\ LlmRestart /\ RunsRestart

ServerNext ==
  \/ (Tasks \/ Web \/ Llm \/ Runs) /\ UNCHANGED <<setting, restarts>>
  \/ Restart

(***************************************************************************)
(* Fairness: the blocking task of an admitted call goes on; the upstream's *)
(* part of it is cut off by ureq's timeout of the whole call.  Nothing is  *)
(* assumed of clients, nor of PostgreSQL.                                  *)
(***************************************************************************)
ServerFairness ==
  \A r \in Req :
    WF_serverVars(TaskStep(r) /\ UNCHANGED <<webVars, runVars, setting, restarts>>)

ServerSpec == ServerInit /\ [][ServerNext]_serverVars /\ ServerFairness

-----------------------------------------------------------------------------
CallPlaces == {"body", "send", "relay", "chunk", "flush", "capture", "receipt", "release",
               "joined", "closed"}

CallRecord ==
  [at : CallPlaces, owner : Owner, token : Token, stream : BOOLEAN,
   client : {"waits", "reads", "gone", "answered", "ended"},
   chan : 0 .. ChanCap, chunks : 0 .. MaxChunks]

ReqRecord ==
  [at : {"unused", "done", "exec", "counted", "failed"}]
  \cup [at : {"exchange"}, state : OAuthState]
  \cup [at : {"switch"}, sid : Sid, user : Owner]
  \cup [at : {"mint", "view"}, user : Owner]
  \cup [at : {"revoke"}, user : Owner, token : Token]
  \cup CallRecord

(***************************************************************************)
(* The types of the server's state: every request is at one place of one   *)
(* handler, with what that handler holds there.                            *)
(***************************************************************************)
ServerTypeOK ==
  /\ setting \in Setting
  /\ req \in [Req -> ReqRecord]
  /\ Stored \subseteq Sid /\ \A s \in Stored : sess[s] \in Owner
  /\ pending \subseteq OAuthState
  /\ \A k \in DOMAIN tokens : k \in Token /\ tokens[k] \in [user : Owner, revoked : BOOLEAN]
  /\ permits + Cardinality({r \in Req : Holding(r)}) = MaxPermits
  /\ Len(queue) <= QueueCap
  /\ \A s \in Store : Len(ring[s]) <= RingCap
=============================================================================
