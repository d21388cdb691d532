----------------------------- MODULE AgentSession -----------------------------
(* Agent sessions of jkr-server: SessionManager (agents/manager.rs), its Docker  *)
(* backend (jkr-sandbox/src/session/docker.rs) and the event streams served to   *)
(* clients (agents/routes.rs). A session is one container; a detached drain task *)
(* copies the events of its log to the database; requests and the server come    *)
(* and go. The agent inside the container is AgentStream.                        *)
EXTENDS AgentEvents, Integers, SequencesExt

CONSTANTS
  Session,       \* sessions that may be created
  Watcher,       \* clients that follow a session
  MaxLines,      \* bound: lines an agent writes
  ChanCap,       \* the channel of a stream (32 in the code)
  MaxCrashes,    \* bound: crashes of the server
  DbFaults,      \* whether a statement may fail
  DockerFaults,  \* whether a call to Docker may fail
  Disconnects    \* whether a client may leave, which drops the handler's future

ASSUME SessionAssumption ==
  /\ MaxLines \in Nat /\ ChanCap \in Nat \ {0} /\ MaxCrashes \in Nat
  /\ {DbFaults, DockerFaults, Disconnects} \subseteq BOOLEAN

VARIABLES
  \* the database
  row,        \* agent_sessions.state, or "none"; "partial" is the 'exited' of a
              \* session whose log stream ended before its container (history)
  store,      \* agent_session_events
  \* Docker
  container,  \* the container of each session
  log,        \* what its agent has written
  \* the server process
  up,         \* whether it runs
  create,     \* the request that creates the session
  stopping,   \* a request to stop the session
  drain,      \* the drain task of the session
  pos,        \* log lines its drain has taken
  verdict,    \* the state finalize is about to record
  \* streams
  stream,     \* the task that serves a watcher
  sid,        \* the session it serves
  next,       \* the first number it has not sent
  batch,      \* events read from the database and not yet sent
  chan,       \* its channel and the connection to the client
  dangling,   \* next of the tasks whose client has left
  \* clients
  got,        \* the events each watcher has received
  crashes     \* crashes so far

db      == <<row, store>>
docker  == <<container, log>>
tasks   == <<create, stopping, drain, pos, verdict>>
streams == <<stream, sid, next, batch, chan, dangling>>
vars == <<db, docker, up, tasks, streams, got, crashes>>

Ended == {"exited", "partial", "failed", "stopped"}

TypeOK ==
  /\ row \in [Session -> {"none", "running"} \cup Ended]
  /\ store \in [Session -> SUBSET EventLine]
  /\ container \in [Session -> {"none", "created", "running", "exited", "removed"}]
  /\ log \in [Session -> Seq(Line)]
  /\ up \in BOOLEAN
  /\ create \in [Session -> {"new", "start", "insert", "over"}]
  /\ stopping \in [Session -> {"idle", "halt", "remove", "mark"}]
  /\ drain \in [Session -> {"off", "attach", "read", "broken", "fail",
                            "inspect", "short", "save", "halt", "remove"}]
  /\ pos \in [Session -> Nat]
  /\ verdict \in [Session -> Ended]
  /\ stream \in [Watcher -> {"closed", "poll", "send", "over"}]
  /\ sid \in [Watcher -> Session]
  /\ next \in [Watcher -> Nat]
  /\ batch \in [Watcher -> SUBSET EventLine]
  /\ chan \in [Watcher -> Seq(EventLine)]
  /\ dangling \in [Watcher -> SUBSET Nat]
  /\ got \in [Watcher -> Seq(EventLine)]
  /\ crashes \in Nat

Init ==
  /\ row = [s \in Session |-> "none"] /\ store = [s \in Session |-> {}]
  /\ container = [s \in Session |-> "none"] /\ log = [s \in Session |-> <<>>]
  /\ up = TRUE
  /\ create = [s \in Session |-> "new"] /\ stopping = [s \in Session |-> "idle"]
  /\ drain = [s \in Session |-> "off"] /\ pos = [s \in Session |-> 0]
  /\ verdict = [s \in Session |-> "failed"]
  /\ stream = [w \in Watcher |-> "closed"] /\ sid \in [Watcher -> Session]
  /\ next = [w \in Watcher |-> 0] /\ batch = [w \in Watcher |-> {}]
  /\ chan = [w \in Watcher |-> <<>>] /\ dangling = [w \in Watcher |-> {}]
  /\ got = [w \in Watcher |-> <<>>]
  /\ crashes = 0

-----------------------------------------------------------------------------
(* The container: the agent writes a line, the container exits.                *)

AgentWrites(s) ==
  /\ container[s] = "running" /\ Len(log[s]) < MaxLines
  /\ \E l \in Follow(log[s]) : log' = [log EXCEPT ![s] = Append(@, l)]
  /\ UNCHANGED <<db, container, up, tasks, streams, got, crashes>>

AgentExits(s) ==
  /\ container[s] = "running"
  /\ container' = [container EXCEPT ![s] = "exited"]
  /\ UNCHANGED <<db, log, up, tasks, streams, got, crashes>>

(* DockerBackend::stop is two calls, stop_container and remove_container, whose *)
(* errors are ignored. Docker forgets the log with the container, but log keeps *)
(* it here: a drain that has read it may still hold the lines.                  *)
StopContainer(s) ==
  \/ container' = [container EXCEPT ![s] = IF @ = "running" THEN "exited" ELSE @]
  \/ DockerFaults /\ UNCHANGED container

RemoveContainer(s) ==
  \/ container' = [container EXCEPT ![s] = "removed"]
  \/ DockerFaults /\ UNCHANGED container

-----------------------------------------------------------------------------
(* SessionManager::create, one await at a time.                                *)

Create(c, s) == create' = [create EXCEPT ![s] = c]

SpawnCreates(s) ==
  /\ up /\ create[s] = "new"
  /\ container' = [container EXCEPT ![s] = "created"]
  /\ Create("start", s)
  /\ UNCHANGED <<db, log, up, stopping, drain, pos, verdict, streams, got, crashes>>

SpawnStarts(s) ==
  /\ up /\ create[s] = "start"
  /\ \/ container' = [container EXCEPT ![s] = "running"] /\ Create("insert", s)
     \/ DockerFaults /\ Create("over", s) /\ UNCHANGED container
  /\ UNCHANGED <<db, log, up, stopping, drain, pos, verdict, streams, got, crashes>>

(* The INSERT, and the spawn of the drain that follows it without an await. A   *)
(* failed INSERT leaves the container running.                                  *)
InsertRow(s) ==
  /\ up /\ create[s] = "insert"
  /\ Create("over", s)
  /\ \/ /\ row' = [row EXCEPT ![s] = "running"]
        /\ drain' = [drain EXCEPT ![s] = "attach"]
     \/ DbFaults /\ UNCHANGED <<row, drain>>
  /\ UNCHANGED <<store, docker, up, stopping, pos, verdict, streams, got, crashes>>

-----------------------------------------------------------------------------
(* SessionManager::drain. Each disjunct ends at an await of the code.           *)

Drain(d, s) == drain' = [drain EXCEPT ![s] = d]

(* docker.logs: the request goes out when the stream is first polled. A         *)
(* container that is gone yields an error item.                                 *)
Attach(s) ==
  /\ drain[s] = "attach"
  /\ \/ container[s] \in {"running", "exited"} /\ Drain("read", s)
     \/ (container[s] = "removed" \/ DockerFaults) /\ Drain("fail", s)
  /\ UNCHANGED <<db, docker, up, create, stopping, pos, verdict, streams, got, crashes>>

(* persist_event: ON CONFLICT (session_id, seq) DO NOTHING.                     *)
Persist(s, l) ==
  store' = [store EXCEPT ![s] =
              IF \E r \in @ : r.seq = l.seq THEN @ ELSE @ \cup {l}]

(* Variant: an event that cannot be stored is skipped.                          *)
ReadEvent_Skips(s) ==
  /\ drain[s] = "read" /\ pos[s] < Len(log[s])
  /\ IsEvent(log[s][pos[s] + 1])
  /\ \/ Persist(s, log[s][pos[s] + 1])
     \/ DbFaults /\ UNCHANGED store
  /\ pos' = [pos EXCEPT ![s] = @ + 1]
  /\ UNCHANGED <<row, docker, up, create, stopping, drain, verdict, streams, got, crashes>>

ReadEvent(s) ==
  /\ drain[s] = "read" /\ pos[s] < Len(log[s])
  /\ IsEvent(log[s][pos[s] + 1])
  /\ \/ /\ Persist(s, log[s][pos[s] + 1])
        /\ pos' = [pos EXCEPT ![s] = @ + 1]
        /\ UNCHANGED drain
     \/ /\ DbFaults /\ Drain("broken", s)
        /\ UNCHANGED <<store, pos>>
  /\ UNCHANGED <<row, docker, up, create, stopping, verdict, streams, got, crashes>>

(* A line that does not decode, or an error of the log stream.                  *)
(* Variant: the drain gives up without stopping the container.                  *)
ReadError_NoStop(s) ==
  /\ drain[s] = "read"
  /\ \/ pos[s] < Len(log[s]) /\ ~IsEvent(log[s][pos[s] + 1])
     \/ DockerFaults
  /\ Drain("broken", s)
  /\ UNCHANGED <<db, docker, up, create, stopping, pos, verdict, streams, got, crashes>>

ReadError(s) ==
  /\ drain[s] = "read"
  /\ \/ pos[s] < Len(log[s]) /\ ~IsEvent(log[s][pos[s] + 1])
     \/ DockerFaults
  /\ Drain("fail", s)
  /\ UNCHANGED <<db, docker, up, create, stopping, pos, verdict, streams, got, crashes>>

(* Docker ends a followed log when the container no longer runs and its lines   *)
(* are out, or when the container is removed. It may also end while the         *)
(* container runs, as finalize allows for: the drain does not notice.           *)
ReadEnd(s) ==
  /\ drain[s] = "read"
  /\ \/ /\ \/ container[s] = "exited" /\ pos[s] = Len(log[s])
           \/ container[s] = "removed"
        /\ Drain("inspect", s)
     \/ /\ DockerFaults /\ container[s] = "running"
        /\ Drain("short", s)
  /\ UNCHANGED <<db, docker, up, create, stopping, pos, verdict, streams, got, crashes>>

(* finalize: the status, then the UPDATE of the row, then backend.stop.         *)
(* Variant: a container that cannot be inspected counts as exited.              *)
StatusOf_Lenient(s) == {"exited"}

StatusOf(s) ==
  (IF container[s] \in {"running", "exited"}
   THEN {IF drain[s] = "short" THEN "partial" ELSE "exited"} ELSE {"failed"})
    \cup (IF DockerFaults THEN {"failed"} ELSE {})

Inspect(s) ==
  /\ drain[s] \in {"inspect", "short"}
  /\ \E v \in StatusOf(s) : verdict' = [verdict EXCEPT ![s] = v]
  /\ Drain("save", s)
  /\ UNCHANGED <<db, docker, up, create, stopping, pos, streams, got, crashes>>

(* UPDATE agent_sessions SET state = v: whatever the state was.                 *)
SetState(s, v) == \/ row' = [row EXCEPT ![s] = v]
                  \/ DbFaults /\ UNCHANGED row

Save(s) ==
  /\ drain[s] = "save"
  /\ SetState(s, verdict[s])
  /\ Drain("halt", s)
  /\ UNCHANGED <<store, docker, up, create, stopping, pos, verdict, streams, got, crashes>>

(* An error item: mark_failed, then backend.stop.                               *)
Fail(s) ==
  /\ drain[s] = "fail"
  /\ SetState(s, "failed")
  /\ Drain("halt", s)
  /\ UNCHANGED <<store, docker, up, create, stopping, pos, verdict, streams, got, crashes>>

(* An error of persist_event leaves drain, and its caller only marks the row.   *)
GiveUp(s) ==
  /\ drain[s] = "broken"
  /\ SetState(s, "failed")
  /\ Drain("off", s)
  /\ UNCHANGED <<store, docker, up, create, stopping, pos, verdict, streams, got, crashes>>

DrainHalts(s) ==
  /\ drain[s] = "halt"
  /\ StopContainer(s) /\ Drain("remove", s)
  /\ UNCHANGED <<db, log, up, create, stopping, pos, verdict, streams, got, crashes>>

DrainRemoves(s) ==
  /\ drain[s] = "remove"
  /\ RemoveContainer(s) /\ Drain("off", s)
  /\ UNCHANGED <<db, log, up, create, stopping, pos, verdict, streams, got, crashes>>

DrainStep(s) == \/ Attach(s) \/ ReadEvent(s) \/ ReadError(s) \/ ReadEnd(s)
                \/ Inspect(s) \/ Save(s) \/ Fail(s) \/ GiveUp(s)
                \/ DrainHalts(s) \/ DrainRemoves(s)

-----------------------------------------------------------------------------
(* SessionManager::stop_session. The row must exist (assert_owner).             *)

Stopping(p, s) == stopping' = [stopping EXCEPT ![s] = p]

StopBegins(s) ==
  /\ up /\ stopping[s] = "idle" /\ row[s] # "none"
  /\ Stopping("halt", s)
  /\ UNCHANGED <<db, docker, up, create, drain, pos, verdict, streams, got, crashes>>

StopHalts(s) ==
  /\ stopping[s] = "halt"
  /\ StopContainer(s) /\ Stopping("remove", s)
  /\ UNCHANGED <<db, log, up, create, drain, pos, verdict, streams, got, crashes>>

StopRemoves(s) ==
  /\ stopping[s] = "remove"
  /\ RemoveContainer(s) /\ Stopping("mark", s)
  /\ UNCHANGED <<db, log, up, create, drain, pos, verdict, streams, got, crashes>>

StopMarks(s) ==
  /\ stopping[s] = "mark"
  /\ SetState(s, "stopped") /\ Stopping("idle", s)
  /\ UNCHANGED <<store, docker, up, create, drain, pos, verdict, streams, got, crashes>>

StopStep(s) == StopHalts(s) \/ StopRemoves(s) \/ StopMarks(s)

-----------------------------------------------------------------------------
(* A client that closes its connection makes hyper drop the handler's future at *)
(* its current await; a statement that was already sent still runs.             *)
CancelCreate(s) ==
  /\ Disconnects /\ create[s] \in {"start", "insert"}
  /\ Create("over", s)
  /\ \/ UNCHANGED <<row, container>>
     \/ create[s] = "start" /\ container' = [container EXCEPT ![s] = "running"] /\ UNCHANGED row
     \/ create[s] = "insert" /\ row' = [row EXCEPT ![s] = "running"] /\ UNCHANGED container
  /\ UNCHANGED <<store, log, up, stopping, drain, pos, verdict, streams, got, crashes>>

CancelStop(s) ==
  /\ Disconnects /\ stopping[s] # "idle"
  /\ Stopping("idle", s)
  /\ UNCHANGED <<db, docker, up, create, drain, pos, verdict, streams, got, crashes>>

-----------------------------------------------------------------------------
(* The server process dies with its tasks and connections, and boots again.     *)
Crash ==
  /\ up /\ crashes < MaxCrashes
  /\ up' = FALSE /\ crashes' = crashes + 1
  /\ create' = [s \in Session |-> IF create[s] = "new" THEN "new" ELSE "over"]
  /\ stopping' = [s \in Session |-> "idle"]
  /\ drain' = [s \in Session |-> "off"]
  /\ stream' = [w \in Watcher |-> "closed"]
  /\ chan' = [w \in Watcher |-> <<>>] /\ batch' = [w \in Watcher |-> {}]
  /\ dangling' = [w \in Watcher |-> {}]
  /\ UNCHANGED <<db, docker, pos, verdict, sid, next, got>>

(* SessionManager::reconcile, before the listener is bound: a drain from the    *)
(* start of the log for every row that is 'running'.                            *)
(* Variant: boot does not reconcile.                                            *)
Boot_NoReconcile ==
  /\ ~up /\ up' = TRUE
  /\ UNCHANGED <<db, docker, tasks, streams, got, crashes>>

Boot ==
  /\ ~up /\ up' = TRUE
  /\ \/ /\ drain' = [s \in Session |-> IF row[s] = "running" THEN "attach" ELSE "off"]
        /\ pos' = [s \in Session |-> 0]
     \/ DbFaults /\ UNCHANGED <<drain, pos>>
  /\ UNCHANGED <<db, docker, create, stopping, verdict, streams, got, crashes>>

-----------------------------------------------------------------------------
(* handle_session_stream: the last number received, plus one, is where the      *)
(* client asks to resume (the last-event-id header).                            *)
(* Variant: the resumed stream starts at the last number received.              *)
Resume_Again(w) == IF got[w] = <<>> THEN 0 ELSE got[w][Len(got[w])].seq

(* Variant: it starts at the number before.                                     *)
Resume_Back(w) == IF got[w] = <<>> THEN 0 ELSE got[w][Len(got[w])].seq - 1

Resume(w) == IF got[w] = <<>> THEN 0 ELSE got[w][Len(got[w])].seq + 1

OpenStream(w) ==
  /\ up /\ stream[w] = "closed" /\ row[sid[w]] # "none"
  /\ next' = [next EXCEPT ![w] = Resume(w)]
  /\ stream' = [stream EXCEPT ![w] = "poll"]
  /\ UNCHANGED <<db, docker, up, tasks, sid, batch, chan, dangling, got, crashes>>

(* events_since: the stored events numbered from `next` on.                     *)
Since(s, n) == {l \in store[s] : l.seq >= n}

Poll(w) ==
  /\ stream[w] = "poll"
  /\ \/ /\ Since(sid[w], next[w]) # {}
        /\ batch' = [batch EXCEPT ![w] = Since(sid[w], next[w])]
        /\ stream' = [stream EXCEPT ![w] = "send"]
     \/ DbFaults /\ stream' = [stream EXCEPT ![w] = "over"] /\ UNCHANGED batch
  /\ UNCHANGED <<db, docker, up, tasks, sid, next, chan, dangling, got, crashes>>

(* The events go out in the order of their numbers; Done and Error end the task. *)
(* Variant: the task polls on after Done and Error.                             *)
Send_PollsOn(w) ==
  /\ stream[w] = "send" /\ Len(chan[w]) < ChanCap
  /\ \E l \in batch[w] :
       /\ \A r \in batch[w] : l.seq <= r.seq
       /\ chan' = [chan EXCEPT ![w] = Append(@, l)]
       /\ next' = [next EXCEPT ![w] = l.seq + 1]
       /\ batch' = [batch EXCEPT ![w] = @ \ {l}]
       /\ stream' = [stream EXCEPT ![w] = IF batch[w] = {l} THEN "poll" ELSE "send"]
  /\ UNCHANGED <<db, docker, up, tasks, sid, dangling, got, crashes>>

Send(w) ==
  /\ stream[w] = "send" /\ Len(chan[w]) < ChanCap
  /\ \E l \in batch[w] :
       /\ \A r \in batch[w] : l.seq <= r.seq
       /\ chan' = [chan EXCEPT ![w] = Append(@, l)]
       /\ next' = [next EXCEPT ![w] = l.seq + 1]
       /\ batch' = [batch EXCEPT ![w] = IF IsFinal(l) THEN {} ELSE @ \ {l}]
       /\ stream' = [stream EXCEPT ![w] = IF IsFinal(l) THEN "over"
                                          ELSE IF batch[w] = {l} THEN "poll" ELSE "send"]
  /\ UNCHANGED <<db, docker, up, tasks, sid, dangling, got, crashes>>

Receive(w) ==
  /\ chan[w] # <<>>
  /\ got' = [got EXCEPT ![w] = Append(@, Head(chan[w]))]
  /\ chan' = [chan EXCEPT ![w] = Tail(@)]
  /\ UNCHANGED <<db, docker, up, tasks, stream, sid, next, batch, dangling, crashes>>

(* The task has dropped its sender and the client has read to the end.          *)
EndOfStream(w) ==
  /\ stream[w] = "over" /\ chan[w] = <<>>
  /\ stream' = [stream EXCEPT ![w] = "closed"]
  /\ UNCHANGED <<db, docker, up, tasks, sid, next, batch, chan, dangling, got, crashes>>

(* The client closes its connection. The task learns of it only when it sends.  *)
Leave(w) ==
  /\ Disconnects /\ stream[w] # "closed"
  /\ stream' = [stream EXCEPT ![w] = "closed"]
  /\ chan' = [chan EXCEPT ![w] = <<>>] /\ batch' = [batch EXCEPT ![w] = {}]
  /\ dangling' = [dangling EXCEPT ![w] = IF stream[w] = "over" THEN @ ELSE @ \cup {next[w]}]
  /\ UNCHANGED <<db, docker, up, tasks, sid, next, got, crashes>>

DanglingEnds(w, n) ==
  /\ n \in dangling[w]
  /\ Since(sid[w], n) # {} \/ DbFaults
  /\ dangling' = [dangling EXCEPT ![w] = @ \ {n}]
  /\ UNCHANGED <<db, docker, up, tasks, stream, sid, next, batch, chan, got, crashes>>

StreamStep(w) == Poll(w) \/ Send(w)

-----------------------------------------------------------------------------
Next ==
  \/ \E s \in Session :
       \/ AgentWrites(s) \/ AgentExits(s)
       \/ SpawnCreates(s) \/ SpawnStarts(s) \/ InsertRow(s) \/ CancelCreate(s)
       \/ DrainStep(s)
       \/ StopBegins(s) \/ StopStep(s) \/ CancelStop(s)
  \/ \E w \in Watcher :
       \/ OpenStream(w) \/ StreamStep(w) \/ Receive(w) \/ EndOfStream(w) \/ Leave(w)
       \/ \E n \in dangling[w] : DanglingEnds(w, n)
  \/ Crash \/ Boot

Spec == Init /\ [][Next]_vars

(* The runtime runs every ready task; the agent's run is finite (max_steps), and  *)
(* a process that died is started again. Clients read what they are sent. No one  *)
(* is obliged to create, stop, follow or leave.                                   *)
FairSpec ==
  /\ Spec
  /\ WF_vars(Boot)
  /\ \A s \in Session : /\ WF_vars(SpawnStarts(s)) /\ WF_vars(InsertRow(s))
                        /\ WF_vars(AgentExits(s))
                        /\ WF_vars(DrainStep(s)) /\ WF_vars(StopStep(s))
  /\ \A w \in Watcher : /\ WF_vars(StreamStep(w)) /\ WF_vars(Receive(w))
                        /\ WF_vars(EndOfStream(w))
                        /\ \A n \in 0..MaxLines : WF_vars(DanglingEnds(w, n))

-----------------------------------------------------------------------------
(* The stored events of a session are exactly the first events of its agent's   *)
(* log: no drain, replaying the log after a restart or giving up on an error,   *)
(* leaves a gap or stores an event twice (drain, persist_event, reconcile).     *)
Prefix(s, n) == {log[s][i] : i \in 1..n}
EventsStored ==
  \A s \in Session : \E n \in 0..Len(log[s]) : store[s] = Prefix(s, n)

(* A client that follows a session, resuming with last-event-id after every     *)
(* disconnection and every crash of the server, receives the agent's events in  *)
(* order, each once and none left out (handle_session_stream, events_since).    *)
ReceivedInOrder ==
  \A w \in Watcher : IsPrefix(got[w], log[sid[w]])

(* finalize records 'exited' only for a session all of whose events are stored, *)
(* with one exception: a session whose log stream ended while its container was *)
(* still running is recorded as 'exited', and stopped, whatever was stored.     *)
ExitedIsComplete ==
  \A s \in Session : row[s] = "exited" =>
    \A l \in ToSet(log[s]) : IsEvent(l) => l \in store[s]

(* stop_session: "stop the container, mark state='stopped'"; a session that was *)
(* marked stays so.                                                             *)
StopIsFinal == [][\A s \in Session : row[s] = "stopped" => row'[s] = "stopped"]_vars

(* The sessions table: "Durable state lets a restart reconcile running          *)
(* containers instead of orphaning them". While the server is up, a container   *)
(* that runs has a task or a request that knows of it.                          *)
Orphan(s) == /\ up /\ container[s] = "running"
             /\ drain[s] = "off" /\ stopping[s] = "idle"
             /\ create[s] \notin {"start", "insert"}
NoOrphans == \A s \in Session : ~Orphan(s)

(* A 'running' row does not stay so: the drain records the end, or the drain of *)
(* the next boot does (finalize, mark_failed, reconcile).                       *)
SessionSettles == \A s \in Session : row[s] = "running" ~> row[s] # "running"

(* As long as the server does not crash, every container that was started is    *)
(* removed in the end, whatever its agent prints.                               *)
ContainersRemoved ==
  \A s \in Session :
    container[s] = "running" /\ crashes = 0 ~> container[s] = "removed" \/ crashes > 0

(* handle_session_stream: "The stream ends when a Done or Error event is        *)
(* observed": a stream that has yet to send such an event ends.                 *)
FinalAhead(w) == /\ stream[w] \in {"poll", "send"}
                 /\ \E l \in store[sid[w]] : IsFinal(l) /\ l.seq >= next[w]
StreamEndsOnFinal ==
  \A w \in Watcher : FinalAhead(w) ~> stream[w] \in {"over", "closed"}
=============================================================================
