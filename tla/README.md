# A TLA+ development of jkr

jkr is a command-line proxy for coding agents, a server that runs agents and routes their
messages, a vault for secrets, and two contracts that pay for work. This directory models the
parts of it that run concurrently, survive crashes or hold money. Every definition is
translated from the source; `PROJECT.json` gives the lines each one stands for.

    tlc -workers 4 -config MeshBroker_safety.cfg MCMeshBroker.tla
    tlapm MeshBroker_proofs.tla

Paths below are relative to the root of the repository.

## 1. The system

### Components that are modelled

**Mesh broker** (`crates/jkr-server/src/broker.rs`). State: the enrolled members of every mesh;
a routing table from address to the sender of that peer's channel, of 128 frames (`broker.rs:26`); for every
WebSocket connection a session task and a writer task. Operations: `handle_join` enrols an
address whose invite and attestation verify; `run_ws_session` reads a signed Hello, answers with
an Ack, enters the table (`attach_peer`), forwards every Send as a Push to the recipient's
channel, and leaves the table (`detach_peer`) when its socket ends. Sessions interact through the
table and by awaiting room in one another's channels. Hard: one address connected twice, a sender
cloned out of the table and used after its session ended, the order of Ack and entry, read loops
that wait on one another. Correct when: the table names only live sessions of the right address,
every push is addressed and stamped truthfully, one sender's frames arrive in order and once, a
frame is dropped only if the recipient is offline, and no read loop waits for ever.

**Mesh client** (`crates/jkr-mesh/src/client.rs`). A writer and a reader task between the caller's
channels and the socket, and a wait of five seconds for the Ack. Modelled in part: as the broker's
environment, which says Hello, sends, reads and closes whenever it likes.

**Agent sessions** (`crates/jkr-server/src/agents/manager.rs`, `routes.rs`,
`crates/jkr-sandbox/src/session/docker.rs`). State: a row and the events of every session in
PostgreSQL, a container in Docker, a drain task and request handlers in the server, a polling task
and a channel of 32 events for every client that follows a session. Operations: `create` (spawn, insert, detach
the drain), `drain` (copy log lines to events, then finalize), `stop_session`, `reconcile` at
boot, and the event stream with resumption. Hard: three stores written one after the other, a
crash between any two, a request dropped at an await, a stop racing the drain, a stream resumed
after lost frames. Correct when: the stored events are a prefix of the log and a client receives
them in order without gaps, 'exited' means complete, a row does not stay 'running', a container
does not outlive its session, and a stream ends when its session does.

**Agent loop** (`crates/jkr-agent/src/loop_.rs`, `events.rs`, `crates/jkr/src/agent_cmd.rs`). State:
the conversation, the number of the next event, the steps used. It asks the provider, runs the
tool calls of the answer, emits an event for each thing it does, up to `max_steps` times; its
stdout and stderr are the container's log. Correct when every call is answered before the next
request and the log is a numbered stream that ends with Done or Error, or not at all.

**Escrow contract** (`contracts/src/MeshEscrow.sol`) and receipts
(`crates/jkr-mesh/src/payment.rs`). State: a channel per session id, with deposit, amount paid and
deadline. Operations: `open`, `claim`, `claimBatch`, `close`; off chain, a payer issues receipts for
growing amounts. Hard: a batch that names a session twice, receipts of an earlier channel of a
reopened id, the race of close and claim, a recipient that cannot be paid.

**Job board contract** (`contracts/src/JobBoard.sol`). State: jobs with poster, worker, reward, result,
deadline and status. Operations: `postJob`, `takeJob`, `completeJob`, `acceptCompletion`, `cancelJob`,
`timeoutClaim`. Both contracts are correct when they hold exactly what they owe, pay only whom they
owe, and keep nobody's money for good.

**Web sessions and OAuth** (`crates/jkr-server/src/main.rs`). State: browser sessions in PostgreSQL or, without it,
in memory; pending OAuth states in Redis or in memory; the tokens of the command line. Operations: sign-in by password
and over OAuth, sign-out, the switch of a session's tenant, minting and revoking tokens. A handler reads, awaits and
writes: `handle_switch_tenant` reads a session and inserts it again, `handle_logto_callback` takes a state
and inserts a session after the exchange with the identity provider. Correct when a removed session stays removed and one
started sign-in gives one session at most.

**LLM proxy and receipts** (`crates/jkr-server/src/main.rs`). State: the permits of `upstream_concurrency`, one blocking
task and one channel of 32 chunks per streamed call, the rings of recent and of captured calls with the tables behind them, a queue
of receipts in memory and one in PostgreSQL. Operations: `proxy_llm_request` admits, relays, captures
and pushes a receipt; `handle_llm_receipts_drain` hands receipts to relayers; `handle_llm_captured` shows bodies to their
owner. Hard: clients that leave or stop reading, handlers dropped at an await, tasks nobody waits for, drains at the
same time, a restart at any point. Correct when permits come back, an answered call is recorded,
a receipt is handed out once, and captured bodies are shown to nobody else.

**Sandbox run counters** (`crates/jkr-server/src/main.rs`). Three atomics, a ring and a table: runs the server executes and runs
that command lines report.

**Proxied commands** (`crates/jkr/src/main.rs`, `cli.rs`, `stream.rs`, `native/`, `crates/jkr-filter`). State: a child process,
a pipe and a reader thread for each of its streams, one channel, the pipeline's filter states and token budget. Hard: two threads racing
into one channel, output that ends before the child does and the reverse, a reader of jkr's own output that goes away (a panic in `println!`
that unwinds through `LineStream::drop`). Correct when every line is taken once and in order, a line that is not shown is accounted for, the
exit code is the child's, and jkr ends when the child's output does. The native handlers keep to that in three ways of their own: most collect
the child's output and print a digest; grep, rg and ls read it as text and give up at a line that is not; cat runs no child; git diff runs a large diff again.

**Vault, rotation and administration** (`crates/jkr/src/host/vault`, `host/cli_cmds`). State: `~/.jkr/vault`, a key file, an index and
encrypted entries, of which the shipped commands write one, the analytics database. Operations: the full boot, the record of a command,
`gain`, `admin reset`, `vault rotate`, `clean-stats`. Every invocation is a process of its own and none locks the directory. Hard: a kill
between any two system calls, several processes. Correct when what was recorded can still be read.

### Components that are not modelled

| component | state and operations | why |
|---|---|---|
| Mesh client's own tasks (`jkr-mesh/src/client.rs`) | two channels and two tasks between the caller and the socket | they delay frames and do not reorder them; the broker sees a client that sends, reads and closes when it likes |
| Identity, envelopes, frames (`jkr-mesh`) | none | signing and parsing; abstracted to "verifies" |
| Agent registry (`agents/registry.rs`) | versions of a named manifest | one INSERT under a primary key: the second of two pushes of one version fails |
| Audit log (`host/vault/audit.rs`) | hash-chained log and tip | one writer; its only hard step, a crash between log and tip, is reported as tampering by the next open |
| Key-value and file handles (`host/vault/storage.rs`) | none of their own | no caller on the shipped path |
| Aggregation buckets (`jkr-server/src/main.rs`) | counters under a mutex | no protocol |
| Digests of the native handlers (`jkr/src/native`) | none | how a handler sums up the output it has taken; how it runs its child, reads it, gives up and exits is in `CliProxy` |
| Commands, plugin interface (`jkr/src/cmds`, `jkr-api`) | one request each | the calls they send are actions of the contracts and of the broker |
| Sandbox (`jkr-sandbox`) | none after exec | enforcement belongs to the kernel |
| Session recorder, code index, MCP server, models, providers, analytics, console, scripts | one process or one request at a time | no protocol between parts |

The table of hazards in `PROJECT.json` gives the line where each of these parts can go wrong, and the properties that would show it.

## 2. The modules

| module | models | used by |
|---|---|---|
| `MeshBroker` | broker sessions, writers, routing table; clients as environment | `MCMeshBroker`, `MeshBroker_proofs` |
| `AgentEvents` | the lines of an agent's log | the three below |
| `AgentStream` | abstract: what the server needs of an agent's log | `AgentLoop` (refinement) |
| `AgentLoop` | one run of the agent | |
| `AgentSession` | server, database, Docker, streams; the agent is `AgentStream`'s next line | `AgentSession_proofs` |
| `Funds` | balances, payments in and out | `JobBoard`, `MeshEscrow`, `Funds_proofs` |
| `JobBoard`, `MeshEscrow` | the contracts | `MCJobBoard`, `MCMeshEscrow`, `JobBoard_proofs`, `MeshEscrow_proofs` |
| `ServerStores` | requests, rings, tables and writer tasks of the server; its restart | the three below |
| `WebSession`, `LlmProxy`, `SandboxRuns` | handlers of `jkr-server/src/main.rs` | `Server` |
| `Server` | the server as one process: the handlers composed | `MCServer`, `Server_proofs` |
| `FilterRules` | the compiled rules of `jkr-filter` | `CliProxy` |
| `CliProxy` | child, pipes, reader threads, pipeline, exit code | `HostVault` |
| `HostVault` | the vault's files as invocations of jkr change them | `Host` |
| `Host` | invocations of jkr on one machine, which may be killed | `MCHost`, `Host_proofs` |

### MeshBroker

`peers` is `BrokerState.peers`, `members` the member tables. `phase[c]` is the place of session task
`c` in `run_ws_session`: *hello*, *acking*, *acked*, *open*, *draining*, *ended*; `fwd[c]` is the push
it is awaiting room for, with the connection whose sender it has cloned. `queue[c]` and `writer[c]` are the
channel and the writer task; `up[c]`, `down[c]` the two directions of the socket; `client`, `nsent`, `got`
belong to the clients, some of which open a connection and do not begin with a Hello (`ClientOpens`). Each await of the code is a step boundary: the Ack (`SendAck`), `attach_peer` with
the spawn of the writer (`Attach`), the lookup of a route (`RouteSend`) and the enqueueing (`Enqueue`),
the cleanup (`EndRead`) and the wait for the writer (`JoinWriter`). The writer's `recv` never yields
`None`, because the session holds a sender of the same channel until it has awaited that
writer; so the writer leaves only through `WriterFails`.
A signature, an envelope or a clock is the fact that its check passes. Each push carries the
connection and the place it was sent from, which only properties read.

### AgentEvents, AgentStream, AgentLoop

A log line is an event with a number and the fact whether it is Done or Error, or text that does not
decode. `Follow(log)` gives the lines that may come next: the next number, and nothing after a
final event except one line of text. `AgentStream` is that contract as a specification. `AgentLoop` has
an action for every place of `run` and `run_tool_calls_with_events`; an error propagated with `?` is
`Abort`: a line of text on stderr, no event. The conversation keeps the ids of calls and results in order: `calls` and `results`
are the loop variable and the `out` of `run_tool_calls_with_events`, what a tool returns is left out, and the provider may give two calls one id. A refinement mapping, `Seen`, reads its output as
`AgentStream`'s.

### AgentSession

`row` and `store` are the two tables, `container` and `log` are Docker's, `create`, `drain` and `stopping` the places of
the three tasks, `pos` how far the drain has read, `stream`, `next`, `batch`, `chan` a watcher's task and channel, `dangling`
the tasks whose client has left without their knowing. Each await is a step: `spawn` is two Docker calls,
the INSERT and the spawn of the drain are one step because no await separates them, `stop` is
two Docker calls whose failures are ignored. A log stream may end while its container runs (*short*):
the drain finalizes and marks the row 'exited' all the same, and the model calls that verdict *partial*. `Crash` drops every task and connection;
`Boot` is `reconcile`. `CancelCreate` and `CancelStop` are a handler's future dropped at an await, with the
statement it had sent executed or not. A watcher is one client that resumes after the last number it has
received.

### Funds, JobBoard, MeshEscrow

A call is one transaction, and `nonReentrant` keeps a payee from calling back in, so a call is one step; a call that reverts
is no step. Guards are the conditions under which a call does not revert, including the last one, that the payment
goes through: `Refused` is the set of pairs of token and account that cannot be paid.
A token moves the amount it is asked to or reverts: the contracts record the amount they asked for. A batch
is modelled by what its loop leaves behind: every entry settles, the amounts of one session grow, and each session pays up to its last
entry.

### ServerStores, WebSession, LlmProxy, SandboxRuns, Server

`req` gives every request its place in one handler and what the handler holds there: a switch the session it has read, an
exchange the state it has taken, a call its owner, channel and client. Handlers of one atomic statement are one step and
need no request. `ring`, `table` and `tasks` are the bounded logs: a push goes to the ring and, with PostgreSQL,
spawns a task that inserts a row and trims the table, two statements with anything in between. `setting` says
whether PostgreSQL, Redis and the capture of bodies are configured, since each of them
sends handlers down another path. A task's INSERT or DELETE may fail, which the code ignores; `torn` counts the trims that were due and did not happen since the last that did. `permits`, `queue`, `rows`, `claims`, `drained` are the semaphore, the two receipt queues, the transactions
of concurrent drains (FOR UPDATE SKIP LOCKED) and what the relayers have got. A streamed call is the blocking task of
`proxy_llm_streaming`, step by step to the drop of its permit, and waiting for room in its channel is a place of its own (*chunk*); the lookup of a call's token may fail, and the call then has no owner; a buffered one is the task and then its handler, which is dropped when its client leaves.
A trim keeps rows by their places (`Kept`), a drain leaves out receipts by their ids (`Without`).
`Restart` ends every handler and task and keeps the stores. Tenants, signatures, redaction and token counts are left out. What a property must remember and
the code does not store (`drawn`, `gone`, `loginOf`, `minter`, `pushed`, `shown`) is marked as history: `gone` keeps of every session removed the switches that had read it,
`minter` what token a call came with and whether it was found, which is drawn from the table of tokens and not from what the handler read, and `pushed` the calls in the order of their receipts.

### FilterRules, CliProxy, HostVault, Host

A line is a model string; a pattern is a set of lines, a capture the key of a line, a length its tokens. Each rule kind is
an operator from its state and a line to its answer and next state; `Filter` lets the first answer end the list, so the rules behind it do not see the line.
What the rules hold back is the set of places where a state keeps a line (`Gathered`, `HeldBack`).
`child`, `pipe`, `readers`, `chan` are the process, its two pipes, the two threads and their channel; `run` is
`run_pipeline_direct`'s variables and place, `fates` what became of each line (history). A child's streams
may stay open after it ends, held by a process it started. Of the native handlers, most collect the output and print it when the child has ended (*collecting*, `Native`);
grep, rg and ls read lines of text (*scanning*) and return an error at one that is not, without waiting for the child (`ScanFails`), while the thread that forwards the standard error just ends there;
cat reads files (*reading*, `ReadFiles`) and fails with one that is not text; git diff drops an output of more than 8 MiB and leaves the command to the pipeline (*again*, `Rerun`).
`dirs` holds the vault, the shadow directory of a rotation and the one it moves away; `todo` is the list of steps an invocation has yet to take there, each one
system call others can see, and `key` and `db` its copies of the key and the database. A put is the rename of the entry, then the rename of the index (whose load and save are one step). The key
file is written in two steps: created, then filled. `Host` adds the record that a proxied command makes of itself, the administrative commands and `Kill`.

## 3. What each run checks

`Spec` everywhere allows an actor to stop for ever; where liveness is checked the specification and its fairness are named.
Deadlock is not checked: clients may close, jobs end and agents exit, after which nothing is left to do.

| run | states | properties | what it shows |
|---|---|---|---|
| `broker_safety` | 3.6 M | TypeOK, RoutesAreLive, PushesAreAddressed, PerSenderOrder, DroppedOnlyIfOffline | three connections of two addresses, in any order of hello, rejection, silence before a hello, reconnection, close |
| `broker_live` | 237 k | ForwardCompletes | under `ReadingSpec`, a push that waits for room is enqueued or dropped in the end |
| `broker_handoff` | violated | HandoffSurvivesCleanup | the older session's cleanup removes the newer session's entry |
| `agent_loop` | 61 k | CallsAnswered, WritesAStream | every answer's calls have their results, by id and in order, in the next message, and `AgentLoop` implements `AgentStream` |
| `session_safety` | 5.7 M | TypeOK, EventsStored, ReceivedInOrder, ExitedIsComplete | all faults, a log stream that ends early, two crashes, clients that leave and resume |
| `session_live` | 53 k | SessionSettles, StreamEndsOnFinal, ContainersRemoved | under `FairSpec` with one crash |
| `session_stop` | violated | StopIsFinal | a drain turns 'stopped' into 'exited' or 'failed' |
| `session_orphan` | violated | NoOrphans | a crash between start and INSERT, or between UPDATE and stop |
| `job_board` | 255 k | TypeOK, Solvent, RecordsAgree, BooksBalance, CompletedIsPaid | two jobs, three accounts, two tokens |
| `mesh_escrow` | 430 k | TypeOK, Solvent, PaidIsSigned, ClaimsPayGrowth, ReceiptsStand, DepositsReturn | two sessions, two tokens, batches of two |
| `server` | 1.2 M | ServerTypeOK, LogoutHolds, OneLoginPerState, AnsweredIsRecorded, ReceiptsOnce, CapturedIsPrivate, TablesTrimmed, RunsAreCounted, PermitsComeBack | up to four requests and a restart, with and without PostgreSQL and Redis, whose statements may fail |
| `host` | 281 k | HostTypeOK, OutputIsAccounted, ExitCodeIsChilds, RecordedIsKept, ProxyEnds | a command's pipes and rules, every kind of handler, and three invocations in one vault, one of them killed |

The three violated runs are differences between the code and what a comment of it says;
`PROJECT.json` quotes each comment under "findings". Where a property that holds would be hit by
one of them or by another race of the code, its statement says so. DroppedOnlyIfOffline speaks of a recipient with one session,
ContainersRemoved of the time before the first crash. LogoutHolds excepts one writer: a switch of the tenant that had read the session before the logout inserts it again
(`main.rs:1266-1278`), and only such a switch can. ExitedIsComplete excepts a session whose log stream ended before its container did.
AnsweredIsRecorded speaks of the ring, from which the server answers without PostgreSQL or when its table cannot be read, and asks for a call until as many calls as the ring holds were pushed after it.
With PostgreSQL the answer comes from the table (`main.rs:4166`), whose row a spawned task has yet to write or fails to write: a client at the end of its stream may not be told of its own call, the race the comment at `main.rs:2334` means to exclude.
CapturedIsPrivate says who sees a call whose token could not be looked up: the sessions whose id token had no subject. TablesTrimmed allows a row for each trim that failed, until one works.
OutputIsAccounted and ExitCodeIsChilds name grep, rg, ls and cat at output that is not UTF-8, where the code is jkr's own although `docs/native-handlers.md:116` speaks of the child's.
OutputIsAccounted counts the lines the rules hold as suppressed, and there they stay: `rules.rs:82` has them emitted at flush, which no shipped path calls (`stream.rs:603`).
StreamEndsOnFinal speaks of clients that stay: a stream task learns that its client has left only when it sends, so without a further event it polls on.
RecordedIsKept excepts the three cases in which the code loses records: invocations that use the vault at the same time each write back their own
copy of the database, a rotation does not expect others, and a rotation killed between its renames and its key leaves a vault its key file does not open.

### Bounds, and why they are enough

*Broker.* Channel and socket hold one frame, so both are full after one push and a second one
waits: the capacity of 128 and that of the kernel only make that later. One sender with two frames is
the least that can be put out of order; with three connections over two addresses an address can be
connected twice while the other sends. Connections are never reused, because the
code gives each its own tasks and channel. Symmetry permutes the two connections that do not
send, and the addresses; it is used in the safety run only.
`broker_live` has two connections: c1 may send to itself and to c2, and they may share an address.

*Agent loop.* Three completions with two calls each: a call answered in an earlier round, one in
the current round, and a run that uses up `max_steps`.

*Sessions.* Sessions share no state but the server's life, so one session shows what many do. Three
lines let a drain stop before, between and after events, end in Done with text behind it, or
in text at once; the log stream may end after any of them. Two crashes let a replay be interrupted by a second replay. A channel of one event is full after one.

*Contracts.* Amounts up to 2 split into a first and a second part; receipts go one above the largest deposit.
Time 0 to 2 has a moment before, at and after a deadline of 1, and in `mesh_escrow` lets a session id be closed and
opened again. One account refuses the coin. Two entries are the least batch with a session named twice, and with two tokens.
Accounts own 2 of each token, so a second payment out of the contract would have to come from another's money.

*Server.* `MCSettings` gives each part of the server a workload with what it interacts with: *SignIn* (two session ids, one
OAuth state, three requests that call back or switch, beside logins and logouts), *Calls* (two calls with PostgreSQL, two with captured bodies, three without, so that
the queue of one receipt overflows and a call is pushed out of the ring by later ones), *Captures* (sign in, mint, call, look), *Tokens* (mint, revoke, call, report) and *Sandbox*. Two callbacks of one state, and a
logout against a switch, need no more; rings, batch, channel and permits of one are full after one. One restart
at any step shows what memory loses. All of it at once would only interleave handlers that share nothing.

*Host.* `MCPlans`: one stream of seven lines (two of one key, blanks, one that is not UTF-8) under six rule lists that use every rule kind;
two streams of two lines with a budget, a mortal child and a reader that leaves, buffered or not; each kind of handler, with a line that is not UTF-8 on either stream or on none; and a command that records itself beside each
other user of the vault, with two more readers after it in some. One kill, since a killed invocation takes no further step.

### Fairness

* `ServerFairness` (broker): each session and each writer task, when it can make a step, makes one: tokio polls
  every ready task. `ReadingSpec` adds that clients read what arrives; without it a full
  channel is full for ever, which is the code's back-pressure and not an error.
* `FairSpec` of `AgentSession`: every started request, drain and stream task goes on; a dead server is
  booted again; an agent exits (its steps are bounded by `max_steps`, though a tool that hangs is bounded
  by nothing: this is the strongest assumption made, and a hazard is listed for it); clients read. Nobody
  has to create, stop, follow or leave. Attempts that fail are not assumed to succeed
  in the end: `session_live` checks a run without failing statements and Docker calls, since one failure of
  the final UPDATE leaves a row 'running' until the next boot.
* `ServerFairness`: the blocking task of an admitted call goes on, because the upstream's part of it ends with ureq's timeout of the call.
  Nothing is assumed of clients and of PostgreSQL: PermitsComeBack says that only a client that neither reads nor leaves can keep a permit.
* `HostFairness`: the threads of a running jkr are scheduled. Nothing is assumed of the child, of what holds its pipes, or of the
  reader of jkr's output: ProxyEnds starts when the child's output is over.
* `FairSpec` of `JobBoard` and `MeshEscrow`: blocks come with later timestamps, and the party that
  is owed something calls (`TimeoutClaim`, `Close`). Nothing is assumed of the other party.

## 4. What is proved

The theorems hold for all values of the constants that satisfy the ASSUMEs of the modules: any number of
connections, sessions, jobs, requests, any capacity, any number of crashes and restarts, any amounts. Every invariant and every
action property that a passing run checks, and the refinement, is stated by a theorem; the `about` of each is in `PROJECT.json`.

**MeshBroker_proofs**: TypeCorrect, RoutesCorrect, AddressingCorrect, DropsCorrect, OrderCorrect. TypeOK is not inductive: `Attach` puts
`who[c]` in the table's domain, which needs that a session past its Hello has an address (`Authenticated`). RoutesAreLive
rests on `phase` changing from *open* only in `EndRead`, which removes the entry of its own address, and so its own entry
if it has one: the cleanup that removes too much (`broker_handoff`) never
leaves too much. PushesAreAddressed needs the pending push of every read loop (`Traced`): a sender cloned from the
table stays right although the table moves on, because `who` never changes after the Hello.
DropsCorrect needs the converse of RoutesAreLive (`Routed`): an open session is in the table unless another connection of its address has been.
OrderCorrect rests on `Ordered`: the sends a session still has to read are numbered upward, the push it waits to hand over comes before
them, and what is in the recipient's channel, on its wire and read is in order and behind both. An ack stands among the pushes
of a channel, so the order is stated of pairs of pushes and carried through append, tail and concatenation by lemmas.

**AgentSession_proofs**: TypeCorrect, StoredCorrect, DeliveryCorrect, ExitCorrect. `StoreInv` adds to the types that the log is numbered
by position with text only at its end, and that no drain is ahead of the store:
a replay that starts at the first line then either stores again what is there (ON CONFLICT DO NOTHING) or continues
exactly where the store ends. EventsStored alone says nothing of `pos` and is not inductive.
`Delivered` relates received events, channel, batch and `next` of every watcher to one position in the log:
what was received, then what is in the channel, then what is still to be sent, is a prefix of the log without a gap.
ExitCorrect follows from `ExitInv`: the verdict 'exited' is reached only by a drain that has read to the end (`Inspected`, `Saving`), and a session whose
create has not returned has neither row, drain nor stop (`Early`), so nothing else can mark it.

**AgentLoop_proofs**: StreamCorrect, ConversationCorrect. The refinement is proved step by step: `LogInv` says that the log read through `Seen` has the
numbers the loop has given out and no final event while the loop runs, so every emitted event is among the lines `Follow` allows, and every
other step is a stutter of `AgentStream`. `TurnInv` says that the conversation alternates
and answers every earlier call; `CollectInv`, that the results collected followed by the calls still to run are the last answer's calls, which makes
the message built from them answer it.

**Server_proofs**: LogoutCorrect, LoginCorrect, AnswersCorrect, of the whole server with its restarts. `WebInv` says what handlers hold across an await: a switch holds a
session that was not removed behind its back (`HeldBySwitch`), an exchange holds a state that is pending nowhere, in no other request
and in no session (`HeldByExchange`), and ids once drawn are never drawn again (`Known`). Every action of the proxy and of the sandbox
runs is shown to leave sessions and states alone. `CallInv` says that the ring is, in order, the newest of the calls pushed (`RingOK`), and that every call
behind its receipt has been pushed (`CallOK`): so a call is in the ring until as many have been pushed after it, however many were before. `HeldBySwitch` says of a session that was removed while a switch held it that the
switch is one of those `gone` names for it, which is what LogoutHolds excepts and nothing more.

RunsCorrect, PrivateCorrect, ReceiptsCorrect, TypeCorrect and TablesCorrect speak of the same server and need five more invariants.
* `RunsInv`: the counters cover sets, not lists: the runs in the ring and those on their way to it are a finite set with at most `total`
  members, and the failed and denied ones likewise. A run between its two increments counts for the room between `failed` and `total`.
* `PrivateInv`: a call keeps the owner its token had when it came in, or nobody if the token could not be looked up (`OwnerKept`), and every captured row, in the ring, with a task or
  in the table, names that owner (`RowPrivate`). Revoking the token meanwhile changes neither.
* `ReceiptInv`: a receipt is in one place: with a call that has not given it away, with its task, waiting, or drained (`ReceiptsApart`, `TasksApart`);
  the transactions of two drainers lock different rows (`ClaimsApart`), which is what SKIP LOCKED gives and what a rollback must leave.
* `TypeInv`: free permits and the calls between admission and release are always `MaxPermits` together (`PermitsOK`), the equality ServerTypeOK asks for; the invariant adds
  that the calls holding one are finitely many, without which the sum has no meaning.
* `TableInv`: the rows of a table that share a cap are within the cap, the trims still to come and those that failed or were cut off since the last that worked (`Within`). An insert may go over the cap
  because its own task still has a trim to make, and a trim that works brings the rows back within the cap whatever was torn before; `TasksOnce` gives that no two tasks carry the same row.

**JobBoard_proofs**: TypeCorrect, RecordsCorrect, TermsCorrect, RewardsCorrect, BooksCorrect. The invariant is TypeOK and
RecordsAgree: the second gives that a completed job has a worker, so a payee is an account, which TypeOK' needs. The last three are properties of
steps, each proved for the settling calls once, through `Settle`. They rest on `Funds_proofs`: what a transfer does
to the balance of the contract, of the account, and of everyone else. SolventAlways turns the step of BooksCorrect into the state: the contract holds
exactly the rewards of the live jobs, because a call changes one job's share of the sum and the balance by the same amount.
`Funds_proofs` holds the sums this needs. The library's induction theorems take an operator as a parameter, so induction is stated there on sets of numbers
(a set of naturals with 0 and with every successor is all of them) and of sets, and what a fold over a finite set does when one summand changes follows from it.

**MeshEscrow_proofs**: TypeCorrect, PaidCorrect, ReceiptsCorrect. The invariant is TypeOK and PaidIsSigned, whose
`paid <= deposit` keeps the refund of `close` from being negative. For a batch, the place of the last entry of every session
is a witness, so what the batch leaves behind is stated without recursion. SolventAlways and GrowthCorrect sum over sessions and over what a batch pays; they rest
on the same lemmas and on SessionId being finite (`MeshEscrowAssumption`), without which the sum has no meaning.

**Host_proofs**: ExitCodeCorrect, HostTypesCorrect, RecordsCorrect, OutputCorrect, of all invocations together.
`CodeKnown` says that the code of the run is the child's from the moment the threads
are joined, and that a main thread unwinds only when its output has no reader; which invocations exit with a code of their own comes from `EndOK`, below; recording may fail or be killed after that and changes nothing of it.

RecordsCorrect rests on `KeptInv`. `Paths` says that the steps an invocation has still to take are the rest of one of the few sequences its command has, so its next step tells what
it holds; `Sound` says that for every such place: before a commit, its copy of the database has every row that is owed and its key opens
what it is about to write; between the renames of a rotation, the shadow directory has what the vault had (`Moving`). `OnOwn`: an invocation that no other has overlapped is alone with the vault.
The exceptions RecordedIsKept names are a conjunct of the invariant's hypothesis (`Excused`), and once true they stay true.

OutputCorrect rests on `OutInv`. `FlowOK` puts the lines an invocation has received and the lines in its channel in one sequence, in which those of
each stream are numbered upward without a gap and go on in that stream's pipe and in what the child has still to print. `EndOK` says what is
empty when: a reader ends on an empty pipe with no writer, or on standard error at a line that is not UTF-8 (`Drained`), and the main thread stops waiting on an empty channel with no reader. So an invocation with an outcome has either taken everything
and waited for its child (`Settled`), or given up at a line on standard output with nothing of it printed (`Quit`), and nothing becomes of a line in the phases before (`Before`). `HeldOK` compares the places the
rules hold with the lines suppressed; for each rule kind a lemma says that a line adds at most one place, and only when it is suppressed.

### What is only model-checked

Every liveness property: ForwardCompletes, SessionSettles, StreamEndsOnFinal, ContainersRemoved, CompletedIsPaid, DepositsReturn,
PermitsComeBack, ProxyEnds. Fairness and ENABLED are outside the prover's reach. PermitsOK shows of PermitsComeBack its safety half: no permit is lost or made, and whatever is missing
is held by a call that is still in progress.

Model-checked only, too, are the three violated runs, whose counterexamples TLC gives.

## 5. What the models leave out

* Broker: ping, pong and binary messages, which the code skips; `status`, which reads; expiry of
  invites and Hellos, which is one outcome of "verifies".
* Sessions: the owner of a session (the handlers check it before anything else), the
  resolution of the agent and its image, and the poll interval of 250 ms.
* Agent loop: text, token counts, the output filter, the record of the run.
* Server: the tenant of a session, texts of requests and answers (redaction, injection rules, usage), signatures of receipts, the routes that only read.
* Command line: the transcript's contents, the session socket, the texts of native digests; `run_pipeline_v2` and the filters' `flush`, which no shipped
  path calls. Other entries of the vault than the analytics database, its export and import, and the details of encryption (a blob opens with the key it was written with).
* Contracts: events, views, the preview and the hash of a job's description, ecrecover's details (a receipt is settled
  if its payer issued it), the width of integers: amounts are uint256 under checked arithmetic, so an overflow reverts.
* Tokens that deliver less than they are asked for. The contracts record the amount asked for without looking at
  their balance, so what they owe and what they hold agree only for tokens that move amounts in full.

## 6. What is left

1. The mesh client's own tasks beside the broker's session over one socket: whether dropping the client ends all of them.
2. `admin export` and `import`, and vault entries written by plugins other than the shipped ones: two entries under one index.
3. The agent registry against a session that resolves the newest version while another is pushed.
4. That a gathering rule never holds more lines than its cap, as a property and a theorem.
