------------------------------ MODULE LlmProxy ------------------------------
(***************************************************************************)
(* The LLM proxy: a permit per upstream call, the blocking task that       *)
(* relays a stream over a bounded channel, the receipt and the capture it  *)
(* leaves, and the drain of the receipt queue.  A call is a request; its   *)
(* record says where the task is (at), what its client sees (client) and   *)
(* how many chunks wait in the channel.  Text and token counts are left    *)
(* out; the rewriter of the stream appears as whether a tail is left.      *)
(***************************************************************************)
EXTENDS WebSession

CONSTANTS
  MaxPermits,   \* JKR_UPSTREAM_MAX_CONCURRENT
  ChanCap,      \* the 32 chunks of proxy_llm_streaming's channel
  MaxChunks,    \* bound: chunks of one upstream answer
  QueueCap,     \* LLM_RECEIPT_QUEUE_CAP
  BatchSize,    \* LLM_RECEIPT_BATCH_SIZE
  Drainer       \* relayers that drain receipts

ASSUME LlmAssumption ==
  {MaxPermits, ChanCap, MaxChunks, QueueCap, BatchSize} \subseteq Nat \ {0}

VARIABLES
  permits,      \* free permits of upstream_concurrency
  queue,        \* llm_receipt_queue, in memory
  dropped,      \* llm_receipts_dropped
  rows,         \* receipts_queue, the table, by id
  claims,       \* drainer -> the rows its transaction has locked
  drained,      \* receipts handed to relayers, in order (history)
  pushed,       \* calls whose receipt was pushed since the last boot, in order (history)
  minter,       \* call -> the user whose live token it came with, and whether the
                \* lookup found him (history)
  shown         \* <<viewer, call>>: captured calls an answer has shown (history)

receiptVars == <<queue, dropped, rows, claims, drained, pushed>>
viewVars == <<minter, shown>>
llmVars == <<permits, receiptVars, viewVars>>

\* Calls that hold a permit: a stream's until its task ends.
Holding(r) == \/ req[r].at \in {"send", "relay", "chunk", "flush", "release"}
              \/ req[r].at \in {"capture", "receipt"} /\ req[r].stream

CallRow(r) == [id |-> r, tag |-> req[r].owner]

\* The call's record at its next place, with some fields changed.
With(r, changes) ==
  To(r, [f \in DOMAIN changes \cup DOMAIN req[r] |->
           IF f \in DOMAIN changes THEN changes[f] ELSE req[r][f]])

\* proxy_llm_request up to the body: the owner is looked up before anything else;
\* a call whose token is not found has the owner "".
Arrive(r, k, stream) ==
  /\ Routed(r, IF stream THEN "stream" ELSE "llm")
  /\ \E found \in CliTokenLookup(k) :
       /\ To(r, [at |-> "body", owner |-> IF found THEN tokens[k].user ELSE "",
                 token |-> k, stream |-> stream,
                 client |-> "waits", chan |-> 0, chunks |-> 0])
       /\ minter' = IF Live(k) THEN Put(minter, r, [user |-> tokens[k].user, found |-> found])
                    ELSE minter
  /\ UNCHANGED <<permits, receiptVars, shown, storeVars>>

\* No upstream, a bad or large body, or an injection rule that blocks.
Refuse(r) ==
  /\ req[r].at = "body"
  /\ To(r, Done)
  /\ UNCHANGED <<llmVars, storeVars>>

\* try_acquire_owned: a permit, or 429 at once.
Admit(r) ==
  /\ req[r].at = "body"
  /\ IF permits > 0
     THEN permits' = permits - 1 /\ With(r, [at |-> "send"])
     ELSE To(r, Done) /\ UNCHANGED permits
  /\ UNCHANGED <<receiptVars, viewVars, storeVars>>

\* The upstream cannot be reached: 502, and no receipt.
SendFails(r) ==
  /\ req[r].at = "send"
  /\ permits' = permits + 1
  /\ To(r, Done)
  /\ UNCHANGED <<receiptVars, viewVars, storeVars>>

\* Mutant: a client that has left costs its permit.
StreamHead_Leaks(r) ==
  /\ req[r].at = "send" /\ req[r].stream
  /\ IF req[r].client = "gone" THEN To(r, Done)
     ELSE With(r, [at |-> "relay", client |-> "reads"])
  /\ UNCHANGED <<permits, receiptVars, viewVars, storeVars>>

\* A stream's head is there: relayed to a client that still waits for it.
StreamHead(r) ==
  /\ req[r].at = "send" /\ req[r].stream
  /\ IF req[r].client = "gone"
     THEN To(r, Done) /\ permits' = permits + 1
     ELSE With(r, [at |-> "relay", client |-> "reads"]) /\ UNCHANGED permits
  /\ UNCHANGED <<receiptVars, viewVars, storeVars>>

\* The relay is over: what the rewriter still holds, usually nothing, goes out as
\* a last chunk.
EndsRelay(r) ==
  \E place \in {"flush", "capture"} : With(r, [at |-> place])

\* The upstream's answer goes on: a chunk for the channel ...
Chunk(r) ==
  /\ req[r].at = "relay"
  /\ req[r].chunks < MaxChunks
  /\ With(r, [at |-> "chunk", chunks |-> req[r].chunks + 1])
  /\ UNCHANGED <<llmVars, storeVars>>

\* ... where blocking_send waits for room, and fails once the receiver is gone.
SendChunk(r) ==
  /\ req[r].at = "chunk"
  /\ \/ /\ req[r].client = "gone"
        /\ With(r, [at |-> "flush"])
     \/ /\ req[r].client = "reads" /\ req[r].chan < ChanCap
        /\ With(r, [at |-> "relay", chan |-> req[r].chan + 1])
  /\ UNCHANGED <<llmVars, storeVars>>

\* Mutant: a read error ends the task before the receipt.
UpstreamEnds_NoReceipt(r) ==
  /\ req[r].at = "relay"
  /\ EndsRelay(r) \/ With(r, [at |-> "release"])
  /\ UNCHANGED <<llmVars, storeVars>>

\* The upstream ends, fails or runs into the timeout of the whole call.
UpstreamEnds(r) ==
  /\ req[r].at = "relay"
  /\ EndsRelay(r)
  /\ UNCHANGED <<llmVars, storeVars>>

\* Mutant: the last chunk is tried again until the client takes it.
Flush_Insists(r) ==
  /\ req[r].at = "flush"
  /\ req[r].client = "reads" /\ req[r].chan < ChanCap
  /\ With(r, [at |-> "capture", chan |-> req[r].chan + 1])
  /\ UNCHANGED <<llmVars, storeVars>>

\* The last chunk is sent like the others; after an error the task goes on.
Flush(r) ==
  /\ req[r].at = "flush"
  /\ \/ /\ req[r].client = "reads" /\ req[r].chan < ChanCap
        /\ With(r, [at |-> "capture", chan |-> req[r].chan + 1])
     \/ /\ req[r].client = "gone"
        /\ With(r, [at |-> "capture"])
  /\ UNCHANGED <<llmVars, storeVars>>

\* push_captured: after it a stream's receipt, a buffered call's answer.
PushCaptured(r) ==
  /\ req[r].at = "capture"
  /\ IF capture THEN Push("captured", CallRow(r)) ELSE UNCHANGED <<ring, tasks>>
  /\ With(r, IF req[r].stream THEN [at |-> "receipt"]
             ELSE [at |-> "closed", client |-> "answered"])
  /\ UNCHANGED <<table, torn, llmVars>>

\* push_receipt: the ring and its task, then the queue, the oldest dropped at the
\* cap.  A stream then closes the channel; a buffered call goes on to its capture.
PushReceipt(r) ==
  /\ req[r].at = "receipt"
  /\ Push("recent", CallRow(r))
  /\ LET q == Append(queue, r) IN
     IF Len(q) > QueueCap THEN queue' = Tail(q) /\ dropped' = dropped + 1
                          ELSE queue' = q /\ UNCHANGED dropped
  /\ pushed' = Append(pushed, r)
  /\ With(r, [at |-> IF req[r].stream THEN "release" ELSE "capture"])
  /\ UNCHANGED <<table, torn, permits, rows, claims, drained, viewVars>>

\* The blocking task of a stream ends: the permit is dropped after the sender.
Release(r) ==
  /\ req[r].at = "release"
  /\ permits' = permits + 1
  /\ With(r, [at |-> "closed"])
  /\ UNCHANGED <<receiptVars, viewVars, storeVars>>

\* A buffered call's task returns the head of the answer and drops the permit.
\* The handler is gone if its client is.
BufferedReturns(r) ==
  /\ req[r].at = "send" /\ ~req[r].stream
  /\ permits' = permits + 1
  /\ IF req[r].client = "gone" THEN To(r, Done) ELSE With(r, [at |-> "joined"])
  /\ UNCHANGED <<receiptVars, viewVars, storeVars>>

\* The handler is polled again: it reads the body and runs to its end.
Resume(r) ==
  /\ req[r].at = "joined"
  /\ With(r, [at |-> "receipt"])
  /\ UNCHANGED <<llmVars, storeVars>>

\* ChannelBody: the client takes a chunk, or the end of the stream.
ClientReads(r) ==
  /\ req[r].at \in {"relay", "chunk", "flush", "capture", "receipt", "release", "closed"}
  /\ req[r].client = "reads"
  /\ \/ req[r].chan > 0 /\ With(r, [at |-> req[r].at, chan |-> req[r].chan - 1])
     \/ /\ req[r].chan = 0 /\ req[r].at \in {"release", "closed"}
        /\ With(r, [at |-> req[r].at, client |-> "ended"])
  /\ UNCHANGED <<llmVars, storeVars>>

\* The client leaves.  A handler that still waits is dropped; the blocking task
\* goes on.
Leave(r) ==
  /\ \/ req[r].at \in {"body", "joined"} /\ To(r, Done)
     \/ /\ req[r].at = "send" /\ req[r].client = "waits"
        /\ With(r, [at |-> req[r].at, client |-> "gone"])
     \/ /\ req[r].at \in {"relay", "chunk", "flush", "capture", "receipt", "release", "closed"}
        /\ req[r].client = "reads"
        /\ With(r, [at |-> req[r].at, client |-> "gone", chan |-> 0])
  /\ UNCHANGED <<llmVars, storeVars>>

\* The receipt's task puts the receipt on the queue, or fails to.
TaskEnqueues(t) ==
  /\ t.step = "enqueue"
  /\ tasks' = tasks \ {t}
  /\ rows' \in {rows, Append(rows, t.row.id)}
  /\ UNCHANGED <<req, permits, queue, dropped, claims, drained, pushed, viewVars, ring, table, torn>>

\* Mutant: a claim does not look at other transactions.
Locked_Ignored == {}

Locked == UNION {Range(claims[d]) : d \in Drainer}

\* The receipts of s that are not in a set.
Without(s, ids) == Kept(s, {i \in DOMAIN s : s[i] \notin ids})

\* handle_llm_receipts_drain without PostgreSQL: all of the queue at once.
DrainMemory ==
  /\ Served("drain") /\ ~pg /\ queue # <<>>
  /\ drained' = drained \o queue
  /\ queue' = <<>>
  /\ UNCHANGED <<req, permits, dropped, rows, claims, pushed, viewVars, storeVars>>

\* With PostgreSQL: the oldest rows no other transaction has locked ...
Claim(d) ==
  /\ Served("drain") /\ pg /\ claims[d] = <<>>
  /\ LET free == Without(rows, Locked)
         batch == SubSeq(free, 1, IF Len(free) < BatchSize THEN Len(free) ELSE BatchSize)
     IN  batch # <<>> /\ claims' = [claims EXCEPT ![d] = batch]
  /\ UNCHANGED <<req, permits, queue, dropped, rows, drained, pushed, viewVars, storeVars>>

\* ... are deleted and committed together, and handed out.
Commit(d) ==
  /\ claims[d] # <<>>
  /\ drained' = drained \o claims[d]
  /\ rows' = Without(rows, Range(claims[d]))
  /\ claims' = [claims EXCEPT ![d] = <<>>]
  /\ UNCHANGED <<req, permits, queue, dropped, pushed, viewVars, storeVars>>

\* A statement fails or the relayer leaves: the transaction rolls back.
Rollback(d) ==
  /\ claims[d] # <<>>
  /\ claims' = [claims EXCEPT ![d] = <<>>]
  /\ UNCHANGED <<req, permits, queue, dropped, rows, drained, pushed, viewVars, storeVars>>

\* handle_llm_captured: a session, then the calls of its user, from the table or,
\* when that cannot be read, from the ring.
ViewRead(r, s) ==
  /\ capture
  /\ Require("captured", r, s, [at |-> "view", user |-> sess[s]])
  /\ UNCHANGED <<llmVars, storeVars>>

\* Mutant: the calls of all users are shown.
ViewShow_All(r) ==
  /\ req[r].at = "view"
  /\ \E source \in {ring["captured"]} \cup (IF pg THEN {table["captured"]} ELSE {}) :
       shown' = shown \cup {<<req[r].user, c.id>> : c \in Range(source)}
  /\ To(r, Done)
  /\ UNCHANGED <<permits, receiptVars, minter, storeVars>>

ViewShow(r) ==
  /\ req[r].at = "view"
  /\ \E source \in {ring["captured"]} \cup (IF pg THEN {table["captured"]} ELSE {}) :
       shown' = shown \cup {<<req[r].user, c.id>> :
                               c \in {x \in Range(source) : x.tag = req[r].user}}
  /\ To(r, Done)
  /\ UNCHANGED <<permits, receiptVars, minter, storeVars>>

LlmInit ==
  /\ permits = MaxPermits
  /\ queue = <<>>
  /\ dropped = 0
  /\ rows = <<>>
  /\ claims = [d \in Drainer |-> <<>>]
  /\ drained = <<>>
  /\ pushed = <<>>
  /\ minter = <<>>
  /\ shown = {}

LlmRestart ==
  /\ permits' = MaxPermits
  /\ queue' = <<>>
  /\ dropped' = 0
  /\ claims' = [d \in Drainer |-> <<>>]
  /\ pushed' = <<>>
  /\ UNCHANGED <<rows, drained, viewVars>>

\* What the blocking task of r does once it has its permit ...
TaskStep(r) ==
  /\ Holding(r)
  /\ \/ SendFails(r) \/ StreamHead(r) \/ Chunk(r) \/ SendChunk(r)
     \/ UpstreamEnds(r) \/ Flush(r)
     \/ PushCaptured(r) \/ PushReceipt(r)
     \/ Release(r) \/ BufferedReturns(r)

\* ... and what the handler of a buffered call does after it.
HandlerStep(r) ==
  /\ ~Holding(r)
  /\ Resume(r) \/ PushReceipt(r) \/ PushCaptured(r)

LlmStep ==
  \/ \E r \in Req :
       \/ \E k \in Token, stream \in BOOLEAN : Arrive(r, k, stream)
       \/ Refuse(r) \/ Admit(r)
       \/ TaskStep(r) \/ HandlerStep(r)
       \/ ClientReads(r) \/ Leave(r)
       \/ \E s \in Sid : ViewRead(r, s)
       \/ ViewShow(r)
  \/ \E t \in tasks : TaskEnqueues(t)
  \/ DrainMemory
  \/ \E d \in Drainer : Claim(d) \/ Commit(d) \/ Rollback(d)

-----------------------------------------------------------------------------
Answered(r) == /\ req[r].at \in {"release", "closed"}
               /\ req[r].client \in {"answered", "ended"}

IdsOf(entries) == {e.id : e \in Range(entries)}

(***************************************************************************)
(* A client that has its answer, or has seen the end of its stream, finds  *)
(* the call in the ring of recent ones, unless RingCap or more calls have  *)
(* been pushed after it: the receipt is pushed before the sender is        *)
(* dropped.  /api/v1/llm/recent answers from the ring without PostgreSQL,  *)
(* and with it when its table cannot be read.  Of an answer from the table *)
(* nothing of the kind holds: its row is written by a task nobody waits    *)
(* for, so a client may have seen the end of its stream and not be told of *)
(* its own call.                                                           *)
(***************************************************************************)
AnsweredIsRecorded ==
  \A r \in Req : Answered(r) =>
    /\ r \in Range(pushed)
    /\ r \in Range(Newest(pushed)) => r \in IdsOf(ring["recent"])

(***************************************************************************)
(* No receipt is handed to two relayers, or again after it was drained:    *)
(* concurrent drains claim different rows, and a rolled-back claim leaves  *)
(* its rows where they were.                                               *)
(***************************************************************************)
ReceiptsOnce == IsInjective(drained \o (IF pg THEN rows ELSE queue))

(***************************************************************************)
(* A captured call that came with somebody's live token is shown to no     *)
(* other user: through the proxy, the ring, the table and its trims, and   *)
(* whatever happens meanwhile to the token or to the sessions.  A call     *)
(* whose token could not be looked up has no owner, and is shown to the    *)
(* sessions whose id token had no subject, and to nobody else.             *)
(***************************************************************************)
CapturedIsPrivate ==
  \A r \in DOMAIN minter : \A viewer \in Owner :
    <<viewer, r>> \in shown =>
      viewer = IF minter[r].found THEN minter[r].user ELSE ""

(***************************************************************************)
(* The only thing that can keep a permit for ever is a client that neither *)
(* reads nor leaves while its channel is full.                             *)
(***************************************************************************)
PermitsComeBack ==
  \A r \in Req : []<>(~Holding(r) \/ (req[r].client = "reads" /\ req[r].chan = ChanCap))
=============================================================================
