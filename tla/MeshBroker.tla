------------------------------ MODULE MeshBroker ------------------------------
(***************************************************************************)
(* The WebSocket broker of jkr-server (crates/jkr-server/src/broker.rs):   *)
(* enrollment over HTTP, one session task and one writer task per          *)
(* connection, and a routing table shared by all of them.                  *)
(*                                                                         *)
(* A session task reads its socket, and for every Send frame clones the    *)
(* recipient's channel sender out of the table and awaits room in that     *)
(* bounded channel.  The recipient's writer task empties the channel into  *)
(* its socket.  Every await is a step boundary here, so sessions, writers  *)
(* and clients interleave as the runtime may schedule them.                *)
(*                                                                         *)
(* Signatures, envelopes and clocks are abstracted to whether a check      *)
(* passes.  A frame carries the connection it was read from and its place  *)
(* in that connection's stream: no code reads them, properties do.         *)
(***************************************************************************)
EXTENDS Naturals, Sequences, FiniteSets, SequencesExt

CONSTANTS Mesh,       \* mesh ids
          Addr,       \* peer addresses
          Conn,       \* WebSocket connections, each used once
          NoConn,     \* no entry in the routing table
          NoAddr,     \* a session that has not authenticated
          PeerBuf,    \* capacity of a peer's channel (PEER_BUF)
          SockBuf,    \* frames a socket takes before a write waits
          MaxFrames,  \* MaxFrames[c]: frames c's client sends after its Hello,
                      \*   a model bound
          Reconnect   \* may an address open a second connection

ASSUME BrokerAssumption ==
  /\ PeerBuf \in Nat \ {0}
  /\ SockBuf \in Nat \ {0}
  /\ MaxFrames \in [Conn -> Nat]
  /\ Reconnect \in BOOLEAN
  /\ NoConn \notin Conn
  /\ NoAddr \notin Addr

VARIABLES members,  \* members[m]: addresses enrolled in mesh m
          peers,    \* peers[a]: the connection whose channel a's frames go to
          phase,    \* phase[c]: where connection c's session task is
          who,      \* who[c]: member.address of the session
          fwd,      \* fwd[c]: the push c's read loop awaits to enqueue, as a
                    \*   sequence of length at most one
          queue,    \* queue[c]: the channel into c's writer task
          writer,   \* writer[c]: the writer task
          up,       \* up[c]: frames on the wire from c's client
          down,     \* down[c]: frames on the wire to c's client
          client,   \* client[c]: the far end of the socket
          nsent,    \* nsent[c]: frames c's client sent after its Hello
          got       \* got[c]: pushes c's client has read

server == <<members, peers, phase, who, fwd, queue, writer>>
wire   == <<up, down, client, nsent, got>>
vars   == <<server, wire>>

-----------------------------------------------------------------------------
(* Frames. *)

HelloFrame == [kind: {"hello"}, mesh: Mesh, address: Addr, ok: BOOLEAN]
SendFrame  == [kind: {"send"}, to: Addr, n: Nat]
\* "other": a parsable frame the read loop ignores.  "bad": text that does
\* not parse.  "close": the WebSocket close message.
PlainFrame == [kind: {"other", "bad", "close"}]
UpFrame    == HelloFrame \cup SendFrame \cup PlainFrame

PushFrame  == [kind: {"push"}, from: Addr, to: Addr, src: Conn, n: Nat]
DownFrame  == PushFrame \cup [kind: {"ack", "error"}]
Forward    == [conn: Conn, push: PushFrame]

TypeOK ==
  /\ members \in [Mesh -> SUBSET Addr]
  /\ peers \in [Addr -> Conn \cup {NoConn}]
  /\ phase \in [Conn -> {"none", "hello", "acking", "acked", "open",
                         "draining", "ended"}]
  /\ who \in [Conn -> Addr \cup {NoAddr}]
  /\ fwd \in [Conn -> Seq(Forward)]
  /\ queue \in [Conn -> Seq(PushFrame)]
  /\ writer \in [Conn -> {"none", "running", "done"}]
  /\ up \in [Conn -> Seq(UpFrame)]
  /\ down \in [Conn -> Seq(DownFrame)]
  /\ client \in [Conn -> {"off", "open", "closed"}]
  /\ nsent \in [Conn -> Nat]
  /\ got \in [Conn -> Seq(PushFrame)]

Init ==
  /\ members = [m \in Mesh |-> {}]
  /\ peers = [a \in Addr |-> NoConn]
  /\ phase = [c \in Conn |-> "none"]
  /\ who = [c \in Conn |-> NoAddr]
  /\ fwd = [c \in Conn |-> <<>>]
  /\ queue = [c \in Conn |-> <<>>]
  /\ writer = [c \in Conn |-> "none"]
  /\ up = [c \in Conn |-> <<>>]
  /\ down = [c \in Conn |-> <<>>]
  /\ client = [c \in Conn |-> "off"]
  /\ nsent = [c \in Conn |-> 0]
  /\ got = [c \in Conn |-> <<>>]

-----------------------------------------------------------------------------
(* POST /api/v1/mesh/join *)

JoinRequest == [mesh: Mesh, invite_ok: BOOLEAN, address: Addr,
                att: [mesh: Mesh, address: Addr, ok: BOOLEAN]]

\* The invite verifies, and the attestation names this mesh and this address
\* and verifies against this invite token and the clock.
JoinAccepted(r) == /\ r.invite_ok
                   /\ r.att.mesh = r.mesh
                   /\ r.att.address = r.address
                   /\ r.att.ok

enroll(m, a) == members' = [members EXCEPT ![m] = @ \cup {a}]

HandleJoin(r) ==
  /\ JoinAccepted(r)
  /\ enroll(r.mesh, r.address)
  /\ UNCHANGED <<peers, phase, who, fwd, queue, writer, wire>>

-----------------------------------------------------------------------------
(* The session task: run_ws_session *)

Receive(c) == up' = [up EXCEPT ![c] = Tail(@)]

\* Step 1 to 3: the first frame is a Hello that verifies now and whose
\* address is enrolled in the mesh it names.
HelloOk(h) == h.kind = "hello" /\ h.ok /\ h.address \in members[h.mesh]

AcceptHello(c) ==
  /\ phase[c] = "hello" /\ up[c] # <<>> /\ HelloOk(Head(up[c]))
  /\ who' = [who EXCEPT ![c] = Head(up[c]).address]
  /\ phase' = [phase EXCEPT ![c] = "acking"]
  /\ Receive(c)
  /\ UNCHANGED <<members, peers, fwd, queue, writer, down, client, nsent, got>>

\* want_hello, bad_signature, stale_hello and not_a_member answer with an
\* Error frame; a frame that does not parse, a close and the end of the stream
\* end the session silently.
RejectHello(c) ==
  /\ phase[c] = "hello"
  /\ phase' = [phase EXCEPT ![c] = "ended"]
  /\ \/ /\ up[c] # <<>> /\ ~HelloOk(Head(up[c]))
        /\ Receive(c)
        /\ down' = IF Head(up[c]).kind \in {"bad", "close"} THEN down
                   ELSE [down EXCEPT ![c] = Append(@, [kind |-> "error"])]
     \/ /\ up[c] = <<>> /\ client[c] = "closed"
        /\ UNCHANGED <<up, down>>
  /\ UNCHANGED <<members, peers, who, fwd, queue, writer, client, nsent, got>>

\* Step 4: the Ack leaves before the peer is in the routing table.
SendAck(c) ==
  /\ phase[c] = "acking" /\ Len(down[c]) < SockBuf
  /\ phase' = [phase EXCEPT ![c] = "acked"]
  /\ down' = [down EXCEPT ![c] = Append(@, [kind |-> "ack"])]
  /\ UNCHANGED <<members, peers, who, fwd, queue, writer, up, client, nsent, got>>

AckFails(c) ==
  /\ phase[c] = "acking" /\ client[c] = "closed"
  /\ phase' = [phase EXCEPT ![c] = "ended"]
  /\ UNCHANGED <<members, peers, who, fwd, queue, writer, wire>>

\* Step 5: attach_peer overwrites the entry of an older connection.  Dropping
\* the sender it returns changes nothing for that older connection, whose
\* session task keeps a sender of its own.
attach_peer(a, c) == peers' = [peers EXCEPT ![a] = c]
detach_peer(a)    == peers' = [peers EXCEPT ![a] = NoConn]

\* Variant: the session opens without entering the table.
Attach_NoEntry(c) ==
  /\ phase[c] = "acked"
  /\ phase' = [phase EXCEPT ![c] = "open"]
  /\ writer' = [writer EXCEPT ![c] = "running"]
  /\ UNCHANGED <<members, peers, who, fwd, queue, wire>>

Attach(c) ==
  /\ phase[c] = "acked"
  /\ attach_peer(who[c], c)
  /\ phase' = [phase EXCEPT ![c] = "open"]
  /\ writer' = [writer EXCEPT ![c] = "running"]
  /\ UNCHANGED <<members, who, fwd, queue, wire>>

Reading(c) == phase[c] = "open" /\ fwd[c] = <<>> /\ up[c] # <<>>

\* Variant: the push is stamped before the session has authenticated.
MakePush_NoAddr(c, f) == [kind |-> "push", from |-> NoAddr, to |-> f.to,
                          src |-> c, n |-> f.n]

\* Variant: the push is stamped with the recipient.
MakePush_Swapped(c, f) == [kind |-> "push", from |-> f.to, to |-> f.to,
                           src |-> c, n |-> f.n]

MakePush(c, f) == [kind |-> "push", from |-> who[c], to |-> f.to,
                   src |-> c, n |-> f.n]

\* Step 6: route the recipient; offline means the frame is dropped.
RouteSend(c) ==
  /\ Reading(c) /\ Head(up[c]).kind = "send"
  /\ peers[Head(up[c]).to] # NoConn
  /\ fwd' = [fwd EXCEPT ![c] = <<[conn |-> peers[Head(up[c]).to],
                                  push |-> MakePush(c, Head(up[c]))]>>]
  /\ Receive(c)
  /\ UNCHANGED <<members, peers, phase, who, queue, writer, down, client,
                 nsent, got>>

DropSend(c) ==
  /\ Reading(c) /\ Head(up[c]).kind = "send"
  /\ peers[Head(up[c]).to] = NoConn
  /\ Receive(c)
  /\ UNCHANGED <<server, down, client, nsent, got>>

IgnoreFrame(c) ==
  /\ Reading(c) /\ Head(up[c]).kind \in {"other", "hello"}
  /\ Receive(c)
  /\ UNCHANGED <<server, down, client, nsent, got>>

\* Variant: a push stays pending after it was enqueued, as a retry would.
Enqueue_Again(c) ==
  /\ fwd[c] # <<>>
  /\ LET t == fwd[c][1].conn IN
       /\ writer[t] = "running" /\ Len(queue[t]) < PeerBuf
       /\ queue' = [queue EXCEPT ![t] = Append(@, fwd[c][1].push)]
  /\ fwd' \in {fwd, [fwd EXCEPT ![c] = <<>>]}
  /\ UNCHANGED <<members, peers, phase, who, writer, wire>>

\* Variant: a channel whose receiver is gone is waited on like a full one.
Enqueue_NoError(c) ==
  /\ fwd[c] # <<>>
  /\ LET t == fwd[c][1].conn IN
       /\ writer[t] = "running" /\ Len(queue[t]) < PeerBuf
       /\ queue' = [queue EXCEPT ![t] = Append(@, fwd[c][1].push)]
  /\ fwd' = [fwd EXCEPT ![c] = <<>>]
  /\ UNCHANGED <<members, peers, phase, who, writer, wire>>

\* target.send(push).await: waits for room; fails at once, and the push is
\* lost, when the writer task has dropped the receiver.
Enqueue(c) ==
  /\ fwd[c] # <<>>
  /\ LET t == fwd[c][1].conn IN
     \/ /\ writer[t] = "running" /\ Len(queue[t]) < PeerBuf
        /\ queue' = [queue EXCEPT ![t] = Append(@, fwd[c][1].push)]
     \/ /\ writer[t] = "done"
        /\ UNCHANGED queue
  /\ fwd' = [fwd EXCEPT ![c] = <<>>]
  /\ UNCHANGED <<members, peers, phase, who, writer, wire>>

\* Variant: the cleanup forgets the table.
EndRead_KeepsEntry(c) ==
  /\ phase[c] = "open" /\ fwd[c] = <<>>
  /\ up[c] # <<>> /\ Head(up[c]).kind \in {"bad", "close"}
  /\ Receive(c)
  /\ phase' = [phase EXCEPT ![c] = "draining"]
  /\ UNCHANGED <<members, peers, who, fwd, queue, writer, down, client, nsent, got>>

\* The read loop ends on a close, on text that does not parse, or on the end
\* of the stream; the cleanup removes the entry by address.
EndRead(c) ==
  /\ phase[c] = "open" /\ fwd[c] = <<>>
  /\ \/ /\ up[c] # <<>> /\ Head(up[c]).kind \in {"bad", "close"}
        /\ Receive(c)
     \/ /\ up[c] = <<>> /\ client[c] = "closed"
        /\ UNCHANGED up
  /\ detach_peer(who[c])
  /\ phase' = [phase EXCEPT ![c] = "draining"]
  /\ UNCHANGED <<members, who, fwd, queue, writer, down, client, nsent, got>>

\* writer.await, then the function returns and the socket is dropped.
JoinWriter(c) ==
  /\ phase[c] = "draining" /\ writer[c] = "done"
  /\ phase' = [phase EXCEPT ![c] = "ended"]
  /\ UNCHANGED <<members, peers, who, fwd, queue, writer, wire>>

-----------------------------------------------------------------------------
(* The writer task.  Its recv() yields None only once every sender is gone, *)
(* and run_ws_session holds one until it returns, which is after it has     *)
(* awaited this task: the only way out is a write that fails.               *)

WriterSend(c) ==
  /\ writer[c] = "running" /\ queue[c] # <<>> /\ Len(down[c]) < SockBuf
  /\ queue' = [queue EXCEPT ![c] = Tail(@)]
  /\ down' = [down EXCEPT ![c] = Append(@, Head(queue[c]))]
  /\ UNCHANGED <<members, peers, phase, who, fwd, writer, up, client, nsent, got>>

\* What the channel still holds is dropped with the receiver.
WriterFails(c) ==
  /\ writer[c] = "running" /\ queue[c] # <<>> /\ client[c] = "closed"
  /\ writer' = [writer EXCEPT ![c] = "done"]
  /\ queue' = [queue EXCEPT ![c] = <<>>]
  /\ UNCHANGED <<members, peers, phase, who, fwd, wire>>

-----------------------------------------------------------------------------
(* Clients, as far as the broker can tell: they say Hello, send frames,     *)
(* read, and close, the last with or without a close message.  Some do not  *)
(* begin with a Hello, and then none of them is accepted.                   *)

Claimed(a) == \E c \in Conn : who[c] = a \/ \E i \in DOMAIN up[c] :
                /\ up[c][i].kind = "hello" /\ up[c][i].address = a

ClientHello(c, h) ==
  /\ client[c] = "off"
  /\ Reconnect \/ ~Claimed(h.address)
  /\ client' = [client EXCEPT ![c] = "open"]
  /\ phase' = [phase EXCEPT ![c] = "hello"]
  /\ up' = [up EXCEPT ![c] = <<h>>]
  /\ UNCHANGED <<members, peers, who, fwd, queue, writer, down, nsent, got>>

ClientOpens(c) ==
  /\ client[c] = "off"
  /\ client' = [client EXCEPT ![c] = "open"]
  /\ phase' = [phase EXCEPT ![c] = "hello"]
  /\ UNCHANGED <<members, peers, who, fwd, queue, writer, up, down, nsent, got>>

Put(c, f) ==
  /\ client[c] = "open" /\ nsent[c] < MaxFrames[c]
  /\ nsent' = [nsent EXCEPT ![c] = @ + 1]
  /\ up' = [up EXCEPT ![c] = Append(@, f)]
  /\ UNCHANGED <<server, down, client, got>>

ClientSend(c, a) == Put(c, [kind |-> "send", to |-> a, n |-> nsent[c] + 1])
ClientMisc(c, k) == Put(c, [kind |-> k])

ClientRead(c) ==
  /\ client[c] = "open" /\ down[c] # <<>>
  /\ down' = [down EXCEPT ![c] = Tail(@)]
  /\ got' = IF Head(down[c]).kind = "push"
            THEN [got EXCEPT ![c] = Append(@, Head(down[c]))] ELSE got
  /\ UNCHANGED <<server, up, client, nsent>>

ClientClose(c) ==
  /\ client[c] = "open"
  /\ client' = [client EXCEPT ![c] = "closed"]
  /\ up' \in {up, [up EXCEPT ![c] = Append(@, [kind |-> "close"])]}
  /\ UNCHANGED <<server, down, nsent, got>>

-----------------------------------------------------------------------------

Session(c) == \/ AcceptHello(c) \/ RejectHello(c) \/ SendAck(c) \/ AckFails(c)
              \/ Attach(c) \/ RouteSend(c) \/ DropSend(c) \/ IgnoreFrame(c)
              \/ Enqueue(c) \/ EndRead(c) \/ JoinWriter(c)

Writer(c) == WriterSend(c) \/ WriterFails(c)

Client(c) == \/ \E h \in HelloFrame : ClientHello(c, h)
             \/ ClientOpens(c)
             \/ \E a \in Addr : ClientSend(c, a)
             \/ \E k \in {"other", "bad"} : ClientMisc(c, k)
             \/ ClientRead(c)
             \/ ClientClose(c)

Next == \/ \E r \in JoinRequest : HandleJoin(r)
        \/ \E c \in Conn : Session(c) \/ Writer(c) \/ Client(c)

Spec == Init /\ [][Next]_vars

\* The runtime keeps polling every task that can make progress.  Nothing is
\* assumed of clients here: they may stop reading or never close.
ServerFairness == \A c \in Conn : WF_vars(Session(c)) /\ WF_vars(Writer(c))
FairSpec == Spec /\ ServerFairness

\* The same with clients that keep reading what arrives.
ReadingSpec == FairSpec /\ \A c \in Conn : WF_vars(ClientRead(c))

-----------------------------------------------------------------------------
(* Properties *)

\* The routing table only names connections whose session is still reading and
\* whose authenticated address is the entry's: no frame is ever routed to a
\* channel that has been torn down, or to another peer's channel.
RoutesAreLive ==
  \A a \in Addr : peers[a] # NoConn =>
    /\ phase[peers[a]] = "open"
    /\ who[peers[a]] = a
    /\ writer[peers[a]] # "none"

IsPush(f) == f.kind = "push"

\* The pushes connection c's client has read, has on the wire, or has waiting
\* in its channel.
Held(c) == ToSet(got[c]) \cup ToSet(queue[c]) \cup {f \in ToSet(down[c]) : IsPush(f)}

\* Whatever a peer holds, is being sent or has read was addressed to it and is
\* stamped with the address the sending session authenticated, although the
\* entry the sender was cloned from may have been replaced or removed since.
PushesAreAddressed ==
  \A c \in Conn :
    /\ \A p \in Held(c) : p.to = who[c] /\ p.from = who[p.src]
    /\ \A w \in ToSet(fwd[c]) :
         w.push.to = who[w.conn] /\ w.push.from = who[c]

\* The same pushes in the order the client reads them, with the few frames of
\* other kinds among them.
Pipe(c) == got[c] \o down[c] \o queue[c]

\* Of two pushes of one session the one sent first comes first.
Earlier(p, q) == (IsPush(p) /\ IsPush(q) /\ p.src = q.src) => p.n < q.n
InSendOrder(s) == \A i, j \in DOMAIN s : i < j => Earlier(s[i], s[j])

\* A connection receives one sender's frames in the order they were sent and
\* each at most once: awaiting the channel inside the read loop is what keeps
\* a later frame from overtaking one that waits for room.
PerSenderOrder == \A c \in Conn : InSendOrder(Pipe(c))

\* The module comment: "Send frames are forwarded as Push to the recipient
\* address if connected (silently dropped if offline)".  A Send is not
\* discarded while its recipient is in an open session, unless a second
\* connection of that recipient has come in (see HandoffSurvivesCleanup).
OnlySession(d) == phase[d] = "open" /\ \A e \in Conn \ {d} : who[e] # who[d]
DroppedOnlyIfOffline ==
  [][\A c \in Conn : DropSend(c) =>
       \A d \in Conn : ~(who[d] = Head(up[c]).to /\ OnlySession(d))]_vars

\* The comment on the replaced entry: "Older connection for the same peer -
\* drop it (graceful handoff)".  After the handoff, the end of the older
\* connection leaves the newer one in the routing table.
HandoffSurvivesCleanup ==
  [][\A c \in Conn : (EndRead(c) /\ peers[who[c]] # c) =>
       peers'[who[c]] = peers[who[c]]]_vars

\* When clients keep reading, no read loop waits for ever on a peer's channel.
ForwardCompletes == \A c \in Conn : fwd[c] # <<>> ~> fwd[c] = <<>>

=============================================================================
