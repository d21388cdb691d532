-------------------------- MODULE MeshBroker_proofs --------------------------
(***************************************************************************)
(* Invariants of MeshBroker for any number of meshes, addresses and        *)
(* connections, any channel and socket capacity.                           *)
(***************************************************************************)
EXTENDS MeshBroker, TLAPS

(* Appending adds one element; Head and Tail take elements away.           *)
LEMMA AppendElems ==
  ASSUME NEW S, NEW s \in Seq(S), NEW x \in S
  PROVE  ToSet(Append(s, x)) = ToSet(s) \cup {x}
<1>1. /\ DOMAIN Append(s, x) = 1..(Len(s) + 1)
      /\ \A i \in 1..Len(s) : Append(s, x)[i] = s[i]
      /\ Append(s, x)[Len(s) + 1] = x
      /\ DOMAIN s = 1..Len(s)
      /\ Len(s) \in Nat
  OBVIOUS
<1>2. ToSet(s) \cup {x} \subseteq ToSet(Append(s, x))
  BY <1>1 DEF ToSet
<1>3. ASSUME NEW i \in 1..(Len(s) + 1)
      PROVE  Append(s, x)[i] \in ToSet(s) \cup {x}
  <2>1. CASE i = Len(s) + 1
    BY <2>1, <1>1
  <2>2. CASE i # Len(s) + 1
    <3>1. i \in 1..Len(s)
      BY <2>2, <1>1
    <3>2. QED
      BY <3>1, <1>1 DEF ToSet
  <2>3. QED
    BY <2>1, <2>2
<1>4. QED
  BY <1>1, <1>2, <1>3 DEF ToSet

LEMMA TailElems ==
  ASSUME NEW S, NEW s \in Seq(S), s # <<>>
  PROVE  /\ ToSet(Tail(s)) \subseteq ToSet(s)
         /\ Head(s) \in ToSet(s)
         /\ Head(s) \in S
         /\ Tail(s) \in Seq(S)
BY DEF ToSet

LEMMA ElemsTyped ==
  ASSUME NEW S, NEW s \in Seq(S)
  PROVE  ToSet(s) \subseteq S
BY DEF ToSet

LEMMA NoElems == ToSet(<<>>) = {}
BY DEF ToSet

(* The frames a client may put on the wire, and what the kind of a frame   *)
(* tells about its other fields.                                           *)
LEMMA Frames ==
  /\ \A h \in HelloFrame : h \in UpFrame
  /\ \A a \in Addr, n \in Nat : [kind |-> "send", to |-> a, n |-> n] \in UpFrame
  /\ \A k \in {"other", "bad", "close"} : [kind |-> k] \in UpFrame
  /\ \A k \in {"ack", "error"} : [kind |-> k] \in DownFrame
  /\ \A p \in PushFrame : p \in DownFrame
BY DEF UpFrame, HelloFrame, SendFrame, PlainFrame, DownFrame, PushFrame

LEMMA Kinds ==
  /\ \A f \in UpFrame : f.kind = "hello" => f \in HelloFrame
  /\ \A f \in UpFrame : f.kind = "send" => f \in SendFrame
  /\ \A f \in DownFrame : f.kind = "push" <=> f \in PushFrame
BY DEF UpFrame, HelloFrame, SendFrame, PlainFrame, DownFrame, PushFrame

-----------------------------------------------------------------------------
(* A session past its Hello has an address, and a connection that has not  *)
(* been opened has no session: with these the types are inductive.         *)
Authenticated ==
  /\ \A c \in Conn : phase[c] \in {"acking", "acked", "open", "draining"}
                       => who[c] \in Addr
  /\ \A c \in Conn : client[c] = "off" => phase[c] = "none"

Base == TypeOK /\ Authenticated

LEMMA BaseSession ==
  ASSUME Base, NEW c \in Conn, Session(c)
  PROVE  Base'
<1> USE DEF Base, TypeOK, Authenticated
<1>1. CASE AcceptHello(c)
  <2>1. Head(up[c]) \in HelloFrame /\ Tail(up[c]) \in Seq(UpFrame)
    BY <1>1, TailElems, Kinds DEF AcceptHello, HelloOk
  <2>2. Head(up[c]).address \in Addr
    BY <2>1 DEF HelloFrame
  <2>3. QED
    BY <1>1, <2>1, <2>2 DEF AcceptHello, Receive
<1>2. CASE RejectHello(c)
  <2>1. up' \in {up, [up EXCEPT ![c] = Tail(up[c])]} /\ (up' # up => up[c] # <<>>)
    BY <1>2 DEF RejectHello, Receive
  <2>2. down' \in {down, [down EXCEPT ![c] = Append(down[c], [kind |-> "error"])]}
    BY <1>2 DEF RejectHello
  <2>3. up' \in [Conn -> Seq(UpFrame)]
    <3>1. up[c] # <<>> => Tail(up[c]) \in Seq(UpFrame)
      BY TailElems
    <3>2. QED
      BY <2>1, <3>1
  <2>4. down' \in [Conn -> Seq(DownFrame)]
    <3>1. Append(down[c], [kind |-> "error"]) \in Seq(DownFrame)
      BY Frames
    <3>2. QED
      BY <2>2, <3>1
  <2>5. QED
    BY <1>2, <2>3, <2>4 DEF RejectHello
<1>3. CASE SendAck(c)
  BY <1>3, Frames DEF SendAck
<1>4. CASE AckFails(c)
  BY <1>4 DEF AckFails, wire
<1>5. CASE Attach(c)
  BY <1>5 DEF Attach, attach_peer, wire
<1>6. CASE RouteSend(c)
  <2>1. Head(up[c]) \in SendFrame /\ Tail(up[c]) \in Seq(UpFrame)
    BY <1>6, TailElems, Kinds DEF RouteSend, Reading
  <2>2. MakePush(c, Head(up[c])) \in PushFrame
    BY <1>6, <2>1 DEF RouteSend, Reading, MakePush, PushFrame, SendFrame
  <2>3. peers[Head(up[c]).to] \in Conn
    BY <1>6, <2>1 DEF RouteSend, SendFrame
  <2>4. [conn |-> peers[Head(up[c]).to], push |-> MakePush(c, Head(up[c]))] \in Forward
    BY <2>2, <2>3 DEF Forward
  <2>5. up' \in [Conn -> Seq(UpFrame)]
    BY <1>6, <2>1 DEF RouteSend, Receive
  <2>6. fwd' \in [Conn -> Seq(Forward)]
    <3>1. <<[conn |-> peers[Head(up[c]).to], push |-> MakePush(c, Head(up[c]))]>>
            \in Seq(Forward)
      BY <2>4
    <3>2. QED
      BY <1>6, <3>1 DEF RouteSend
  <2>7. QED
    BY <1>6, <2>5, <2>6 DEF RouteSend
<1>7. CASE DropSend(c)
  BY <1>7, TailElems DEF DropSend, Receive, Reading, server
<1>8. CASE IgnoreFrame(c)
  BY <1>8, TailElems DEF IgnoreFrame, Receive, Reading, server
<1>9. CASE Enqueue(c)
  <2> DEFINE t == fwd[c][1].conn
             p == fwd[c][1].push
  <2>1. fwd[c] \in Seq(Forward) /\ fwd[c] # <<>>
    BY <1>9 DEF Enqueue
  <2>2. fwd[c][1] \in Forward
    BY <2>1
  <2>3. t \in Conn /\ p \in PushFrame
    BY <2>2 DEF Forward
  <2>4. [queue EXCEPT ![t] = Append(@, p)] \in [Conn -> Seq(PushFrame)]
    BY <2>3
  <2>5. queue' \in [Conn -> Seq(PushFrame)]
    BY <1>9, <2>4 DEF Enqueue
  <2>6. fwd' \in [Conn -> Seq(Forward)]
    BY <1>9 DEF Enqueue
  <2>7. QED
    BY <1>9, <2>5, <2>6 DEF Enqueue, wire
<1>10. CASE EndRead(c)
  <2>1. CASE up[c] # <<>>
    <3>1. Tail(up[c]) \in Seq(UpFrame)
      BY <2>1, TailElems
    <3>2. up' \in {up, [up EXCEPT ![c] = Tail(@)]}
      BY <1>10 DEF EndRead, Receive
    <3>3. up' \in [Conn -> Seq(UpFrame)]
      BY <3>1, <3>2
    <3>4. QED
      BY <1>10, <3>3 DEF EndRead, detach_peer
  <2>2. CASE up[c] = <<>>
    BY <1>10, <2>2 DEF EndRead, detach_peer
  <2>3. QED
    BY <2>1, <2>2
<1>11. CASE JoinWriter(c)
  BY <1>11 DEF JoinWriter, wire
<1>12. QED
  BY <1>1, <1>2, <1>3, <1>4, <1>5, <1>6, <1>7, <1>8, <1>9, <1>10, <1>11 DEF Session

(* A client puts a frame on the wire.                                      *)
LEMMA BasePut ==
  ASSUME Base, NEW c \in Conn, NEW f \in UpFrame, Put(c, f)
  PROVE  Base'
<1> USE DEF Base, TypeOK, Authenticated
<1>1. nsent' \in [Conn -> Nat]
  BY DEF Put
<1>2. Append(up[c], f) \in Seq(UpFrame)
  OBVIOUS
<1>3. up' \in [Conn -> Seq(UpFrame)]
  BY <1>2 DEF Put
<1>4. UNCHANGED <<members, peers, phase, who, fwd, queue, writer, down, client, got>>
  BY DEF Put, server
<1>5. QED
  BY <1>1, <1>3, <1>4

LEMMA BaseSend ==
  ASSUME Base, NEW c \in Conn, NEW a \in Addr, ClientSend(c, a)
  PROVE  Base'
<1>1. nsent[c] + 1 \in Nat
  BY DEF Base, TypeOK
<1>2. [kind |-> "send", to |-> a, n |-> nsent[c] + 1] \in UpFrame
  BY <1>1, Frames
<1>3. QED
  BY <1>2, BasePut DEF ClientSend

LEMMA BaseMisc ==
  ASSUME Base, NEW c \in Conn, NEW k \in {"other", "bad"}, ClientMisc(c, k)
  PROVE  Base'
<1>1. [kind |-> k] \in UpFrame
  BY Frames
<1>2. QED
  BY <1>1, BasePut DEF ClientMisc

LEMMA BaseClient ==
  ASSUME Base, NEW c \in Conn, Client(c)
  PROVE  Base'
<1> USE DEF Base, TypeOK, Authenticated
<1>1. ASSUME NEW h \in HelloFrame, ClientHello(c, h) PROVE Base'
  BY <1>1, Frames DEF ClientHello
<1>2. ASSUME NEW a \in Addr, ClientSend(c, a) PROVE Base'
  BY <1>2, BaseSend
<1>3. ASSUME NEW k \in {"other", "bad"}, ClientMisc(c, k) PROVE Base'
  BY <1>3, BaseMisc
<1>4. CASE ClientRead(c)
  <2>1. Head(down[c]) \in DownFrame /\ Tail(down[c]) \in Seq(DownFrame)
    BY <1>4, TailElems DEF ClientRead
  <2>2. got' \in [Conn -> Seq(PushFrame)]
    BY <1>4, <2>1, Kinds DEF ClientRead
  <2>3. QED
    BY <1>4, <2>1, <2>2 DEF ClientRead, server
<1>5. CASE ClientClose(c)
  <2>1. Append(up[c], [kind |-> "close"]) \in Seq(UpFrame)
    BY Frames
  <2>2. up' \in [Conn -> Seq(UpFrame)]
    BY <1>5, <2>1 DEF ClientClose
  <2>3. QED
    BY <1>5, <2>2 DEF ClientClose, server
<1>6. CASE ClientOpens(c)
  BY <1>6 DEF ClientOpens
<1>7. QED
  BY <1>1, <1>2, <1>3, <1>4, <1>5, <1>6 DEF Client

LEMMA BaseStep == Base /\ [Next]_vars => Base'
<1> SUFFICES ASSUME Base, [Next]_vars PROVE Base'
  OBVIOUS
<1>1. ASSUME NEW r \in JoinRequest, HandleJoin(r) PROVE Base'
  BY <1>1 DEF HandleJoin, enroll, JoinRequest, wire, Base, TypeOK, Authenticated
<1>2. ASSUME NEW c \in Conn, WriterSend(c) PROVE Base'
  BY <1>2, Frames, TailElems DEF WriterSend, Base, TypeOK, Authenticated
<1>3. ASSUME NEW c \in Conn, WriterFails(c) PROVE Base'
  BY <1>3 DEF WriterFails, wire, Base, TypeOK, Authenticated
<1>4. CASE UNCHANGED vars
  BY <1>4 DEF vars, server, wire, Base, TypeOK, Authenticated
<1>5. QED
  BY <1>1, <1>2, <1>3, <1>4, BaseSession, BaseClient DEF Next, Writer

LEMMA BaseInvariant == Spec => []Base
<1>1. Init => Base
  BY BrokerAssumption DEF Init, Base, TypeOK, Authenticated
<1>2. QED
  BY <1>1, BaseStep, PTL DEF Spec

(* Every variable of the broker keeps its type: in particular no push is   *)
(* ever built by a session that has not authenticated an address.          *)
THEOREM TypeCorrect == Spec => []TypeOK
BY BaseInvariant, PTL DEF Base

-----------------------------------------------------------------------------
(* The routing table only names sessions that are still reading, although  *)
(* entries are overwritten by newer connections and removed by address.    *)
LEMMA RoutesStep == Base /\ RoutesAreLive /\ [Next]_vars => RoutesAreLive'
<1> SUFFICES ASSUME Base, RoutesAreLive, [Next]_vars PROVE RoutesAreLive'
  OBVIOUS
<1> USE DEF Base, TypeOK, RoutesAreLive
<1>1. ASSUME NEW r \in JoinRequest, HandleJoin(r) PROVE RoutesAreLive'
  BY <1>1 DEF HandleJoin, enroll
<1>2. ASSUME NEW c \in Conn, Session(c) PROVE RoutesAreLive'
  <2>1. CASE AcceptHello(c)
    BY <2>1 DEF AcceptHello
  <2>2. CASE RejectHello(c)
    BY <2>2 DEF RejectHello
  <2>3. CASE SendAck(c)
    BY <2>3 DEF SendAck
  <2>4. CASE AckFails(c)
    BY <2>4 DEF AckFails
  <2>5. CASE Attach(c)
    BY <2>5 DEF Attach, attach_peer
  <2>6. CASE RouteSend(c) \/ DropSend(c) \/ IgnoreFrame(c) \/ Enqueue(c)
    BY <2>6 DEF RouteSend, DropSend, IgnoreFrame, Enqueue, server
  <2>7. CASE EndRead(c)
    BY <2>7, BrokerAssumption DEF EndRead, detach_peer
  <2>8. CASE JoinWriter(c)
    BY <2>8 DEF JoinWriter
  <2>9. QED
    BY <1>2, <2>1, <2>2, <2>3, <2>4, <2>5, <2>6, <2>7, <2>8 DEF Session
<1>3. ASSUME NEW c \in Conn, Writer(c) PROVE RoutesAreLive'
  BY <1>3 DEF Writer, WriterSend, WriterFails
<1>4. ASSUME NEW c \in Conn, Client(c) PROVE RoutesAreLive'
  <2>1. ASSUME NEW h \in HelloFrame, ClientHello(c, h) PROVE RoutesAreLive'
    BY <2>1 DEF ClientHello, Authenticated
  <2>2. CASE ClientOpens(c)
    BY <2>2 DEF ClientOpens, Authenticated
  <2>3. CASE UNCHANGED server
    BY <2>3 DEF server
  <2>4. QED
    BY <1>4, <2>1, <2>2, <2>3 DEF Client, ClientSend, ClientMisc, Put, ClientRead, ClientClose
<1>5. CASE UNCHANGED vars
  BY <1>5 DEF vars, server
<1>6. QED
  BY <1>1, <1>2, <1>3, <1>4, <1>5 DEF Next

(* No frame is routed to a channel that was torn down or to another peer.  *)
THEOREM RoutesCorrect == Spec => []RoutesAreLive
<1>1. Init => RoutesAreLive
  BY DEF Init, RoutesAreLive
<1>2. QED
  BY <1>1, RoutesStep, BaseInvariant, PTL DEF Spec

-----------------------------------------------------------------------------
(* A push travels between sessions that have both passed their Hello, so   *)
(* the addresses it carries can no longer change under it.                 *)
PastHello(c) == phase[c] \notin {"none", "hello"}

Sent(p, c) == /\ p.to = who[c] /\ p.from = who[p.src]
              /\ PastHello(c) /\ PastHello(p.src)

Traced ==
  \A c \in Conn :
    /\ \A p \in Held(c) : Sent(p, c)
    /\ \A w \in ToSet(fwd[c]) : Sent(w.push, w.conn) /\ w.push.src = c

LEMMA WhoIsStable ==
  ASSUME Base, [Next]_vars, NEW c \in Conn, PastHello(c)
  PROVE  PastHello(c)' /\ who'[c] = who[c]
<1> USE DEF PastHello, Base, TypeOK, Authenticated
<1>1. ASSUME NEW r \in JoinRequest, HandleJoin(r) PROVE PastHello(c)' /\ who'[c] = who[c]
  BY <1>1 DEF HandleJoin
<1>2. ASSUME NEW d \in Conn, Session(d) PROVE PastHello(c)' /\ who'[c] = who[c]
  BY <1>2 DEF Session, AcceptHello, RejectHello, SendAck, AckFails, Attach, RouteSend,
              DropSend, IgnoreFrame, Enqueue, EndRead, JoinWriter, server
<1>3. ASSUME NEW d \in Conn, Writer(d) PROVE PastHello(c)' /\ who'[c] = who[c]
  BY <1>3 DEF Writer, WriterSend, WriterFails
<1>4. ASSUME NEW d \in Conn, Client(d) PROVE PastHello(c)' /\ who'[c] = who[c]
  BY <1>4 DEF Client, ClientHello, ClientOpens, ClientSend, ClientMisc, Put, ClientRead,
              ClientClose, server
<1>5. CASE UNCHANGED vars
  BY <1>5 DEF vars, server
<1>6. QED
  BY <1>1, <1>2, <1>3, <1>4, <1>5 DEF Next

LEMMA SentIsStable ==
  ASSUME Base, [Next]_vars, NEW c \in Conn, NEW p \in PushFrame, Sent(p, c)
  PROVE  Sent(p, c)'
<1>1. p.src \in Conn
  BY DEF PushFrame
<1>2. QED
  BY <1>1, WhoIsStable DEF Sent

LEMMA HeldTyped == ASSUME TypeOK, NEW c \in Conn
                   PROVE  Held(c) \subseteq PushFrame
<1>1. /\ got[c] \in Seq(PushFrame) /\ queue[c] \in Seq(PushFrame)
      /\ down[c] \in Seq(DownFrame)
  BY DEF TypeOK
<1>2. QED
  BY <1>1, ElemsTyped, Kinds DEF Held, IsPush

LEMMA PendingTyped == ASSUME TypeOK, NEW c \in Conn
                      PROVE  ToSet(fwd[c]) \subseteq Forward
BY ElemsTyped DEF TypeOK

(* What a connection holds only grows when a session enqueues a push that  *)
(* was pending for it.                                                     *)
Arrives(c, q) ==
  \E d \in Conn : Enqueue(d) /\ \E w \in ToSet(fwd[d]) : w.conn = c /\ q = w.push

LEMMA HeldStep ==
  ASSUME Base, [Next]_vars, NEW c \in Conn, NEW q \in Held(c)', q \notin Held(c)
  PROVE  Arrives(c, q)
<1> USE DEF Base
<1>1. CASE UNCHANGED <<got, queue, down>>
  BY <1>1 DEF Held
<1>2. ASSUME NEW d \in Conn, RejectHello(d) \/ SendAck(d) PROVE FALSE
  <2>1. PICK k \in {"ack", "error"} :
          \/ down' = down
          \/ down' = [down EXCEPT ![d] = Append(@, [kind |-> k])]
    BY <1>2 DEF RejectHello, SendAck
  <2>2. UNCHANGED <<got, queue>>
    BY <1>2 DEF RejectHello, SendAck
  <2>3. ToSet(down'[c]) \subseteq ToSet(down[c]) \cup {[kind |-> k]}
    <3>1. down[c] \in Seq(DownFrame) /\ [kind |-> k] \in DownFrame
      BY Frames DEF TypeOK
    <3>2. down'[c] \in {down[c], Append(down[c], [kind |-> k])}
      BY <2>1 DEF TypeOK
    <3>3. QED
      BY <3>1, <3>2, AppendElems
  <2>4. QED
    BY <2>2, <2>3 DEF Held, IsPush
<1>3. ASSUME NEW d \in Conn, Enqueue(d) PROVE Arrives(c, q)
  <2> DEFINE t == fwd[d][1].conn
             p == fwd[d][1].push
  <2>1. fwd[d] \in Seq(Forward) /\ fwd[d] # <<>>
    BY <1>3 DEF Enqueue, TypeOK
  <2>2. fwd[d][1] \in Forward /\ fwd[d][1] \in ToSet(fwd[d])
    BY <2>1 DEF ToSet
  <2>3. t \in Conn /\ p \in PushFrame
    BY <2>2 DEF Forward
  <2>4. queue' \in {queue, [queue EXCEPT ![t] = Append(@, p)]}
    BY <1>3 DEF Enqueue
  <2>5. ToSet(queue'[c]) \subseteq ToSet(queue[c]) \cup (IF c = t THEN {p} ELSE {})
    <3>1. queue[c] \in Seq(PushFrame)
      BY DEF TypeOK
    <3>2. queue'[c] = queue[c] \/ (c = t /\ queue'[c] = Append(queue[c], p))
      <4>1. queue \in [Conn -> Seq(PushFrame)]
        BY DEF TypeOK
      <4>2. CASE queue' = queue
        BY <4>2
      <4>3. CASE queue' = [queue EXCEPT ![t] = Append(queue[t], p)]
        BY <4>1, <4>3, <2>3
      <4>4. QED
        BY <2>4, <4>2, <4>3
    <3>3. ToSet(Append(queue[c], p)) = ToSet(queue[c]) \cup {p}
      BY <2>3, <3>1, AppendElems
    <3>4. QED
      BY <3>2, <3>3
  <2>6. UNCHANGED <<got, down>>
    BY <1>3 DEF Enqueue, wire
  <2>7. c = t /\ q = p
    BY <2>5, <2>6 DEF Held
  <2>8. QED
    BY <1>3, <2>2, <2>7 DEF Arrives
<1>4. ASSUME NEW d \in Conn, WriterSend(d) PROVE FALSE
  <2>1. queue[d] \in Seq(PushFrame) /\ queue[d] # <<>>
    BY <1>4 DEF WriterSend, TypeOK
  <2>2. ToSet(queue'[c]) \subseteq ToSet(queue[c])
    BY <1>4, <2>1, TailElems DEF WriterSend, TypeOK
  <2>3. ToSet(down'[c]) \subseteq ToSet(down[c]) \cup (IF c = d THEN ToSet(queue[c]) ELSE {})
    BY <1>4, <2>1, TailElems, AppendElems, Frames DEF WriterSend, TypeOK
  <2>4. UNCHANGED got
    BY <1>4 DEF WriterSend
  <2>5. QED
    BY <2>2, <2>3, <2>4 DEF Held
<1>5. ASSUME NEW d \in Conn, WriterFails(d) PROVE FALSE
  <2>1. ToSet(queue'[c]) \subseteq ToSet(queue[c])
    BY <1>5, NoElems DEF WriterFails, TypeOK
  <2>2. QED
    BY <1>5, <2>1 DEF WriterFails, wire, Held
<1>6. ASSUME NEW d \in Conn, ClientRead(d) PROVE FALSE
  <2>1. down[d] \in Seq(DownFrame) /\ down[d] # <<>> /\ got[d] \in Seq(PushFrame)
    BY <1>6 DEF ClientRead, TypeOK
  <2>2. ToSet(down'[c]) \subseteq ToSet(down[c])
    BY <1>6, <2>1, TailElems, SMTT(20) DEF ClientRead, TypeOK
  <2>3. ToSet(got'[c]) \subseteq ToSet(got[c]) \cup {f \in ToSet(down[c]) : IsPush(f)}
    <3>1. CASE Head(down[d]).kind = "push"
      <4>1. Head(down[d]) \in PushFrame /\ Head(down[d]) \in ToSet(down[d])
        BY <2>1, <3>1, TailElems, Kinds
      <4>2. ToSet(Append(got[d], Head(down[d]))) = ToSet(got[d]) \cup {Head(down[d])}
        BY <2>1, <4>1, AppendElems
      <4>3. QED
        BY <1>6, <3>1, <4>1, <4>2 DEF ClientRead, TypeOK, IsPush
    <3>2. CASE Head(down[d]).kind # "push"
      BY <1>6, <3>2 DEF ClientRead
    <3>3. QED
      BY <3>1, <3>2
  <2>4. UNCHANGED queue
    BY <1>6 DEF ClientRead, server
  <2>5. QED
    BY <2>2, <2>3, <2>4 DEF Held
<1>7. QED
  BY <1>1, <1>2, <1>3, <1>4, <1>5, <1>6
  DEF Next, HandleJoin, Session, Writer, Client, AcceptHello, AckFails, Attach, RouteSend,
      DropSend, IgnoreFrame, EndRead, JoinWriter, ClientHello, ClientOpens, ClientSend,
      ClientMisc, Put, ClientClose, wire, server, vars

(* Only RouteSend makes a push pending, for a connection that reads.       *)
LEMMA PendingStep ==
  ASSUME Base, RoutesAreLive, [Next]_vars, NEW c \in Conn,
         NEW w \in ToSet(fwd'[c]), w \notin ToSet(fwd[c])
  PROVE  w \in Forward /\ Sent(w.push, w.conn)' /\ w.push.src = c
<1> USE DEF Base
<1>1. CASE fwd' = fwd
  BY <1>1
<1>2. ASSUME NEW d \in Conn, Enqueue(d) PROVE FALSE
  BY <1>2, NoElems DEF Enqueue, TypeOK
<1>3. ASSUME NEW d \in Conn, RouteSend(d)
      PROVE  w \in Forward /\ Sent(w.push, w.conn)' /\ w.push.src = c
  <2> DEFINE f == Head(up[d])
             v == [conn |-> peers[f.to], push |-> MakePush(d, f)]
  <2>1. f \in SendFrame
    BY <1>3, TailElems, Kinds DEF RouteSend, Reading, TypeOK
  <2>2. peers[f.to] \in Conn /\ f.to \in Addr
    BY <1>3, <2>1 DEF RouteSend, SendFrame, TypeOK
  <2>3. phase[d] = "open" /\ who[d] \in Addr
    BY <1>3 DEF RouteSend, Reading, Authenticated
  <2>4. v \in Forward
    BY <2>1, <2>2, <2>3 DEF Forward, MakePush, PushFrame, SendFrame
  <2>5. c = d /\ w = v
    <3>1. fwd \in [Conn -> Seq(Forward)] /\ fwd' = [fwd EXCEPT ![d] = <<v>>]
      BY <1>3 DEF RouteSend, TypeOK
    <3>2. c = d
      BY <3>1
    <3>3. fwd'[c] = <<v>>
      BY <3>1, <3>2
    <3>4. QED
      BY <3>2, <3>3 DEF ToSet
  <2>6. /\ w.conn = peers[f.to]
        /\ w.push.to = f.to /\ w.push.from = who[d] /\ w.push.src = d
    BY <2>5 DEF MakePush
  <2>7. /\ who[w.conn] = f.to
        /\ PastHello(w.conn) /\ PastHello(d)
    BY BrokerAssumption, <2>2, <2>3, <2>6 DEF RoutesAreLive, PastHello
  <2>8. phase' = phase /\ who' = who
    BY <1>3 DEF RouteSend
  <2>9. QED
    BY <2>4, <2>5, <2>6, <2>7, <2>8 DEF Sent, PastHello
<1>4. QED
  BY <1>1, <1>2, <1>3
  DEF Next, HandleJoin, Session, Writer, Client, AcceptHello, RejectHello, SendAck, AckFails,
      Attach, DropSend, IgnoreFrame, EndRead, JoinWriter, WriterSend, WriterFails, ClientHello,
      ClientOpens, ClientSend, ClientMisc, Put, ClientRead, ClientClose, wire, server, vars

LEMMA TracedStep == Base /\ RoutesAreLive /\ Traced /\ [Next]_vars => Traced'
<1> SUFFICES ASSUME Base, RoutesAreLive, Traced, [Next]_vars, NEW c \in Conn
             PROVE  /\ \A p \in Held(c)' : Sent(p, c)'
                    /\ \A w \in ToSet(fwd'[c]) : Sent(w.push, w.conn)' /\ w.push.src = c
  BY DEF Traced
<1>1. Base' /\ TypeOK
  BY BaseStep DEF Base
<1>2. ASSUME NEW d \in Conn, NEW w \in ToSet(fwd[d])
      PROVE  w \in Forward /\ Sent(w.push, w.conn)' /\ w.push.src = d
  <2>1. w \in Forward
    BY <1>1, PendingTyped
  <2>2. QED
    BY <2>1, SentIsStable DEF Forward, Traced
<1>3. ASSUME NEW p \in Held(c)' PROVE Sent(p, c)'
  <2>1. CASE p \in Held(c)
    <3>1. p \in PushFrame
      BY <1>1, <2>1, HeldTyped
    <3>2. QED
      BY <2>1, <3>1, SentIsStable DEF Traced
  <2>2. CASE p \notin Held(c)
    BY <1>2, <2>2, HeldStep DEF Arrives
  <2>3. QED
    BY <2>1, <2>2
<1>4. ASSUME NEW w \in ToSet(fwd'[c]) PROVE Sent(w.push, w.conn)' /\ w.push.src = c
  BY <1>2, PendingStep
<1>5. QED
  BY <1>3, <1>4

(* Whatever a client holds or is about to be given is addressed to it and  *)
(* stamped with the address its sender authenticated.                      *)
THEOREM AddressingCorrect == Spec => []PushesAreAddressed
<1>1. Init => Traced
  BY NoElems DEF Init, Traced, Held
<1>2. Spec => []Traced
  BY <1>1, TracedStep, BaseInvariant, RoutesCorrect, PTL DEF Spec
<1>3. Traced => PushesAreAddressed
  BY DEF Traced, PushesAreAddressed, Sent
<1>4. QED
  BY <1>2, <1>3, PTL

-----------------------------------------------------------------------------
(* An open session is in the routing table unless another connection of its *)
(* address took the entry: a session has no address before its Hello, and   *)
(* entries are taken and removed by address.                                *)
Routed ==
  /\ \A c \in Conn : ~PastHello(c) => who[c] = NoAddr
  /\ \A d \in Conn : OnlySession(d) => peers[who[d]] = d

LEMMA RoutedStep == Base /\ Routed /\ [Next]_vars => Routed'
<1> SUFFICES ASSUME Base, Routed, [Next]_vars PROVE Routed'
  OBVIOUS
<1> USE DEF Base, TypeOK, Authenticated, Routed, OnlySession, PastHello
<1>1. CASE UNCHANGED <<peers, phase, who>>
  BY <1>1
<1>2. ASSUME NEW c \in Conn, AcceptHello(c) PROVE Routed'
  <2>1. /\ peers' = peers /\ phase'[c] = "acking"
        /\ \A d \in Conn \ {c} : phase'[d] = phase[d] /\ who'[d] = who[d]
    BY <1>2 DEF AcceptHello
  <2>2. ASSUME NEW d \in Conn, ~PastHello(d)' PROVE who'[d] = NoAddr
    BY <2>1, <2>2
  <2>3. ASSUME NEW d \in Conn, OnlySession(d)' PROVE peers'[who'[d]] = d
    <3>1. d # c /\ phase[d] = "open" /\ who'[d] = who[d] /\ who[d] \in Addr
      BY <2>1, <2>3
    <3>2. who[c] = NoAddr
      BY <1>2 DEF AcceptHello
    <3>3. OnlySession(d)
      BY <2>1, <2>3, <3>1, <3>2, BrokerAssumption
    <3>4. QED
      BY <2>1, <3>1, <3>3
  <2>4. QED
    BY <2>2, <2>3
<1>3. ASSUME NEW c \in Conn, \/ RejectHello(c) \/ SendAck(c) \/ AckFails(c) \/ JoinWriter(c)
      PROVE  Routed'
  <2>1. /\ peers' = peers /\ who' = who
        /\ \A d \in Conn \ {c} : phase'[d] = phase[d]
        /\ phase'[c] # "open" /\ (PastHello(c)' \/ ~PastHello(c))
    BY <1>3 DEF RejectHello, SendAck, AckFails, JoinWriter
  <2>2. QED
    BY <2>1
<1>4. ASSUME NEW c \in Conn, Attach(c) PROVE Routed'
  <2>1. who' = who /\ who[c] \in Addr
    BY <1>4 DEF Attach
  <2>2. ASSUME NEW d \in Conn, OnlySession(d)' PROVE peers'[who'[d]] = d
    <3>1. CASE d = c
      BY <1>4, <2>1, <3>1 DEF Attach, attach_peer
    <3>2. CASE d # c
      <4>1. phase[d] = "open" /\ who[d] # who[c]
        BY <1>4, <2>1, <2>2, <3>2 DEF Attach
      <4>2. QED
        BY <1>4, <2>1, <2>2, <4>1 DEF Attach, attach_peer
    <3>3. QED
      BY <3>1, <3>2
  <2>3. QED
    BY <1>4, <2>1, <2>2 DEF Attach
<1>5. ASSUME NEW c \in Conn, EndRead(c) PROVE Routed'
  <2>1. ASSUME NEW d \in Conn, OnlySession(d)' PROVE peers'[who'[d]] = d
    <3>1. d # c /\ phase[d] = "open" /\ who[d] # who[c] /\ who' = who
      BY <1>5, <2>1 DEF EndRead
    <3>2. QED
      BY <1>5, <2>1, <3>1 DEF EndRead, detach_peer
  <2>2. QED
    BY <1>5, <2>1 DEF EndRead
<1>6. ASSUME NEW c \in Conn, NEW h \in HelloFrame, ClientHello(c, h) PROVE Routed'
  BY <1>6 DEF ClientHello
<1>7. ASSUME NEW c \in Conn, ClientOpens(c) PROVE Routed'
  BY <1>7 DEF ClientOpens
<1>8. QED
  BY <1>1, <1>2, <1>3, <1>4, <1>5, <1>6, <1>7
  DEF Next, HandleJoin, Session, Writer, Client, RouteSend, DropSend, IgnoreFrame, Enqueue,
      WriterSend, WriterFails, ClientSend, ClientMisc, Put, ClientRead, ClientClose, wire,
      server, vars

(* A frame is discarded only if no session of its recipient is open, a      *)
(* recipient with several connections excepted.                             *)
THEOREM DropsCorrect == Spec => DroppedOnlyIfOffline
<1>1. Init => Routed
  BY DEF Init, Routed, OnlySession
<1>2. Base /\ Routed =>
        \A c \in Conn : DropSend(c) =>
          \A d \in Conn : ~(who[d] = Head(up[c]).to /\ OnlySession(d))
  BY BrokerAssumption DEF DropSend, Routed
<1>3. QED
  BY <1>1, <1>2, RoutedStep, BaseInvariant, PTL DEF Spec, DroppedOnlyIfOffline

-----------------------------------------------------------------------------
(* Order.  Before(S, T): every push of S is earlier than those of T.        *)
Before(S, T) == \A p \in S, q \in T : Earlier(p, q)

LEMMA OrderEmpty == InSendOrder(<<>>)
BY DEF InSendOrder

LEMMA OrderAppend ==
  ASSUME NEW S, NEW s \in Seq(S), NEW x \in S, InSendOrder(s), Before(ToSet(s), {x})
  PROVE  InSendOrder(Append(s, x))
<1>1. ASSUME NEW i \in DOMAIN Append(s, x), NEW j \in DOMAIN Append(s, x), i < j
      PROVE  Earlier(Append(s, x)[i], Append(s, x)[j])
  <2>1. i \in DOMAIN s /\ Append(s, x)[i] = s[i] /\ s[i] \in ToSet(s)
    BY <1>1 DEF ToSet
  <2>2. CASE j \in DOMAIN s
    <3>1. Append(s, x)[j] = s[j]
      BY <2>2
    <3>2. QED
      BY <1>1, <2>1, <2>2, <3>1 DEF InSendOrder
  <2>3. CASE j \notin DOMAIN s
    <3>1. Append(s, x)[j] = x
      BY <2>3
    <3>2. QED
      BY <2>1, <3>1 DEF Before
  <2>4. QED
    BY <2>2, <2>3
<1>2. QED
  BY <1>1 DEF InSendOrder

LEMMA OrderTail ==
  ASSUME NEW S, NEW s \in Seq(S), s # <<>>, InSendOrder(s)
  PROVE  InSendOrder(Tail(s)) /\ Before({Head(s)}, ToSet(Tail(s)))
<1>1. \A i \in DOMAIN Tail(s) : i + 1 \in DOMAIN s /\ Tail(s)[i] = s[i + 1] /\ i \in Nat /\ 1 < i + 1
  OBVIOUS
<1>2. 1 \in DOMAIN s /\ Head(s) = s[1]
  OBVIOUS
<1>3. ASSUME NEW i \in DOMAIN Tail(s), NEW j \in DOMAIN Tail(s), i < j
      PROVE  Earlier(Tail(s)[i], Tail(s)[j])
  <2>1. i + 1 < j + 1
    BY <1>1, <1>3
  <2>2. QED
    BY <1>1, <2>1 DEF InSendOrder
<1>4. ASSUME NEW i \in DOMAIN Tail(s) PROVE Earlier(Head(s), Tail(s)[i])
  BY <1>1, <1>2 DEF InSendOrder
<1>5. QED
  BY <1>3, <1>4 DEF InSendOrder, Before, ToSet

LEMMA OrderConcat ==
  ASSUME NEW S, NEW s \in Seq(S), NEW t \in Seq(S)
  PROVE  /\ InSendOrder(s \o t) <=> InSendOrder(s) /\ InSendOrder(t) /\ Before(ToSet(s), ToSet(t))
         /\ ToSet(s \o t) = ToSet(s) \cup ToSet(t)
<1> DEFINE u == s \o t
<1>1. /\ DOMAIN u = 1..(Len(s) + Len(t))
      /\ \A i \in 1..Len(s) : u[i] = s[i]
      /\ \A j \in 1..Len(t) : u[Len(s) + j] = t[j] /\ Len(s) + j \in DOMAIN u
      /\ DOMAIN s = 1..Len(s) /\ DOMAIN t = 1..Len(t)
      /\ Len(s) \in Nat /\ Len(t) \in Nat
  OBVIOUS
<1>2. \A i \in DOMAIN u : \/ i \in DOMAIN s /\ u[i] = s[i]
                          \/ i - Len(s) \in DOMAIN t /\ u[i] = t[i - Len(s)] /\ i > Len(s)
  BY <1>1
<1>3. \A i \in DOMAIN s : i \in DOMAIN u /\ u[i] = s[i]
  BY <1>1
<1> HIDE DEF u
<1>4. ToSet(u) = ToSet(s) \cup ToSet(t)
  <2>1. \A i \in DOMAIN u : u[i] \in ToSet(s) \cup ToSet(t)
    BY <1>2 DEF ToSet
  <2>2. \A i \in DOMAIN s : s[i] \in ToSet(u)
    BY <1>3 DEF ToSet
  <2>3. \A j \in DOMAIN t : t[j] \in ToSet(u)
    BY <1>1 DEF ToSet
  <2>4. QED
    BY <2>1, <2>2, <2>3 DEF ToSet
<1>5. ASSUME InSendOrder(u)
      PROVE  InSendOrder(s) /\ InSendOrder(t) /\ Before(ToSet(s), ToSet(t))
  <2>1. ASSUME NEW i \in DOMAIN s, NEW j \in DOMAIN s, i < j PROVE Earlier(s[i], s[j])
    BY <1>3, <1>5, <2>1 DEF InSendOrder
  <2>2. ASSUME NEW i \in DOMAIN t, NEW j \in DOMAIN t, i < j PROVE Earlier(t[i], t[j])
    <3>1. Len(s) + i < Len(s) + j
      BY <1>1, <2>2
    <3>2. QED
      BY <1>1, <1>5, <3>1 DEF InSendOrder
  <2>3. ASSUME NEW i \in DOMAIN s, NEW j \in DOMAIN t PROVE Earlier(s[i], t[j])
    <3>1. i < Len(s) + j
      BY <1>1
    <3>2. QED
      BY <1>1, <1>3, <1>5, <3>1 DEF InSendOrder
  <2>4. QED
    BY <2>1, <2>2, <2>3 DEF InSendOrder, Before, ToSet
<1>6. ASSUME InSendOrder(s), InSendOrder(t), Before(ToSet(s), ToSet(t)),
             NEW i \in DOMAIN u, NEW j \in DOMAIN u, i < j
      PROVE  Earlier(u[i], u[j])
  <2>1. CASE i \in DOMAIN s /\ u[i] = s[i] /\ j \in DOMAIN s /\ u[j] = s[j]
    BY <1>6, <2>1 DEF InSendOrder
  <2>2. CASE /\ i \in DOMAIN s /\ u[i] = s[i]
             /\ j - Len(s) \in DOMAIN t /\ u[j] = t[j - Len(s)]
    BY <1>6, <2>2 DEF Before, ToSet
  <2>3. CASE /\ i - Len(s) \in DOMAIN t /\ u[i] = t[i - Len(s)]
             /\ j - Len(s) \in DOMAIN t /\ u[j] = t[j - Len(s)]
    <3>1. i - Len(s) < j - Len(s)
      BY <1>1, <1>6
    <3>2. QED
      BY <1>6, <2>3, <3>1 DEF InSendOrder
  <2>4. ~(i > Len(s) /\ j \in DOMAIN s)
    BY <1>1, <1>6
  <2>5. QED
    BY <1>2, <2>1, <2>2, <2>3, <2>4
<1>7. QED
  BY <1>4, <1>5, <1>6 DEF InSendOrder, u

(* What a client has read, what is on the wire and what is in the channel. *)
Chain(g, d, q) ==
  /\ InSendOrder(g) /\ InSendOrder(d) /\ InSendOrder(q)
  /\ Before(ToSet(g), ToSet(d)) /\ Before(ToSet(g), ToSet(q)) /\ Before(ToSet(d), ToSet(q))

LEMMA PushIsDown == PushFrame \subseteq DownFrame /\ Seq(PushFrame) \subseteq Seq(DownFrame)
<1>1. PushFrame \subseteq DownFrame
  BY DEF DownFrame
<1>2. QED
  BY <1>1

LEMMA ChainIsOrder ==
  ASSUME NEW g \in Seq(DownFrame), NEW d \in Seq(DownFrame), NEW q \in Seq(DownFrame)
  PROVE  InSendOrder(g \o d \o q) <=> Chain(g, d, q)
<1>1. g \o d \in Seq(DownFrame)
  OBVIOUS
<1>2. InSendOrder(g \o d) <=> InSendOrder(g) /\ InSendOrder(d) /\ Before(ToSet(g), ToSet(d))
  BY OrderConcat
<1>3. ToSet(g \o d) = ToSet(g) \cup ToSet(d)
  BY OrderConcat
<1>4. InSendOrder((g \o d) \o q) <=>
        InSendOrder(g \o d) /\ InSendOrder(q) /\ Before(ToSet(g \o d), ToSet(q))
  BY <1>1, OrderConcat
<1>5. Before(ToSet(g \o d), ToSet(q)) <=> Before(ToSet(g), ToSet(q)) /\ Before(ToSet(d), ToSet(q))
  BY <1>3 DEF Before
<1>6. QED
  BY <1>2, <1>4, <1>5 DEF Chain

(* What the steps of writers and clients do to the three.                  *)
LEMMA ChainSteps ==
  ASSUME NEW g \in Seq(DownFrame), NEW d \in Seq(DownFrame), NEW q \in Seq(DownFrame),
         Chain(g, d, q)
  PROVE  /\ \A x \in DownFrame : ~IsPush(x) => Chain(g, Append(d, x), q)
         /\ \A x \in DownFrame :
              Before(ToSet(g) \cup ToSet(d) \cup ToSet(q), {x}) => Chain(g, d, Append(q, x))
         /\ q # <<>> => Chain(g, Append(d, Head(q)), Tail(q))
         /\ Chain(g, d, <<>>)
         /\ d # <<>> => Chain(g, Tail(d), q) /\ Chain(Append(g, Head(d)), Tail(d), q)
<1>1. ASSUME NEW x \in DownFrame, ~IsPush(x) PROVE Chain(g, Append(d, x), q)
  <2>1. Before(ToSet(d), {x}) /\ Before(ToSet(g), {x}) /\ Before({x}, ToSet(q))
    BY <1>1 DEF Before, Earlier
  <2>2. InSendOrder(Append(d, x)) /\ ToSet(Append(d, x)) = ToSet(d) \cup {x}
    BY <2>1, OrderAppend, AppendElems DEF Chain
  <2>3. QED
    BY <2>1, <2>2 DEF Chain, Before
<1>2. ASSUME NEW x \in DownFrame, Before(ToSet(g) \cup ToSet(d) \cup ToSet(q), {x})
      PROVE  Chain(g, d, Append(q, x))
  <2>1. Before(ToSet(g), {x}) /\ Before(ToSet(d), {x}) /\ Before(ToSet(q), {x})
    BY <1>2 DEF Before
  <2>2. InSendOrder(Append(q, x)) /\ ToSet(Append(q, x)) = ToSet(q) \cup {x}
    BY <2>1, OrderAppend, AppendElems DEF Chain
  <2>3. QED
    BY <2>1, <2>2 DEF Chain, Before
<1>3. ASSUME q # <<>> PROVE Chain(g, Append(d, Head(q)), Tail(q))
  <2>1. /\ InSendOrder(Tail(q)) /\ Before({Head(q)}, ToSet(Tail(q)))
        /\ ToSet(Tail(q)) \subseteq ToSet(q) /\ Head(q) \in ToSet(q) /\ Head(q) \in DownFrame
    BY <1>3, OrderTail, TailElems DEF Chain
  <2>2. Before(ToSet(d), {Head(q)})
    BY <2>1 DEF Chain, Before
  <2>3. /\ InSendOrder(Append(d, Head(q)))
        /\ ToSet(Append(d, Head(q))) = ToSet(d) \cup {Head(q)}
    BY <2>1, <2>2, OrderAppend, AppendElems DEF Chain
  <2>4. QED
    BY <2>1, <2>3 DEF Chain, Before
<1>4. Chain(g, d, <<>>)
  BY OrderEmpty, NoElems DEF Chain, Before
<1>5. ASSUME d # <<>> PROVE Chain(g, Tail(d), q) /\ Chain(Append(g, Head(d)), Tail(d), q)
  <2>1. /\ InSendOrder(Tail(d)) /\ Before({Head(d)}, ToSet(Tail(d)))
        /\ ToSet(Tail(d)) \subseteq ToSet(d) /\ Head(d) \in ToSet(d) /\ Head(d) \in DownFrame
    BY <1>5, OrderTail, TailElems DEF Chain
  <2>2. Before(ToSet(g), {Head(d)})
    BY <2>1 DEF Chain, Before
  <2>3. /\ InSendOrder(Append(g, Head(d)))
        /\ ToSet(Append(g, Head(d))) = ToSet(g) \cup {Head(d)}
    BY <2>1, <2>2, OrderAppend, AppendElems DEF Chain
  <2>4. QED
    BY <2>1, <2>3 DEF Chain, Before
<1>6. QED
  BY <1>1, <1>2, <1>3, <1>4, <1>5

(* The frames a session has still to forward: those on the wire are in      *)
(* order, the pending one comes before them, and none is numbered higher    *)
(* than its client has counted.                                             *)
IsSend(f) == f.kind = "send"
Numbers(s) == \A i, j \in DOMAIN s : (i < j /\ IsSend(s[i]) /\ IsSend(s[j])) => s[i].n < s[j].n
Sends(c) == {f \in ToSet(up[c]) : IsSend(f)}

Numbered(c) ==
  /\ Numbers(up[c])
  /\ \A f \in Sends(c) : f.n <= nsent[c]
  /\ \A w \in ToSet(fwd[c]) : w.push.n <= nsent[c] /\ \A f \in Sends(c) : w.push.n < f.n

(* A push that its session is done with is numbered below all of them.      *)
Behind(p) ==
  /\ p.n <= nsent[p.src]
  /\ \A w \in ToSet(fwd[p.src]) : p.n < w.push.n
  /\ \A f \in Sends(p.src) : p.n < f.n

LEMMA NumbersTail ==
  ASSUME NEW s \in Seq(UpFrame), s # <<>>, Numbers(s)
  PROVE  /\ Numbers(Tail(s))
         /\ IsSend(Head(s)) => \A f \in ToSet(Tail(s)) : IsSend(f) => Head(s).n < f.n
<1>1. \A i \in DOMAIN Tail(s) : i + 1 \in DOMAIN s /\ Tail(s)[i] = s[i + 1] /\ i \in Nat /\ 1 < i + 1
  OBVIOUS
<1>2. 1 \in DOMAIN s /\ Head(s) = s[1]
  OBVIOUS
<1>3. ASSUME NEW i \in DOMAIN Tail(s), NEW j \in DOMAIN Tail(s), i < j,
             IsSend(Tail(s)[i]), IsSend(Tail(s)[j])
      PROVE  Tail(s)[i].n < Tail(s)[j].n
  <2>1. i + 1 < j + 1
    BY <1>1, <1>3
  <2>2. QED
    BY <1>1, <1>3, <2>1 DEF Numbers
<1>4. ASSUME NEW i \in DOMAIN Tail(s), IsSend(Head(s)), IsSend(Tail(s)[i])
      PROVE  Head(s).n < Tail(s)[i].n
  BY <1>1, <1>2, <1>4 DEF Numbers
<1>5. QED
  BY <1>3, <1>4 DEF Numbers, ToSet

LEMMA NumbersAppend ==
  ASSUME NEW s \in Seq(UpFrame), NEW x \in UpFrame, Numbers(s),
         IsSend(x) => \A f \in ToSet(s) : IsSend(f) => f.n < x.n
  PROVE  Numbers(Append(s, x))
<1>1. ASSUME NEW i \in DOMAIN Append(s, x), NEW j \in DOMAIN Append(s, x), i < j,
             IsSend(Append(s, x)[i]), IsSend(Append(s, x)[j])
      PROVE  Append(s, x)[i].n < Append(s, x)[j].n
  <2>1. i \in DOMAIN s /\ Append(s, x)[i] = s[i] /\ s[i] \in ToSet(s)
    BY <1>1 DEF ToSet
  <2>2. CASE j \in DOMAIN s
    <3>1. Append(s, x)[j] = s[j]
      BY <2>2
    <3>2. QED
      BY <1>1, <2>1, <2>2, <3>1 DEF Numbers
  <2>3. CASE j \notin DOMAIN s
    <3>1. Append(s, x)[j] = x
      BY <2>3
    <3>2. QED
      BY <1>1, <2>1, <3>1
  <2>4. QED
    BY <2>2, <2>3
<1>2. QED
  BY <1>1 DEF Numbers

(* What a step can do to the frames a session has still to forward.         *)
Takes(c) == up[c] # <<>> /\ up'[c] = Tail(up[c]) /\ nsent'[c] = nsent[c]
Adds(c, f) == /\ up'[c] = Append(up[c], f) /\ fwd'[c] = fwd[c]
              /\ IF IsSend(f) THEN nsent'[c] = nsent[c] + 1 /\ f.n = nsent'[c]
                              ELSE nsent'[c] \in {nsent[c], nsent[c] + 1}

LEMMA SourceStep ==
  ASSUME Base, [Next]_vars, NEW c \in Conn
  PROVE  \/ up'[c] = up[c] /\ nsent'[c] = nsent[c] /\ fwd'[c] \in {fwd[c], <<>>}
         \/ Takes(c) /\ fwd'[c] = fwd[c]
         \/ Takes(c) /\ IsSend(Head(up[c])) /\ \E v : fwd'[c] = <<v>> /\ v.push.n = Head(up[c]).n
         \/ nsent'[c] = nsent[c] /\ fwd'[c] = fwd[c] /\ \E h \in HelloFrame : up'[c] = <<h>>
         \/ \E f \in UpFrame : Adds(c, f)
<1> DEFINE Same == up'[c] = up[c] /\ nsent'[c] = nsent[c] /\ fwd'[c] \in {fwd[c], <<>>}
           Taken == Takes(c) /\ fwd'[c] = fwd[c]
           Routes == Takes(c) /\ IsSend(Head(up[c])) /\ \E v : fwd'[c] = <<v>> /\ v.push.n = Head(up[c]).n
           Hello == nsent'[c] = nsent[c] /\ fwd'[c] = fwd[c] /\ \E h \in HelloFrame : up'[c] = <<h>>
           Added == \E f \in UpFrame : Adds(c, f)
<1> USE DEF Base, TypeOK
<1>1. CASE UNCHANGED <<up, nsent, fwd>>
  BY <1>1
<1>2. ASSUME NEW d \in Conn,
             \/ AcceptHello(d) \/ RejectHello(d) \/ DropSend(d) \/ IgnoreFrame(d) \/ EndRead(d)
      PROVE  Same \/ Taken
  <2>1. UNCHANGED <<nsent, fwd>> /\ (up' = up \/ (up[d] # <<>> /\ Receive(d)))
    BY <1>2 DEF AcceptHello, RejectHello, DropSend, IgnoreFrame, EndRead, Reading, server, wire
  <2>2. QED
    BY <2>1 DEF Receive, Takes
<1>3. ASSUME NEW d \in Conn, RouteSend(d) PROVE Same \/ Routes
  <2>1. CASE c = d
    <3>1. Takes(c) /\ IsSend(Head(up[c]))
      BY <1>3, <2>1 DEF RouteSend, Reading, Receive, Takes, IsSend
    <3>2. fwd'[c] = <<[conn |-> peers[Head(up[c]).to], push |-> MakePush(c, Head(up[c]))]>>
      BY <1>3, <2>1 DEF RouteSend
    <3>3. MakePush(c, Head(up[c])).n = Head(up[c]).n
      BY DEF MakePush
    <3>4. QED
      BY <3>1, <3>2, <3>3
  <2>2. CASE c # d
    BY <1>3, <2>2 DEF RouteSend, Receive
  <2>3. QED
    BY <2>1, <2>2
<1>4. ASSUME NEW d \in Conn, Enqueue(d) PROVE Same
  BY <1>4 DEF Enqueue, wire
<1>5. ASSUME NEW d \in Conn, NEW h \in HelloFrame, ClientHello(d, h) PROVE Same \/ Hello
  BY <1>5 DEF ClientHello
<1>6. ASSUME NEW d \in Conn, NEW f \in UpFrame, Put(d, f), IsSend(f) => f.n = nsent[d] + 1
      PROVE  Same \/ Added
  <2>1. CASE c = d
    <3>1. Adds(c, f)
      BY <1>6, <2>1 DEF Put, server, Adds
    <3>2. QED
      BY <3>1
  <2>2. CASE c # d
    BY <1>6, <2>2 DEF Put, server
  <2>3. QED
    BY <2>1, <2>2
<1>7. ASSUME NEW d \in Conn, NEW a \in Addr, ClientSend(d, a) PROVE Same \/ Added
  <2>1. nsent[d] + 1 \in Nat
    OBVIOUS
  <2>2. [kind |-> "send", to |-> a, n |-> nsent[d] + 1] \in UpFrame
    BY <2>1, Frames
  <2>3. QED
    BY <1>6, <1>7, <2>2 DEF ClientSend
<1>8. ASSUME NEW d \in Conn, NEW k \in {"other", "bad"}, ClientMisc(d, k) PROVE Same \/ Added
  <2>1. [kind |-> k] \in UpFrame /\ ~IsSend([kind |-> k])
    BY Frames DEF IsSend
  <2>2. QED
    BY <1>6, <1>8, <2>1 DEF ClientMisc
<1>9. ASSUME NEW d \in Conn, ClientClose(d) PROVE Same \/ Added
  <2>1. [kind |-> "close"] \in UpFrame /\ ~IsSend([kind |-> "close"])
    BY Frames DEF IsSend
  <2>2. CASE up' = [up EXCEPT ![d] = Append(@, [kind |-> "close"])] /\ c = d
    <3>1. Adds(c, [kind |-> "close"])
      BY <1>9, <2>1, <2>2 DEF ClientClose, server, Adds
    <3>2. QED
      BY <2>1, <3>1
  <2>3. QED
    BY <1>9, <2>2 DEF ClientClose, server
<1> HIDE DEF Same, Taken, Routes, Hello, Added, Base, TypeOK
<1>10. Same \/ Taken \/ Routes \/ Hello \/ Added
  <2>1. CASE UNCHANGED <<up, nsent, fwd>>
    BY <1>1, <2>1 DEF Same
  <2>2. QED
    BY <2>1, <1>2, <1>3, <1>4, <1>5, <1>7, <1>8, <1>9
    DEF Next, HandleJoin, Session, Writer, Client, ClientOpens, SendAck, AckFails, Attach,
        JoinWriter, WriterSend, WriterFails, ClientRead, wire, server, vars
<1>11. QED
  BY <1>10 DEF Same, Taken, Routes, Hello, Added

LEMMA NumberedStep ==
  ASSUME Base, [Next]_vars, NEW c \in Conn, Numbered(c)
  PROVE  Numbered(c)' /\ \A p \in PushFrame : p.src = c /\ Behind(p) => Behind(p)'
<1>1. /\ up[c] \in Seq(UpFrame) /\ nsent[c] \in Nat
      /\ \A f \in ToSet(up[c]) : IsSend(f) => f.n \in Nat
  <2>1. up[c] \in Seq(UpFrame) /\ nsent[c] \in Nat
    BY DEF Base, TypeOK
  <2>2. QED
    BY <2>1, ElemsTyped, Kinds DEF IsSend, SendFrame
<1>2. CASE up'[c] = up[c] /\ nsent'[c] = nsent[c] /\ fwd'[c] \in {fwd[c], <<>>}
  <2>1. ToSet(fwd'[c]) \subseteq ToSet(fwd[c])
    BY <1>2, NoElems
  <2>2. QED
    BY <1>2, <2>1 DEF Numbered, Behind, Sends
<1>3. ASSUME Takes(c)
      PROVE  Numbers(up'[c]) /\ Sends(c)' \subseteq Sends(c) /\ nsent'[c] = nsent[c]
  <2>1. Numbers(Tail(up[c])) /\ ToSet(Tail(up[c])) \subseteq ToSet(up[c])
    BY <1>1, <1>3, NumbersTail, TailElems DEF Takes, Numbered
  <2>2. QED
    BY <1>3, <2>1 DEF Takes, Sends
<1>4. CASE Takes(c) /\ fwd'[c] = fwd[c]
  BY <1>3, <1>4 DEF Numbered, Behind
<1>5. CASE Takes(c) /\ IsSend(Head(up[c])) /\ \E v : fwd'[c] = <<v>> /\ v.push.n = Head(up[c]).n
  <2>1. PICK v : fwd'[c] = <<v>> /\ v.push.n = Head(up[c]).n
    BY <1>5
  <2>2. ToSet(fwd'[c]) = {v}
    BY <2>1 DEF ToSet
  <2>3. Head(up[c]) \in Sends(c)
    BY <1>1, <1>5, TailElems DEF Takes, Sends
  <2>4. \A f \in Sends(c)' : v.push.n < f.n
    BY <1>1, <1>5, <2>1, NumbersTail DEF Takes, Numbered, Sends
  <2>5. QED
    BY <1>3, <1>5, <2>1, <2>2, <2>3, <2>4 DEF Numbered, Behind
<1>6. CASE nsent'[c] = nsent[c] /\ fwd'[c] = fwd[c] /\ \E h \in HelloFrame : up'[c] = <<h>>
  <2>1. PICK h \in HelloFrame : up'[c] = <<h>>
    BY <1>6
  <2>2. ToSet(up'[c]) = {h} /\ ~IsSend(h)
    BY <2>1 DEF ToSet, HelloFrame, IsSend
  <2>3. Sends(c)' = {} /\ Numbers(up'[c])
    BY <2>1, <2>2 DEF Sends, Numbers
  <2>4. QED
    BY <1>6, <2>3 DEF Numbered, Behind
<1>7. ASSUME NEW f \in UpFrame, Adds(c, f)
      PROVE  Numbered(c)' /\ \A p \in PushFrame : p.src = c /\ Behind(p) => Behind(p)'
  <2>1. IsSend(f) => \A g \in ToSet(up[c]) : IsSend(g) => g.n < f.n
    BY <1>1, <1>7 DEF Adds, Numbered, Sends
  <2>2. Numbers(up'[c]) /\ ToSet(up'[c]) = ToSet(up[c]) \cup {f}
    BY <1>1, <1>7, <2>1, NumbersAppend, AppendElems DEF Adds, Numbered
  <2>3. nsent'[c] \in Nat /\ nsent[c] <= nsent'[c] /\ (IsSend(f) => f.n = nsent[c] + 1)
    BY <1>1, <1>7 DEF Adds
  <2>4. Sends(c)' = Sends(c) \cup (IF IsSend(f) THEN {f} ELSE {})
    BY <2>2 DEF Sends
  <2>5. ToSet(fwd'[c]) = ToSet(fwd[c])
    BY <1>7 DEF Adds
  <2>6. \A w \in ToSet(fwd[c]) : w.push.n \in Nat
    BY PendingTyped DEF Base, Forward, PushFrame
  <2>7. \A g \in Sends(c) : g.n \in Nat
    BY <1>1 DEF Sends
  <2>8. Numbered(c)'
    <3>1. \A g \in Sends(c)' : g.n <= nsent'[c]
      BY <1>1, <1>7, <2>3, <2>4, <2>7 DEF Numbered, Adds
    <3>2. \A w \in ToSet(fwd'[c]) : w.push.n <= nsent'[c] /\ \A g \in Sends(c)' : w.push.n < g.n
      BY <1>1, <2>3, <2>4, <2>5, <2>6, <2>7 DEF Numbered
    <3>3. QED
      BY <2>2, <3>1, <3>2 DEF Numbered
  <2>9. ASSUME NEW p \in PushFrame, p.src = c, Behind(p) PROVE Behind(p)'
    <3>1. p.n \in Nat
      BY DEF PushFrame
    <3>2. QED
      BY <1>1, <2>3, <2>4, <2>5, <2>7, <2>9, <3>1 DEF Behind
  <2>10. QED
    BY <2>8, <2>9
<1>8. QED
  BY <1>2, <1>4, <1>5, <1>6, <1>7, SourceStep

(* Pushes in a channel, on the wire or read come from sessions that are    *)
(* done with them, and each connection has them in order.                  *)
Ordered ==
  /\ \A c \in Conn : Numbered(c)
  /\ \A c \in Conn : \A p \in Held(c) : Behind(p)
  /\ \A c \in Conn : Chain(got[c], down[c], queue[c])

LEMMA BehindStep ==
  ASSUME Base, Traced, Ordered, [Next]_vars, NEW c \in Conn, NEW p \in Held(c)'
  PROVE  Behind(p)'
<1>1. \A d \in Conn : Held(d) \subseteq PushFrame
  BY HeldTyped DEF Base
<1>2. ASSUME NEW q \in PushFrame, Behind(q) PROVE Behind(q)'
  <2>1. q.src \in Conn
    BY DEF PushFrame
  <2>2. QED
    BY <1>2, <2>1, NumberedStep DEF Ordered
<1>3. CASE p \in Held(c)
  BY <1>1, <1>2, <1>3 DEF Ordered
<1>4. CASE p \notin Held(c)
  <2>1. PICK d \in Conn : Enqueue(d) /\ \E w \in ToSet(fwd[d]) : w.conn = c /\ p = w.push
    BY <1>4, HeldStep DEF Arrives
  <2>2. /\ p.src = d /\ p.n <= nsent[d]
        /\ \A f \in Sends(d) : p.n < f.n
    BY <2>1 DEF Traced, Ordered, Numbered
  <2>3. /\ ToSet(fwd'[d]) = {}
        /\ nsent'[d] = nsent[d] /\ Sends(d)' = Sends(d)
    <3>1. fwd'[d] = <<>> /\ nsent' = nsent /\ up' = up
      BY <2>1 DEF Enqueue, wire, Base, TypeOK
    <3>2. QED
      BY <3>1, NoElems DEF Sends
  <2>4. QED
    BY <2>2, <2>3 DEF Behind
<1>5. QED
  BY <1>3, <1>4

LEMMA ChainStep ==
  ASSUME Base, Traced, Ordered, [Next]_vars, NEW c \in Conn
  PROVE  Chain(got[c], down[c], queue[c])'
<1>1. /\ got \in [Conn -> Seq(PushFrame)] /\ queue \in [Conn -> Seq(PushFrame)]
      /\ down \in [Conn -> Seq(DownFrame)]
  BY DEF Base, TypeOK
<1>2. /\ got[c] \in Seq(DownFrame) /\ down[c] \in Seq(DownFrame) /\ queue[c] \in Seq(DownFrame)
      /\ Chain(got[c], down[c], queue[c])
  BY <1>1, PushIsDown DEF Ordered
<1> DEFINE Goal == Chain(got'[c], down'[c], queue'[c])
<1>3. CASE got'[c] = got[c] /\ down'[c] = down[c] /\ queue'[c] = queue[c]
  BY <1>2, <1>3
<1>4. ASSUME NEW d \in Conn, RejectHello(d) \/ SendAck(d) PROVE Goal
  <2>1. PICK k \in {"ack", "error"} :
          \/ down' = down
          \/ down' = [down EXCEPT ![d] = Append(@, [kind |-> k])]
    BY <1>4 DEF RejectHello, SendAck
  <2>2. UNCHANGED <<got, queue>>
    BY <1>4 DEF RejectHello, SendAck
  <2>3. [kind |-> k] \in DownFrame /\ ~IsPush([kind |-> k])
    BY Frames DEF IsPush
  <2>4. down'[c] \in {down[c], Append(down[c], [kind |-> k])}
    BY <1>1, <2>1
  <2>5. Chain(got[c], Append(down[c], [kind |-> k]), queue[c])
    BY <1>2, <2>3, ChainSteps
  <2>6. QED
    BY <1>2, <2>2, <2>4, <2>5
<1>5. ASSUME NEW d \in Conn, Enqueue(d) PROVE Goal
  <2> DEFINE t == fwd[d][1].conn
             p == fwd[d][1].push
  <2>1. fwd[d][1] \in Forward /\ fwd[d][1] \in ToSet(fwd[d])
    <3>1. fwd[d] \in Seq(Forward) /\ fwd[d] # <<>>
      BY <1>5 DEF Enqueue, Base, TypeOK
    <3>2. QED
      BY <3>1 DEF ToSet
  <2>2. t \in Conn /\ p \in PushFrame /\ p \in DownFrame /\ p.src = d
    BY <2>1, PushIsDown DEF Forward, Traced
  <2>3. queue' = queue \/ queue' = [queue EXCEPT ![t] = Append(@, p)]
    BY <1>5 DEF Enqueue
  <2>4. UNCHANGED <<got, down>>
    BY <1>5 DEF Enqueue, wire
  <2>5. queue'[c] \in {queue[c], Append(queue[c], p)}
    BY <1>1, <2>2, <2>3
  <2>6. Before(ToSet(got[c]) \cup ToSet(down[c]) \cup ToSet(queue[c]), {p})
    <3>1. ASSUME NEW q \in ToSet(got[c]) \cup ToSet(down[c]) \cup ToSet(queue[c]),
                 IsPush(q), q.src = d
          PROVE  q.n < p.n
      <4>1. q \in Held(c)
        BY <3>1 DEF Held
      <4>2. QED
        BY <2>1, <3>1, <4>1 DEF Ordered, Behind
    <3>2. QED
      BY <2>2, <3>1 DEF Before, Earlier
  <2>7. Chain(got[c], down[c], Append(queue[c], p))
    BY <1>2, <2>2, <2>6, ChainSteps
  <2>8. QED
    BY <1>2, <2>4, <2>5, <2>7
<1>6. ASSUME NEW d \in Conn, WriterSend(d) PROVE Goal
  <2>1. CASE c = d
    <3>1. /\ queue[c] # <<>> /\ got' = got
          /\ queue'[c] = Tail(queue[c]) /\ down'[c] = Append(down[c], Head(queue[c]))
      BY <1>1, <1>6, <2>1 DEF WriterSend
    <3>2. Chain(got[c], Append(down[c], Head(queue[c])), Tail(queue[c]))
      BY <1>2, <3>1, ChainSteps
    <3>3. QED
      BY <3>1, <3>2
  <2>2. CASE c # d
    BY <1>1, <1>3, <1>6, <2>2 DEF WriterSend
  <2>3. QED
    BY <2>1, <2>2
<1>7. ASSUME NEW d \in Conn, WriterFails(d) PROVE Goal
  <2>1. queue'[c] \in {queue[c], <<>>} /\ UNCHANGED <<got, down>>
    BY <1>1, <1>7 DEF WriterFails, wire
  <2>2. Chain(got[c], down[c], <<>>)
    BY <1>2, ChainSteps
  <2>3. QED
    BY <1>2, <2>1, <2>2
<1>8. ASSUME NEW d \in Conn, ClientRead(d) PROVE Goal
  <2>1. CASE c = d
    <3>1. /\ down[c] # <<>> /\ queue' = queue /\ down'[c] = Tail(down[c])
          /\ got'[c] \in {got[c], Append(got[c], Head(down[c]))}
      BY <1>1, <1>8, <2>1 DEF ClientRead, server
    <3>2. /\ Chain(got[c], Tail(down[c]), queue[c])
          /\ Chain(Append(got[c], Head(down[c])), Tail(down[c]), queue[c])
      BY <1>2, <3>1, ChainSteps
    <3>3. QED
      BY <3>1, <3>2
  <2>2. CASE c # d
    BY <1>1, <1>3, <1>8, <2>2 DEF ClientRead, server
  <2>3. QED
    BY <2>1, <2>2
<1>9. CASE UNCHANGED <<got, down, queue>>
  BY <1>3, <1>9
<1>10. ASSUME NEW d \in Conn, Session(d) PROVE Goal
  BY <1>4, <1>5, <1>9, <1>10
  DEF Session, AcceptHello, AckFails, Attach, RouteSend, DropSend, IgnoreFrame, EndRead,
      JoinWriter, wire, server
<1>11. ASSUME NEW d \in Conn, Client(d) PROVE Goal
  BY <1>8, <1>9, <1>11
  DEF Client, ClientHello, ClientOpens, ClientSend, ClientMisc, Put, ClientClose, server
<1>12. Goal
  BY <1>6, <1>7, <1>9, <1>10, <1>11 DEF Next, HandleJoin, Writer, wire, server, vars
<1>13. QED
  BY <1>12 DEF Chain

LEMMA OrderedInit == Init => Ordered
<1> SUFFICES ASSUME Init, NEW c \in Conn
             PROVE  /\ Numbered(c) /\ Held(c) = {} /\ Chain(got[c], down[c], queue[c])
  BY DEF Ordered
<1>1. /\ ToSet(up[c]) = {} /\ ToSet(fwd[c]) = {} /\ up[c] = <<>>
      /\ got[c] = <<>> /\ down[c] = <<>> /\ queue[c] = <<>>
  BY NoElems DEF Init
<1>2. QED
  BY <1>1, NoElems, OrderEmpty DEF Numbered, Numbers, Sends, Held, Chain, Before

(* A connection gets the frames of a session in the order they were sent,   *)
(* each once at most, for any number of senders, any reconnections, any      *)
(* capacity of channels and sockets: the read loop forwards one frame at a   *)
(* time and waits for room.                                                  *)
THEOREM OrderCorrect == Spec => []PerSenderOrder
<1>1. Init => Traced
  BY NoElems DEF Init, Traced, Held
<1>2. Spec => []Traced
  BY <1>1, TracedStep, BaseInvariant, RoutesCorrect, PTL DEF Spec
<1>3. Base /\ Traced /\ Ordered /\ [Next]_vars => Ordered'
  <2> SUFFICES ASSUME Base, Traced, Ordered, [Next]_vars PROVE Ordered'
    OBVIOUS
  <2>1. \A c \in Conn : Numbered(c)'
    BY NumberedStep DEF Ordered
  <2>2. QED
    BY <2>1, BehindStep, ChainStep DEF Ordered
<1>4. Spec => []Ordered
  BY <1>2, <1>3, OrderedInit, BaseInvariant, PTL DEF Spec
<1>5. Base /\ Ordered => PerSenderOrder
  <2> SUFFICES ASSUME Base, Ordered, NEW c \in Conn PROVE InSendOrder(Pipe(c))
    BY DEF PerSenderOrder
  <2>1. got[c] \in Seq(DownFrame) /\ down[c] \in Seq(DownFrame) /\ queue[c] \in Seq(DownFrame)
    BY PushIsDown DEF Base, TypeOK
  <2>2. QED
    BY <2>1, ChainIsOrder DEF Ordered, Pipe
<1>6. QED
  BY <1>4, <1>5, BaseInvariant, PTL

=============================================================================
