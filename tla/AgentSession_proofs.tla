------------------------- MODULE AgentSession_proofs -------------------------
(***************************************************************************)
(* Invariants of AgentSession for any number of sessions, clients, lines   *)
(* and crashes, with every fault allowed.                                  *)
(***************************************************************************)
EXTENDS AgentSession, TLAPS

(* What Follow lets an agent write next.                                   *)
LEMMA Follows ==
  ASSUME NEW g \in Seq(Line), NEW l \in Follow(g)
  PROVE  /\ l \in Line
         /\ IsEvent(l) => l.seq = Len(g)
         /\ g = <<>> \/ IsEvent(g[Len(g)])
<1>1. g # <<>> => g[Len(g)] \in Line
  OBVIOUS
<1>2. QED
  BY <1>1 DEF Follow, Line, EventLine, Event, Text, IsEvent, IsFinal

LEMMA EventLines == \A l \in Line : IsEvent(l) <=> l \in EventLine
BY DEF Line, EventLine, Text, IsEvent

-----------------------------------------------------------------------------
(* Type correctness, one lemma for each group of actions.                  *)
LEMMA TypeInit == Init => TypeOK
BY SessionAssumption DEF Init, TypeOK, Ended, Line, EventLine

LEMMA TypeContainer ==
  ASSUME TypeOK, NEW s \in Session,
         \/ AgentWrites(s) \/ AgentExits(s) \/ SpawnCreates(s) \/ SpawnStarts(s)
         \/ InsertRow(s) \/ CancelCreate(s)
  PROVE  TypeOK'
<1> USE DEF TypeOK, Ended
<1>1. CASE AgentWrites(s)
  <2>1. PICK l \in Follow(log[s]) : log' = [log EXCEPT ![s] = Append(@, l)]
    BY <1>1 DEF AgentWrites
  <2>2. Append(log[s], l) \in Seq(Line)
    BY Follows
  <2>3. log' \in [Session -> Seq(Line)]
    BY <2>1, <2>2
  <2>4. QED
    BY <1>1, <2>3 DEF AgentWrites, db, tasks, streams
<1>2. CASE AgentExits(s)
  BY <1>2 DEF AgentExits, db, tasks, streams
<1>3. CASE SpawnCreates(s)
  BY <1>3 DEF SpawnCreates, Create, db, streams
<1>4. CASE SpawnStarts(s)
  <2>1. create' \in {[create EXCEPT ![s] = "insert"], [create EXCEPT ![s] = "over"]}
    BY <1>4 DEF SpawnStarts, Create
  <2>2. container' \in {container, [container EXCEPT ![s] = "running"]}
    BY <1>4 DEF SpawnStarts
  <2>3. UNCHANGED <<row, store, log, up, stopping, drain, pos, verdict, streams, got, crashes>>
    BY <1>4 DEF SpawnStarts, db
  <2>4. /\ create' \in [Session -> {"new", "start", "insert", "over"}]
        /\ container' \in [Session -> {"none", "created", "running", "exited", "removed"}]
    <3>1. CASE create' = [create EXCEPT ![s] = "insert"]
      BY <3>1, <2>2
    <3>2. CASE create' = [create EXCEPT ![s] = "over"]
      BY <3>2, <2>2
    <3>3. QED
      BY <3>1, <3>2, <2>1
  <2>5. QED
    BY <2>3, <2>4 DEF streams
<1>5. CASE InsertRow(s)
  <2>1. row' \in {row, [row EXCEPT ![s] = "running"]}
    BY <1>5 DEF InsertRow
  <2>2. drain' \in {drain, [drain EXCEPT ![s] = "attach"]}
    BY <1>5 DEF InsertRow
  <2>3. create' = [create EXCEPT ![s] = "over"]
    BY <1>5 DEF InsertRow, Create
  <2>4. UNCHANGED <<store, container, log, up, stopping, pos, verdict, streams, got, crashes>>
    BY <1>5 DEF InsertRow, docker
  <2>5. /\ create' \in [Session -> {"new", "start", "insert", "over"}]
        /\ row' \in [Session -> {"none", "running"} \cup Ended]
        /\ drain' \in [Session -> {"off", "attach", "read", "broken", "fail",
                                   "inspect", "short", "save", "halt", "remove"}]
    <3>1. row' \in [Session -> {"none", "running"} \cup Ended]
      BY <2>1
    <3>2. drain' \in [Session -> {"off", "attach", "read", "broken", "fail",
                                  "inspect", "short", "save", "halt", "remove"}]
      BY <2>2
    <3>3. QED
      BY <2>3, <3>1, <3>2
  <2>6. QED
    BY <2>4, <2>5 DEF streams
<1>6. CASE CancelCreate(s)
  <2>1. row' \in {row, [row EXCEPT ![s] = "running"]}
    BY <1>6 DEF CancelCreate
  <2>2. container' \in {container, [container EXCEPT ![s] = "running"]}
    BY <1>6 DEF CancelCreate
  <2>3. create' = [create EXCEPT ![s] = "over"]
    BY <1>6 DEF CancelCreate, Create
  <2>4. row' \in [Session -> {"none", "running"} \cup Ended]
    BY <2>1
  <2>5. container' \in [Session -> {"none", "created", "running", "exited", "removed"}]
    BY <2>2
  <2>6. create' \in [Session -> {"new", "start", "insert", "over"}]
    BY <2>3
  <2>7. UNCHANGED <<store, log, up, stopping, drain, pos, verdict, streams, got, crashes>>
    BY <1>6 DEF CancelCreate
  <2>8. QED
    BY <2>4, <2>5, <2>6, <2>7 DEF streams
<1>7. QED
  BY <1>1, <1>2, <1>3, <1>4, <1>5, <1>6

(* The place of a drain after one more line.                               *)
LEMMA Advance ==
  ASSUME NEW f \in [Session -> Nat], NEW s \in Session
  PROVE  [f EXCEPT ![s] = f[s] + 1] \in [Session -> Nat]
OBVIOUS

LEMMA TypeDrain ==
  ASSUME TypeOK, NEW s \in Session, DrainStep(s)
  PROVE  TypeOK'
<1> USE DEF TypeOK, Ended, Drain
<1>1. CASE Attach(s)
  BY <1>1 DEF Attach, db, docker, streams
<1>2. CASE ReadEvent(s)
  <2>1. log[s][pos[s] + 1] \in EventLine
    BY <1>2, EventLines DEF ReadEvent
  <2>2. ASSUME NEW l \in EventLine, Persist(s, l)
        PROVE  store' \in [Session -> SUBSET EventLine]
    <3>1. store[s] \cup {l} \in SUBSET EventLine
      OBVIOUS
    <3>2. store' \in {store, [store EXCEPT ![s] = store[s] \cup {l}]}
      BY <2>2 DEF Persist
    <3>3. CASE store' = store
      BY <3>3
    <3>4. CASE store' = [store EXCEPT ![s] = store[s] \cup {l}]
      BY <3>1, <3>4
    <3>5. QED
      BY <3>2, <3>3, <3>4
  <2>3. store' \in [Session -> SUBSET EventLine]
    BY <1>2, <2>1, <2>2 DEF ReadEvent
  <2>4. drain' \in {drain, [drain EXCEPT ![s] = "broken"]}
    BY <1>2 DEF ReadEvent
  <2>5. pos' \in [Session -> Nat]
    <3>1. pos \in [Session -> Nat]
      OBVIOUS
    <3>2. pos' = pos \/ pos' = [pos EXCEPT ![s] = pos[s] + 1]
      BY <1>2 DEF ReadEvent
    <3>3. QED
      BY <3>1, <3>2, Advance
  <2>6. drain' \in [Session -> {"off", "attach", "read", "broken", "fail",
                               "inspect", "short", "save", "halt", "remove"}]
    BY <2>4
  <2>7. UNCHANGED <<row, container, log, up, create, stopping, verdict, streams, got, crashes>>
    BY <1>2 DEF ReadEvent, docker
  <2>8. QED
    BY <2>3, <2>5, <2>6, <2>7 DEF streams
<1>3. CASE ReadError(s)
  BY <1>3 DEF ReadError, db, docker, streams
<1>4. CASE ReadEnd(s)
  BY <1>4 DEF ReadEnd, db, docker, streams
<1>5. CASE Inspect(s)
  BY <1>5 DEF Inspect, StatusOf, db, docker, streams
<1>6. CASE Save(s)
  BY <1>6 DEF Save, SetState, docker, streams
<1>7. CASE Fail(s)
  BY <1>7 DEF Fail, SetState, docker, streams
<1>8. CASE GiveUp(s)
  BY <1>8 DEF GiveUp, SetState, docker, streams
<1>9. CASE DrainHalts(s)
  BY <1>9 DEF DrainHalts, StopContainer, db, streams
<1>10. CASE DrainRemoves(s)
  BY <1>10 DEF DrainRemoves, RemoveContainer, db, streams
<1>11. QED
  BY <1>1, <1>2, <1>3, <1>4, <1>5, <1>6, <1>7, <1>8, <1>9, <1>10 DEF DrainStep

LEMMA TypeStop ==
  ASSUME TypeOK, NEW s \in Session, StopBegins(s) \/ StopStep(s) \/ CancelStop(s)
  PROVE  TypeOK'
<1> USE DEF TypeOK, Ended, Stopping
<1>1. CASE StopBegins(s)
  BY <1>1 DEF StopBegins, db, docker, streams
<1>2. CASE StopHalts(s)
  BY <1>2 DEF StopHalts, StopContainer, db, streams
<1>3. CASE StopRemoves(s)
  BY <1>3 DEF StopRemoves, RemoveContainer, db, streams
<1>4. CASE StopMarks(s)
  BY <1>4 DEF StopMarks, SetState, docker, streams
<1>5. CASE CancelStop(s)
  BY <1>5 DEF CancelStop, db, docker, streams
<1>6. QED
  BY <1>1, <1>2, <1>3, <1>4, <1>5 DEF StopStep

LEMMA TypeServer ==
  ASSUME TypeOK, Crash \/ Boot
  PROVE  TypeOK'
<1> USE DEF TypeOK, Ended
<1>1. CASE Crash
  <2>1. create' \in [Session -> {"new", "start", "insert", "over"}]
    BY <1>1 DEF Crash
  <2>2. /\ stopping' \in [Session -> {"idle", "halt", "remove", "mark"}]
        /\ drain' \in [Session -> {"off", "attach", "read", "broken", "fail",
                                   "inspect", "short", "save", "halt", "remove"}]
        /\ stream' \in [Watcher -> {"closed", "poll", "send", "over"}]
    BY <1>1 DEF Crash
  <2>3. /\ chan' \in [Watcher -> Seq(EventLine)]
        /\ batch' \in [Watcher -> SUBSET EventLine]
        /\ dangling' \in [Watcher -> SUBSET Nat]
    BY <1>1 DEF Crash
  <2>4. UNCHANGED <<row, store, container, log, pos, verdict, sid, next, got>>
    BY <1>1 DEF Crash, db, docker
  <2>5. crashes' \in Nat
    BY <1>1 DEF Crash
  <2>6. up' \in BOOLEAN
    BY <1>1, Zenon DEF Crash
  <2>7. QED
    BY <2>1, <2>2, <2>3, <2>4, <2>5, <2>6
<1>2. CASE Boot
  BY <1>2 DEF Boot, db, docker, streams
<1>3. QED
  BY <1>1, <1>2

Watch(w) == \/ OpenStream(w) \/ StreamStep(w) \/ Receive(w) \/ EndOfStream(w)
            \/ Leave(w) \/ \E n \in dangling[w] : DanglingEnds(w, n)

LEMMA TypeStream ==
  ASSUME TypeOK, NEW w \in Watcher, Watch(w)
  PROVE  TypeOK'
<1> USE DEF TypeOK
<1>1. CASE OpenStream(w)
  <2>1. got[w] # <<>> => got[w][Len(got[w])] \in EventLine
    OBVIOUS
  <2>2. Resume(w) \in Nat
    BY <2>1 DEF Resume, EventLine
  <2>3. QED
    BY <1>1, <2>2 DEF OpenStream, db, docker, tasks
<1>2. CASE Poll(w)
  <2>1. Since(sid[w], next[w]) \subseteq EventLine
    BY DEF Since
  <2>2. batch' \in {batch, [batch EXCEPT ![w] = Since(sid[w], next[w])]}
    BY <1>2 DEF Poll
  <2>3. stream' \in {[stream EXCEPT ![w] = "send"], [stream EXCEPT ![w] = "over"]}
    BY <1>2 DEF Poll
  <2>4. batch' \in [Watcher -> SUBSET EventLine]
    BY <2>1, <2>2
  <2>5. stream' \in [Watcher -> {"closed", "poll", "send", "over"}]
    BY <2>3
  <2>6. UNCHANGED <<row, store, container, log, up, create, stopping, drain, pos,
                    verdict, sid, next, chan, dangling, got, crashes>>
    BY <1>2 DEF Poll, db, docker, tasks
  <2>7. QED
    BY <2>4, <2>5, <2>6
<1>3. CASE Send(w)
  <2>1. PICK l \in batch[w] :
         /\ chan' = [chan EXCEPT ![w] = Append(@, l)]
         /\ next' = [next EXCEPT ![w] = l.seq + 1]
         /\ batch' = [batch EXCEPT ![w] = IF IsFinal(l) THEN {} ELSE @ \ {l}]
         /\ stream' = [stream EXCEPT ![w] = IF IsFinal(l) THEN "over"
                                            ELSE IF batch[w] = {l} THEN "poll" ELSE "send"]
    BY <1>3 DEF Send
  <2>2. l \in EventLine /\ l.seq \in Nat
    BY DEF EventLine
  <2>3. Append(chan[w], l) \in Seq(EventLine)
    BY <2>2
  <2>4. chan' \in [Watcher -> Seq(EventLine)]
    BY <2>1, <2>3
  <2>5. QED
    BY <1>3, <2>1, <2>2, <2>4 DEF Send, db, docker, tasks
<1>4. CASE Receive(w)
  <2>1. Head(chan[w]) \in EventLine /\ Tail(chan[w]) \in Seq(EventLine)
    BY <1>4 DEF Receive
  <2>2. Append(got[w], Head(chan[w])) \in Seq(EventLine)
    BY <2>1
  <2>3. QED
    BY <1>4, <2>1, <2>2 DEF Receive, db, docker, tasks
<1>5. CASE EndOfStream(w)
  BY <1>5 DEF EndOfStream, db, docker, tasks
<1>6. CASE Leave(w)
  BY <1>6 DEF Leave, db, docker, tasks
<1>7. ASSUME NEW n \in dangling[w], DanglingEnds(w, n)
      PROVE  TypeOK'
  BY <1>7 DEF DanglingEnds, db, docker, tasks
<1>8. QED
  BY <1>1, <1>2, <1>3, <1>4, <1>5, <1>6, <1>7 DEF Watch, StreamStep

LEMMA TypeStep == TypeOK /\ [Next]_vars => TypeOK'
<1>1. SUFFICES ASSUME TypeOK, [Next]_vars PROVE TypeOK'
  OBVIOUS
<1>2. CASE UNCHANGED vars
  BY <1>1, <1>2 DEF TypeOK, vars, db, docker, tasks, streams
<1>3. QED
  BY <1>1, <1>2, TypeContainer, TypeDrain, TypeStop, TypeServer, TypeStream DEF Next, Watch

(* Every variable of the sessions keeps its type: rows, containers, tasks  *)
(* and streams only take the values their code writes.                     *)
THEOREM TypeCorrect == Spec => []TypeOK
BY TypeInit, TypeStep, PTL DEF Spec

-----------------------------------------------------------------------------
(* The log of an agent: event i carries number i - 1, and only the last line *)
(* may be something else.                                                  *)
Numbered(g) == \A i \in 1..Len(g) : /\ IsEvent(g[i]) => g[i].seq = i - 1
                                    /\ i < Len(g) => IsEvent(g[i])

LogShape == \A s \in Session : Numbered(log[s])

(* How far the store has got, and with it every drain: what makes           *)
(* EventsStored inductive is that no drain is ever ahead of the store.      *)
Reached(s, n) == store[s] = Prefix(s, n) /\ pos[s] <= n
Stored == \A s \in Session : \E n \in 0..Len(log[s]) : Reached(s, n)

StoreInv == TypeOK /\ LogShape /\ Stored

LEMMA StoreInit == Init => StoreInv
<1>1. SUFFICES ASSUME Init PROVE LogShape /\ Stored
  BY TypeInit DEF StoreInv
<1>2. LogShape
  BY <1>1 DEF Init, LogShape, Numbered
<1>3. ASSUME NEW s \in Session
      PROVE  0 \in 0..Len(log[s]) /\ Reached(s, 0)
  BY <1>1 DEF Init, Reached, Prefix
<1>4. QED
  BY <1>2, <1>3 DEF Stored

(* Steps that write no line, store no event and move no drain.             *)
LEMMA StoreStutter ==
  ASSUME StoreInv, TypeOK', UNCHANGED <<log, store, pos>>
  PROVE  StoreInv'
BY DEF StoreInv, LogShape, Stored, Reached, Prefix, Numbered

LEMMA StoreWrites ==
  ASSUME StoreInv, TypeOK', NEW s \in Session, AgentWrites(s)
  PROVE  StoreInv'
<1>1. PICK l \in Follow(log[s]) : log' = [log EXCEPT ![s] = Append(@, l)]
  BY DEF AgentWrites
<1>2. UNCHANGED <<store, pos>>
  BY DEF AgentWrites, db, tasks
<1>3. log \in [Session -> Seq(Line)]
  BY DEF StoreInv, TypeOK
<1>4. /\ l \in Line
      /\ IsEvent(l) => l.seq = Len(log[s])
      /\ log[s] = <<>> \/ IsEvent(log[s][Len(log[s])])
  BY <1>1, <1>3, Follows
<1>5. /\ Len(log'[s]) = Len(log[s]) + 1
      /\ Len(log[s]) \in Nat
      /\ log'[s][Len(log[s]) + 1] = l
      /\ \A i \in 1..Len(log[s]) : log'[s][i] = log[s][i]
  BY <1>1, <1>3, <1>4
<1>6. Numbered(log'[s])
  <2>1. SUFFICES ASSUME NEW i \in 1..(Len(log[s]) + 1)
                 PROVE  /\ IsEvent(log'[s][i]) => log'[s][i].seq = i - 1
                        /\ i < Len(log[s]) + 1 => IsEvent(log'[s][i])
    BY <1>5 DEF Numbered
  <2>2. CASE i = Len(log[s]) + 1
    BY <2>2, <1>4, <1>5
  <2>3. CASE i \in 1..Len(log[s])
    <3>1. Numbered(log[s])
      BY DEF StoreInv, LogShape
    <3>2. IsEvent(log[s][i])
      BY <2>3, <3>1, <1>4, <1>5 DEF Numbered
    <3>3. QED
      BY <2>3, <3>1, <3>2, <1>5 DEF Numbered
  <2>4. QED
    BY <2>2, <2>3, <1>5
<1>7. \A r \in Session : r # s => log'[r] = log[r]
  BY <1>1, <1>3
<1>8. LogShape'
  BY <1>6, <1>7 DEF StoreInv, LogShape
<1>9. ASSUME NEW r \in Session
      PROVE  \E n \in 0..Len(log'[r]) : Reached(r, n)'
  <2>1. PICK n \in 0..Len(log[r]) : Reached(r, n)
    BY DEF StoreInv, Stored
  <2>2. /\ Len(log[r]) \in Nat
        /\ Len(log[r]) <= Len(log'[r])
        /\ \A i \in 1..Len(log[r]) : log'[r][i] = log[r][i]
    BY <1>3, <1>5, <1>7
  <2>3. Prefix(r, n)' = Prefix(r, n)
    BY <2>2 DEF Prefix
  <2>4. n \in 0..Len(log'[r])
    BY <2>2, <1>5, <1>7
  <2>5. QED
    BY <2>1, <2>3, <2>4, <1>2 DEF Reached
<1>10. QED
  BY <1>8, <1>9 DEF StoreInv, Stored

LEMMA StoreReads ==
  ASSUME StoreInv, TypeOK', NEW s \in Session, ReadEvent(s)
  PROVE  StoreInv'
<1>1. UNCHANGED log /\ LogShape'
  BY DEF ReadEvent, docker, StoreInv, LogShape, Numbered
<1>2. CASE UNCHANGED <<store, pos>>
  BY <1>1, <1>2, StoreStutter
<1>3. CASE /\ Persist(s, log[s][pos[s] + 1])
           /\ pos' = [pos EXCEPT ![s] = @ + 1]
  <2> DEFINE p == pos[s]
             l == log[s][p + 1]
  <2>1. /\ log \in [Session -> Seq(Line)] /\ p \in Nat /\ p < Len(log[s])
        /\ pos \in [Session -> Nat] /\ store \in [Session -> SUBSET EventLine]
    BY DEF ReadEvent, StoreInv, TypeOK
  <2>2. IsEvent(l) /\ l.seq = p
    BY <2>1 DEF ReadEvent, StoreInv, LogShape, Numbered
  <2>3. PICK n \in 0..Len(log[s]) : Reached(s, n)
    BY DEF StoreInv, Stored
  <2>4. /\ pos'[s] = p + 1
        /\ \A r \in Session : r # s => pos'[r] = pos[r] /\ store'[r] = store[r]
    BY <1>3, <2>1 DEF Persist
  <2>5. \E m \in 0..Len(log[s]) : store'[s] = Prefix(s, m) /\ p + 1 <= m
    <3>1. CASE p < n
      <4>1. l \in store[s]
        BY <2>3, <2>1, <3>1 DEF Reached, Prefix
      <4>2. store'[s] = store[s]
        BY <1>3, <4>1, <2>1, <2>2 DEF Persist
      <4>3. QED
        BY <4>2, <2>3, <2>1, <3>1 DEF Reached
    <3>2. CASE p = n
      <4>1. \A i \in 1..n : IsEvent(log[s][i]) /\ log[s][i].seq = i - 1
        BY <2>1, <3>2 DEF StoreInv, LogShape, Numbered
      <4>2. \A r \in store[s] : r.seq # p
        BY <4>1, <2>3, <3>2, <2>1 DEF Reached, Prefix
      <4>3. store'[s] = store[s] \cup {l}
        BY <1>3, <4>2, <2>1, <2>2 DEF Persist
      <4>4. Prefix(s, n + 1) = Prefix(s, n) \cup {l}
        BY <3>2, <2>1 DEF Prefix
      <4>5. store'[s] = Prefix(s, n + 1)
        BY <4>3, <4>4, <2>3 DEF Reached
      <4>6. n + 1 \in 0..Len(log[s]) /\ p + 1 <= n + 1
        BY <2>1, <3>2
      <4>7. QED
        BY <4>5, <4>6
    <3>3. QED
      BY <3>1, <3>2, <2>1, <2>3 DEF Reached
  <2>6. ASSUME NEW r \in Session
        PROVE  \E m \in 0..Len(log'[r]) : Reached(r, m)'
    <3>1. \A m : Prefix(r, m)' = Prefix(r, m)
      BY <1>1 DEF Prefix
    <3>2. CASE r = s
      BY <3>1, <3>2, <2>4, <2>5, <1>1 DEF Reached
    <3>3. CASE r # s
      BY <3>1, <3>3, <2>4, <1>1 DEF Reached, StoreInv, Stored
    <3>4. QED
      BY <3>2, <3>3
  <2>7. QED
    BY <1>1, <2>6 DEF StoreInv, Stored
<1>4. QED
  BY <1>2, <1>3 DEF ReadEvent

LEMMA StoreBoot ==
  ASSUME StoreInv, TypeOK', Boot
  PROVE  StoreInv'
<1>1. UNCHANGED <<log, store>> /\ LogShape'
  BY DEF Boot, db, docker, StoreInv, LogShape, Numbered
<1>2. ASSUME NEW s \in Session
      PROVE  pos'[s] \in {0, pos[s]}
  BY DEF Boot, StoreInv, TypeOK
<1>3. ASSUME NEW s \in Session
      PROVE  \E n \in 0..Len(log'[s]) : Reached(s, n)'
  <2>1. PICK n \in 0..Len(log[s]) : Reached(s, n)
    BY DEF StoreInv, Stored
  <2>2. pos'[s] <= n
    <3>1. pos[s] \in Nat /\ Len(log[s]) \in Nat
      BY DEF StoreInv, TypeOK
    <3>2. QED
      BY <2>1, <3>1, <1>2 DEF Reached
  <2>3. QED
    BY <2>1, <2>2, <1>1 DEF Reached, Prefix
<1>4. QED
  BY <1>1, <1>3 DEF StoreInv, Stored

LEMMA StoreStep == StoreInv /\ [Next]_vars => StoreInv'
<1>1. SUFFICES ASSUME StoreInv, [Next]_vars PROVE StoreInv'
  OBVIOUS
<1>2. TypeOK'
  BY <1>1, TypeStep DEF StoreInv
<1>3. ASSUME NEW s \in Session, AgentWrites(s)
      PROVE  StoreInv'
  BY <1>1, <1>2, <1>3, StoreWrites
<1>4. ASSUME NEW s \in Session, ReadEvent(s)
      PROVE  StoreInv'
  BY <1>1, <1>2, <1>4, StoreReads
<1>5. CASE Boot
  BY <1>1, <1>2, <1>5, StoreBoot
<1>6. ASSUME NEW s \in Session,
             \/ AgentExits(s) \/ SpawnCreates(s) \/ SpawnStarts(s) \/ InsertRow(s)
             \/ CancelCreate(s) \/ StopBegins(s) \/ StopStep(s) \/ CancelStop(s)
      PROVE  UNCHANGED <<log, store, pos>>
  BY <1>6 DEF AgentExits, SpawnCreates, SpawnStarts, InsertRow, CancelCreate, StopBegins,
              StopStep, StopHalts, StopRemoves, StopMarks, CancelStop, db, docker, tasks
<1>7. ASSUME NEW s \in Session, DrainStep(s), ~ReadEvent(s)
      PROVE  UNCHANGED <<log, store, pos>>
  BY <1>7 DEF DrainStep, Attach, ReadError, ReadEnd, Inspect, Save, Fail, GiveUp,
              DrainHalts, DrainRemoves, db, docker
<1>8. ASSUME NEW w \in Watcher, Watch(w)
      PROVE  UNCHANGED <<log, store, pos>>
  BY <1>8 DEF Watch, OpenStream, StreamStep, Poll, Send, Receive, EndOfStream, Leave,
              DanglingEnds, db, docker, tasks
<1>9. CASE Crash
  <2>1. UNCHANGED <<log, store, pos>>
    BY <1>9 DEF Crash, db, docker
  <2>2. QED
    BY <2>1, <1>1, <1>2, StoreStutter
<1>10. CASE UNCHANGED vars
  <2>1. UNCHANGED <<log, store, pos>>
    BY <1>10 DEF vars, db, docker, tasks
  <2>2. QED
    BY <2>1, <1>1, <1>2, StoreStutter
<1>11. QED
  BY <1>1, <1>2, <1>3, <1>4, <1>5, <1>6, <1>7, <1>8, <1>9, <1>10, StoreStutter
     DEF Next, Watch

LEMMA StoreAlways == Spec => []StoreInv
BY StoreInit, StoreStep, PTL DEF Spec

(* However often the server crashes, boots and replays a log, and whichever *)
(* statement or Docker call fails, a session's stored events are its       *)
(* agent's first events (drain, persist_event, reconcile).                 *)
THEOREM StoredCorrect == Spec => []EventsStored
<1>1. StoreInv => EventsStored
  BY DEF StoreInv, Stored, Reached, EventsStored
<1>2. QED
  BY <1>1, StoreAlways, PTL

-----------------------------------------------------------------------------
(* A watcher: what it has received (a) and what is on its way to it (b) are *)
(* the first lines of the log (g), and its task goes on from there.        *)
Track(a, b, g) == /\ Len(a) + Len(b) <= Len(g)
                  /\ \A i \in 1..Len(a) : a[i] = g[i]
                  /\ \A i \in 1..Len(b) : b[i] = g[Len(a) + i]

Lines(g, k, m) == {g[i] : i \in (k + 1)..m}

Task(st, nx, bt, b, k, g) ==
  /\ st = "closed" => b = <<>>
  /\ st \in {"poll", "send"} => nx = k
  /\ st = "send" => \E m \in 0..Len(g) : bt = Lines(g, k, m)

Served(w, g) ==
  /\ Track(got[w], chan[w], g)
  /\ Task(stream[w], next[w], batch[w], chan[w], Len(got[w]) + Len(chan[w]), g)

Delivered == \A w \in Watcher : Served(w, log[sid[w]])

StreamInv == StoreInv /\ Delivered

LEMMA NatSums ==
  \A x, y \in Nat : /\ x + y \in Nat /\ x <= x + y
                    /\ x + (y + 1) = (x + y) + 1
                    /\ \A z \in Nat : x + y <= z => x <= z
OBVIOUS

LEMMA TrackGrows ==
  ASSUME NEW a \in Seq(Line), NEW b \in Seq(Line), NEW g \in Seq(Line), NEW h \in Seq(Line),
         Track(a, b, g), Len(g) <= Len(h), \A i \in 1..Len(g) : h[i] = g[i]
  PROVE  Track(a, b, h)
<1>1. Len(a) \in Nat /\ Len(b) \in Nat /\ Len(g) \in Nat /\ Len(h) \in Nat
  OBVIOUS
<1>2. \A i \in 1..Len(a) : i \in 1..Len(g)
  BY <1>1 DEF Track
<1>3. \A i \in 1..Len(b) : Len(a) + i \in 1..Len(g)
  BY <1>1 DEF Track
<1>4. Len(a) + Len(b) <= Len(h)
  BY <1>1 DEF Track
<1>5. QED
  BY <1>2, <1>3, <1>4 DEF Track

LEMMA TrackSend ==
  ASSUME NEW a \in Seq(Line), NEW b \in Seq(Line), NEW g \in Seq(Line),
         Track(a, b, g), Len(a) + Len(b) < Len(g), NEW l \in Line,
         l = g[Len(a) + Len(b) + 1]
  PROVE  Track(a, Append(b, l), g)
<1>1. /\ Len(a) \in Nat /\ Len(b) \in Nat /\ Len(g) \in Nat
      /\ Len(Append(b, l)) = Len(b) + 1
      /\ Append(b, l)[Len(b) + 1] = l
      /\ \A i \in 1..Len(b) : Append(b, l)[i] = b[i]
  OBVIOUS
<1>2. Len(a) + (Len(b) + 1) = Len(a) + Len(b) + 1
  BY <1>1
<1>3. ASSUME NEW i \in 1..(Len(b) + 1)
      PROVE  Append(b, l)[i] = g[Len(a) + i]
  <2>1. CASE i = Len(b) + 1
    BY <2>1, <1>1, <1>2
  <2>2. CASE i \in 1..Len(b)
    BY <2>2, <1>1 DEF Track
  <2>3. QED
    BY <2>1, <2>2, <1>1
<1>4. Len(a) + (Len(b) + 1) <= Len(g)
  BY <1>1
<1>5. QED
  BY <1>1, <1>3, <1>4 DEF Track

LEMMA TrackReceive ==
  ASSUME NEW a \in Seq(Line), NEW b \in Seq(Line), NEW g \in Seq(Line),
         Track(a, b, g), b # <<>>
  PROVE  /\ Track(Append(a, Head(b)), Tail(b), g)
         /\ Len(Append(a, Head(b))) + Len(Tail(b)) = Len(a) + Len(b)
<1> DEFINE c == Append(a, Head(b))
           t == Tail(b)
<1>1. /\ Len(a) \in Nat /\ Len(b) \in Nat /\ Len(g) \in Nat /\ Len(b) >= 1
      /\ Len(c) = Len(a) + 1 /\ c[Len(a) + 1] = b[1]
      /\ \A i \in 1..Len(a) : c[i] = a[i]
      /\ Len(t) = Len(b) - 1 /\ \A i \in 1..(Len(b) - 1) : t[i] = b[i + 1]
  OBVIOUS
<1>2. ASSUME NEW i \in 1..(Len(a) + 1)
      PROVE  c[i] = g[i]
  <2>1. CASE i = Len(a) + 1
    <3>1. b[1] = g[Len(a) + 1]
      BY <1>1 DEF Track
    <3>2. QED
      BY <3>1, <2>1, <1>1
  <2>2. CASE i \in 1..Len(a)
    BY <2>2, <1>1 DEF Track
  <2>3. QED
    BY <2>1, <2>2, <1>1
<1>3. ASSUME NEW i \in 1..(Len(b) - 1)
      PROVE  t[i] = g[Len(a) + 1 + i]
  <2>1. i + 1 \in 1..Len(b) /\ Len(a) + (i + 1) = Len(a) + 1 + i
    BY <1>1
  <2>2. b[i + 1] = g[Len(a) + (i + 1)]
    BY <2>1 DEF Track
  <2>3. QED
    BY <2>1, <2>2, <1>1
<1>4. Len(c) + Len(t) = Len(a) + Len(b)
  BY <1>1
<1> HIDE DEF c, t
<1>5. QED
  <2>1. Track(c, t, g)
    BY <1>1, <1>2, <1>3, <1>4 DEF Track
  <2>2. QED
    BY <2>1, <1>4 DEF c, t

(* The unsent lines of a numbered log: the one with the least number is the *)
(* next line, and the others are what remains.                             *)
LEMMA LeastLine ==
  ASSUME NEW g \in Seq(Line), NEW k \in Nat, NEW m \in 0..Len(g), Numbered(g),
         NEW l \in Lines(g, k, m), Lines(g, k, m) \subseteq EventLine,
         \A r \in Lines(g, k, m) : l.seq <= r.seq
  PROVE  /\ k < Len(g) /\ l = g[k + 1] /\ l.seq = k
         /\ Lines(g, k, m) \ {l} = Lines(g, k + 1, m)
<1>1. PICK j \in (k + 1)..m : l = g[j]
  BY DEF Lines
<1>2. Len(g) \in Nat /\ k < Len(g) /\ k + 1 \in (k + 1)..m
  BY <1>1
<1>3. ASSUME NEW i \in (k + 1)..m
      PROVE  g[i].seq = i - 1
  <2>1. i \in 1..Len(g)
    BY <1>2
  <2>2. g[i] \in EventLine
    BY DEF Lines
  <2>3. QED
    BY <2>1, <2>2 DEF Numbered, IsEvent, EventLine
<1>4. g[k + 1] \in Lines(g, k, m)
  BY <1>2 DEF Lines
<1>5. j - 1 <= (k + 1) - 1
  BY <1>1, <1>2, <1>3, <1>4
<1>6. j = k + 1
  BY <1>1, <1>5
<1>7. l = g[k + 1] /\ l.seq = k
  BY <1>1, <1>3, <1>6
<1>8. \A i \in (k + 2)..m : g[i] # l
  <2>1. SUFFICES ASSUME NEW i \in (k + 2)..m PROVE g[i] # l
    OBVIOUS
  <2>2. g[i].seq = i - 1
    BY <1>3
  <2>3. QED
    BY <2>2, <1>7
<1>9. Lines(g, k, m) \ {l} \subseteq Lines(g, k + 1, m)
  <2>1. SUFFICES ASSUME NEW i \in (k + 1)..m, g[i] # l
                 PROVE  i \in (k + 1 + 1)..m
    BY DEF Lines
  <2>2. i # k + 1
    BY <2>1, <1>7
  <2>3. QED
    BY <2>2
<1>10. Lines(g, k + 1, m) \subseteq Lines(g, k, m) \ {l}
  <2>1. SUFFICES ASSUME NEW i \in (k + 1 + 1)..m
                 PROVE  g[i] \in Lines(g, k, m) /\ g[i] # l
    BY DEF Lines
  <2>2. i \in (k + 1)..m /\ i \in (k + 2)..m
    OBVIOUS
  <2>3. QED
    BY <2>2, <1>8 DEF Lines
<1>11. QED
  BY <1>2, <1>7, <1>9, <1>10

LEMMA StreamInit == Init => StreamInv
<1>1. SUFFICES ASSUME Init, NEW w \in Watcher PROVE Served(w, log[sid[w]])
  BY StoreInit DEF StreamInv, Delivered
<1>2. /\ got[w] = <<>> /\ chan[w] = <<>> /\ stream[w] = "closed"
      /\ log[sid[w]] = <<>>
  BY <1>1 DEF Init
<1>3. QED
  BY <1>2 DEF Served, Track, Task

(* A log only grows.                                                       *)
LEMMA LogGrows ==
  ASSUME TypeOK, [Next]_vars, NEW s \in Session
  PROVE  /\ Len(log[s]) <= Len(log'[s])
         /\ \A i \in 1..Len(log[s]) : log'[s][i] = log[s][i]
<1>1. ASSUME NEW r \in Session, AgentWrites(r)
      PROVE  /\ Len(log[s]) <= Len(log'[s])
             /\ \A i \in 1..Len(log[s]) : log'[s][i] = log[s][i]
  <2>1. PICK l \in Follow(log[r]) : log' = [log EXCEPT ![r] = Append(@, l)]
    BY <1>1 DEF AgentWrites
  <2>2. log \in [Session -> Seq(Line)] /\ l \in Line
    BY <2>1, Follows DEF TypeOK
  <2>3. CASE s = r
    BY <2>1, <2>2, <2>3
  <2>4. CASE s # r
    BY <2>1, <2>2, <2>4
  <2>5. QED
    BY <2>3, <2>4
<1>2. CASE UNCHANGED log
  BY <1>2 DEF TypeOK
<1>3. CASE /\ [Next]_vars
           /\ \A r \in Session : ~AgentWrites(r)
  <2>1. CASE UNCHANGED vars
    BY <2>1, <1>2 DEF vars, docker
  <2>2. ASSUME NEW r \in Session, ~AgentWrites(r),
               \/ AgentExits(r) \/ SpawnCreates(r) \/ SpawnStarts(r) \/ InsertRow(r)
               \/ CancelCreate(r) \/ DrainStep(r)
               \/ StopBegins(r) \/ StopStep(r) \/ CancelStop(r)
        PROVE  UNCHANGED log
    BY <2>2 DEF AgentExits, SpawnCreates, SpawnStarts, InsertRow, CancelCreate, StopBegins,
                StopStep, StopHalts, StopRemoves, StopMarks, CancelStop, docker,
                DrainStep, Attach, ReadEvent, ReadError, ReadEnd, Inspect, Save, Fail,
                GiveUp, DrainHalts, DrainRemoves
  <2>3. ASSUME NEW w \in Watcher, Watch(w)
        PROVE  UNCHANGED log
    BY <2>3 DEF Watch, OpenStream, StreamStep, Poll, Send, Receive, EndOfStream, Leave,
                DanglingEnds, docker
  <2>4. CASE Crash \/ Boot
    BY <2>4, <1>2 DEF Crash, Boot, docker
  <2>5. QED
    BY <1>2, <1>3, <2>1, <2>2, <2>3, <2>4 DEF Next, Watch
<1>4. QED
  BY <1>1, <1>3

(* A watcher on whose side nothing happens stays served as its log grows.  *)
LEMMA ServedGrows ==
  ASSUME NEW w \in Watcher, NEW g \in Seq(Line), NEW h \in Seq(Line),
         TypeOK, Served(w, g),
         Len(g) <= Len(h), \A i \in 1..Len(g) : h[i] = g[i]
  PROVE  Served(w, h)
<1>1. got[w] \in Seq(Line) /\ chan[w] \in Seq(Line)
  BY DEF TypeOK, Line
<1>2. Track(got[w], chan[w], h)
  BY <1>1, TrackGrows DEF Served
<1>3. Len(got[w]) + Len(chan[w]) \in Nat
  <2>1. Len(got[w]) \in Nat /\ Len(chan[w]) \in Nat
    BY <1>1
  <2>2. QED
    BY <2>1, NatSums
<1>4. ASSUME NEW k \in Nat, NEW m \in 0..Len(g)
      PROVE  Lines(h, k, m) = Lines(g, k, m) /\ m \in 0..Len(h)
  <2>1. Len(g) \in Nat /\ Len(h) \in Nat
    OBVIOUS
  <2>2. \A i \in (k + 1)..m : i \in 1..Len(g)
    BY <2>1
  <2>3. \A i \in (k + 1)..m : h[i] = g[i]
    BY <2>2
  <2>4. QED
    BY <2>1, <2>3 DEF Lines
<1>5. QED
  BY <1>2, <1>3, <1>4 DEF Served, Task

(* The steps of the watcher itself and of the task that serves it. g is the *)
(* log of its session, which they leave alone.                             *)
LEMMA WatchServed ==
  ASSUME StreamInv, NEW w \in Watcher, Watch(w), NEW g, g = log[sid[w]]
  PROVE  Served(w, g)'
<1>1. /\ sid[w] \in Session /\ g \in Seq(Line) /\ Len(g) \in Nat
      /\ Served(w, g) /\ Numbered(g)
      /\ got[w] \in Seq(EventLine) /\ chan[w] \in Seq(EventLine)
      /\ got[w] \in Seq(Line) /\ chan[w] \in Seq(Line) /\ next[w] \in Nat
  BY DEF StreamInv, Delivered, StoreInv, LogShape, TypeOK, Line
<1>2. /\ stream \in [Watcher -> {"closed", "poll", "send", "over"}]
      /\ next \in [Watcher -> Nat] /\ batch \in [Watcher -> SUBSET EventLine]
      /\ chan \in [Watcher -> Seq(EventLine)] /\ got \in [Watcher -> Seq(EventLine)]
  BY DEF StreamInv, StoreInv, TypeOK
<1>3. Len(got[w]) \in Nat /\ Len(chan[w]) \in Nat
  BY <1>1
<1>4. /\ Track(got[w], chan[w], g)
      /\ Task(stream[w], next[w], batch[w], chan[w], Len(got[w]) + Len(chan[w]), g)
  BY <1>1 DEF Served
<1>5. CASE OpenStream(w)
  <2>1. /\ stream'[w] = "poll" /\ next'[w] = Resume(w)
        /\ UNCHANGED <<chan, got>> /\ chan[w] = <<>>
    BY <1>2, <1>4, <1>5 DEF OpenStream, Task
  <2>2. Resume(w) = Len(got[w])
    <3>1. CASE got[w] = <<>>
      BY <3>1 DEF Resume
    <3>2. CASE got[w] # <<>>
      <4>1. got[w][Len(got[w])] \in EventLine /\ Len(got[w]) \in 1..Len(got[w])
        BY <3>2, <1>1
      <4>2. Len(got[w]) \in 1..Len(g)
        <5>1. Len(got[w]) + Len(chan[w]) <= Len(g)
          BY <1>4 DEF Track
        <5>2. Len(got[w]) <= Len(g)
          BY <5>1, <1>1, <1>3, NatSums
        <5>3. QED
          BY <4>1, <5>2, <1>1, <1>3
      <4>3. got[w][Len(got[w])] = g[Len(got[w])]
        BY <4>1, <1>4 DEF Track
      <4>4. IsEvent(g[Len(got[w])])
        BY <4>1, <4>3 DEF IsEvent, EventLine
      <4>5. g[Len(got[w])].seq = Len(got[w]) - 1
        BY <4>2, <4>4, <1>1 DEF Numbered
      <4>6. QED
        BY <3>2, <4>3, <4>5, <1>3 DEF Resume
    <3>3. QED
      BY <3>1, <3>2
  <2>3. QED
    BY <2>1, <2>2, <1>3, <1>4 DEF Served, Task
<1>6. CASE Poll(w)
  <2>1. UNCHANGED <<chan, got, next>> /\ stream[w] = "poll"
    BY <1>6 DEF Poll
  <2>2. CASE stream' = [stream EXCEPT ![w] = "over"]
    BY <2>1, <2>2, <1>2, <1>4 DEF Served, Task
  <2>3. CASE /\ stream' = [stream EXCEPT ![w] = "send"]
             /\ batch' = [batch EXCEPT ![w] = Since(sid[w], next[w])]
    <3>1. PICK n \in 0..Len(g) : store[sid[w]] = {g[i] : i \in 1..n}
      BY <1>1, SMTT(20) DEF StreamInv, StoreInv, Stored, Reached, Prefix
    <3>2. store[sid[w]] \subseteq EventLine
      BY <1>1 DEF StreamInv, StoreInv, TypeOK
    <3>3. ASSUME NEW i \in 1..n
          PROVE  g[i] \in EventLine /\ g[i].seq = i - 1
      <4>1. g[i] \in EventLine /\ i \in 1..Len(g)
        BY <3>1, <3>2, <1>1
      <4>2. QED
        BY <4>1, <1>1 DEF Numbered, EventLine, IsEvent
    <3>4. Since(sid[w], next[w]) = Lines(g, next[w], n)
      <4>1. ASSUME NEW l \in Since(sid[w], next[w])
            PROVE  l \in Lines(g, next[w], n)
        <5>1. PICK i \in 1..n : l = g[i]
          BY <4>1, <3>1 DEF Since
        <5>2. i - 1 >= next[w]
          BY <5>1, <3>3 DEF Since
        <5>3. QED
          BY <5>1, <5>2, <1>1 DEF Lines
      <4>2. ASSUME NEW i \in (next[w] + 1)..n
            PROVE  g[i] \in Since(sid[w], next[w])
        <5>1. i \in 1..n /\ i - 1 >= next[w]
          BY <1>1, <3>1
        <5>2. QED
          BY <5>1, <3>1, <3>3 DEF Since
      <4>3. QED
        BY <4>1, <4>2 DEF Lines
    <3>5. batch'[w] = Lines(g, next[w], n) /\ stream'[w] = "send"
      BY <2>3, <3>4, <1>2
    <3>6. next[w] = Len(got[w]) + Len(chan[w])
      BY <2>1, <1>4 DEF Task
    <3>7. QED
      BY <3>1, <3>5, <3>6, <2>1, <1>4 DEF Served, Task
  <2>4. QED
    BY <2>2, <2>3, <1>6 DEF Poll
<1>7. CASE Send(w)
  <2> DEFINE k == Len(got[w]) + Len(chan[w])
  <2>1. PICK l \in batch[w] :
         /\ \A r \in batch[w] : l.seq <= r.seq
         /\ chan' = [chan EXCEPT ![w] = Append(@, l)]
         /\ next' = [next EXCEPT ![w] = l.seq + 1]
         /\ batch' = [batch EXCEPT ![w] = IF IsFinal(l) THEN {} ELSE @ \ {l}]
         /\ stream' = [stream EXCEPT ![w] = IF IsFinal(l) THEN "over"
                                            ELSE IF batch[w] = {l} THEN "poll" ELSE "send"]
    BY <1>7 DEF Send
  <2>2. UNCHANGED got /\ stream[w] = "send"
    BY <1>7 DEF Send
  <2>3. PICK m \in 0..Len(g) : batch[w] = Lines(g, k, m)
    BY <2>2, <1>4 DEF Task
  <2>4. k \in Nat /\ batch[w] \subseteq EventLine
    BY <1>2, <1>3
  <2>5. /\ k < Len(g) /\ l = g[k + 1] /\ l.seq = k
        /\ batch[w] \ {l} = Lines(g, k + 1, m)
    <3>1. /\ l \in Lines(g, k, m) /\ Lines(g, k, m) \subseteq EventLine
          /\ \A r \in Lines(g, k, m) : l.seq <= r.seq
      BY <2>1, <2>3, <2>4
    <3> HIDE DEF k
    <3>2. QED
      BY <3>1, <2>3, <2>4, <1>1, LeastLine
  <2>6. l \in Line
    BY <2>4 DEF Line
  <2>7. Track(got[w], Append(chan[w], l), g)
    BY <2>5, <2>6, <1>1, <1>4, TrackSend
  <2>8. /\ chan'[w] = Append(chan[w], l) /\ next'[w] = k + 1
        /\ Len(Append(chan[w], l)) = Len(chan[w]) + 1
    BY <2>1, <2>5, <2>6, <1>1, <1>2
  <2>9. Len(got[w]) + (Len(chan[w]) + 1) = k + 1
    BY <1>3, NatSums
  <2>10. /\ stream'[w] # "closed"
         /\ stream'[w] = "send" => batch'[w] = Lines(g, k + 1, m)
    BY <2>1, <2>5, <1>2
  <2> HIDE DEF k
  <2>11. QED
    BY <2>2, <2>3, <2>7, <2>8, <2>9, <2>10 DEF Served, Task
<1>8. CASE Receive(w)
  <2>1. /\ chan[w] # <<>>
        /\ got'[w] = Append(got[w], Head(chan[w])) /\ chan'[w] = Tail(chan[w])
        /\ UNCHANGED <<stream, next, batch>>
    BY <1>8, <1>2 DEF Receive
  <2>2. Track(got'[w], chan'[w], g) /\ Len(got'[w]) + Len(chan'[w]) = Len(got[w]) + Len(chan[w])
    BY <2>1, <1>1, <1>4, TrackReceive
  <2>3. QED
    BY <2>1, <2>2, <1>4 DEF Served, Task
<1>9. CASE EndOfStream(w)
  <2>1. /\ stream'[w] = "closed" /\ chan[w] = <<>>
        /\ UNCHANGED <<chan, got, next, batch>>
    BY <1>9, <1>2 DEF EndOfStream
  <2>2. QED
    BY <2>1, <1>4 DEF Served, Task
<1>10. CASE Leave(w)
  <2>1. /\ stream'[w] = "closed" /\ chan'[w] = <<>> /\ UNCHANGED got
    BY <1>10, <1>2 DEF Leave
  <2>2. Track(got[w], <<>>, g)
    <3>1. Len(got[w]) + Len(chan[w]) <= Len(g)
      BY <1>4 DEF Track
    <3>2. Len(got[w]) <= Len(g)
      BY <3>1, <1>1, <1>3, NatSums
    <3>3. Len(got[w]) + 0 = Len(got[w]) /\ Len(<<>>) = 0
      BY <1>3
    <3>4. QED
      BY <3>2, <3>3, <1>4 DEF Track
  <2>3. QED
    BY <2>1, <2>2 DEF Served, Task
<1>11. ASSUME NEW n \in dangling[w], DanglingEnds(w, n)
       PROVE  (Served(w, g))'
  <2>1. UNCHANGED <<stream, next, batch, chan, got>>
    BY <1>11 DEF DanglingEnds
  <2>2. QED
    BY <2>1, <1>4 DEF Served
<1>12. QED
  BY <1>5, <1>6, <1>7, <1>8, <1>9, <1>10, <1>11 DEF Watch, StreamStep

LEMMA StreamStable == StreamInv /\ [Next]_vars => StreamInv'
<1>1. SUFFICES ASSUME StreamInv, [Next]_vars, NEW w \in Watcher
               PROVE  Served(w, log[sid[w]])'
  BY StoreStep DEF StreamInv, Delivered
<1>2. StoreInv /\ StoreInv' /\ TypeOK /\ TypeOK'
  BY <1>1, StoreStep DEF StreamInv, StoreInv
<1>3. PICK g : g = log[sid[w]]
  OBVIOUS
<1>4. PICK h : h = log'[sid'[w]]
  OBVIOUS
<1>5. Served(w, g)
  BY <1>1, <1>3 DEF StreamInv, Delivered
<1>6. SUFFICES Served(w, h)'
  BY <1>4
<1>7. CASE Watch(w)
  <2>1. Served(w, g)'
    BY <1>1, <1>3, <1>7, WatchServed
  <2>2. UNCHANGED <<log, sid>>
    BY <1>7 DEF Watch, OpenStream, StreamStep, Poll, Send, Receive, EndOfStream, Leave,
                DanglingEnds, docker
  <2>3. g = h
    BY <2>2, <1>3, <1>4
  <2>4. QED
    BY <2>1, <2>3
<1>8. CASE Crash
  <2>1. /\ stream'[w] = "closed" /\ chan'[w] = <<>>
        /\ UNCHANGED <<log, sid, got>>
    BY <1>8 DEF Crash, docker
  <2>2. Track(got[w], chan[w], g) /\ g = h
    BY <2>1, <1>3, <1>4, <1>5 DEF Served
  <2>3. /\ Len(got[w]) \in Nat /\ Len(chan[w]) \in Nat
        /\ g \in Seq(Line) /\ Len(g) \in Nat
    BY <1>2, <1>3 DEF TypeOK
  <2>4. Len(got[w]) <= Len(g)
    BY <2>2, <2>3, NatSums DEF Track
  <2>5. Track(got[w], <<>>, g)
    <3>1. Len(got[w]) + 0 = Len(got[w]) /\ Len(<<>>) = 0
      BY <2>3
    <3>2. QED
      BY <2>2, <2>4, <3>1 DEF Track
  <2>6. QED
    BY <2>1, <2>2, <2>5 DEF Served, Task
<1>9. CASE UNCHANGED <<sid[w], stream[w], next[w], batch[w], chan[w], got[w]>>
  <2>1. sid[w] \in Session /\ g \in Seq(Line) /\ h \in Seq(Line)
    BY <1>2, <1>3, <1>4 DEF TypeOK
  <2>2. Len(g) <= Len(h) /\ \A i \in 1..Len(g) : h[i] = g[i]
    BY <2>1, <1>1, <1>2, <1>3, <1>4, <1>9, LogGrows
  <2>3. Served(w, h)
    BY <2>1, <2>2, <1>2, <1>5, ServedGrows
  <2>4. QED
    BY <2>3, <1>9 DEF Served
<1>10. CASE ~Watch(w) /\ ~Crash
  <2>1. ASSUME NEW v \in Watcher, v # w, Watch(v)
        PROVE  UNCHANGED <<sid[w], stream[w], next[w], batch[w], chan[w], got[w]>>
    <3>1. /\ stream \in [Watcher -> {"closed", "poll", "send", "over"}]
          /\ next \in [Watcher -> Nat] /\ batch \in [Watcher -> SUBSET EventLine]
          /\ chan \in [Watcher -> Seq(EventLine)] /\ got \in [Watcher -> Seq(EventLine)]
      BY <1>2 DEF TypeOK
    <3>2. CASE OpenStream(v)
      BY <2>1, <3>1, <3>2 DEF OpenStream
    <3>3. CASE Poll(v)
      BY <2>1, <3>1, <3>3 DEF Poll
    <3>4. CASE Send(v)
      BY <2>1, <3>1, <3>4 DEF Send
    <3>5. CASE Receive(v)
      BY <2>1, <3>1, <3>5 DEF Receive
    <3>6. CASE EndOfStream(v)
      BY <2>1, <3>1, <3>6 DEF EndOfStream
    <3>7. CASE Leave(v)
      BY <2>1, <3>1, <3>7 DEF Leave
    <3>8. CASE \E n \in dangling[v] : DanglingEnds(v, n)
      BY <3>8 DEF DanglingEnds
    <3>9. QED
      BY <2>1, <3>2, <3>3, <3>4, <3>5, <3>6, <3>7, <3>8 DEF Watch, StreamStep
  <2>2. ASSUME NEW s \in Session,
               \/ AgentWrites(s) \/ AgentExits(s) \/ SpawnCreates(s) \/ SpawnStarts(s)
               \/ InsertRow(s) \/ CancelCreate(s) \/ DrainStep(s)
               \/ StopBegins(s) \/ StopStep(s) \/ CancelStop(s)
        PROVE  UNCHANGED <<sid, stream, next, batch, chan, got>>
    BY <2>2 DEF AgentWrites, AgentExits, SpawnCreates, SpawnStarts, InsertRow, CancelCreate,
                StopBegins, StopStep, StopHalts, StopRemoves, StopMarks, CancelStop, streams,
                DrainStep, Attach, ReadEvent, ReadError, ReadEnd, Inspect, Save, Fail,
                GiveUp, DrainHalts, DrainRemoves
  <2>3. Boot \/ UNCHANGED vars => UNCHANGED <<sid, stream, next, batch, chan, got>>
    BY DEF Boot, vars, streams
  <2>4. UNCHANGED <<sid[w], stream[w], next[w], batch[w], chan[w], got[w]>>
    BY <2>1, <2>2, <2>3, <1>1, <1>10 DEF Next, Watch
  <2>5. QED
    BY <2>4, <1>9
<1>11. QED
  BY <1>7, <1>8, <1>10

(* A client that resumes where it stopped receives its session's events in  *)
(* order, each once, whatever crashes, disconnections and failures happen  *)
(* on the way (handle_session_stream, events_since, drain).                *)
THEOREM DeliveryCorrect == Spec => []ReceivedInOrder
<1>1. ASSUME StreamInv, NEW w \in Watcher
      PROVE  IsPrefix(got[w], log[sid[w]])
  <2> DEFINE a == got[w]
             g == log[sid[w]]
  <2>1. /\ a \in Seq(EventLine) /\ g \in Seq(Line)
        /\ Len(a) \in Nat /\ Len(g) \in Nat /\ Len(chan[w]) \in Nat
    BY <1>1 DEF StreamInv, StoreInv, TypeOK
  <2>2. Track(a, chan[w], g)
    BY <1>1 DEF StreamInv, Delivered, Served
  <2>3. Len(a) <= Len(g)
    BY <2>1, <2>2, NatSums DEF Track
  <2>4. \A i \in 1..Len(a) : a[i] = g[i]
    BY <2>2 DEF Track
  <2> HIDE DEF a, g
  <2>5. SubSeq(a, 1, Len(a)) = SubSeq(g, 1, Len(a))
    BY <2>1, <2>3, <2>4
  <2>6. QED
    BY <2>3, <2>5 DEF IsPrefix, a, g
<1>2. StreamInv => ReceivedInOrder
  BY <1>1 DEF ReceivedInOrder
<1>3. QED
  BY <1>2, StreamInit, StreamStable, PTL DEF Spec

-----------------------------------------------------------------------------
(* What 'exited' rests on: the drain records it for a container that has    *)
(* stopped for good, after it has read the log to its end.                 *)
Stopped(s) == container[s] \in {"exited", "removed"}
Complete(s) == \A l \in ToSet(log[s]) : IsEvent(l) => l \in store[s]

(* Nothing but its create request touches a session that has no row.       *)
Early(s) == create[s] # "over" => row[s] = "none" /\ drain[s] = "off" /\ stopping[s] = "idle"
Inspected(s) == drain[s] = "inspect" => Stopped(s) /\ (container[s] = "exited" => Complete(s))
Saving(s) == drain[s] = "save" /\ verdict[s] = "exited" => Stopped(s) /\ Complete(s)
Exited(s) == row[s] = "exited" => Stopped(s) /\ Complete(s)

ExitInv == StoreInv /\ \A s \in Session : Early(s) /\ Inspected(s) /\ Saving(s) /\ Exited(s)

LEMMA ExitInit == Init => ExitInv
<1>1. Init => \A s \in Session : Early(s) /\ Inspected(s) /\ Saving(s) /\ Exited(s)
  BY DEF Init, Early, Inspected, Saving, Exited
<1>2. QED
  BY <1>1, StoreInit DEF ExitInv

(* Reading adds events to the store and removes none.                      *)
LEMMA StoreGrows ==
  ASSUME TypeOK, NEW t \in Session, ReadEvent(t), NEW s \in Session
  PROVE  store[s] \subseteq store'[s]
<1> DEFINE l == log[t][pos[t] + 1]
<1>1. \/ store' = store
      \/ store' = [store EXCEPT ![t] = IF \E r \in @ : r.seq = l.seq THEN @ ELSE @ \cup {l}]
  BY DEF ReadEvent, Persist
<1> HIDE DEF l
<1>2. store \in [Session -> SUBSET EventLine]
  BY DEF TypeOK
<1>3. CASE \E r \in store[t] : r.seq = l.seq
  BY <1>1, <1>2, <1>3
<1>4. CASE ~\E r \in store[t] : r.seq = l.seq
  BY <1>1, <1>2, <1>4
<1>5. QED
  BY <1>3, <1>4

(* Once a session's create request is over, its container does not start    *)
(* again, and a log whose container has stopped does not grow.             *)
Onward(s) ==
  /\ container'[s] # container[s] =>
       container'[s] = "removed" \/ (container[s] = "running" /\ container'[s] = "exited")
  /\ Stopped(s) => log'[s] = log[s]
  /\ store[s] \subseteq store'[s]

LEMMA OnwardStays ==
  ASSUME NEW s \in Session, Onward(s)
  PROVE  /\ Stopped(s) => Stopped(s)'
         /\ Stopped(s) /\ Complete(s) => Complete(s)'
         /\ container'[s] = "exited" /\ Stopped(s) => container[s] = "exited"
BY DEF Onward, Stopped, Complete

LEMMA OnwardContainer ==
  ASSUME TypeOK, NEW t \in Session, NEW s \in Session, create[s] = "over",
         \/ AgentWrites(t) \/ AgentExits(t) \/ SpawnCreates(t) \/ SpawnStarts(t)
         \/ InsertRow(t) \/ CancelCreate(t)
  PROVE  Onward(s)
<1> USE DEF TypeOK
<1>1. CASE AgentWrites(t)
  BY <1>1 DEF AgentWrites, Onward, Stopped, db, tasks
<1>2. CASE AgentExits(t)
  BY <1>2 DEF AgentExits, Onward, Stopped, db
<1>3. CASE SpawnCreates(t) \/ SpawnStarts(t) \/ CancelCreate(t)
  <2>1. t # s
    BY <1>3 DEF SpawnCreates, SpawnStarts, CancelCreate
  <2>2. container'[s] = container[s] /\ UNCHANGED <<log, store>>
    BY <1>3, <2>1 DEF SpawnCreates, SpawnStarts, CancelCreate, db
  <2>3. QED
    BY <2>2 DEF Onward
<1>4. CASE InsertRow(t)
  BY <1>4 DEF InsertRow, Onward, docker
<1>5. QED
  BY <1>1, <1>2, <1>3, <1>4

LEMMA OnwardHalts ==
  ASSUME TypeOK, NEW t \in Session, NEW s \in Session,
         StopContainer(t) \/ RemoveContainer(t), UNCHANGED <<log, store>>
  PROVE  Onward(s)
BY DEF TypeOK, StopContainer, RemoveContainer, Onward

LEMMA OnwardStep ==
  ASSUME TypeOK, [Next]_vars, NEW s \in Session, create[s] = "over"
  PROVE  Onward(s)
<1>1. ASSUME NEW t \in Session,
             \/ AgentWrites(t) \/ AgentExits(t) \/ SpawnCreates(t) \/ SpawnStarts(t)
             \/ InsertRow(t) \/ CancelCreate(t)
      PROVE  Onward(s)
  BY <1>1, OnwardContainer
<1>2. ASSUME NEW t \in Session,
             DrainHalts(t) \/ DrainRemoves(t) \/ StopHalts(t) \/ StopRemoves(t)
      PROVE  Onward(s)
  <2>1. (StopContainer(t) \/ RemoveContainer(t)) /\ UNCHANGED <<log, store>>
    BY <1>2 DEF DrainHalts, DrainRemoves, StopHalts, StopRemoves, db
  <2>2. QED
    BY <2>1, OnwardHalts
<1>3. ASSUME NEW t \in Session, ReadEvent(t)
      PROVE  Onward(s)
  <2>1. UNCHANGED <<container, log>>
    BY <1>3 DEF ReadEvent, docker
  <2>2. QED
    BY <1>3, <2>1, StoreGrows DEF Onward
<1>4. ASSUME NEW t \in Session,
             \/ Attach(t) \/ ReadError(t) \/ ReadEnd(t) \/ Inspect(t) \/ Save(t) \/ Fail(t)
             \/ GiveUp(t) \/ StopBegins(t) \/ StopMarks(t) \/ CancelStop(t)
      PROVE  UNCHANGED <<container, log, store>>
  BY <1>4 DEF Attach, ReadError, ReadEnd, Inspect, Save, Fail, GiveUp, StopBegins,
              StopMarks, CancelStop, db, docker
<1>5. ASSUME NEW w \in Watcher, Watch(w)
      PROVE  UNCHANGED <<container, log, store>>
  BY <1>5 DEF Watch, OpenStream, StreamStep, Poll, Send, Receive, EndOfStream, Leave,
              DanglingEnds, db, docker
<1>6. CASE Crash \/ Boot \/ UNCHANGED vars
  BY <1>6 DEF Crash, Boot, vars, Onward, db, docker
<1>7. UNCHANGED <<container, log, store>> => Onward(s)
  BY DEF Onward
<1>8. QED
  BY <1>1, <1>2, <1>3, <1>4, <1>5, <1>6, <1>7 DEF Next, DrainStep, StopStep, Watch

(* A row is only ever given to a session whose create request ends with it, *)
(* and only a session with a row has a drain or a stop.                    *)
LEMMA EarlyStep ==
  ASSUME TypeOK, [Next]_vars, NEW s \in Session, Early(s)
  PROVE  Early(s)' /\ (create[s] = "over" => create'[s] = "over")
<1> USE DEF TypeOK, Early
<1>1. ASSUME NEW t \in Session,
             SpawnCreates(t) \/ SpawnStarts(t) \/ InsertRow(t) \/ CancelCreate(t)
      PROVE  Early(s)' /\ (create[s] = "over" => create'[s] = "over")
  BY <1>1 DEF SpawnCreates, SpawnStarts, InsertRow, CancelCreate, Create, db
<1>2. ASSUME NEW t \in Session, DrainStep(t)
      PROVE  Early(s)' /\ (create[s] = "over" => create'[s] = "over")
  <2>1. UNCHANGED <<create, stopping>> /\ drain[t] # "off"
    BY <1>2 DEF DrainStep, Attach, ReadEvent, ReadError, ReadEnd, Inspect, Save, Fail, GiveUp,
                DrainHalts, DrainRemoves
  <2>2. s # t => row'[s] = row[s] /\ drain'[s] = drain[s]
    BY <1>2 DEF DrainStep, Attach, ReadEvent, ReadError, ReadEnd, Inspect, Save, Fail, GiveUp,
                DrainHalts, DrainRemoves, Drain, SetState, db
  <2>3. QED
    BY <2>1, <2>2
<1>3. ASSUME NEW t \in Session, StopBegins(t) \/ StopStep(t) \/ CancelStop(t)
      PROVE  Early(s)' /\ (create[s] = "over" => create'[s] = "over")
  BY <1>3 DEF StopBegins, StopStep, StopHalts, StopRemoves, StopMarks, CancelStop, Stopping,
              SetState, db
<1>4. ASSUME NEW t \in Session, AgentWrites(t) \/ AgentExits(t)
      PROVE  UNCHANGED <<create, row, drain, stopping>>
  BY <1>4 DEF AgentWrites, AgentExits, db, tasks
<1>5. ASSUME NEW w \in Watcher, Watch(w)
      PROVE  UNCHANGED <<create, row, drain, stopping>>
  BY <1>5 DEF Watch, OpenStream, StreamStep, Poll, Send, Receive, EndOfStream, Leave,
              DanglingEnds, db, tasks
<1>6. CASE Crash
  BY <1>6 DEF Crash, db
<1>7. CASE Boot
  BY <1>7 DEF Boot, db
<1>8. CASE UNCHANGED vars
  BY <1>8 DEF vars, db, tasks
<1>9. UNCHANGED <<create, row, drain, stopping>>
        => Early(s)' /\ (create[s] = "over" => create'[s] = "over")
  OBVIOUS
<1>10. QED
  BY <1>1, <1>2, <1>3, <1>4, <1>5, <1>6, <1>7, <1>8, <1>9 DEF Next, Watch

(* Who brings a drain to finalize, finalize to its UPDATE, a row to 'exited'. *)
Comes(s) ==
  /\ drain'[s] = "inspect" => drain[s] = "inspect" \/ ReadEnd(s)
  /\ drain'[s] = "save" => (drain[s] = "save" /\ verdict'[s] = verdict[s]) \/ Inspect(s)
  /\ row'[s] = "exited" => row[s] = "exited" \/ (Save(s) /\ verdict[s] = "exited")

LEMMA ComesDrain ==
  ASSUME TypeOK, NEW t \in Session, DrainStep(t), NEW s \in Session
  PROVE  Comes(s)
<1> USE DEF TypeOK, Comes
<1>1. CASE Attach(t) \/ ReadEvent(t) \/ ReadError(t) \/ DrainHalts(t) \/ DrainRemoves(t)
  <2>1. UNCHANGED <<row, verdict>>
    BY <1>1 DEF Attach, ReadEvent, ReadError, DrainHalts, DrainRemoves, db
  <2>2. drain'[s] = drain[s] \/ drain'[s] \notin {"inspect", "save"}
    BY <1>1 DEF Attach, ReadEvent, ReadError, DrainHalts, DrainRemoves, Drain
  <2>3. QED
    BY <2>1, <2>2
<1>2. CASE ReadEnd(t)
  BY <1>2 DEF ReadEnd, Drain, db
<1>3. CASE Inspect(t)
  <2>1. UNCHANGED row /\ drain' = [drain EXCEPT ![t] = "save"]
    BY <1>3 DEF Inspect, Drain, db
  <2>2. s # t => verdict'[s] = verdict[s]
    BY <1>3 DEF Inspect
  <2>3. QED
    BY <1>3, <2>1, <2>2
<1>4. CASE Save(t)
  <2>1. drain' = [drain EXCEPT ![t] = "halt"] /\ UNCHANGED verdict
    BY <1>4 DEF Save, Drain
  <2>2. row' = row \/ row' = [row EXCEPT ![t] = verdict[t]]
    BY <1>4 DEF Save, SetState
  <2>3. row'[s] = "exited" => row[s] = "exited" \/ (s = t /\ verdict[s] = "exited")
    BY <2>2
  <2>4. QED
    BY <1>4, <2>1, <2>3
<1>5. CASE Fail(t) \/ GiveUp(t)
  <2>1. UNCHANGED verdict
    BY <1>5 DEF Fail, GiveUp
  <2>2. drain' \in {[drain EXCEPT ![t] = "halt"], [drain EXCEPT ![t] = "off"]}
    BY <1>5 DEF Fail, GiveUp, Drain
  <2>3. row' = row \/ row' = [row EXCEPT ![t] = "failed"]
    BY <1>5 DEF Fail, GiveUp, SetState
  <2>4. QED
    BY <2>1, <2>2, <2>3
<1>6. QED
  BY <1>1, <1>2, <1>3, <1>4, <1>5 DEF DrainStep

LEMMA ComesStep ==
  ASSUME TypeOK, [Next]_vars, NEW s \in Session
  PROVE  Comes(s)
<1>1. UNCHANGED <<row, drain, verdict>> => Comes(s)
  BY DEF Comes
<1>2. ASSUME NEW t \in Session, DrainStep(t)
      PROVE  Comes(s)
  BY <1>2, ComesDrain
<1>3. ASSUME NEW t \in Session, InsertRow(t) \/ CancelCreate(t) \/ StopMarks(t)
      PROVE  Comes(s)
  <2>1. UNCHANGED verdict /\ drain' \in {drain, [drain EXCEPT ![t] = "attach"]}
    BY <1>3 DEF InsertRow, CancelCreate, StopMarks
  <2>2. row' \in {row, [row EXCEPT ![t] = "running"], [row EXCEPT ![t] = "stopped"]}
    BY <1>3 DEF InsertRow, CancelCreate, StopMarks, SetState
  <2>3. QED
    BY <2>1, <2>2 DEF Comes, TypeOK
<1>4. ASSUME NEW t \in Session,
             \/ AgentWrites(t) \/ AgentExits(t) \/ SpawnCreates(t) \/ SpawnStarts(t)
             \/ StopBegins(t) \/ StopHalts(t) \/ StopRemoves(t) \/ CancelStop(t)
      PROVE  UNCHANGED <<row, drain, verdict>>
  BY <1>4 DEF AgentWrites, AgentExits, SpawnCreates, SpawnStarts, StopBegins, StopHalts,
              StopRemoves, CancelStop, db, tasks
<1>5. ASSUME NEW w \in Watcher, Watch(w)
      PROVE  UNCHANGED <<row, drain, verdict>>
  BY <1>5 DEF Watch, OpenStream, StreamStep, Poll, Send, Receive, EndOfStream, Leave,
              DanglingEnds, db, tasks
<1>6. CASE Crash \/ Boot
  <2>1. UNCHANGED <<row, verdict>>
    BY <1>6 DEF Crash, Boot, db
  <2>2. drain'[s] \in {drain[s], "off", "attach"}
    BY <1>6 DEF Crash, Boot
  <2>3. QED
    BY <2>1, <2>2 DEF Comes
<1>7. CASE UNCHANGED vars
  BY <1>1, <1>7 DEF vars, db, tasks
<1>8. QED
  BY <1>1, <1>2, <1>3, <1>4, <1>5, <1>6, <1>7 DEF Next, StopStep, Watch

(* A drain that has read the log of a container to its end has stored it.  *)
LEMMA ReadToEnd ==
  ASSUME StoreInv, NEW s \in Session, ReadEnd(s), drain'[s] = "inspect"
  PROVE  Stopped(s)' /\ (container'[s] = "exited" => Complete(s)')
<1>1. UNCHANGED <<container, log, store>> /\ Stopped(s)
  BY DEF ReadEnd, Drain, StoreInv, TypeOK, Stopped, db, docker
<1>2. CASE container[s] = "exited"
  <2>1. pos[s] = Len(log[s])
    BY <1>2, <1>1 DEF ReadEnd, Stopped
  <2>2. PICK n \in 0..Len(log[s]) : Reached(s, n)
    BY DEF StoreInv, Stored
  <2>3. log[s] \in Seq(Line)
    BY DEF StoreInv, TypeOK
  <2>4. n = Len(log[s])
    BY <2>1, <2>2, <2>3 DEF Reached
  <2>5. \A l \in ToSet(log[s]) : l \in store[s]
    BY <2>2, <2>3, <2>4 DEF Reached, Prefix, ToSet
  <2>6. QED
    BY <1>1, <2>5 DEF Complete, Stopped
<1>3. QED
  BY <1>1, <1>2 DEF Stopped

LEMMA ExitStep == ExitInv /\ [Next]_vars => ExitInv'
<1>1. SUFFICES ASSUME ExitInv, [Next]_vars, NEW s \in Session
               PROVE  Early(s)' /\ Inspected(s)' /\ Saving(s)' /\ Exited(s)'
  BY StoreStep DEF ExitInv
<1>2. TypeOK /\ StoreInv /\ Early(s) /\ Inspected(s) /\ Saving(s) /\ Exited(s)
  BY <1>1 DEF ExitInv, StoreInv
<1>3. Early(s)'
  BY <1>1, <1>2, EarlyStep
<1>4. Comes(s)
  BY <1>1, <1>2, ComesStep
<1>5. drain[s] # "off" \/ row[s] # "none" => Onward(s)
  BY <1>1, <1>2, OnwardStep DEF Early
<1>6. Inspected(s)'
  <2>1. CASE ReadEnd(s)
    BY <1>2, <2>1, ReadToEnd DEF Inspected
  <2>2. CASE drain[s] = "inspect"
    BY <1>2, <1>5, <2>2, OnwardStays DEF Inspected
  <2>3. QED
    BY <1>4, <2>1, <2>2 DEF Comes, Inspected
<1>7. Saving(s)'
  <2>1. CASE Inspect(s)
    <3>1. UNCHANGED <<container, log, store>> /\ drain[s] \in {"inspect", "short"}
      BY <2>1 DEF Inspect, db, docker
    <3>2. verdict'[s] \in StatusOf(s)
      BY <1>2, <2>1 DEF Inspect, TypeOK
    <3>3. verdict'[s] = "exited" => container[s] \in {"running", "exited"} /\ drain[s] # "short"
      BY <3>2 DEF StatusOf
    <3>4. verdict'[s] = "exited" => Stopped(s) /\ Complete(s)
      BY <1>2, <3>1, <3>3 DEF Inspected, Stopped
    <3>5. QED
      BY <3>1, <3>4 DEF Saving, Stopped, Complete
  <2>2. CASE drain[s] = "save" /\ verdict'[s] = verdict[s]
    BY <1>2, <1>5, <2>2, OnwardStays DEF Saving
  <2>3. QED
    BY <1>4, <2>1, <2>2 DEF Comes, Saving
<1>8. Exited(s)'
  <2>1. CASE Save(s) /\ verdict[s] = "exited"
    <3>1. drain[s] = "save"
      BY <2>1 DEF Save
    <3>2. QED
      BY <1>2, <1>5, <2>1, <3>1, OnwardStays DEF Saving, Exited
  <2>2. CASE row[s] = "exited"
    BY <1>2, <1>5, <2>2, OnwardStays DEF Exited
  <2>3. QED
    BY <1>4, <2>1, <2>2 DEF Comes, Exited
<1>9. QED
  BY <1>3, <1>6, <1>7, <1>8

(* finalize tells the truth: whatever stops, crashes, replays and failures  *)
(* come before, a session recorded as 'exited' has all its events stored.  *)
THEOREM ExitCorrect == Spec => []ExitedIsComplete
<1>1. ExitInv => ExitedIsComplete
  BY DEF ExitInv, Exited, Complete, ExitedIsComplete
<1>2. QED
  BY <1>1, ExitInit, ExitStep, PTL DEF Spec
=============================================================================
