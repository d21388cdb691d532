--------------------------- MODULE AgentLoop_proofs ---------------------------
(* The agent loop implements AgentStream, for any number of steps and of tool   *)
(* calls in an answer.                                                          *)
EXTENDS AgentLoop, TLAPS

(* While the run goes on its log holds events only, none of them final, and the *)
(* emitter's next number is the length of the log.                              *)
IsProgress(l) == l.t = "event" /\ l.kind \notin {"done", "error"}

LogInv ==
  /\ out \in Seq(Written)
  /\ seq \in Nat
  /\ pc \notin {"over", "exited"} =>
       /\ seq = Len(out)
       /\ out # <<>> => IsProgress(out[Len(out)])

(* The log as the server sees it.                                               *)
SeenLog(s) == [i \in DOMAIN s |-> Seen(s[i])]

LEMMA SeenTypes == \A l \in Written : Seen(l) \in Events!Line
BY DEF Written, Seen, Events!Line, Events!EventLine, Events!Event, Events!Text

LEMMA SeenLength ==
  ASSUME NEW s \in Seq(Written)
  PROVE  /\ SeenLog(s) \in Seq(Events!Line)
         /\ Len(SeenLog(s)) = Len(s)
         /\ s # <<>> => SeenLog(s)[Len(s)] = Seen(s[Len(s)])
         /\ SeenLog(s) = <<>> <=> s = <<>>
<1>1. \A i \in 1..Len(s) : s[i] \in Written
  OBVIOUS
<1>2. SeenLog(s) \in [1..Len(s) -> Events!Line]
  BY <1>1, SeenTypes DEF SeenLog
<1>3. SeenLog(s) \in Seq(Events!Line) /\ Len(SeenLog(s)) = Len(s)
  BY <1>2
<1>4. s # <<>> => SeenLog(s)[Len(s)] = Seen(s[Len(s)])
  BY DEF SeenLog
<1>5. QED
  BY <1>3, <1>4

LEMMA SeenAppend ==
  ASSUME NEW s \in Seq(Written), NEW l \in Written
  PROVE  SeenLog(Append(s, l)) = Append(SeenLog(s), Seen(l))
<1> DEFINE a == SeenLog(Append(s, l))
           b == Append(SeenLog(s), Seen(l))
<1>1. Append(s, l) \in Seq(Written) /\ Len(Append(s, l)) = Len(s) + 1
  OBVIOUS
<1>2. a \in Seq(Events!Line) /\ Len(a) = Len(s) + 1
  BY <1>1, SeenLength
<1>3. b \in Seq(Events!Line) /\ Len(b) = Len(s) + 1
  BY SeenLength, SeenTypes
<1>4. ASSUME NEW i \in 1..Len(s) + 1
      PROVE  a[i] = b[i]
  <2>1. a[i] = Seen(Append(s, l)[i])
    BY DEF SeenLog
  <2>2. CASE i = Len(s) + 1
    BY <2>1, <2>2, SeenLength, SeenTypes
  <2>3. CASE i # Len(s) + 1
    <3>1. i \in 1..Len(s)
      BY <2>3
    <3>2. Append(s, l)[i] = s[i]
      BY <3>1
    <3>3. b[i] = SeenLog(s)[i]
      BY <3>1, SeenLength, SeenTypes
    <3>4. QED
      BY <2>1, <3>1, <3>2, <3>3 DEF SeenLog
  <2>4. QED
    BY <2>2, <2>3
<1> HIDE DEF a, b
<1>5. a = b
  BY <1>2, <1>3, <1>4
<1>6. QED
  BY <1>5 DEF a, b

-----------------------------------------------------------------------------
(* What may be written next, of a log the run is still at work on and of one    *)
(* that it has finished.                                                        *)
LEMMA EventFollows ==
  ASSUME LogInv, pc \notin {"over", "exited"}, NEW kind \in Kind
  PROVE  Seen(Events!Event(seq, kind)) \in Events!Follow(SeenLog(out))
<1>1. Seen(Events!Event(seq, kind)) \in {Events!Event(Len(out), k) : k \in {"progress", "final"}}
  BY DEF LogInv, Seen, Events!Event, Kind
<1>2. CASE out = <<>>
  BY <1>1, <1>2, SeenLength DEF Events!Follow, LogInv
<1>3. CASE out # <<>>
  <2>1. SeenLog(out)[Len(out)] = Seen(out[Len(out)]) /\ SeenLog(out) # <<>>
    BY <1>3, SeenLength DEF LogInv
  <2>2. SeenLog(out)[Len(out)] = Events!Event(out[Len(out)].seq, "progress")
    BY <1>3, <2>1 DEF LogInv, IsProgress, Seen
  <2>3. /\ SeenLog(out)[Len(out)] # Events!Text
        /\ ~Events!IsFinal(SeenLog(out)[Len(out)])
    BY <2>2 DEF Events!Event, Events!Text, Events!IsFinal
  <2>4. Len(SeenLog(out)) = Len(out)
    BY SeenLength DEF LogInv
  <2>5. QED
    BY <1>1, <2>1, <2>3, <2>4 DEF Events!Follow
<1>4. QED
  BY <1>2, <1>3

LEMMA TextFollows ==
  ASSUME NEW s \in Seq(Written), s # <<>> => s[Len(s)] # Events!Text
  PROVE  Seen(Events!Text) \in Events!Follow(SeenLog(s))
<1>1. Seen(Events!Text) = Events!Text
  BY DEF Seen, Events!Text
<1>2. CASE s = <<>>
  BY <1>1, <1>2, SeenLength DEF Events!Follow
<1>3. CASE s # <<>>
  <2>1. s[Len(s)] \in Written
    BY <1>3
  <2>2. Seen(s[Len(s)]).t = "event"
    BY <1>3, <2>1 DEF Seen, Written, Events!Event, Events!Text
  <2>3. SeenLog(s)[Len(SeenLog(s))] # Events!Text
    BY <1>3, <2>2, SeenLength DEF Events!Text
  <2>4. QED
    BY <1>1, <2>3 DEF Events!Follow
<1>4. QED
  BY <1>2, <1>3

-----------------------------------------------------------------------------
(* A step of the loop that writes line l, as a step of the stream.              *)
LEMMA SameFollow == \A s : Stream!Follow(s) = Events!Follow(s)
BY DEF Stream!Follow, Events!Follow, Stream!Event, Events!Event, Stream!Text, Events!Text,
       Stream!IsFinal, Events!IsFinal

LEMMA WriteIsStep ==
  ASSUME out \in Seq(Written), NEW l \in Written, out' = Append(out, l),
         Seen(l) \in Events!Follow(SeenLog(out)),
         pc # "exited", pc' # "exited"
  PROVE  Stream!Next
<1>1. SeenLog(out)' = Append(SeenLog(out), Seen(l))
  BY SeenAppend DEF SeenLog
<1>2. Seen(l) \in Stream!Follow(SeenLog(out))
  BY SameFollow
<1>3. QED
  BY <1>1, <1>2 DEF Stream!Next, Stream!Write, SeenLog

LEMMA EmitIsStep ==
  ASSUME LogInv, pc \notin {"over", "exited"}, pc' # "exited",
         NEW kind \in Kind, emit(kind)
  PROVE  /\ Stream!Next
         /\ out' \in Seq(Written) /\ seq' \in Nat
         /\ kind \notin {"done", "error"} =>
              seq' = Len(out') /\ out' # <<>> /\ IsProgress(out'[Len(out')])
<1> DEFINE l == Events!Event(seq, kind)
<1>1. l \in Written
  BY DEF Written, Events!Event, LogInv
<1>2. out \in Seq(Written) /\ out' = Append(out, l) /\ seq' = seq + 1
  BY DEF LogInv, emit
<1>3. Stream!Next
  BY <1>1, <1>2, EventFollows, WriteIsStep
<1>4. l.t = "event" /\ l.kind = kind
  BY DEF Events!Event
<1>5. seq = Len(out) /\ seq \in Nat
  BY DEF LogInv
<1> HIDE DEF l
<1>6. /\ out' \in Seq(Written) /\ Len(out') = Len(out) + 1
      /\ out'[Len(out')] = l /\ out' # <<>>
  BY <1>1, <1>2
<1>7. QED
  BY <1>2, <1>3, <1>4, <1>5, <1>6 DEF IsProgress

LEMMA TextIsStep ==
  ASSUME out \in Seq(Written), out # <<>> => out[Len(out)] # Events!Text,
         out' = Append(out, Events!Text), pc # "exited", pc' # "exited"
  PROVE  Stream!Next /\ out' \in Seq(Written)
<1>1. Events!Text \in Written
  BY DEF Written
<1>2. QED
  BY <1>1, TextFollows, WriteIsStep

LEMMA AbortIsStep ==
  ASSUME LogInv, pc \notin {"over", "exited"}, Abort
  PROVE  Stream!Next /\ LogInv'
<1>1. out # <<>> => out[Len(out)] # Events!Text
  BY DEF LogInv, IsProgress, Events!Text
<1>2. QED
  BY <1>1, TextIsStep DEF LogInv, Abort

-----------------------------------------------------------------------------
(* A step that writes an event: one that ends the run, or one that does not.    *)
LEMMA EventSteps ==
  ASSUME LogInv,
         \/ StartStep \/ StartTool \/ ToolReturns \/ EndTurn \/ OtherStop
         \/ \E ids \in Asked : Answer(TRUE, ids)
  PROVE  Stream!Next /\ LogInv'
<1>1. PICK kind \in Kind :
        /\ pc \notin {"over", "exited"} /\ pc' # "exited" /\ emit(kind)
        /\ kind \in {"done", "error"} => pc' = "over"
  BY DEF StartStep, StartTool, ToolReturns, EndTurn, OtherStop, Answer, Kind
<1>2. /\ Stream!Next
      /\ out' \in Seq(Written) /\ seq' \in Nat
      /\ kind \notin {"done", "error"} =>
           seq' = Len(out') /\ out' # <<>> /\ IsProgress(out'[Len(out')])
  BY <1>1, EmitIsStep
<1>3. QED
  BY <1>1, <1>2 DEF LogInv

(* A step that writes nothing and does not end the process.                     *)
LEMMA SilentSteps ==
  ASSUME LogInv,
         \/ Begin \/ Exhausted \/ ToolUse \/ ToolsDone \/ UNCHANGED vars
         \/ \E ids \in Asked : Answer(FALSE, ids)
  PROVE  UNCHANGED Stream!vars /\ LogInv'
<1>1. UNCHANGED <<out, seq>> /\ (pc' = "exited" <=> pc = "exited")
      /\ (pc' \notin {"over", "exited"} => pc \notin {"over", "exited"})
  BY DEF Begin, Exhausted, ToolUse, ToolsDone, Answer, vars
<1>2. UNCHANGED Stream!vars
  BY <1>1 DEF Stream!vars
<1>3. QED
  BY <1>1, <1>2 DEF LogInv

LEMMA StepImplements ==
  ASSUME LogInv, [Next]_vars
  PROVE  [Stream!Next]_(Stream!vars) /\ LogInv'
<1>1. CASE \/ StartStep \/ StartTool \/ ToolReturns \/ EndTurn \/ OtherStop
           \/ \E ids \in Asked : Answer(TRUE, ids)
  BY <1>1, EventSteps
<1>2. CASE \/ Begin \/ Exhausted \/ ToolUse \/ ToolsDone \/ UNCHANGED vars
           \/ \E ids \in Asked : Answer(FALSE, ids)
  BY <1>2, SilentSteps
<1>3. CASE Refuse \/ ProviderFails \/ ToolFails
  BY <1>3, AbortIsStep DEF Refuse, ProviderFails, ToolFails
<1>4. CASE WarnUnsaved
  <2>1. /\ out \in Seq(Written)
        /\ out # <<>> => out[Len(out)] # Events!Text
        /\ out' = Append(out, Events!Text)
        /\ pc = "over" /\ pc' = "over" /\ seq' = seq
    BY <1>4 DEF WarnUnsaved, LogInv
  <2>2. Stream!Next /\ out' \in Seq(Written)
    BY <2>1, TextIsStep
  <2>3. QED
    BY <2>1, <2>2 DEF LogInv
<1>5. CASE Exit
  <2>1. Stream!Next
    BY <1>5 DEF Exit, Stream!Next, Stream!Exit
  <2>2. QED
    BY <1>5, <2>1 DEF Exit, LogInv
<1>6. QED
  BY <1>1, <1>2, <1>3, <1>4, <1>5 DEF Next

LEMMA InitImplements == Init => Stream!Init /\ LogInv
BY DEF Init, Stream!Init, LogInv

(* Whatever the provider and the tools do, the agent's log is the numbered      *)
(* stream that AgentSession takes an agent's log to be: run and its emitter     *)
(* implement AgentStream.                                                       *)
THEOREM StreamCorrect == Spec => WritesAStream
<1>1. QED
  BY InitImplements, StepImplements, PTL DEF Spec, WritesAStream, Stream!Spec

-----------------------------------------------------------------------------
(* The conversation: whose turn it is follows from its length, and while tools  *)
(* run, what is collected and what is still to run make up the last answer.     *)
Alternates(m) ==
  \A i \in 1..Len(m) :
    /\ m[i].role = (IF i % 2 = 1 THEN "user" ELSE "assistant")
    /\ i > 1 /\ i % 2 = 1 => m[i].blocks = m[i - 1].blocks

TurnInv ==
  /\ messages \in Seq(Message)
  /\ calls \in Seq(CallId) /\ results \in Seq(CallId)
  /\ Alternates(messages)
  /\ pc = "start" => messages = <<>>
  /\ pc \in {"loop", "send"} => Len(messages) % 2 = 1
  /\ pc \in {"answered", "tools", "call"} => Len(messages) % 2 = 0 /\ Len(messages) > 0

CollectInv ==
  /\ pc = "answered" => messages[Len(messages)].blocks = calls
  /\ pc \in {"tools", "call"} => messages[Len(messages)].blocks = results \o calls
  /\ pc = "call" => calls # <<>>

LEMMA AskedTypes == \A ids \in Asked : ids \in Seq(CallId)
BY LoopAssumption DEF Asked, SeqOf

LEMMA AlternatesAppend ==
  ASSUME NEW m \in Seq(Message), Alternates(m), NEW x \in Message,
         x.role = (IF (Len(m) + 1) % 2 = 1 THEN "user" ELSE "assistant"),
         Len(m) > 0 /\ (Len(m) + 1) % 2 = 1 => x.blocks = m[Len(m)].blocks
  PROVE  Append(m, x) \in Seq(Message) /\ Alternates(Append(m, x))
<1> DEFINE a == Append(m, x)
<1>1. /\ a \in Seq(Message) /\ Len(a) = Len(m) + 1 /\ a[Len(m) + 1] = x
      /\ \A i \in 1..Len(m) : a[i] = m[i]
      /\ Len(m) \in Nat
  OBVIOUS
<1> HIDE DEF a
<1>2. ASSUME NEW i \in 1..Len(a)
      PROVE  /\ a[i].role = (IF i % 2 = 1 THEN "user" ELSE "assistant")
             /\ i > 1 /\ i % 2 = 1 => a[i].blocks = a[i - 1].blocks
  <2>1. CASE i = Len(m) + 1
    <3>1. i > 1 => i - 1 = Len(m) /\ a[i - 1] = m[Len(m)] /\ Len(m) > 0
      BY <1>1, <2>1
    <3>2. QED
      BY <1>1, <2>1, <3>1
  <2>2. CASE i \in 1..Len(m)
    <3>1. a[i] = m[i] /\ (i > 1 => a[i - 1] = m[i - 1])
      BY <1>1, <2>2
    <3>2. QED
      BY <2>2, <3>1 DEF Alternates
  <2>3. QED
    BY <1>1, <2>1, <2>2
<1>3. QED
  BY <1>1, <1>2 DEF Alternates, a

LEMMA TurnAnswer ==
  ASSUME TurnInv, CollectInv, NEW text, NEW ids \in Asked, Answer(text, ids)
  PROVE  TurnInv' /\ CollectInv'
<1> DEFINE x == [role |-> "assistant", blocks |-> ids]
<1>1. /\ messages' = Append(messages, x) /\ pc = "send" /\ pc' = "answered"
      /\ calls' = ids /\ ids \in Seq(CallId) /\ results' = results
      /\ x \in Message /\ x.role = "assistant" /\ x.blocks = ids
  BY AskedTypes DEF Answer, Message
<1>2. Len(messages) \in Nat /\ Len(messages) % 2 = 1
  BY <1>1 DEF TurnInv
<1>3. (Len(messages) + 1) % 2 = 0
  BY <1>2
<1> HIDE DEF x
<1>4. messages' \in Seq(Message) /\ Alternates(messages')
  <2>1. messages \in Seq(Message) /\ Alternates(messages)
    BY DEF TurnInv
  <2>2. x.role = (IF (Len(messages) + 1) % 2 = 1 THEN "user" ELSE "assistant")
    BY <1>1, <1>3
  <2>3. Append(messages, x) \in Seq(Message) /\ Alternates(Append(messages, x))
    BY <1>1, <1>3, <2>1, <2>2, AlternatesAppend
  <2>4. QED
    BY <1>1, <2>3
<1>5. Len(messages') = Len(messages) + 1 /\ messages'[Len(messages')] = x
  BY <1>1 DEF TurnInv
<1>6. QED
  BY <1>1, <1>2, <1>3, <1>4, <1>5 DEF TurnInv, CollectInv

LEMMA TurnReturns ==
  ASSUME TurnInv, CollectInv, ToolReturns
  PROVE  TurnInv' /\ CollectInv'
<1>1. /\ pc = "call" /\ pc' = "tools" /\ messages' = messages
      /\ results' = Append(results, Head(calls)) /\ calls' = Tail(calls)
      /\ calls \in Seq(CallId) /\ results \in Seq(CallId) /\ calls # <<>>
      /\ messages[Len(messages)].blocks = results \o calls
  BY DEF ToolReturns, TurnInv, CollectInv
<1>2. results' \in Seq(CallId) /\ calls' \in Seq(CallId)
  BY <1>1
<1>3. results' \o calls' = results \o calls
  BY <1>1
<1>4. QED
  BY <1>1, <1>2, <1>3 DEF TurnInv, CollectInv

LEMMA TurnResults ==
  ASSUME TurnInv, CollectInv, ToolsDone
  PROVE  TurnInv' /\ CollectInv'
<1>1. /\ Len(messages) \in Nat /\ Len(messages) % 2 = 0 /\ Len(messages) > 0
      /\ pc' = "loop" /\ calls' = calls /\ results' = results
  BY DEF TurnInv, ToolsDone
<1>2. messages[Len(messages)].blocks = results
  BY DEF TurnInv, CollectInv, ToolsDone
<1> DEFINE x == [role |-> "user", blocks |-> results]
<1>3. /\ messages' = Append(messages, x) /\ x \in Message
      /\ x.role = "user" /\ x.blocks = messages[Len(messages)].blocks
  BY <1>2 DEF ToolsDone, TurnInv, Message
<1>4. (Len(messages) + 1) % 2 = 1
  BY <1>1
<1> HIDE DEF x
<1>5. messages' \in Seq(Message) /\ Alternates(messages')
  BY <1>3, <1>4, AlternatesAppend DEF TurnInv
<1>6. Len(messages') = Len(messages) + 1
  BY <1>3 DEF TurnInv
<1>7. QED
  BY <1>1, <1>4, <1>5, <1>6 DEF TurnInv, CollectInv

LEMMA TurnBegins ==
  ASSUME TurnInv, Begin
  PROVE  TurnInv' /\ CollectInv'
<1> DEFINE x == [role |-> "user", blocks |-> <<>>]
<1>1. messages' = <<x>> /\ pc' = "loop" /\ calls' = calls /\ results' = results
  BY DEF Begin
<1>2. x \in Message /\ x.role = "user"
  BY DEF Message
<1> HIDE DEF x
<1>3. messages' \in Seq(Message) /\ Len(messages') = 1 /\ messages'[1] = x
  BY <1>1, <1>2
<1>4. Alternates(messages')
  BY <1>2, <1>3 DEF Alternates
<1>5. QED
  BY <1>1, <1>3, <1>4 DEF TurnInv, CollectInv

LEMMA TurnStays ==
  ASSUME TurnInv, CollectInv,
         \/ Refuse \/ StartStep \/ Exhausted \/ ProviderFails \/ EndTurn \/ ToolUse \/ OtherStop
         \/ StartTool \/ ToolFails \/ WarnUnsaved \/ Exit \/ UNCHANGED vars
  PROVE  TurnInv' /\ CollectInv'
<1>1. /\ messages' = messages /\ calls' = calls
      /\ \/ pc' = pc /\ results' = results
         \/ pc' \in {"over", "exited"} /\ results' = results
         \/ pc \in {"loop", "send"} /\ pc' \in {"loop", "send"} /\ results' = results
         \/ pc = "answered" /\ pc' = "tools" /\ results' = <<>>
         \/ pc = "tools" /\ pc' = "call" /\ calls # <<>> /\ results' = results
  BY DEF Refuse, StartStep, Exhausted, ProviderFails, EndTurn, ToolUse, OtherStop,
         StartTool, ToolFails, WarnUnsaved, Exit, Abort, vars
<1>2. <<>> \in Seq(CallId) /\ \A s \in Seq(CallId) : <<>> \o s = s
  OBVIOUS
<1>3. QED
  BY <1>1, <1>2 DEF TurnInv, CollectInv

LEMMA TurnAlways == Spec => [](TurnInv /\ CollectInv)
<1>1. Init => TurnInv /\ CollectInv
  BY DEF Init, TurnInv, CollectInv, Alternates
<1>2. TurnInv /\ CollectInv /\ [Next]_vars => TurnInv' /\ CollectInv'
  BY TurnAnswer, TurnReturns, TurnResults, TurnBegins, TurnStays DEF Next
<1>3. QED
  BY <1>1, <1>2, PTL DEF Spec

(* Before the provider is asked again, the message after an answer holds one    *)
(* result for each of its tool calls, under their ids and in their order:       *)
(* whichever tools fail or are not known, however many calls an answer holds    *)
(* and whatever ids it gives them.                                              *)
THEOREM ConversationCorrect == Spec => []CallsAnswered
<1>1. TurnInv => CallsAnswered
  <2> SUFFICES ASSUME TurnInv, NEW i \in DOMAIN messages
               PROVE  /\ messages[i].role = (IF i % 2 = 1 THEN "user" ELSE "assistant")
                      /\ i > 1 /\ i % 2 = 1 => messages[i].blocks = messages[i - 1].blocks
                      /\ pc = "send" => messages[Len(messages)].role = "user"
    BY DEF CallsAnswered
  <2>1. i \in 1..Len(messages) /\ Len(messages) \in 1..Len(messages)
    BY DEF TurnInv
  <2>2. QED
    BY <2>1 DEF TurnInv, Alternates
<1>2. QED
  BY <1>1, TurnAlways, PTL
=============================================================================
