------------------------------ MODULE AgentLoop ------------------------------
(* One run of `jkr agent run --stream`: the loop of jkr-agent asks the provider *)
(* for a completion, runs the tool calls of the answer and repeats, up to       *)
(* max_steps times, and writes each event as one line of stdout.                *)
EXTENDS Integers, SequencesExt

CONSTANTS MaxSteps,   \* manifest.max_steps
          CallId,     \* ids the provider gives its tool calls: its own choice
          MaxCalls    \* the most tool calls in one answer (a bound of the model)

ASSUME LoopAssumption == MaxSteps \in Nat /\ MaxCalls \in Nat

VARIABLES
  pc,        \* where run() is; "over" once it has returned
  steps,     \* completions asked for so far
  seq,       \* SeqEmitter.next
  calls,     \* ids of the answer's tool calls that have not returned, in order
  results,   \* ids of the calls whose results are collected, in order
  out,       \* lines written to the container's log
  messages   \* the conversation: each message's role and the ids of its tool blocks

vars == <<pc, steps, seq, calls, results, out, messages>>

Events == INSTANCE AgentEvents

Kind == {"step", "token", "tool_start", "tool_output", "done", "error"}
Written == [t : {"event"}, seq : Nat, kind : Kind] \cup {Events!Text}
Message == [role : {"user", "assistant"}, blocks : Seq(CallId)]

\* The tool calls of an answer. Nothing keeps two of them from having one id.
Asked == SeqOf(CallId, MaxCalls)

TypeOK ==
  /\ pc \in {"start", "loop", "send", "answered", "tools", "call", "over", "exited"}
  /\ steps \in 0..MaxSteps
  /\ seq \in Nat
  /\ calls \in Seq(CallId) /\ results \in Seq(CallId)
  /\ out \in Seq(Written)
  /\ messages \in Seq(Message)

Init ==
  /\ pc = "start" /\ steps = 0 /\ seq = 0
  /\ calls = <<>> /\ results = <<>> /\ out = <<>> /\ messages = <<>>

-----------------------------------------------------------------------------
(* SeqEmitter::emit and NdjsonSink::write: number the event, write its line.    *)
(* Variant: the number is not advanced.                                         *)
emit_Stuck(kind) == out' = Append(out, Events!Event(seq, kind)) /\ seq' = seq

emit(kind) == out' = Append(out, Events!Event(seq, kind)) /\ seq' = seq + 1

(* An error propagated with `?` reaches main, which prints it on stderr and     *)
(* exits: no event of the run says so.                                          *)
Abort == pc' = "over" /\ out' = Append(out, Events!Text) /\ UNCHANGED seq

(* run_agent: the manifest does not parse, a tool or the provider is unknown.   *)
Refuse ==
  /\ pc = "start"
  /\ Abort
  /\ UNCHANGED <<steps, calls, results, messages>>

Begin ==
  /\ pc = "start"
  /\ pc' = "loop"
  /\ messages' = <<[role |-> "user", blocks |-> <<>>]>>
  /\ UNCHANGED <<steps, seq, calls, results, out>>

StartStep ==
  /\ pc = "loop" /\ steps < MaxSteps
  /\ steps' = steps + 1
  /\ pc' = "send"
  /\ emit("step")
  /\ UNCHANGED <<calls, results, messages>>

(* max_steps completions were not enough: run() returns Ok without an event.    *)
Exhausted ==
  /\ pc = "loop" /\ steps = MaxSteps
  /\ pc' = "over"
  /\ UNCHANGED <<steps, seq, calls, results, out, messages>>

ProviderFails ==
  /\ pc = "send"
  /\ Abort
  /\ UNCHANGED <<steps, calls, results, messages>>

(* The provider answers, with or without text and tool calls.                   *)
Answer(text, ids) ==
  /\ pc = "send"
  /\ IF text THEN emit("token") ELSE UNCHANGED <<out, seq>>
  /\ messages' = Append(messages, [role |-> "assistant", blocks |-> ids])
  /\ calls' = ids
  /\ pc' = "answered"
  /\ UNCHANGED <<steps, results>>

(* EndTurn and MaxTokens: tool calls in the answer are not run.                 *)
EndTurn ==
  /\ pc = "answered"
  /\ emit("done")
  /\ pc' = "over"
  /\ UNCHANGED <<steps, calls, results, messages>>

ToolUse ==
  /\ pc = "answered"
  /\ pc' = "tools"
  /\ results' = <<>>
  /\ UNCHANGED <<steps, seq, calls, out, messages>>

OtherStop ==
  /\ pc = "answered"
  /\ emit("error")
  /\ pc' = "over"
  /\ UNCHANGED <<steps, calls, results, messages>>

-----------------------------------------------------------------------------
(* run_tool_calls_with_events, one call at a time in the order of the answer;   *)
(* each result is collected under the id of its call.                           *)
StartTool ==
  /\ pc = "tools" /\ calls # <<>>
  /\ emit("tool_start")
  /\ pc' = "call"
  /\ UNCHANGED <<steps, calls, results, messages>>

(* The tool is not registered, or Tool::run returns an error.                   *)
ToolFails ==
  /\ pc = "call"
  /\ Abort
  /\ UNCHANGED <<steps, calls, results, messages>>

(* Variant: results are kept by id, so that a second call of an id is lost.     *)
ToolReturns_ById ==
  /\ pc = "call"
  /\ emit("tool_output")
  /\ results' = IF Contains(results, Head(calls)) THEN results
                ELSE Append(results, Head(calls))
  /\ calls' = Tail(calls)
  /\ pc' = "tools"
  /\ UNCHANGED <<steps, messages>>

ToolReturns ==
  /\ pc = "call"
  /\ emit("tool_output")
  /\ results' = Append(results, Head(calls))
  /\ calls' = Tail(calls)
  /\ pc' = "tools"
  /\ UNCHANGED <<steps, messages>>

(* After the last call what has been collected becomes one user message.        *)
ToolsDone ==
  /\ pc = "tools" /\ calls = <<>>
  /\ messages' = Append(messages, [role |-> "user", blocks |-> results])
  /\ pc' = "loop"
  /\ UNCHANGED <<steps, seq, calls, results, out>>

(* run_agent saves the record of the run; when it cannot it warns on stderr,    *)
(* after the last event. Abort stands for its own text and for a warning.       *)
WarnUnsaved ==
  /\ pc = "over"
  /\ out = <<>> \/ out[Len(out)] # Events!Text
  /\ out' = Append(out, Events!Text)
  /\ UNCHANGED <<pc, steps, seq, calls, results, messages>>

Exit ==
  /\ pc = "over"
  /\ pc' = "exited"
  /\ UNCHANGED <<steps, seq, calls, results, out, messages>>

Next == \/ Refuse \/ Begin \/ StartStep \/ Exhausted \/ ProviderFails
        \/ \E text \in BOOLEAN, ids \in Asked : Answer(text, ids)
        \/ EndTurn \/ ToolUse \/ OtherStop
        \/ StartTool \/ ToolFails \/ ToolReturns \/ ToolsDone
        \/ WarnUnsaved \/ Exit

Spec == Init /\ [][Next]_vars

-----------------------------------------------------------------------------
(* The conversation the provider is sent alternates between the user and the    *)
(* assistant, and the message after an answer holds one result for each of its  *)
(* tool calls, under the call's id and in the order of the calls: run() never   *)
(* asks for a completion with a call unanswered, answered twice or out of turn, *)
(* although it collects the results one by one and an id may come twice.        *)
CallsAnswered ==
  \A i \in DOMAIN messages :
    /\ messages[i].role = (IF i % 2 = 1 THEN "user" ELSE "assistant")
    /\ i > 1 /\ i % 2 = 1 => messages[i].blocks = messages[i - 1].blocks
    /\ pc = "send" => messages[Len(messages)].role = "user"

(* The log as the server can tell it apart: Done and Error end the stream.      *)
Seen(l) == IF l.t = "event" /\ l.kind \in {"done", "error"} THEN Events!Event(l.seq, "final")
           ELSE IF l.t = "event" THEN Events!Event(l.seq, "progress")
           ELSE l
Stream == INSTANCE AgentStream WITH out  <- [i \in DOMAIN out |-> Seen(out[i])],
                                    over <- (pc = "exited")

(* Whatever the provider and the tools do, the log is what the server relies    *)
(* on: events numbered from 0 in steps of one by SeqEmitter, nothing but one    *)
(* line of text after Done or Error, nothing after that text.                   *)
WritesAStream == Stream!Spec
=============================================================================
