------------------------------ MODULE CliProxy ------------------------------
(***************************************************************************)
(* `jkr <command>`: the command runs as a child whose standard output and  *)
(* error are read by a thread each; both send lines over one channel to    *)
(* the pipeline, which filters and prints them.  When both threads have    *)
(* ended the exit code is taken, the savings are recorded in the vault     *)
(* (HostVault) and jkr exits with the child's code.  The native handlers   *)
(* take the place of the pipeline: most collect the output of the child    *)
(* and print a digest of it, those of grep and ls read it as text and give *)
(* up at a line that is not, that of cat reads the files itself, and that  *)
(* of git diff leaves a large diff to the pipeline, which runs it again.   *)
(***************************************************************************)
EXTENDS FilterRules

CONSTANTS
  Command,    \* invocations of jkr, one use each
  Unreadable, \* lines that are not UTF-8
  Width,      \* line -> its tokens; a shortened line has one
  Plans       \* what the invocations do, one function from Command per workload

Streams == {"stdout", "stderr"}

\* Proxied commands: those without a handler, those whose handler collects the
\* output, git diff of more than MAX_DIFF_BYTES, grep, rg and ls, and cat, which
\* prints the lines of its files on standard output.
Invoked == {"run", "native", "diff", "scan", "cat"}

\* What the others do is in HostVault.  budget: JKR_MAX_TOKENS, buffered:
\* JKR_COMPACT_JSON.
Program ==
  [does : Invoked \cup {"gain", "reset", "rotate", "clean", "nothing"},
   prints : [Streams -> Seq(Line)], code : {0, 1}, mortal : BOOLEAN,
   rules : Seq(Rule), budget : Nat, buffered : BOOLEAN, head : BOOLEAN]

ASSUME ProxyAssumption ==
  /\ Unreadable \subseteq Line
  /\ Width \in [Line -> Nat \ {0}]
  /\ \A plan \in Plans : plan \in [Command -> Program]

Killed == 255     \* exit(-1): the child ended by a signal has no code
Panic  == 101
Failed == 1

VARIABLES
  plan,      \* what each invocation does, chosen at the start
  child,     \* the child process: its status, the lines it has yet to print
             \* (cat: those of its files it has not read) and the streams
             \* somebody still holds open
  pipe,      \* stream -> lines in the pipe, also those nobody will read
  readers,   \* the streams still read, by a thread or by a handler itself
  chan,      \* lines the readers have taken and jkr has not dealt with
  run,       \* where jkr is, with the pipeline's local variables
  fates,     \* history: each line received and what became of it, in order
  sink,      \* FALSE once nobody reads jkr's standard output
  code       \* the exit code of jkr, NoCode before

proxyVars == <<child, pipe, readers, chan, run, fates, sink, code>>

NoCode == 256
Proxied(p) == plan[p].does \in Invoked
InPhase(p, phase) == run[p].phase = phase
Alive(p) == run[p].phase \notin {"off", "exited", "dead"}

Local(phase, states) ==
  [phase |-> phase, blanks |-> 0, states |-> states, spent |-> 0, over |-> FALSE, code |-> 0]

NoChild(p) == [status |-> "none", left |-> plan[p].prints, open |-> {}]

ProxyInit ==
  /\ plan \in Plans
  /\ child = [p \in Command |-> NoChild(p)]
  /\ pipe = [p \in Command |-> [s \in Streams |-> <<>>]]
  /\ readers = [p \in Command |-> {}]
  /\ chan = [p \in Command |-> <<>>]
  /\ run = [p \in Command |-> Local("off", <<>>)]
  /\ fates = [p \in Command |-> <<>>]
  /\ sink = [p \in Command |-> TRUE]
  /\ code = [p \in Command |-> NoCode]

Enter(p, phase) == run' = [run EXCEPT ![p].phase = phase]

Exit(p, c) == Enter(p, "exited") /\ code' = [code EXCEPT ![p] = c]

-----------------------------------------------------------------------------
\* try_run: which handler takes the command, if any does.
Takes == [does \in Invoked \ {"cat"} |->
            CASE does = "run" -> "piping" [] does = "scan" -> "scanning" [] OTHER -> "collecting"]

\* A child is to be started, for a diff a second time.
Starts(p) == \/ InPhase(p, "off") /\ plan[p].does \in DOMAIN Takes
             \/ InPhase(p, "again")

\* stream_command, Command::output and the handlers of grep and ls: the child
\* is spawned and both its pipes are read.
Spawn(p) ==
  /\ Starts(p)
  /\ child' = [child EXCEPT ![p].status = "running", ![p].open = Streams]
  /\ readers' = [readers EXCEPT ![p] = Streams]
  /\ run' = [run EXCEPT ![p] = Local(IF InPhase(p, "again") THEN "piping" ELSE Takes[plan[p].does],
                                     [i \in DOMAIN plan[p].rules |-> Compiled])]
  /\ UNCHANGED <<pipe, chan, fates, sink, code>>

\* The command cannot be started: run returns the error and main exits with 1.
SpawnFails(p) ==
  /\ Starts(p)
  /\ Exit(p, Failed)
  /\ UNCHANGED <<child, pipe, readers, chan, fates, sink>>

\* The child and who inherited its pipes.
Prints(p, s) ==
  /\ child[p].status = "running" /\ s \in child[p].open /\ child[p].left[s] # <<>>
  /\ LET n == Len(plan[p].prints[s]) - Len(child[p].left[s]) + 1
         l == Head(child[p].left[s])
     IN  pipe' = [pipe EXCEPT ![p][s] = Append(@, [from |-> s, n |-> n, line |-> l])]
  /\ child' = [child EXCEPT ![p].left[s] = Tail(@)]
  /\ UNCHANGED <<readers, chan, run, fates, sink, code>>

\* A child that writes to a pipe nobody reads is ended by SIGPIPE.
CutOff(p) == \E s \in child[p].open : child[p].left[s] # <<>> /\ s \notin readers[p]

ChildEnds(p) ==
  /\ child[p].status = "running"
  /\ \/ /\ \A s \in Streams : child[p].left[s] = <<>>
        /\ child' = [child EXCEPT ![p].status = "ended"]
     \/ /\ plan[p].mortal \/ CutOff(p)
        /\ child' = [child EXCEPT ![p].status = "killed"]
  /\ UNCHANGED <<pipe, readers, chan, run, fates, sink, code>>

\* The last holder of a stream closes it: the child or a process it started.
Closes(p, s) ==
  /\ s \in child[p].open
  /\ child[p].left[s] = <<>> \/ child[p].status # "running"
  /\ child' = [child EXCEPT ![p].open = @ \ {s}]
  /\ UNCHANGED <<pipe, readers, chan, run, fates, sink, code>>

\* The reader of jkr's output goes away (`jkr ... | head`).
SinkCloses(p) ==
  /\ plan[p].head /\ sink[p] /\ Alive(p)
  /\ sink' = [sink EXCEPT ![p] = FALSE]
  /\ UNCHANGED <<child, pipe, readers, chan, run, fates, code>>

-----------------------------------------------------------------------------
\* The handlers of grep and ls have come to a line that is not UTF-8.
StopsAt(p, s) ==
  plan[p].does = "scan" /\ pipe[p][s] # <<>> /\ Head(pipe[p][s]).line \in Unreadable

\* A reader: reader.lines() gives a line, an error, or ends.  The thread that
\* forwards the standard error of grep and ls ends at an error.
Reader(p, s) ==
  /\ s \in readers[p]
  /\ \/ /\ pipe[p][s] # <<>> /\ ~StopsAt(p, s)
        /\ chan' = [chan EXCEPT ![p] = Append(@, Head(pipe[p][s]))]
        /\ pipe' = [pipe EXCEPT ![p][s] = Tail(@)]
        /\ UNCHANGED readers
     \/ /\ \/ pipe[p][s] = <<>> /\ s \notin child[p].open
           \/ s = "stderr" /\ StopsAt(p, s)
        /\ readers' = [readers EXCEPT ![p] = @ \ {s}]
        /\ UNCHANGED <<chan, pipe>>
  /\ UNCHANGED <<child, run, fates, sink, code>>

\* What the pipeline does with the next line: its fate, and its variables.
Treat(p, t) ==
  LET r == run[p]
      blanks == IF t.line \in Blank THEN r.blanks + 1 ELSE 0
      said == Filter(plan[p].rules, r.states, t.line)
      width == IF said.answer = "short" THEN 1 ELSE Width[t.line]
      seen == [r EXCEPT !.blanks = blanks, !.states = said.state]
  IN  CASE t.line \in Unreadable -> [fate |-> "unreadable", r |-> r]
        [] t.line \notin Unreadable /\ blanks > 1 ->
             [fate |-> "blank", r |-> [r EXCEPT !.blanks = blanks]]
        [] t.line \notin Unreadable /\ blanks <= 1 /\ said.answer = "suppress" ->
             [fate |-> "suppressed", r |-> seen]
        [] OTHER ->
             IF r.over \/ r.spent + width > plan[p].budget
             THEN [fate |-> "elided", r |-> [seen EXCEPT !.over = TRUE]]
             ELSE [fate |-> "shown", r |-> [seen EXCEPT !.spent = @ + width]]

\* println! panics when the line cannot be written.
Receive(p) ==
  /\ InPhase(p, "piping") /\ chan[p] # <<>>
  /\ LET t == Head(chan[p])
         treated == Treat(p, t)
         prints == treated.fate = "shown" /\ ~plan[p].buffered
     IN  /\ fates' = [fates EXCEPT ![p] = Append(@, [line |-> t, fate |-> treated.fate])]
         /\ run' = [run EXCEPT ![p] = IF prints /\ ~sink[p]
                                      THEN [treated.r EXCEPT !.phase = "unwinding"]
                                      ELSE treated.r]
  /\ chan' = [chan EXCEPT ![p] = Tail(@)]
  /\ UNCHANGED <<child, pipe, readers, sink, code>>

\* Mutant: the loop ends when one of the readers has.
LinesOverEarly(p) == chan[p] = <<>> /\ readers[p] # Streams

\* recv fails: no sender is left and nothing is in the channel.
LinesOver(p) == chan[p] = <<>> /\ readers[p] = {}

Has(p, fate) == \E i \in DOMAIN fates[p] : fates[p][i].fate = fate

\* After the loop: the notice of the elided lines and the buffered body.
EndOfLines(p) ==
  /\ InPhase(p, "piping") /\ LinesOver(p)
  /\ LET prints == run[p].over \/ (plan[p].buffered /\ Has(p, "shown"))
     IN  Enter(p, IF prints /\ ~sink[p] THEN "unwinding" ELSE "waiting")
  /\ UNCHANGED <<child, pipe, readers, chan, fates, sink, code>>

\* Mutant: the code is taken without waiting for the reader threads.
CollectedAtExit(p) == child[p].status # "running"

Collected(p) == readers[p] = {} /\ child[p].status # "running"

ChildCode(p) == IF child[p].status = "killed" THEN Killed ELSE plan[p].code

\* wait_child: what is left in the channel is dropped, then the child is waited
\* for.  Recording the savings comes next.
WaitChild(p) ==
  /\ InPhase(p, "waiting") /\ Collected(p)
  /\ run' = [run EXCEPT ![p].phase = "waited", ![p].code = ChildCode(p)]
  /\ chan' = [chan EXCEPT ![p] = <<>>]
  /\ UNCHANGED <<child, pipe, readers, fates, sink, code>>

\* What becomes of the lines a handler has taken, all at once in this history:
\* a scan has forwarded those of standard error as they came.
Dealt(p, fate) ==
  [i \in DOMAIN chan[p] |->
     [line |-> chan[p][i],
      fate |-> IF plan[p].does = "scan" /\ chan[p][i].from = "stderr" THEN "forwarded" ELSE fate]]

\* The outcome of a handler, printed by print!, which panics when a line cannot
\* be written; an empty one and what a failed git printed do not.
Outcome(p, c) ==
  \/ run' = [run EXCEPT ![p].phase = "waited", ![p].code = c] /\ UNCHANGED code
  \/ ~sink[p] /\ Exit(p, Panic)

\* A handler whose child has ended and whose reading is done.
Native(p) ==
  /\ InPhase(p, "collecting") \/ InPhase(p, "scanning")
  /\ plan[p].does # "diff" /\ Collected(p)
  /\ fates' = [fates EXCEPT ![p] = Dealt(p, "digested")]
  /\ chan' = [chan EXCEPT ![p] = <<>>]
  /\ Outcome(p, ChildCode(p))
  /\ UNCHANGED <<child, pipe, readers, sink>>

\* run_diff: what the first git printed is too much, and is dropped.
Rerun(p) ==
  /\ InPhase(p, "collecting") /\ plan[p].does = "diff" /\ Collected(p)
  /\ child' = [child EXCEPT ![p] = NoChild(p)]
  /\ chan' = [chan EXCEPT ![p] = <<>>]
  /\ Enter(p, "again")
  /\ UNCHANGED <<pipe, readers, fates, sink, code>>

\* `let line = line?`: the handler returns, the child is not waited for, its
\* pipe and the forwarding thread go with jkr, and nothing is printed or recorded.
ScanFails(p) ==
  /\ InPhase(p, "scanning") /\ "stdout" \in readers[p] /\ StopsAt(p, "stdout")
  /\ fates' = [fates EXCEPT ![p] = Dealt(p, "lost")]
  /\ chan' = [chan EXCEPT ![p] = <<>>]
  /\ readers' = [readers EXCEPT ![p] = {}]
  /\ Exit(p, Failed)
  /\ UNCHANGED <<child, pipe, sink>>

\* cat: no child; read_to_string of the files, one of which may not be UTF-8.
FindFiles(p) ==
  /\ InPhase(p, "off") /\ plan[p].does = "cat"
  /\ Enter(p, "reading")
  /\ UNCHANGED <<child, pipe, readers, chan, fates, sink, code>>

NotText(p) == \E i \in DOMAIN plan[p].prints["stdout"] : plan[p].prints["stdout"][i] \in Unreadable

ReadFiles(p) ==
  /\ InPhase(p, "reading")
  /\ IF NotText(p)
     THEN Exit(p, Failed) /\ UNCHANGED <<child, fates>>
     ELSE /\ child' = [child EXCEPT ![p].left["stdout"] = <<>>]
          /\ fates' = [fates EXCEPT ![p] =
                [i \in DOMAIN child[p].left["stdout"] |->
                   [line |-> [from |-> "stdout", n |-> i, line |-> child[p].left["stdout"][i]],
                    fate |-> "digested"]]]
          /\ Outcome(p, 0)
  /\ UNCHANGED <<pipe, readers, chan, sink>>

\* Mutant: the readers block on a channel that is no longer received from.
UnwoundWhenEmpty(p) ==
  /\ InPhase(p, "unwinding") /\ Collected(p) /\ chan[p] = <<>>
  /\ Exit(p, Panic)
  /\ UNCHANGED <<child, pipe, readers, chan, fates, sink>>

\* A panic unwinds through LineStream::drop, which waits for the child and for
\* the readers; the channel is still there, so they read on.
Unwound(p) ==
  /\ InPhase(p, "unwinding") /\ Collected(p)
  /\ Exit(p, Panic)
  /\ UNCHANGED <<child, pipe, readers, chan, fates, sink>>

\* The transcript is kept when a streamed command failed, and its name printed.
KeepsTranscript(p) ==
  /\ plan[p].does \in {"run", "diff"} /\ run[p].code # 0
  /\ \E i \in DOMAIN fates[p] : fates[p][i].line.line \notin Unreadable \cup Blank

\* jkr is killed; its child sees its pipes closed.
ProxyCrash(p) ==
  /\ Enter(p, "dead")
  /\ readers' = [readers EXCEPT ![p] = {}]
  /\ UNCHANGED <<child, pipe, chan, fates, sink, code>>

\* jkr's main thread up to the vault, and what goes on around it.
MainThread(p) == \/ Receive(p) \/ EndOfLines(p) \/ WaitChild(p) \/ Unwound(p)
                 \/ Native(p) \/ Rerun(p) \/ ScanFails(p) \/ ReadFiles(p)

Outside(p) == \/ Spawn(p) \/ SpawnFails(p) \/ FindFiles(p) \/ ChildEnds(p) \/ SinkCloses(p)
              \/ \E s \in Streams : Prints(p, s) \/ Closes(p, s)

-----------------------------------------------------------------------------
\* How many of the first k lines the pipeline took are of one stream.
Received(p, s, k) == Cardinality({i \in 1 .. k : fates[p][i].line.from = s})

InOrder(p) ==
  \A i \in DOMAIN fates[p] : fates[p][i].line.n = Received(p, fates[p][i].line.from, i)

AllReceived(p, s) ==
  Received(p, s, Len(fates[p])) = Len(plan[p].prints[s]) - Len(child[p].left[s])

\* What the gathering rules hold back, which flush would print.
HeldBack(p) == UNION {{i} \X Gathered(run[p].states[i]) : i \in DOMAIN run[p].states}

Suppressed(p) == {i \in DOMAIN fates[p] : fates[p][i].fate = "suppressed"}

\* jkr has the outcome of the command: it records it, or has exited with it.
Reported(p) == run[p].phase \in {"waited", "stats"} \/ code[p] \in {0, Failed, Killed}

\* A scan that failed at a line that is not UTF-8.
GaveUp(p) == StopsAt(p, "stdout") /\ code[p] = Failed

(***************************************************************************)
(* run_pipeline_direct and the native handlers: whatever the two readers,  *)
(* the child and the reader of jkr's output do, the lines of a stream are  *)
(* taken in the order they were printed, none twice.  When jkr reports an  *)
(* outcome every line of a stream was taken, with two exceptions, both of  *)
(* grep and ls: their standard error is taken up to a line that is not     *)
(* UTF-8, and after such a line on standard output none of the lines taken *)
(* there is printed.  What the gathering rules hold back are lines counted *)
(* as suppressed; that a command ends without printing them, although they *)
(* are to be emitted at flush, is what the code does: it calls no flush.   *)
(***************************************************************************)
OutputIsAccounted ==
  \A p \in Command :
    /\ InOrder(p)
    /\ Reported(p) =>
         \/ \A s \in Streams : AllReceived(p, s) \/ (s = "stderr" /\ StopsAt(p, s))
         \/ GaveUp(p) /\ \A i \in DOMAIN fates[p] :
                           fates[p][i].fate = (IF fates[p][i].line.from = "stdout" THEN "lost"
                                                                                   ELSE "forwarded")
    /\ Cardinality(HeldBack(p)) <= Cardinality(Suppressed(p))

\* What jkr exits with: cat runs no child, a scan that gave up does not wait
\* for its own.
OwnCode(p) ==
  IF plan[p].does = "cat" THEN IF NotText(p) THEN Failed ELSE 0
  ELSE IF StopsAt(p, "stdout") \/ child[p].status = "none" THEN Failed
  ELSE ChildCode(p)

(***************************************************************************)
(* The exit code of jkr is the child's, whatever becomes of the record in  *)
(* the vault: recording never fails a command and never hides its failure. *)
(* A reader of the output that went away may give another one, a child     *)
(* that could not be started and one ended by a signal do, and so do two   *)
(* handlers: grep and ls fail at a line on standard output that is not     *)
(* UTF-8, and cat, which reads the files itself, fails for such a file.    *)
(***************************************************************************)
ExitCodeIsChilds ==
  \A p \in Command : Proxied(p) /\ code[p] # NoCode =>
    code[p] = OwnCode(p) \/ (~sink[p] /\ code[p] = Panic)
=============================================================================
