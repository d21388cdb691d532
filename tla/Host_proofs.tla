----------------------------- MODULE Host_proofs -----------------------------
(***************************************************************************)
(* Exit codes and output of proxied commands and the records they leave    *)
(* in the vault, for any number of invocations and kills, any rules and    *)
(* any output.                                                             *)
(***************************************************************************)
EXTENDS Host, FiniteSetTheorems, SequenceTheorems, TLAPS

Ended(p) == child[p].status \in {"ended", "killed"}

(* The shape of what invocations keep: as much of it as exit codes need.   *)
Shape ==
  /\ child = [p \in Command |-> child[p]]
  /\ run = [p \in Command |-> run[p]]
  /\ code = [p \in Command |-> code[p]]
  /\ sink = [p \in Command |-> sink[p]]
  /\ \A p \in Command : /\ {"status", "left", "open"} \subseteq DOMAIN child[p]
                        /\ {"phase", "code"} \subseteq DOMAIN run[p]

(* The phases with no child, and those with one that is read.              *)
Childless == {"off", "again", "reading"}
Reading == {"collecting", "scanning", "piping", "unwinding", "waiting"}

(* The child's code is known from the moment the threads are joined, and a  *)
(* main thread panics only when its output has no reader.                   *)
CodeKnown(p) ==
  /\ run[p].phase \in Childless => child[p].status = "none"
  /\ InPhase(p, "reading") => plan[p].does = "cat"
  /\ plan[p].does = "cat" => /\ child[p].status = "none"
                            /\ run[p].phase \notin Reading \cup {"again"}
  /\ run[p].phase \in Reading => child[p].status \in {"running", "ended", "killed"}
  /\ InPhase(p, "unwinding") => ~sink[p]
  /\ run[p].phase \in {"waited", "stats"} =>
       IF plan[p].does = "cat" THEN run[p].code = 0 /\ ~NotText(p)
                               ELSE Ended(p) /\ run[p].code = ChildCode(p)
  /\ ~InPhase(p, "busy")
  /\ ~InPhase(p, "exited") => code[p] = NoCode
  /\ InPhase(p, "exited") =>
       \/ code[p] \in {0, Failed}
       \/ Ended(p) /\ code[p] = ChildCode(p)
       \/ ~sink[p] /\ code[p] = Panic

ExitInv == Shape /\ \A p \in Command : Proxied(p) => CodeKnown(p)

(* What another invocation does is not seen.                               *)
LEMMA OthersKeep ==
  ASSUME NEW q \in Command, plan' = plan,
         child'[q] = child[q], run'[q] = run[q], code'[q] = code[q], sink'[q] = sink[q],
         Proxied(q) => CodeKnown(q)
  PROVE  Proxied(q)' => CodeKnown(q)'
BY DEF Proxied, CodeKnown, InPhase, Ended, ChildCode, NotText

-----------------------------------------------------------------------------
(* Moving to a phase changes nothing else of an invocation.                *)
LEMMA EnterMoves ==
  ASSUME Shape, NEW p \in Command, NEW phase, Enter(p, phase)
  PROVE  /\ run' = [q \in Command |-> run'[q]]
         /\ \A q \in Command : q # p => run'[q] = run[q]
         /\ run'[p].phase = phase /\ run'[p].code = run[p].code
         /\ \A q \in Command : {"phase", "code"} \subseteq DOMAIN run'[q]
BY DEF Shape, Enter

LEMMA ExitMoves ==
  ASSUME Shape, NEW p \in Command, NEW c, Exit(p, c)
  PROVE  /\ Enter(p, "exited")
         /\ code' = [q \in Command |-> code'[q]]
         /\ \A q \in Command : q # p => code'[q] = code[q]
         /\ code'[p] = c
BY DEF Shape, Exit

(* The pipeline's treatment of a line leaves the phase and the code.       *)
LEMMA TreatKeeps ==
  ASSUME Shape, NEW p \in Command, NEW t
  PROVE  /\ Treat(p, t).r.phase = run[p].phase /\ Treat(p, t).r.code = run[p].code
         /\ {"phase", "code"} \subseteq DOMAIN Treat(p, t).r
<1>1. {"phase", "code"} \subseteq DOMAIN run[p]
  BY DEF Shape
<1> DEFINE r == run[p]
           blanks == IF t.line \in Blank THEN r.blanks + 1 ELSE 0
           said == Filter(plan[p].rules, r.states, t.line)
           width == IF said.answer = "short" THEN 1 ELSE Width[t.line]
           seen == [r EXCEPT !.blanks = blanks, !.states = said.state]
           Kept(x) == /\ x.phase = r.phase /\ x.code = r.code
                      /\ {"phase", "code"} \subseteq DOMAIN x
<1>2. Kept(r) /\ Kept([r EXCEPT !.blanks = blanks]) /\ Kept(seen)
  BY <1>1
<1>3. Kept([seen EXCEPT !.over = TRUE]) /\ Kept([seen EXCEPT !.spent = @ + width])
  BY <1>1
<1>4. Treat(p, t).r \in {r, [r EXCEPT !.blanks = blanks], seen,
                         [seen EXCEPT !.over = TRUE], [seen EXCEPT !.spent = @ + width]}
  BY DEF Treat
<1> HIDE DEF r, blanks, said, width, seen, Kept
<1>5. Kept(Treat(p, t).r)
  BY <1>2, <1>3, <1>4
<1>6. QED
  BY <1>5 DEF Kept, r

(* A child is started for a command with a pipeline or a handler that reads *)
(* one, which is never cat.                                                 *)
LEMMA StartsKnown ==
  ASSUME NEW p \in Command, Starts(p)
  PROVE  /\ InPhase(p, "again") \/ (InPhase(p, "off") /\ Proxied(p) /\ plan[p].does # "cat")
         /\ (IF InPhase(p, "again") THEN "piping" ELSE Takes[plan[p].does])
              \in {"collecting", "scanning", "piping"}
<1>1. \A does \in DOMAIN Takes : /\ does \in Invoked /\ does # "cat"
                               /\ Takes[does] \in {"collecting", "scanning", "piping"}
  BY DEF Takes
<1>2. QED
  BY <1>1 DEF Starts, Proxied

-----------------------------------------------------------------------------
(* The child and what goes on around it.                                   *)
LEMMA OutsideKeeps ==
  ASSUME ExitInv, plan' = plan, NEW p \in Command, Outside(p)
  PROVE  ExitInv'
<1>1. Shape /\ \A q \in Command : Proxied(q) => CodeKnown(q)
  BY DEF ExitInv
<1>2. CASE Spawn(p)
  <2>1. /\ Shape'
        /\ \A q \in Command : q # p => child'[q] = child[q] /\ run'[q] = run[q]
        /\ child'[p].status = "running" /\ run'[p].phase \in {"collecting", "scanning", "piping"}
        /\ code' = code /\ sink' = sink
        /\ InPhase(p, "again") \/ (InPhase(p, "off") /\ plan[p].does # "cat")
    BY <1>1, <1>2, StartsKnown DEF Spawn, Shape, Local
  <2>2. Proxied(p)' => CodeKnown(p)'
    BY <1>1, <2>1 DEF CodeKnown, Proxied, InPhase, Reading, Childless
  <2>3. QED
    BY <1>1, <2>1, <2>2, OthersKeep DEF ExitInv
<1>3. CASE SpawnFails(p)
  <2>1. /\ Exit(p, Failed) /\ child' = child /\ sink' = sink
        /\ InPhase(p, "again") \/ (InPhase(p, "off") /\ plan[p].does # "cat")
    BY <1>3, StartsKnown DEF SpawnFails
  <2>2. Shape'
    BY <1>1, <2>1, ExitMoves, EnterMoves DEF Shape
  <2>3. /\ \A q \in Command : q # p => code'[q] = code[q] /\ run'[q] = run[q]
        /\ run'[p].phase = "exited" /\ code'[p] = Failed
    BY <1>1, <2>1, ExitMoves, EnterMoves
  <2>4. Proxied(p)' => CodeKnown(p)'
    BY <1>1, <2>1, <2>3 DEF CodeKnown, Proxied, InPhase, Reading, Childless
  <2>5. QED
    BY <1>1, <2>1, <2>2, <2>3, <2>4, OthersKeep DEF ExitInv
<1>8. CASE FindFiles(p)
  <2>1. Enter(p, "reading") /\ UNCHANGED <<child, sink, code>> /\ InPhase(p, "off")
        /\ plan[p].does = "cat"
    BY <1>8 DEF FindFiles
  <2>2. Shape'
    BY <1>1, <2>1, EnterMoves DEF Shape
  <2>3. Proxied(p)' => CodeKnown(p)'
    BY <1>1, <2>1, EnterMoves DEF CodeKnown, Proxied, InPhase, Reading, Childless
  <2>4. QED
    BY <1>1, <2>1, <2>2, <2>3, EnterMoves, OthersKeep DEF ExitInv
<1>4. CASE SinkCloses(p)
  <2>1. /\ Shape' /\ \A q \in Command : q # p => sink'[q] = sink[q]
        /\ sink'[p] = FALSE /\ UNCHANGED <<child, run, code>>
    BY <1>1, <1>4 DEF SinkCloses, Shape
  <2>2. Proxied(p)' => CodeKnown(p)'
    BY <1>1, <2>1 DEF CodeKnown, Proxied, InPhase, Ended, ChildCode, NotText
  <2>3. QED
    BY <1>1, <2>1, <2>2, OthersKeep DEF ExitInv
<1>5. ASSUME NEW s \in Streams, Prints(p, s) \/ Closes(p, s)
      PROVE  ExitInv'
  <2>1. /\ Shape' /\ \A q \in Command : q # p => child'[q] = child[q]
        /\ child'[p].status = child[p].status /\ UNCHANGED <<run, code, sink>>
    BY <1>1, <1>5 DEF Prints, Closes, Shape
  <2>2. Proxied(p)' => CodeKnown(p)'
    BY <1>1, <2>1 DEF CodeKnown, Proxied, InPhase, Ended, ChildCode, NotText
  <2>3. QED
    BY <1>1, <2>1, <2>2, OthersKeep DEF ExitInv
<1>6. CASE ChildEnds(p)
  <2>1. /\ Shape' /\ \A q \in Command : q # p => child'[q] = child[q]
        /\ child[p].status = "running" /\ child'[p].status \in {"ended", "killed"}
        /\ UNCHANGED <<run, code, sink>>
    BY <1>1, <1>6 DEF ChildEnds, Shape
  <2>2. Proxied(p)' => CodeKnown(p)'
    BY <1>1, <2>1 DEF CodeKnown, Proxied, InPhase, Ended, Childless, Reading
  <2>3. QED
    BY <1>1, <2>1, <2>2, OthersKeep DEF ExitInv
<1>7. QED
  BY <1>2, <1>3, <1>4, <1>5, <1>6, <1>8 DEF Outside

(* The pipeline up to the vault.                                           *)
LEMMA MainKeeps ==
  ASSUME ExitInv, plan' = plan, NEW p \in Command,
         Receive(p) \/ EndOfLines(p) \/ WaitChild(p) \/ Unwound(p)
  PROVE  ExitInv'
<1>1. Shape /\ \A q \in Command : Proxied(q) => CodeKnown(q)
  BY DEF ExitInv
<1>2. UNCHANGED <<child, sink>>
  BY DEF Receive, EndOfLines, WaitChild, Unwound
<1>3. CASE Receive(p)
  <2> DEFINE treated == Treat(p, Head(chan[p]))
  <2>1. /\ run' = [run EXCEPT ![p] = run'[p]]
        /\ run'[p] = treated.r \/ (run'[p] = [treated.r EXCEPT !.phase = "unwinding"] /\ ~sink[p])
        /\ code' = code /\ InPhase(p, "piping")
    BY <1>1, <1>3 DEF Receive, Shape
  <2>2. treated.r.phase = "piping" /\ {"phase", "code"} \subseteq DOMAIN treated.r
    BY <1>1, <2>1, TreatKeeps DEF InPhase
  <2> HIDE DEF treated
  <2>3. /\ \A q \in Command : q # p => run'[q] = run[q]
        /\ run'[p].phase = "piping" \/ (run'[p].phase = "unwinding" /\ ~sink[p])
        /\ {"phase", "code"} \subseteq DOMAIN run'[p]
    BY <1>1, <2>1, <2>2 DEF Shape
  <2>4. Shape'
    BY <1>1, <1>2, <2>1, <2>3 DEF Shape
  <2>5. Proxied(p)' => CodeKnown(p)'
    BY <1>1, <1>2, <2>1, <2>3 DEF CodeKnown, Proxied, InPhase, Reading, Childless
  <2>6. QED
    BY <1>1, <1>2, <2>1, <2>3, <2>4, <2>5, OthersKeep DEF ExitInv
<1>4. CASE EndOfLines(p)
  <2>1. PICK phase \in {"unwinding", "waiting"} :
          Enter(p, phase) /\ (phase = "unwinding" => ~sink[p])
    BY <1>4 DEF EndOfLines
  <2>2. code' = code /\ InPhase(p, "piping")
    BY <1>4 DEF EndOfLines
  <2>3. Shape'
    BY <1>1, <1>2, <2>1, <2>2, EnterMoves DEF Shape
  <2>4. Proxied(p)' => CodeKnown(p)'
    BY <1>1, <1>2, <2>1, <2>2, EnterMoves DEF CodeKnown, Proxied, InPhase, Reading, Childless
  <2>5. QED
    BY <1>1, <1>2, <2>1, <2>2, <2>3, <2>4, EnterMoves, OthersKeep DEF ExitInv
<1>5. ASSUME run' = [run EXCEPT ![p].phase = "waited", ![p].code = ChildCode(p)],
             InPhase(p, "waiting"), Collected(p), code' = code
      PROVE  ExitInv'
  <2>1. /\ \A q \in Command : q # p => run'[q] = run[q]
        /\ run'[p].phase = "waited" /\ run'[p].code = ChildCode(p)
        /\ Shape'
    BY <1>1, <1>2, <1>5 DEF Shape
  <2>2. Proxied(p)' => CodeKnown(p)'
    BY <1>1, <1>2, <1>5, <2>1 DEF CodeKnown, Proxied, InPhase, Collected, Ended, ChildCode, Reading, Childless
  <2>3. QED
    BY <1>1, <1>2, <1>5, <2>1, <2>2, OthersKeep DEF ExitInv
<1>6. ASSUME Exit(p, Panic), InPhase(p, "unwinding"), ~sink[p]
      PROVE  ExitInv'
  <2>1. /\ \A q \in Command : q # p => code'[q] = code[q] /\ run'[q] = run[q]
        /\ run'[p].phase = "exited" /\ code'[p] = Panic
    BY <1>1, <1>6, ExitMoves, EnterMoves
  <2>2. Shape'
    BY <1>1, <1>2, <1>6, ExitMoves, EnterMoves DEF Shape
  <2>3. Proxied(p)' => CodeKnown(p)'
    BY <1>1, <1>2, <1>6, <2>1 DEF CodeKnown, Proxied, InPhase, Reading, Childless
  <2>4. QED
    BY <1>1, <1>2, <2>1, <2>2, <2>3, OthersKeep DEF ExitInv
<1>7. CASE WaitChild(p)
  BY <1>5, <1>7 DEF WaitChild, InPhase
<1>8. CASE Unwound(p)
  <2>1. CASE Proxied(p)
    BY <1>1, <1>6, <1>8, <2>1 DEF Unwound, InPhase, CodeKnown
  <2>2. CASE ~Proxied(p)
    <3>1. Exit(p, Panic)
      BY <1>8 DEF Unwound
    <3>2. \A q \in Command : q # p => code'[q] = code[q] /\ run'[q] = run[q]
      BY <1>1, <3>1, ExitMoves, EnterMoves
    <3>3. Shape'
      BY <1>1, <1>2, <3>1, ExitMoves, EnterMoves DEF Shape
    <3>4. ~Proxied(p)'
      BY <2>2 DEF Proxied
    <3>5. QED
      BY <1>1, <1>2, <3>2, <3>3, <3>4, OthersKeep DEF ExitInv
  <2>3. QED
    BY <2>1, <2>2
<1>9. QED
  BY <1>3, <1>4, <1>7, <1>8

(* The handlers.                                                           *)
LEMMA HandlerKeeps ==
  ASSUME ExitInv, plan' = plan, NEW p \in Command,
         Native(p) \/ Rerun(p) \/ ScanFails(p) \/ ReadFiles(p)
  PROVE  ExitInv'
<1>1. Shape /\ \A q \in Command : Proxied(q) => CodeKnown(q)
  BY DEF ExitInv
<1>2. sink' = sink
  BY DEF Native, Rerun, ScanFails, ReadFiles
<1>3. ASSUME NEW c, Outcome(p, c), child' = [q \in Command |-> child'[q]],
             \A q \in Command : q # p => child'[q] = child[q],
             {"status", "left", "open"} \subseteq DOMAIN child'[p],
             child'[p].status = child[p].status,
             Proxied(p) => IF plan[p].does = "cat" THEN c = 0 /\ ~NotText(p)
                                                    ELSE Ended(p) /\ c = ChildCode(p)
      PROVE  ExitInv'
  <2>1. CASE run' = [run EXCEPT ![p].phase = "waited", ![p].code = c] /\ UNCHANGED code
    <3>1. /\ \A q \in Command : q # p => run'[q] = run[q]
          /\ run'[p].phase = "waited" /\ run'[p].code = c /\ Shape'
      BY <1>1, <1>2, <1>3, <2>1 DEF Shape
    <3>2. ASSUME Proxied(p) PROVE CodeKnown(p)'
      <4>1. CodeKnown(p) /\ ~InPhase(p, "exited")
        BY <1>1, <3>2 DEF InPhase, Native, Rerun, ScanFails, ReadFiles
      <4>2. QED
        BY <1>2, <1>3, <2>1, <3>1, <3>2, <4>1
        DEF CodeKnown, InPhase, Ended, ChildCode, Reading, Childless, NotText
    <3>3. QED
      BY <1>1, <1>2, <1>3, <2>1, <3>1, <3>2, OthersKeep DEF ExitInv, Proxied
  <2>2. CASE ~sink[p] /\ Exit(p, Panic)
    <3>1. /\ \A q \in Command : q # p => code'[q] = code[q] /\ run'[q] = run[q]
          /\ run'[p].phase = "exited" /\ code'[p] = Panic
      BY <1>1, <2>2, ExitMoves, EnterMoves
    <3>2. Shape'
      BY <1>1, <1>2, <1>3, <2>2, ExitMoves, EnterMoves DEF Shape
    <3>3. Proxied(p)' => CodeKnown(p)'
      BY <1>1, <1>2, <1>3, <2>2, <3>1 DEF CodeKnown, Proxied, InPhase, Reading, Childless
    <3>4. QED
      BY <1>1, <1>2, <1>3, <3>1, <3>2, <3>3, OthersKeep DEF ExitInv
  <2>3. QED
    BY <1>3, <2>1, <2>2 DEF Outcome
<1>4. ASSUME Exit(p, Failed), child' = child PROVE ExitInv'
  <2>1. /\ \A q \in Command : q # p => code'[q] = code[q] /\ run'[q] = run[q]
        /\ run'[p].phase = "exited" /\ code'[p] = Failed
    BY <1>1, <1>4, ExitMoves, EnterMoves
  <2>2. Shape'
    BY <1>1, <1>2, <1>4, ExitMoves, EnterMoves DEF Shape
  <2>3. Proxied(p)' => CodeKnown(p)'
    BY <1>1, <1>2, <1>4, <2>1 DEF CodeKnown, Proxied, InPhase, Reading, Childless
  <2>4. QED
    BY <1>1, <1>2, <1>4, <2>1, <2>2, <2>3, OthersKeep DEF ExitInv
<1>5. CASE Native(p)
  <2>1. /\ Outcome(p, ChildCode(p)) /\ child' = child /\ Collected(p)
        /\ run[p].phase \in {"collecting", "scanning"}
    BY <1>5 DEF Native, InPhase
  <2>2. ASSUME Proxied(p) PROVE Ended(p) /\ plan[p].does # "cat"
    BY <1>1, <2>1, <2>2 DEF CodeKnown, Collected, Ended, Reading
  <2>3. QED
    BY <1>1, <1>3, <2>1, <2>2 DEF Shape
<1>6. CASE Rerun(p)
  <2>1. /\ child' = [child EXCEPT ![p] = NoChild(p)] /\ Enter(p, "again") /\ code' = code
        /\ plan[p].does = "diff" /\ InPhase(p, "collecting")
    BY <1>6 DEF Rerun
  <2>2. child'[p].status = "none" /\ {"status", "left", "open"} \subseteq DOMAIN child'[p]
    BY <1>1, <2>1 DEF NoChild, Shape
  <2>3. Shape' /\ \A q \in Command : q # p => child'[q] = child[q]
    BY <1>1, <1>2, <2>1, <2>2, EnterMoves DEF Shape
  <2>4. Proxied(p)' => CodeKnown(p)'
    BY <1>1, <1>2, <2>1, <2>2, EnterMoves DEF CodeKnown, Proxied, InPhase, Reading, Childless
  <2>5. QED
    BY <1>1, <1>2, <2>1, <2>3, <2>4, EnterMoves, OthersKeep DEF ExitInv
<1>7. CASE ScanFails(p)
  BY <1>4, <1>7 DEF ScanFails
<1>8. CASE ReadFiles(p)
  <2>1. CASE NotText(p)
    BY <1>4, <1>8, <2>1 DEF ReadFiles
  <2>2. CASE ~NotText(p)
    <3>1. /\ child' = [child EXCEPT ![p].left["stdout"] = <<>>] /\ Outcome(p, 0)
          /\ InPhase(p, "reading")
      BY <1>8, <2>2 DEF ReadFiles
    <3>2. /\ child' = [q \in Command |-> child'[q]]
          /\ \A q \in Command : q # p => child'[q] = child[q]
          /\ {"status", "left", "open"} \subseteq DOMAIN child'[p]
          /\ child'[p].status = child[p].status
      BY <1>1, <3>1 DEF Shape
    <3>3. Proxied(p) => plan[p].does = "cat"
      BY <1>1, <3>1 DEF CodeKnown
    <3>4. QED
      BY <1>3, <2>2, <3>1, <3>2, <3>3
  <2>3. QED
    BY <2>1, <2>2
<1>9. QED
  BY <1>5, <1>6, <1>7, <1>8

(* The record in the vault, the exit, the other commands and kills.        *)
LEMMA HostKeeps ==
  ASSUME ExitInv, plan' = plan, NEW p \in Command,
         Record(p) \/ Finish(p) \/ Administers(p) \/ Administered(p) \/ Kill(p)
  PROVE  ExitInv'
<1>1. Shape /\ \A q \in Command : Proxied(q) => CodeKnown(q)
  BY DEF ExitInv
<1>2. UNCHANGED <<child, sink>>
  BY DEF Record, Finish, Administers, Administered, Kill, ProxyCrash
<1>3. ASSUME NEW phase, Enter(p, phase), code' = code,
             \/ phase = "stats" /\ InPhase(p, "waited")
             \/ phase = "busy" /\ ~Proxied(p)
             \/ phase = "exited" /\ InPhase(p, "busy")
             \/ phase = "dead" /\ Alive(p)
      PROVE  ExitInv'
  <2>1. /\ \A q \in Command : q # p => run'[q] = run[q]
        /\ run'[p].phase = phase /\ run'[p].code = run[p].code
    BY <1>1, <1>3, EnterMoves
  <2>2. Shape'
    BY <1>1, <1>2, <1>3, EnterMoves DEF Shape
  <2>3. Proxied(p)' => CodeKnown(p)'
    BY <1>1, <1>2, <1>3, <2>1
    DEF CodeKnown, Proxied, InPhase, Ended, ChildCode, Alive, NotText, Reading, Childless
  <2>4. QED
    BY <1>1, <1>2, <1>3, <2>1, <2>2, <2>3, OthersKeep DEF ExitInv
<1>4. CASE Finish(p)
  <2>1. Exit(p, FinalCode(p)) /\ InPhase(p, "stats")
    BY <1>4 DEF Finish
  <2>2. /\ \A q \in Command : q # p => code'[q] = code[q] /\ run'[q] = run[q]
        /\ run'[p].phase = "exited" /\ code'[p] = FinalCode(p)
    BY <1>1, <2>1, ExitMoves, EnterMoves
  <2>3. Shape'
    BY <1>1, <1>2, <2>1, ExitMoves, EnterMoves DEF Shape
  <2>4. FinalCode(p) = run[p].code \/ (FinalCode(p) = Panic /\ ~sink[p])
    BY DEF FinalCode
  <2>5. Proxied(p)' => CodeKnown(p)'
    BY <1>1, <1>2, <2>1, <2>2, <2>4
    DEF CodeKnown, Proxied, InPhase, Ended, ChildCode, Reading, Childless
  <2>6. QED
    BY <1>1, <1>2, <2>2, <2>3, <2>5, OthersKeep DEF ExitInv
<1>5. CASE Record(p)
  BY <1>3, <1>5 DEF Record
<1>6. CASE Administers(p)
  BY <1>3, <1>6 DEF Administers, Proxied, Invoked
<1>7. CASE Administered(p)
  BY <1>3, <1>7 DEF Administered
<1>8. CASE Kill(p)
  BY <1>3, <1>8 DEF Kill, ProxyCrash
<1>9. QED
  BY <1>4, <1>5, <1>6, <1>7, <1>8

LEMMA ExitStays ==
  ASSUME ExitInv, UNCHANGED <<plan, child, run, code, sink>>
  PROVE  ExitInv'
BY DEF ExitInv, Shape, CodeKnown, Proxied, InPhase, Ended, ChildCode, NotText

LEMMA ExitAlways == HostSpec => []ExitInv
<1>1. HostInit => ExitInv
  BY DEF HostInit, ProxyInit, ExitInv, Shape, CodeKnown, InPhase, Local, NoChild, Reading, Childless
<1>2. ExitInv /\ [HostNext]_hostVars => ExitInv'
  <2> SUFFICES ASSUME ExitInv, [HostNext]_hostVars PROVE ExitInv'
    OBVIOUS
  <2>1. CASE UNCHANGED hostVars
    BY <2>1, ExitStays DEF hostVars, proxyVars
  <2>2. ASSUME NEW p \in Command, Proxy(p), plan' = plan PROVE ExitInv'
    <3>1. ASSUME NEW s \in Streams, Reader(p, s) PROVE ExitInv'
      BY <2>2, <3>1, ExitStays DEF Reader
    <3>2. QED
      BY <2>2, <3>1, MainKeeps, HandlerKeeps, OutsideKeeps DEF Proxy, MainThread
  <2>3. ASSUME NEW p \in Command, InVault(p), plan' = plan PROVE ExitInv'
    BY <2>3, ExitStays DEF InVault, proxyVars
  <2>4. QED
    BY <2>1, <2>2, <2>3, HostKeeps DEF HostNext
<1>3. QED
  BY <1>1, <1>2, PTL DEF HostSpec

-----------------------------------------------------------------------------
(* The types of the vault, and of what invocations keep of it.             *)
VaultTyped ==
  /\ dirs \in [Places -> {NoDir} \cup Dir]
  /\ key \in [Command -> Key] /\ db \in [Command -> SUBSET Command]
  /\ due \subseteq Command /\ lapped \subseteq Command

(* Keys, and the directories that are written: a vault with another part.  *)
LEMMA KeyTypes ==
  /\ NoKeyFile \in Key /\ EmptyKey \in Key
  /\ \A p \in Command : BootKey(p) \in Key /\ RotateKey(p) \in Key
BY DEF Key, NoKeyFile, EmptyKey, BootKey, RotateKey

LEMMA DirTypes ==
  /\ NoDir.there = FALSE /\ NoDir \notin Dir /\ Fresh \in Dir
  /\ \A d \in {NoDir} \cup Dir : d.there => d \in Dir
  /\ \A d \in Dir : d.there /\ d.key \in Key /\ d.sealed \in Key /\ d.rows \subseteq Command
<1>1. NoDir.there = FALSE
  BY DEF NoDir
<1>2. \A d \in Dir : d.there /\ d.key \in Key /\ d.sealed \in Key /\ d.rows \subseteq Command
  BY DEF Dir
<1>3. Fresh \in Dir
  BY KeyTypes DEF Dir, Fresh
<1>4. QED
  BY <1>1, <1>2, <1>3

LEMMA DirParts ==
  ASSUME NEW d \in Dir
  PROVE  /\ \A k \in Key : [d EXCEPT !.key = k] \in Dir
         /\ \A k \in Key, r \in SUBSET Command : [d EXCEPT !.sealed = k, !.rows = r] \in Dir
         /\ \A i \in {"none", "empty", "blob"} : [d EXCEPT !.index = i] \in Dir
BY DEF Dir

(* Altering one directory, or swapping them, leaves directories.           *)
LEMMA AlterTypes ==
  ASSUME dirs \in [Places -> {NoDir} \cup Dir], NEW place \in Places,
         NEW d \in {NoDir} \cup Dir, Alter(place, d)
  PROVE  dirs' \in [Places -> {NoDir} \cup Dir]
BY DEF Alter

LEMMA VaultTypes ==
  ASSUME VaultTyped, NEW p \in Command, VaultStep(p)
  PROVE  VaultTyped'
<1> DEFINE Dirs == [Places -> {NoDir} \cup Dir]
<1>1. /\ dirs \in Dirs /\ key \in [Command -> Key] /\ db \in [Command -> SUBSET Command]
      /\ due \subseteq Command /\ lapped \subseteq Command
  BY DEF VaultTyped
<1>2. Vault \in {NoDir} \cup Dir /\ (Vault.there => Vault \in Dir)
  BY <1>1, DirTypes DEF Vault, Places
<1>3. "vault" \in Places /\ "rotating" \in Places /\ "old" \in Places
  BY DEF Places
<1>4. lapped' = lapped
  BY DEF VaultStep
<1>5. ASSUME NEW rows \in SUBSET Command, PutEntry(p, rows) PROVE dirs' \in Dirs
  <2>1. CASE Vault.there
    <3>1. [Vault EXCEPT !.sealed = key[p], !.rows = rows] \in Dir
      BY <1>1, <1>2, <2>1, DirParts
    <3>2. QED
      BY <1>1, <1>3, <1>5, <2>1, <3>1, AlterTypes DEF PutEntry
  <2>2. QED
    BY <1>1, <1>5, <2>1 DEF PutEntry
<1>6. ASSUME PutIndex(p) PROVE dirs' \in Dirs
  <2>1. CASE Vault.there
    <3>1. [Vault EXCEPT !.index = "blob"] \in Dir
      BY <1>2, <2>1, DirParts
    <3>2. QED
      BY <1>1, <1>3, <1>6, <2>1, <3>1, AlterTypes DEF PutIndex
  <2>2. QED
    BY <1>1, <1>6, <2>1 DEF PutIndex
<1>7. CASE \/ MakeDir(p) \/ ReadKey(p) \/ NewKey(p) \/ CreateKeyFile(p) \/ WriteKey(p)
           \/ Reconcile(p) \/ Trim(p)
  <2>1. db' = db /\ due' = due
    BY <1>7 DEF MakeDir, ReadKey, NewKey, CreateKeyFile, WriteKey, Reconcile, Trim
  <2>2. key' \in [Command -> Key]
    BY <1>1, <1>2, <1>7, KeyTypes, DirTypes
    DEF MakeDir, ReadKey, NewKey, CreateKeyFile, WriteKey, Reconcile, Trim
  <2>3. CASE CreateKeyFile(p)
    <3>1. [(IF Vault.there THEN Vault ELSE Fresh) EXCEPT !.key = EmptyKey] \in Dir
      BY <1>2, DirTypes, DirParts, KeyTypes
    <3>2. dirs' \in Dirs
      BY <1>1, <1>3, <2>3, <3>1, AlterTypes DEF CreateKeyFile
    <3>3. QED
      BY <1>1, <1>4, <2>1, <2>2, <3>2 DEF VaultTyped
  <2>4. CASE WriteKey(p) \/ Trim(p)
    <3>1. Vault.there => /\ [Vault EXCEPT !.key = key[p]] \in Dir
                         /\ [Vault EXCEPT !.index = "empty"] \in Dir
      BY <1>1, <1>2, DirParts
    <3>2. dirs' \in Dirs
      BY <1>1, <1>3, <2>4, <3>1, AlterTypes DEF WriteKey, Trim
    <3>3. QED
      BY <1>1, <1>4, <2>1, <2>2, <3>2 DEF VaultTyped
  <2>5. CASE MakeDir(p) \/ ReadKey(p) \/ NewKey(p) \/ Reconcile(p)
    <3>1. dirs' \in Dirs
      BY <1>1, <1>3, <2>5, DirTypes, AlterTypes DEF MakeDir, ReadKey, NewKey, Reconcile
    <3>2. QED
      BY <1>1, <1>4, <2>1, <2>2, <3>1 DEF VaultTyped
  <2>6. QED
    BY <1>7, <2>3, <2>4, <2>5
<1>8. CASE Open(p) \/ DropEntry(p) \/ DropIndex(p) \/ AddRow(p) \/ Commit(p)
  <2>1. key' = key /\ due' \subseteq Command
    BY <1>1, <1>8 DEF Open, DropEntry, DropIndex, AddRow, Commit
  <2>2. db' \in [Command -> SUBSET Command]
    BY <1>1, <1>2, <1>8, DirTypes DEF Open, DropEntry, DropIndex, AddRow, Commit
  <2>3. db[p] \in SUBSET Command /\ db[p] \cup {p} \in SUBSET Command
    BY <1>1
  <2>4. dirs' \in Dirs
    BY <1>1, <1>5, <1>6, <1>8, <2>3 DEF Open, DropEntry, DropIndex, AddRow, Commit
  <2>5. QED
    BY <1>1, <1>4, <2>1, <2>2, <2>4 DEF VaultTyped
<1>9. CASE FindEntries(p) \/ Unlist(p) \/ Unlink(p) \/ Clear(p)
  <2>1. key' = key /\ db' = db /\ due' \subseteq Command
    BY <1>1, <1>9 DEF FindEntries, Unlist, Unlink, Clear
  <2>2. Vault.there => /\ [Vault EXCEPT !.index = "empty"] \in Dir
                       /\ [Vault EXCEPT !.index = "none"] \in Dir
                       /\ [Vault EXCEPT !.key = NoKeyFile] \in Dir
                       /\ [Vault EXCEPT !.sealed = NoKeyFile, !.rows = {}] \in Dir
    BY <1>2, DirParts, KeyTypes
  <2>3. dirs' \in Dirs
    <3>1. CASE Clear(p)
      BY <1>1, <1>3, <2>2, <3>1, AlterTypes DEF Clear
    <3>2. CASE FindEntries(p) \/ Unlist(p) \/ Unlink(p)
      BY <1>1, <1>3, <2>2, <3>2, AlterTypes DEF FindEntries, Unlist, Unlink
    <3>3. QED
      BY <1>9, <3>1, <3>2
  <2>4. QED
    BY <1>1, <1>4, <2>1, <2>3 DEF VaultTyped
<1>10. CASE Copy(p)
  <2> DEFINE copied == [Fresh EXCEPT !.sealed = RotateKey(p), !.rows = Vault.rows, !.index = "blob"]
  <2>1. Vault.there => copied \in Dir
    <3>1. ASSUME Vault.there PROVE copied \in Dir
      <4>1. Vault.rows \in SUBSET Command /\ RotateKey(p) \in Key
        BY <1>2, <3>1, DirTypes, KeyTypes
      <4>2. QED
        BY <4>1, DirTypes DEF Dir
    <3>2. QED
      BY <3>1
  <2>2. \E d \in Dir : Alter("rotating", d)
    BY <1>10, <2>1, DirTypes DEF Copy
  <2>3. dirs' \in Dirs
    BY <1>1, <1>3, <2>2, AlterTypes
  <2>4. key' \in [Command -> Key] /\ db' = db /\ due' = due
    BY <1>1, <1>10, KeyTypes DEF Copy
  <2>5. QED
    BY <1>1, <1>4, <2>3, <2>4 DEF VaultTyped
<1>11. CASE Away(p) \/ Swap(p) \/ DropOld(p)
  <2>1. key' = key /\ db' = db /\ due' = due
    BY <1>11 DEF Away, Swap, DropOld
  <2>2. dirs["rotating"] \in {NoDir} \cup Dir
    BY <1>1, <1>3
  <2>3. dirs' \in Dirs
    <3>1. CASE Away(p)
      BY <1>1, <1>2, <1>3, <3>1 DEF Away
    <3>2. CASE Swap(p)
      BY <1>1, <1>3, <2>2, <3>2 DEF Swap
    <3>3. CASE DropOld(p)
      BY <1>1, <1>3, <3>3, AlterTypes DEF DropOld
    <3>4. QED
      BY <1>11, <3>1, <3>2, <3>3
  <2>4. QED
    BY <1>1, <1>4, <2>1, <2>3 DEF VaultTyped
<1>12. QED
  BY <1>7, <1>8, <1>9, <1>10, <1>11 DEF VaultStep

-----------------------------------------------------------------------------
(* The types of what invocations keep.  The readers live only while a child *)
(* is read, and a phase with a record ahead belongs to a proxied command.   *)
RunTyped(p) ==
  /\ child[p].status \in {"none", "running", "ended", "killed"}
  /\ child[p].open \subseteq Streams /\ readers[p] \subseteq Streams
  /\ run[p].phase \in Phases /\ run[p].code \in {0, 1, Killed}
  /\ readers[p] # {} => run[p].phase \in Reading
  /\ run[p].phase \in Reading \cup {"again", "reading", "waited", "stats"} => Proxied(p)
  /\ code[p] \in {0, 1, Panic, Killed, NoCode}

RunInv ==
  /\ Shape /\ plan \in Plans /\ readers = [p \in Command |-> readers[p]]
  /\ \A p \in Command : RunTyped(p)

LEMMA PlanCodes ==
  ASSUME plan \in Plans, NEW p \in Command
  PROVE  plan[p].code \in {0, 1} /\ ChildCode(p) \in {0, 1, Killed}
<1>1. plan[p] \in Program
  BY ProxyAssumption
<1>2. plan[p].code \in {0, 1}
  BY <1>1 DEF Program
<1>3. QED
  BY <1>2 DEF ChildCode

(* An invocation whose phase, code and threads move together keeps its types,*)
(* and what the others keep is not touched.                                  *)
LEMMA RunMoves ==
  ASSUME RunInv, Shape', plan' = plan, NEW p \in Command, RunTyped(p)',
         readers' = [q \in Command |-> readers'[q]],
         \A q \in Command : q # p => /\ child'[q] = child[q] /\ readers'[q] = readers[q]
                                     /\ run'[q] = run[q] /\ code'[q] = code[q]
  PROVE  RunInv'
<1>1. ASSUME NEW q \in Command, q # p PROVE RunTyped(q)'
  BY <1>1 DEF RunInv, RunTyped, Proxied
<1>2. QED
  BY <1>1 DEF RunInv

LEMMA RunOutside ==
  ASSUME RunInv, plan' = plan, NEW p \in Command, Outside(p)
  PROVE  RunInv'
<1>1. Shape /\ RunTyped(p) /\ readers = [q \in Command |-> readers[q]]
  BY DEF RunInv
<1>2. CASE Spawn(p)
  <2>1. Shape'
    BY <1>1, <1>2 DEF Spawn, Shape, Local
  <2>2. /\ child'[p].status = "running" /\ child'[p].open = Streams /\ readers'[p] = Streams
        /\ run'[p].phase \in {"collecting", "scanning", "piping"} /\ run'[p].code = 0
        /\ code' = code /\ Proxied(p)
    BY <1>1, <1>2, StartsKnown DEF Spawn, Shape, Local, RunTyped, InPhase
  <2>3. RunTyped(p)'
    BY <1>1, <2>2 DEF RunTyped, Proxied, Phases, Reading
  <2>4. /\ readers' = [q \in Command |-> readers'[q]]
        /\ \A q \in Command : q # p => /\ child'[q] = child[q] /\ readers'[q] = readers[q]
                                       /\ run'[q] = run[q]
    BY <1>1, <1>2 DEF Spawn, Shape
  <2>5. QED
    BY <2>1, <2>2, <2>3, <2>4, RunMoves
<1>3. CASE SpawnFails(p)
  <2>1. /\ Exit(p, Failed) /\ UNCHANGED <<child, readers, sink>>
        /\ InPhase(p, "off") \/ InPhase(p, "again")
    BY <1>3 DEF SpawnFails, Starts
  <2>2. Shape'
    BY <1>1, <2>1, ExitMoves, EnterMoves DEF Shape
  <2>3. /\ \A q \in Command : q # p => code'[q] = code[q] /\ run'[q] = run[q]
        /\ run'[p].phase = "exited" /\ run'[p].code = run[p].code /\ code'[p] = Failed
    BY <1>1, <2>1, ExitMoves, EnterMoves
  <2>4. RunTyped(p)'
    BY <1>1, <2>1, <2>3 DEF RunTyped, Phases, InPhase, Failed, Reading
  <2>5. QED
    BY <1>1, <2>1, <2>2, <2>3, <2>4, RunMoves
<1>4. CASE SinkCloses(p)
  <2>1. Shape' /\ UNCHANGED <<child, readers, run, code>>
    BY <1>1, <1>4 DEF SinkCloses, Shape
  <2>2. QED
    BY <1>1, <2>1 DEF RunInv, RunTyped, Proxied
<1>5. ASSUME NEW s \in Streams, Prints(p, s) \/ Closes(p, s)
      PROVE  RunInv'
  <2>1. /\ Shape' /\ \A q \in Command : q # p => child'[q] = child[q]
        /\ child'[p].status = child[p].status /\ child'[p].open \subseteq child[p].open
        /\ UNCHANGED <<readers, run, code, sink>>
    BY <1>1, <1>5, SMTT(20) DEF Prints, Closes, Shape
  <2>2. RunTyped(p)'
    BY <1>1, <2>1 DEF RunTyped, Proxied
  <2>3. QED
    BY <1>1, <2>1, <2>2, RunMoves
<1>6. CASE ChildEnds(p)
  <2>1. /\ Shape' /\ \A q \in Command : q # p => child'[q] = child[q]
        /\ child'[p].status \in {"ended", "killed"} /\ child'[p].open = child[p].open
        /\ UNCHANGED <<readers, run, code, sink>>
    BY <1>1, <1>6 DEF ChildEnds, Shape
  <2>2. RunTyped(p)'
    BY <1>1, <2>1 DEF RunTyped, Proxied
  <2>3. QED
    BY <1>1, <2>1, <2>2, RunMoves
<1>7. CASE FindFiles(p)
  <2>1. /\ Enter(p, "reading") /\ UNCHANGED <<child, readers, sink, code>>
        /\ InPhase(p, "off") /\ Proxied(p)
    BY <1>7 DEF FindFiles, Proxied, Invoked
  <2>2. Shape'
    BY <1>1, <2>1, EnterMoves DEF Shape
  <2>3. RunTyped(p)'
    BY <1>1, <2>1, EnterMoves DEF RunTyped, Phases, InPhase, Proxied, Reading
  <2>4. QED
    BY <1>1, <2>1, <2>2, <2>3, EnterMoves, RunMoves
<1>8. QED
  BY <1>2, <1>3, <1>4, <1>5, <1>6, <1>7 DEF Outside

LEMMA RunMain ==
  ASSUME RunInv, plan' = plan, NEW p \in Command,
         Receive(p) \/ EndOfLines(p) \/ WaitChild(p) \/ Unwound(p)
  PROVE  RunInv'
<1>1. Shape /\ RunTyped(p) /\ readers = [q \in Command |-> readers[q]]
  BY DEF RunInv
<1>2. UNCHANGED <<child, readers, sink>>
  BY DEF Receive, EndOfLines, WaitChild, Unwound
<1>3. CASE Receive(p)
  <2> DEFINE treated == Treat(p, Head(chan[p]))
  <2>1. /\ run' = [run EXCEPT ![p] = run'[p]]
        /\ run'[p] = treated.r \/ run'[p] = [treated.r EXCEPT !.phase = "unwinding"]
        /\ code' = code /\ InPhase(p, "piping")
    BY <1>1, <1>3 DEF Receive, Shape
  <2>2. /\ treated.r.phase = "piping" /\ treated.r.code = run[p].code
        /\ {"phase", "code"} \subseteq DOMAIN treated.r
    BY <1>1, <2>1, TreatKeeps DEF InPhase
  <2> HIDE DEF treated
  <2>3. /\ \A q \in Command : q # p => run'[q] = run[q]
        /\ run'[p].phase \in {"piping", "unwinding"} /\ run'[p].code = run[p].code
        /\ {"phase", "code"} \subseteq DOMAIN run'[p]
    BY <1>1, <2>1, <2>2 DEF Shape
  <2>4. Shape'
    BY <1>1, <1>2, <2>1, <2>3 DEF Shape
  <2>5. RunTyped(p)'
    BY <1>1, <1>2, <2>1, <2>3 DEF RunTyped, Phases, InPhase, Proxied, Reading
  <2>6. QED
    BY <1>1, <1>2, <2>1, <2>3, <2>4, <2>5, RunMoves
<1>4. CASE EndOfLines(p)
  <2>1. PICK phase \in {"unwinding", "waiting"} : Enter(p, phase)
    BY <1>4 DEF EndOfLines
  <2>2. code' = code /\ InPhase(p, "piping")
    BY <1>4 DEF EndOfLines
  <2>3. Shape'
    BY <1>1, <1>2, <2>1, <2>2, EnterMoves DEF Shape
  <2>4. RunTyped(p)'
    BY <1>1, <1>2, <2>1, <2>2, EnterMoves DEF RunTyped, Phases, InPhase, Proxied, Reading
  <2>5. QED
    BY <1>1, <1>2, <2>1, <2>2, <2>3, <2>4, EnterMoves, RunMoves
<1>5. ASSUME run' = [run EXCEPT ![p].phase = "waited", ![p].code = ChildCode(p)],
             InPhase(p, "waiting"), Collected(p), code' = code
      PROVE  RunInv'
  <2>1. /\ \A q \in Command : q # p => run'[q] = run[q]
        /\ run'[p].phase = "waited" /\ run'[p].code = ChildCode(p)
        /\ Shape'
    BY <1>1, <1>2, <1>5 DEF Shape
  <2>2. ChildCode(p) \in {0, 1, Killed}
    BY PlanCodes DEF RunInv
  <2>3. RunTyped(p)'
    BY <1>1, <1>2, <1>5, <2>1, <2>2 DEF RunTyped, Phases, Collected, Proxied, Reading, InPhase
  <2>4. QED
    BY <1>1, <1>2, <1>5, <2>1, <2>3, RunMoves
<1>6. ASSUME Exit(p, Panic), Collected(p)
      PROVE  RunInv'
  <2>1. /\ \A q \in Command : q # p => code'[q] = code[q] /\ run'[q] = run[q]
        /\ run'[p].phase = "exited" /\ run'[p].code = run[p].code /\ code'[p] = Panic
    BY <1>1, <1>6, ExitMoves, EnterMoves
  <2>2. Shape'
    BY <1>1, <1>2, <1>6, ExitMoves, EnterMoves DEF Shape
  <2>3. RunTyped(p)'
    BY <1>1, <1>2, <1>6, <2>1 DEF RunTyped, Phases, Collected, Proxied, Reading
  <2>4. QED
    BY <1>1, <1>2, <2>1, <2>2, <2>3, RunMoves
<1>7. CASE WaitChild(p)
  BY <1>5, <1>7 DEF WaitChild, InPhase
<1>8. CASE Unwound(p)
  BY <1>6, <1>8 DEF Unwound
<1>9. QED
  BY <1>3, <1>4, <1>7, <1>8

LEMMA RunHandler ==
  ASSUME RunInv, plan' = plan, NEW p \in Command,
         Native(p) \/ Rerun(p) \/ ScanFails(p) \/ ReadFiles(p)
  PROVE  RunInv'
<1>1. Shape /\ RunTyped(p) /\ readers = [q \in Command |-> readers[q]]
  BY DEF RunInv
<1>2. sink' = sink /\ Proxied(p)
  BY <1>1 DEF Native, Rerun, ScanFails, ReadFiles, RunTyped, Reading, InPhase
<1>3. /\ child' = [q \in Command |-> child'[q]]
      /\ \A q \in Command : q # p => child'[q] = child[q]
      /\ {"status", "left", "open"} \subseteq DOMAIN child'[p]
      /\ child'[p].status \in {"none", "running", "ended", "killed"}
      /\ child'[p].open \subseteq Streams
  BY <1>1 DEF Native, Rerun, ScanFails, ReadFiles, Shape, NoChild, RunTyped
<1>4. ASSUME Exit(p, Failed) \/ Exit(p, Panic), readers'[p] = {},
             readers' = [q \in Command |-> readers'[q]],
             \A q \in Command : q # p => readers'[q] = readers[q]
      PROVE  RunInv'
  <2>1. /\ \A q \in Command : q # p => code'[q] = code[q] /\ run'[q] = run[q]
        /\ run'[p].phase = "exited" /\ run'[p].code = run[p].code /\ code'[p] \in {Failed, Panic}
    BY <1>1, <1>4, ExitMoves, EnterMoves
  <2>2. Shape'
    BY <1>1, <1>2, <1>3, <1>4, ExitMoves, EnterMoves DEF Shape
  <2>3. RunTyped(p)'
    BY <1>1, <1>2, <1>3, <1>4, <2>1 DEF RunTyped, Phases, Reading, Failed
  <2>4. QED
    BY <1>1, <1>2, <1>3, <1>4, <2>1, <2>2, <2>3, RunMoves
<1>5. ASSUME NEW c \in {0, 1, Killed}, Outcome(p, c), readers' = readers, readers[p] = {}
      PROVE  RunInv'
  <2>1. CASE run' = [run EXCEPT ![p].phase = "waited", ![p].code = c] /\ UNCHANGED code
    <3>1. /\ \A q \in Command : q # p => run'[q] = run[q]
          /\ run'[p].phase = "waited" /\ run'[p].code = c /\ Shape'
      BY <1>1, <1>2, <1>3, <2>1 DEF Shape
    <3>2. RunTyped(p)'
      BY <1>1, <1>2, <1>3, <1>5, <2>1, <3>1 DEF RunTyped, Phases, Reading, Proxied
    <3>3. QED
      BY <1>1, <1>3, <1>5, <2>1, <3>1, <3>2, RunMoves
  <2>2. QED
    BY <1>1, <1>4, <1>5, <2>1 DEF Outcome
<1>6. CASE Native(p)
  <2>1. ChildCode(p) \in {0, 1, Killed}
    BY PlanCodes DEF RunInv
  <2>2. QED
    BY <1>5, <1>6, <2>1 DEF Native, Collected
<1>7. CASE Rerun(p)
  <2>1. /\ Enter(p, "again") /\ code' = code /\ readers' = readers /\ readers[p] = {}
    BY <1>7 DEF Rerun, Collected
  <2>2. Shape'
    BY <1>1, <1>2, <1>3, <2>1, EnterMoves DEF Shape
  <2>3. RunTyped(p)'
    BY <1>1, <1>2, <1>3, <2>1, EnterMoves DEF RunTyped, Phases, Reading, Proxied
  <2>4. QED
    BY <1>1, <1>3, <2>1, <2>2, <2>3, EnterMoves, RunMoves
<1>8. CASE ScanFails(p)
  BY <1>1, <1>4, <1>8 DEF ScanFails
<1>9. CASE ReadFiles(p)
  <2>1. readers' = readers /\ readers[p] = {} /\ (Exit(p, Failed) \/ Outcome(p, 0))
    BY <1>1, <1>9 DEF ReadFiles, RunTyped, InPhase, Reading
  <2>2. QED
    BY <1>1, <1>4, <1>5, <2>1
<1>10. QED
  BY <1>6, <1>7, <1>8, <1>9

LEMMA RunReader ==
  ASSUME RunInv, plan' = plan, NEW p \in Command, NEW s \in Streams, Reader(p, s)
  PROVE  RunInv'
<1>1. Shape /\ RunTyped(p) /\ readers = [q \in Command |-> readers[q]]
  BY DEF RunInv
<1>2. UNCHANGED <<child, run, code, sink>>
  BY DEF Reader
<1>3. Shape'
  BY <1>1, <1>2 DEF Shape
<1>4. /\ readers'[p] \subseteq readers[p] /\ readers' = [q \in Command |-> readers'[q]]
      /\ \A q \in Command : q # p => readers'[q] = readers[q]
  BY <1>1 DEF Reader
<1>5. RunTyped(p)'
  BY <1>1, <1>2, <1>4 DEF RunTyped, Proxied
<1>6. QED
  BY <1>2, <1>3, <1>4, <1>5, RunMoves

LEMMA RunHost ==
  ASSUME RunInv, plan' = plan, NEW p \in Command,
         Record(p) \/ Finish(p) \/ Administers(p) \/ Administered(p) \/ Kill(p)
  PROVE  RunInv'
<1>1. Shape /\ RunTyped(p) /\ readers = [q \in Command |-> readers[q]]
  BY DEF RunInv
<1>2. UNCHANGED <<child, sink>>
  BY DEF Record, Finish, Administers, Administered, Kill, ProxyCrash
<1>3. ASSUME NEW phase, Enter(p, phase), code' = code,
             readers' = [q \in Command |-> readers'[q]],
             \A q \in Command : q # p => readers'[q] = readers[q],
             \/ phase = "stats" /\ InPhase(p, "waited") /\ readers' = readers
             \/ phase = "busy" /\ InPhase(p, "off") /\ readers' = readers
             \/ phase = "exited" /\ InPhase(p, "busy") /\ readers' = readers
             \/ phase = "dead" /\ readers'[p] = {}
      PROVE  RunInv'
  <2>1. /\ \A q \in Command : q # p => run'[q] = run[q]
        /\ run'[p].phase = phase /\ run'[p].code = run[p].code
    BY <1>1, <1>3, EnterMoves
  <2>2. Shape'
    BY <1>1, <1>2, <1>3, EnterMoves DEF Shape
  <2>3. RunTyped(p)'
    BY <1>1, <1>2, <1>3, <2>1 DEF RunTyped, Phases, Proxied, InPhase, Reading
  <2>4. QED
    BY <1>1, <1>2, <1>3, <2>1, <2>2, <2>3, RunMoves
<1>4. CASE Finish(p)
  <2>1. Exit(p, FinalCode(p)) /\ InPhase(p, "stats") /\ readers' = readers
    BY <1>4 DEF Finish
  <2>2. /\ \A q \in Command : q # p => code'[q] = code[q] /\ run'[q] = run[q]
        /\ run'[p].phase = "exited" /\ run'[p].code = run[p].code /\ code'[p] = FinalCode(p)
    BY <1>1, <2>1, ExitMoves, EnterMoves
  <2>3. Shape'
    BY <1>1, <1>2, <2>1, ExitMoves, EnterMoves DEF Shape
  <2>4. FinalCode(p) \in {run[p].code, Panic}
    BY DEF FinalCode
  <2>5. RunTyped(p)'
    BY <1>1, <1>2, <2>1, <2>2, <2>4 DEF RunTyped, Phases, Proxied, InPhase, Reading
  <2>6. QED
    BY <1>1, <1>2, <2>1, <2>2, <2>3, <2>5, RunMoves
<1>5. CASE Record(p)
  BY <1>1, <1>3, <1>5 DEF Record
<1>6. CASE Administers(p)
  BY <1>1, <1>3, <1>6 DEF Administers
<1>7. CASE Administered(p)
  BY <1>1, <1>3, <1>7 DEF Administered
<1>8. CASE Kill(p)
  BY <1>1, <1>3, <1>8 DEF Kill, ProxyCrash
<1>9. QED
  BY <1>4, <1>5, <1>6, <1>7, <1>8

LEMMA RunStays ==
  ASSUME RunInv, UNCHANGED <<plan, child, readers, run, code, sink>>
  PROVE  RunInv'
BY DEF RunInv, RunTyped, Shape, Proxied

TypeInv == RunInv /\ VaultTyped

LEMMA TypeInit == HostInit => TypeInv
<1> SUFFICES ASSUME HostInit PROVE TypeInv
  OBVIOUS
<1>1. RunInv
  BY DEF HostInit, ProxyInit, RunInv, RunTyped, Shape, Local, Phases, Streams, NoChild, Reading
<1>2. VaultTyped
  BY KeyTypes DEF HostInit, VaultInit, VaultTyped
<1>3. QED
  BY <1>1, <1>2 DEF TypeInv

(* An invocation that enters the vault, and one that leaves or is killed.  *)
LEMMA HostVaultTypes ==
  ASSUME VaultTyped, NEW p \in Command,
         Record(p) \/ Finish(p) \/ Administers(p) \/ Administered(p) \/ Kill(p)
  PROVE  VaultTyped'
<1>1. UNCHANGED <<dirs, key, db, due>> /\ lapped' \subseteq lapped \cup Users \cup {p}
  BY DEF Record, Finish, Administers, Administered, Kill, Session, vaultVars
<1>2. Users \subseteq Command
  BY DEF Users
<1>3. QED
  BY <1>1, <1>2 DEF VaultTyped

LEMMA TypeNext == TypeInv /\ [HostNext]_hostVars => TypeInv'
<1> SUFFICES ASSUME TypeInv, [HostNext]_hostVars PROVE TypeInv'
  OBVIOUS
<1>1. RunInv /\ VaultTyped
  BY DEF TypeInv
<1>2. CASE UNCHANGED hostVars
  <2>1. RunInv'
    BY <1>1, <1>2, RunStays DEF hostVars, proxyVars
  <2>2. VaultTyped'
    BY <1>1, <1>2 DEF VaultTyped, hostVars, vaultVars
  <2>3. QED
    BY <2>1, <2>2 DEF TypeInv
<1>3. ASSUME NEW p \in Command, Proxy(p), plan' = plan PROVE TypeInv'
  <2>1. RunInv'
    BY <1>1, <1>3, RunMain, RunHandler, RunOutside, RunReader DEF Proxy, MainThread
  <2>2. VaultTyped'
    BY <1>1, <1>3 DEF Proxy, VaultTyped, vaultVars
  <2>3. QED
    BY <2>1, <2>2 DEF TypeInv
<1>4. ASSUME NEW p \in Command, InVault(p), plan' = plan PROVE TypeInv'
  <2>1. RunInv'
    BY <1>1, <1>4, RunStays DEF InVault, proxyVars
  <2>2. VaultTyped'
    BY <1>1, <1>4, VaultTypes DEF InVault
  <2>3. QED
    BY <2>1, <2>2 DEF TypeInv
<1>5. QED
  BY <1>1, <1>2, <1>3, <1>4, RunHost, HostVaultTypes DEF HostNext, TypeInv

LEMMA TypeAlways == HostSpec => []TypeInv
BY TypeInit, TypeNext, PTL DEF HostSpec

(* What the invocations, their children and the vault keep has its types,  *)
(* and a reader thread never outlives the LineStream it belongs to, or the *)
(* handler that reads the child, for any number of invocations and kills.  *)
THEOREM HostTypesCorrect == HostSpec => []HostTypeOK
<1>1. TypeInv => HostTypeOK
  <2> SUFFICES ASSUME TypeInv PROVE HostTypeOK
    OBVIOUS
  <2>1. \A d \in Places : dirs[d] = NoDir \/ dirs[d] \in Dir
    BY DEF TypeInv, VaultTyped
  <2>2. QED
    BY <2>1 DEF TypeInv, RunInv, RunTyped, VaultTyped, HostTypeOK, Reading
<1>2. QED
  BY <1>1, TypeAlways, PTL

-----------------------------------------------------------------------------
(* The steps an invocation has ahead: each is followed by one of After.    *)
Word == {"dir", "key", "setkey", "writekey", "check", "trim", "open", "entry", "list", "add",
         "commit", "find", "unlist", "unlink", "clear", "copy", "away", "swap", "drop"}

After(w) ==
  CASE w = "dir" -> {"key"}
    [] w = "key" -> {"check"}
    [] w = "setkey" -> {"writekey"}
    [] w = "writekey" -> {"check", "none"}
    [] w \in {"check", "trim"} -> {"open"}
    [] w = "open" -> {"entry", "add"}
    [] w = "entry" -> {"list"}
    [] w = "list" -> {"open", "find", "copy", "none"}
    [] w = "add" -> {"commit"}
    [] w = "commit" -> {"entry"}
    [] w = "copy" -> {"away"}
    [] w = "away" -> {"swap"}
    [] w = "swap" -> {"drop"}
    [] w = "drop" -> {"setkey"}
    [] w = "unlist" -> {"unlink"}
    [] OTHER -> {"none"}

Nth(s, i) == IF i <= Len(s) THEN s[i] ELSE "none"
First(s) == IF s = <<>> THEN "none" ELSE Head(s)
Chained(s) == \A i \in 1 .. Len(s) : Nth(s, i + 1) \in After(s[i])
Owns(s, rotates) == \A i \in 1 .. Len(s) : s[i] \in {"copy", "away", "swap", "drop"} => rotates

Path(rotates) == {s \in Seq(Word) : Chained(s) /\ Owns(s, rotates)}

LEMMA PathTail ==
  ASSUME NEW rotates \in BOOLEAN, NEW s \in Path(rotates), s # <<>>
  PROVE  /\ Tail(s) \in Path(rotates)
         /\ First(s) = Head(s) /\ First(s) \in Word /\ First(Tail(s)) \in After(First(s))
         /\ First(s) \in {"copy", "away", "swap", "drop"} => rotates
<1>1. s \in Seq(Word) /\ Chained(s) /\ Owns(s, rotates)
  BY DEF Path
<1>2. Len(s) \in Nat /\ Len(s) >= 1 /\ Head(s) = s[1] /\ s[1] \in Word
  BY <1>1
<1>3. /\ Tail(s) \in Seq(Word) /\ Len(Tail(s)) = Len(s) - 1
      /\ \A i \in 1 .. Len(s) - 1 : Tail(s)[i] = s[i + 1]
  BY <1>1, <1>2
<1>4. \A i \in 1 .. Len(s) : Nth(Tail(s), i) = Nth(s, i + 1)
  BY <1>2, <1>3 DEF Nth
<1>5. ASSUME NEW i \in 1 .. Len(Tail(s))
      PROVE  Nth(Tail(s), i + 1) \in After(Tail(s)[i])
  <2>1. i + 1 \in 1 .. Len(s) /\ i \in 1 .. Len(s) - 1
    BY <1>2, <1>3, <1>5
  <2>2. Nth(s, (i + 1) + 1) \in After(s[i + 1])
    BY <1>1, <2>1 DEF Chained
  <2>3. QED
    BY <1>3, <1>4, <2>1, <2>2
<1>6. Owns(Tail(s), rotates)
  BY <1>1, <1>2, <1>3 DEF Owns
<1>7. First(Tail(s)) = Nth(Tail(s), 1)
  BY <1>2, <1>3 DEF First, Nth
<1>8. Nth(s, 1 + 1) \in After(s[1])
  BY <1>1, <1>2 DEF Chained
<1>9. First(Tail(s)) \in After(s[1])
  BY <1>2, <1>4, <1>7, <1>8
<1>10. s[1] \in {"copy", "away", "swap", "drop"} => rotates
  BY <1>1, <1>2 DEF Owns
<1>11. QED
  BY <1>1, <1>2, <1>3, <1>5, <1>6, <1>9, <1>10 DEF Path, Chained, First

(* A step put before others that may follow it.                            *)
LEMMA PathPut ==
  ASSUME NEW rotates \in BOOLEAN, NEW s \in Path(rotates), NEW w \in Word,
         First(s) \in After(w), w \in {"copy", "away", "swap", "drop"} => rotates
  PROVE  /\ <<w>> \o s \in Path(rotates)
         /\ First(<<w>> \o s) = w
<1> DEFINE t == <<w>> \o s
<1>1. s \in Seq(Word) /\ Chained(s) /\ Owns(s, rotates) /\ Len(s) \in Nat
  BY DEF Path
<1>2. /\ t \in Seq(Word) /\ Len(t) = Len(s) + 1 /\ t[1] = w
      /\ \A i \in 1 .. Len(s) : t[i + 1] = s[i]
  BY <1>1
<1>3. ASSUME NEW i \in 1 .. Len(t), i # 1
      PROVE  \E j \in 1 .. Len(s) : i = j + 1 /\ t[i] = s[j]
  <2>1. i - 1 \in 1 .. Len(s) /\ i = (i - 1) + 1
    BY <1>1, <1>2, <1>3
  <2>2. QED
    BY <1>2, <2>1
<1>4. Nth(t, 2) = First(s)
  BY <1>1, <1>2 DEF Nth, First
<1>5. \A j \in 1 .. Len(s) : Nth(t, (j + 1) + 1) = Nth(s, j + 1)
  BY <1>1, <1>2 DEF Nth
<1> HIDE DEF t
<1>6. Chained(t)
  <2>1. ASSUME NEW i \in 1 .. Len(t) PROVE Nth(t, i + 1) \in After(t[i])
    <3>1. CASE i = 1
      BY <1>2, <1>4, <3>1
    <3>2. CASE i # 1
      <4>1. PICK j \in 1 .. Len(s) : i = j + 1 /\ t[i] = s[j]
        BY <1>3, <3>2
      <4>2. Nth(s, j + 1) \in After(s[j])
        BY <1>1 DEF Chained
      <4>3. QED
        BY <1>5, <4>1, <4>2
    <3>3. QED
      BY <3>1, <3>2
  <2>2. QED
    BY <2>1 DEF Chained
<1>7. Owns(t, rotates)
  BY <1>1, <1>2, <1>3 DEF Owns
<1>8. t # <<>> /\ Head(t) = w
  BY <1>1, <1>2
<1>9. QED
  BY <1>2, <1>6, <1>7, <1>8 DEF Path, First, t

(* A sequence of steps before others that may follow it.                   *)
Linked(s) == \A i \in 1 .. Len(s) : i < Len(s) => Nth(s, i + 1) \in After(s[i])

LEMMA PathJoin ==
  ASSUME NEW rotates \in BOOLEAN, NEW s \in Seq(Word), NEW t \in Path(rotates), s # <<>>,
         Linked(s), Owns(s, rotates), First(t) \in After(s[Len(s)])
  PROVE  /\ s \o t \in Path(rotates)
         /\ First(s \o t) = First(s)
<1> DEFINE u == s \o t
<1>1. /\ s \in Seq(Word) /\ Linked(s) /\ Owns(s, rotates) /\ Len(s) \in Nat /\ Len(s) >= 1
      /\ t \in Seq(Word) /\ Chained(t) /\ Owns(t, rotates) /\ Len(t) \in Nat
  BY DEF Path
<1>2. /\ u \in Seq(Word) /\ Len(u) = Len(s) + Len(t)
      /\ \A i \in 1 .. Len(s) : u[i] = s[i]
      /\ \A i \in 1 .. Len(t) : u[i + Len(s)] = t[i]
  BY <1>1
<1> HIDE DEF u
<1>3. ASSUME NEW i \in 1 .. Len(u), i > Len(s)
      PROVE  \E j \in 1 .. Len(t) : i = j + Len(s) /\ u[i] = t[j]
  <2>1. i - Len(s) \in 1 .. Len(t) /\ i = (i - Len(s)) + Len(s)
    BY <1>1, <1>2, <1>3
  <2>2. QED
    BY <1>2, <2>1
<1>4. /\ \A i \in 1 .. Len(s) : i < Len(s) => Nth(u, i + 1) = Nth(s, i + 1)
      /\ \A j \in 1 .. Len(t) : Nth(u, (j + Len(s)) + 1) = Nth(t, j + 1)
      /\ Nth(u, Len(s) + 1) = First(t)
  BY <1>1, <1>2 DEF Nth, First
<1>5. Chained(u)
  <2>1. ASSUME NEW i \in 1 .. Len(u) PROVE Nth(u, i + 1) \in After(u[i])
    <3>1. CASE i < Len(s)
      <4>1. i \in 1 .. Len(s) /\ Nth(s, i + 1) \in After(s[i])
        BY <1>1, <3>1 DEF Linked
      <4>2. QED
        BY <1>2, <1>4, <3>1, <4>1
    <3>2. CASE i = Len(s)
      BY <1>1, <1>2, <1>4, <3>2
    <3>3. CASE i > Len(s)
      <4>1. PICK j \in 1 .. Len(t) : i = j + Len(s) /\ u[i] = t[j]
        BY <1>3, <3>3
      <4>2. Nth(t, j + 1) \in After(t[j])
        BY <1>1 DEF Chained
      <4>3. QED
        BY <1>4, <4>1, <4>2
    <3>4. QED
      BY <1>1, <3>1, <3>2, <3>3
  <2>2. QED
    BY <2>1 DEF Chained
<1>6. Owns(u, rotates)
  <2>1. ASSUME NEW i \in 1 .. Len(u), u[i] \in {"copy", "away", "swap", "drop"} PROVE rotates
    <3>1. CASE i > Len(s)
      BY <1>1, <1>3, <2>1, <3>1 DEF Owns
    <3>2. CASE i \in 1 .. Len(s)
      BY <1>1, <1>2, <2>1, <3>2 DEF Owns
    <3>3. QED
      BY <1>1, <3>1, <3>2
  <2>2. QED
    BY <2>1 DEF Owns
<1>7. u # <<>> /\ Head(u) = Head(s)
  BY <1>1, <1>2
<1>8. QED
  BY <1>1, <1>2, <1>5, <1>6, <1>7 DEF Path, First, u

(* What an invocation sets out to do in the vault.                         *)
LEMMA PathSteps ==
  ASSUME NEW does \in Invoked \cup {"gain", "reset", "rotate", "clean"}
  PROVE  /\ Steps(does) \in Path(does = "rotate")
         /\ First(Steps(does)) \in {"dir", "clear"}
<1> DEFINE r == does = "rotate"
           boot == <<"dir", "key", "check", "open">>
           record == <<"open", "add", "commit">>
           rotation == <<"copy", "away", "swap", "drop", "setkey", "writekey">>
<1>1. /\ boot \in Seq(Word) /\ Linked(boot) /\ Owns(boot, r) /\ Len(boot) = 4 /\ boot[4] = "open"
      /\ boot # <<>> /\ First(boot) = "dir"
  BY DEF Linked, Owns, Nth, After, Word, First
<1>2. /\ record \in Seq(Word) /\ Linked(record) /\ Owns(record, r) /\ Len(record) = 3
      /\ record[3] = "commit" /\ record # <<>> /\ First(record) = "open"
  BY DEF Linked, Owns, Nth, After, Word, First
<1>3. /\ Persist \in Seq(Word) /\ Linked(Persist) /\ Owns(Persist, r) /\ Len(Persist) = 2
      /\ Persist[2] = "list" /\ Persist # <<>> /\ First(Persist) = "entry" /\ Persist \in Path(r)
  BY DEF Persist, Path, Chained, Linked, Owns, Nth, After, Word, First
<1>4. /\ <<"find">> \in Path(r) /\ First(<<"find">>) = "find"
      /\ <<"clear">> \in Path(r) /\ First(<<"clear">>) = "clear"
  BY DEF Path, Chained, Owns, Nth, After, Word, First
<1>5. r => rotation \in Path(r) /\ First(rotation) = "copy"
  BY DEF Path, Chained, Owns, Nth, After, Word, First
<1>6. /\ After("list") = {"open", "find", "copy", "none"}
      /\ "entry" \in After("open") /\ "entry" \in After("commit") /\ "open" \in Word
  BY DEF After, Word
<1>7. Boot = boot \o Persist
  BY DEF Boot
<1>8. ASSUME NEW c \in Path(r), First(c) \in After("list")
      PROVE  Boot \o c \in Path(r) /\ First(Boot \o c) = "dir"
  <2> HIDE DEF boot, r
  <2>1. r \in BOOLEAN /\ c \in Seq(Word)
    BY DEF r, Path
  <2>2. Persist \o c \in Path(r) /\ First(Persist \o c) = "entry"
    BY <1>3, <1>8, <2>1, PathJoin
  <2>3. boot \o (Persist \o c) \in Path(r) /\ First(boot \o (Persist \o c)) = "dir"
    <3>1. /\ boot \in Seq(Word) /\ boot # <<>> /\ Linked(boot) /\ Owns(boot, r)
          /\ boot[Len(boot)] = "open" /\ First(boot) = "dir"
      BY <1>1
    <3>2. First(Persist \o c) \in After(boot[Len(boot)])
      BY <1>6, <2>2, <3>1
    <3>3. QED
      BY <2>1, <2>2, <3>1, <3>2, PathJoin, Zenon
  <2>4. Boot \o c = boot \o (Persist \o c)
    BY <1>1, <1>3, <1>7, <2>1, ConcatAssociative, SMTT(20)
  <2>5. QED
    BY <2>3, <2>4
<1>9. CASE does \in Invoked
  <2>1. Steps(does) = (Boot \o record) \o Persist
    BY <1>9 DEF Steps, Invoked
  <2> HIDE DEF record, r, boot
  <2>2. r \in BOOLEAN
    BY DEF r
  <2>3. record \o Persist \in Path(r) /\ First(record \o Persist) = "open"
    BY <1>2, <1>3, <1>6, <2>2, PathJoin
  <2>4. Boot \o (record \o Persist) \in Path(r) /\ First(Boot \o (record \o Persist)) = "dir"
    BY <1>6, <1>8, <2>3
  <2>5. Boot \in Seq(Word)
    BY <1>1, <1>3, <1>7, ConcatProperties
  <2>6. Steps(does) = Boot \o (record \o Persist)
    BY <1>2, <1>3, <2>1, <2>5, ConcatAssociative, SMTT(20)
  <2>7. QED
    BY <2>4, <2>6 DEF r
<1>10. CASE does = "gain"
  <2>1. Steps(does) = (Boot \o <<"open">>) \o Persist
    BY <1>10 DEF Steps, Invoked
  <2> HIDE DEF r, boot
  <2>2. r \in BOOLEAN
    BY DEF r
  <2>3. <<"open">> \o Persist \in Path(r) /\ First(<<"open">> \o Persist) = "open"
    BY <1>3, <1>6, <2>2, PathPut
  <2>4. Boot \o (<<"open">> \o Persist) \in Path(r) /\ First(Boot \o (<<"open">> \o Persist)) = "dir"
    BY <1>6, <1>8, <2>3
  <2>5. Boot \in Seq(Word) /\ <<"open">> \in Seq(Word)
    BY <1>1, <1>3, <1>6, <1>7, ConcatProperties
  <2>6. Steps(does) = Boot \o (<<"open">> \o Persist)
    BY <1>3, <2>1, <2>5, ConcatAssociative
  <2>7. QED
    BY <2>4, <2>6 DEF r
<1>11. CASE does = "reset"
  BY <1>4, <1>6, <1>8, <1>11 DEF Steps, Invoked
<1>12. CASE does = "rotate"
  BY <1>5, <1>6, <1>8, <1>12 DEF Steps, Invoked
<1>13. CASE does = "clean"
  BY <1>4, <1>13 DEF Steps, Invoked
<1>14. QED
  BY <1>9, <1>10, <1>11, <1>12, <1>13

-----------------------------------------------------------------------------
(* Where invocations are in the vault.                                     *)
Rotates(u) == plan[u].does = "rotate"
Here(u) == First(todo[u])

Paths ==
  /\ todo = [u \in Command |-> todo[u]]
  /\ \A u \in Command : todo[u] \in Path(Rotates(u))

LEMMA HereKnown ==
  ASSUME Paths, NEW u \in Command
  PROVE  /\ Here(u) = "none" <=> todo[u] = <<>>
         /\ u \in Users <=> Here(u) # "none"
         /\ \A w \in Word : At(u, w) <=> Here(u) = w
         /\ Here(u) # "none" => Here(u) \in Word
         /\ Here(u) \in {"copy", "away", "swap", "drop"} => Rotates(u)
<1>1. todo[u] \in Path(Rotates(u)) /\ Rotates(u) \in BOOLEAN
  BY DEF Paths, Rotates
<1>2. "none" \notin Word
  BY DEF Word
<1>3. CASE todo[u] = <<>>
  BY <1>2, <1>3 DEF Here, First, At, Users
<1>4. CASE todo[u] # <<>>
  <2>1. Here(u) = Head(todo[u]) /\ Here(u) \in Word
    BY <1>1, <1>4, PathTail DEF Here
  <2>2. Here(u) \in {"copy", "away", "swap", "drop"} => Rotates(u)
    BY <1>1, <1>4, PathTail DEF Here
  <2>3. QED
    BY <1>2, <1>4, <2>1, <2>2 DEF At, Users
<1>5. QED
  BY <1>3, <1>4

LEMMA UsersHere == Paths => \A u \in Command : u \in Users <=> Here(u) # "none"
BY HereKnown

(* Going on to a path of one's own leaves the others where they are.       *)
LEMMA GotoMoves ==
  ASSUME Paths, plan' = plan, NEW p \in Command, NEW s \in Path(Rotates(p)), Goto(p, s)
  PROVE  /\ Paths' /\ Here(p)' = First(s)
         /\ \A q \in Command : q # p => todo'[q] = todo[q] /\ Here(q)' = Here(q)
BY DEF Paths, Goto, Here, Rotates

LEMMA DoneMoves ==
  ASSUME Paths, plan' = plan, NEW p \in Command, todo[p] # <<>>, Done(p)
  PROVE  /\ Paths' /\ Here(p)' \in After(Here(p)) /\ Tail(todo[p]) \in Path(Rotates(p))
         /\ \A q \in Command : q # p => todo'[q] = todo[q] /\ Here(q)' = Here(q)
<1>1. todo[p] \in Path(Rotates(p)) /\ Rotates(p) \in BOOLEAN
  BY DEF Paths, Rotates
<1>2. Tail(todo[p]) \in Path(Rotates(p)) /\ First(Tail(todo[p])) \in After(First(todo[p]))
  BY <1>1, PathTail
<1>3. QED
  BY <1>2, GotoMoves DEF Done, Here

LEMMA NonePath == \A r \in BOOLEAN : <<>> \in Path(r) /\ First(<<>>) = "none"
BY DEF Path, Chained, Owns, First

(* Where a step leaves the invocation that takes it.                       *)
LEMMA PutMoves ==
  ASSUME Paths, plan' = plan, NEW p \in Command, NEW rows, Here(p) \in {"entry", "add"},
         PutEntry(p, rows)
  PROVE  /\ Paths'
         /\ Vault.there => Here(p)' \in After(Here(p))
         /\ \A q \in Command : q # p => todo'[q] = todo[q] /\ Here(q)' = Here(q)
<1>1. todo[p] # <<>> /\ todo[p] \in Path(Rotates(p)) /\ Rotates(p) \in BOOLEAN
  BY HereKnown DEF Paths, Rotates
<1>2. CASE Vault.there
  BY <1>1, <1>2, DoneMoves DEF PutEntry
<1>3. CASE ~Vault.there
  <2>1. Tail(todo[p]) \in Path(Rotates(p)) /\ First(Tail(todo[p])) \in After(Here(p))
    BY <1>1, PathTail DEF Here
  <2>2. First(Tail(todo[p])) # "none"
    BY <2>1 DEF After
  <2>3. Tail(todo[p]) # <<>>
    BY <2>2 DEF First
  <2>4. Tail(Tail(todo[p])) \in Path(Rotates(p))
    BY <1>1, <2>1, <2>3, PathTail
  <2>5. QED
    BY <1>3, <2>4, GotoMoves DEF PutEntry
<1>4. QED
  BY <1>2, <1>3

(* The step an invocation is at is the one it takes, and what it leaves    *)
(* ahead is a path again.                                                  *)
Left(p, words) == Here(p)' \in words \cup {"none"}
Moved(p) == Paths' /\ \A q \in Command : q # p => todo'[q] = todo[q] /\ Here(q)' = Here(q)

LEMMA StepMoves ==
  ASSUME Paths, plan' = plan, NEW p \in Command, VaultStep(p)
  PROVE  /\ Moved(p) /\ Here(p) # "none"
         /\ Here(p) \in {"dir", "setkey", "writekey", "open", "list", "commit", "unlink", "drop"} =>
              Here(p)' \in After(Here(p))
         /\ ReadKey(p) => Here(p)' = "check"
         /\ NewKey(p) => Here(p)' = "setkey"
         /\ Here(p) = "check" => Here(p)' \in {"trim", "open"}
         /\ Here(p) \in {"trim", "entry", "add"} /\ Vault.there => Here(p)' \in After(Here(p))
         /\ Here(p) = "find" => Left(p, {"unlist"})
         /\ Here(p) = "unlist" => Left(p, {"unlink"})
         /\ Here(p) = "clear" => Left(p, {"clear"})
         /\ Here(p) = "copy" => Left(p, {"away"})
         /\ Here(p) = "away" => Left(p, {"swap"})
         /\ Here(p) = "swap" => Left(p, {"drop"})
<1> DEFINE r == Rotates(p)
<1>1. todo[p] \in Path(r) /\ r \in BOOLEAN
  BY DEF Paths, Rotates
<1>2. <<>> \in Path(r) /\ First(<<>>) = "none"
  BY <1>1, NonePath
<1>3. \A w \in Word : At(p, w) => todo[p] # <<>> /\ Here(p) = w
  BY HereKnown DEF At
<1>4. todo[p] # <<>> /\ Done(p) => Moved(p) /\ Here(p)' \in After(Here(p))
  BY DoneMoves DEF Moved
<1>5. Goto(p, <<>>) => Moved(p) /\ Here(p)' = "none"
  BY <1>2, GotoMoves DEF Moved
<1>6. todo[p] # <<>> =>
        Tail(todo[p]) \in Path(r) /\ First(Tail(todo[p])) \in After(Here(p))
  BY <1>1, PathTail DEF Here
<1>7. CASE \/ MakeDir(p) \/ ReadKey(p) \/ CreateKeyFile(p) \/ WriteKey(p) \/ Open(p)
           \/ Unlink(p) \/ DropOld(p)
  BY <1>3, <1>4, <1>7
  DEF MakeDir, ReadKey, CreateKeyFile, WriteKey, Open, Unlink, DropOld, Word, After, Left, NewKey
<1>8. CASE DropIndex(p) \/ Commit(p)
  BY <1>3, <1>4, <1>8 DEF DropIndex, Commit, PutIndex, Word, After, Left, ReadKey, NewKey
<1>9. CASE NewKey(p)
  <2>1. todo[p] # <<>> /\ Here(p) = "key" /\ ~ReadKey(p)
    BY <1>3, <1>9 DEF NewKey, Word, ReadKey
  <2>2. First(Tail(todo[p])) = "check"
    BY <1>6, <2>1 DEF After
  <2>3. <<"writekey">> \o Tail(todo[p]) \in Path(r)
        /\ First(<<"writekey">> \o Tail(todo[p])) = "writekey"
    BY <1>1, <1>6, <2>1, <2>2, PathPut DEF After, Word
  <2>4. <<"setkey">> \o (<<"writekey">> \o Tail(todo[p])) \in Path(r)
        /\ First(<<"setkey">> \o (<<"writekey">> \o Tail(todo[p]))) = "setkey"
    BY <1>1, <2>3, PathPut DEF After, Word
  <2>5. <<"setkey", "writekey">> \o Tail(todo[p]) = <<"setkey">> \o (<<"writekey">> \o Tail(todo[p]))
    <3>1. <<"setkey">> \in Seq(Word) /\ <<"writekey">> \in Seq(Word) /\ Tail(todo[p]) \in Seq(Word)
      BY <1>6, <2>1 DEF Word, Path
    <3>2. <<"setkey", "writekey">> = <<"setkey">> \o <<"writekey">>
      OBVIOUS
    <3>3. QED
      BY <3>1, <3>2, ConcatAssociative
  <2>6. Moved(p) /\ Here(p)' = "setkey"
    BY <1>9, <2>4, <2>5, GotoMoves DEF NewKey, Moved
  <2>7. QED
    BY <2>1, <2>6
<1>10. CASE Reconcile(p)
  <2>1. todo[p] # <<>> /\ Here(p) = "check"
    BY <1>3, <1>10 DEF Reconcile, Word
  <2>2. First(Tail(todo[p])) = "open"
    BY <1>6, <2>1 DEF After
  <2>3. <<"trim">> \o Tail(todo[p]) \in Path(r) /\ First(<<"trim">> \o Tail(todo[p])) = "trim"
    BY <1>1, <1>6, <2>1, <2>2, PathPut DEF After, Word
  <2>4. Moved(p) /\ Here(p)' \in {"trim", "open"}
    BY <1>6, <1>10, <2>1, <2>2, <2>3, GotoMoves DEF Reconcile, Moved
  <2>5. ~ReadKey(p) /\ ~NewKey(p)
    BY <1>3, <2>1 DEF ReadKey, NewKey, Word
  <2>6. QED
    BY <2>1, <2>4, <2>5
<1>11. CASE Trim(p) \/ Unlist(p) \/ Copy(p) \/ Away(p) \/ Swap(p)
  BY <1>3, <1>4, <1>5, <1>11
  DEF Trim, Unlist, Copy, Away, Swap, Word, After, Left, ReadKey, NewKey
<1>12. CASE DropEntry(p) \/ AddRow(p)
  <2>1. todo[p] # <<>> /\ Here(p) \in {"entry", "add"} /\ ~ReadKey(p) /\ ~NewKey(p)
    BY <1>3, <1>12 DEF DropEntry, AddRow, Word, ReadKey, NewKey
  <2>2. Moved(p) /\ (Vault.there => Here(p)' \in After(Here(p)))
    BY <1>12, <2>1, PutMoves DEF DropEntry, AddRow, Moved
  <2>3. QED
    BY <2>1, <2>2
<1>13. CASE FindEntries(p)
  <2>1. todo[p] # <<>> /\ Here(p) = "find" /\ ~ReadKey(p) /\ ~NewKey(p)
    BY <1>3, <1>13 DEF FindEntries, Word, ReadKey, NewKey
  <2>2. <<"unlist", "unlink">> \in Path(r) /\ First(<<"unlist", "unlink">>) = "unlist"
    BY DEF Path, Chained, Owns, Nth, After, Word, First
  <2>3. Moved(p) /\ Left(p, {"unlist"})
    BY <1>2, <1>13, <2>2, GotoMoves DEF FindEntries, Moved, Left
  <2>4. QED
    BY <2>1, <2>3
<1>14. CASE Clear(p)
  <2>1. todo[p] # <<>> /\ Here(p) = "clear" /\ ~ReadKey(p) /\ ~NewKey(p)
    BY <1>3, <1>14 DEF Clear, Word, ReadKey, NewKey
  <2>2. todo' = todo \/ Done(p)
    BY <1>14 DEF Clear
  <2>3. todo' = todo => Moved(p) /\ Here(p)' = Here(p)
    BY DEF Moved, Paths, Here, Rotates
  <2>4. Moved(p) /\ Left(p, {"clear"})
    BY <1>4, <2>1, <2>2, <2>3 DEF Left, After
  <2>5. QED
    BY <2>1, <2>4
<1>15. QED
  BY <1>7, <1>8, <1>9, <1>10, <1>11, <1>12, <1>13, <1>14 DEF VaultStep

-----------------------------------------------------------------------------
(* What keeps a recorded row: the vault opens with its key and has every   *)
(* row owed, and whoever works on the vault holds that key and a copy with *)
(* those rows; or a rotation on its own is between its renames and its key,*)
(* and has them in the directory it swaps in.                              *)
Owed == due \ lapped
Excused == cut \/ \E r \in Command : Rotates(r) /\ r \in lapped

Opens == /\ Vault.there /\ Vault.key # NoKeyFile /\ Vault.sealed = Vault.key
         /\ Owed \subseteq Vault.rows
HoldsKey(u) == Vault.there /\ Vault.key = key[u] /\ key[u] # NoKeyFile
Copied(place, u) == /\ dirs[place].there /\ dirs[place].sealed = RotateKey(u)
                    /\ Owed \subseteq dirs[place].rows
Moving(u) == /\ Rotates(u) /\ key[u] = RotateKey(u)
             /\ Here(u) \in {"swap", "drop", "setkey", "writekey"}

Sound(u) ==
  /\ Here(u) \in {"check", "trim", "open", "entry", "list", "add", "commit", "copy"} => HoldsKey(u)
  /\ Here(u) \in {"entry", "add", "commit"} => Owed \subseteq db[u]
  /\ Here(u) \in {"list", "commit", "copy"} => Vault.sealed = key[u]
  /\ Here(u) = "commit" => u \in db[u] /\ (u \notin lapped => u \in Vault.rows)
  /\ Here(u) = "copy" => Vault.index = "blob"
  /\ Here(u) = "writekey" => Vault.there
  /\ Here(u) \in {"setkey", "writekey"} =>
       (Owed = {} /\ key[u] = BootKey(u)) \/ (Moving(u) /\ Copied("vault", u))
  /\ Here(u) = "away" => Vault.there /\ key[u] = RotateKey(u) /\ Copied("rotating", u)
  /\ Here(u) = "swap" => ~Vault.there /\ Moving(u) /\ Copied("rotating", u)
  /\ Here(u) = "drop" => Moving(u) /\ Copied("vault", u)

OnOwn == \A u \in Users : u \notin lapped => Users = {u}

Kept ==
  /\ Owed # {} => Opens \/ \E r \in Users : Moving(r)
  /\ \A u \in Users : (u \notin lapped \/ Owed # {}) => Sound(u)

KeptInv == Paths /\ OnOwn /\ (~Excused => Kept)

LEMMA KeysDiffer ==
  ASSUME NEW u
  PROVE  /\ BootKey(u) # NoKeyFile /\ RotateKey(u) # NoKeyFile /\ EmptyKey # NoKeyFile
         /\ BootKey(u) # RotateKey(u)
<1>1. /\ BootKey(u).made = "boot" /\ RotateKey(u).made = "rotate"
      /\ EmptyKey.made = "empty" /\ NoKeyFile.made = "none"
  BY DEF BootKey, RotateKey, EmptyKey, NoKeyFile
<1>2. QED
  BY <1>1

(* What is at the three places after one of them was altered.              *)
LEMMA AlterMoves ==
  ASSUME VaultTyped, NEW place \in Places, NEW d, Alter(place, d)
  PROVE  dirs'[place] = d /\ \A other \in Places : other # place => dirs'[other] = dirs[other]
BY DEF VaultTyped, Alter

LEMMA VaultParts ==
  ASSUME NEW d \in Dir
  PROVE  /\ \A k : LET e == [d EXCEPT !.key = k]
                   IN  e.there /\ e.key = k /\ e.sealed = d.sealed /\ e.rows = d.rows
                       /\ e.index = d.index
         /\ \A k, r : LET e == [d EXCEPT !.sealed = k, !.rows = r]
                      IN  e.there /\ e.key = d.key /\ e.sealed = k /\ e.rows = r
                          /\ e.index = d.index
         /\ \A i : LET e == [d EXCEPT !.index = i]
                   IN  e.there /\ e.key = d.key /\ e.sealed = d.sealed /\ e.rows = d.rows
                       /\ e.index = i
BY DEF Dir

(* An own step of an invocation the invariant speaks of keeps what it says.*)
Fine(p) == (Owed # {} => Opens \/ Moving(p)) /\ Sound(p)

LEMMA VaultMoves ==
  ASSUME VaultTyped
  PROVE  /\ Vault = dirs["vault"] /\ Vault' = dirs'["vault"] /\ (Vault.there => Vault \in Dir)
         /\ "vault" \in Places /\ "rotating" \in Places /\ "old" \in Places
BY DirTypes DEF Vault, VaultTyped, Places

LEMMA OwnStep ==
  ASSUME VaultTyped, Paths, plan' = plan, NEW p \in Command, VaultStep(p), Fine(p)
  PROVE  Fine(p)'
<1>1. /\ Vault = dirs["vault"] /\ Vault' = dirs'["vault"] /\ (Vault.there => Vault \in Dir)
      /\ "vault" \in Places /\ "rotating" \in Places /\ "old" \in Places
  BY VaultMoves
<1>2. /\ key \in [Command -> Key] /\ db \in [Command -> SUBSET Command]
      /\ lapped' = lapped /\ (Rotates(p)' <=> Rotates(p))
  BY DEF VaultTyped, VaultStep, Rotates
<1>3. (Owed # {} => Opens \/ Moving(p)) /\ Sound(p)
  BY DEF Fine
<1>4. \A w \in Word : At(p, w) <=> Here(p) = w
  BY HereKnown
<1>5. Here(p) \in {"copy", "away", "swap", "drop"} => Rotates(p)
  BY HereKnown
<1>6. \A d \in Dir :
        /\ \A k : LET e == [d EXCEPT !.key = k]
                  IN  e.there /\ e.key = k /\ e.sealed = d.sealed /\ e.rows = d.rows
                      /\ e.index = d.index
        /\ \A k, r : LET e == [d EXCEPT !.sealed = k, !.rows = r]
                     IN  e.there /\ e.key = d.key /\ e.sealed = k /\ e.rows = r
                         /\ e.index = d.index
        /\ \A i : LET e == [d EXCEPT !.index = i]
                  IN  e.there /\ e.key = d.key /\ e.sealed = d.sealed /\ e.rows = d.rows
                      /\ e.index = i
  BY VaultParts
<1>7. Fresh \in Dir /\ NoDir.there = FALSE
  BY DirTypes
<1>8. /\ BootKey(p) # NoKeyFile /\ RotateKey(p) # NoKeyFile /\ EmptyKey # NoKeyFile
      /\ BootKey(p) # RotateKey(p)
  BY KeysDiffer
<1>9. /\ RotateKey(p)' = RotateKey(p) /\ BootKey(p)' = BootKey(p)
      /\ EmptyKey' = EmptyKey /\ NoKeyFile' = NoKeyFile
  BY DEF RotateKey, BootKey
<1>10. CASE MakeDir(p)
  <2>1. Here(p) = "dir" /\ Here(p)' = "key" /\ due' = due
    BY <1>4, <1>10, StepMoves DEF MakeDir, Word, After
  <2>2. Owed # {} => Opens /\ dirs' = dirs
    BY <1>3, <1>10, <2>1 DEF MakeDir, Opens, Moving
  <2>3. QED
    BY <1>1, <1>2, <2>1, <2>2 DEF Fine, Sound, Owed, Opens
<1>11. CASE ReadKey(p)
  <2>1. Here(p) = "key" /\ Here(p)' = "check" /\ due' = due /\ dirs' = dirs
    BY <1>4, <1>11, StepMoves DEF ReadKey, Word
  <2>2. Vault.there /\ Vault.key # NoKeyFile /\ key'[p] = Vault.key
    BY <1>2, <1>11 DEF ReadKey
  <2>3. QED
    BY <1>1, <1>2, <1>3, <2>1, <2>2 DEF Fine, Sound, Owed, Opens, Moving, HoldsKey
<1>12. CASE NewKey(p)
  <2>1. Here(p) = "key" /\ Here(p)' = "setkey" /\ due' = due /\ dirs' = dirs
    BY <1>4, <1>12, StepMoves DEF NewKey, Word
  <2>2. key'[p] = BootKey(p)
    BY <1>2, <1>12 DEF NewKey
  <2>3. Owed = {}
    BY <1>3, <1>12, <2>1 DEF NewKey, Opens, Moving
  <2>4. QED
    BY <1>1, <1>2, <1>9, <2>1, <2>2, <2>3 DEF Fine, Sound, Owed
<1>13. CASE CreateKeyFile(p)
  <2> DEFINE d == IF Vault.there THEN Vault ELSE Fresh
  <2>1. Here(p) = "setkey" /\ Here(p)' = "writekey" /\ due' = due /\ key' = key /\ db' = db
    BY <1>4, <1>13, StepMoves DEF CreateKeyFile, Word, After
  <2>2. d \in Dir /\ Alter("vault", [d EXCEPT !.key = EmptyKey])
    BY <1>1, <1>7, <1>13 DEF CreateKeyFile
  <2>3. Vault' = [d EXCEPT !.key = EmptyKey]
    BY <1>1, <2>2, AlterMoves
  <2>4. Vault'.there /\ Vault'.sealed = d.sealed /\ Vault'.rows = d.rows
    BY <1>6, <2>2, <2>3
  <2> HIDE DEF d
  <2>5. CASE Owed = {} /\ key[p] = BootKey(p)
    BY <1>2, <1>9, <2>1, <2>4, <2>5 DEF Fine, Sound, Owed
  <2>6. CASE Moving(p) /\ Copied("vault", p)
    <3>1. d = Vault
      BY <1>1, <2>6 DEF d, Copied
    <3>2. Copied("vault", p)' /\ Moving(p)'
      BY <1>1, <1>2, <1>9, <2>1, <2>4, <2>6, <3>1 DEF Copied, Moving, Owed
    <3>3. QED
      BY <2>1, <2>4, <3>2 DEF Fine, Sound
  <2>7. QED
    BY <1>3, <2>1, <2>5, <2>6 DEF Sound
<1>14. CASE WriteKey(p)
  <2>1. /\ Here(p) = "writekey" /\ Here(p)' \in {"check", "none"} /\ due' = due /\ key' = key
        /\ db' = db /\ Vault.there
    BY <1>3, <1>4, <1>14, StepMoves DEF WriteKey, Word, After, Sound
  <2>2. Vault' = [Vault EXCEPT !.key = key[p]]
    BY <1>1, <1>14, <2>1, AlterMoves DEF WriteKey
  <2>3. /\ Vault'.there /\ Vault'.key = key[p] /\ Vault'.sealed = Vault.sealed
        /\ Vault'.rows = Vault.rows
    BY <1>1, <1>6, <2>1, <2>2
  <2>4. CASE Owed = {} /\ key[p] = BootKey(p)
    BY <1>2, <1>8, <2>1, <2>3, <2>4 DEF Fine, Sound, Owed, HoldsKey
  <2>5. CASE Moving(p) /\ Copied("vault", p)
    BY <1>1, <1>2, <1>8, <2>1, <2>3, <2>5
    DEF Fine, Sound, Owed, HoldsKey, Opens, Copied, Moving
  <2>6. QED
    BY <1>3, <2>1, <2>4, <2>5 DEF Sound
<1>15. CASE Reconcile(p)
  <2>1. /\ Here(p) = "check" /\ Here(p)' \in {"trim", "open"} /\ due' = due /\ key' = key
        /\ db' = db
    BY <1>4, <1>15, StepMoves DEF Reconcile, Word
  <2>2. HoldsKey(p) /\ dirs' = dirs
    BY <1>3, <1>15, <2>1 DEF Reconcile, Sound, HoldsKey
  <2>3. QED
    BY <1>2, <1>3, <2>1, <2>2 DEF Fine, Sound, Owed, Opens, Moving, HoldsKey, Vault
<1>16. CASE Trim(p)
  <2>1. Here(p) = "trim" /\ due' = due /\ key' = key /\ db' = db
    BY <1>4, <1>16 DEF Trim, Word
  <2>2. HoldsKey(p) /\ Vault.there
    BY <1>3, <2>1 DEF Sound, HoldsKey
  <2>3. Here(p)' = "open"
    BY <2>1, <2>2, StepMoves DEF After
  <2>4. Vault' = [Vault EXCEPT !.index = "empty"]
    BY <1>1, <1>16, <2>2, AlterMoves DEF Trim
  <2>5. /\ Vault'.there /\ Vault'.key = Vault.key /\ Vault'.sealed = Vault.sealed
        /\ Vault'.rows = Vault.rows
    BY <1>1, <1>6, <2>2, <2>4
  <2>6. QED
    BY <1>2, <1>3, <2>1, <2>2, <2>3, <2>5 DEF Fine, Sound, Owed, Opens, Moving, HoldsKey
<1>17. CASE Open(p)
  <2>1. /\ Here(p) = "open" /\ Here(p)' \in {"entry", "add"} /\ due' = due /\ key' = key
        /\ dirs' = dirs
    BY <1>4, <1>17, StepMoves DEF Open, Word, After
  <2>2. HoldsKey(p) /\ (Owed # {} => Opens)
    BY <1>3, <2>1 DEF Sound, Moving
  <2>3. db'[p] = IF Vault.there /\ Vault.sealed = key[p] THEN Vault.rows ELSE {}
    BY <1>2, <1>17 DEF Open
  <2>4. Owed \subseteq db'[p]
    BY <2>2, <2>3 DEF Opens, HoldsKey
  <2>5. QED
    BY <1>1, <1>2, <2>1, <2>2, <2>4 DEF Fine, Sound, Owed, Opens, HoldsKey
<1>18. ASSUME NEW rows \in SUBSET Command, PutEntry(p, rows), Here(p) \in {"entry", "add"},
              due' = due, key' = key
       PROVE  /\ HoldsKey(p) /\ HoldsKey(p)' /\ Vault'.sealed = key[p] /\ Vault'.rows = rows
              /\ Owed \subseteq db[p] /\ Here(p)' \in After(Here(p)) /\ Owed' = Owed
              /\ Owed \subseteq rows => (Owed # {} => Opens')
  <2>1. HoldsKey(p) /\ Vault.there /\ Owed \subseteq db[p]
    BY <1>3, <1>18 DEF Sound, HoldsKey
  <2>2. Here(p)' \in After(Here(p))
    BY <1>18, <2>1, StepMoves
  <2>3. Vault' = [Vault EXCEPT !.sealed = key[p], !.rows = rows]
    BY <1>1, <1>18, <2>1, AlterMoves DEF PutEntry
  <2>4. /\ Vault'.there /\ Vault'.key = Vault.key /\ Vault'.sealed = key[p]
        /\ Vault'.rows = rows
    BY <1>1, <1>6, <2>1, <2>3
  <2>5. Owed' = Owed
    BY <1>2, <1>18 DEF Owed
  <2>6. QED
    BY <1>18, <2>1, <2>2, <2>4, <2>5 DEF HoldsKey, Opens
<1>19. CASE DropEntry(p)
  <2>1. /\ Here(p) = "entry" /\ due' = due /\ key' = key /\ db' = db /\ PutEntry(p, db[p])
        /\ db[p] \in SUBSET Command
    BY <1>2, <1>4, <1>19 DEF DropEntry, Word
  <2>2. Here(p)' = "list"
    BY <1>18, <2>1 DEF After
  <2>3. QED
    BY <1>18, <2>1, <2>2 DEF Fine, Sound
<1>20. CASE AddRow(p)
  <2>1. /\ Here(p) = "add" /\ due' = due /\ key' = key /\ PutEntry(p, db[p] \cup {p})
        /\ db[p] \cup {p} \in SUBSET Command /\ db'[p] = db[p] \cup {p}
    BY <1>2, <1>4, <1>20 DEF AddRow, Word
  <2>2. Here(p)' = "commit"
    BY <1>18, <2>1 DEF After
  <2>3. QED
    BY <1>18, <2>1, <2>2 DEF Fine, Sound
<1>21. ASSUME PutIndex(p), Vault.there
       PROVE  /\ Vault'.there /\ Vault'.key = Vault.key /\ Vault'.sealed = Vault.sealed
              /\ Vault'.rows = Vault.rows /\ Vault'.index = "blob"
  <2>1. Vault' = [Vault EXCEPT !.index = "blob"]
    BY <1>1, <1>21, AlterMoves DEF PutIndex
  <2>2. QED
    BY <1>1, <1>6, <1>21, <2>1
<1>22. CASE DropIndex(p)
  <2>1. /\ Here(p) = "list" /\ Here(p)' \in {"open", "find", "copy", "none"} /\ due' = due
        /\ key' = key /\ db' = db /\ PutIndex(p)
    BY <1>4, <1>22, StepMoves DEF DropIndex, Word, After
  <2>2. HoldsKey(p) /\ Vault.there /\ Vault.sealed = key[p] /\ (Owed # {} => Opens)
    BY <1>3, <2>1 DEF Sound, HoldsKey, Moving
  <2>3. QED
    BY <1>2, <1>21, <2>1, <2>2 DEF Fine, Sound, Owed, Opens, HoldsKey
<1>23. CASE Commit(p)
  <2>1. Here(p) = "commit" /\ Here(p)' = "entry" /\ key' = key /\ db' = db /\ PutIndex(p)
    BY <1>4, <1>23, StepMoves DEF Commit, Word, After
  <2>2. /\ HoldsKey(p) /\ Vault.there /\ Vault.sealed = key[p] /\ (Owed # {} => Opens)
        /\ Owed \subseteq db[p] /\ p \in db[p] /\ (p \notin lapped => p \in Vault.rows)
    BY <1>3, <2>1 DEF Sound, HoldsKey, Moving
  <2>3. due' = due \cup {p}
    BY <1>23, <2>2 DEF Commit
  <2>4. Owed' \subseteq db[p] /\ (Owed' # {} => Owed' \subseteq Vault.rows)
    BY <1>2, <2>2, <2>3 DEF Owed, Opens
  <2>5. HoldsKey(p)' /\ (Owed' # {} => Opens')
    BY <1>21, <2>1, <2>2, <2>4 DEF HoldsKey, Opens
  <2>6. QED
    BY <2>1, <2>4, <2>5 DEF Fine, Sound
<1>24. CASE FindEntries(p)
  <2>1. /\ Here(p) = "find" /\ Here(p)' \in {"unlist", "none"} /\ due' = due /\ key' = key
        /\ dirs' = dirs
    BY <1>4, <1>24, StepMoves DEF FindEntries, Word, Left
  <2>2. Owed # {} => Opens
    BY <1>3, <2>1 DEF Moving
  <2>3. QED
    BY <1>1, <1>2, <2>1, <2>2 DEF Fine, Sound, Owed, Opens
<1>25. CASE Unlist(p) \/ Unlink(p) \/ Clear(p)
  <2>1. Here(p)' \in {"unlink", "clear", "none"} /\ due' = {}
    BY <1>4, <1>25, StepMoves DEF Unlist, Unlink, Clear, Word, Left, After
  <2>2. QED
    BY <2>1 DEF Fine, Sound, Owed
<1>26. CASE Copy(p)
  <2> DEFINE copied == [Fresh EXCEPT !.sealed = RotateKey(p), !.rows = Vault.rows, !.index = "blob"]
  <2>1. /\ Here(p) = "copy" /\ Here(p)' \in {"away", "none"} /\ due' = due /\ db' = db
        /\ key'[p] = RotateKey(p)
    BY <1>2, <1>4, <1>26, StepMoves DEF Copy, Word, Left
  <2>2. /\ HoldsKey(p) /\ Vault.sealed = key[p] /\ Vault.index = "blob"
        /\ (Owed # {} => Opens)
    BY <1>3, <2>1 DEF Sound, Moving
  <2>3. Alter("rotating", copied)
    BY <1>26, <2>2 DEF Copy, HasBlob, HoldsKey
  <2>4. dirs'["rotating"] = copied /\ Vault' = Vault
    BY <1>1, <2>3, AlterMoves
  <2>5. copied.there /\ copied.sealed = RotateKey(p) /\ copied.rows = Vault.rows
    BY DEF Fresh
  <2> HIDE DEF copied
  <2>6. QED
    BY <1>2, <1>9, <2>1, <2>2, <2>4, <2>5 DEF Fine, Sound, Owed, Opens, Copied, HoldsKey
<1>27. CASE Away(p)
  <2>1. /\ Here(p) = "away" /\ Here(p)' \in {"swap", "none"} /\ due' = due /\ db' = db
        /\ key' = key
    BY <1>4, <1>27, StepMoves DEF Away, Word, Left
  <2>2. Vault.there /\ key[p] = RotateKey(p) /\ Copied("rotating", p)
    BY <1>3, <2>1 DEF Sound
  <2>3. dirs' = [dirs EXCEPT !["old"] = Vault, !["vault"] = NoDir] /\ Done(p)
    BY <1>27, <2>2 DEF Away
  <2>4. Vault' = NoDir /\ dirs'["rotating"] = dirs["rotating"]
    BY <1>1, <2>3 DEF VaultTyped, Places
  <2>5. Here(p)' = "swap"
    BY <2>1, <2>3, DoneMoves DEF Here, First, After
  <2>6. Moving(p)'
    BY <1>2, <1>5, <1>9, <2>1, <2>2, <2>5 DEF Moving
  <2>7. QED
    BY <1>2, <1>7, <1>9, <2>1, <2>2, <2>4, <2>5, <2>6 DEF Fine, Sound, Owed, Copied
<1>28. CASE Swap(p)
  <2>1. Here(p) = "swap" /\ due' = due /\ db' = db /\ key' = key
    BY <1>4, <1>28, StepMoves DEF Swap, Word
  <2>2. ~Vault.there /\ Moving(p) /\ Copied("rotating", p)
    BY <1>3, <2>1 DEF Sound
  <2>3. dirs' = [dirs EXCEPT !["vault"] = dirs["rotating"], !["rotating"] = NoDir] /\ Done(p)
    BY <1>28, <2>2 DEF Swap
  <2>4. Vault' = dirs["rotating"]
    BY <1>1, <2>3 DEF VaultTyped, Places
  <2>5. Here(p)' = "drop"
    BY <2>1, <2>3, DoneMoves DEF Here, First, After
  <2>6. Moving(p)' /\ Copied("vault", p)'
    BY <1>1, <1>2, <1>9, <2>1, <2>2, <2>4, <2>5 DEF Moving, Copied, Owed
  <2>7. QED
    BY <2>5, <2>6 DEF Fine, Sound
<1>29. CASE DropOld(p)
  <2>1. /\ Here(p) = "drop" /\ Here(p)' = "setkey" /\ due' = due /\ db' = db /\ key' = key
    BY <1>4, <1>29, StepMoves DEF DropOld, Word, After
  <2>2. Moving(p) /\ Copied("vault", p)
    BY <1>3, <2>1 DEF Sound
  <2>3. Vault' = Vault
    BY <1>1, <1>29, AlterMoves DEF DropOld
  <2>4. Moving(p)' /\ Copied("vault", p)'
    BY <1>1, <1>2, <1>9, <2>1, <2>2, <2>3 DEF Moving, Copied, Owed
  <2>5. QED
    BY <2>1, <2>4 DEF Fine, Sound
<1>30. QED
  BY <1>10, <1>11, <1>12, <1>13, <1>14, <1>15, <1>16, <1>17, <1>19, <1>20, <1>22, <1>23,
     <1>24, <1>25, <1>26, <1>27, <1>28, <1>29 DEF VaultStep

(* What a step changes of others, and of the rows owed.                    *)
LEMMA StepTouches ==
  ASSUME VaultTyped, NEW p \in Command, VaultStep(p)
  PROVE  /\ \A q \in Command : q # p => key'[q] = key[q] /\ db'[q] = db[q]
         /\ lapped' = lapped /\ cut' = cut
         /\ Owed' \in {{}, Owed, Owed \cup {p}}
         /\ p \in lapped => Owed' \in {{}, Owed}
<1>1. /\ key \in [Command -> Key] /\ db \in [Command -> SUBSET Command]
      /\ lapped' = lapped /\ cut' = cut
  BY DEF VaultTyped, VaultStep
<1>2. due' \in {{}, due, due \cup {p}}
  BY DEF VaultStep, MakeDir, ReadKey, NewKey, CreateKeyFile, WriteKey, Reconcile, Trim, Open,
         DropEntry, DropIndex, AddRow, Commit, FindEntries, Unlist, Unlink, Clear, Copy, Away,
         Swap, DropOld
<1>3. /\ Owed' \in {{}, Owed, Owed \cup {p}}
      /\ p \in lapped => Owed' \in {{}, Owed}
  BY <1>1, <1>2 DEF Owed
<1>4. \A q \in Command : q # p => key'[q] = key[q]
  BY <1>1
  DEF VaultStep, MakeDir, ReadKey, NewKey, CreateKeyFile, WriteKey, Reconcile, Trim, Open,
      DropEntry, DropIndex, AddRow, Commit, FindEntries, Unlist, Unlink, Clear, Copy, Away,
      Swap, DropOld
<1>5. \A q \in Command : q # p => db'[q] = db[q]
  BY <1>1
  DEF VaultStep, MakeDir, ReadKey, NewKey, CreateKeyFile, WriteKey, Reconcile, Trim, Open,
      DropEntry, DropIndex, AddRow, Commit, FindEntries, Unlist, Unlink, Clear, Copy, Away,
      Swap, DropOld
<1>6. QED
  BY <1>1, <1>3, <1>4, <1>5

(* While rows are owed, only a rotation gives the vault another key.       *)
LEMMA KeyStays ==
  ASSUME VaultTyped, Paths, plan' = plan, NEW p \in Command, VaultStep(p), Sound(p), Opens,
         Owed # {}, Owed' # {}, ~Rotates(p)
  PROVE  Vault'.key = Vault.key
<1>1. /\ Vault' = dirs'["vault"] /\ Vault = dirs["vault"] /\ (Vault.there => Vault \in Dir)
      /\ "vault" \in Places /\ "rotating" \in Places /\ "old" \in Places
  BY VaultMoves
<1>2. \A w \in Word : At(p, w) <=> Here(p) = w
  BY HereKnown
<1>3. Vault.there /\ Vault \in Dir /\ due' # {}
  BY <1>1 DEF Opens, Owed
<1>4. Here(p) \notin {"copy", "away", "swap", "drop"}
  BY HereKnown
<1>5. Here(p) \notin {"setkey", "writekey"}
  BY DEF Sound, Moving
<1>6. /\ \A i : [Vault EXCEPT !.index = i].key = Vault.key
      /\ \A k, r : [Vault EXCEPT !.sealed = k, !.rows = r].key = Vault.key
  BY <1>3, VaultParts
<1>7. CASE MakeDir(p) \/ ReadKey(p) \/ NewKey(p) \/ Reconcile(p) \/ Open(p) \/ FindEntries(p)
  BY <1>1, <1>3, <1>7 DEF MakeDir, ReadKey, NewKey, Reconcile, Open, FindEntries
<1>8. ASSUME NEW d, Alter("vault", d), d.key = Vault.key PROVE Vault'.key = Vault.key
  BY <1>1, <1>8, AlterMoves
<1>9. CASE Trim(p) \/ DropEntry(p) \/ DropIndex(p) \/ AddRow(p) \/ Commit(p)
  BY <1>3, <1>6, <1>8, <1>9 DEF Trim, DropEntry, DropIndex, AddRow, Commit, PutEntry, PutIndex
<1>10. ~(\/ CreateKeyFile(p) \/ WriteKey(p) \/ Unlist(p) \/ Unlink(p) \/ Clear(p)
         \/ Copy(p) \/ Away(p) \/ Swap(p) \/ DropOld(p))
  BY <1>2, <1>3, <1>4, <1>5
  DEF CreateKeyFile, WriteKey, Unlist, Unlink, Clear, Copy, Away, Swap, DropOld, Word
<1>11. QED
  BY <1>7, <1>9, <1>10 DEF VaultStep

(* Two invocations in the vault at once: what the one relies on holds after*)
(* a step of the other.                                                    *)
LEMMA OthersSound ==
  ASSUME NEW u \in Command, plan' = plan, u \in lapped, lapped' = lapped, ~Rotates(u),
         Here(u) \in {"copy", "away", "swap", "drop"} => Rotates(u),
         Sound(u), Opens, Opens', Owed # {}, Owed' = Owed, Vault'.key = Vault.key,
         Here(u)' = Here(u), key'[u] = key[u], db'[u] = db[u]
  PROVE  Sound(u)'
BY DEF Sound, HoldsKey, Opens, Moving, Rotates

(* Every step in the vault, of an invocation on its own and of one among   *)
(* others.                                                                 *)
LEMMA VaultKeeps ==
  ASSUME VaultTyped, KeptInv, plan' = plan, NEW p \in Command, VaultStep(p)
  PROVE  KeptInv'
<1>1. Paths /\ OnOwn /\ (~Excused => Kept)
  BY DEF KeptInv
<1>2. /\ Paths' /\ Here(p) # "none"
      /\ \A q \in Command : q # p => todo'[q] = todo[q] /\ Here(q)' = Here(q)
  BY <1>1, StepMoves DEF Moved
<1>3. /\ \A q \in Command : q # p => key'[q] = key[q] /\ db'[q] = db[q]
      /\ lapped' = lapped /\ cut' = cut
      /\ Owed' \in {{}, Owed, Owed \cup {p}}
      /\ p \in lapped => Owed' \in {{}, Owed}
  BY StepTouches
<1>4. p \in Users
  BY <1>1, <1>2, HereKnown
<1>5. Users' \subseteq Users
  BY <1>2, <1>4 DEF Users
<1>6. OnOwn'
  BY <1>1, <1>3, <1>5 DEF OnOwn
<1>7. Excused' <=> Excused
  BY <1>3 DEF Excused, Rotates
<1>8. ASSUME ~Excused, p \notin lapped PROVE Kept'
  <2>1. Users = {p} /\ Kept
    BY <1>1, <1>4, <1>8 DEF OnOwn
  <2>2. Fine(p)
    BY <1>8, <2>1 DEF Kept, Fine
  <2>3. Fine(p)'
    BY <1>1, <2>2, OwnStep
  <2>4. Moving(p)' => p \in Users'
    <3>1. Moving(p)' => Here(p)' # "none"
      BY DEF Moving
    <3>2. (Paths => \A u \in Command : u \in Users <=> Here(u) # "none")'
      BY UsersHere, PTL
    <3>3. QED
      BY <1>2, <3>1, <3>2
  <2>5. QED
    BY <1>5, <2>1, <2>3, <2>4 DEF Kept, Fine
<1>9. ASSUME ~Excused, p \in lapped PROVE Kept'
  <2>1. \A u \in Users : u \in lapped /\ ~Rotates(u) /\ ~Moving(u)
    <3>1. ASSUME NEW u \in Users, u \notin lapped PROVE FALSE
      BY <1>1, <1>4, <1>9, <3>1 DEF OnOwn
    <3>2. QED
      BY <1>9, <3>1 DEF Excused, Moving, Users
  <2>2. CASE Owed' = {}
    BY <1>3, <1>5, <2>1, <2>2 DEF Kept
  <2>3. CASE Owed' # {}
    <3>1. Owed' = Owed /\ Owed # {}
      BY <1>3, <1>9, <2>3
    <3>2. Opens /\ \A u \in Users : Sound(u)
      BY <1>1, <1>9, <2>1, <3>1 DEF Kept
    <3>3. Fine(p) /\ Sound(p) /\ ~Rotates(p)
      BY <1>4, <2>1, <3>2 DEF Fine
    <3>4. Fine(p)'
      BY <1>1, <3>3, OwnStep
    <3>5. ~Moving(p)'
      BY <3>3 DEF Moving, Rotates
    <3>6. Opens' /\ Sound(p)'
      BY <2>3, <3>4, <3>5 DEF Fine
    <3>7. Vault'.key = Vault.key
      BY <1>1, <2>3, <3>1, <3>2, <3>3, KeyStays
    <3>8. ASSUME NEW u \in Users, u # p PROVE Sound(u)'
      <4>1. u \in Command
        BY DEF Users
      <4>2. Here(u) \in {"copy", "away", "swap", "drop"} => Rotates(u)
        BY <1>1, <4>1, HereKnown
      <4>3. /\ u \in lapped /\ ~Rotates(u) /\ Sound(u) /\ Here(u)' = Here(u)
            /\ key'[u] = key[u] /\ db'[u] = db[u]
        BY <1>2, <1>3, <2>1, <3>2, <3>8, <4>1
      <4>4. QED
        BY <1>3, <3>1, <3>2, <3>6, <3>7, <4>1, <4>2, <4>3, OthersSound
    <3>9. QED
      BY <1>5, <2>3, <3>6, <3>8 DEF Kept
  <2>4. QED
    BY <2>2, <2>3
<1>10. QED
  BY <1>2, <1>6, <1>7, <1>8, <1>9 DEF KeptInv

(* Entering the vault: alone, or with everybody there then lapped.         *)
LEMMA SessionKeeps ==
  ASSUME KeptInv, plan' = plan, NEW p \in Command, Session(p),
         plan[p].does \in Invoked \cup {"gain", "reset", "rotate", "clean"}
  PROVE  KeptInv'
<1>1. Paths /\ OnOwn /\ (~Excused => Kept)
  BY DEF KeptInv
<1>2. /\ UNCHANGED <<dirs, key, db, due, cut>>
      /\ lapped' = IF Users = {} THEN lapped ELSE lapped \cup Users \cup {p}
  BY DEF Session
<1>3. /\ Paths' /\ Here(p)' \in {"dir", "clear"}
      /\ \A q \in Command : q # p => todo'[q] = todo[q] /\ Here(q)' = Here(q)
  BY <1>1, PathSteps, GotoMoves DEF Session, Rotates
<1>4. Users' \subseteq Users \cup {p} /\ Users \subseteq Command
  BY <1>3 DEF Users
<1>5. Sound(p)' /\ ~Moving(p)'
  BY <1>3 DEF Sound, Moving
<1>6. CASE Users = {}
  <2>1. OnOwn'
    BY <1>4, <1>6 DEF OnOwn
  <2>2. Excused' => Excused
    BY <1>2, <1>6 DEF Excused, Rotates
  <2>3. Kept => Kept'
    <3>1. Opens' <=> Opens
      BY <1>2, <1>6 DEF Opens, Owed, Vault
    <3>2. Owed' = Owed
      BY <1>2, <1>6 DEF Owed
    <3>3. Users' \subseteq {p}
      BY <1>4, <1>6
    <3>4. QED
      BY <1>5, <1>6, <3>1, <3>2, <3>3 DEF Kept
  <2>4. Excused => Excused'
    BY <1>2, <1>6 DEF Excused, Rotates
  <2>5. QED
    BY <1>1, <1>3, <2>1, <2>3, <2>4 DEF KeptInv
<1>7. CASE Users # {}
  <2>1. lapped \subseteq lapped' /\ Users' \subseteq lapped' /\ Users \subseteq lapped'
    BY <1>2, <1>4, <1>7
  <2>2. OnOwn'
    BY <2>1 DEF OnOwn
  <2>3. ASSUME ~Excused' PROVE Kept'
    <3>1. ~Excused /\ \A r \in Users : ~Rotates(r)
      BY <1>2, <1>4, <2>1, <2>3 DEF Excused, Rotates
    <3>2. \A r \in Users' : ~Moving(r)'
      BY <2>1, <2>3 DEF Excused, Moving, Rotates, Users
    <3>3. Owed' \subseteq Owed
      BY <1>2, <2>1 DEF Owed
    <3>4. CASE Owed' = {}
      BY <2>1, <3>4 DEF Kept
    <3>5. CASE Owed' # {}
      <4>1. Opens /\ \A u \in Users : Sound(u)
        BY <1>1, <3>1, <3>3, <3>5 DEF Kept, Moving
      <4>2. Opens'
        BY <1>2, <3>3, <4>1 DEF Opens, Vault
      <4>3. ASSUME NEW u \in Users, u # p PROVE Sound(u)'
        <5>1. Here(u)' = Here(u) /\ ~Rotates(u) /\ Sound(u) /\ u \in lapped'
          BY <1>3, <1>4, <2>1, <3>1, <4>1, <4>3
        <5>2. Vault' = Vault
          BY <1>2 DEF Vault
        <5>3. Here(u) \in {"copy", "away", "swap", "drop"} => Rotates(u)
          BY <1>1, <1>4, <4>3, HereKnown
        <5>4. QED
          BY <1>2, <3>3, <3>5, <5>1, <5>2, <5>3 DEF Sound, HoldsKey, Moving
      <4>4. QED
        BY <1>4, <1>5, <4>2, <4>3 DEF Kept
    <3>6. QED
      BY <3>4, <3>5
  <2>4. QED
    BY <1>3, <2>2, <2>3 DEF KeptInv
<1>8. QED
  BY <1>6, <1>7

(* A kill leaves the files as they are, and the others where they are.     *)
LEMMA KillKeeps ==
  ASSUME KeptInv, plan' = plan, NEW p \in Command, Kill(p)
  PROVE  KeptInv'
<1>1. Paths /\ OnOwn /\ (~Excused => Kept)
  BY DEF KeptInv
<1>2. /\ UNCHANGED <<dirs, key, db, due, lapped>> /\ Goto(p, <<>>)
      /\ cut' = (cut \/ Swapping(p))
  BY DEF Kill
<1>3. <<>> \in Path(Rotates(p)) /\ First(<<>>) = "none"
  BY NonePath DEF Rotates
<1>4. /\ Paths' /\ Here(p)' = "none"
      /\ \A q \in Command : q # p => todo'[q] = todo[q] /\ Here(q)' = Here(q)
  BY <1>1, <1>2, <1>3, GotoMoves
<1>5. Users' = Users \ {p} /\ Users \subseteq Command
  BY <1>1, <1>2, <1>4 DEF Users, Goto, Paths
<1>6. OnOwn'
  BY <1>1, <1>2, <1>5 DEF OnOwn
<1>7. ASSUME ~Excused' PROVE Kept'
  <2>1. ~Excused /\ ~Swapping(p)
    BY <1>2, <1>7 DEF Excused, Rotates
  <2>2. ~Moving(p)
    BY <1>1, <2>1, HereKnown DEF Swapping, Moving, Rotates, Word
  <2>3. \A u \in Users' : Here(u)' = Here(u) /\ u \in Users /\ u \in Command
    BY <1>4, <1>5
  <2>4. ASSUME NEW u \in Users' PROVE Moving(u)' <=> Moving(u)
    BY <1>2, <2>3 DEF Moving, Rotates, RotateKey
  <2>5. ASSUME NEW u \in Users' PROVE Sound(u)' <=> Sound(u)
    BY <1>2, <2>3, <2>4 DEF Sound, HoldsKey, Copied, Vault, Owed, RotateKey, BootKey
  <2>6. Owed' = Owed /\ (Opens' <=> Opens)
    BY <1>2 DEF Owed, Opens, Vault
  <2>7. Kept
    BY <1>1, <2>1
  <2>8. ASSUME NEW r \in Users, Moving(r) PROVE r \in Users' /\ Moving(r)'
    BY <1>5, <2>2, <2>4, <2>8
  <2>9. QED
    BY <1>2, <2>3, <2>5, <2>6, <2>7, <2>8 DEF Kept
<1>8. QED
  BY <1>4, <1>6, <1>7 DEF KeptInv

LEMMA KeptStays ==
  ASSUME KeptInv, UNCHANGED <<plan, vaultVars>>
  PROVE  KeptInv'
<1>1. UNCHANGED <<plan, dirs, todo, key, db, due, lapped, cut>>
  BY DEF vaultVars
<1>2. /\ Owed' = Owed /\ Users' = Users /\ (Excused' <=> Excused) /\ (Opens' <=> Opens)
      /\ Paths' /\ OnOwn'
  BY <1>1 DEF KeptInv, Owed, Users, Excused, Opens, Paths, OnOwn, Rotates, Vault
<1>3. \A u \in Users : Here(u)' = Here(u)
  BY <1>1 DEF Here
<1>4. \A u \in Users : Moving(u)' <=> Moving(u)
  BY <1>1, <1>3 DEF Moving, Rotates, RotateKey
<1>5. \A u \in Users : Sound(u)' <=> Sound(u)
  BY <1>1, <1>3, <1>4 DEF Sound, HoldsKey, Copied, Vault, Owed, RotateKey, BootKey
<1>6. Kept => Kept'
  BY <1>1, <1>2, <1>4, <1>5 DEF Kept
<1>7. QED
  BY <1>2, <1>6 DEF KeptInv

LEMMA KeptNext == TypeInv /\ KeptInv /\ [HostNext]_hostVars => KeptInv'
<1> SUFFICES ASSUME TypeInv, KeptInv, [HostNext]_hostVars PROVE KeptInv'
  OBVIOUS
<1>1. RunInv /\ VaultTyped
  BY DEF TypeInv
<1>2. CASE UNCHANGED hostVars
  BY <1>2, KeptStays DEF hostVars
<1>3. ASSUME NEW p \in Command, Proxy(p) \/ Finish(p) \/ Administered(p), plan' = plan
      PROVE  KeptInv'
  BY <1>3, KeptStays DEF Proxy, Finish, Administered
<1>4. ASSUME NEW p \in Command, InVault(p), plan' = plan PROVE KeptInv'
  BY <1>1, <1>4, VaultKeeps DEF InVault
<1>5. ASSUME NEW p \in Command, Record(p), plan' = plan PROVE KeptInv'
  <2>1. Proxied(p) /\ Session(p)
    BY <1>1, <1>5 DEF Record, RunInv, RunTyped, InPhase
  <2>2. QED
    BY <1>5, <2>1, SessionKeeps DEF Proxied
<1>6. ASSUME NEW p \in Command, Administers(p), plan' = plan PROVE KeptInv'
  BY <1>6, SessionKeeps DEF Administers
<1>7. QED
  BY <1>2, <1>3, <1>4, <1>5, <1>6, KillKeeps DEF HostNext

(* A command's row, once it was written, stays in a vault that opens with  *)
(* its key file, for any number of invocations and kills at any step; the  *)
(* ones excepted used the vault while another did, or a rotation was there *)
(* with others or killed between its renames and its key.                  *)
THEOREM RecordsCorrect == HostSpec => []RecordedIsKept
<1>1. HostInit => KeptInv
  <2> SUFFICES ASSUME HostInit PROVE KeptInv
    OBVIOUS
  <2>1. Users = {} /\ due = {}
    BY DEF HostInit, VaultInit, Users
  <2>2. Paths
    BY NonePath DEF HostInit, VaultInit, Paths, Rotates
  <2>3. QED
    BY <2>1, <2>2 DEF KeptInv, OnOwn, Kept, Owed
<1>2. TypeInv /\ KeptInv => RecordedIsKept
  <2> SUFFICES ASSUME KeptInv, ~cut, due \ lapped # {},
                      \A r \in Command : ~(Swapping(r) \/ (plan[r].does = "rotate" /\ r \in lapped))
               PROVE  Vault.there /\ Vault.sealed = Vault.key /\ due \ lapped \subseteq Vault.rows
    BY DEF RecordedIsKept
  <2>1. Paths /\ Kept
    BY DEF KeptInv, Excused, Rotates
  <2>2. ASSUME NEW r \in Users, Moving(r) PROVE FALSE
    <3>1. r \in Command /\ todo[r] # <<>>
      BY DEF Users
    <3>2. ~At(r, "away")
      BY <2>1, <2>2, <3>1, HereKnown DEF Moving, Word
    <3>3. Swapping(r)
      BY <2>2, <3>1, <3>2 DEF Swapping, Moving, Rotates
    <3>4. QED
      BY <3>1, <3>3
  <2>3. QED
    BY <2>1, <2>2 DEF Kept, Opens, Owed
<1>3. HostSpec => []KeptInv
  BY <1>1, TypeAlways, KeptNext, PTL DEF HostSpec
<1>4. QED
  BY <1>2, <1>3, TypeAlways, PTL

-----------------------------------------------------------------------------
(* The rules' states: buckets with different keys, and how many lines each *)
(* holds back; bucket 0 stands for the lines there was no room for.        *)
Buckets == [key : {KeyOf[l] : l \in Line}, lines : Seq(Line), more : Nat]

RuleState(st) ==
  /\ {"last", "count", "seen", "dropped"} \subseteq DOMAIN st
  /\ st.seen \in Seq(Buckets) /\ st.dropped \in Nat
  /\ \A i, j \in DOMAIN st.seen : st.seen[i].key = st.seen[j].key => i = j

Holds(st, b) == IF b = 0 THEN st.dropped
                ELSE IF b \in DOMAIN st.seen THEN Len(st.seen[b].lines) + st.seen[b].more
                ELSE 0

LEMMA GatheredPlaces ==
  ASSUME NEW st, RuleState(st)
  PROVE  /\ \A x : x \in Gathered(st) <=> \E b \in Nat : \E n \in 1 .. Holds(st, b) : x = <<b, n>>
         /\ \A b \in Nat : Holds(st, b) \in Nat
<1>1. /\ st.seen \in Seq(Buckets) /\ st.dropped \in Nat
      /\ DOMAIN st.seen \subseteq Nat \ {0}
  BY DEF RuleState
<1>2. \A b \in DOMAIN st.seen : Len(st.seen[b].lines) + st.seen[b].more \in Nat
  <2>1. ASSUME NEW b \in DOMAIN st.seen
        PROVE  Len(st.seen[b].lines) + st.seen[b].more \in Nat
    <3>1. st.seen[b] \in Buckets
      BY <1>1, <2>1
    <3>2. st.seen[b].lines \in Seq(Line) /\ st.seen[b].more \in Nat
      BY <3>1 DEF Buckets
    <3>3. QED
      BY <3>2
  <2>2. QED
    BY <2>1
<1>3. \A b \in Nat : Holds(st, b) \in Nat
  BY <1>1, <1>2 DEF Holds
<1>4. ASSUME NEW x, x \in Gathered(st)
      PROVE  \E b \in Nat : \E n \in 1 .. Holds(st, b) : x = <<b, n>>
  <2>1. CASE x \in {0} \X (1 .. st.dropped)
    <3>1. PICK n \in 1 .. st.dropped : x = <<0, n>>
      BY <2>1
    <3>2. Holds(st, 0) = st.dropped
      BY DEF Holds
    <3>3. QED
      BY <3>1, <3>2
  <2>2. CASE x \notin {0} \X (1 .. st.dropped)
    <3>1. PICK b \in DOMAIN st.seen :
            x \in {b} \X (1 .. Len(st.seen[b].lines) + st.seen[b].more)
      BY <1>4, <2>2 DEF Gathered
    <3>2. PICK n \in 1 .. Len(st.seen[b].lines) + st.seen[b].more : x = <<b, n>>
      BY <3>1
    <3>3. b \in Nat /\ Holds(st, b) = Len(st.seen[b].lines) + st.seen[b].more
      BY <1>1, <3>1 DEF Holds
    <3>4. QED
      BY <3>2, <3>3
  <2>3. QED
    BY <2>1, <2>2
<1>5. ASSUME NEW b \in Nat, NEW n \in 1 .. Holds(st, b)
      PROVE  <<b, n>> \in Gathered(st)
  <2>1. CASE b = 0
    BY <2>1, <1>5 DEF Holds, Gathered
  <2>2. CASE b # 0 /\ b \in DOMAIN st.seen
    <3>1. <<b, n>> \in {b} \X (1 .. Len(st.seen[b].lines) + st.seen[b].more)
      BY <1>5, <2>2 DEF Holds
    <3>2. QED
      BY <2>2, <3>1 DEF Gathered
  <2>3. CASE b # 0 /\ b \notin DOMAIN st.seen
    BY <1>5, <2>3 DEF Holds
  <2>4. QED
    BY <2>1, <2>2, <2>3
<1>6. QED
  BY <1>3, <1>4, <1>5

(* One bucket more, or one line more in it, holds back one line more.      *)
LEMMA GatheredMore ==
  ASSUME NEW old, RuleState(old), NEW new, RuleState(new), NEW b \in Nat,
         \A c \in Nat : c # b => Holds(new, c) = Holds(old, c),
         Holds(new, b) \in {Holds(old, b), Holds(old, b) + 1}
  PROVE  Gathered(new) \subseteq Gathered(old) \cup {<<b, Holds(old, b) + 1>>}
<1>1. ASSUME NEW x, x \in Gathered(new)
      PROVE  x \in Gathered(old) \cup {<<b, Holds(old, b) + 1>>}
  <2>0. PICK c \in Nat : \E n \in 1 .. Holds(new, c) : x = <<c, n>>
    BY <1>1, GatheredPlaces
  <2>1. PICK n \in 1 .. Holds(new, c) : x = <<c, n>>
    BY <2>0
  <2>2. Holds(old, c) \in Nat /\ Holds(new, c) \in Nat
    BY GatheredPlaces
  <2>3. n \in 1 .. Holds(old, c) \/ (c = b /\ n = Holds(old, b) + 1)
    BY <2>1, <2>2
  <2>4. n \in 1 .. Holds(old, c) => x \in Gathered(old)
    BY <2>1, GatheredPlaces
  <2>5. QED
    BY <2>1, <2>3, <2>4
<1>2. QED
  BY <1>1

LEMMA GatheredSame ==
  ASSUME NEW old, NEW new, new.seen = old.seen, new.dropped = old.dropped
  PROVE  Gathered(new) = Gathered(old)
BY DEF Gathered

(* A key's bucket is there after it was opened, once, and the others are   *)
(* what they were.                                                         *)
LEMMA OpenedBucket ==
  ASSUME NEW st, RuleState(st), NEW k \in {KeyOf[l] : l \in Line}
  PROVE  LET open == Opened(st, k)
         IN  /\ open \in Seq(Buckets)
             /\ \A i, j \in DOMAIN open : open[i].key = open[j].key => i = j
             /\ \E i \in DOMAIN open : open[i].key = k
             /\ \A i \in DOMAIN open :
                  \/ i \in DOMAIN st.seen /\ open[i] = st.seen[i]
                  \/ /\ i \notin DOMAIN st.seen /\ Bucket(st, k) = {}
                     /\ open[i] = [key |-> k, lines |-> <<>>, more |-> 0]
             /\ DOMAIN st.seen \subseteq DOMAIN open
             /\ Bucket(st, k) # {} => open = st.seen
<1>1. /\ st.seen \in Seq(Buckets)
      /\ \A i, j \in DOMAIN st.seen : st.seen[i].key = st.seen[j].key => i = j
  BY DEF RuleState
<1>2. CASE Bucket(st, k) # {}
  <2>1. Opened(st, k) = st.seen
    BY <1>2 DEF Opened
  <2>2. \E i \in DOMAIN st.seen : st.seen[i].key = k
    BY <1>2 DEF Bucket
  <2>3. QED
    BY <1>1, <2>1, <2>2
<1>3. CASE Bucket(st, k) = {}
  <2> DEFINE fresh == [key |-> k, lines |-> <<>>, more |-> 0]
             open == Append(st.seen, fresh)
  <2>1. fresh \in Buckets /\ fresh.key = k
    BY DEF Buckets
  <2>2. Opened(st, k) = open
    BY <1>3 DEF Opened
  <2>3. \A i \in DOMAIN st.seen : st.seen[i].key # k
    BY <1>3 DEF Bucket
  <2> HIDE DEF fresh
  <2>4. /\ open \in Seq(Buckets) /\ DOMAIN open = 1 .. Len(st.seen) + 1 /\ Len(st.seen) \in Nat
        /\ DOMAIN st.seen = 1 .. Len(st.seen)
        /\ \A i \in 1 .. Len(st.seen) : open[i] = st.seen[i]
        /\ open[Len(st.seen) + 1] = fresh
    BY <1>1, <2>1
  <2>5. \A i \in DOMAIN open : (i \in DOMAIN st.seen /\ open[i] = st.seen[i])
                               \/ (i = Len(st.seen) + 1 /\ open[i] = fresh)
    BY <2>4
  <2> HIDE DEF open
  <2>6. \A i, j \in DOMAIN open : open[i].key = open[j].key => i = j
    BY <1>1, <2>1, <2>3, <2>5
  <2>7. Len(st.seen) + 1 \in DOMAIN open /\ Len(st.seen) + 1 \notin DOMAIN st.seen
    BY <2>4
  <2>8. \A i \in DOMAIN open : \/ i \in DOMAIN st.seen /\ open[i] = st.seen[i]
                               \/ i \notin DOMAIN st.seen /\ open[i] = fresh
    BY <2>5, <2>7
  <2>9. (\E i \in DOMAIN open : open[i].key = k) /\ DOMAIN st.seen \subseteq DOMAIN open
    BY <2>1, <2>4, <2>7
  <2>10. QED
    BY <1>3, <2>2, <2>4, <2>6, <2>8, <2>9 DEF fresh
<1>4. QED
  BY <1>2, <1>3

(* What a rule does with a line: it keeps a state of its kind, and holds   *)
(* back at most one line more, and only one that it suppresses.            *)
Gathers(st, a) ==
  /\ RuleState(a.state)
  /\ a.answer # "suppress" => Gathered(a.state) = Gathered(st)
  /\ \E x : Gathered(a.state) \subseteq Gathered(st) \cup {x}

LEMMA GathersNone ==
  ASSUME NEW st, RuleState(st), NEW new, NEW answer, new.seen = st.seen, new.dropped = st.dropped,
         {"last", "count", "seen", "dropped"} \subseteq DOMAIN new
  PROVE  Gathers(st, Says(answer, new))
<1>1. RuleState(new)
  BY DEF RuleState
<1>2. Gathered(new) = Gathered(st)
  BY GatheredSame
<1>3. QED
  BY <1>1, <1>2 DEF Gathers, Says

LEMMA GathersDedup ==
  ASSUME NEW st, RuleState(st), NEW l \in Line, NEW rule
  PROVE  Gathers(st, ApplyDedup(rule, st, l))
<1> DEFINE k == KeyOf[l]
           open == Opened(st, k)
           seen == [i \in DOMAIN open |->
                      IF open[i].key # k THEN st.seen[i]
                      ELSE IF Bucket(st, k) = {} THEN [key |-> k, lines |-> <<l>>, more |-> 0]
                      ELSE [st.seen[i] EXCEPT !.more = @ + 1]]
           new == [st EXCEPT !.seen = seen]
<1>1. /\ {"last", "count", "seen", "dropped"} \subseteq DOMAIN st
      /\ st.seen \in Seq(Buckets) /\ st.dropped \in Nat
  BY DEF RuleState
<1>2. k \in {KeyOf[x] : x \in Line}
  OBVIOUS
<1>3. /\ open \in Seq(Buckets)
      /\ \A i, j \in DOMAIN open : open[i].key = open[j].key => i = j
      /\ \E i \in DOMAIN open : open[i].key = k
      /\ \A i \in DOMAIN open :
           \/ i \in DOMAIN st.seen /\ open[i] = st.seen[i]
           \/ /\ i \notin DOMAIN st.seen /\ Bucket(st, k) = {}
              /\ open[i] = [key |-> k, lines |-> <<>>, more |-> 0]
      /\ DOMAIN st.seen \subseteq DOMAIN open
      /\ Bucket(st, k) # {} => open = st.seen
  BY <1>2, OpenedBucket
<1> HIDE DEF open
<1>4. PICK b \in DOMAIN open : open[b].key = k
  BY <1>3
<1>5. \A i \in DOMAIN open : i # b => /\ i \in DOMAIN st.seen /\ seen[i] = st.seen[i]
                                      /\ open[i] = st.seen[i]
  BY <1>3, <1>4
<1>6. /\ Bucket(st, k) = {} => /\ b \notin DOMAIN st.seen
                               /\ seen[b] = [key |-> k, lines |-> <<l>>, more |-> 0]
      /\ Bucket(st, k) # {} => /\ b \in DOMAIN st.seen /\ st.seen[b].key = k
                               /\ seen[b] = [st.seen[b] EXCEPT !.more = @ + 1]
  BY <1>3, <1>4 DEF Bucket
<1>7. DOMAIN seen = DOMAIN open /\ DOMAIN open = 1 .. Len(open) /\ Len(open) \in Nat
  BY <1>3
<1> HIDE DEF seen
<1>8. \A i \in DOMAIN st.seen : /\ st.seen[i] \in Buckets /\ Len(st.seen[i].lines) \in Nat
                                /\ st.seen[i].more \in Nat
  <2>1. \A i \in DOMAIN st.seen : st.seen[i] \in Buckets
    BY <1>1
  <2>2. QED
    BY <2>1 DEF Buckets
<1>9. seen[b] \in Buckets /\ seen[b].key = k
  <2>1. CASE Bucket(st, k) = {}
    <3>1. seen[b] = [key |-> k, lines |-> <<l>>, more |-> 0]
      BY <1>6, <2>1
    <3>2. <<l>> \in Seq(Line) /\ 0 \in Nat
      OBVIOUS
    <3>3. [key |-> k, lines |-> <<l>>, more |-> 0] \in Buckets
      BY <1>2, <3>2, Zenon DEF Buckets
    <3>4. QED
      BY <3>1, <3>3
  <2>2. CASE Bucket(st, k) # {}
    BY <1>6, <1>8, <2>2 DEF Buckets
  <2>3. QED
    BY <2>1, <2>2
<1>10. \A i \in DOMAIN open : seen[i] \in Buckets /\ seen[i].key = open[i].key
  BY <1>4, <1>5, <1>8, <1>9
<1>11. seen \in Seq(Buckets)
  <2>1. seen \in [1 .. Len(open) -> Buckets]
    BY <1>7, <1>10 DEF seen
  <2>2. QED
    BY <1>7, <2>1
<1>12. new.seen = seen /\ new.dropped = st.dropped
       /\ {"last", "count", "seen", "dropped"} \subseteq DOMAIN new
  BY <1>1
<1> HIDE DEF new
<1>13. RuleState(new)
  BY <1>1, <1>3, <1>7, <1>10, <1>11, <1>12 DEF RuleState
<1>14. b \in Nat /\ b # 0
  BY <1>4, <1>7
<1>15. Holds(new, b) = Holds(st, b) + 1
  <2>1. CASE Bucket(st, k) = {}
    <3>1. Len(seen[b].lines) = 1 /\ seen[b].more = 0
      BY <1>6, <2>1
    <3>2. QED
      BY <1>4, <1>6, <1>7, <1>12, <1>14, <2>1, <3>1 DEF Holds
  <2>2. CASE Bucket(st, k) # {}
    <3>1. Len(seen[b].lines) = Len(st.seen[b].lines) /\ seen[b].more = st.seen[b].more + 1
      BY <1>6, <1>8, <2>2 DEF Buckets
    <3>2. Holds(new, b) = Len(seen[b].lines) + seen[b].more
      BY <1>4, <1>7, <1>12, <1>14 DEF Holds
    <3>3. Holds(st, b) = Len(st.seen[b].lines) + st.seen[b].more
      BY <1>6, <1>14, <2>2 DEF Holds
    <3>4. Len(st.seen[b].lines) \in Nat /\ st.seen[b].more \in Nat
      BY <1>6, <1>8, <2>2
    <3>5. Holds(new, b) = Len(st.seen[b].lines) + (st.seen[b].more + 1)
      BY <3>1, <3>2, Zenon
    <3>6. \A x, y \in Nat : x + (y + 1) = (x + y) + 1
      OBVIOUS
    <3>7. QED
      BY <3>3, <3>4, <3>5, <3>6, Zenon
  <2>3. QED
    BY <2>1, <2>2
<1>16. ASSUME NEW c \in Nat, c # b PROVE Holds(new, c) = Holds(st, c)
  <2>1. c \in DOMAIN open <=> c \in DOMAIN st.seen
    BY <1>3, <1>5, <1>16
  <2>2. c \in DOMAIN open => seen[c] = st.seen[c]
    BY <1>5, <1>16
  <2>3. QED
    BY <1>7, <1>12, <2>1, <2>2 DEF Holds
<1>17. Gathered(new) \subseteq Gathered(st) \cup {<<b, Holds(st, b) + 1>>}
  BY <1>13, <1>14, <1>15, <1>16, GatheredMore
<1>18. Gathers(st, Says("suppress", new))
  BY <1>13, <1>17 DEF Gathers, Says
<1>19. Gathers(st, Says("none", st))
  BY <1>1, GathersNone
<1>20. QED
  BY <1>18, <1>19 DEF ApplyDedup, new, seen, open
LEMMA GathersGroup ==
  ASSUME NEW st, RuleState(st), NEW l \in Line, NEW rule
  PROVE  Gathers(st, ApplyGroup(rule, st, l))
<1> DEFINE k == KeyOf[l]
           open == Opened(st, k)
           i == CHOOSE j \in DOMAIN open : open[j].key = k
           roomInKey == Len(open[i].lines) < rule.keep
           room == TotalKept(st) < rule.cap
           seen == CASE roomInKey /\ room  -> [open EXCEPT ![i].lines = Append(@, l)]
                     [] ~roomInKey /\ room -> [open EXCEPT ![i].more = @ + 1]
                     [] OTHER -> open
           new == [st EXCEPT !.seen = seen, !.dropped = IF room THEN @ ELSE @ + 1]
<1>1. /\ {"last", "count", "seen", "dropped"} \subseteq DOMAIN st
      /\ st.seen \in Seq(Buckets) /\ st.dropped \in Nat
  BY DEF RuleState
<1>2. k \in {KeyOf[x] : x \in Line}
  OBVIOUS
<1>3. /\ open \in Seq(Buckets)
      /\ \A x, y \in DOMAIN open : open[x].key = open[y].key => x = y
      /\ \E x \in DOMAIN open : open[x].key = k
      /\ \A x \in DOMAIN open :
           \/ x \in DOMAIN st.seen /\ open[x] = st.seen[x]
           \/ /\ x \notin DOMAIN st.seen /\ Bucket(st, k) = {}
              /\ open[x] = [key |-> k, lines |-> <<>>, more |-> 0]
      /\ DOMAIN st.seen \subseteq DOMAIN open
  BY <1>2, OpenedBucket
<1> HIDE DEF open
<1>4. i \in DOMAIN open
  BY <1>3
<1>5. DOMAIN open = 1 .. Len(open) /\ Len(open) \in Nat
  BY <1>3
<1> HIDE DEF i, roomInKey, room
<1>6. /\ DOMAIN seen = DOMAIN open /\ seen = [x \in DOMAIN open |-> seen[x]]
      /\ \A x \in DOMAIN open : x # i => seen[x] = open[x]
      /\ ~room => seen = open
      /\ roomInKey /\ room => seen[i] = [open[i] EXCEPT !.lines = Append(@, l)]
      /\ ~roomInKey /\ room => seen[i] = [open[i] EXCEPT !.more = @ + 1]
  <2>1. CASE roomInKey /\ room
    BY <1>3, <1>4, <2>1
  <2>2. CASE ~roomInKey /\ room
    BY <1>3, <1>4, <2>2
  <2>3. CASE ~room
    <3>1. seen = open
      BY <2>3
    <3>2. open = [x \in DOMAIN open |-> open[x]]
      BY <1>3
    <3> HIDE DEF seen
    <3>3. QED
      BY <2>3, <3>1, <3>2
  <2>4. QED
    BY <2>1, <2>2, <2>3
<1> HIDE DEF seen
<1>7. \A x \in DOMAIN open : open[x] \in Buckets
  BY <1>3
<1>8. open[i].lines \in Seq(Line) /\ Len(open[i].lines) \in Nat /\ open[i].more \in Nat
  <2>1. open[i].lines \in Seq(Line) /\ open[i].more \in Nat
    BY <1>4, <1>7 DEF Buckets
  <2>2. QED
    BY <2>1
<1>9. /\ seen[i] \in Buckets /\ seen[i].key = open[i].key
      /\ room => \/ Len(seen[i].lines) = Len(open[i].lines) + 1 /\ seen[i].more = open[i].more
                 \/ Len(seen[i].lines) = Len(open[i].lines) /\ seen[i].more = open[i].more + 1
  <2>1. CASE roomInKey /\ room
    <3>1. Append(open[i].lines, l) \in Seq(Line)
          /\ Len(Append(open[i].lines, l)) = Len(open[i].lines) + 1
      BY <1>8
    <3>2. QED
      BY <1>4, <1>6, <1>7, <2>1, <3>1 DEF Buckets
  <2>2. CASE ~roomInKey /\ room
    BY <1>4, <1>6, <1>7, <1>8, <2>2, SMTT(20) DEF Buckets
  <2>3. CASE ~room
    BY <1>4, <1>6, <1>7, <2>3
  <2>4. QED
    BY <2>1, <2>2, <2>3
<1>10. \A x \in DOMAIN open : seen[x] \in Buckets /\ seen[x].key = open[x].key
  BY <1>6, <1>7, <1>9
<1>11. seen \in Seq(Buckets)
  <2>1. seen = [x \in 1 .. Len(open) |-> seen[x]]
    BY <1>5, <1>6
  <2>2. seen \in [1 .. Len(open) -> Buckets]
    BY <1>5, <1>10, <2>1
  <2>3. QED
    BY <1>5, <2>2
<1>12. /\ new.seen = seen /\ new.dropped = IF room THEN st.dropped ELSE st.dropped + 1
       /\ {"last", "count", "seen", "dropped"} \subseteq DOMAIN new
  BY <1>1
<1> HIDE DEF new
<1>13. RuleState(new)
  <2>1. new.dropped \in Nat
    BY <1>1, <1>12
  <2>2. QED
    BY <1>3, <1>6, <1>10, <1>11, <1>12, <2>1 DEF RuleState
<1>14. i \in Nat /\ i # 0
  BY <1>4, <1>5
<1>15. \A x \in Nat : x # 0 => Holds(st, x) = IF x \in DOMAIN open
                                              THEN Len(open[x].lines) + open[x].more ELSE 0
  <2>1. ASSUME NEW x \in DOMAIN open, x \notin DOMAIN st.seen
        PROVE  Len(open[x].lines) + open[x].more = 0
    <3>1. open[x] = [key |-> k, lines |-> <<>>, more |-> 0]
      BY <1>3, <2>1
    <3>2. QED
      BY <3>1
  <2>2. \A x \in DOMAIN st.seen : open[x] = st.seen[x] /\ x \in DOMAIN open
    BY <1>3
  <2>3. QED
    BY <2>1, <2>2 DEF Holds
<1>16. \A x \in Nat : x # 0 => Holds(new, x) = IF x \in DOMAIN open
                                               THEN Len(seen[x].lines) + seen[x].more ELSE 0
  BY <1>6, <1>12 DEF Holds
<1>17. Holds(new, 0) = new.dropped /\ Holds(st, 0) = st.dropped
  BY DEF Holds
<1>18. \E x : Gathered(new) \subseteq Gathered(st) \cup {x}
  <2>1. CASE room
    <3>1. \A x \in Nat : x # i => Holds(new, x) = Holds(st, x)
      BY <1>6, <1>12, <1>15, <1>16, <1>17, <2>1
    <3>2. Holds(new, i) = Len(seen[i].lines) + seen[i].more
          /\ Holds(st, i) = Len(open[i].lines) + open[i].more
      BY <1>4, <1>14, <1>15, <1>16
    <3>3. Holds(new, i) = Holds(st, i) + 1
      <4>1. Len(seen[i].lines) + seen[i].more = (Len(open[i].lines) + open[i].more) + 1
        <5>1. \A x, y \in Nat : /\ (x + 1) + y = (x + y) + 1
                               /\ x + (y + 1) = (x + y) + 1
          OBVIOUS
        <5>2. QED
          BY <1>8, <1>9, <2>1, <5>1, Zenon
      <4>2. QED
        BY <3>2, <4>1, Zenon
    <3>4. Gathered(new) \subseteq Gathered(st) \cup {<<i, Holds(st, i) + 1>>}
      BY <1>13, <1>14, <3>1, <3>3, GatheredMore
    <3>5. QED
      BY <3>4
  <2>2. CASE ~room
    <3>1. \A x \in Nat : x # 0 => Holds(new, x) = Holds(st, x)
      BY <1>6, <1>15, <1>16, <2>2
    <3>2. Holds(new, 0) = Holds(st, 0) + 1
      BY <1>12, <1>17, <2>2
    <3>3. Gathered(new) \subseteq Gathered(st) \cup {<<0, Holds(st, 0) + 1>>}
      BY <1>13, <3>1, <3>2, GatheredMore
    <3>4. QED
      BY <3>3
  <2>3. QED
    BY <2>1, <2>2
<1>19. Gathers(st, Says("suppress", new))
  BY <1>13, <1>18 DEF Gathers, Says
<1>20. Gathers(st, Says("none", st))
  BY <1>1, GathersNone
<1>21. QED
  BY <1>19, <1>20 DEF ApplyGroup, new, seen, room, roomInKey, i, open

(* Whatever rule it is; the ones without buckets hold nothing back.        *)
LEMMA GathersAny ==
  ASSUME NEW rule \in Rule, NEW st, RuleState(st), NEW l \in Line
  PROVE  Gathers(st, Apply(rule, st, l))
<1>1. {"last", "count", "seen", "dropped"} \subseteq DOMAIN st
  BY DEF RuleState
<1>2. rule.type \in Stateless \cup Counting \cup Gathering
  BY DEF Rule
<1>3. CASE rule.type \in Stateless
  <2>1. \A answer : Gathers(st, Says(answer, st))
    BY <1>1, GathersNone
  <2>2. Apply(rule, st, l) = ApplyStateless(rule, st, l)
    BY <1>3 DEF Apply, Stateless
  <2>3. QED
    BY <2>1, <2>2 DEF ApplyStateless
<1>4. CASE rule.type = "repeats"
  <2>1. \A answer : /\ Gathers(st, Says(answer, [st EXCEPT !.last = KeyOf[l]]))
                    /\ Gathers(st, Says(answer, [st EXCEPT !.last = NoKey]))
    BY <1>1, GathersNone
  <2>2. Apply(rule, st, l) = ApplyRepeats(rule, st, l)
    BY <1>4 DEF Apply, Stateless
  <2>3. QED
    BY <2>1, <2>2 DEF ApplyRepeats
<1>5. CASE rule.type = "run"
  <2>1. \A answer : /\ Gathers(st, Says(answer, [st EXCEPT !.count = @ + 1]))
                    /\ Gathers(st, Says(answer, [st EXCEPT !.count = 0]))
                    /\ Gathers(st, Says(answer, st))
    BY <1>1, GathersNone
  <2>2. Apply(rule, st, l) = ApplyRun(rule, st, l)
    BY <1>5 DEF Apply, Stateless
  <2>3. QED
    BY <2>1, <2>2 DEF ApplyRun
<1>6. CASE rule.type = "prefix"
  <2>1. \A answer, n : /\ Gathers(st, Says(answer, [st EXCEPT !.last = KeyOf[l], !.count = n]))
                       /\ Gathers(st, Says(answer, [st EXCEPT !.last = NoKey, !.count = 0]))
    BY <1>1, GathersNone
  <2>2. Apply(rule, st, l) = ApplyPrefix(rule, st, l)
    BY <1>6 DEF Apply, Stateless
  <2>3. QED
    BY <2>1, <2>2 DEF ApplyPrefix
<1>7. CASE rule.type = "empty"
  <2>1. Gathers(st, Says("none", [st EXCEPT !.count = @ + 1]))
    BY <1>1, GathersNone
  <2>2. Apply(rule, st, l) = ApplyEmpty(rule, st, l)
    BY <1>7 DEF Apply, Stateless
  <2>3. QED
    BY <2>1, <2>2 DEF ApplyEmpty
<1>8. CASE rule.type = "dedup"
  BY <1>8, GathersDedup DEF Apply, Stateless
<1>9. CASE rule.type = "group"
  BY <1>9, GathersGroup DEF Apply, Stateless
<1>10. QED
  BY <1>2, <1>3, <1>4, <1>5, <1>6, <1>7, <1>8, <1>9 DEF Counting, Gathering

(* The places of all rules of an invocation.                               *)
Held(states) == UNION {{i} \X Gathered(states[i]) : i \in DOMAIN states}

StatesOK(rules, states) ==
  DOMAIN states = DOMAIN rules /\ \A i \in DOMAIN rules : RuleState(states[i])

LEMMA HeldMore ==
  ASSUME NEW old, NEW new, DOMAIN new = DOMAIN old, NEW b, NEW x,
         \A i \in DOMAIN old : i # b => Gathered(new[i]) = Gathered(old[i]),
         b \in DOMAIN old => Gathered(new[b]) \subseteq Gathered(old[b]) \cup {x}
  PROVE  Held(new) \subseteq Held(old) \cup {<<b, x>>}
<1>1. ASSUME NEW i \in DOMAIN old, NEW g \in Gathered(new[i])
      PROVE  <<i, g>> \in Held(old) \cup {<<b, x>>}
  <2>1. g \in Gathered(old[i]) \/ <<i, g>> = <<b, x>>
    BY <1>1
  <2>2. QED
    BY <2>1 DEF Held
<1>2. QED
  BY <1>1 DEF Held

LEMMA HeldSame ==
  ASSUME NEW old, NEW new, DOMAIN new = DOMAIN old,
         \A i \in DOMAIN old : Gathered(new[i]) = Gathered(old[i])
  PROVE  Held(new) = Held(old)
BY DEF Held

(* One rule answers at most, and the rules behind it do not see the line:   *)
(* one place more at most, and only for a line that is suppressed.          *)
LEMMA FilterHolds ==
  ASSUME NEW rules \in Seq(Rule), NEW states, StatesOK(rules, states), NEW l \in Line
  PROVE  /\ StatesOK(rules, Filter(rules, states, l).state)
         /\ \E x : Held(Filter(rules, states, l).state) \subseteq Held(states) \cup {x}
         /\ Filter(rules, states, l).answer # "suppress" =>
              Held(Filter(rules, states, l).state) = Held(states)
<1> DEFINE says == [i \in DOMAIN rules |-> Apply(rules[i], states[i], l)]
           answers == {i \in DOMAIN rules : says[i].answer # "none"}
           reached == {i \in DOMAIN rules : \A j \in answers : i <= j}
           new == [i \in DOMAIN rules |-> IF i \in reached THEN says[i].state ELSE states[i]]
           answer == IF answers = {} THEN "none"
                     ELSE says[CHOOSE i \in answers : i \in reached].answer
<1>1. Filter(rules, states, l).state = new /\ Filter(rules, states, l).answer = answer
  BY DEF Filter, Says
<1>2. DOMAIN rules \subseteq Nat /\ \A i \in DOMAIN rules : rules[i] \in Rule
  OBVIOUS
<1>3. DOMAIN states = DOMAIN rules /\ \A i \in DOMAIN rules : RuleState(states[i])
  BY DEF StatesOK
<1>4. \A i \in DOMAIN rules : Gathers(states[i], says[i])
  BY <1>2, <1>3, GathersAny
<1>5. DOMAIN new = DOMAIN rules
      /\ \A i \in DOMAIN rules : new[i] = IF i \in reached THEN says[i].state ELSE states[i]
  OBVIOUS
<1>6. \A i \in reached, j \in answers : i \in DOMAIN rules /\ j \in DOMAIN rules /\ i <= j
  OBVIOUS
<1>7. \A i \in reached : i \in answers \/ says[i].answer = "none"
  OBVIOUS
<1>8. ASSUME NEW b \in answers, b \in reached
      PROVE  answer = says[b].answer
  <2>1. \A i \in answers : i \in reached => i = b
    BY <1>2, <1>6, <1>8
  <2>2. b = CHOOSE i \in answers : i \in reached
    BY <1>8, <2>1
  <2>3. QED
    BY <1>8, <2>2
<1> HIDE DEF says, answers, reached, new, answer
<1>9. StatesOK(rules, new)
  BY <1>3, <1>4, <1>5 DEF StatesOK, Gathers
<1>10. \A i \in DOMAIN rules : ~(i \in answers /\ i \in reached) =>
         Gathered(new[i]) = Gathered(states[i])
  <2>1. ASSUME NEW i \in DOMAIN rules, i \in reached, i \notin answers
        PROVE  Gathered(new[i]) = Gathered(states[i])
    BY <1>4, <1>5, <1>7, <2>1 DEF Gathers
  <2>2. QED
    BY <1>5, <2>1
<1>11. (\E x : Held(new) \subseteq Held(states) \cup {x})
       /\ (answer # "suppress" => Held(new) = Held(states))
  <2>1. CASE \E b \in answers : b \in reached
    <3>1. PICK b \in answers : b \in reached
      BY <2>1
    <3>2. b \in DOMAIN rules
      BY <1>6, <3>1
    <3>3. \A i \in DOMAIN rules : i # b => Gathered(new[i]) = Gathered(states[i])
      BY <1>2, <1>6, <1>10, <3>1
    <3>4. PICK x : Gathered(says[b].state) \subseteq Gathered(states[b]) \cup {x}
      BY <1>4, <3>2 DEF Gathers
    <3>5. Held(new) \subseteq Held(states) \cup {<<b, x>>}
      BY <1>3, <1>5, <3>1, <3>3, <3>4, HeldMore
    <3>6. ASSUME answer # "suppress" PROVE Held(new) = Held(states)
      <4>1. Gathered(new[b]) = Gathered(states[b])
        BY <1>4, <1>5, <1>8, <3>1, <3>2, <3>6 DEF Gathers
      <4>2. QED
        BY <1>3, <1>5, <3>3, <4>1, HeldSame
    <3>7. QED
      BY <3>5, <3>6
  <2>2. CASE ~\E b \in answers : b \in reached
    <3>1. Held(new) = Held(states)
      BY <1>3, <1>5, <1>10, <2>2, HeldSame
    <3>2. QED
      BY <3>1
  <2>3. QED
    BY <2>1, <2>2
<1>12. QED
  BY <1>1, <1>9, <1>11

-----------------------------------------------------------------------------
(* The pipeline's variables hold states of its rules, and a line that is    *)
(* received leaves them so.                                                 *)
Locals == {"phase", "code", "blanks", "states", "over", "spent"}

LocalsOK(p, r) ==
  Locals \subseteq DOMAIN r /\ r.blanks \in Nat /\ StatesOK(plan[p].rules, r.states)

LEMMA TreatHolds ==
  ASSUME NEW p, plan[p].rules \in Seq(Rule), LocalsOK(p, run[p]), NEW t, t.line \in Line
  PROVE  /\ LocalsOK(p, Treat(p, t).r)
         /\ \E x : Held(Treat(p, t).r.states) \subseteq Held(run[p].states) \cup {x}
         /\ Treat(p, t).fate # "suppressed" =>
              Held(Treat(p, t).r.states) = Held(run[p].states)
<1> DEFINE r == run[p]
           blanks == IF t.line \in Blank THEN r.blanks + 1 ELSE 0
           said == Filter(plan[p].rules, r.states, t.line)
           width == IF said.answer = "short" THEN 1 ELSE Width[t.line]
           seen == [r EXCEPT !.blanks = blanks, !.states = said.state]
           Treated(d) == /\ LocalsOK(p, d.r)
                         /\ \E x : Held(d.r.states) \subseteq Held(r.states) \cup {x}
                         /\ d.fate # "suppressed" => Held(d.r.states) = Held(r.states)
<1>1. Locals \subseteq DOMAIN r /\ r.blanks \in Nat /\ StatesOK(plan[p].rules, r.states)
  BY DEF LocalsOK
<1>2. blanks \in Nat
  BY <1>1
<1>3. /\ StatesOK(plan[p].rules, said.state)
      /\ \E x : Held(said.state) \subseteq Held(r.states) \cup {x}
      /\ said.answer # "suppress" => Held(said.state) = Held(r.states)
  BY <1>1, FilterHolds
<1>4. Treat(p, t) =
        CASE t.line \in Unreadable -> [fate |-> "unreadable", r |-> r]
          [] t.line \notin Unreadable /\ blanks > 1 ->
               [fate |-> "blank", r |-> [r EXCEPT !.blanks = blanks]]
          [] t.line \notin Unreadable /\ blanks <= 1 /\ said.answer = "suppress" ->
               [fate |-> "suppressed", r |-> seen]
          [] OTHER ->
               IF r.over \/ r.spent + width > plan[p].budget
               THEN [fate |-> "elided", r |-> [seen EXCEPT !.over = TRUE]]
               ELSE [fate |-> "shown", r |-> [seen EXCEPT !.spent = @ + width]]
  BY DEF Treat
<1> HIDE DEF r, blanks, said, width
<1>5. /\ Locals \subseteq DOMAIN seen /\ seen.blanks = blanks /\ seen.states = said.state
      /\ \A x : /\ Locals \subseteq DOMAIN [seen EXCEPT !.over = x]
                /\ [seen EXCEPT !.over = x].blanks = blanks
                /\ [seen EXCEPT !.over = x].states = said.state
                /\ Locals \subseteq DOMAIN [seen EXCEPT !.spent = x]
                /\ [seen EXCEPT !.spent = x].blanks = blanks
                /\ [seen EXCEPT !.spent = x].states = said.state
  BY <1>1 DEF Locals
<1> HIDE DEF seen
<1>6. CASE t.line \in Unreadable
  <2>1. Treated([fate |-> "unreadable", r |-> r])
    BY <1>1 DEF LocalsOK
  <2>2. QED
    BY <1>4, <1>6, <2>1 DEF r
<1>7. CASE t.line \notin Unreadable /\ blanks > 1
  <2>1. /\ Locals \subseteq DOMAIN [r EXCEPT !.blanks = blanks]
        /\ [r EXCEPT !.blanks = blanks].blanks = blanks
        /\ [r EXCEPT !.blanks = blanks].states = r.states
    BY <1>1 DEF Locals
  <2>2. Treated([fate |-> "blank", r |-> [r EXCEPT !.blanks = blanks]])
    BY <1>1, <1>2, <2>1 DEF LocalsOK
  <2>3. Treat(p, t) = [fate |-> "blank", r |-> [r EXCEPT !.blanks = blanks]]
    BY <1>2, <1>4, <1>7
  <2>4. QED
    BY <2>2, <2>3 DEF r
<1>8. CASE t.line \notin Unreadable /\ blanks <= 1 /\ said.answer = "suppress"
  <2>1. Treated([fate |-> "suppressed", r |-> seen])
    BY <1>2, <1>3, <1>5 DEF LocalsOK
  <2>2. Treat(p, t) = [fate |-> "suppressed", r |-> seen]
    BY <1>2, <1>4, <1>8
  <2>3. QED
    BY <2>1, <2>2 DEF r
<1>9. CASE t.line \notin Unreadable /\ blanks <= 1 /\ said.answer # "suppress"
  <2>1. /\ Treated([fate |-> "elided", r |-> [seen EXCEPT !.over = TRUE]])
        /\ \A x : Treated([fate |-> "shown", r |-> [seen EXCEPT !.spent = x]])
    BY <1>2, <1>3, <1>5, <1>9 DEF LocalsOK
  <2>2. \/ Treat(p, t) = [fate |-> "elided", r |-> [seen EXCEPT !.over = TRUE]]
        \/ Treat(p, t) = [fate |-> "shown", r |-> [seen EXCEPT !.spent = @ + width]]
    BY <1>2, <1>4, <1>9
  <2>3. Treated(Treat(p, t))
    BY <2>1, <2>2
  <2>4. QED
    BY <2>3 DEF r
<1>10. QED
  BY <1>2, <1>6, <1>7, <1>8, <1>9

-----------------------------------------------------------------------------
(* The lines an invocation has from its readers, in the order they came,    *)
(* whether the pipeline took them or not: receiving moves none.             *)
Taken(p) == Len(fates[p]) + Len(chan[p])
Flow(p) == [i \in 1 .. Taken(p) |->
              IF i <= Len(fates[p]) THEN fates[p][i].line ELSE chan[p][i - Len(fates[p])]]

(* How many of the first k lines are of one stream.                        *)
Nums(flow, s, k) == Cardinality({i \in 1 .. k : flow[i].from = s})

Item == [from : Streams, n : Nat, line : Line]
Fates == {"unreadable", "blank", "suppressed", "elided", "shown", "digested", "forwarded", "lost"}

LinesTyped(p) ==
  /\ child[p].left \in [Streams -> Seq(Line)]
  /\ pipe[p] \in [Streams -> Seq(Item)]
  /\ chan[p] \in Seq(Item)
  /\ fates[p] \in Seq([line : Item, fate : Fates])
  /\ Locals \subseteq DOMAIN run[p]

(* The phases in which nothing has become of any line.                      *)
Before == {"off", "again", "reading", "collecting", "scanning"}

(* Every place the rules hold is one suppressed line's.                    *)
HeldOK(p) ==
  /\ IsFiniteSet(HeldBack(p))
  /\ Cardinality(HeldBack(p)) <= Cardinality(Suppressed(p))
  /\ run[p].phase \in Before => fates[p] = <<>>
  /\ InPhase(p, "piping") => LocalsOK(p, run[p])

(* The numbers of a stream's lines count up along the flow and go on in its *)
(* pipe, up to the ones the child has yet to print.                         *)
Counts(p, s, k) ==
  /\ \A i \in DOMAIN pipe[p][s] : pipe[p][s][i].from = s /\ pipe[p][s][i].n = k + i
  /\ k + Len(pipe[p][s]) + Len(child[p].left[s]) = Len(plan[p].prints[s])

FlowOK(p) ==
  /\ \A i \in 1 .. Taken(p) : Flow(p)[i].n = Nums(Flow(p), Flow(p)[i].from, i)
  /\ \A s \in Streams : Counts(p, s, Nums(Flow(p), s, Taken(p)))

(* Nothing is left to be read of a stream, or nothing that will be.        *)
Drained(p, s) == pipe[p][s] = <<>> \/ (s = "stderr" /\ StopsAt(p, s))

(* The invocation got to the end of the output, or gave up at a line.      *)
Settled(p) ==
  child[p].status # "running" /\ chan[p] = <<>> /\ \A s \in Streams : Drained(p, s)

Quit(p) ==
  /\ StopsAt(p, "stdout") /\ code[p] = Failed /\ chan[p] = <<>>
  /\ \A i \in DOMAIN fates[p] :
       fates[p][i].fate = IF fates[p][i].line.from = "stdout" THEN "lost" ELSE "forwarded"

(* A reader that ended leaves nothing that will be read, a child that was   *)
(* not started has printed nothing, and the main thread takes the outcome   *)
(* when both readers have ended.                                            *)
EndOK(p) ==
  /\ run[p].phase \in Childless =>
       /\ child[p].status = "none" /\ chan[p] = <<>> /\ child[p].left = plan[p].prints
       /\ \A s \in Streams : pipe[p][s] = <<>>
  /\ run[p].phase \in Reading =>
       \A s \in Streams : s \notin readers[p] =>
         (pipe[p][s] = <<>> /\ s \notin child[p].open) \/ (s = "stderr" /\ StopsAt(p, s))
  /\ InPhase(p, "waiting") => chan[p] = <<>> /\ readers[p] = {}
  /\ run[p].phase \in {"waited", "stats"} => Settled(p)
  /\ InPhase(p, "exited") /\ Proxied(p) =>
       code[p] = Panic \/ Quit(p) \/ (Settled(p) /\ code[p] = OwnCode(p))
  /\ ~Proxied(p) => code[p] = NoCode

OutShape ==
  /\ pipe = [p \in Command |-> pipe[p]]
  /\ chan = [p \in Command |-> chan[p]]
  /\ fates = [p \in Command |-> fates[p]]

OutOK(p) == LinesTyped(p) /\ HeldOK(p) /\ FlowOK(p) /\ EndOK(p)

OutInv == OutShape /\ \A p \in Command : OutOK(p)

LEMMA PlanTypes ==
  ASSUME plan \in Plans, NEW p \in Command
  PROVE  /\ plan[p].rules \in Seq(Rule)
         /\ plan[p].prints \in [Streams -> Seq(Line)]
<1>1. plan[p] \in Program
  BY ProxyAssumption
<1>2. QED
  BY <1>1 DEF Program

LEMMA NumsType ==
  ASSUME NEW flow, NEW s, NEW k \in Nat
  PROVE  Nums(flow, s, k) \in Nat
<1>1. IsFiniteSet(1 .. k)
  BY FS_Interval
<1>2. IsFiniteSet({i \in 1 .. k : flow[i].from = s})
  BY <1>1, FS_Subset
<1>3. QED
  BY <1>2, FS_CardinalityType DEF Nums

LEMMA NumsSame ==
  ASSUME NEW flow, NEW other, NEW s, NEW k,
         \A i \in 1 .. k : other[i].from = flow[i].from
  PROVE  Nums(other, s, k) = Nums(flow, s, k)
<1>1. {i \in 1 .. k : other[i].from = s} = {i \in 1 .. k : flow[i].from = s}
  OBVIOUS
<1>2. QED
  BY <1>1 DEF Nums

LEMMA NumsNext ==
  ASSUME NEW flow, NEW s, NEW k \in Nat
  PROVE  Nums(flow, s, k + 1) = IF flow[k + 1].from = s THEN Nums(flow, s, k) + 1
                                                        ELSE Nums(flow, s, k)
<1> DEFINE old == {i \in 1 .. k : flow[i].from = s}
           new == {i \in 1 .. k + 1 : flow[i].from = s}
<1>1. IsFiniteSet(1 .. k)
  BY FS_Interval
<1>2. IsFiniteSet(old)
  BY <1>1, FS_Subset
<1>3. k + 1 \notin old
  OBVIOUS
<1>4. CASE flow[k + 1].from = s
  <2>1. new = old \cup {k + 1}
    BY <1>4
  <2>2. Cardinality(old \cup {k + 1}) = Cardinality(old) + 1
    BY <1>2, <1>3, FS_AddElement
  <2>3. QED
    BY <1>4, <2>1, <2>2 DEF Nums
<1>5. CASE flow[k + 1].from # s
  <2>1. new = old
    BY <1>5
  <2>2. QED
    BY <1>5, <2>1 DEF Nums
<1>6. QED
  BY <1>4, <1>5

(* What stays of an invocation whose lines do, as far as it was read.      *)
LEMMA FlowStays ==
  ASSUME NEW p, plan' = plan, FlowOK(p), Flow(p)' = Flow(p), Taken(p)' = Taken(p),
         pipe'[p] = pipe[p], child'[p].left = child[p].left
  PROVE  FlowOK(p)'
BY DEF FlowOK, Counts

LEMMA HeldStays ==
  ASSUME NEW p, plan' = plan, HeldOK(p), fates'[p] = fates[p],
         run'[p].states = run[p].states,
         \/ run'[p] = run[p]
         \/ run'[p].phase # "piping" /\ (run'[p].phase \in Before => fates[p] = <<>>)
  PROVE  HeldOK(p)'
<1>1. HeldBack(p)' = HeldBack(p) /\ Suppressed(p)' = Suppressed(p)
  BY DEF HeldBack, Suppressed
<1>2. QED
  BY <1>1 DEF HeldOK, InPhase, LocalsOK

(* An invocation whose lines stay, and whose variables but for its phase.   *)
LEMMA QuietKeeps ==
  ASSUME NEW p, plan' = plan, OutOK(p), pipe'[p] = pipe[p], chan'[p] = chan[p],
         fates'[p] = fates[p], child'[p].left = child[p].left,
         Locals \subseteq DOMAIN run'[p], run'[p].states = run[p].states,
         \/ run'[p] = run[p]
         \/ run'[p].phase # "piping" /\ (run'[p].phase \in Before => fates[p] = <<>>),
         EndOK(p)'
  PROVE  OutOK(p)'
<1>1. Flow(p)' = Flow(p) /\ Taken(p)' = Taken(p)
  BY DEF Flow, Taken
<1>2. FlowOK(p)'
  BY <1>1, FlowStays DEF OutOK
<1>3. HeldOK(p)'
  BY HeldStays DEF OutOK
<1>4. LinesTyped(p)'
  BY DEF OutOK, LinesTyped
<1>5. QED
  BY <1>2, <1>3, <1>4 DEF OutOK

(* What is another invocation's is not seen.                               *)
Untouched(q) ==
  /\ child'[q] = child[q] /\ pipe'[q] = pipe[q] /\ readers'[q] = readers[q]
  /\ chan'[q] = chan[q] /\ run'[q] = run[q] /\ fates'[q] = fates[q] /\ code'[q] = code[q]

LEMMA OutOthers ==
  ASSUME NEW q, plan' = plan, OutOK(q), Untouched(q)
  PROVE  OutOK(q)'
<1>1. EndOK(q)'
  BY DEF OutOK, EndOK, Untouched, InPhase, Proxied, Settled, Drained, Quit, StopsAt, OwnCode,
         ChildCode, NotText
<1>2. QED
  BY <1>1, QuietKeeps DEF Untouched, OutOK, LinesTyped

LEMMA OutMoves ==
  ASSUME OutInv, plan' = plan, NEW p \in Command, OutShape',
         \A q \in Command : q # p => Untouched(q), OutOK(p)'
  PROVE  OutInv'
<1>1. ASSUME NEW q \in Command, q # p PROVE OutOK(q)'
  BY <1>1, OutOthers DEF OutInv
<1>2. QED
  BY <1>1 DEF OutInv

(* The next line of a pipe is read, and the child adds one.                *)
LEMMA CountsRead ==
  ASSUME NEW p, NEW s, NEW k \in Nat, Counts(p, s, k), plan' = plan,
         pipe[p][s] \in Seq(Item), child[p].left[s] \in Seq(Line), pipe[p][s] # <<>>,
         pipe'[p][s] = Tail(pipe[p][s]), child'[p].left = child[p].left
  PROVE  Counts(p, s, k + 1)'
<1>1. PICK a \in Nat : a = Len(pipe[p][s])
  OBVIOUS
<1>2. PICK b \in Nat : b = Len(child[p].left[s])
  OBVIOUS
<1>3. k + a + b = Len(plan[p].prints[s])
  BY <1>1, <1>2 DEF Counts
<1>4. /\ a # 0 /\ Len(Tail(pipe[p][s])) = a - 1
      /\ \A i \in 1 .. a - 1 : Tail(pipe[p][s])[i] = pipe[p][s][i + 1]
      /\ DOMAIN Tail(pipe[p][s]) = 1 .. a - 1
      /\ DOMAIN pipe[p][s] = 1 .. a
  BY <1>1
<1>5. ASSUME NEW i \in 1 .. a - 1
      PROVE  Tail(pipe[p][s])[i].from = s /\ Tail(pipe[p][s])[i].n = (k + 1) + i
  <2>1. i + 1 \in 1 .. a /\ k + (i + 1) = (k + 1) + i
    OBVIOUS
  <2>2. pipe[p][s][i + 1].from = s /\ pipe[p][s][i + 1].n = k + (i + 1)
    BY <1>4, <2>1 DEF Counts
  <2>3. QED
    BY <1>4, <2>1, <2>2
<1>6. (k + 1) + (a - 1) + b = k + a + b
  OBVIOUS
<1>7. (k + 1) + Len(pipe'[p][s]) + Len(child'[p].left[s]) = Len(plan'[p].prints[s])
  BY <1>2, <1>3, <1>4, <1>6
<1>8. \A i \in DOMAIN pipe'[p][s] : pipe'[p][s][i].from = s /\ pipe'[p][s][i].n = (k + 1) + i
  BY <1>4, <1>5
<1>9. QED
  BY <1>7, <1>8 DEF Counts

LEMMA CountsPrinted ==
  ASSUME NEW p, NEW s, NEW k \in Nat, Counts(p, s, k), plan' = plan,
         pipe[p][s] \in Seq(Item), child[p].left[s] \in Seq(Line), child[p].left[s] # <<>>,
         NEW x \in Item, x.from = s, x.n = Len(plan[p].prints[s]) - Len(child[p].left[s]) + 1,
         pipe'[p][s] = Append(pipe[p][s], x), child'[p].left[s] = Tail(child[p].left[s])
  PROVE  Counts(p, s, k)'
<1>1. PICK a \in Nat : a = Len(pipe[p][s])
  OBVIOUS
<1>2. PICK b \in Nat : b = Len(child[p].left[s])
  OBVIOUS
<1>3. k + a + b = Len(plan[p].prints[s])
  BY <1>1, <1>2 DEF Counts
<1>4. Len(Tail(child[p].left[s])) = b - 1
  BY <1>2
<1>5. /\ Len(Append(pipe[p][s], x)) = a + 1 /\ Append(pipe[p][s], x)[a + 1] = x
      /\ \A i \in 1 .. a : Append(pipe[p][s], x)[i] = pipe[p][s][i]
      /\ DOMAIN Append(pipe[p][s], x) = 1 .. a + 1
      /\ DOMAIN pipe[p][s] = 1 .. a
  BY <1>1
<1>6. x.n = k + (a + 1)
  <2>1. x.n = (k + a + b) - b + 1
    BY <1>2, <1>3
  <2>2. (k + a + b) - b + 1 = k + (a + 1)
    OBVIOUS
  <2>3. QED
    BY <2>1, <2>2
<1>7. ASSUME NEW i \in 1 .. a + 1
      PROVE  Append(pipe[p][s], x)[i].from = s /\ Append(pipe[p][s], x)[i].n = k + i
  <2>1. i \in 1 .. a \/ i = a + 1
    OBVIOUS
  <2>2. QED
    BY <1>5, <1>6, <2>1 DEF Counts
<1>8. k + (a + 1) + (b - 1) = k + a + b
  OBVIOUS
<1>9. k + Len(pipe'[p][s]) + Len(child'[p].left[s]) = Len(plan'[p].prints[s])
  BY <1>3, <1>4, <1>5, <1>8
<1>10. \A i \in DOMAIN pipe'[p][s] : pipe'[p][s][i].from = s /\ pipe'[p][s][i].n = k + i
  BY <1>5, <1>7
<1>11. QED
  BY <1>9, <1>10 DEF Counts

(* A reader thread moves the next line of its pipe to the end of the flow. *)
LEMMA FlowReads ==
  ASSUME NEW p, plan' = plan, LinesTyped(p), FlowOK(p), NEW s \in Streams, pipe[p][s] # <<>>,
         chan'[p] = Append(chan[p], Head(pipe[p][s])),
         pipe'[p] = [pipe[p] EXCEPT ![s] = Tail(@)],
         fates'[p] = fates[p], child'[p].left = child[p].left
  PROVE  FlowOK(p)'
<1>1. PICK x, n, old, new : /\ x = Head(pipe[p][s]) /\ n = Taken(p)
                           /\ old = Flow(p) /\ new = Flow(p)'
  OBVIOUS
<1>2. /\ chan[p] \in Seq(Item) /\ Len(fates[p]) \in Nat /\ Len(chan[p]) \in Nat
      /\ pipe[p] \in [Streams -> Seq(Item)] /\ pipe[p][s] \in Seq(Item)
  BY DEF LinesTyped
<1>3. x \in Item /\ x = pipe[p][s][1] /\ 1 \in DOMAIN pipe[p][s]
  BY <1>1, <1>2
<1>4. PICK more : more = Append(chan[p], x)
  OBVIOUS
<1>5. PICK a \in Nat, b \in Nat : a = Len(fates[p]) /\ b = Len(chan[p])
  BY <1>2
<1>6. n = a + b /\ Taken(p)' = n + 1
  <2>1. Len(more) = b + 1
    BY <1>2, <1>3, <1>5, <1>4
  <2>2. Taken(p)' = Len(fates[p]) + Len(more)
    BY <1>1, <1>4 DEF Taken
  <2>3. n = a + b
    BY <1>1, <1>5 DEF Taken
  <2>4. Taken(p)' = a + (b + 1)
    BY <1>5, <2>1, <2>2
  <2>5. QED
    BY <2>3, <2>4
<1>7. more[b + 1] = x /\ \A i \in 1 .. b : more[i] = chan[p][i]
  BY <1>2, <1>3, <1>5, <1>4
<1>8. /\ new = [i \in 1 .. n + 1 |-> IF i <= a THEN fates[p][i].line ELSE more[i - a]]
      /\ old = [i \in 1 .. n |-> IF i <= a THEN fates[p][i].line ELSE chan[p][i - a]]
  BY <1>1, <1>5, <1>6, <1>4 DEF Flow
<1>9. new[n + 1] = x
  <2>1. n + 1 \in 1 .. n + 1 /\ ~(n + 1 <= a) /\ (n + 1) - a = b + 1
    BY <1>6
  <2>2. QED
    BY <1>7, <1>8, <2>1
<1>10. ASSUME NEW i \in 1 .. n PROVE new[i] = old[i]
  <2>1. i \in 1 .. n + 1 /\ (~(i <= a) => i - a \in 1 .. b)
    BY <1>6
  <2>2. QED
    BY <1>7, <1>8, <2>1
<1>11. n \in Nat /\ Taken(p)' = n + 1 /\ n \in 0 .. n
  BY <1>6
<1>12. /\ \A i \in 1 .. n : old[i].n = Nums(old, old[i].from, i)
       /\ \A t \in Streams : Counts(p, t, Nums(old, t, n))
  BY <1>1 DEF FlowOK
<1>13. x.from = s /\ x.n = Nums(old, s, n) + 1
  BY <1>3, <1>12 DEF Counts
<1>14. \A t, i : i \in 0 .. n => Nums(new, t, i) = Nums(old, t, i)
  <2>1. ASSUME NEW t, NEW i \in 0 .. n PROVE Nums(new, t, i) = Nums(old, t, i)
    <3>1. \A j \in 1 .. i : new[j].from = old[j].from
      BY <1>10, <1>11
    <3>2. QED
      BY <3>1, NumsSame
  <2>2. QED
    BY <2>1
<1>15. \A t : Nums(old, t, n) \in Nat /\ Nums(new, t, n) = Nums(old, t, n)
  <2>1. \A t : Nums(old, t, n) \in Nat
    BY <1>11, NumsType
  <2>2. QED
    BY <1>11, <1>14, <2>1
<1>16. \A t : Nums(new, t, n + 1) = IF t = s THEN Nums(old, t, n) + 1 ELSE Nums(old, t, n)
  <2>1. \A t : Nums(new, t, n + 1) = IF new[n + 1].from = t THEN Nums(new, t, n) + 1
                                                           ELSE Nums(new, t, n)
    BY <1>11, NumsNext
  <2>2. QED
    BY <1>9, <1>13, <1>15, <2>1
<1>17. ASSUME NEW i \in 1 .. n + 1 PROVE new[i].n = Nums(new, new[i].from, i)
  <2>1. CASE i = n + 1
    BY <1>9, <1>13, <1>16, <2>1
  <2>2. CASE i # n + 1
    <3>1. i \in 1 .. n /\ i \in 0 .. n
      BY <1>11, <2>2
    <3>2. QED
      BY <1>10, <1>12, <1>14, <3>1
  <2>3. QED
    BY <2>1, <2>2
<1>18. ASSUME NEW t \in Streams PROVE Counts(p, t, Nums(new, t, n + 1))'
  <2>1. Counts(p, t, Nums(old, t, n))
    BY <1>12
  <2>2. CASE t = s
    <3>1. pipe'[p][s] = Tail(pipe[p][s]) /\ child[p].left[s] \in Seq(Line)
      BY <1>2 DEF LinesTyped
    <3>2. \A k \in Nat : Counts(p, s, k) => Counts(p, s, k + 1)'
      BY <1>2, <3>1, CountsRead
    <3>3. QED
      BY <1>15, <1>16, <2>1, <2>2, <3>2
  <2>3. CASE t # s
    <3>1. pipe'[p][t] = pipe[p][t] /\ Nums(new, t, n + 1) = Nums(old, t, n)
      BY <1>2, <1>16, <2>3
    <3>2. QED
      BY <2>1, <3>1 DEF Counts
  <2>4. QED
    BY <2>2, <2>3
<1>19. QED
  BY <1>1, <1>11, <1>17, <1>18 DEF FlowOK

(* The child adds the number of its next line to the pipe.                 *)
LEMMA FlowPrints ==
  ASSUME NEW p, plan' = plan, LinesTyped(p), FlowOK(p), NEW s \in Streams,
         child[p].left[s] # <<>>, NEW x,
         x.from = s, x.n = Len(plan[p].prints[s]) - Len(child[p].left[s]) + 1,
         pipe'[p] = [pipe[p] EXCEPT ![s] = Append(@, x)],
         child'[p].left = [child[p].left EXCEPT ![s] = Tail(@)],
         fates'[p] = fates[p], chan'[p] = chan[p], x \in Item
  PROVE  FlowOK(p)'
<1>1. Flow(p)' = Flow(p) /\ Taken(p)' = Taken(p)
  BY DEF Flow, Taken
<1>2. /\ \A i \in 1 .. Taken(p) : Flow(p)[i].n = Nums(Flow(p), Flow(p)[i].from, i)
      /\ \A t \in Streams : Counts(p, t, Nums(Flow(p), t, Taken(p)))
  BY DEF FlowOK
<1>3. Taken(p) \in Nat
  <2>1. PICK a \in Nat, b \in Nat : a = Len(fates[p]) /\ b = Len(chan[p])
    BY DEF LinesTyped
  <2>2. Taken(p) = a + b
    BY <2>1, Zenon DEF Taken
  <2>3. QED
    BY <2>2
<1>4. /\ pipe[p] \in [Streams -> Seq(Item)] /\ pipe[p][s] \in Seq(Item)
      /\ child[p].left \in [Streams -> Seq(Line)] /\ child[p].left[s] \in Seq(Line)
  BY DEF LinesTyped
<1>5. ASSUME NEW t \in Streams PROVE Counts(p, t, Nums(Flow(p), t, Taken(p)))'
  <2>1. PICK k \in Nat : k = Nums(Flow(p), t, Taken(p))
    BY <1>3, NumsType
  <2>2. Nums(Flow(p), t, Taken(p))' = k
    BY <1>1, <2>1 DEF Nums
  <2>3. Counts(p, t, k)
    BY <1>2, <2>1
  <2>4. Counts(p, t, k)'
    <3>1. CASE t = s
      <4>1. pipe'[p][s] = Append(pipe[p][s], x) /\ child'[p].left[s] = Tail(child[p].left[s])
        BY <1>4
      <4>2. QED
        BY <1>4, <2>3, <3>1, <4>1, CountsPrinted
    <3>2. CASE t # s
      <4>1. pipe'[p][t] = pipe[p][t] /\ child'[p].left[t] = child[p].left[t]
        BY <1>4, <3>2
      <4>2. QED
        BY <2>3, <4>1 DEF Counts
    <3>3. QED
      BY <3>1, <3>2
  <2>5. QED
    BY <2>2, <2>4 DEF Counts
<1>6. QED
  BY <1>1, <1>2, <1>5 DEF FlowOK

(* Receiving a line, or all of them at once, does not change the flow.     *)
LEMMA FlowTakes ==
  ASSUME NEW p, LinesTyped(p), chan[p] # <<>>, NEW fate \in Fates,
         fates'[p] = Append(fates[p], [line |-> Head(chan[p]), fate |-> fate]),
         chan'[p] = Tail(chan[p])
  PROVE  Flow(p)' = Flow(p) /\ Taken(p)' = Taken(p)
<1>1. /\ chan[p] \in Seq(Item) /\ fates[p] \in Seq([line : Item, fate : Fates])
  BY DEF LinesTyped
<1>a. Len(fates[p]) \in Nat /\ Len(chan[p]) \in Nat
  BY <1>1, LenProperties
<1>2. PICK a \in Nat, b \in Nat : a = Len(fates[p]) /\ b = Len(chan[p])
  BY <1>a
<1>3. PICK x : x = [line |-> Head(chan[p]), fate |-> fate]
  OBVIOUS
<1>4. x \in [line : Item, fate : Fates] /\ x.line = chan[p][1] /\ b # 0
  BY <1>1, <1>2, <1>3
<1>5. /\ Len(fates'[p]) = a + 1 /\ fates'[p][a + 1] = x
      /\ \A i \in 1 .. a : fates'[p][i] = fates[p][i]
  BY <1>1, <1>2, <1>3, <1>4
<1>6. Len(chan'[p]) = b - 1 /\ \A i \in 1 .. b - 1 : chan'[p][i] = chan[p][i + 1]
  BY <1>1, <1>2, <1>4
<1>7. Taken(p) = a + b /\ Taken(p)' = (a + 1) + (b - 1)
  BY <1>2, <1>5, <1>6, Zenon DEF Taken
<1>8. (a + 1) + (b - 1) = a + b
  OBVIOUS
<1>9. /\ Flow(p) = [i \in 1 .. a + b |->
                      IF i <= a THEN fates[p][i].line ELSE chan[p][i - a]]
      /\ Flow(p)' = [i \in 1 .. a + b |->
                       IF i <= a + 1 THEN fates'[p][i].line ELSE chan'[p][i - (a + 1)]]
  BY <1>2, <1>5, <1>7, <1>8 DEF Flow
<1>10. ASSUME NEW i \in 1 .. a + b
       PROVE  (IF i <= a + 1 THEN fates'[p][i].line ELSE chan'[p][i - (a + 1)])
                = (IF i <= a THEN fates[p][i].line ELSE chan[p][i - a])
  <2>1. CASE i <= a
    <3>1. i \in 1 .. a /\ i <= a + 1
      BY <2>1
    <3>2. QED
      BY <1>5, <2>1, <3>1
  <2>2. CASE i = a + 1
    <3>1. ~(i <= a) /\ i <= a + 1 /\ i - a = 1
      BY <2>2
    <3>2. QED
      BY <1>4, <1>5, <2>2, <3>1
  <2>3. CASE i > a + 1
    <3>1. ~(i <= a) /\ ~(i <= a + 1) /\ i - (a + 1) \in 1 .. b - 1
          /\ (i - (a + 1)) + 1 = i - a
      BY <2>3
    <3>2. QED
      BY <1>6, <3>1
  <2>4. i <= a \/ i = a + 1 \/ i > a + 1
    OBVIOUS
  <2>5. QED
    BY <2>1, <2>2, <2>3, <2>4, Zenon
<1>11. QED
  BY <1>7, <1>8, <1>9, <1>10

(* Before anything is printed the flow is empty and all is yet to come.    *)
LEMMA FlowStart ==
  \A q : /\ fates[q] = <<>> /\ chan[q] = <<>> /\ child[q].left = plan[q].prints
         /\ plan[q].prints \in [Streams -> Seq(Line)]
         /\ \A s \in Streams : pipe[q][s] = <<>>
         => FlowOK(q)
<1> SUFFICES ASSUME NEW p, fates[p] = <<>>, chan[p] = <<>>, child[p].left = plan[p].prints,
                    plan[p].prints \in [Streams -> Seq(Line)],
                    \A s \in Streams : pipe[p][s] = <<>>
             PROVE  FlowOK(p)
  OBVIOUS
<1>1. Len(fates[p]) = 0 /\ Len(chan[p]) = 0
  OBVIOUS
<1>2. Taken(p) = 0
  BY <1>1 DEF Taken
<1>3. 1 .. 0 = {}
  OBVIOUS
<1>4. ASSUME NEW s \in Streams PROVE Counts(p, s, Nums(Flow(p), s, Taken(p)))
  <2>1. Nums(Flow(p), s, Taken(p)) = 0
    <3>1. {i \in 1 .. 0 : Flow(p)[i].from = s} = {}
      BY <1>3
    <3>2. QED
      BY <1>2, <3>1, FS_EmptySet DEF Nums
  <2>2. pipe[p][s] = <<>> /\ child[p].left[s] = plan[p].prints[s]
        /\ plan[p].prints[s] \in Seq(Line)
    OBVIOUS
  <2>3. Len(pipe[p][s]) = 0 /\ DOMAIN pipe[p][s] = {}
    BY <2>2
  <2>4. PICK b \in Nat : b = Len(plan[p].prints[s])
    BY <2>2
  <2>5. 0 + 0 + b = b
    OBVIOUS
  <2>6. QED
    BY <2>1, <2>2, <2>3, <2>4, <2>5, Zenon DEF Counts
<1>5. QED
  BY <1>2, <1>3, <1>4 DEF FlowOK

LEMMA SeqMade ==
  ASSUME NEW S, NEW n \in Nat, NEW f \in [1 .. n -> S]
  PROVE  f \in Seq(S) /\ Len(f) = n
OBVIOUS

LEMMA FlowDigests ==
  ASSUME NEW p, LinesTyped(p), fates[p] = <<>>, chan'[p] = <<>>, NEW fate \in Fates,
         fates'[p] = Dealt(p, fate)
  PROVE  /\ Flow(p)' = Flow(p) /\ Taken(p)' = Taken(p)
         /\ fates'[p] \in Seq([line : Item, fate : Fates])
         /\ \A i \in DOMAIN fates'[p] :
              /\ fates'[p][i].line \in Item
              /\ fates'[p][i].fate = IF plan[p].does = "scan" /\ fates'[p][i].line.from = "stderr"
                                     THEN "forwarded" ELSE fate
<1>1. chan[p] \in Seq(Item)
  BY DEF LinesTyped
<1>2. PICK b \in Nat : b = Len(chan[p])
  BY <1>1
<1>3. DOMAIN chan[p] = 1 .. b /\ \A i \in 1 .. b : chan[p][i] \in Item
  BY <1>1, <1>2
<1>4. DOMAIN fates'[p] = 1 .. b
      /\ \A i \in 1 .. b :
           /\ fates'[p][i].line = chan[p][i]
           /\ fates'[p][i].fate = IF plan[p].does = "scan" /\ chan[p][i].from = "stderr"
                                  THEN "forwarded" ELSE fate
  BY <1>3 DEF Dealt
<1>5. fates'[p] \in [1 .. b -> [line : Item, fate : Fates]]
  <2>1. PICK f : f = [i \in 1 .. b |->
                       IF plan[p].does = "scan" /\ chan[p][i].from = "stderr"
                       THEN "forwarded" ELSE fate]
    OBVIOUS
  <2>2. \A i \in 1 .. b : f[i] \in Fates
    BY <2>1 DEF Fates
  <2>3. fates'[p] = [i \in 1 .. b |-> [line |-> chan[p][i], fate |-> f[i]]]
    BY <1>3, <2>1 DEF Dealt
  <2>4. QED
    BY <1>3, <2>2, <2>3
<1>6. fates'[p] \in Seq([line : Item, fate : Fates]) /\ Len(fates'[p]) = b
  <2>1. PICK f, S : f = fates'[p] /\ S = [line : Item, fate : Fates]
    OBVIOUS
  <2>2. f \in [1 .. b -> S]
    BY <1>5, <2>1, Zenon
  <2>3. f \in Seq(S) /\ Len(f) = b
    BY <2>2, SeqMade
  <2>4. QED
    BY <2>1, <2>3, Zenon
<1>7. Len(fates[p]) = 0 /\ Len(chan'[p]) = 0
  OBVIOUS
<1>8. Taken(p) = 0 + b /\ Taken(p)' = b + 0
  BY <1>2, <1>6, <1>7, Zenon DEF Taken
<1>9. 0 + b = b /\ b + 0 = b
  OBVIOUS
<1>10. /\ Flow(p) = [i \in 1 .. b |-> IF i <= 0 THEN fates[p][i].line ELSE chan[p][i - 0]]
       /\ Flow(p)' = [i \in 1 .. b |-> IF i <= b THEN fates'[p][i].line ELSE chan'[p][i - b]]
  BY <1>6, <1>7, <1>8, <1>9 DEF Flow
<1>11. ASSUME NEW i \in 1 .. b
       PROVE  (IF i <= b THEN fates'[p][i].line ELSE chan'[p][i - b])
                = (IF i <= 0 THEN fates[p][i].line ELSE chan[p][i - 0])
  <2>1. ~(i <= 0) /\ i <= b /\ i - 0 = i
    OBVIOUS
  <2>2. fates'[p][i].line = chan[p][i]
    BY <1>4
  <2>3. QED
    BY <2>1, <2>2, Zenon
<1>12. Flow(p)' = Flow(p)
  BY <1>10, <1>11
<1>13. QED
  BY <1>3, <1>4, <1>6, <1>8, <1>9, <1>12

(* The rules hold a line more at most, and one more is suppressed.         *)
LEMMA HeldTakes ==
  ASSUME NEW p, plan' = plan, plan[p].rules \in Seq(Rule), LinesTyped(p), HeldOK(p),
         InPhase(p, "piping"), NEW t \in Item, NEW fate \in Fates,
         fate = Treat(p, t).fate, run'[p].states = Treat(p, t).r.states,
         fates'[p] = Append(fates[p], [line |-> t, fate |-> fate]),
         run'[p] = Treat(p, t).r \/ InPhase(p, "unwinding")'
  PROVE  HeldOK(p)'
<1>1. PICK old, new, sup : old = HeldBack(p) /\ new = HeldBack(p)' /\ sup = Suppressed(p)
  OBVIOUS
<1>2. old = Held(run[p].states) /\ new = Held(run'[p].states)
  BY <1>1 DEF HeldBack, Held
<1>3. LocalsOK(p, run[p]) /\ IsFiniteSet(old) /\ Cardinality(old) <= Cardinality(sup)
  BY <1>1 DEF HeldOK
<1>4. t.line \in Line
  BY DEF Item
<1>5. /\ LocalsOK(p, Treat(p, t).r)
      /\ \E x : new \subseteq old \cup {x}
      /\ fate # "suppressed" => new = old
  BY <1>2, <1>3, <1>4, TreatHolds
<1>6. PICK a \in Nat : a = Len(fates[p]) /\ DOMAIN fates[p] = 1 .. a
  BY DEF LinesTyped
<1>7. /\ DOMAIN fates'[p] = 1 .. a + 1
      /\ \A i \in 1 .. a : fates'[p][i] = fates[p][i]
      /\ fates'[p][a + 1].fate = fate
  <2>1. [line |-> t, fate |-> fate] \in [line : Item, fate : Fates]
    OBVIOUS
  <2>2. QED
    BY <1>6, <2>1 DEF LinesTyped
<1>8. /\ sup = {i \in 1 .. a : fates[p][i].fate = "suppressed"}
      /\ Suppressed(p)' = {i \in 1 .. a + 1 : fates'[p][i].fate = "suppressed"}
  BY <1>1, <1>6, <1>7 DEF Suppressed
<1>9. a + 1 \notin sup /\ IsFiniteSet(sup)
  <2>1. IsFiniteSet(1 .. a)
    BY FS_Interval
  <2>2. sup \in SUBSET (1 .. a) /\ a + 1 \notin 1 .. a
    BY <1>8
  <2>3. QED
    BY <2>1, <2>2, FS_Subset
<1>10. Suppressed(p)' = IF fate = "suppressed" THEN sup \cup {a + 1} ELSE sup
  BY <1>7, <1>8
<1>11. /\ Cardinality(sup \cup {a + 1}) = Cardinality(sup) + 1
       /\ Cardinality(sup) \in Nat /\ Cardinality(old) \in Nat
  BY <1>3, <1>9, FS_AddElement, FS_CardinalityType
<1>12. PICK x : new \subseteq old \cup {x}
  BY <1>5
<1>13. /\ IsFiniteSet(new) /\ Cardinality(new) \in Nat
       /\ Cardinality(new) <= Cardinality(old) + 1
  <2>1. IsFiniteSet(old \cup {x}) /\ Cardinality(old \cup {x}) <= Cardinality(old) + 1
    <3>1. CASE x \in old
      <4>1. old \cup {x} = old
        BY <3>1
      <4>2. \A c \in Nat : c <= c + 1
        OBVIOUS
      <4>3. QED
        BY <1>3, <1>11, <4>1, <4>2, Zenon
    <3>2. CASE x \notin old
      <4>1. IsFiniteSet(old \cup {x})
        BY <1>3, FS_AddElement
      <4>2. Cardinality(old \cup {x}) = Cardinality(old) + 1
        BY <1>3, <3>2, FS_AddElement
      <4>3. QED
        BY <1>11, <4>1, <4>2
    <3>3. QED
      BY <3>1, <3>2
  <2>2. IsFiniteSet(new) /\ Cardinality(new) <= Cardinality(old \cup {x})
    BY <1>12, <2>1, FS_Subset
  <2>3. Cardinality(new) \in Nat /\ Cardinality(old \cup {x}) \in Nat
    BY <2>1, <2>2, FS_CardinalityType
  <2>4. QED
    BY <1>11, <2>1, <2>2, <2>3
<1>14. Cardinality(new) <= Cardinality(Suppressed(p)')
  <2>1. CASE fate = "suppressed"
    BY <1>3, <1>10, <1>11, <1>13, <2>1
  <2>2. CASE fate # "suppressed"
    BY <1>3, <1>5, <1>10, <2>2
  <2>3. QED
    BY <2>1, <2>2
<1>15. InPhase(p, "piping")' \/ InPhase(p, "unwinding")'
  <2>1. Treat(p, t).r.phase = run[p].phase
    BY <1>3 DEF Treat, LocalsOK, Locals
  <2>2. QED
    BY <2>1 DEF InPhase
<1>16. InPhase(p, "piping")' => LocalsOK(p, run[p])'
  BY <1>5 DEF LocalsOK, InPhase
<1>17. QED
  BY <1>1, <1>13, <1>14, <1>15, <1>16 DEF HeldOK, InPhase, Before

LEMMA TreatFate == \A p, t : Treat(p, t).fate \in Fates
<1> SUFFICES ASSUME NEW p, NEW t PROVE Treat(p, t).fate \in Fates
  OBVIOUS
<1>1. \/ Treat(p, t).fate \in {"unreadable", "blank", "suppressed"}
      \/ Treat(p, t).fate \in {"elided", "shown"}
  BY DEF Treat
<1>2. QED
  BY <1>1 DEF Fates

-----------------------------------------------------------------------------
(* The steps of an invocation, one group at a time.  First the reader       *)
(* threads and the child.                                                   *)
OutCtx == RunInv /\ ExitInv /\ OutInv

LEMMA OutReader ==
  ASSUME OutCtx, plan' = plan, NEW p \in Command, NEW s \in Streams, Reader(p, s)
  PROVE  OutInv'
<1>1. /\ OutShape /\ OutOK(p) /\ RunTyped(p) /\ readers = [q \in Command |-> readers[q]]
      /\ s \in readers[p] /\ UNCHANGED <<child, run, fates, code>>
  BY DEF OutCtx, OutInv, RunInv, Reader
<1>2. /\ OutShape'
      /\ \A q \in Command : q # p => Untouched(q)
  BY <1>1 DEF OutShape, Untouched, Reader
<1>3. run[p].phase \in Reading /\ ~InPhase(p, "waiting")
  BY <1>1 DEF RunTyped, OutOK, EndOK
<1>4. run[p].phase \notin Childless \cup {"waiting", "waited", "stats", "exited"}
  BY <1>3 DEF Reading, Childless, InPhase
<1>5. ASSUME \A t \in Streams : t \notin readers'[p] =>
              (pipe'[p][t] = <<>> /\ t \notin child[p].open) \/ (t = "stderr" /\ StopsAt(p, t)')
      PROVE  EndOK(p)'
  BY <1>1, <1>4, <1>5 DEF OutOK, EndOK, InPhase, Proxied
<1>6. CASE /\ pipe[p][s] # <<>> /\ ~StopsAt(p, s)
           /\ chan' = [chan EXCEPT ![p] = Append(@, Head(pipe[p][s]))]
           /\ pipe' = [pipe EXCEPT ![p][s] = Tail(@)]
           /\ UNCHANGED readers
  <2>1. /\ chan'[p] = Append(chan[p], Head(pipe[p][s]))
        /\ pipe'[p] = [pipe[p] EXCEPT ![s] = Tail(@)]
    BY <1>1, <1>6 DEF OutShape
  <2>2. FlowOK(p)'
    BY <1>1, <1>6, <2>1, FlowReads DEF OutOK
  <2>3. HeldOK(p)'
    BY <1>1, HeldStays DEF OutOK
  <2>4. /\ pipe[p] \in [Streams -> Seq(Item)] /\ pipe[p][s] \in Seq(Item) /\ chan[p] \in Seq(Item)
    BY <1>1 DEF OutOK, LinesTyped
  <2>5. Head(pipe[p][s]) \in Item /\ Tail(pipe[p][s]) \in Seq(Item)
    BY <1>6, <2>4
  <2>6. chan'[p] \in Seq(Item) /\ pipe'[p] \in [Streams -> Seq(Item)]
    BY <2>1, <2>4, <2>5
  <2>7. LinesTyped(p)'
    BY <1>1, <2>6 DEF OutOK, LinesTyped
  <2>8. \A t \in Streams : t # s => pipe'[p][t] = pipe[p][t]
    BY <2>1, <2>4
  <2>9. EndOK(p)'
    BY <1>1, <1>3, <1>5, <1>6, <2>8 DEF OutOK, EndOK, StopsAt
  <2>10. OutOK(p)'
    BY <2>2, <2>3, <2>7, <2>9 DEF OutOK
  <2>11. QED
    BY <1>2, <2>10, OutMoves DEF OutCtx
<1>7. CASE /\ \/ pipe[p][s] = <<>> /\ s \notin child[p].open
              \/ s = "stderr" /\ StopsAt(p, s)
           /\ readers' = [readers EXCEPT ![p] = @ \ {s}]
           /\ UNCHANGED <<chan, pipe>>
  <2>1. readers'[p] = readers[p] \ {s}
    BY <1>1, <1>7
  <2>2. EndOK(p)'
    BY <1>1, <1>3, <1>5, <1>7, <2>1 DEF OutOK, EndOK, StopsAt
  <2>3. Locals \subseteq DOMAIN run'[p]
    BY <1>1 DEF OutOK, LinesTyped
  <2>4. OutOK(p)'
    BY <1>1, <1>7, <2>2, <2>3, QuietKeeps
  <2>5. QED
    BY <1>2, <2>4, OutMoves DEF OutCtx
<1>8. QED
  BY <1>6, <1>7 DEF Reader

(* An append leaves the head of a stream that is not empty.                *)
LEMMA AppendHead ==
  ASSUME NEW S, NEW seq \in Seq(S), NEW x \in S, seq # <<>>
  PROVE  Append(seq, x) # <<>> /\ Head(Append(seq, x)) = Head(seq)
OBVIOUS

(* What goes on around an invocation whose lines stay in their places.     *)
LEMMA EndStays ==
  ASSUME NEW p, plan' = plan, EndOK(p), pipe'[p] = pipe[p], chan'[p] = chan[p],
         fates'[p] = fates[p], readers'[p] = readers[p], run'[p].phase = run[p].phase,
         code'[p] = code[p], child'[p].left = child[p].left, child'[p].open \subseteq child[p].open,
         \/ child'[p].status = child[p].status
         \/ child[p].status = "running" /\ child'[p].status \in {"ended", "killed"}
  PROVE  EndOK(p)'
<1>1. \A s \in Streams : StopsAt(p, s)' = StopsAt(p, s) /\ Drained(p, s)' = Drained(p, s)
  BY DEF StopsAt, Drained
<1>2. Streams = {"stdout", "stderr"} /\ Quit(p)' = Quit(p)
  BY <1>1 DEF Streams, Quit
<1>3. Settled(p) => Settled(p)' /\ OwnCode(p)' = OwnCode(p)
  BY <1>1, <1>2 DEF Settled, OwnCode, ChildCode, NotText
<1>4. QED
  BY <1>1, <1>2, <1>3 DEF EndOK, InPhase, Proxied

LEMMA OutPrints ==
  ASSUME OutCtx, plan' = plan, NEW p \in Command, NEW s \in Streams, Prints(p, s)
  PROVE  OutInv'
<1> DEFINE m == Len(plan[p].prints[s]) - Len(child[p].left[s]) + 1
           y == [from |-> s, n |-> m, line |-> Head(child[p].left[s])]
<1>1. /\ OutShape /\ OutOK(p) /\ Shape
      /\ child[p].status = "running" /\ s \in child[p].open /\ child[p].left[s] # <<>>
      /\ UNCHANGED <<readers, chan, run, fates, code>>
  BY DEF OutCtx, OutInv, RunInv, Prints
<1>2. /\ {"status", "left", "open"} \subseteq DOMAIN child[p]
      /\ pipe' = [pipe EXCEPT ![p][s] = Append(@, y)]
      /\ child' = [child EXCEPT ![p].left[s] = Tail(@)]
  BY <1>1 DEF Shape, Prints
<1>3. PICK x : x = y
  OBVIOUS
<1>4. /\ pipe'[p] = [pipe[p] EXCEPT ![s] = Append(@, x)]
      /\ child'[p].left = [child[p].left EXCEPT ![s] = Tail(@)]
      /\ child'[p].open = child[p].open /\ child'[p].status = child[p].status
  BY <1>1, <1>2, <1>3 DEF OutShape, Shape
<1>5. /\ OutShape'
      /\ \A q \in Command : q # p => Untouched(q)
  BY <1>1, <1>2 DEF OutShape, Shape, Untouched
<1>6. /\ pipe[p] \in [Streams -> Seq(Item)] /\ pipe[p][s] \in Seq(Item)
      /\ child[p].left \in [Streams -> Seq(Line)] /\ child[p].left[s] \in Seq(Line)
      /\ Len(fates[p]) \in Nat /\ Len(chan[p]) \in Nat
  BY <1>1 DEF OutOK, LinesTyped
<1>7. m \in Nat
  <2>1. PICK a \in Nat, b \in Nat : a = Len(pipe[p][s]) /\ b = Len(child[p].left[s])
    BY <1>6
  <2>2. PICK c \in Nat, d \in Nat : c = Len(fates[p]) /\ d = Len(chan[p])
    BY <1>6
  <2>3. Taken(p) = c + d
    BY <2>2, Zenon DEF Taken
  <2>4. c + d \in Nat
    OBVIOUS
  <2>5. PICK k \in Nat : k = Nums(Flow(p), s, Taken(p))
    BY <2>3, <2>4, NumsType
  <2>6. k + a + b = Len(plan[p].prints[s])
    BY <1>1, <2>1, <2>5 DEF OutOK, FlowOK, Counts
  <2>7. m = (k + a + b) - b + 1
    BY <2>1, <2>6
  <2>8. (k + a + b) - b + 1 \in Nat
    OBVIOUS
  <2>9. QED
    BY <2>7, <2>8
<1>8. x \in Item /\ x.from = s /\ x.n = m
  <2>1. Head(child[p].left[s]) \in Line
    BY <1>1, <1>6
  <2>2. QED
    BY <1>3, <1>7, <2>1 DEF Item
<1>9. FlowOK(p)'
  BY <1>1, <1>4, <1>8, FlowPrints DEF OutOK
<1>10. HeldOK(p)'
  BY <1>1, HeldStays DEF OutOK
<1>11. LinesTyped(p)'
  <2>1. Append(pipe[p][s], x) \in Seq(Item) /\ Tail(child[p].left[s]) \in Seq(Line)
    BY <1>1, <1>6, <1>8
  <2>2. pipe'[p] \in [Streams -> Seq(Item)] /\ child'[p].left \in [Streams -> Seq(Line)]
    BY <1>4, <1>6, <2>1
  <2>3. QED
    BY <1>1, <2>2 DEF OutOK, LinesTyped
<1>12. EndOK(p)'
  <2>1. \A t \in Streams : t # s => pipe'[p][t] = pipe[p][t]
    BY <1>4, <1>6
  <2>2. pipe'[p][s] = Append(pipe[p][s], x)
    BY <1>4, <1>6
  <2>3. pipe[p][s] # <<>> => pipe'[p][s] # <<>> /\ Head(pipe'[p][s]) = Head(pipe[p][s])
    <3>1. PICK S, seq : S = Item /\ seq = pipe[p][s]
      OBVIOUS
    <3>2. seq \in Seq(S) /\ x \in S
      BY <1>6, <1>8, <3>1
    <3>3. QED
      BY <2>2, <3>1, <3>2, AppendHead
  <2>4. \A t \in Streams : StopsAt(p, t) => StopsAt(p, t)'
    BY <2>1, <2>3 DEF StopsAt
  <2>5. ~Settled(p) /\ run[p].phase \notin Childless \cup {"waited", "stats"}
    BY <1>1 DEF Settled, OutOK, EndOK
  <2>6. Quit(p) => Quit(p)'
    BY <1>1, <2>4 DEF Quit, Streams
  <2>7. InPhase(p, "exited") /\ Proxied(p) => code[p] = Panic \/ Quit(p)
    BY <1>1, <2>5 DEF OutOK, EndOK
  <2>8. run[p].phase \in Reading =>
          \A t \in Streams : t \notin readers[p] =>
            (pipe'[p][t] = <<>> /\ t \notin child[p].open) \/ (t = "stderr" /\ StopsAt(p, t)')
    BY <1>1, <2>1, <2>4 DEF OutOK, EndOK
  <2>9. QED
    BY <1>1, <1>4, <2>5, <2>6, <2>7, <2>8 DEF OutOK, EndOK, InPhase, Proxied
<1>13. OutOK(p)'
  BY <1>9, <1>10, <1>11, <1>12 DEF OutOK
<1>14. QED
  BY <1>5, <1>13, OutMoves DEF OutCtx

(* A step that leaves the lines where they are, and of the variables all    *)
(* but the phase and the code.                                              *)
LEMMA OutQuiet ==
  ASSUME OutCtx, plan' = plan, NEW p \in Command, UNCHANGED <<pipe, fates>>,
         chan'[p] = chan[p], chan' = [q \in Command |-> chan'[q]],
         child'[p].left = child[p].left,
         Locals \subseteq DOMAIN run'[p], run'[p].states = run[p].states,
         \/ run'[p] = run[p]
         \/ run'[p].phase # "piping" /\ (run'[p].phase \in Before => fates[p] = <<>>),
         EndOK(p)',
         \A q \in Command : q # p => /\ child'[q] = child[q] /\ readers'[q] = readers[q]
                                     /\ chan'[q] = chan[q] /\ run'[q] = run[q]
                                     /\ code'[q] = code[q]
  PROVE  OutInv'
<1>1. OutOK(p) /\ OutShape /\ OutInv
  BY DEF OutCtx, OutInv
<1>2. OutOK(p)'
  BY <1>1, QuietKeeps
<1>3. OutShape' /\ \A q \in Command : q # p => Untouched(q)
  BY <1>1 DEF OutShape, Untouched
<1>4. QED
  BY <1>1, <1>2, <1>3, OutMoves

(* Moving to a phase keeps the pipeline's variables.                       *)
LEMMA EnterKeeps ==
  ASSUME OutCtx, NEW p \in Command, NEW phase, Enter(p, phase)
  PROVE  /\ run'[p].phase = phase
         /\ Locals \subseteq DOMAIN run'[p] /\ run'[p].states = run[p].states
         /\ \A q \in Command : q # p => run'[q] = run[q]
<1>1. run = [q \in Command |-> run[q]] /\ Locals \subseteq DOMAIN run[p]
  BY DEF OutCtx, RunInv, Shape, OutInv, OutOK, LinesTyped
<1>2. run'[p] = [run[p] EXCEPT !.phase = phase]
  BY <1>1 DEF Enter
<1>3. QED
  BY <1>1, <1>2 DEF Enter, Locals

LEMMA OutChild ==
  ASSUME OutCtx, plan' = plan, NEW p \in Command,
         \/ SpawnFails(p) \/ FindFiles(p) \/ ChildEnds(p) \/ SinkCloses(p)
         \/ \E s \in Streams : Closes(p, s)
  PROVE  OutInv'
<1>1. /\ OutShape /\ EndOK(p) /\ Shape /\ RunTyped(p) /\ Locals \subseteq DOMAIN run[p]
      /\ (Proxied(p) => CodeKnown(p)) /\ HeldOK(p)
      /\ UNCHANGED <<pipe, readers, chan, fates>>
  BY DEF OutCtx, OutInv, OutOK, RunInv, ExitInv, LinesTyped, SpawnFails, FindFiles, ChildEnds,
         SinkCloses, Closes
<1>2. chan' = [q \in Command |-> chan'[q]]
  BY <1>1 DEF OutShape
<1>3. CASE SpawnFails(p)
  <2>1. /\ Exit(p, Failed) /\ child' = child
        /\ InPhase(p, "again") \/ (InPhase(p, "off") /\ Proxied(p) /\ plan[p].does # "cat")
    BY <1>3, StartsKnown DEF SpawnFails
  <2>2. Proxied(p) /\ plan[p].does # "cat" /\ run[p].phase \in Childless
    BY <1>1, <2>1 DEF RunTyped, CodeKnown, InPhase, Childless
  <2>3. /\ run'[p].phase = "exited" /\ code'[p] = Failed
        /\ \A q \in Command : q # p => code'[q] = code[q]
    BY <1>1, <2>1, ExitMoves, EnterMoves
  <2>4. child[p].status = "none" /\ chan[p] = <<>> /\ \A s \in Streams : pipe[p][s] = <<>>
    BY <1>1, <2>2 DEF EndOK
  <2>5. Settled(p)' /\ OwnCode(p)' = Failed
    BY <1>1, <2>1, <2>2, <2>4 DEF Settled, Drained, OwnCode
  <2>6. EndOK(p)'
    BY <1>1, <2>2, <2>3, <2>5 DEF EndOK, InPhase, Proxied, Childless, Reading
  <2>7. "exited" \notin Before
    BY DEF Before
  <2>8. QED
    BY <1>1, <1>2, <2>1, <2>3, <2>6, <2>7, EnterKeeps, OutQuiet DEF Exit
<1>4. CASE FindFiles(p)
  <2>1. Enter(p, "reading") /\ InPhase(p, "off") /\ UNCHANGED <<child, code>>
    BY <1>4 DEF FindFiles
  <2>2. run'[p].phase = "reading"
    BY <2>1, EnterKeeps
  <2>3. EndOK(p)' /\ fates[p] = <<>>
    BY <1>1, <2>1, <2>2 DEF EndOK, HeldOK, InPhase, Proxied, Childless, Reading, Before
  <2>4. QED
    BY <1>1, <1>2, <2>1, <2>2, <2>3, EnterKeeps, OutQuiet
<1>5. ASSUME UNCHANGED <<run, code>>, child'[p].left = child[p].left,
             child'[p].open \subseteq child[p].open,
             \A q \in Command : q # p => child'[q] = child[q],
             \/ child'[p].status = child[p].status
             \/ child[p].status = "running" /\ child'[p].status \in {"ended", "killed"}
      PROVE  OutInv'
  <2>1. EndOK(p)'
    BY <1>1, <1>5, EndStays
  <2>2. QED
    BY <1>1, <1>2, <1>5, <2>1, OutQuiet
<1>6. CASE SinkCloses(p)
  BY <1>5, <1>6 DEF SinkCloses
<1>7. ASSUME NEW s \in Streams, Closes(p, s) PROVE OutInv'
  <2>1. /\ UNCHANGED <<run, code>> /\ child'[p].left = child[p].left
        /\ child'[p].status = child[p].status /\ child'[p].open \subseteq child[p].open
        /\ \A q \in Command : q # p => child'[q] = child[q]
    BY <1>1, <1>7 DEF Closes, Shape
  <2>2. QED
    BY <1>5, <2>1
<1>8. CASE ChildEnds(p)
  <2>1. /\ UNCHANGED <<run, code>> /\ child'[p].left = child[p].left
        /\ child[p].status = "running" /\ child'[p].open = child[p].open
        /\ child'[p].status \in {"ended", "killed"}
        /\ \A q \in Command : q # p => child'[q] = child[q]
    BY <1>1, <1>8 DEF ChildEnds, Shape
  <2>2. QED
    BY <1>5, <2>1
<1>9. QED
  BY <1>3, <1>4, <1>6, <1>7, <1>8

LEMMA OutSpawn ==
  ASSUME OutCtx, plan' = plan, NEW p \in Command, Spawn(p)
  PROVE  OutInv'
<1>1. /\ OutShape /\ OutOK(p) /\ Shape /\ readers = [q \in Command |-> readers[q]]
      /\ InPhase(p, "off") \/ InPhase(p, "again")
      /\ Proxied(p) /\ plan \in Plans
      /\ UNCHANGED <<pipe, chan, fates, code>>
  BY StartsKnown DEF OutCtx, OutInv, RunInv, RunTyped, Spawn, InPhase
<1>2. /\ \E phase \in {"collecting", "scanning", "piping"} :
           run'[p] = Local(phase, [i \in DOMAIN plan[p].rules |-> Compiled])
      /\ readers'[p] = Streams /\ child'[p].left = child[p].left
      /\ \A q \in Command : q # p => /\ child'[q] = child[q] /\ readers'[q] = readers[q]
                                     /\ run'[q] = run[q]
  BY <1>1, StartsKnown DEF Spawn, Shape
<1>3. OutShape' /\ \A q \in Command : q # p => Untouched(q)
  BY <1>1, <1>2 DEF OutShape, Untouched
<1>4. FlowOK(p)'
  BY <1>1, <1>2, FlowStays DEF OutOK, Flow, Taken
<1>5. /\ run'[p].states = [i \in DOMAIN plan[p].rules |-> Compiled]
      /\ run'[p].phase \in {"collecting", "scanning", "piping"} /\ run'[p].blanks = 0
      /\ Locals \subseteq DOMAIN run'[p]
  BY <1>2 DEF Local, Locals
<1>6. LinesTyped(p)'
  BY <1>1, <1>2, <1>5 DEF OutOK, LinesTyped
<1>7. HeldOK(p)'
  <2>1. RuleState(Compiled)
    BY DEF RuleState, Compiled
  <2>2. LocalsOK(p, run[p])'
    BY <1>5, <2>1 DEF LocalsOK, StatesOK
  <2>3. Gathered(Compiled) = {}
    BY DEF Gathered, Compiled
  <2>4. HeldBack(p)' = {}
    BY <1>5, <2>3 DEF HeldBack
  <2>5. fates[p] = <<>>
    BY <1>1 DEF OutOK, HeldOK, InPhase, Before
  <2>6. Suppressed(p)' = {}
    BY <1>1, <2>5 DEF Suppressed
  <2>7. IsFiniteSet({}) /\ Cardinality({}) = 0
    BY FS_EmptySet
  <2>8. QED
    BY <1>1, <1>5, <2>2, <2>4, <2>5, <2>6, <2>7 DEF HeldOK, InPhase
<1>8. EndOK(p)'
  BY <1>1, <1>2, <1>5 DEF OutOK, EndOK, InPhase, Proxied, Childless
<1>9. OutOK(p)'
  BY <1>4, <1>6, <1>7, <1>8 DEF OutOK
<1>10. QED
  BY <1>3, <1>9, OutMoves DEF OutCtx

-----------------------------------------------------------------------------
(* The main thread: a line, the end of the lines, all of them at once.     *)
LEMMA OutReceive ==
  ASSUME OutCtx, plan' = plan, NEW p \in Command, Receive(p)
  PROVE  OutInv'
<1>1. /\ OutShape /\ OutOK(p) /\ Shape /\ InPhase(p, "piping")
      /\ chan[p] # <<>> /\ UNCHANGED <<child, pipe, readers, code>>
      /\ plan[p].rules \in Seq(Rule) /\ LocalsOK(p, run[p])
  BY PlanTypes DEF OutCtx, OutInv, RunInv, Receive, OutOK, HeldOK
<1>2. PICK t, fate : t = Head(chan[p]) /\ fate = Treat(p, t).fate
  OBVIOUS
<1>3. t \in Item /\ Tail(chan[p]) \in Seq(Item) /\ fate \in Fates
  BY <1>1, <1>2, TreatFate DEF OutOK, LinesTyped
<1>4. /\ fates' = [fates EXCEPT ![p] = Append(@, [line |-> t, fate |-> fate])]
      /\ chan' = [chan EXCEPT ![p] = Tail(@)]
      /\ \/ run' = [run EXCEPT ![p] = Treat(p, t).r]
         \/ run' = [run EXCEPT ![p] = [Treat(p, t).r EXCEPT !.phase = "unwinding"]]
  BY <1>2 DEF Receive
<1>5. /\ fates'[p] = Append(fates[p], [line |-> t, fate |-> fate])
      /\ chan'[p] = Tail(chan[p])
      /\ run'[p] = Treat(p, t).r \/ run'[p] = [Treat(p, t).r EXCEPT !.phase = "unwinding"]
  BY <1>1, <1>4 DEF OutShape, Shape
<1>6. OutShape' /\ \A q \in Command : q # p => Untouched(q)
  BY <1>1, <1>4 DEF OutShape, Shape, Untouched
<1>7. FlowOK(p)'
  <2>1. Flow(p)' = Flow(p) /\ Taken(p)' = Taken(p)
    BY <1>1, <1>2, <1>3, <1>5, FlowTakes DEF OutOK
  <2>2. QED
    BY <1>1, <2>1, FlowStays DEF OutOK
<1>8. LocalsOK(p, Treat(p, t).r)
  BY <1>1, <1>3, TreatHolds DEF Item
<1>9. /\ run'[p].states = Treat(p, t).r.states /\ Locals \subseteq DOMAIN run'[p]
      /\ run'[p] = Treat(p, t).r \/ InPhase(p, "unwinding")'
  BY <1>5, <1>8 DEF LocalsOK, Locals, InPhase
<1>10. run'[p].phase \in {"piping", "unwinding"}
  <2>1. Treat(p, t).r.phase = run[p].phase
    BY <1>1, TreatKeeps
  <2>2. QED
    BY <1>1, <1>9, <2>1 DEF InPhase
<1>11. HeldOK(p)'
  BY <1>1, <1>2, <1>3, <1>5, <1>9, HeldTakes DEF OutOK
<1>12. LinesTyped(p)'
  <2>1. fates'[p] \in Seq([line : Item, fate : Fates])
    <3>1. PICK x, S : x = [line |-> t, fate |-> fate] /\ S = [line : Item, fate : Fates]
      OBVIOUS
    <3>2. x \in S
      BY <1>3, <3>1
    <3>3. fates[p] \in Seq(S)
      BY <1>1, <3>1 DEF OutOK, LinesTyped
    <3>4. Append(fates[p], x) \in Seq(S)
      BY <3>2, <3>3
    <3>5. QED
      BY <1>5, <3>1, <3>4
  <2>2. QED
    BY <1>1, <1>3, <1>5, <1>9, <2>1 DEF OutOK, LinesTyped
<1>13. EndOK(p)'
  <2>1. run[p].phase \in Reading
    BY <1>1 DEF InPhase, Reading
  <2>2. \A s \in Streams : StopsAt(p, s)' = StopsAt(p, s)
    BY <1>1 DEF StopsAt
  <2>3. run'[p].phase \notin Childless \cup {"waiting", "waited", "stats", "exited"}
    BY <1>10 DEF Childless
  <2>4. QED
    BY <1>1, <2>1, <2>2, <2>3 DEF OutOK, EndOK, InPhase, Proxied
<1>14. OutOK(p)'
  BY <1>7, <1>11, <1>12, <1>13 DEF OutOK
<1>15. QED
  BY <1>6, <1>14, OutMoves DEF OutCtx

(* Both readers have ended: nothing is left that will be read.             *)
LEMMA CollectedAll ==
  ASSUME OutCtx, NEW p \in Command, readers[p] = {}, run[p].phase \in Reading
  PROVE  \A s \in Streams : Drained(p, s)
BY DEF OutCtx, OutInv, OutOK, EndOK, Drained

LEMMA OutMain ==
  ASSUME OutCtx, plan' = plan, NEW p \in Command,
         EndOfLines(p) \/ WaitChild(p) \/ Unwound(p)
  PROVE  OutInv'
<1>1. /\ OutShape /\ EndOK(p) /\ Shape /\ Locals \subseteq DOMAIN run[p]
      /\ UNCHANGED <<child, pipe, readers, fates>>
  BY DEF OutCtx, OutInv, OutOK, RunInv, LinesTyped, EndOfLines, WaitChild, Unwound
<1>2. /\ \A s \in Streams : StopsAt(p, s)' = StopsAt(p, s) /\ Drained(p, s)' = Drained(p, s)
      /\ {"unwinding", "waiting", "waited", "exited"} \cap (Before \cup {"piping"}) = {}
  BY <1>1 DEF StopsAt, Drained, Before
<1>3. CASE EndOfLines(p)
  <2>1. PICK phase \in {"unwinding", "waiting"} : Enter(p, phase)
    BY <1>3 DEF EndOfLines
  <2>2. chan' = chan /\ code' = code /\ InPhase(p, "piping") /\ chan[p] = <<>> /\ readers[p] = {}
    BY <1>3 DEF EndOfLines, LinesOver
  <2>3. /\ run'[p].phase = phase
        /\ Locals \subseteq DOMAIN run'[p] /\ run'[p].states = run[p].states
        /\ \A q \in Command : q # p => run'[q] = run[q]
    BY <2>1, EnterKeeps
  <2>4. EndOK(p)'
    BY <1>1, <1>2, <2>2, <2>3 DEF EndOK, InPhase, Proxied, Childless, Reading
  <2>5. QED
    BY <1>1, <1>2, <2>2, <2>3, <2>4, OutQuiet DEF OutShape
<1>4. CASE WaitChild(p)
  <2>1. /\ run' = [run EXCEPT ![p].phase = "waited", ![p].code = ChildCode(p)]
        /\ chan' = [chan EXCEPT ![p] = <<>>] /\ code' = code
        /\ run[p].phase = "waiting" /\ readers[p] = {} /\ child[p].status # "running"
    BY <1>4 DEF WaitChild, Collected, InPhase
  <2>2. chan[p] = <<>> /\ chan'[p] = <<>>
    BY <1>1, <2>1 DEF EndOK, OutShape, InPhase
  <2>3. run'[p] = [run[p] EXCEPT !.phase = "waited", !.code = ChildCode(p)]
    BY <1>1, <2>1 DEF Shape
  <2>4. /\ run'[p].phase = "waited"
        /\ Locals \subseteq DOMAIN run'[p] /\ run'[p].states = run[p].states
        /\ \A q \in Command : q # p => run'[q] = run[q] /\ chan'[q] = chan[q]
        /\ chan' = [q \in Command |-> chan'[q]]
    BY <1>1, <2>1, <2>3 DEF Locals, Shape, OutShape
  <2>5. Settled(p)'
    BY <1>1, <1>2, <2>1, <2>2, CollectedAll DEF Settled, Reading
  <2>6. EndOK(p)'
    BY <1>1, <2>1, <2>4, <2>5 DEF EndOK, InPhase, Proxied, Childless, Reading
  <2>7. QED
    BY <1>1, <1>2, <2>1, <2>2, <2>4, <2>6, OutQuiet
<1>5. CASE Unwound(p)
  <2>1. Exit(p, Panic) /\ chan' = chan /\ run[p].phase = "unwinding"
    BY <1>5 DEF Unwound, InPhase
  <2>2. /\ run'[p].phase = "exited" /\ code'[p] = Panic /\ Proxied(p)
        /\ \A q \in Command : q # p => code'[q] = code[q]
    BY <1>1, <2>1, ExitMoves, EnterMoves DEF OutCtx, RunInv, RunTyped, Reading
  <2>3. EndOK(p)'
    BY <1>1, <2>2 DEF EndOK, InPhase, Proxied, Childless, Reading
  <2>4. QED
    BY <1>1, <1>2, <2>1, <2>2, <2>3, EnterKeeps, OutQuiet DEF Exit, OutShape
<1>6. QED
  BY <1>3, <1>4, <1>5

(* The outcome of a handler: the pipeline's variables stay.                *)
LEMMA OutcomeKeeps ==
  ASSUME OutCtx, NEW p \in Command, NEW c, Outcome(p, c)
  PROVE  /\ Locals \subseteq DOMAIN run'[p] /\ run'[p].states = run[p].states
         /\ \A q \in Command : q # p => run'[q] = run[q] /\ code'[q] = code[q]
         /\ \/ run'[p].phase = "waited" /\ code' = code
            \/ run'[p].phase = "exited" /\ code'[p] = Panic
<1>1. /\ Shape /\ Locals \subseteq DOMAIN run[p]
  BY DEF OutCtx, RunInv, OutInv, OutOK, LinesTyped
<1>2. CASE ~sink[p] /\ Exit(p, Panic)
  BY <1>1, <1>2, EnterKeeps, ExitMoves, EnterMoves
<1>3. CASE run' = [run EXCEPT ![p].phase = "waited", ![p].code = c] /\ UNCHANGED code
  <2>1. run'[p] = [run[p] EXCEPT !.phase = "waited", !.code = c]
    BY <1>1, <1>3 DEF Shape
  <2>2. QED
    BY <1>1, <1>3, <2>1 DEF Shape, Locals
<1>4. QED
  BY <1>2, <1>3 DEF Outcome

(* A handler's lines: none is held back, so none need be suppressed.       *)
LEMMA HeldEnds ==
  ASSUME NEW p, HeldOK(p), fates[p] = <<>>, run'[p].states = run[p].states,
         run'[p].phase \in {"waited", "exited"},
         \A i \in DOMAIN fates'[p] : fates'[p][i].fate # "suppressed"
  PROVE  HeldOK(p)'
<1>1. HeldBack(p)' = HeldBack(p)
  BY DEF HeldBack
<1>2. Suppressed(p) = {} /\ Suppressed(p)' = {}
  BY DEF Suppressed
<1>3. run'[p].phase \notin Before \cup {"piping"}
  BY DEF Before
<1>4. QED
  BY <1>1, <1>2, <1>3 DEF HeldOK, InPhase

LEMMA OutNative ==
  ASSUME OutCtx, plan' = plan, NEW p \in Command, Native(p)
  PROVE  OutInv'
<1>1. /\ OutShape /\ OutOK(p) /\ run[p].phase \in {"collecting", "scanning"}
      /\ UNCHANGED <<child, pipe, readers>> /\ readers[p] = {} /\ child[p].status # "running"
  BY DEF OutCtx, OutInv, Native, Collected, InPhase
<1>2. fates[p] = <<>> /\ run[p].phase \in Reading
  BY <1>1 DEF OutOK, HeldOK, Before, Reading
<1>3. /\ fates'[p] = Dealt(p, "digested") /\ chan'[p] = <<>>
      /\ \A q \in Command : q # p => fates'[q] = fates[q] /\ chan'[q] = chan[q]
      /\ OutShape'
  BY <1>1 DEF Native, OutShape
<1>4. /\ Locals \subseteq DOMAIN run'[p] /\ run'[p].states = run[p].states
      /\ \A q \in Command : q # p => run'[q] = run[q] /\ code'[q] = code[q]
      /\ \/ run'[p].phase = "waited" /\ code' = code
         \/ run'[p].phase = "exited" /\ code'[p] = Panic
  BY OutcomeKeeps DEF Native
<1>5. \A q \in Command : q # p => Untouched(q)
  BY <1>1, <1>3, <1>4 DEF Untouched
<1>6. /\ Flow(p)' = Flow(p) /\ Taken(p)' = Taken(p)
      /\ fates'[p] \in Seq([line : Item, fate : Fates])
      /\ \A i \in DOMAIN fates'[p] : fates'[p][i].fate # "suppressed"
  <2>1. "digested" \in Fates
    BY DEF Fates
  <2>2. QED
    BY <1>1, <1>2, <1>3, <2>1, FlowDigests DEF OutOK
<1>7. FlowOK(p)'
  BY <1>1, <1>6, FlowStays DEF OutOK
<1>8. LinesTyped(p)'
  <2>1. <<>> \in Seq(Item)
    OBVIOUS
  <2>2. chan'[p] \in Seq(Item)
    BY <1>3, <2>1
  <2>3. QED
    BY <1>1, <1>4, <1>6, <2>2 DEF OutOK, LinesTyped
<1>9. HeldOK(p)'
  BY <1>1, <1>2, <1>4, <1>6, HeldEnds DEF OutOK
<1>10. EndOK(p)'
  <2>1. \A s \in Streams : Drained(p, s)
    BY <1>1, <1>2, CollectedAll
  <2>2. Settled(p)'
    BY <1>1, <1>3, <2>1 DEF Settled, Drained, StopsAt
  <2>3. Proxied(p)
    BY <1>2 DEF OutCtx, RunInv, RunTyped
  <2>4. QED
    BY <1>4, <2>2, <2>3 DEF EndOK, InPhase, Proxied, Childless, Reading
<1>11. OutOK(p)'
  BY <1>7, <1>8, <1>9, <1>10 DEF OutOK
<1>12. QED
  BY <1>3, <1>5, <1>11, OutMoves DEF OutCtx

(* A diff that is run again starts over.                                   *)
LEMMA OutRerun ==
  ASSUME OutCtx, plan' = plan, NEW p \in Command, Rerun(p)
  PROVE  OutInv'
<1>1. /\ OutShape /\ OutOK(p) /\ Shape /\ run[p].phase = "collecting"
      /\ UNCHANGED <<pipe, readers, fates, code>> /\ readers[p] = {} /\ plan[p].does = "diff"
      /\ plan[p].prints \in [Streams -> Seq(Line)]
  BY PlanTypes DEF OutCtx, OutInv, RunInv, Rerun, Collected, InPhase
<1>2. fates[p] = <<>> /\ run[p].phase \in Reading
  BY <1>1 DEF OutOK, HeldOK, Before, Reading
<1>3. /\ chan'[p] = <<>> /\ child'[p] = NoChild(p)
      /\ \A q \in Command : q # p => chan'[q] = chan[q] /\ child'[q] = child[q]
      /\ OutShape'
  BY <1>1 DEF Rerun, OutShape, Shape
<1>4. child'[p].status = "none" /\ child'[p].left = plan[p].prints
  BY <1>3 DEF NoChild
<1>5. /\ run'[p].phase = "again"
      /\ Locals \subseteq DOMAIN run'[p] /\ run'[p].states = run[p].states
      /\ \A q \in Command : q # p => run'[q] = run[q]
  BY EnterKeeps DEF Rerun
<1>6. \A s \in Streams : pipe[p][s] = <<>>
  <2>1. \A s \in Streams : Drained(p, s)
    BY <1>1, <1>2, CollectedAll
  <2>2. QED
    BY <1>1, <2>1 DEF Drained, StopsAt
<1>7. \A q \in Command : q # p => Untouched(q)
  BY <1>1, <1>3, <1>5 DEF Untouched
<1>8. FlowOK(p)'
  <2>1. (\A q : /\ fates[q] = <<>> /\ chan[q] = <<>> /\ child[q].left = plan[q].prints
                /\ plan[q].prints \in [Streams -> Seq(Line)]
                /\ \A s \in Streams : pipe[q][s] = <<>>
                => FlowOK(q))'
    BY FlowStart, PTL
  <2>2. QED
    BY <1>1, <1>2, <1>3, <1>4, <1>6, <2>1
<1>9. LinesTyped(p)'
  <2>1. <<>> \in Seq(Item)
    OBVIOUS
  <2>2. chan'[p] \in Seq(Item)
    BY <1>3, <2>1
  <2>3. QED
    BY <1>1, <1>4, <1>5, <2>2 DEF OutOK, LinesTyped
<1>10. HeldOK(p)'
  BY <1>1, <1>2, <1>5, HeldStays DEF OutOK
<1>11. EndOK(p)'
  BY <1>1, <1>3, <1>4, <1>5, <1>6 DEF EndOK, OutOK, InPhase, Proxied, Reading
<1>12. OutOK(p)'
  BY <1>8, <1>9, <1>10, <1>11 DEF OutOK
<1>13. QED
  BY <1>3, <1>7, <1>12, OutMoves DEF OutCtx

(* A scan that gives up: what it took is lost or was forwarded.            *)
LEMMA OutScanFails ==
  ASSUME OutCtx, plan' = plan, NEW p \in Command, ScanFails(p)
  PROVE  OutInv'
<1>1. /\ OutShape /\ OutOK(p) /\ Shape /\ run[p].phase = "scanning" /\ StopsAt(p, "stdout")
      /\ readers = [q \in Command |-> readers[q]]
      /\ UNCHANGED <<child, pipe>> /\ Exit(p, Failed) /\ plan[p].does = "scan"
  BY DEF OutCtx, OutInv, RunInv, ScanFails, InPhase, StopsAt
<1>2. fates[p] = <<>>
  BY <1>1 DEF OutOK, HeldOK, Before
<1>3. /\ fates'[p] = Dealt(p, "lost") /\ chan'[p] = <<>>
      /\ \A q \in Command : q # p => /\ fates'[q] = fates[q] /\ chan'[q] = chan[q]
                                     /\ readers'[q] = readers[q]
      /\ OutShape'
  BY <1>1 DEF ScanFails, OutShape
<1>4. /\ Locals \subseteq DOMAIN run'[p] /\ run'[p].states = run[p].states
      /\ \A q \in Command : q # p => run'[q] = run[q] /\ code'[q] = code[q]
      /\ run'[p].phase = "exited" /\ code'[p] = Failed
  BY <1>1, EnterKeeps, ExitMoves, EnterMoves
<1>5. \A q \in Command : q # p => Untouched(q)
  BY <1>1, <1>3, <1>4 DEF Untouched
<1>6. /\ Flow(p)' = Flow(p) /\ Taken(p)' = Taken(p)
      /\ fates'[p] \in Seq([line : Item, fate : Fates])
      /\ \A i \in DOMAIN fates'[p] :
           fates'[p][i].fate = IF fates'[p][i].line.from = "stdout" THEN "lost" ELSE "forwarded"
  <2>1. "lost" \in Fates
    BY DEF Fates
  <2>2. /\ Flow(p)' = Flow(p) /\ Taken(p)' = Taken(p)
        /\ fates'[p] \in Seq([line : Item, fate : Fates])
        /\ \A i \in DOMAIN fates'[p] :
             /\ fates'[p][i].line \in Item
             /\ fates'[p][i].fate =
                  IF plan[p].does = "scan" /\ fates'[p][i].line.from = "stderr"
                  THEN "forwarded" ELSE "lost"
    BY <1>1, <1>2, <1>3, <2>1, FlowDigests DEF OutOK
  <2>3. \A x \in Item : x.from = "stderr" <=> x.from # "stdout"
    BY DEF Item, Streams
  <2>4. QED
    BY <1>1, <2>2, <2>3
<1>7. FlowOK(p)'
  BY <1>1, <1>6, FlowStays DEF OutOK
<1>8. LinesTyped(p)'
  <2>1. <<>> \in Seq(Item)
    OBVIOUS
  <2>2. chan'[p] \in Seq(Item)
    BY <1>3, <2>1
  <2>3. QED
    BY <1>1, <1>4, <1>6, <2>2 DEF OutOK, LinesTyped
<1>9. HeldOK(p)'
  BY <1>1, <1>2, <1>4, <1>6, HeldEnds DEF OutOK
<1>10. EndOK(p)'
  <2>1. Quit(p)'
    BY <1>1, <1>3, <1>4, <1>6 DEF Quit, StopsAt
  <2>2. Proxied(p)
    BY <1>1 DEF Proxied, Invoked
  <2>3. QED
    BY <1>4, <2>1, <2>2 DEF EndOK, InPhase, Proxied, Childless, Reading
<1>11. OutOK(p)'
  BY <1>7, <1>8, <1>9, <1>10 DEF OutOK
<1>12. QED
  BY <1>3, <1>5, <1>11, OutMoves DEF OutCtx

(* All the lines of the files of cat, in their order.                      *)
LEMMA FlowFiles ==
  ASSUME NEW p, plan' = plan, LinesTyped(p), chan[p] = <<>>, chan'[p] = <<>>,
         child[p].left = plan[p].prints, \A s \in Streams : pipe[p][s] = <<>>,
         pipe'[p] = pipe[p], child'[p].left = [child[p].left EXCEPT !["stdout"] = <<>>],
         fates'[p] = [i \in DOMAIN child[p].left["stdout"] |->
                        [line |-> [from |-> "stdout", n |-> i, line |-> child[p].left["stdout"][i]],
                         fate |-> "digested"]]
  PROVE  /\ FlowOK(p)' /\ fates'[p] \in Seq([line : Item, fate : Fates])
         /\ child'[p].left \in [Streams -> Seq(Line)]
<1>1. PICK left : left = child[p].left["stdout"]
  OBVIOUS
<1>2. left \in Seq(Line) /\ child[p].left \in [Streams -> Seq(Line)]
      /\ {"stdout", "stderr"} = Streams
  BY <1>1 DEF LinesTyped, Streams
<1>3. PICK b \in Nat : b = Len(left)
  BY <1>2
<1>4. DOMAIN left = 1 .. b /\ \A i \in 1 .. b : left[i] \in Line
  BY <1>2, <1>3
<1>5. PICK item : item = [i \in 1 .. b |-> [from |-> "stdout", n |-> i, line |-> left[i]]]
  OBVIOUS
<1>6. \A i \in 1 .. b : item[i] \in Item /\ item[i].from = "stdout" /\ item[i].n = i
  BY <1>2, <1>4, <1>5 DEF Item
<1>7. fates'[p] = [i \in 1 .. b |-> [line |-> item[i], fate |-> "digested"]]
  BY <1>1, <1>4, <1>5
<1>8. fates'[p] \in [1 .. b -> [line : Item, fate : Fates]]
  BY <1>6, <1>7 DEF Fates
<1>9. fates'[p] \in Seq([line : Item, fate : Fates]) /\ Len(fates'[p]) = b
  <2>1. PICK f, S : f = fates'[p] /\ S = [line : Item, fate : Fates]
    OBVIOUS
  <2>2. f \in [1 .. b -> S]
    BY <1>8, <2>1, Zenon
  <2>3. f \in Seq(S) /\ Len(f) = b
    BY <2>2, SeqMade
  <2>4. QED
    BY <2>1, <2>3, Zenon
<1>10. Len(chan'[p]) = 0
  OBVIOUS
<1>11. b + 0 = b
  OBVIOUS
<1>12. Taken(p)' = b
  BY <1>9, <1>10, <1>11, Zenon DEF Taken
<1>13. PICK new : new = Flow(p)'
  OBVIOUS
<1>14. new = [i \in 1 .. b |-> IF i <= b THEN fates'[p][i].line ELSE chan'[p][i - b]]
  BY <1>9, <1>12, <1>13 DEF Flow
<1>15. \A i \in 1 .. b : new[i] = item[i]
  BY <1>7, <1>14
<1>16. ASSUME NEW k \in 0 .. b
       PROVE  Nums(new, "stdout", k) = k /\ Nums(new, "stderr", k) = 0
  <2>1. 1 .. k \subseteq 1 .. b
    OBVIOUS
  <2>2. /\ {i \in 1 .. k : new[i].from = "stdout"} = 1 .. k
        /\ {i \in 1 .. k : new[i].from = "stderr"} = {}
    BY <1>6, <1>15, <2>1
  <2>3. Cardinality(1 .. k) = k
    <3>1. k \in Int /\ 1 \in Int
      OBVIOUS
    <3>2. Cardinality(1 .. k) = IF 1 > k THEN 0 ELSE k - 1 + 1
      BY <3>1, FS_Interval
    <3>3. QED
      BY <3>2
  <2>4. QED
    BY <2>2, <2>3, FS_EmptySet DEF Nums
<1>17. ASSUME NEW i \in 1 .. b PROVE new[i].n = Nums(new, new[i].from, i)
  BY <1>6, <1>15, <1>16
<1>18. ASSUME NEW s \in Streams PROVE Counts(p, s, Nums(new, s, b))'
  <2>1. pipe'[p][s] = <<>>
    OBVIOUS
  <2>2. Len(pipe'[p][s]) = 0 /\ DOMAIN pipe'[p][s] = {}
    BY <2>1
  <2>3. b \in 0 .. b
    OBVIOUS
  <2>4. CASE s = "stdout"
    <3>1. child'[p].left[s] = <<>> /\ Len(plan[p].prints[s]) = b
      BY <1>1, <1>2, <1>3, <2>4
    <3>2. Len(child'[p].left[s]) = 0 /\ b + 0 + 0 = b
      BY <3>1
    <3>3. QED
      BY <1>16, <2>2, <2>3, <2>4, <3>1, <3>2 DEF Counts
  <2>5. CASE s = "stderr"
    <3>1. child'[p].left[s] = plan[p].prints[s] /\ plan[p].prints[s] \in Seq(Line)
      BY <1>2, <2>5
    <3>2. PICK c \in Nat : c = Len(plan[p].prints[s])
      BY <3>1
    <3>3. 0 + 0 + c = c
      OBVIOUS
    <3>4. QED
      BY <1>16, <2>2, <2>3, <2>5, <3>1, <3>2, <3>3 DEF Counts
  <2>6. QED
    BY <1>2, <2>4, <2>5
<1>19. FlowOK(p)'
  BY <1>12, <1>13, <1>17, <1>18 DEF FlowOK
<1>20. child'[p].left \in [Streams -> Seq(Line)]
  <2>1. <<>> \in Seq(Line)
    OBVIOUS
  <2>2. QED
    BY <1>2, <2>1
<1>21. QED
  BY <1>9, <1>19, <1>20

LEMMA OutRead ==
  ASSUME OutCtx, plan' = plan, NEW p \in Command, ReadFiles(p)
  PROVE  OutInv'
<1>1. /\ OutShape /\ OutOK(p) /\ Shape /\ run[p].phase = "reading"
      /\ UNCHANGED <<pipe, readers, chan>> /\ Proxied(p) /\ CodeKnown(p)
  BY DEF OutCtx, OutInv, RunInv, RunTyped, ExitInv, ReadFiles, InPhase
<1>2. /\ fates[p] = <<>> /\ chan[p] = <<>> /\ child[p].left = plan[p].prints
      /\ child[p].status = "none" /\ plan[p].does = "cat"
      /\ \A s \in Streams : pipe[p][s] = <<>>
  BY <1>1 DEF OutOK, HeldOK, EndOK, CodeKnown, Before, Childless, InPhase
<1>3. CASE NotText(p)
  <2>1. Exit(p, Failed) /\ UNCHANGED <<child, fates>>
    BY <1>3 DEF ReadFiles
  <2>2. /\ run'[p].phase = "exited" /\ code'[p] = Failed
        /\ \A q \in Command : q # p => code'[q] = code[q]
    BY <1>1, <2>1, ExitMoves, EnterMoves
  <2>3. Settled(p)' /\ OwnCode(p)' = Failed
    BY <1>1, <1>2, <1>3, <2>1 DEF Settled, Drained, OwnCode, NotText
  <2>4. EndOK(p)'
    BY <1>1, <2>2, <2>3 DEF EndOK, InPhase, Proxied, Childless, Reading
  <2>5. "exited" \notin Before
    BY DEF Before
  <2>6. QED
    BY <1>1, <2>1, <2>2, <2>4, <2>5, EnterKeeps, OutQuiet DEF Exit, OutShape
<1>4. CASE ~NotText(p)
  <2>1. /\ child' = [child EXCEPT ![p].left["stdout"] = <<>>] /\ Outcome(p, 0)
        /\ fates'[p] = [i \in DOMAIN child[p].left["stdout"] |->
              [line |-> [from |-> "stdout", n |-> i, line |-> child[p].left["stdout"][i]],
               fate |-> "digested"]]
        /\ \A q \in Command : q # p => fates'[q] = fates[q]
        /\ OutShape'
    BY <1>1, <1>4 DEF ReadFiles, OutShape
  <2>2. /\ child'[p].left = [child[p].left EXCEPT !["stdout"] = <<>>]
        /\ child'[p].status = "none"
        /\ \A q \in Command : q # p => child'[q] = child[q]
    BY <1>1, <1>2, <2>1 DEF Shape
  <2>3. /\ Locals \subseteq DOMAIN run'[p] /\ run'[p].states = run[p].states
        /\ \A q \in Command : q # p => run'[q] = run[q] /\ code'[q] = code[q]
        /\ \/ run'[p].phase = "waited" /\ code' = code
           \/ run'[p].phase = "exited" /\ code'[p] = Panic
    BY <2>1, OutcomeKeeps
  <2>4. /\ FlowOK(p)' /\ fates'[p] \in Seq([line : Item, fate : Fates])
        /\ child'[p].left \in [Streams -> Seq(Line)]
    BY <1>1, <1>2, <2>1, <2>2, FlowFiles DEF OutOK
  <2>5. LinesTyped(p)'
    BY <1>1, <2>3, <2>4 DEF OutOK, LinesTyped
  <2>6. HeldOK(p)'
    <3>1. \A i \in DOMAIN fates'[p] : fates'[p][i].fate # "suppressed"
      BY <2>1
    <3>2. QED
      BY <1>1, <1>2, <2>3, <3>1, HeldEnds DEF OutOK
  <2>7. Settled(p)'
    BY <1>1, <1>2, <2>2 DEF Settled, Drained
  <2>8. EndOK(p)'
    BY <1>1, <2>3, <2>7 DEF EndOK, InPhase, Proxied, Childless, Reading
  <2>9. OutOK(p)' /\ \A q \in Command : q # p => Untouched(q)
    BY <1>1, <2>1, <2>2, <2>3, <2>4, <2>5, <2>6, <2>8 DEF OutOK, Untouched
  <2>10. QED
    BY <2>1, <2>9, OutMoves DEF OutCtx
<1>5. QED
  BY <1>3, <1>4

(* The vault, the exit, the other commands and kills.                      *)
LEMMA OutHost ==
  ASSUME OutCtx, plan' = plan, NEW p \in Command,
         Record(p) \/ Finish(p) \/ Administers(p) \/ Administered(p) \/ Kill(p)
  PROVE  OutInv'
<1>1. /\ OutShape /\ EndOK(p) /\ Shape /\ RunTyped(p) /\ (Proxied(p) => CodeKnown(p))
      /\ readers = [q \in Command |-> readers[q]]
      /\ UNCHANGED <<child, pipe, chan, fates>>
  BY DEF OutCtx, OutInv, OutOK, RunInv, ExitInv, Record, Finish, Administers, Administered, Kill,
         ProxyCrash
<1>2. /\ chan' = [q \in Command |-> chan'[q]]
      /\ {"stats", "busy", "exited", "dead"}
           \cap (Before \cup Childless \cup Reading \cup {"piping"}) = {}
      /\ Settled(p)' = Settled(p)
  BY <1>1 DEF OutShape, Before, Childless, Reading, Settled, Drained, StopsAt
<1>3. CASE Finish(p)
  <2>1. Exit(p, FinalCode(p)) /\ InPhase(p, "stats") /\ readers' = readers
    BY <1>3 DEF Finish
  <2>2. /\ run'[p].phase = "exited" /\ code'[p] = FinalCode(p)
        /\ \A q \in Command : q # p => code'[q] = code[q]
    BY <1>1, <2>1, ExitMoves, EnterMoves
  <2>3. Proxied(p) /\ Settled(p)
    BY <1>1, <2>1 DEF RunTyped, InPhase, EndOK
  <2>4. run[p].code = OwnCode(p)
    BY <1>1, <2>1, <2>3 DEF CodeKnown, InPhase, OwnCode, Settled, Drained, StopsAt, Streams, Ended
  <2>5. OwnCode(p)' = OwnCode(p)
    BY <1>1 DEF OwnCode, NotText, StopsAt, ChildCode
  <2>6. code'[p] = Panic \/ code'[p] = OwnCode(p)'
    BY <2>2, <2>4, <2>5 DEF FinalCode
  <2>7. EndOK(p)'
    BY <1>1, <1>2, <2>2, <2>3, <2>6 DEF EndOK, InPhase, Proxied
  <2>8. QED
    BY <1>1, <1>2, <2>1, <2>2, <2>7, EnterKeeps, OutQuiet DEF Exit
<1>4. ASSUME NEW phase, Enter(p, phase), code' = code,
             \A q \in Command : q # p => readers'[q] = readers[q],
             \/ phase = "stats" /\ InPhase(p, "waited")
             \/ phase = "busy"
             \/ phase = "exited" /\ InPhase(p, "busy")
             \/ phase = "dead"
      PROVE  OutInv'
  <2>1. run'[p].phase = phase
    BY <1>4, EnterKeeps
  <2>2. phase = "stats" => Settled(p)
    BY <1>1, <1>4 DEF EndOK, InPhase
  <2>3. phase = "exited" => ~Proxied(p)
    BY <1>1, <1>4 DEF CodeKnown
  <2>4. EndOK(p)'
    BY <1>1, <1>2, <1>4, <2>1, <2>2, <2>3 DEF EndOK, InPhase, Proxied
  <2>5. QED
    BY <1>1, <1>2, <1>4, <2>1, <2>4, EnterKeeps, OutQuiet
<1>5. CASE Record(p)
  BY <1>4, <1>5 DEF Record
<1>6. CASE Administers(p)
  BY <1>4, <1>6 DEF Administers
<1>7. CASE Administered(p)
  BY <1>4, <1>7 DEF Administered
<1>8. CASE Kill(p)
  <2>1. \A q \in Command : q # p => readers'[q] = readers[q]
    BY <1>1, <1>8 DEF Kill, ProxyCrash
  <2>2. QED
    BY <1>4, <1>8, <2>1 DEF Kill, ProxyCrash
<1>9. QED
  BY <1>3, <1>5, <1>6, <1>7, <1>8

LEMMA OutStays ==
  ASSUME OutInv, UNCHANGED <<plan, proxyVars>>
  PROVE  OutInv'
<1>1. \A q \in Command : OutOK(q) /\ Untouched(q)
  BY DEF OutInv, Untouched, proxyVars
<1>2. \A q \in Command : OutOK(q)'
  BY <1>1, OutOthers
<1>3. OutShape'
  BY DEF OutInv, OutShape, proxyVars
<1>4. QED
  BY <1>2, <1>3 DEF OutInv

LEMMA OutInit == HostInit => OutInv
<1> SUFFICES ASSUME HostInit PROVE OutInv
  OBVIOUS
<1>1. /\ plan \in Plans
      /\ child = [p \in Command |-> NoChild(p)]
      /\ pipe = [p \in Command |-> [s \in Streams |-> <<>>]]
      /\ chan = [p \in Command |-> <<>>]
      /\ run = [p \in Command |-> Local("off", <<>>)]
      /\ fates = [p \in Command |-> <<>>]
      /\ code = [p \in Command |-> NoCode]
  BY DEF HostInit, ProxyInit
<1>2. OutShape
  BY <1>1 DEF OutShape
<1>3. ASSUME NEW p \in Command PROVE OutOK(p)
  <2>1. /\ child[p].status = "none" /\ child[p].left = plan[p].prints
        /\ pipe[p] = [s \in Streams |-> <<>>]
        /\ chan[p] = <<>> /\ fates[p] = <<>> /\ code[p] = NoCode
        /\ run[p] = Local("off", <<>>)
    BY <1>1 DEF NoChild
  <2>2. run[p].phase = "off" /\ run[p].states = <<>> /\ Locals \subseteq DOMAIN run[p]
    BY <2>1 DEF Local, Locals
  <2>3. plan[p].prints \in [Streams -> Seq(Line)]
    BY <1>1, PlanTypes
  <2>4. LinesTyped(p)
    <3>1. \A S : <<>> \in Seq(S)
      OBVIOUS
    <3>2. pipe[p] \in [Streams -> Seq(Item)]
      BY <2>1, <3>1
    <3>3. QED
      BY <2>1, <2>2, <2>3, <3>1, <3>2 DEF LinesTyped
  <2>5. HeldOK(p)
    <3>1. HeldBack(p) = {} /\ Suppressed(p) = {}
      BY <2>1, <2>2 DEF HeldBack, Suppressed
    <3>2. IsFiniteSet({}) /\ Cardinality({}) = 0
      BY FS_EmptySet
    <3>3. QED
      BY <2>1, <2>2, <3>1, <3>2 DEF HeldOK, InPhase
  <2>6. FlowOK(p)
    BY <2>1, <2>3, FlowStart
  <2>7. EndOK(p)
    BY <2>1, <2>2 DEF EndOK, InPhase, Childless, Reading
  <2>8. QED
    BY <2>4, <2>5, <2>6, <2>7 DEF OutOK
<1>4. QED
  BY <1>2, <1>3 DEF OutInv

LEMMA OutNext == OutCtx /\ [HostNext]_hostVars => OutInv'
<1> SUFFICES ASSUME OutCtx, [HostNext]_hostVars PROVE OutInv'
  OBVIOUS
<1>1. CASE UNCHANGED hostVars
  BY <1>1, OutStays DEF OutCtx, hostVars
<1>2. ASSUME NEW p \in Command, Proxy(p), plan' = plan PROVE OutInv'
  <2>1. CASE MainThread(p)
    BY <1>2, <2>1, OutReceive, OutMain, OutNative, OutRerun, OutScanFails, OutRead DEF MainThread
  <2>2. CASE Outside(p)
    BY <1>2, <2>2, OutSpawn, OutChild, OutPrints DEF Outside
  <2>3. CASE \E s \in Streams : Reader(p, s)
    BY <1>2, <2>3, OutReader
  <2>4. QED
    BY <1>2, <2>1, <2>2, <2>3 DEF Proxy
<1>3. ASSUME NEW p \in Command, InVault(p), plan' = plan PROVE OutInv'
  BY <1>3, OutStays DEF OutCtx, InVault
<1>4. QED
  BY <1>1, <1>2, <1>3, OutHost DEF HostNext

(* The invariant gives what was received, and in which order.              *)
LEMMA OutAccounts == OutCtx => OutputIsAccounted
<1> SUFFICES ASSUME OutCtx, NEW p \in Command
             PROVE  /\ InOrder(p)
                    /\ Reported(p) =>
                         \/ \A s \in Streams : AllReceived(p, s) \/ (s = "stderr" /\ StopsAt(p, s))
                         \/ GaveUp(p) /\ \A i \in DOMAIN fates[p] :
                              fates[p][i].fate = (IF fates[p][i].line.from = "stdout" THEN "lost"
                                                                                     ELSE "forwarded")
                    /\ Cardinality(HeldBack(p)) <= Cardinality(Suppressed(p))
  BY DEF OutputIsAccounted
<1>1. /\ LinesTyped(p) /\ HeldOK(p) /\ FlowOK(p) /\ EndOK(p) /\ Shape
      /\ (Proxied(p) => CodeKnown(p)) /\ plan \in Plans
  BY DEF OutCtx, OutInv, OutOK, RunInv, ExitInv
<1>2. PICK a \in Nat, b \in Nat : a = Len(fates[p]) /\ b = Len(chan[p])
  BY <1>1 DEF LinesTyped
<1>3. Taken(p) = a + b
  BY <1>2, Zenon DEF Taken
<1>4. DOMAIN fates[p] = 1 .. a
  BY <1>1, <1>2 DEF LinesTyped
<1>5. \A i \in 1 .. a : i \in 1 .. a + b /\ i <= a /\ 1 .. i \subseteq 1 .. a
  OBVIOUS
<1>6. Flow(p) = [i \in 1 .. a + b |-> IF i <= a THEN fates[p][i].line ELSE chan[p][i - a]]
  BY <1>2, <1>3 DEF Flow
<1>7. \A i \in 1 .. a : Flow(p)[i] = fates[p][i].line
  BY <1>5, <1>6
<1>8. ASSUME NEW s, NEW k, 1 .. k \subseteq 1 .. a
      PROVE  Nums(Flow(p), s, k) = Received(p, s, k)
  <2>1. {i \in 1 .. k : Flow(p)[i].from = s} = {i \in 1 .. k : fates[p][i].line.from = s}
    BY <1>7, <1>8
  <2>2. QED
    BY <2>1 DEF Nums, Received
<1>9. InOrder(p)
  <2>1. ASSUME NEW i \in 1 .. a
        PROVE  fates[p][i].line.n = Received(p, fates[p][i].line.from, i)
    <3>1. Flow(p)[i].n = Nums(Flow(p), Flow(p)[i].from, i)
      BY <1>1, <1>3, <1>5 DEF FlowOK
    <3>2. QED
      BY <1>5, <1>7, <1>8, <3>1
  <2>2. QED
    BY <1>4, <2>1 DEF InOrder
<1>10. ASSUME chan[p] = <<>>, NEW s \in Streams, pipe[p][s] = <<>>
       PROVE  AllReceived(p, s)
  <2>1. Len(chan[p]) = 0
    BY <1>10
  <2>2. b = 0
    BY <1>2, <2>1
  <2>3. Taken(p) = a
    BY <1>3, <2>2
  <2>4. Len(pipe[p][s]) = 0
    BY <1>10
  <2>5. PICK c \in Nat : c = Len(child[p].left[s])
    BY <1>1 DEF LinesTyped
  <2>6. PICK k \in Nat : k = Nums(Flow(p), s, a)
    BY NumsType
  <2>7. k + 0 + c = Len(plan[p].prints[s])
    BY <1>1, <2>3, <2>4, <2>5, <2>6 DEF FlowOK, Counts
  <2>8. (k + 0 + c) - c = k
    OBVIOUS
  <2>9. Received(p, s, a) = k
    BY <1>8, <2>6
  <2>10. QED
    BY <1>2, <2>5, <2>7, <2>8, <2>9 DEF AllReceived
<1>11. ASSUME Reported(p) PROVE Settled(p) \/ Quit(p)
  <2>1. CASE run[p].phase \in {"waited", "stats"}
    BY <1>1, <2>1 DEF EndOK
  <2>2. CASE code[p] \in {0, Failed, Killed}
    <3>1. code[p] # NoCode /\ code[p] # Panic
      BY <2>2 DEF NoCode, Panic, Failed, Killed
    <3>2. Proxied(p) /\ InPhase(p, "exited")
      BY <1>1, <3>1 DEF EndOK, CodeKnown
    <3>3. QED
      BY <1>1, <3>1, <3>2 DEF EndOK
  <2>3. QED
    BY <1>11, <2>1, <2>2 DEF Reported
<1>12. ASSUME Settled(p), NEW s \in Streams
       PROVE  AllReceived(p, s) \/ (s = "stderr" /\ StopsAt(p, s))
  BY <1>10, <1>12 DEF Settled, Drained
<1>13. Quit(p) => GaveUp(p) /\ \A i \in DOMAIN fates[p] :
                    fates[p][i].fate = (IF fates[p][i].line.from = "stdout" THEN "lost"
                                                                           ELSE "forwarded")
  BY DEF Quit, GaveUp
<1>14. QED
  BY <1>1, <1>9, <1>11, <1>12, <1>13 DEF HeldOK

(* The invariant gives the exit code: a panic needs an output nobody reads. *)
LEMMA OutCode == OutCtx => ExitCodeIsChilds
<1> SUFFICES ASSUME OutCtx, NEW p \in Command, Proxied(p), code[p] # NoCode
             PROVE  code[p] = OwnCode(p) \/ (~sink[p] /\ code[p] = Panic)
  BY DEF ExitCodeIsChilds
<1>1. EndOK(p) /\ CodeKnown(p) /\ ChildCode(p) \in {0, 1, Killed}
  BY PlanCodes DEF OutCtx, OutInv, OutOK, RunInv, ExitInv
<1>2. InPhase(p, "exited")
  BY <1>1 DEF CodeKnown
<1>3. CASE code[p] = Panic
  BY <1>1, <1>2, <1>3 DEF CodeKnown, Panic, Failed, Killed
<1>4. Quit(p) => OwnCode(p) = Failed /\ code[p] = Failed
  BY DEF Quit, OwnCode, StopsAt
<1>5. QED
  BY <1>1, <1>2, <1>3, <1>4 DEF EndOK

LEMMA OutAlways == HostSpec => []OutCtx
<1>1. HostSpec => [](RunInv /\ ExitInv)
  BY TypeAlways, ExitAlways, PTL DEF TypeInv
<1>2. (RunInv /\ ExitInv) /\ OutInv /\ [HostNext]_hostVars => OutInv'
  BY OutNext DEF OutCtx
<1>3. (RunInv /\ ExitInv) /\ OutInv => OutCtx
  BY DEF OutCtx
<1>4. QED
  BY <1>1, <1>2, <1>3, OutInit, PTL DEF HostSpec

(* Whatever the readers, the child and whoever reads jkr's output do, the   *)
(* lines of a stream are taken in its order, none twice, and when jkr has   *)
(* an outcome all of them were, but for the standard error of grep and ls   *)
(* after a line that is not UTF-8, and for a grep or ls that gave up at     *)
(* such a line on standard output and prints nothing it took from there;    *)
(* the rules hold no line that is not counted as suppressed.                *)
THEOREM OutputCorrect == HostSpec => []OutputIsAccounted
BY OutAlways, OutAccounts, PTL

(* Whatever becomes of its record in the vault, of other invocations and of *)
(* the reader of its output, jkr exits with the code of the command it ran, *)
(* but for a command that could not be started or was ended by a signal, a  *)
(* panic over output nobody reads, a grep or ls that gave up at a line that *)
(* is not UTF-8, and cat, which runs none.                                  *)
THEOREM ExitCodeCorrect == HostSpec => []ExitCodeIsChilds
BY OutAlways, OutCode, PTL

=============================================================================
