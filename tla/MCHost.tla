------------------------------- MODULE MCHost -------------------------------
\* Host for TLC.  Plans: one command with both streams, one for each rule on
\* one stream, one for each handler, and commands that meet in the vault.
EXTENDS Host

MCCommand == 1 .. 3

MCLine == {"a1", "a2", "b", "blank", "bad"}
MCKeyOf == [l \in MCLine |-> CASE l \in {"a1", "a2"} -> "a" [] OTHER -> l]
MCWidth == [l \in MCLine |-> IF l = "a2" THEN 2 ELSE 1]

NoBudget == 9
Lines(out, err) == [s \in Streams |-> IF s = "stdout" THEN out ELSE err]

Does(does) ==
  [does |-> does, prints |-> Lines(<<>>, <<>>), code |-> 0, mortal |-> FALSE, rules |-> <<>>,
   budget |-> NoBudget, buffered |-> FALSE, head |-> FALSE]

Runs(prints, rules) == [Does("run") EXCEPT !.prints = prints, !.rules = rules]

ARule(type, pattern, keep, cap, blanks) ==
  [type |-> type, pattern |-> pattern, keep |-> keep, cap |-> cap, blanks |-> blanks]

As == {"a1", "a2"}
Dedup == ARule("dedup", As, 0, 0, FALSE)
Group == ARule("group", MCLine, 1, 2, FALSE)
Suppress == ARule("suppress", {"b"}, 0, 0, FALSE)

RuleLists ==
  {<<Dedup>>, <<Group>>, <<Suppress, Dedup>>,
   <<ARule("keep", As, 0, 0, FALSE), ARule("repeats", As, 0, 0, FALSE)>>,
   <<ARule("run", As, 1, 0, TRUE), ARule("shorten", {"a2"}, 0, 0, FALSE)>>,
   <<ARule("prefix", As, 1, 0, FALSE), ARule("empty", {}, 0, 0, FALSE)>>}

Alone(program) == <<program, Does("nothing"), Does("nothing")>>

OneStream == {Alone([Runs(Lines(<<"a1", "a2", "blank", "blank", "a1", "bad", "b">>, <<>>), rules)
                       EXCEPT !.code = 1]) : rules \in RuleLists}

TwoStreams ==
  {Alone([Runs(Lines(<<"a1", "a2">>, <<"b", "blank">>), <<Suppress>>)
            EXCEPT !.code = 1, !.mortal = TRUE, !.head = TRUE, !.buffered = b, !.budget = 2]) :
     b \in BOOLEAN}

Handled ==
  {Alone([Does(does) EXCEPT !.prints = Lines(out, err), !.mortal = m, !.head = TRUE]) :
     does \in {"native", "diff"}, out \in {<<"a1", "bad">>}, err \in {<<"b">>}, m \in BOOLEAN}
  \cup {Alone([Does("scan") EXCEPT !.prints = Lines(out, err), !.head = TRUE]) :
           out \in {<<"a1", "b">>, <<"a1", "bad", "a2">>}, err \in {<<"b">>, <<"bad", "b">>}}
  \cup {Alone([Does("cat") EXCEPT !.prints = Lines(out, <<>>), !.head = TRUE]) :
           out \in {<<"a1", "a2">>, <<"a1", "bad">>}}

InTheVault ==
  {<<Does("native"), Does(other), Does("nothing")>> :
     other \in {"native", "gain", "reset", "rotate", "clean"}}
  \cup {<<Does(first), Does("gain"), Does("gain")>> : first \in {"native", "clean"}}

MCPlans == OneStream \cup TwoStreams \cup Handled \cup InTheVault
=============================================================================
