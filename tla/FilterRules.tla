---------------------------- MODULE FilterRules ----------------------------
(***************************************************************************)
(* The rules of jkr-filter.  A rule looks at one line at a time, may keep  *)
(* a state from line to line, and answers "none", "suppress" or "short"    *)
(* (the line is replaced by less); the first answer that is not "none"     *)
(* ends the list of rules for that line.  Regular expressions, prefixes    *)
(* and lengths are sets of lines here, a capture is the key of a line.     *)
(***************************************************************************)
EXTENDS Naturals, FiniteSets, SequencesExt

CONSTANTS
  Line,       \* what a command prints, a line at a time
  Blank,      \* the lines with nothing but white space
  KeyOf,      \* line -> what a rule captures of it
  NoKey

ASSUME FilterAssumption == /\ Blank \subseteq Line
                           /\ \A l \in Line : KeyOf[l] # NoKey

\* SuppressPrefix, SuppressRegex and SuppressRegexSet are "suppress";
\* TruncateMatch, TruncateMatchSet, TruncateLong, ContextWindow and
\* SubstituteWords are "shorten", with the lines they change as the pattern;
\* of CollapseCommonPrefix the pattern is the lines that are long enough.
Stateless == {"suppress", "keep", "shorten"}
Counting  == {"repeats", "run", "prefix", "empty"}
Gathering == {"dedup", "group"}

Rule == [type : Stateless \cup Counting \cup Gathering, pattern : SUBSET Line,
         keep : Nat,          \* keep_first, or cap_per_key of a group
         cap : Nat,           \* total_cap of a group
         blanks : BOOLEAN]    \* ignore_blanks of a run

\* compile: last and count of the collapsing rules; seen of the gathering ones,
\* an IndexMap from key to the lines kept and the number of further ones.
Compiled == [last |-> NoKey, count |-> 0, seen |-> <<>>, dropped |-> 0]

Says(answer, state) == [answer |-> answer, state |-> state]

ApplyStateless(rule, st, l) ==
  Says(CASE rule.type = "suppress" /\ l \in rule.pattern -> "suppress"
         [] rule.type = "keep" /\ l \notin rule.pattern -> "suppress"
         [] rule.type = "shorten" /\ l \in rule.pattern -> "short"
         [] OTHER -> "none", st)

\* CollapseRepeats
ApplyRepeats(rule, st, l) ==
  IF l \in rule.pattern
  THEN Says(IF st.last = KeyOf[l] THEN "suppress" ELSE "none", [st EXCEPT !.last = KeyOf[l]])
  ELSE Says("none", [st EXCEPT !.last = NoKey])

\* CollapseRun
ApplyRun(rule, st, l) ==
  CASE l \in rule.pattern ->
         Says(IF st.count + 1 > rule.keep THEN "suppress" ELSE "none",
              [st EXCEPT !.count = @ + 1])
    [] l \notin rule.pattern /\ rule.blanks /\ l \in Blank -> Says("none", st)
    [] OTHER -> Says("none", [st EXCEPT !.count = 0])

\* CollapseCommonPrefix
ApplyPrefix(rule, st, l) ==
  LET n == IF st.last = KeyOf[l] THEN st.count + 1 ELSE 1
  IN  IF l \in rule.pattern
      THEN Says(IF n > rule.keep THEN "suppress" ELSE "none",
                [st EXCEPT !.last = KeyOf[l], !.count = n])
      ELSE Says("none", [st EXCEPT !.last = NoKey, !.count = 0])

\* EmptyResultSubstitute: counts the lines that reach it.
ApplyEmpty(rule, st, l) == Says("none", [st EXCEPT !.count = @ + 1])

Bucket(st, k) == {i \in DOMAIN st.seen : st.seen[i].key = k}
Opened(st, k) == IF Bucket(st, k) # {} THEN st.seen
                 ELSE Append(st.seen, [key |-> k, lines |-> <<>>, more |-> 0])

\* DedupWithCount: the first line of each key, and how many more there were.
ApplyDedup(rule, st, l) ==
  LET k == KeyOf[l]
      seen == [i \in DOMAIN Opened(st, k) |->
                 IF Opened(st, k)[i].key # k THEN st.seen[i]
                 ELSE IF Bucket(st, k) = {} THEN [key |-> k, lines |-> <<l>>, more |-> 0]
                 ELSE [st.seen[i] EXCEPT !.more = @ + 1]]
  IN  IF l \in rule.pattern THEN Says("suppress", [st EXCEPT !.seen = seen]) ELSE Says("none", st)

\* total_kept of a group: the lines kept in all its buckets.
TotalKept(st) == FoldLeft(LAMBDA n, b : n + Len(b.lines), 0, st.seen)

\* GroupByCapture: a key's bucket is opened even when no line fits any more.
ApplyGroup(rule, st, l) ==
  LET k == KeyOf[l]
      open == Opened(st, k)
      i == CHOOSE j \in DOMAIN open : open[j].key = k
      roomInKey == Len(open[i].lines) < rule.keep
      room == TotalKept(st) < rule.cap
      next == [st EXCEPT !.seen =
                 CASE roomInKey /\ room  -> [open EXCEPT ![i].lines = Append(@, l)]
                   [] ~roomInKey /\ room -> [open EXCEPT ![i].more = @ + 1]
                   [] OTHER -> open,
               !.dropped = IF room THEN @ ELSE @ + 1]
  IN  IF l \in rule.pattern THEN Says("suppress", next) ELSE Says("none", st)

\* CompiledRule::apply
Apply(rule, st, l) ==
  CASE rule.type \in Stateless -> ApplyStateless(rule, st, l)
    [] rule.type = "repeats" -> ApplyRepeats(rule, st, l)
    [] rule.type = "run" -> ApplyRun(rule, st, l)
    [] rule.type = "prefix" -> ApplyPrefix(rule, st, l)
    [] rule.type = "empty" -> ApplyEmpty(rule, st, l)
    [] rule.type = "dedup" -> ApplyDedup(rule, st, l)
    [] rule.type = "group" -> ApplyGroup(rule, st, l)

\* FilterPlugin::filter over the rules of the groups that match the command, in
\* order: a rule behind the first answer does not see the line.
Filter(rules, states, l) ==
  LET says == [i \in DOMAIN rules |-> Apply(rules[i], states[i], l)]
      answers == {i \in DOMAIN rules : says[i].answer # "none"}
      reached == {i \in DOMAIN rules : \A j \in answers : i <= j}
  IN  Says(IF answers = {} THEN "none" ELSE says[CHOOSE i \in answers : i \in reached].answer,
           [i \in DOMAIN rules |-> IF i \in reached THEN says[i].state ELSE states[i]])

\* Where a gathering rule has the lines it holds back for a summary or counts:
\* each bucket's, and those there was no room for.
Gathered(st) ==
  {0} \X (1 .. st.dropped)
  \cup UNION {{b} \X (1 .. Len(st.seen[b].lines) + st.seen[b].more) : b \in DOMAIN st.seen}
=============================================================================
