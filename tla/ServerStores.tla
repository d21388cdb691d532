---------------------------- MODULE ServerStores ----------------------------
(***************************************************************************)
(* What the handlers of jkr-server share: the requests being served, and   *)
(* the bounded rings of finished calls and runs.  A ring lives in memory;  *)
(* with PostgreSQL every push also spawns a task that inserts a row and    *)
(* then trims the table, and the readers go to the table.  A handler does  *)
(* not wait for the task.                                                  *)
(***************************************************************************)
EXTENDS Naturals, FiniteSets, SequencesExt

CONSTANTS
  Req,          \* requests whose handlers take several steps, one use each
  RingCap,      \* MAX_RECENT_LLM_CALLS, MAX_CAPTURED_CALLS, SANDBOX_RECENT_CAP
  Settings,     \* how a server is set up, and what its clients ask of it
  MaxRestarts   \* bound: how often the process dies and boots again

Route == {"login", "logto", "logout", "switch", "token", "llm", "captured",
          "drain", "sandbox", "ingest", "stream"}

\* open: the routes served in one step that clients use; asks: the routes each
\* request may be for ("stream": a call of "llm" whose body asks for a stream).
Setting == [open : SUBSET Route, asks : [Req -> SUBSET Route],
            pg : BOOLEAN, redis : BOOLEAN, capture : BOOLEAN]

ASSUME StoresAssumption == /\ RingCap \in Nat \ {0}
                           /\ MaxRestarts \in Nat
                           /\ Settings \subseteq Setting

Store == {"recent", "captured", "sandbox"}

VARIABLES
  setting,      \* the settings of this server
  req,          \* request -> where its handler is, and what it holds
  ring,         \* store -> the in-memory ring, oldest first
  table,        \* store -> the rows of its table, by id
  tasks,        \* spawned writer tasks that have not ended
  torn,         \* trims that were due and did not happen, since the last that did
  restarts      \* how often the process has been restarted

storeVars == <<ring, table, tasks, torn>>

pg      == setting.pg        \* DATABASE_URL is set: pg_pool is Some
redis   == setting.redis     \* REDIS_URL is set
capture == setting.capture   \* JKR_CAPTURE_BODIES is set

\* route: a request is dispatched to the handler of its route.
Served(route) == route \in setting.open

Unused == [at |-> "unused"]
Done   == [at |-> "done"]

Routed(r, route) == req[r].at = "unused" /\ route \in setting.asks[r]

\* f with k mapped to v.
Put(f, k, v) == [x \in DOMAIN f \cup {k} |-> IF x = k THEN v ELSE f[x]]

\* The newest RingCap entries.
Newest(s) == IF Len(s) > RingCap THEN SubSeq(s, Len(s) - RingCap + 1, Len(s)) ELSE s

\* The entries of s at some of its places, in their order.
Kept(s, places) ==
  [k \in 1 .. Cardinality(places) |->
     s[CHOOSE i \in places : Cardinality({j \in places : j <= i}) = k]]

\* Mutant: one row too many is kept.
Trimmed_OneMore(store, rows) == IF Len(rows) > RingCap + 1 THEN Tail(rows) ELSE rows

\* The rows a trim keeps: of captured_calls the newest of every owner, of the
\* other tables the newest.  A row is [id, tag]: the
\* tag of a captured call is its owner, of a sandbox run its outcome.
Trimmed(store, rows) ==
  IF store = "captured"
  THEN LET newer(i) == {j \in i + 1 .. Len(rows) : rows[j].tag = rows[i].tag}
       IN  Kept(rows, {i \in 1 .. Len(rows) : Cardinality(newer(i)) < RingCap})
  ELSE Newest(rows)

\* push_captured, push_receipt and push_sandbox_run: the ring under its lock,
\* then the task.
Push(store, row) ==
  /\ ring' = [ring EXCEPT ![store] = Newest(Append(@, row))]
  /\ tasks' = IF pg THEN tasks \cup {[store |-> store, row |-> row, step |-> "insert"]}
                    ELSE tasks

\* The INSERT returns an error, with its row written or not.  Only the receipt's
\* task goes on.
TaskFails(t) ==
  /\ t.step = "insert"
  /\ tasks' = (tasks \ {t}) \cup
              (IF t.store = "recent" THEN {[t EXCEPT !.step = "trim"]} ELSE {})
  /\ \/ UNCHANGED <<table, torn>>
     \/ /\ table' = [table EXCEPT ![t.store] = Append(@, t.row)]
        /\ torn' = [torn EXCEPT ![t.store] = IF t.store = "recent" THEN @ ELSE @ + 1]
  /\ UNCHANGED ring

TaskInserts(t) ==
  /\ t.step = "insert"
  /\ table' = [table EXCEPT ![t.store] = Append(@, t.row)]
  /\ tasks' = (tasks \ {t}) \cup {[t EXCEPT !.step = "trim"]}
  /\ UNCHANGED <<ring, torn>>

\* After the DELETE the receipt's task puts the receipt on the queue.
AfterTrim(t) ==
  tasks' = (tasks \ {t}) \cup
           (IF t.store = "recent" THEN {[t EXCEPT !.step = "enqueue"]} ELSE {})

\* DELETE ... WHERE id NOT IN (the newest) ...
TaskTrims(t) ==
  /\ t.step = "trim"
  /\ table' = [table EXCEPT ![t.store] = Trimmed(t.store, @)]
  /\ AfterTrim(t)
  /\ torn' = [torn EXCEPT ![t.store] = 0]
  /\ UNCHANGED ring

\* ... whose error is not looked at.
TaskTrimFails(t) ==
  /\ t.step = "trim"
  /\ AfterTrim(t)
  /\ torn' = [torn EXCEPT ![t.store] = @ + 1]
  /\ UNCHANGED <<ring, table>>

StoresInit ==
  /\ setting \in Settings
  /\ req = [r \in Req |-> Unused]
  /\ ring = [s \in Store |-> <<>>]
  /\ table = [s \in Store |-> <<>>]
  /\ tasks = {}
  /\ torn = [s \in Store |-> 0]
  /\ restarts = 0

\* The process dies and boots again: memory and tasks are gone, the tables stay.
StoresRestart ==
  /\ restarts < MaxRestarts
  /\ restarts' = restarts + 1
  /\ req' = [r \in Req |-> IF req[r] = Unused THEN Unused ELSE Done]
  /\ ring' = [s \in Store |-> <<>>]
  /\ tasks' = {}
  /\ torn' = [s \in Store |-> torn[s] +
                Cardinality({t \in tasks : t.store = s /\ t.step = "trim"})]
  /\ UNCHANGED <<setting, table>>

-----------------------------------------------------------------------------
\* The rows that share a cap: those of one owner among the captured calls.
Sharing(s, owner) ==
  {i \in DOMAIN table[s] : s = "captured" => table[s][i].tag = owner}

(***************************************************************************)
(* A table (of captured calls: the rows of an owner) outgrows its cap only *)
(* by as many rows as trims are still to come, or were due since the last  *)
(* that worked and did not happen: the DELETE failed, a restart cut it     *)
(* off, or an INSERT whose answer was lost ended its task.  Whatever the   *)
(* order in which the tasks of concurrent calls insert and trim, one trim  *)
(* that works makes up for all that did not.                               *)
(***************************************************************************)
TablesTrimmed ==
  \A s \in Store : \A t \in Range(table[s]) :
     Cardinality(Sharing(s, t.tag)) <=
       RingCap + torn[s] + Cardinality({u \in tasks : u.store = s /\ u.step = "trim"})
=============================================================================
