---------------------------- MODULE Server_proofs ----------------------------
(***************************************************************************)
(* The server as a whole, for any number of requests, sessions, states,    *)
(* tokens and restarts: sign-in and sign-out, answered calls, run          *)
(* counters, captured calls, receipts, types and permits, trimmed tables.  *)
(***************************************************************************)
EXTENDS Server, FiniteSetTheorems, TLAPS

\* The places between a read of sessions or states and the write that follows.
Between == {"switch", "exchange"}

(* What the handlers hold across an await.  A switch holds a session that  *)
(* was drawn and, if it has been removed, was so after the switch had read *)
(* it; an exchange holds a state nobody else holds, that is not pending    *)
(* and has led to no session.                                              *)
HeldBySwitch ==
  \A r \in Req : req[r].at = "switch" =>
    req[r].sid \in drawn /\ (req[r].sid \in DOMAIN gone => r \in gone[req[r].sid])

HeldByExchange ==
  \A r \in Req : req[r].at = "exchange" =>
    /\ req[r].state \in drawn \ pending
    /\ \A s \in DOMAIN loginOf : loginOf[s] # req[r].state
    /\ \A q \in Req : req[q].at = "exchange" /\ req[q].state = req[r].state => q = r

(* What the stores and the history say of one another.                     *)
Known ==
  /\ Stored \subseteq drawn \ DOMAIN gone
  /\ DOMAIN gone \cup pending \cup DOMAIN loginOf \subseteq drawn
  /\ \A s \in DOMAIN loginOf : loginOf[s] \in drawn \ pending
  /\ \A s, t \in DOMAIN loginOf : loginOf[s] = loginOf[t] => s = t

signVars == <<sess, pending, drawn, gone, loginOf>>

IsRequests(f) == f = [r \in Req |-> f[r]]

WebInv == IsRequests(req) /\ HeldBySwitch /\ HeldByExchange /\ Known

(* Request r moves to a place that holds nothing of sessions or states.    *)
Leaves(r) ==
  /\ IsRequests(req')
  /\ \A q \in Req : q # r => req'[q] = req[q]
  /\ req'[r].at \notin Between

-----------------------------------------------------------------------------
(* How a request moves.                                                    *)
LEMMA ToMoves ==
  ASSUME IsRequests(req), NEW r \in Req, NEW x, To(r, x)
  PROVE  /\ IsRequests(req')
         /\ req'[r] = x
         /\ \A q \in Req : q # r => req'[q] = req[q]
BY DEF To, IsRequests

LEMMA ToLeaves ==
  ASSUME IsRequests(req), NEW r \in Req, NEW x, To(r, x), x.at \notin Between
  PROVE  Leaves(r)
BY ToMoves DEF Leaves

LEMMA DoneLeaves ==
  ASSUME IsRequests(req), NEW r \in Req, To(r, Done)
  PROVE  Leaves(r)
BY ToLeaves DEF Done, Between

(* Request r moves to a place; a call keeps its kind and its owner.        *)
MovesTo(r, place) ==
  /\ IsRequests(req')
  /\ \A q \in Req : q # r => req'[q] = req[q]
  /\ req'[r].at = place
  /\ "stream" \in DOMAIN req[r] => "stream" \in DOMAIN req'[r] /\ req'[r].stream = req[r].stream
  /\ "owner" \in DOMAIN req[r] => "owner" \in DOMAIN req'[r] /\ req'[r].owner = req[r].owner

LEMMA WithMoves ==
  ASSUME IsRequests(req), NEW r \in Req, NEW changes, With(r, changes),
         "at" \in DOMAIN changes, {"stream", "owner"} \cap DOMAIN changes = {}
  PROVE  MovesTo(r, changes.at)
<1> DEFINE x == [f \in DOMAIN changes \cup DOMAIN req[r] |->
                   IF f \in DOMAIN changes THEN changes[f] ELSE req[r][f]]
<1>1. /\ x.at = changes.at
      /\ "stream" \in DOMAIN req[r] => "stream" \in DOMAIN x /\ x.stream = req[r].stream
      /\ "owner" \in DOMAIN req[r] => "owner" \in DOMAIN x /\ x.owner = req[r].owner
  OBVIOUS
<1>2. To(r, x)
  BY DEF With
<1> HIDE DEF x
<1>3. QED
  BY <1>1, <1>2, ToMoves DEF MovesTo

(* The shapes in which a call's record changes.                            *)
LEMMA CallMoves ==
  ASSUME IsRequests(req), NEW r \in Req, NEW place, NEW m, NEW n,
         \/ With(r, [at |-> place])
         \/ With(r, [at |-> place, client |-> m])
         \/ With(r, [at |-> place, chan |-> m])
         \/ With(r, [at |-> place, client |-> m, chan |-> n])
         \/ With(r, [at |-> place, chunks |-> m])
  PROVE  MovesTo(r, place)
<1>1. CASE With(r, [at |-> place])
  <2> DEFINE x == [at |-> place]
  <2>1. "at" \in DOMAIN x /\ {"stream", "owner"} \cap DOMAIN x = {} /\ x.at = place
    OBVIOUS
  <2>2. QED
    BY <1>1, <2>1, WithMoves
<1>2. CASE With(r, [at |-> place, client |-> m])
  <2> DEFINE x == [at |-> place, client |-> m]
  <2>1. "at" \in DOMAIN x /\ {"stream", "owner"} \cap DOMAIN x = {} /\ x.at = place
    OBVIOUS
  <2>2. QED
    BY <1>2, <2>1, WithMoves
<1>3. CASE With(r, [at |-> place, chan |-> m])
  <2> DEFINE x == [at |-> place, chan |-> m]
  <2>1. "at" \in DOMAIN x /\ {"stream", "owner"} \cap DOMAIN x = {} /\ x.at = place
    OBVIOUS
  <2>2. QED
    BY <1>3, <2>1, WithMoves
<1>4. CASE With(r, [at |-> place, client |-> m, chan |-> n])
  <2> DEFINE x == [at |-> place, client |-> m, chan |-> n]
  <2>1. "at" \in DOMAIN x /\ {"stream", "owner"} \cap DOMAIN x = {} /\ x.at = place
    OBVIOUS
  <2>2. QED
    BY <1>4, <2>1, WithMoves
<1>5. CASE With(r, [at |-> place, chunks |-> m])
  <2> DEFINE x == [at |-> place, chunks |-> m]
  <2>1. "at" \in DOMAIN x /\ {"stream", "owner"} \cap DOMAIN x = {} /\ x.at = place
    OBVIOUS
  <2>2. QED
    BY <1>5, <2>1, WithMoves
<1>6. QED
  BY <1>1, <1>2, <1>3, <1>4, <1>5

(* A step that leaves sessions and states alone, and moves at most one     *)
(* request out of their handlers, keeps the invariant.                     *)
LEMMA LeavesKeeps ==
  ASSUME WebInv, UNCHANGED signVars, NEW r \in Req, Leaves(r)
  PROVE  WebInv'
<1>1. \A q \in Req : req'[q] = req[q] \/ req'[q].at \notin Between
  BY DEF Leaves
<1>2. HeldBySwitch'
  BY <1>1 DEF WebInv, HeldBySwitch, Between, signVars
<1>3. HeldByExchange'
  BY <1>1 DEF WebInv, HeldByExchange, Between, signVars
<1>4. Known'
  BY DEF WebInv, Known, signVars, Stored
<1>5. QED
  BY <1>2, <1>3, <1>4 DEF WebInv, Leaves

LEMMA StillKeeps ==
  ASSUME WebInv, UNCHANGED <<signVars, req>>
  PROVE  WebInv'
BY DEF WebInv, IsRequests, HeldBySwitch, HeldByExchange, Known, signVars, Stored

-----------------------------------------------------------------------------
(* Sign-in by password and the steps of OAuth.                             *)
LEMMA LoginKeeps ==
  ASSUME WebInv, NEW s \in Sid, Login(s)
  PROVE  WebInv'
<1>1. Stored' = Stored \cup {s}
  BY DEF Login, SessionsInsert, Put, Stored
<1>2. Known'
  BY <1>1 DEF Login, WebInv, Known, Stored
<1>3. HeldBySwitch' /\ HeldByExchange'
  BY DEF Login, WebInv, HeldBySwitch, HeldByExchange
<1>4. QED
  BY <1>2, <1>3 DEF Login, WebInv, IsRequests

LEMMA StartKeeps ==
  ASSUME WebInv, NEW o \in OAuthState, LogtoStart(o) \/ Expire(o)
  PROVE  WebInv'
<1>1. Known'
  BY DEF LogtoStart, Expire, WebInv, Known, Stored
<1>2. HeldBySwitch' /\ HeldByExchange'
  BY DEF LogtoStart, Expire, WebInv, HeldBySwitch, HeldByExchange
<1>3. QED
  BY <1>1, <1>2 DEF LogtoStart, Expire, WebInv, IsRequests

(* The state is removed as it is read, so no other exchange holds it.      *)
LEMMA TakeKeeps ==
  ASSUME WebInv, NEW r \in Req, NEW o \in OAuthState, CallbackTake(r, o)
  PROVE  WebInv'
<1>1. /\ pending' \subseteq pending
      /\ UNCHANGED <<sess, drawn, gone, loginOf>>
      /\ \/ o \in pending /\ o \notin pending' /\ To(r, [at |-> "exchange", state |-> o])
         \/ To(r, Done)
  BY DEF CallbackTake
<1>2. Known'
  BY <1>1 DEF WebInv, Known, Stored
<1>3. CASE o \in pending /\ o \notin pending' /\ To(r, [at |-> "exchange", state |-> o])
  <2>1. /\ IsRequests(req')
        /\ req'[r].at = "exchange" /\ req'[r].state = o
        /\ \A q \in Req : q # r => req'[q] = req[q]
    BY <1>3, ToMoves DEF WebInv
  <2>2. HeldBySwitch'
    BY <1>1, <2>1 DEF WebInv, HeldBySwitch
  <2>3. HeldByExchange'
    BY <1>1, <1>3, <2>1 DEF WebInv, HeldByExchange, Known
  <2>4. QED
    BY <1>2, <2>1, <2>2, <2>3 DEF WebInv
<1>4. CASE To(r, Done)
  <2>1. Leaves(r)
    BY <1>4, DoneLeaves DEF WebInv
  <2>2. HeldBySwitch'
    BY <1>1, <2>1 DEF Leaves, WebInv, HeldBySwitch, Between
  <2>3. HeldByExchange'
    BY <1>1, <2>1 DEF Leaves, WebInv, HeldByExchange, Between
  <2>4. QED
    BY <1>2, <2>1, <2>2, <2>3 DEF Leaves, WebInv
<1>5. QED
  BY <1>1, <1>3, <1>4

(* The new session's id is fresh, and its state has led to no other.       *)
LEMMA FinishKeeps ==
  ASSUME WebInv, NEW r \in Req, NEW s \in Sid, NEW u, CallbackFinish(r, s, u)
  PROVE  WebInv'
<1>1. /\ req[r].at = "exchange" /\ s \notin drawn
      /\ drawn' = drawn \cup {s}
      /\ UNCHANGED <<pending, gone>>
  BY DEF CallbackFinish
<1>2. Stored' = Stored \cup {s}
  BY DEF CallbackFinish, SessionsInsert, Put, Stored
<1>3. /\ DOMAIN loginOf' = DOMAIN loginOf \cup {s}
      /\ loginOf'[s] = req[r].state
      /\ \A t \in DOMAIN loginOf : t # s => loginOf'[t] = loginOf[t]
  BY DEF CallbackFinish, Put
<1>4. Leaves(r)
  BY DoneLeaves DEF CallbackFinish, WebInv
<1>5. s \notin DOMAIN loginOf
  BY <1>1 DEF WebInv, Known
<1>6. HeldBySwitch'
  BY <1>1, <1>4 DEF Leaves, WebInv, HeldBySwitch, Between
<1>7. HeldByExchange'
  BY <1>1, <1>3, <1>4, <1>5 DEF Leaves, WebInv, HeldByExchange, Between
<1>8. Known'
  BY <1>1, <1>2, <1>3, <1>5 DEF WebInv, Known, HeldByExchange
<1>9. QED
  BY <1>4, <1>6, <1>7, <1>8 DEF Leaves, WebInv

(* Sign-out removes the id, and notes the switches that still hold it.     *)
LEMMA LogoutKeeps ==
  ASSUME WebInv, NEW s \in Sid, Logout(s)
  PROVE  WebInv'
<1>1. Stored' = Stored \ {s}
  BY DEF Logout, SessionsRemove, Stored
<1>2. /\ s \in drawn
      /\ UNCHANGED <<req, pending, drawn, loginOf>>
      /\ DOMAIN gone' = DOMAIN gone \cup {s}
      /\ \A x \in DOMAIN gone : x # s => gone'[x] = gone[x]
      /\ gone'[s] = {r \in Req : req[r].at = "switch" /\ req[r].sid = s}
  BY DEF Logout, Put
<1>3. Known'
  BY <1>1, <1>2 DEF WebInv, Known
<1>4. HeldBySwitch'
  BY <1>2 DEF WebInv, HeldBySwitch
<1>5. HeldByExchange'
  BY <1>2 DEF WebInv, HeldByExchange
<1>6. QED
  BY <1>2, <1>3, <1>4, <1>5 DEF WebInv, IsRequests

(* The switch reads a stored session, and may put back one it had read.    *)
LEMMA SwitchKeeps ==
  ASSUME WebInv, NEW r \in Req, NEW s, SwitchRead(r, s) \/ SwitchWrite(r)
  PROVE  WebInv'
<1>1. CASE SwitchRead(r, s) /\ ~To(r, Done)
  <2>1. /\ To(r, [at |-> "switch", sid |-> s, user |-> sess[s]])
        /\ UNCHANGED webVars /\ s \in Stored
    BY <1>1 DEF SwitchRead, Require
  <2>2. /\ IsRequests(req')
        /\ req'[r].at = "switch" /\ req'[r].sid = s
        /\ \A q \in Req : q # r => req'[q] = req[q]
    BY <2>1, ToMoves DEF WebInv
  <2>3. HeldBySwitch'
    BY <2>1, <2>2 DEF WebInv, HeldBySwitch, Known, webVars
  <2>4. HeldByExchange'
    BY <2>1, <2>2 DEF WebInv, HeldByExchange, webVars
  <2>5. Known'
    BY <2>1 DEF WebInv, Known, Stored, webVars
  <2>6. QED
    BY <2>2, <2>3, <2>4, <2>5 DEF WebInv
<1>2. CASE SwitchRead(r, s) /\ To(r, Done)
  BY <1>2, DoneLeaves, LeavesKeeps DEF SwitchRead, Require, WebInv, webVars, signVars
<1>3. CASE SwitchWrite(r)
  <2>1. /\ req[r].at = "switch"
        /\ UNCHANGED <<pending, drawn, loginOf>>
        /\ DOMAIN gone' = {x \in DOMAIN gone : x # req[r].sid \/ r \notin gone[x]}
        /\ \A x \in DOMAIN gone' : gone'[x] = gone[x]
    BY <1>3 DEF SwitchWrite
  <2>2. Stored' = Stored \cup {req[r].sid}
    BY <1>3 DEF SwitchWrite, SessionsInsert, Put, Stored
  <2>3. Leaves(r)
    BY <1>3, DoneLeaves DEF SwitchWrite, WebInv
  <2>4. Known'
    BY <2>1, <2>2 DEF WebInv, Known, HeldBySwitch
  <2>5. HeldBySwitch'
    BY <2>1, <2>3 DEF Leaves, WebInv, HeldBySwitch, Between
  <2>6. HeldByExchange'
    BY <2>1, <2>3 DEF Leaves, WebInv, HeldByExchange, Between
  <2>7. QED
    BY <2>3, <2>4, <2>5, <2>6 DEF Leaves, WebInv
<1>4. QED
  BY <1>1, <1>2, <1>3

(* The tokens of the command line, and a handler that gives up.            *)
LEMMA RequireLeaves ==
  ASSUME IsRequests(req), NEW route, NEW r \in Req, NEW s, NEW x,
         Require(route, r, s, x), x.at \notin Between
  PROVE  Leaves(r) /\ UNCHANGED webVars
BY ToLeaves, DoneLeaves DEF Require

LEMMA TokensKeep ==
  ASSUME WebInv, NEW r \in Req, NEW s, NEW k,
         \/ MintRead(r, s) \/ RevokeRead(r, s, k)
         \/ MintInsert(r, k) \/ RevokeWrite(r) \/ GiveUp(r)
  PROVE  WebInv'
<1> USE DEF WebInv
<1>1. CASE MintRead(r, s)
  <2> DEFINE x == IF pg THEN [at |-> "mint", user |-> sess[s]] ELSE Done
  <2>1. x.at \notin Between
    BY DEF Done, Between
  <2>2. Require("token", r, s, x)
    BY <1>1 DEF MintRead
  <2> HIDE DEF x
  <2>3. Leaves(r) /\ UNCHANGED webVars
    BY <2>1, <2>2, RequireLeaves
  <2>4. QED
    BY <2>3, LeavesKeeps DEF webVars, signVars
<1>2. CASE RevokeRead(r, s, k)
  <2> DEFINE x == IF pg THEN [at |-> "revoke", user |-> sess[s], token |-> k] ELSE Done
  <2>1. x.at \notin Between
    BY DEF Done, Between
  <2>2. Require("token", r, s, x)
    BY <1>2 DEF RevokeRead
  <2> HIDE DEF x
  <2>3. Leaves(r) /\ UNCHANGED webVars
    BY <2>1, <2>2, RequireLeaves
  <2>4. QED
    BY <2>3, LeavesKeeps DEF webVars, signVars
<1>3. CASE MintInsert(r, k) \/ RevokeWrite(r) \/ GiveUp(r)
  <2>1. To(r, Done) /\ UNCHANGED signVars
    BY <1>3 DEF MintInsert, RevokeWrite, GiveUp, signVars, webVars
  <2>2. QED
    BY <2>1, DoneLeaves, LeavesKeeps
<1>4. QED
  BY <1>1, <1>2, <1>3

LEMMA WebKeeps ==
  ASSUME WebInv, WebStep
  PROVE  WebInv'
<1>1. CASE \E s \in Sid : Login(s) \/ Logout(s)
  BY <1>1, LoginKeeps, LogoutKeeps
<1>2. CASE \E o \in OAuthState : LogtoStart(o) \/ Expire(o)
  BY <1>2, StartKeeps
<1>3. ASSUME NEW r \in Req,
             \/ \E o \in OAuthState : CallbackTake(r, o)
             \/ \E s \in Sid, u \in User \cup {""} : CallbackFinish(r, s, u)
             \/ \E s \in Sid : SwitchRead(r, s)
             \/ SwitchWrite(r)
      PROVE  WebInv'
  BY <1>3, TakeKeeps, FinishKeeps, SwitchKeeps
<1>4. ASSUME NEW r \in Req,
             \/ \E s \in Sid : MintRead(r, s)
             \/ \E s \in Sid, k \in Token : RevokeRead(r, s, k)
             \/ \E k \in Token : MintInsert(r, k)
             \/ RevokeWrite(r) \/ GiveUp(r)
      PROVE  WebInv'
  BY <1>4, TokensKeep
<1>5. QED
  BY <1>1, <1>2, <1>3, <1>4 DEF WebStep

-----------------------------------------------------------------------------
(* The places of each part's handlers, between its start and its end.      *)
WebPlaces == {"exchange", "switch", "mint", "revoke"}
RunPlaces == {"exec", "counted", "failed"}
LlmPlaces == CallPlaces \cup {"view"}

(* Request r, of a handler with these places, goes on or ends.  A call is  *)
(* there from its arrival.                                                 *)
Goes(r, places) ==
  /\ IsRequests(req')
  /\ \A q \in Req : q # r => req'[q] = req[q]
  /\ req[r].at \in places \cup {"unused"}
  /\ req'[r].at \in places \cup {"done"}
  /\ req'[r].at \in CallPlaces =>
       req[r].at = "unused" \/ (req[r].at \in CallPlaces /\ MovesTo(r, req'[r].at))

LEMMA ToGoes ==
  ASSUME IsRequests(req), NEW r \in Req, NEW x, To(r, x),
         NEW places, req[r].at \in places \cup {"unused"}, x.at \in places \cup {"done"},
         x.at \notin CallPlaces \/ req[r].at = "unused"
  PROVE  Goes(r, places)
BY ToMoves DEF Goes

LEMMA DoneGoes ==
  ASSUME IsRequests(req), NEW r \in Req, To(r, Done),
         NEW places, req[r].at \in places \cup {"unused"}
  PROVE  Goes(r, places)
<1>1. Done.at = "done" /\ Done.at \notin CallPlaces
  BY DEF Done, CallPlaces
<1>2. QED
  BY <1>1, ToGoes

LEMMA RequireGoes ==
  ASSUME IsRequests(req), NEW route, NEW r \in Req, NEW s, NEW x,
         Require(route, r, s, x), NEW places, x.at \in places \cup {"done"}
  PROVE  Goes(r, places) /\ UNCHANGED webVars
BY ToGoes, DoneGoes DEF Require, Routed

LEMMA CallGoes ==
  ASSUME IsRequests(req), NEW r \in Req, NEW place \in CallPlaces, NEW m, NEW n,
         req[r].at \in CallPlaces,
         \/ With(r, [at |-> place])
         \/ With(r, [at |-> place, client |-> m])
         \/ With(r, [at |-> place, chan |-> m])
         \/ With(r, [at |-> place, client |-> m, chan |-> n])
         \/ With(r, [at |-> place, chunks |-> m])
  PROVE  Goes(r, LlmPlaces)
<1>1. MovesTo(r, place)
  BY CallMoves
<1>2. QED
  BY <1>1 DEF MovesTo, Goes, LlmPlaces

LEMMA GoesLeaves ==
  ASSUME NEW r, NEW places \in {RunPlaces, LlmPlaces}, Goes(r, places)
  PROVE  Leaves(r)
BY DEF Goes, Leaves, Between, RunPlaces, LlmPlaces, CallPlaces

(* Sandboxed runs.                                                         *)
LEMMA RunsGo ==
  ASSUME IsRequests(req), RunsStep
  PROVE  \E r \in Req : Goes(r, RunPlaces)
<1>1. PICK r \in Req :
        \/ \E s \in Sid : ExecStart(r, s)
        \/ ExecDenied(r) \/ ExecCounts(r) \/ ExecDropped(r)
        \/ Ingest(r) \/ \E k \in Token : IngestByToken(r, k)
        \/ Fails(r) \/ Pushes(r) \/ JoinFails(r)
  BY DEF RunsStep
<1>2. CASE \E s \in Sid : ExecStart(r, s)
  <2>1. [at |-> "exec"].at \in RunPlaces
    BY DEF RunPlaces
  <2>2. QED
    BY <1>2, <2>1, RequireGoes DEF ExecStart
<1>3. CASE ~\E s \in Sid : ExecStart(r, s)
  <2>1. /\ [at |-> "counted"].at \in RunPlaces \ CallPlaces
        /\ [at |-> "failed"].at \in RunPlaces \ CallPlaces
    BY DEF RunPlaces, CallPlaces
  <2>2. To(r, [at |-> "counted"]) \/ To(r, [at |-> "failed"]) \/ To(r, Done)
    BY <1>1, <1>3 DEF ExecDenied, ExecCounts, ExecDropped, Ingest, IngestByToken, Fails,
                      Pushes, JoinFails
  <2>3. req[r].at \in RunPlaces \cup {"unused"}
    BY <1>1, <1>3 DEF ExecDenied, ExecCounts, ExecDropped, Ingest, IngestByToken, Fails,
                      Pushes, JoinFails, Routed, RunPlaces
  <2>4. QED
    BY <2>1, <2>2, <2>3, ToGoes, DoneGoes
<1>4. QED
  BY <1>2, <1>3

LEMMA ArriveGoes ==
  ASSUME IsRequests(req), NEW r \in Req, NEW k, NEW stream, Arrive(r, k, stream)
  PROVE  Goes(r, LlmPlaces)
<1>0. PICK found \in CliTokenLookup(k) :
        To(r, [at |-> "body", owner |-> IF found THEN tokens[k].user ELSE "",
               token |-> k, stream |-> stream,
               client |-> "waits", chan |-> 0, chunks |-> 0])
  BY DEF Arrive
<1> DEFINE x == [at |-> "body", owner |-> IF found THEN tokens[k].user ELSE "",
                 token |-> k, stream |-> stream,
                 client |-> "waits", chan |-> 0, chunks |-> 0]
<1>1. x.at \in LlmPlaces
  BY DEF LlmPlaces, CallPlaces
<1>2. To(r, x) /\ req[r].at = "unused"
  BY <1>0 DEF Arrive, Routed
<1> HIDE DEF x
<1>3. QED
  BY <1>1, <1>2, ToGoes

(* The blocking task and the handler of a call.                            *)
LEMMA TaskGoes ==
  ASSUME IsRequests(req), NEW r \in Req, TaskStep(r) \/ HandlerStep(r)
  PROVE  Goes(r, LlmPlaces)
<1>1. {"send", "relay", "chunk", "flush", "capture", "receipt", "release", "joined", "closed"} \subseteq CallPlaces
  BY DEF CallPlaces
<1>2. req[r].at \in CallPlaces
  BY <1>1 DEF TaskStep, HandlerStep, Holding, Resume, PushReceipt, PushCaptured
<1>3. CASE To(r, Done)
  BY <1>2, <1>3, DoneGoes DEF LlmPlaces
<1>4. CASE StreamHead(r) /\ ~To(r, Done)
  <2>1. With(r, [at |-> "relay", client |-> "reads"])
    BY <1>4 DEF StreamHead
  <2>2. QED
    BY <1>1, <1>2, <2>1, CallGoes
<1>5. CASE Chunk(r) \/ SendChunk(r)
  <2>1. \/ With(r, [at |-> "flush"])
        \/ With(r, [at |-> "relay", chan |-> req[r].chan + 1])
        \/ With(r, [at |-> "chunk", chunks |-> req[r].chunks + 1])
    BY <1>5 DEF Chunk, SendChunk
  <2>2. QED
    BY <1>1, <1>2, <2>1, CallGoes
<1>6. CASE Flush(r)
  <2>1. With(r, [at |-> "capture"]) \/ With(r, [at |-> "capture", chan |-> req[r].chan + 1])
    BY <1>6 DEF Flush
  <2>2. QED
    BY <1>1, <1>2, <2>1, CallGoes
<1>7. CASE PushCaptured(r)
  <2>1. With(r, [at |-> "receipt"]) \/ With(r, [at |-> "closed", client |-> "answered"])
    BY <1>7 DEF PushCaptured
  <2>2. QED
    BY <1>1, <1>2, <2>1, CallGoes
<1>8. CASE \/ UpstreamEnds(r) \/ PushReceipt(r) \/ Release(r) \/ Resume(r)
           \/ BufferedReturns(r) /\ ~To(r, Done)
  <2>1. PICK place \in {"flush", "capture", "release", "closed", "receipt", "joined"} :
          With(r, [at |-> place])
    BY <1>8 DEF UpstreamEnds, EndsRelay, PushReceipt, Release, Resume, BufferedReturns
  <2>2. QED
    BY <1>1, <1>2, <2>1, CallGoes
<1>9. QED
  BY <1>3, <1>4, <1>5, <1>6, <1>7, <1>8 DEF TaskStep, HandlerStep, SendFails

(* A call's client, and a request to see captured calls.                   *)
LEMMA ClientGoes ==
  ASSUME IsRequests(req), NEW r \in Req,
         \/ Refuse(r) \/ Admit(r) \/ ClientReads(r) \/ Leave(r)
         \/ ViewShow(r) \/ \E s \in Sid : ViewRead(r, s)
  PROVE  Goes(r, LlmPlaces)
<1>1. CASE \E s \in Sid : ViewRead(r, s)
  <2>1. PICK s \in Sid : Require("captured", r, s, [at |-> "view", user |-> sess[s]])
    BY <1>1 DEF ViewRead
  <2>2. [at |-> "view", user |-> sess[s]].at \in LlmPlaces
    BY DEF LlmPlaces
  <2>3. QED
    BY <2>1, <2>2, RequireGoes
<1>2. CASE ~\E s \in Sid : ViewRead(r, s)
  <2>1. req[r].at \in LlmPlaces /\ "send" \in CallPlaces
    BY <1>2 DEF Refuse, Admit, ClientReads, Leave, ViewShow, LlmPlaces, CallPlaces
  <2>2. ~To(r, Done) => req[r].at \in CallPlaces
    BY <1>2 DEF Refuse, Admit, ClientReads, Leave, ViewShow, CallPlaces
  <2>3. \/ To(r, Done)
        \/ With(r, [at |-> "send"])
        \/ With(r, [at |-> req[r].at, chan |-> req[r].chan - 1])
        \/ With(r, [at |-> req[r].at, client |-> "ended"])
        \/ With(r, [at |-> req[r].at, client |-> "gone"])
        \/ With(r, [at |-> req[r].at, client |-> "gone", chan |-> 0])
    BY <1>2 DEF Refuse, Admit, ClientReads, Leave, ViewShow
  <2>4. QED
    BY <2>1, <2>2, <2>3, DoneGoes, CallGoes
<1>3. QED
  BY <1>1, <1>2

LEMMA LlmGoes ==
  ASSUME IsRequests(req), LlmStep
  PROVE  UNCHANGED req \/ \E r \in Req : Goes(r, LlmPlaces)
<1>1. CASE \/ \E t \in tasks : TaskEnqueues(t)
           \/ DrainMemory
           \/ \E d \in Drainer : Claim(d) \/ Commit(d) \/ Rollback(d)
  BY <1>1 DEF TaskEnqueues, DrainMemory, Claim, Commit, Rollback
<1>2. ASSUME NEW r \in Req,
             \/ \E k \in Token, stream \in BOOLEAN : Arrive(r, k, stream)
             \/ Refuse(r) \/ Admit(r)
             \/ TaskStep(r) \/ HandlerStep(r)
             \/ ClientReads(r) \/ Leave(r)
             \/ \E s \in Sid : ViewRead(r, s)
             \/ ViewShow(r)
      PROVE  Goes(r, LlmPlaces)
  BY <1>2, ArriveGoes, TaskGoes, ClientGoes
<1>3. QED
  BY <1>1, <1>2 DEF LlmStep

(* Sign-in, sessions and tokens.                                           *)
LEMMA WebGoes ==
  ASSUME IsRequests(req), WebStep
  PROVE  UNCHANGED req \/ \E r \in Req : Goes(r, WebPlaces)
<1> USE DEF WebPlaces
<1>1. CASE \/ \E s \in Sid : Login(s) \/ Logout(s)
           \/ \E o \in OAuthState : LogtoStart(o) \/ Expire(o)
  BY <1>1 DEF Login, Logout, LogtoStart, Expire
<1>2. ASSUME NEW r \in Req, NEW o \in OAuthState, CallbackTake(r, o)
      PROVE  Goes(r, WebPlaces)
  <2>1. [at |-> "exchange", state |-> o].at \in WebPlaces /\ req[r].at = "unused"
    BY <1>2 DEF CallbackTake, Routed
  <2>2. QED
    BY <1>2, <2>1, ToGoes, DoneGoes DEF CallbackTake
<1>3. ASSUME NEW r \in Req, NEW s \in Sid, SwitchRead(r, s)
      PROVE  Goes(r, WebPlaces)
  <2>1. [at |-> "switch", sid |-> s, user |-> sess[s]].at \in WebPlaces
    OBVIOUS
  <2>2. QED
    BY <1>3, <2>1, RequireGoes DEF SwitchRead
<1>4. ASSUME NEW r \in Req, NEW s \in Sid, MintRead(r, s)
      PROVE  Goes(r, WebPlaces)
  <2> DEFINE x == IF pg THEN [at |-> "mint", user |-> sess[s]] ELSE Done
  <2>1. x.at \in WebPlaces \cup {"done"} /\ Require("token", r, s, x)
    BY <1>4 DEF MintRead, Done
  <2> HIDE DEF x
  <2>2. QED
    BY <2>1, RequireGoes
<1>5. ASSUME NEW r \in Req, NEW s \in Sid, NEW k \in Token, RevokeRead(r, s, k)
      PROVE  Goes(r, WebPlaces)
  <2> DEFINE x == IF pg THEN [at |-> "revoke", user |-> sess[s], token |-> k] ELSE Done
  <2>1. x.at \in WebPlaces \cup {"done"} /\ Require("token", r, s, x)
    BY <1>5 DEF RevokeRead, Done
  <2> HIDE DEF x
  <2>2. QED
    BY <2>1, RequireGoes
<1>6. ASSUME NEW r \in Req,
             \/ \E s \in Sid, u \in User \cup {""} : CallbackFinish(r, s, u)
             \/ SwitchWrite(r) \/ RevokeWrite(r) \/ GiveUp(r)
             \/ \E k \in Token : MintInsert(r, k)
      PROVE  Goes(r, WebPlaces)
  <2>1. To(r, Done) /\ req[r].at \in WebPlaces
    BY <1>6 DEF CallbackFinish, SwitchWrite, RevokeWrite, GiveUp, MintInsert
  <2>2. QED
    BY <2>1, DoneGoes
<1>7. QED
  BY <1>1, <1>2, <1>3, <1>4, <1>5, <1>6 DEF WebStep

-----------------------------------------------------------------------------
(* A restart forgets the handlers, and what was only in memory.            *)
LEMMA RestartKeeps ==
  ASSUME WebInv, Restart
  PROVE  WebInv'
<1>1. /\ req' = [r \in Req |-> IF req[r] = Unused THEN Unused ELSE Done]
      /\ Stored' \subseteq Stored /\ pending' \subseteq pending
      /\ UNCHANGED <<drawn, gone, loginOf>>
  BY DEF Restart, StoresRestart, WebRestart, Stored
<1>2. IsRequests(req') /\ \A r \in Req : req'[r].at \notin Between
  BY <1>1 DEF IsRequests, Unused, Done, Between
<1>3. Known'
  BY <1>1 DEF WebInv, Known
<1>4. HeldBySwitch' /\ HeldByExchange'
  BY <1>2 DEF HeldBySwitch, HeldByExchange, Between
<1>5. QED
  BY <1>2, <1>3, <1>4 DEF WebInv

LEMMA NextKeeps ==
  ASSUME WebInv, [ServerNext]_serverVars
  PROVE  WebInv'
<1>1. IsRequests(req)
  BY DEF WebInv
<1>2. CASE Tasks \/ UNCHANGED serverVars
  BY <1>2, StillKeeps DEF Tasks, serverVars, webVars, signVars
<1>3. CASE Web
  BY <1>3, WebKeeps DEF Web
<1>4. CASE Llm
  <2>1. UNCHANGED signVars
    BY <1>4 DEF Llm, webVars, signVars
  <2>2. QED
    BY <1>1, <1>4, <2>1, LlmGoes, GoesLeaves, LeavesKeeps, StillKeeps DEF Llm
<1>5. CASE Runs
  <2>1. UNCHANGED signVars
    BY <1>5 DEF Runs, webVars, signVars
  <2>2. QED
    BY <1>1, <1>5, <2>1, RunsGo, GoesLeaves, LeavesKeeps DEF Runs
<1>6. CASE Restart
  BY <1>6, RestartKeeps
<1>7. QED
  BY <1>2, <1>3, <1>4, <1>5, <1>6 DEF ServerNext

LEMMA InitHolds == ServerInit => WebInv
BY DEF ServerInit, StoresInit, WebInit, WebInv, IsRequests, HeldBySwitch, HeldByExchange,
       Known, Stored, Unused

LEMMA InvAlways == ServerSpec => []WebInv
<1>1. QED
  BY InitHolds, NextKeeps, PTL DEF ServerSpec

(* A session that was removed comes back only by the write of a switch     *)
(* that had read it before: for any requests, sessions and restarts.       *)
THEOREM LogoutCorrect == ServerSpec => []LogoutHolds
<1>1. WebInv => LogoutHolds
  BY DEF WebInv, Known, LogoutHolds
<1>2. QED
  BY <1>1, InvAlways, PTL

(* A started sign-in leads to one session at most, under any number of     *)
(* callbacks at once, and across restarts.                                 *)
THEOREM LoginCorrect == ServerSpec => []OneLoginPerState
<1>1. WebInv => OneLoginPerState
  BY DEF WebInv, Known, OneLoginPerState, IsInjective
<1>2. QED
  BY <1>1, InvAlways, PTL

-----------------------------------------------------------------------------
(* The ring of recent calls holds the newest of the calls pushed, in order. *)
Recent == ring["recent"]
Recorded(r) == r \in Range(pushed)

IsRing == ring = [s \in Store |-> ring[s]]

RingOK ==
  /\ IsRing
  /\ pushed \in Seq(Req)
  /\ Recent \in Seq(Range(Recent))
  /\ Len(Recent) = Len(Newest(pushed))
  /\ \A i \in 1..Len(Recent) : Recent[i].id = Newest(pushed)[i]

(* The places of a call behind its receipt: of a stream, where its task     *)
(* ends; of a buffered call, its capture and its answer.                   *)
BehindReceipt(place, stream) ==
  place \in {"release", "closed"} \/ (place = "capture" /\ ~stream)

CallOK(r) ==
  /\ req[r].at \in CallPlaces => "stream" \in DOMAIN req[r]
  /\ req[r].at \in {"relay", "chunk", "flush"} => req[r].stream
  /\ req[r].at = "joined" => ~req[r].stream
  /\ BehindReceipt(req[r].at, req[r].stream) => Recorded(r)

CallInv == IsRequests(req) /\ RingOK /\ \A r \in Req : CallOK(r)

LEMMA SeqRange ==
  ASSUME NEW S, NEW s \in Seq(S)
  PROVE  s \in Seq(Range(s))
<1>1. \A i \in 1..Len(s) : s[i] \in Range(s)
  BY DEF Range
<1>2. QED
  BY <1>1

LEMMA NewestIs ==
  ASSUME NEW S, NEW s \in Seq(S)
  PROVE  /\ Newest(s) \in Seq(S)
         /\ Len(Newest(s)) = IF Len(s) > RingCap THEN RingCap ELSE Len(s)
         /\ \A i \in 1..Len(Newest(s)) : Newest(s)[i] = s[Len(s) - Len(Newest(s)) + i]
<1>1. RingCap \in Nat \ {0} /\ Len(s) \in Nat
  BY StoresAssumption
<1>2. CASE Len(s) > RingCap
  <2>1. Newest(s) = SubSeq(s, Len(s) - RingCap + 1, Len(s))
    BY <1>2 DEF Newest
  <2>2. /\ Newest(s) \in Seq(S) /\ Len(Newest(s)) = RingCap
        /\ \A i \in 1..RingCap : Newest(s)[i] = s[Len(s) - RingCap + i]
    BY <1>1, <1>2, <2>1
  <2>3. QED
    BY <1>2, <2>2
<1>3. CASE ~(Len(s) > RingCap)
  <2>1. Newest(s) = s
    BY <1>3 DEF Newest
  <2>2. \A i \in 1..Len(s) : s[i] = s[Len(s) - Len(s) + i]
    BY <1>1
  <2>3. QED
    BY <1>3, <2>1, <2>2
<1>4. QED
  BY <1>2, <1>3

(* A push keeps what was recorded and records its call.                    *)
LEMMA PushRecords ==
  ASSUME RingOK, NEW r \in Req, NEW x, Push("recent", [id |-> r, tag |-> x]),
         pushed' = Append(pushed, r)
  PROVE  /\ RingOK' /\ Recorded(r)'
         /\ \A q : Recorded(q) => Recorded(q)'
<1> DEFINE row == [id |-> r, tag |-> x]
           s == Recent
           a == Append(s, row)
           b == Append(pushed, r)
<1>1. /\ ring' = [ring EXCEPT !["recent"] = Newest(Append(@, row))]
      /\ "recent" \in Store
  BY DEF Push, Store
<1>2. ring' = [t \in Store |-> ring'[t]] /\ Recent' = Newest(a)
  BY <1>1 DEF RingOK, IsRing, Recent
<1>3. /\ RingCap \in Nat \ {0} /\ Len(pushed) \in Nat /\ Len(s) \in Nat
      /\ s \in Seq(Range(s)) /\ pushed \in Seq(Req)
      /\ Len(s) = IF Len(pushed) > RingCap THEN RingCap ELSE Len(pushed)
  BY StoresAssumption, NewestIs DEF RingOK
<1>4. \A i \in 1..Len(s) : s[i].id = pushed[Len(pushed) - Len(s) + i]
  <2>1. /\ Len(s) = Len(Newest(pushed))
        /\ \A i \in 1..Len(s) : s[i].id = Newest(pushed)[i]
    BY DEF RingOK
  <2>2. \A i \in 1..Len(Newest(pushed)) :
          Newest(pushed)[i] = pushed[Len(pushed) - Len(Newest(pushed)) + i]
    BY <1>3, NewestIs
  <2> HIDE DEF s
  <2>3. QED
    BY <2>1, <2>2
<1>5. /\ a \in Seq(Range(s) \cup {row}) /\ Len(a) = Len(s) + 1
      /\ a[Len(s) + 1] = row /\ \A i \in 1..Len(s) : a[i] = s[i]
  BY <1>3
<1>6. /\ b \in Seq(Req) /\ Len(b) = Len(pushed) + 1
      /\ b[Len(pushed) + 1] = r /\ \A i \in 1..Len(pushed) : b[i] = pushed[i]
      /\ pushed' = b
  BY <1>3
<1>7. row.id = r
  OBVIOUS
<1> HIDE DEF row, a, b, s
<1>8. PICK n \in Nat, m \in Nat, k \in Nat :
        /\ n = Len(pushed) /\ m = Len(s) /\ k = Len(Newest(a))
        /\ k = Len(Newest(b))
        /\ m <= n /\ 1 <= k /\ k <= m + 1
  <2>1. Len(Newest(a)) = IF Len(s) + 1 > RingCap THEN RingCap ELSE Len(s) + 1
    BY <1>5, NewestIs
  <2>2. Len(Newest(b)) = IF Len(pushed) + 1 > RingCap THEN RingCap ELSE Len(pushed) + 1
    BY <1>6, NewestIs
  <2>3. PICK n \in Nat, m \in Nat : n = Len(pushed) /\ m = Len(s)
    BY <1>3
  <2>4. /\ (IF m + 1 > RingCap THEN RingCap ELSE m + 1) = (IF n + 1 > RingCap THEN RingCap ELSE n + 1)
        /\ (IF m + 1 > RingCap THEN RingCap ELSE m + 1) \in 1..m + 1
        /\ m <= n
    BY <1>3, <2>3
  <2>5. PICK k \in Nat : k = IF m + 1 > RingCap THEN RingCap ELSE m + 1
    BY <2>4
  <2>6. k = Len(Newest(a)) /\ k = Len(Newest(b)) /\ 1 <= k /\ k <= m + 1
    BY <2>1, <2>2, <2>3, <2>4, <2>5
  <2>7. QED
    BY <2>3, <2>4, <2>6
<1>9. ASSUME NEW i \in 1..k
      PROVE  Newest(a)[i].id = Newest(b)[i]
  <2> DEFINE j == m + 1 - k + i
  <2>1. Newest(a)[i] = a[j] /\ Newest(b)[i] = b[n + 1 - k + i]
    <3>1. /\ Newest(a)[i] = a[Len(a) - Len(Newest(a)) + i]
          /\ Newest(b)[i] = b[Len(b) - Len(Newest(b)) + i]
      BY <1>5, <1>6, <1>8, NewestIs
    <3>2. Len(a) = m + 1 /\ Len(b) = n + 1 /\ Len(Newest(a)) = k /\ Len(Newest(b)) = k
      BY <1>5, <1>6, <1>8
    <3>3. QED
      BY <3>1, <3>2
  <2>2. CASE i = k
    <3>1. j = m + 1 /\ n + 1 - k + i = n + 1
      BY <1>8, <2>2
    <3>2. QED
      BY <1>5, <1>6, <1>7, <1>8, <2>1, <3>1
  <2>3. CASE i # k
    <3>1. /\ j \in 1..m /\ n + 1 - k + i \in 1..n
          /\ n - m + j = n + 1 - k + i
      BY <1>8, <2>3
    <3> HIDE DEF j
    <3>2. a[j] = s[j] /\ b[n + 1 - k + i] = pushed[n + 1 - k + i]
      BY <1>5, <1>6, <1>8, <3>1
    <3>3. s[j].id = pushed[n - m + j]
      BY <1>4, <1>8, <3>1
    <3>4. QED
      BY <2>1, <3>1, <3>2, <3>3
  <2>4. QED
    BY <2>2, <2>3
<1>10. RingOK'
  <2>1. Recent' \in Seq(Range(s) \cup {row})
    BY <1>2, <1>5, NewestIs
  <2>2. Recent' \in Seq(Range(Recent'))
    BY <2>1, SeqRange
  <2>3. Len(Recent') = k /\ k = Len(Newest(pushed'))
    BY <1>2, <1>6, <1>8
  <2>4. \A i \in 1..Len(Recent') : Recent'[i].id = Newest(pushed')[i]
    BY <1>2, <1>6, <1>9, <2>3
  <2>5. pushed' \in Seq(Req)
    BY <1>6
  <2>6. Newest(pushed)' = Newest(pushed')
    BY DEF Newest
  <2>7. QED
    BY <1>2, <2>2, <2>3, <2>4, <2>5, <2>6 DEF RingOK, IsRing
<1>11. Recorded(r)' /\ \A q : Recorded(q) => Recorded(q)'
  <2>1. DOMAIN pushed = 1..Len(pushed) /\ DOMAIN b = 1..Len(pushed) + 1
    BY <1>3, <1>6
  <2>2. r \in Range(b) /\ Range(pushed) \subseteq Range(b)
    <3>1. Len(pushed) + 1 \in DOMAIN b /\ DOMAIN pushed \subseteq DOMAIN b
      BY <1>3, <2>1
    <3>2. b[Len(pushed) + 1] = r /\ \A i \in DOMAIN pushed : b[i] = pushed[i]
      BY <1>6, <2>1
    <3>3. QED
      BY <3>1, <3>2 DEF Range
  <2>3. QED
    BY <1>6, <2>2 DEF Recorded
<1>12. QED
  BY <1>10, <1>11

(* What the other steps leave of the ring.                                 *)
RingStays == Recent' = Recent /\ IsRing' /\ pushed' = pushed

LEMMA StaysRecorded ==
  ASSUME RingOK, RingStays
  PROVE  RingOK' /\ \A q : Recorded(q) => Recorded(q)'
BY DEF RingOK, IsRing, RingStays, Recorded, Newest

LEMMA OtherPush ==
  ASSUME RingOK, NEW store \in {"captured", "sandbox"}, NEW row, Push(store, row),
         UNCHANGED pushed
  PROVE  RingStays
BY DEF RingOK, IsRing, RingStays, Push, Recent, Store

LEMMA SameRing ==
  ASSUME RingOK, UNCHANGED <<ring, pushed>>
  PROVE  RingStays
BY DEF RingOK, IsRing, RingStays, Recent

-----------------------------------------------------------------------------
(* A request of another handler, or a call that has ended, promises nothing. *)
Elsewhere(r) ==
  /\ IsRequests(req')
  /\ \A q \in Req : q # r => req'[q] = req[q]
  /\ req'[r].at \notin CallPlaces

LEMMA ElsewhereKeeps ==
  ASSUME CallInv, RingStays, NEW r \in Req, Elsewhere(r)
  PROVE  CallInv'
<1>1. RingOK' /\ \A q : Recorded(q) => Recorded(q)'
  BY StaysRecorded DEF CallInv
<1>2. ASSUME NEW q \in Req, q # r
      PROVE  CallOK(q)'
  <2>1. CallOK(q) /\ req'[q] = req[q]
    BY <1>2 DEF CallInv, Elsewhere
  <2>2. QED
    BY <1>1, <2>1 DEF CallOK
<1>3. CallOK(r)'
  BY DEF Elsewhere, CallOK, CallPlaces, BehindReceipt
<1>4. QED
  BY <1>1, <1>2, <1>3 DEF CallInv, Elsewhere

(* A call moves on, to a place whose promises hold there.                  *)
LEMMA MoveKeeps ==
  ASSUME CallInv, RingOK', \A q : Recorded(q) => Recorded(q)',
         NEW r \in Req, req[r].at \in CallPlaces,
         NEW place \in CallPlaces, MovesTo(r, place),
         place \in {"relay", "chunk", "flush"} => req[r].stream, place = "joined" => ~req[r].stream,
         BehindReceipt(place, req[r].stream) => Recorded(r)'
  PROVE  CallInv'
<1>1. ASSUME NEW q \in Req, q # r
      PROVE  CallOK(q)'
  <2>1. CallOK(q) /\ req'[q] = req[q]
    BY <1>1 DEF CallInv, MovesTo
  <2>2. QED
    BY <2>1 DEF CallOK
<1>2. CallOK(r)'
  <2>1. /\ "stream" \in DOMAIN req'[r] /\ req'[r].stream = req[r].stream
        /\ req'[r].at = place
    BY DEF MovesTo, CallInv, CallOK
  <2>2. QED
    BY <2>1 DEF CallOK
<1>3. QED
  BY <1>1, <1>2 DEF CallInv, MovesTo

LEMMA StillCalls ==
  ASSUME CallInv, RingStays, UNCHANGED req
  PROVE  CallInv'
<1>1. RingOK' /\ \A q : Recorded(q) => Recorded(q)'
  BY StaysRecorded DEF CallInv
<1>2. ASSUME NEW q \in Req
      PROVE  CallOK(q)'
  <2>1. CallOK(q)
    BY DEF CallInv
  <2>2. QED
    BY <1>1, <2>1 DEF CallOK
<1>3. QED
  BY <1>1, <1>2 DEF CallInv

(* A move that leaves the ring alone and is to a place before the receipt,  *)
(* or between two places behind it.                                        *)
LEMMA PlainMove ==
  ASSUME CallInv, UNCHANGED <<ring, pushed>>, NEW r \in Req, req[r].at \in CallPlaces,
         NEW place \in CallPlaces, MovesTo(r, place),
         place \in {"relay", "chunk", "flush"} => req[r].stream, place = "joined" => ~req[r].stream,
         BehindReceipt(place, req[r].stream) => BehindReceipt(req[r].at, req[r].stream)
  PROVE  CallInv'
<1>1. RingOK' /\ \A q : Recorded(q) => Recorded(q)'
  BY SameRing, StaysRecorded DEF CallInv
<1>2. BehindReceipt(place, req[r].stream) => Recorded(r)'
  BY <1>1 DEF CallInv, CallOK
<1>3. QED
  BY <1>1, <1>2, MoveKeeps

LEMMA DoneKeeps ==
  ASSUME CallInv, RingStays, NEW r \in Req, To(r, Done)
  PROVE  CallInv'
<1>1. Elsewhere(r)
  BY ToMoves DEF Elsewhere, Done, CallPlaces, CallInv
<1>2. QED
  BY <1>1, ElsewhereKeeps

-----------------------------------------------------------------------------
(* The steps of a call before its receipt.                                 *)
LEMMA CallBefore ==
  ASSUME CallInv, NEW r \in Req,
         \/ SendFails(r) \/ StreamHead(r) \/ Chunk(r) \/ SendChunk(r) \/ UpstreamEnds(r) \/ Flush(r)
         \/ BufferedReturns(r) \/ Resume(r) \/ Refuse(r) \/ Admit(r)
  PROVE  CallInv'
<1>1. UNCHANGED <<ring, pushed>> /\ RingStays
  <2>1. UNCHANGED <<ring, pushed>>
    BY DEF SendFails, StreamHead, Chunk, SendChunk, UpstreamEnds, Flush, BufferedReturns, Resume,
           Refuse, Admit, storeVars, llmVars, receiptVars
  <2>2. QED
    BY <2>1, SameRing DEF CallInv
<1>2. req[r].at \in {"send", "relay", "chunk", "flush", "joined", "body"}
  BY DEF SendFails, StreamHead, Chunk, SendChunk, UpstreamEnds, Flush, BufferedReturns, Resume,
         Refuse, Admit
<1>3. req[r].at \in CallPlaces
  BY <1>2 DEF CallPlaces
<1>4. IsRequests(req) /\ (req[r].at \in {"relay", "chunk", "flush"} => req[r].stream)
  BY DEF CallInv, CallOK
<1>5. CASE To(r, Done)
  BY <1>1, <1>5, DoneKeeps
<1>6. CASE \/ Admit(r) /\ With(r, [at |-> "send"])
           \/ BufferedReturns(r) /\ With(r, [at |-> "joined"])
           \/ Resume(r)
  <2>1. PICK place \in {"send", "joined", "receipt"} :
          With(r, [at |-> place]) /\ (place = "joined" => ~req[r].stream)
    BY <1>6 DEF Resume, BufferedReturns
  <2>2. MovesTo(r, place)
    BY <1>4, <2>1, CallMoves
  <2>3. place \in CallPlaces /\ ~BehindReceipt(place, req[r].stream)
    BY <2>1 DEF CallPlaces, BehindReceipt
  <2>4. QED
    BY <1>1, <1>3, <2>1, <2>2, <2>3, PlainMove
<1>7. CASE \/ StreamHead(r) /\ With(r, [at |-> "relay", client |-> "reads"])
           \/ Chunk(r) \/ SendChunk(r) \/ UpstreamEnds(r) \/ Flush(r)
  <2>1. req[r].stream
    BY <1>4, <1>7 DEF StreamHead, Chunk, SendChunk, UpstreamEnds, Flush
  <2>2. PICK place \in {"relay", "chunk", "flush", "capture"} : MovesTo(r, place)
    <3>1. CASE StreamHead(r) /\ With(r, [at |-> "relay", client |-> "reads"])
      BY <1>4, <3>1, CallMoves
    <3>2. CASE Chunk(r) \/ SendChunk(r)
      <4>1. \/ With(r, [at |-> "flush"])
            \/ With(r, [at |-> "relay", chan |-> req[r].chan + 1])
            \/ With(r, [at |-> "chunk", chunks |-> req[r].chunks + 1])
        BY <3>2 DEF Chunk, SendChunk
      <4>2. QED
        BY <1>4, <4>1, CallMoves
    <3>3. CASE UpstreamEnds(r)
      <4>1. With(r, [at |-> "flush"]) \/ With(r, [at |-> "capture"])
        BY <3>3 DEF UpstreamEnds, EndsRelay
      <4>2. QED
        BY <1>4, <4>1, CallMoves
    <3>4. CASE Flush(r)
      <4>1. With(r, [at |-> "capture"]) \/ With(r, [at |-> "capture", chan |-> req[r].chan + 1])
        BY <3>4 DEF Flush
      <4>2. QED
        BY <1>4, <4>1, CallMoves
    <3>5. QED
      BY <1>7, <3>1, <3>2, <3>3, <3>4
  <2>3. place \in CallPlaces /\ ~BehindReceipt(place, req[r].stream)
    BY <2>1, <2>2 DEF CallPlaces, BehindReceipt
  <2>4. QED
    BY <1>1, <1>3, <2>1, <2>2, <2>3, PlainMove
<1>8. QED
  BY <1>5, <1>6, <1>7 DEF SendFails, StreamHead, BufferedReturns, Refuse, Admit

(* The receipt, and what comes behind it.                                  *)
LEMMA CallBehind ==
  ASSUME CallInv, NEW r \in Req,
         PushReceipt(r) \/ PushCaptured(r) \/ Release(r)
  PROVE  CallInv'
<1>1. IsRequests(req) /\ CallOK(r)
  BY DEF CallInv
<1>2. CASE PushReceipt(r)
  <2>1. Push("recent", CallRow(r)) /\ req[r].at = "receipt" /\ pushed' = Append(pushed, r)
    BY <1>2 DEF PushReceipt
  <2>2. RingOK' /\ Recorded(r)' /\ \A q : Recorded(q) => Recorded(q)'
    BY <2>1, PushRecords DEF CallRow, CallInv
  <2>3. PICK place \in {"release", "capture"} : With(r, [at |-> place])
    BY <1>2 DEF PushReceipt
  <2>4. MovesTo(r, place)
    BY <1>1, <2>3, CallMoves
  <2>5. place \in CallPlaces /\ req[r].at \in CallPlaces
    BY <2>1 DEF CallPlaces
  <2>6. QED
    BY <2>2, <2>4, <2>5, MoveKeeps
<1>3. CASE PushCaptured(r)
  <2>1. RingStays
    <3>1. (UNCHANGED ring \/ Push("captured", CallRow(r))) /\ UNCHANGED pushed
      BY <1>3 DEF PushCaptured, llmVars, receiptVars
    <3>2. QED
      BY <3>1, SameRing, OtherPush DEF CallInv
  <2>2. RingOK' /\ \A q : Recorded(q) => Recorded(q)'
    BY <2>1, StaysRecorded DEF CallInv
  <2>3. req[r].at = "capture" /\ req[r].at \in CallPlaces
    BY <1>3 DEF PushCaptured, CallPlaces
  <2>4. CASE req[r].stream
    <3>1. With(r, [at |-> "receipt"])
      BY <1>3, <2>4 DEF PushCaptured
    <3>2. MovesTo(r, "receipt")
      BY <1>1, <3>1, CallMoves
    <3>3. "receipt" \in CallPlaces /\ ~BehindReceipt("receipt", req[r].stream)
      BY DEF CallPlaces, BehindReceipt
    <3>4. QED
      BY <2>2, <2>3, <3>2, <3>3, MoveKeeps
  <2>5. CASE ~req[r].stream
    <3>1. With(r, [at |-> "closed", client |-> "answered"])
      BY <1>3, <2>5 DEF PushCaptured
    <3>2. MovesTo(r, "closed") /\ "closed" \in CallPlaces
      BY <1>1, <3>1, CallMoves DEF CallPlaces
    <3>3. Recorded(r)'
      BY <1>1, <2>2, <2>3, <2>5 DEF CallOK, BehindReceipt
    <3>4. QED
      BY <2>2, <2>3, <3>2, <3>3, MoveKeeps
  <2>6. QED
    BY <2>4, <2>5
<1>4. CASE Release(r)
  <2>1. UNCHANGED <<ring, pushed>> /\ req[r].at = "release" /\ With(r, [at |-> "closed"])
    BY <1>4 DEF Release, storeVars, receiptVars
  <2>2. MovesTo(r, "closed") /\ "closed" \in CallPlaces /\ req[r].at \in CallPlaces
    BY <1>1, <2>1, CallMoves DEF CallPlaces
  <2>3. BehindReceipt(req[r].at, req[r].stream)
    BY <2>1 DEF BehindReceipt
  <2>4. QED
    BY <2>1, <2>2, <2>3, PlainMove
<1>5. QED
  BY <1>2, <1>3, <1>4

(* What the client does: the task's place stays.                           *)
LEMMA CallClient ==
  ASSUME CallInv, NEW r \in Req, ClientReads(r) \/ Leave(r)
  PROVE  CallInv'
<1>1. UNCHANGED <<ring, pushed>> /\ IsRequests(req) /\ CallOK(r)
  BY DEF ClientReads, Leave, storeVars, llmVars, receiptVars, CallInv
<1>2. CASE To(r, Done)
  BY <1>1, <1>2, SameRing, DoneKeeps DEF CallInv
<1>3. CASE ~To(r, Done)
  <2>1. req[r].at \in CallPlaces
    BY <1>3 DEF ClientReads, Leave, CallPlaces
  <2>2. \/ With(r, [at |-> req[r].at, chan |-> req[r].chan - 1])
        \/ With(r, [at |-> req[r].at, client |-> "ended"])
        \/ With(r, [at |-> req[r].at, client |-> "gone"])
        \/ With(r, [at |-> req[r].at, client |-> "gone", chan |-> 0])
    BY <1>3 DEF ClientReads, Leave
  <2>3. MovesTo(r, req[r].at)
    BY <1>1, <2>2, CallMoves
  <2>4. QED
    BY <1>1, <2>1, <2>3, PlainMove DEF CallOK
<1>4. QED
  BY <1>2, <1>3

LEMMA CallArrives ==
  ASSUME CallInv, NEW r \in Req, NEW k, NEW stream, Arrive(r, k, stream)
  PROVE  CallInv'
<1>0. PICK found \in CliTokenLookup(k) :
        To(r, [at |-> "body", owner |-> IF found THEN tokens[k].user ELSE "",
               token |-> k, stream |-> stream,
               client |-> "waits", chan |-> 0, chunks |-> 0])
  BY DEF Arrive
<1> DEFINE x == [at |-> "body", owner |-> IF found THEN tokens[k].user ELSE "",
                 token |-> k, stream |-> stream,
                 client |-> "waits", chan |-> 0, chunks |-> 0]
<1>1. x.at = "body" /\ "stream" \in DOMAIN x
  OBVIOUS
<1>2. To(r, x) /\ UNCHANGED <<ring, pushed>>
  BY <1>0 DEF Arrive, storeVars, receiptVars
<1> HIDE DEF x
<1>3. RingOK' /\ \A q : Recorded(q) => Recorded(q)'
  BY <1>2, SameRing, StaysRecorded DEF CallInv
<1>4. IsRequests(req') /\ req'[r] = x /\ \A q \in Req : q # r => req'[q] = req[q]
  BY <1>2, ToMoves DEF CallInv
<1>5. CallOK(r)'
  BY <1>1, <1>4 DEF CallOK, BehindReceipt
<1>6. ASSUME NEW q \in Req, q # r
      PROVE  CallOK(q)'
  BY <1>3, <1>4, <1>6 DEF CallInv, CallOK
<1>7. QED
  BY <1>3, <1>4, <1>5, <1>6 DEF CallInv

-----------------------------------------------------------------------------
(* The other handlers never take a request to a place of a call.           *)
LEMMA GoesElsewhere ==
  ASSUME NEW r, NEW places \in {WebPlaces, RunPlaces}, Goes(r, places)
  PROVE  Elsewhere(r)
BY DEF Goes, Elsewhere, WebPlaces, RunPlaces, CallPlaces

LEMMA RunsRing ==
  ASSUME CallInv, RunsStep, UNCHANGED pushed
  PROVE  RingStays
<1>1. UNCHANGED ring \/ \E row : Push("sandbox", row)
  BY DEF RunsStep, ExecStart, ExecDenied, ExecCounts, ExecDropped, Ingest, IngestByToken, Fails,
         Pushes, JoinFails, storeVars
<1>2. QED
  BY <1>1, SameRing, OtherPush DEF CallInv

LEMMA LlmCalls ==
  ASSUME CallInv, LlmStep
  PROVE  CallInv'
<1>1. CASE \/ \E t \in tasks : TaskEnqueues(t)
           \/ DrainMemory
           \/ \E d \in Drainer : Claim(d) \/ Commit(d) \/ Rollback(d)
  <2>1. UNCHANGED <<ring, req, pushed>>
    BY <1>1 DEF TaskEnqueues, DrainMemory, Claim, Commit, Rollback, storeVars
  <2>2. QED
    BY <2>1, SameRing, StillCalls DEF CallInv
<1>2. ASSUME NEW r \in Req,
             \/ Refuse(r) \/ Admit(r) \/ TaskStep(r) \/ HandlerStep(r)
             \/ ClientReads(r) \/ Leave(r)
      PROVE  CallInv'
  BY <1>2, CallBefore, CallBehind, CallClient DEF TaskStep, HandlerStep
<1>3. ASSUME NEW r \in Req, NEW k \in Token, NEW stream \in BOOLEAN, Arrive(r, k, stream)
      PROVE  CallInv'
  BY <1>3, CallArrives
<1>4. ASSUME NEW r \in Req, ViewShow(r) \/ \E s \in Sid : ViewRead(r, s)
      PROVE  CallInv'
  <2>1. UNCHANGED <<ring, pushed>> /\ IsRequests(req)
    BY <1>4 DEF ViewShow, ViewRead, storeVars, llmVars, receiptVars, CallInv
  <2>2. Elsewhere(r)
    <3>1. CASE ViewShow(r)
      BY <2>1, <3>1, ToMoves DEF ViewShow, Elsewhere, Done, CallPlaces
    <3>2. CASE \E s \in Sid : ViewRead(r, s)
      <4>1. PICK s \in Sid : Require("captured", r, s, [at |-> "view", user |-> sess[s]])
        BY <3>2 DEF ViewRead
      <4>2. Goes(r, {"view"})
        BY <2>1, <4>1, RequireGoes
      <4>3. QED
        BY <4>2 DEF Goes, Elsewhere, CallPlaces
    <3>3. QED
      BY <1>4, <3>1, <3>2
  <2>3. QED
    BY <2>1, <2>2, SameRing, ElsewhereKeeps DEF CallInv
<1>5. QED
  BY <1>1, <1>2, <1>3, <1>4 DEF LlmStep

LEMMA EmptyIsOK ==
  ASSUME ring = [s \in Store |-> <<>>], pushed = <<>>
  PROVE  RingOK
<1>1. Newest(<<>>) = <<>>
  BY StoresAssumption DEF Newest
<1>2. Recent = <<>>
  BY DEF Recent, Store
<1>3. QED
  BY <1>1, <1>2 DEF RingOK, IsRing

LEMMA EmptyRing ==
  ring' = [s \in Store |-> <<>>] /\ pushed' = <<>> => RingOK'
<1>1. (ring = [s \in Store |-> <<>>] /\ pushed = <<>> => RingOK)'
  BY EmptyIsOK, PTL
<1>2. QED
  BY <1>1

LEMMA CallsKept ==
  ASSUME CallInv, [ServerNext]_serverVars
  PROVE  CallInv'
<1>1. CASE Tasks \/ UNCHANGED serverVars
  <2>1. UNCHANGED <<ring, req, pushed>>
    BY <1>1 DEF Tasks, TaskFails, TaskInserts, TaskTrims, TaskTrimFails, serverVars, storeVars,
                llmVars, receiptVars
  <2>2. QED
    BY <2>1, SameRing, StillCalls DEF CallInv
<1>2. CASE Web
  <2>1. RingStays
    BY <1>2, SameRing DEF Web, storeVars, llmVars, receiptVars, CallInv
  <2>2. QED
    BY <1>2, <2>1, WebGoes, GoesElsewhere, ElsewhereKeeps, StillCalls DEF Web, CallInv
<1>3. CASE Llm
  BY <1>3, LlmCalls DEF Llm
<1>4. CASE Runs
  BY <1>4, RunsRing, RunsGo, GoesElsewhere, ElsewhereKeeps DEF Runs, CallInv, llmVars, receiptVars
<1>5. CASE Restart
  <2>1. /\ req' = [r \in Req |-> IF req[r] = Unused THEN Unused ELSE Done]
        /\ ring' = [s \in Store |-> <<>>] /\ pushed' = <<>>
    BY <1>5 DEF Restart, StoresRestart, LlmRestart
  <2>2. IsRequests(req') /\ \A r \in Req : req'[r].at \notin CallPlaces
    BY <2>1 DEF IsRequests, Unused, Done, CallPlaces
  <2>3. \A r \in Req : CallOK(r)'
    BY <2>2 DEF CallOK, BehindReceipt, CallPlaces
  <2>4. RingOK'
    BY <2>1, EmptyRing
  <2>5. QED
    BY <2>2, <2>3, <2>4 DEF CallInv
<1>6. QED
  BY <1>1, <1>2, <1>3, <1>4, <1>5 DEF ServerNext

LEMMA CallsInit == ServerInit => CallInv
<1>1. SUFFICES ASSUME ServerInit PROVE CallInv
  OBVIOUS
<1>2. req = [r \in Req |-> Unused] /\ ring = [s \in Store |-> <<>>] /\ pushed = <<>>
  BY <1>1 DEF ServerInit, StoresInit, LlmInit
<1>3. IsRequests(req) /\ \A r \in Req : CallOK(r)
  BY <1>2 DEF IsRequests, Unused, CallOK, BehindReceipt, CallPlaces
<1>4. RingOK
  BY <1>2, EmptyIsOK
<1>5. QED
  BY <1>3, <1>4 DEF CallInv

(* Once a client has its answer or the end of its stream the call is in the *)
(* ring of recent ones until RingCap later calls have been pushed: for any  *)
(* ring, any channel and any number of concurrent calls, clients that leave *)
(* and restarts.  It is said of the ring, which answers without PostgreSQL. *)
THEOREM AnswersCorrect == ServerSpec => []AnsweredIsRecorded
<1>1. CallInv => AnsweredIsRecorded
  <2> SUFFICES ASSUME CallInv, NEW r \in Req, Answered(r)
               PROVE  /\ r \in Range(pushed)
                      /\ r \in Range(Newest(pushed)) => r \in IdsOf(ring["recent"])
    BY DEF AnsweredIsRecorded
  <2>1. r \in Range(pushed)
    BY DEF CallInv, CallOK, BehindReceipt, Recorded, Answered
  <2>2. ASSUME r \in Range(Newest(pushed))
        PROVE  r \in IdsOf(Recent)
    <3>1. Newest(pushed) \in Seq(Req)
      BY NewestIs DEF CallInv, RingOK
    <3>2. PICK i \in 1..Len(Newest(pushed)) : Newest(pushed)[i] = r
      BY <2>2, <3>1 DEF Range
    <3>3. i \in DOMAIN Recent /\ Recent[i].id = r
      BY <3>2 DEF CallInv, RingOK
    <3>4. QED
      BY <3>3 DEF IdsOf, Range
  <2>3. QED
    BY <2>1, <2>2 DEF Recent
<1>2. QED
  BY <1>1, CallsInit, CallsKept, PTL DEF ServerSpec

-----------------------------------------------------------------------------
(* The runs the counters must cover: those of the ring, and those that are *)
(* on their way to it.                                                     *)
At(places) == {r \in Req : req[r].at \in places}

CountedRuns == Listed({"ok", "failed"}) \cup At({"counted", "failed"})
FailedRuns  == Listed({"failed"}) \cup At({"failed"})
DeniedRuns  == Listed({"denied"})

Covered(S, n) == IsFiniteSet(S) /\ Cardinality(S) <= n

SandboxRing == ring["sandbox"]

RunsInv ==
  /\ total \in Nat /\ failed \in Nat /\ denied \in Nat
  /\ SandboxRing \in Seq(Range(SandboxRing))
  /\ Covered(CountedRuns, total)
  /\ Covered(FailedRuns, failed)
  /\ failed <= total /\ Covered(At({"counted"}), total - failed)
  /\ Covered(DeniedRuns, denied)

LEMMA CoveredLess ==
  ASSUME NEW S, NEW n \in Nat, Covered(S, n), NEW T, T \subseteq S
  PROVE  Covered(T, n)
<1>1. IsFiniteSet(T) /\ Cardinality(T) <= Cardinality(S)
  BY FS_Subset DEF Covered
<1>2. Cardinality(S) \in Nat /\ Cardinality(T) \in Nat
  BY <1>1, FS_CardinalityType DEF Covered
<1>3. QED
  BY <1>1, <1>2 DEF Covered

LEMMA CoveredMore ==
  ASSUME NEW S, NEW n \in Nat, Covered(S, n), NEW x, NEW T, T \subseteq S \cup {x}
  PROVE  Covered(T, n + 1)
<1>1. Cardinality(S) \in Nat
  BY FS_CardinalityType DEF Covered
<1>2. /\ IsFiniteSet(S \cup {x})
      /\ Cardinality(S \cup {x}) = IF x \in S THEN Cardinality(S) ELSE Cardinality(S) + 1
  BY FS_AddElement DEF Covered
<1>3. Cardinality(S \cup {x}) \in Nat
  BY <1>2, FS_CardinalityType
<1>4. Covered(S \cup {x}, n + 1)
  BY <1>1, <1>2, <1>3 DEF Covered
<1>5. n + 1 \in Nat
  OBVIOUS
<1>6. QED
  BY <1>4, <1>5, CoveredLess

LEMMA CoveredFewer ==
  ASSUME NEW S, NEW n \in Nat, Covered(S, n), NEW x \in S, NEW T, T \subseteq S \ {x}
  PROVE  n - 1 \in Nat /\ Covered(T, n - 1)
<1>1. Cardinality(S) \in Nat
  BY FS_CardinalityType DEF Covered
<1>2. IsFiniteSet(S \ {x}) /\ Cardinality(S \ {x}) = Cardinality(S) - 1
  BY FS_RemoveElement DEF Covered
<1>3. Cardinality(S \ {x}) \in Nat
  BY <1>2, FS_CardinalityType
<1>4. n - 1 \in Nat /\ Covered(S \ {x}, n - 1)
  BY <1>1, <1>2, <1>3 DEF Covered
<1>5. QED
  BY <1>4, CoveredLess

LEMMA CoveredEmpty == \A n \in Nat : Covered({}, n)
<1>1. Cardinality({}) = 0 /\ IsFiniteSet({})
  BY FS_EmptySet
<1>2. QED
  BY <1>1 DEF Covered

(* The newest entries.                                                     *)
LEMMA NewestOf ==
  ASSUME NEW S, NEW s \in Seq(S)
  PROVE  /\ Newest(s) \in Seq(S) /\ Newest(s) \in Seq(Range(Newest(s)))
         /\ Range(Newest(s)) \subseteq Range(s)
         /\ Len(Newest(s)) <= RingCap
<1>1. RingCap \in Nat \ {0} /\ Len(s) \in Nat
  BY StoresAssumption
<1>2. Newest(s) \in Seq(S) /\ Len(Newest(s)) <= RingCap
  BY <1>1 DEF Newest
<1>3. Range(Newest(s)) \subseteq Range(s)
  BY <1>1 DEF Newest, Range
<1>4. Newest(s) \in Seq(Range(Newest(s)))
  BY <1>2, SeqRange
<1>5. QED
  BY <1>2, <1>3, <1>4

LEMMA NewestKept ==
  ASSUME NEW s, s \in Seq(Range(s)), NEW row
  PROVE  /\ Newest(Append(s, row)) \in Seq(Range(Newest(Append(s, row))))
         /\ Range(Newest(Append(s, row))) \subseteq Range(s) \cup {row}
         /\ Len(Newest(Append(s, row))) <= RingCap
<1>1. Append(s, row) \in Seq(Range(s) \cup {row})
  OBVIOUS
<1>2. Range(Append(s, row)) \subseteq Range(s) \cup {row}
  BY <1>1 DEF Range
<1>3. QED
  BY <1>1, <1>2, NewestOf

(* The runs of the ring after a push.                                      *)
LEMMA PushLists ==
  ASSUME IsRing, SandboxRing \in Seq(Range(SandboxRing)),
         NEW r, NEW o, Push("sandbox", Run(r, o))
  PROVE  /\ SandboxRing' \in Seq(Range(SandboxRing'))
         /\ \A os : o \in os => Listed(os)' \subseteq Listed(os) \cup {r}
         /\ \A os : o \notin os => Listed(os)' \subseteq Listed(os)
<1>1. SandboxRing' = Newest(Append(SandboxRing, Run(r, o)))
  BY DEF Push, Store, SandboxRing, IsRing
<1>2. /\ SandboxRing' \in Seq(Range(SandboxRing'))
      /\ Range(SandboxRing') \subseteq Range(SandboxRing) \cup {Run(r, o)}
  BY <1>1, NewestKept
<1>3. \A q, p : Run(q, p) = Run(r, o) => q = r /\ p = o
  <2>1. ASSUME NEW q, NEW p, Run(q, p) = Run(r, o) PROVE q = r /\ p = o
    <3>1. Run(q, p).id = q /\ Run(q, p).tag = p /\ Run(r, o).id = r /\ Run(r, o).tag = o
      BY DEF Run
    <3>2. QED
      BY <2>1, <3>1
  <2>2. QED
    BY <2>1
<1>4. QED
  BY <1>2, <1>3 DEF Listed, SandboxRing

LEMMA AtGoes ==
  ASSUME NEW r \in Req, NEW places, Goes(r, places)
  PROVE  /\ \A P : req'[r].at \notin P => At(P)' \subseteq At(P) \ {r}
         /\ \A P : At(P)' \subseteq At(P) \cup {r}
         /\ \A P : req[r].at \in P => r \in At(P)
BY DEF Goes, At

(* A run is counted: executed by the server, or reported.                  *)
LEMMA RunCounts ==
  ASSUME IsRequests(req), RunsInv, NEW r \in Req, ExecCounts(r) \/ Ingest(r)
  PROVE  RunsInv'
<1>1. /\ req[r].at \in RunPlaces \cup {"unused"} /\ To(r, [at |-> "counted"])
      /\ total' = total + 1 /\ UNCHANGED <<failed, denied, SandboxRing>>
  BY DEF ExecCounts, Ingest, Routed, RunPlaces, storeVars, SandboxRing
<1>2. Goes(r, RunPlaces) /\ req'[r].at = "counted"
  BY <1>1, ToGoes, ToMoves DEF RunPlaces, CallPlaces
<1>3. \A os : Listed(os)' = Listed(os)
  BY <1>1 DEF Listed, SandboxRing
<1>4. /\ CountedRuns' \subseteq CountedRuns \cup {r}
      /\ At({"counted"})' \subseteq At({"counted"}) \cup {r}
      /\ FailedRuns' \subseteq FailedRuns /\ DeniedRuns' \subseteq DeniedRuns
  BY <1>2, <1>3, AtGoes DEF CountedRuns, FailedRuns, DeniedRuns
<1>5. Covered(CountedRuns', total + 1)
  BY <1>4, CoveredMore DEF RunsInv
<1>6. Covered(At({"counted"})', total' - failed)
  <2>1. total - failed \in Nat /\ total' - failed = (total - failed) + 1
    BY <1>1 DEF RunsInv
  <2>2. QED
    BY <1>4, <2>1, CoveredMore DEF RunsInv
<1>7. Covered(FailedRuns', failed) /\ Covered(DeniedRuns', denied)
  BY <1>4, CoveredLess DEF RunsInv
<1>8. QED
  BY <1>1, <1>5, <1>6, <1>7 DEF RunsInv

(* It fails after it was counted.                                          *)
LEMMA RunFails ==
  ASSUME IsRequests(req), RunsInv, NEW r \in Req, Fails(r)
  PROVE  RunsInv'
<1>1. /\ req[r].at = "counted" /\ To(r, [at |-> "failed"])
      /\ failed' = failed + 1 /\ UNCHANGED <<total, denied, SandboxRing>>
  BY DEF Fails, storeVars, SandboxRing
<1>2. Goes(r, RunPlaces) /\ req'[r].at = "failed"
  BY <1>1, ToGoes, ToMoves DEF RunPlaces, CallPlaces
<1>3. \A os : Listed(os)' = Listed(os)
  BY <1>1 DEF Listed, SandboxRing
<1>4. r \in At({"counted"}) /\ r \in At({"counted", "failed"})
  BY <1>1 DEF At
<1>5. /\ CountedRuns' \subseteq CountedRuns
      /\ At({"counted"})' \subseteq At({"counted"}) \ {r}
      /\ FailedRuns' \subseteq FailedRuns \cup {r} /\ DeniedRuns' \subseteq DeniedRuns
  BY <1>2, <1>3, <1>4, AtGoes DEF CountedRuns, FailedRuns, DeniedRuns
<1>6. Covered(CountedRuns', total) /\ Covered(DeniedRuns', denied)
  BY <1>5, CoveredLess DEF RunsInv
<1>7. Covered(FailedRuns', failed + 1)
  BY <1>5, CoveredMore DEF RunsInv
<1>8. failed' <= total /\ Covered(At({"counted"})', total - failed')
  <2>1. total - failed \in Nat /\ total - failed' = (total - failed) - 1
    BY <1>1 DEF RunsInv
  <2>2. total - failed' \in Nat /\ Covered(At({"counted"})', total - failed')
    BY <1>4, <1>5, <2>1, CoveredFewer DEF RunsInv
  <2>3. QED
    BY <1>1, <2>2 DEF RunsInv
<1>9. QED
  BY <1>1, <1>6, <1>7, <1>8 DEF RunsInv

(* It is listed after it was counted, and after it failed.                 *)
LEMMA RunPushes ==
  ASSUME IsRequests(req), IsRing, RunsInv, NEW r \in Req, Pushes(r)
  PROVE  RunsInv'
<1> DEFINE o == IF req[r].at = "failed" THEN "failed" ELSE "ok"
<1>1. /\ req[r].at \in {"counted", "failed"} /\ To(r, Done)
      /\ Push("sandbox", Run(r, o)) /\ UNCHANGED runVars
  BY DEF Pushes
<1>2. Goes(r, RunPlaces) /\ req'[r].at = "done"
  BY <1>1, DoneGoes, ToMoves DEF RunPlaces, Done
<1>3. /\ SandboxRing' \in Seq(Range(SandboxRing'))
      /\ \A os : o \in os => Listed(os)' \subseteq Listed(os) \cup {r}
      /\ \A os : o \notin os => Listed(os)' \subseteq Listed(os)
  BY <1>1, PushLists DEF RunsInv
<1>4. CountedRuns' \subseteq CountedRuns
  <2>1. r \in At({"counted", "failed"})
    BY <1>1 DEF At
  <2>2. QED
    BY <1>2, <1>3, <2>1, AtGoes DEF CountedRuns
<1>5. FailedRuns' \subseteq FailedRuns
  <2>1. o = "failed" => r \in At({"failed"})
    BY DEF At
  <2>2. QED
    BY <1>2, <1>3, <2>1, AtGoes DEF FailedRuns
<1>6. DeniedRuns' \subseteq DeniedRuns /\ At({"counted"})' \subseteq At({"counted"})
  BY <1>2, <1>3, AtGoes DEF DeniedRuns
<1>7. UNCHANGED <<total, failed, denied>>
  BY <1>1 DEF runVars
<1>8. total - failed \in Nat
  BY DEF RunsInv
<1>9. /\ Covered(CountedRuns', total) /\ Covered(FailedRuns', failed)
      /\ Covered(DeniedRuns', denied) /\ Covered(At({"counted"})', total - failed)
  BY <1>4, <1>5, <1>6, <1>8, CoveredLess DEF RunsInv
<1>10. QED
  BY <1>3, <1>7, <1>9 DEF RunsInv

LEMMA RunDenied ==
  ASSUME IsRequests(req), IsRing, RunsInv, NEW r \in Req, ExecDenied(r)
  PROVE  RunsInv'
<1>1. /\ req[r].at = "exec" /\ To(r, Done) /\ Push("sandbox", Run(r, "denied"))
      /\ denied' = denied + 1 /\ UNCHANGED <<total, failed>>
  BY DEF ExecDenied
<1>2. Goes(r, RunPlaces) /\ req'[r].at = "done"
  BY <1>1, DoneGoes, ToMoves DEF RunPlaces, Done
<1>3. /\ SandboxRing' \in Seq(Range(SandboxRing'))
      /\ \A os : "denied" \in os => Listed(os)' \subseteq Listed(os) \cup {r}
      /\ \A os : "denied" \notin os => Listed(os)' \subseteq Listed(os)
  BY <1>1, PushLists DEF RunsInv
<1>4. /\ CountedRuns' \subseteq CountedRuns /\ FailedRuns' \subseteq FailedRuns
      /\ At({"counted"})' \subseteq At({"counted"})
  BY <1>2, <1>3, AtGoes DEF CountedRuns, FailedRuns
<1>5. DeniedRuns' \subseteq DeniedRuns \cup {r}
  BY <1>3 DEF DeniedRuns
<1>6. total - failed \in Nat
  BY DEF RunsInv
<1>7. /\ Covered(CountedRuns', total) /\ Covered(FailedRuns', failed)
      /\ Covered(At({"counted"})', total - failed)
  BY <1>4, <1>6, CoveredLess DEF RunsInv
<1>8. Covered(DeniedRuns', denied + 1)
  BY <1>5, CoveredMore DEF RunsInv
<1>9. QED
  BY <1>1, <1>3, <1>7, <1>8 DEF RunsInv

(* No other step takes a run to where it counts, nor touches the counters. *)
LEMMA RunElsewhere ==
  ASSUME RunsInv, UNCHANGED <<runVars, SandboxRing>>,
         \/ UNCHANGED req
         \/ \E r \in Req : \E places : Goes(r, places) /\ req'[r].at \notin {"counted", "failed"}
  PROVE  RunsInv'
<1>1. \A os : Listed(os)' = Listed(os)
  BY DEF Listed, SandboxRing
<1>2. \A P \in SUBSET {"counted", "failed"} : At(P)' \subseteq At(P)
  <2>1. CASE UNCHANGED req
    BY <2>1 DEF At
  <2>2. CASE ~UNCHANGED req
    BY <2>2, AtGoes
  <2>3. QED
    BY <2>1, <2>2
<1>3. /\ CountedRuns' \subseteq CountedRuns /\ FailedRuns' \subseteq FailedRuns
      /\ At({"counted"})' \subseteq At({"counted"}) /\ DeniedRuns' \subseteq DeniedRuns
  BY <1>1, <1>2 DEF CountedRuns, FailedRuns, DeniedRuns
<1>4. total - failed \in Nat
  BY DEF RunsInv
<1>5. /\ Covered(CountedRuns', total) /\ Covered(FailedRuns', failed)
      /\ Covered(DeniedRuns', denied) /\ Covered(At({"counted"})', total - failed)
  BY <1>3, <1>4, CoveredLess DEF RunsInv
<1>6. QED
  BY <1>5 DEF RunsInv, runVars

(* The ring of runs under the steps of the proxy.                          *)
LEMMA LlmRings ==
  ASSUME IsRing, LlmStep
  PROVE  UNCHANGED SandboxRing
<1>1. CASE UNCHANGED ring
  BY <1>1 DEF SandboxRing
<1>2. CASE ~UNCHANGED ring
  <2>1. PICK store \in {"recent", "captured"} : \E row : Push(store, row)
    <3>1. PICK r \in Req : PushReceipt(r) \/ PushCaptured(r)
      BY <1>2 DEF LlmStep, TaskStep, HandlerStep, Arrive, Refuse, Admit, SendFails, StreamHead,
                  Chunk, SendChunk, UpstreamEnds, Flush, Release, BufferedReturns, Resume,
                  ClientReads, Leave, ViewRead, ViewShow, TaskEnqueues, DrainMemory, Claim,
                  Commit, Rollback, storeVars
    <3>2. QED
      BY <1>2, <3>1 DEF PushReceipt, PushCaptured
  <2>2. QED
    BY <2>1 DEF Push, SandboxRing, IsRing, Store
<1>3. QED
  BY <1>1, <1>2

(* Nothing is running, listed or counted.                                  *)
NoRuns ==
  /\ At({"counted", "failed"}) = {} /\ SandboxRing = <<>>
  /\ total = 0 /\ failed = 0 /\ denied = 0

LEMMA NoRunsOK == NoRuns => RunsInv
<1>1. SUFFICES ASSUME NoRuns PROVE RunsInv
  OBVIOUS
<1>2. Range(SandboxRing) = {} /\ SandboxRing \in Seq(Range(SandboxRing))
  BY <1>1 DEF NoRuns, Range
<1>3. \A os : Listed(os) = {}
  BY <1>2 DEF Listed, SandboxRing
<1>4. At({"counted"}) = {} /\ At({"failed"}) = {}
  BY <1>1 DEF NoRuns, At
<1>5. CountedRuns = {} /\ FailedRuns = {} /\ DeniedRuns = {}
  BY <1>1, <1>3, <1>4 DEF NoRuns, CountedRuns, FailedRuns, DeniedRuns
<1>6. Covered({}, 0)
  BY CoveredEmpty
<1>7. total = 0 /\ failed = 0 /\ denied = 0 /\ total - failed = 0
  BY <1>1 DEF NoRuns
<1>8. QED
  BY <1>2, <1>4, <1>5, <1>6, <1>7, SMTT(20) DEF RunsInv

LEMMA RunsKept ==
  ASSUME CallInv, RunsInv, [ServerNext]_serverVars
  PROVE  RunsInv'
<1>1. IsRequests(req) /\ IsRing
  BY DEF CallInv, RingOK
<1>2. CASE Tasks \/ UNCHANGED serverVars
  <2>1. UNCHANGED <<runVars, SandboxRing, req>>
    BY <1>2 DEF Tasks, TaskFails, TaskInserts, TaskTrims, TaskTrimFails, serverVars, storeVars, SandboxRing
  <2>2. QED
    BY <2>1, RunElsewhere
<1>3. CASE Web
  <2>1. UNCHANGED <<runVars, SandboxRing>>
    BY <1>3 DEF Web, storeVars, SandboxRing
  <2>2. UNCHANGED req \/ \E r \in Req : Goes(r, WebPlaces) /\ req'[r].at \notin {"counted", "failed"}
    BY <1>1, <1>3, WebGoes DEF Web, Goes, WebPlaces
  <2>3. QED
    BY <2>1, <2>2, RunElsewhere
<1>4. CASE Llm
  <2>1. UNCHANGED runVars /\ UNCHANGED SandboxRing
    BY <1>1, <1>4, LlmRings DEF Llm
  <2>2. UNCHANGED req \/ \E r \in Req : Goes(r, LlmPlaces) /\ req'[r].at \notin {"counted", "failed"}
    BY <1>1, <1>4, LlmGoes DEF Llm, Goes, LlmPlaces, CallPlaces
  <2>3. QED
    BY <2>1, <2>2, RunElsewhere
<1>5. ASSUME Runs, NEW r \in Req, JoinFails(r) \/ ExecDropped(r) \/ \E s \in Sid : ExecStart(r, s)
      PROVE  RunsInv'
  <2>1. UNCHANGED <<runVars, SandboxRing>>
    BY <1>5 DEF JoinFails, ExecDropped, ExecStart, storeVars, SandboxRing
  <2>2. Goes(r, RunPlaces) /\ req'[r].at \notin {"counted", "failed"}
    <3>1. CASE To(r, Done)
      <4>1. req[r].at \in RunPlaces \cup {"unused"}
        BY <1>5 DEF JoinFails, ExecDropped, ExecStart, Require, Routed, RunPlaces
      <4>2. QED
        BY <1>1, <3>1, <4>1, DoneGoes, ToMoves DEF Done
    <3>2. CASE ~To(r, Done)
      <4>1. To(r, [at |-> "exec"]) /\ req[r].at = "unused"
        BY <1>5, <3>2 DEF JoinFails, ExecDropped, ExecStart, Require, Routed
      <4>2. [at |-> "exec"].at = "exec" /\ "exec" \in RunPlaces
        BY DEF RunPlaces
      <4>3. QED
        BY <1>1, <4>1, <4>2, ToGoes, ToMoves
    <3>3. QED
      BY <3>1, <3>2
  <2>3. QED
    BY <2>1, <2>2, RunElsewhere
<1>6. CASE Runs
  BY <1>1, <1>5, <1>6, RunCounts, RunFails, RunPushes, RunDenied DEF Runs, RunsStep, IngestByToken
<1>7. CASE Restart
  <2>1. /\ req' = [r \in Req |-> IF req[r] = Unused THEN Unused ELSE Done]
        /\ ring' = [s \in Store |-> <<>>]
        /\ total' = 0 /\ failed' = 0 /\ denied' = 0
    BY <1>7 DEF Restart, StoresRestart, RunsRestart
  <2>2. NoRuns'
    BY <2>1 DEF NoRuns, At, Unused, Done, SandboxRing, Store
  <2>3. (NoRuns => RunsInv)'
    BY NoRunsOK, PTL
  <2>4. QED
    BY <2>2, <2>3
<1>8. QED
  BY <1>2, <1>3, <1>4, <1>6, <1>7 DEF ServerNext

(* The counters of runs are never behind the list of recent runs, nor the  *)
(* failures ahead of the runs: for any number of runs at once, reported or *)
(* executed, clients that leave, any ring, and restarts.                   *)
THEOREM RunsCorrect == ServerSpec => []RunsAreCounted
<1>1. ServerInit => RunsInv
  <2>1. ServerInit => NoRuns
    BY DEF ServerInit, StoresInit, RunsInit, NoRuns, At, Unused, SandboxRing, Store
  <2>2. QED
    BY <2>1, NoRunsOK
<1>2. RunsInv => RunsAreCounted
  <2>1. SUFFICES ASSUME RunsInv PROVE RunsAreCounted
    OBVIOUS
  <2>2. Listed({"ok", "failed"}) \subseteq CountedRuns /\ Listed({"failed"}) \subseteq FailedRuns
    BY DEF CountedRuns, FailedRuns
  <2>3. Covered(Listed({"ok", "failed"}), total) /\ Covered(Listed({"failed"}), failed)
    BY <2>1, <2>2, CoveredLess DEF RunsInv
  <2>4. QED
    BY <2>1, <2>3 DEF RunsInv, RunsAreCounted, Covered, DeniedRuns
<1>3. QED
  BY <1>1, <1>2, CallsInit, CallsKept, RunsKept, PTL DEF ServerSpec

-----------------------------------------------------------------------------
(* The numbers up to n.                                                    *)
LEMMA UpTo ==
  ASSUME NEW n \in Nat
  PROVE  IsFiniteSet(1 .. n) /\ Cardinality(1 .. n) = n
<1>1. 1 \in Int /\ n \in Int
  OBVIOUS
<1>2. IsFiniteSet(1 .. n) /\ Cardinality(1 .. n) = IF 1 > n THEN 0 ELSE n - 1 + 1
  BY <1>1, FS_Interval
<1>3. QED
  BY <1>2

(* The place of i among the members of a set of numbers.                   *)
Rank(P, i) == Cardinality({j \in P : j <= i})

LEMMA RankGrows ==
  ASSUME NEW P \in SUBSET Nat, IsFiniteSet(P), NEW i \in P
  PROVE  /\ Rank(P, i) \in 1 .. Cardinality(P)
         /\ \A j \in P : i < j => Rank(P, i) < Rank(P, j)
<1>1. ASSUME NEW k \in Nat
      PROVE  IsFiniteSet({j \in P : j <= k}) /\ Rank(P, k) \in Nat
  <2>1. IsFiniteSet({j \in P : j <= k})
    BY FS_Subset
  <2>2. QED
    BY <2>1, FS_CardinalityType DEF Rank
<1>2. Rank(P, i) <= Cardinality(P) /\ Cardinality(P) \in Nat
  BY FS_Subset, FS_CardinalityType DEF Rank
<1>3. Rank(P, i) # 0
  <2>1. i \in {j \in P : j <= i}
    OBVIOUS
  <2>2. QED
    BY <1>1, <2>1, FS_EmptySet DEF Rank
<1>4. ASSUME NEW j \in P, i < j
      PROVE  Rank(P, i) < Rank(P, j)
  <2> DEFINE S == {k \in P : k <= i}
             T == {k \in P : k <= j}
  <2>1. IsFiniteSet(T)
    BY <1>1
  <2>2. S \in SUBSET T /\ j \in T /\ j \notin S
    <3>1. \A k \in P : k <= i => k <= j
      BY <1>4
    <3>2. i \in Nat /\ j \in Nat /\ ~(j <= i) /\ j <= j
      BY <1>4
    <3>3. QED
      BY <3>1, <3>2
  <2> HIDE DEF S, T
  <2>3. IsFiniteSet(S) /\ Cardinality(S) <= Cardinality(T) /\ Cardinality(S) # Cardinality(T)
    BY <2>1, <2>2, FS_Subset
  <2>4. Cardinality(S) \in Nat /\ Cardinality(T) \in Nat
    BY <2>1, <2>3, FS_CardinalityType
  <2>5. Cardinality(S) < Cardinality(T)
    BY <2>3, <2>4
  <2>6. QED
    BY <2>5 DEF S, T, Rank
<1>5. Rank(P, i) \in Nat
  BY <1>1
<1>6. QED
  BY <1>2, <1>3, <1>4, <1>5

(* A finite set of numbers has a member at every place.                    *)
LEMMA RankTaken ==
  ASSUME NEW P \in SUBSET Nat, IsFiniteSet(P), NEW k \in 1 .. Cardinality(P)
  PROVE  \E i \in P : Rank(P, i) = k
<1> DEFINE n == Cardinality(P)
           f == [i \in P |-> Rank(P, i)]
<1>1. n \in Nat
  BY FS_CardinalityType
<1>2. f \in [P -> 1 .. n]
  BY RankGrows
<1>3. \A i, j \in P : f[i] = f[j] => i = j
  <2>1. ASSUME NEW i \in P, NEW j \in P, i # j
        PROVE  Rank(P, i) # Rank(P, j)
    <3>1. i < j \/ j < i
      BY <2>1
    <3>2. Rank(P, i) \in Nat /\ Rank(P, j) \in Nat
      BY <1>1, RankGrows
    <3>3. Rank(P, i) < Rank(P, j) \/ Rank(P, j) < Rank(P, i)
      BY <3>1, RankGrows
    <3>4. QED
      BY <3>2, <3>3
  <2>2. QED
    BY <2>1
<1>4. IsFiniteSet(1 .. n) /\ Cardinality(1 .. n) = n
  BY <1>1, UpTo
<1> HIDE DEF f
<1>5. f \in Injection(P, 1 .. n)
  BY <1>2, <1>3 DEF Injection, IsInjective
<1>6. f \in Surjection(P, 1 .. n)
  BY <1>4, <1>5, FS_Injection
<1>7. QED
  BY <1>6 DEF Surjection, f

(* What is kept of a sequence are its entries at the places kept, each     *)
(* once.                                                                   *)
IsEnumeration(f, P) ==
  /\ f \in [1 .. Cardinality(P) -> P]
  /\ \A k, l \in 1 .. Cardinality(P) : f[k] = f[l] => k = l
  /\ \A i \in P : \E k \in 1 .. Cardinality(P) : f[k] = i

LEMMA KeptEntries ==
  ASSUME NEW s, NEW P \in SUBSET Nat, IsFiniteSet(P)
  PROVE  \E f : IsEnumeration(f, P) /\ Kept(s, P) = [k \in 1 .. Cardinality(P) |-> s[f[k]]]
<1> DEFINE n == Cardinality(P)
           f == [k \in 1 .. n |-> CHOOSE i \in P : Rank(P, i) = k]
<1>1. \A k \in 1 .. n : f[k] \in P /\ Rank(P, f[k]) = k
  BY RankTaken
<1>2. ASSUME NEW i \in P
      PROVE  \E k \in 1 .. n : f[k] = i
  <2>1. Rank(P, i) \in 1 .. n
    BY RankGrows
  <2>2. PICK j \in P : j = f[Rank(P, i)] /\ Rank(P, j) = Rank(P, i)
    BY <1>1, <2>1
  <2>3. ~(Rank(P, i) < Rank(P, j)) /\ ~(Rank(P, j) < Rank(P, i))
    <3>1. Rank(P, i) \in Nat
      BY <2>1, FS_CardinalityType
    <3>2. QED
      BY <2>2, <3>1
  <2>4. ~(i < j) /\ ~(j < i)
    BY <2>3, RankGrows
  <2>5. i = j
    BY <2>4
  <2>6. QED
    BY <2>1, <2>2, <2>5
<1>3. Kept(s, P) = [k \in 1 .. n |-> s[f[k]]]
  BY DEF Kept, Rank
<1>4. f = [k \in 1 .. n |-> f[k]]
  OBVIOUS
<1> HIDE DEF f
<1>5. f \in [1 .. n -> P]
  BY <1>1, <1>4
<1>6. \A k, l \in 1 .. n : f[k] = f[l] => k = l
  BY <1>1
<1>7. QED
  BY <1>2, <1>3, <1>5, <1>6 DEF IsEnumeration

LEMMA KeptRange ==
  ASSUME NEW S, NEW s \in Seq(S), NEW P \in SUBSET DOMAIN s
  PROVE  /\ Kept(s, P) \in Seq(S)
         /\ Range(Kept(s, P)) = {s[i] : i \in P}
         /\ IsInjective(s) => IsInjective(Kept(s, P))
<1>1. IsFiniteSet(P) /\ P \in SUBSET Nat
  <2>1. DOMAIN s = 1 .. Len(s) /\ Len(s) \in Nat
    OBVIOUS
  <2>2. IsFiniteSet(1 .. Len(s))
    BY <2>1, FS_Interval
  <2>3. QED
    BY <2>1, <2>2, FS_Subset
<1> DEFINE n == Cardinality(P)
<1>2. n \in Nat
  BY <1>1, FS_CardinalityType
<1>3. PICK f : IsEnumeration(f, P) /\ Kept(s, P) = [k \in 1 .. n |-> s[f[k]]]
  BY <1>1, KeptEntries
<1>4. \A i \in P : s[i] \in S
  OBVIOUS
<1>5. Kept(s, P) \in Seq(S)
  BY <1>2, <1>3, <1>4 DEF IsEnumeration
<1>6. Range(Kept(s, P)) = {s[i] : i \in P}
  BY <1>3 DEF IsEnumeration, Range
<1>7. IsInjective(s) => IsInjective(Kept(s, P))
  BY <1>3 DEF IsEnumeration, IsInjective
<1>8. QED
  BY <1>5, <1>6, <1>7

LEMMA WithoutRange ==
  ASSUME NEW S, NEW s \in Seq(S), NEW ids
  PROVE  /\ Without(s, ids) \in Seq(S)
         /\ Range(Without(s, ids)) = Range(s) \ ids
         /\ IsInjective(s) => IsInjective(Without(s, ids))
<1> DEFINE P == {i \in DOMAIN s : s[i] \notin ids}
<1>1. P \in SUBSET DOMAIN s /\ {s[i] : i \in P} = Range(s) \ ids
  BY DEF Range
<1>2. QED
  BY <1>1, KeptRange DEF Without

-----------------------------------------------------------------------------
(* The rings, the tables and the tasks between them.                       *)
IsTask(t) ==
  /\ t = [store |-> t.store, row |-> t.row, step |-> t.step]
  /\ t.store \in Store
  /\ t.step \in {"insert", "trim", "enqueue"}
  /\ t.step = "enqueue" => t.store = "recent"

StoresInv ==
  /\ IsRing /\ table = [s \in Store |-> table[s]] /\ torn = [s \in Store |-> torn[s]]
  /\ \A s \in Store : /\ ring[s] \in Seq(Range(ring[s])) /\ Len(ring[s]) <= RingCap
                      /\ table[s] \in Seq(Range(table[s]))
  /\ \A t \in tasks : IsTask(t)

(* The rows a store has, or will have.                                     *)
Rows(s) == Range(ring[s]) \cup Range(table[s]) \cup {t.row : t \in {u \in tasks : u.store = s}}

LEMMA TrimmedRows ==
  ASSUME NEW store, NEW S, NEW rs \in Seq(S)
  PROVE  /\ Trimmed(store, rs) \in Seq(S)
         /\ Range(Trimmed(store, rs)) \subseteq Range(rs)
<1>1. CASE store = "captured"
  <2> DEFINE newer(i) == {j \in i + 1 .. Len(rs) : rs[j].tag = rs[i].tag}
             keep == {i \in 1 .. Len(rs) : Cardinality(newer(i)) < RingCap}
  <2>1. Trimmed(store, rs) = Kept(rs, keep)
    BY <1>1 DEF Trimmed
  <2>2. keep \in SUBSET DOMAIN rs
    OBVIOUS
  <2> HIDE DEF keep
  <2>3. Range(Kept(rs, keep)) = {rs[i] : i \in keep} /\ Kept(rs, keep) \in Seq(S)
    BY <2>2, KeptRange
  <2>4. {rs[i] : i \in keep} \subseteq Range(rs)
    BY <2>2 DEF Range
  <2>5. QED
    BY <2>1, <2>3, <2>4
<1>2. CASE store # "captured"
  BY <1>2, NewestOf DEF Trimmed
<1>3. QED
  BY <1>1, <1>2

LEMMA PushStores ==
  ASSUME StoresInv, NEW s \in Store, NEW row, Push(s, row), UNCHANGED <<table, torn>>
  PROVE  /\ StoresInv'
         /\ Rows(s)' \subseteq Rows(s) \cup {row}
         /\ \A x \in Store : x # s => Rows(x)' \subseteq Rows(x)
<1> DEFINE t == [store |-> s, row |-> row, step |-> "insert"]
           n == Newest(Append(ring[s], row))
<1>1. ring' = [ring EXCEPT ![s] = n] /\ tasks' \subseteq tasks \cup {t}
  BY DEF Push
<1>2. IsRing' /\ ring'[s] = n /\ \A x \in Store : x # s => ring'[x] = ring[x]
  BY <1>1 DEF StoresInv, IsRing
<1>3. n \in Seq(Range(n)) /\ Len(n) <= RingCap /\ Range(n) \subseteq Range(ring[s]) \cup {row}
  BY NewestKept DEF StoresInv
<1>4. IsTask(t) /\ t.store = s /\ t.row = row
  BY DEF IsTask
<1> HIDE DEF n, t
<1>5. StoresInv'
  BY <1>1, <1>2, <1>3, <1>4 DEF StoresInv
<1>6. ASSUME NEW x \in Store, x # s
      PROVE  Rows(x)' \subseteq Rows(x)
  BY <1>1, <1>2, <1>4, <1>6 DEF Rows
<1>7. Rows(s)' \subseteq Rows(s) \cup {row}
  BY <1>1, <1>2, <1>3, <1>4 DEF Rows
<1>8. QED
  BY <1>5, <1>6, <1>7

(* A task goes on with its row, or ends.                                   *)
TaskMoves(t) ==
  \E u : /\ tasks' = (tasks \ {t}) \cup u
         /\ u = {} \/ u = {[t EXCEPT !.step = "trim"]}
                   \/ (t.store = "recent" /\ u = {[t EXCEPT !.step = "enqueue"]})

LEMMA TasksMove ==
  ASSUME NEW t, TaskFails(t) \/ TaskInserts(t) \/ TaskTrims(t) \/ TaskTrimFails(t)
  PROVE  TaskMoves(t)
<1>1. CASE TaskFails(t) \/ TaskInserts(t)
  <2>1. \/ tasks' = (tasks \ {t}) \cup {}
        \/ tasks' = (tasks \ {t}) \cup {[t EXCEPT !.step = "trim"]}
    BY <1>1 DEF TaskFails, TaskInserts
  <2>2. QED
    BY <2>1 DEF TaskMoves
<1>2. CASE TaskTrims(t) \/ TaskTrimFails(t)
  <2>1. \/ tasks' = (tasks \ {t}) \cup {}
        \/ t.store = "recent" /\ tasks' = (tasks \ {t}) \cup {[t EXCEPT !.step = "enqueue"]}
    BY <1>2 DEF TaskTrims, TaskTrimFails, AfterTrim
  <2>2. QED
    BY <2>1 DEF TaskMoves
<1>3. QED
  BY <1>1, <1>2

LEMMA TasksKept ==
  ASSUME \A u \in tasks : IsTask(u), NEW t \in tasks, TaskMoves(t)
  PROVE  \A v \in tasks' :
           /\ IsTask(v)
           /\ \/ v \in tasks /\ v # t
              \/ v.store = t.store /\ v.row = t.row
           /\ \A w \in tasks' : {v, w} \cap (tasks \ {t}) = {} => v = w
<1>1. ASSUME NEW v \in tasks', v \notin tasks \ {t}
      PROVE  /\ IsTask(v) /\ v.store = t.store /\ v.row = t.row
             /\ \A w \in tasks' : w \notin tasks \ {t} => v = w
  <2>1. /\ t = [store |-> t.store, row |-> t.row, step |-> t.step]
        /\ t.store \in Store
    BY DEF IsTask
  <2>2. \/ v = [t EXCEPT !.step = "trim"]
        \/ t.store = "recent" /\ v = [t EXCEPT !.step = "enqueue"]
    BY <1>1 DEF TaskMoves
  <2>3. \/ v = [store |-> t.store, row |-> t.row, step |-> "trim"]
        \/ t.store = "recent" /\ v = [store |-> t.store, row |-> t.row, step |-> "enqueue"]
    BY <2>1, <2>2
  <2>4. IsTask(v) /\ v.store = t.store /\ v.row = t.row
    BY <2>1, <2>3 DEF IsTask
  <2>5. \A w \in tasks' : w \notin tasks \ {t} => v = w
    BY <1>1 DEF TaskMoves
  <2>6. QED
    BY <2>4, <2>5
<1>2. QED
  BY <1>1

LEMMA TaskStores ==
  ASSUME StoresInv, NEW t \in tasks,
         TaskFails(t) \/ TaskInserts(t) \/ TaskTrims(t) \/ TaskTrimFails(t)
  PROVE  StoresInv' /\ \A s \in Store : Rows(s)' \subseteq Rows(s)
<1>1. \A v \in tasks' : IsTask(v) /\ ((v \in tasks /\ v # t) \/ (v.store = t.store /\ v.row = t.row))
  BY TasksMove, TasksKept DEF StoresInv
<1>2. \A s \in Store, v \in tasks' :
        v.store = s => \E w \in tasks : w.store = s /\ w.row = v.row
  BY <1>1
<1>3. UNCHANGED ring
  BY DEF TaskFails, TaskInserts, TaskTrims, TaskTrimFails
<1>4. /\ table' = [s \in Store |-> table'[s]] /\ torn' = [s \in Store |-> torn'[s]]
      /\ \A s \in Store : s # t.store => table'[s] = table[s]
  BY DEF TaskFails, TaskInserts, TaskTrims, TaskTrimFails, StoresInv
<1>5. t.store \in Store /\ t.row \in Rows(t.store)
  BY DEF StoresInv, IsTask, Rows
<1>6. /\ table'[t.store] \in Seq(Range(table'[t.store]))
      /\ Range(table'[t.store]) \subseteq Range(table[t.store]) \cup {t.row}
  <2> DEFINE rs == table[t.store]
  <2>1. rs \in Seq(Range(rs))
    BY <1>5 DEF StoresInv
  <2>2. CASE UNCHANGED table
    BY <2>1, <2>2
  <2>3. CASE (TaskFails(t) \/ TaskInserts(t)) /\ ~UNCHANGED table
    <3>1. table'[t.store] = Append(rs, t.row)
      BY <1>5, <2>3 DEF TaskFails, TaskInserts, StoresInv
    <3>2. Append(rs, t.row) \in Seq(Range(rs) \cup {t.row})
      BY <2>1
    <3> HIDE DEF rs
    <3>3. Range(Append(rs, t.row)) \subseteq Range(rs) \cup {t.row}
      BY <3>2 DEF Range
    <3>4. QED
      BY <3>1, <3>2, <3>3, SeqRange DEF rs
  <2>4. CASE TaskTrims(t)
    <3>1. table'[t.store] = Trimmed(t.store, rs)
      BY <1>5, <2>4 DEF TaskTrims, StoresInv
    <3>2. QED
      BY <2>1, <3>1, TrimmedRows, SeqRange
  <2>5. QED
    BY <2>2, <2>3, <2>4 DEF TaskTrimFails
<1>7. StoresInv'
  BY <1>1, <1>3, <1>4, <1>6 DEF StoresInv, IsRing
<1>8. ASSUME NEW s \in Store
      PROVE  Rows(s)' \subseteq Rows(s)
  <2>1. Range(table'[s]) \subseteq Rows(s)
    BY <1>4, <1>5, <1>6 DEF Rows
  <2>2. \A v \in tasks' : v.store = s => v.row \in Rows(s)
    BY <1>2 DEF Rows
  <2>3. QED
    BY <1>3, <2>1, <2>2 DEF Rows
<1>9. QED
  BY <1>7, <1>8

LEMMA EndStores ==
  ASSUME StoresInv, \/ UNCHANGED storeVars
                    \/ StoresRestart
                    \/ tasks' \subseteq tasks /\ UNCHANGED <<ring, table, torn>>
  PROVE  StoresInv' /\ \A s \in Store : Rows(s)' \subseteq Rows(s)
<1>1. CASE StoresRestart
  <2>1. /\ ring' = [s \in Store |-> <<>>] /\ tasks' = {} /\ table' = table
        /\ torn' = [s \in Store |-> torn'[s]]
    BY <1>1 DEF StoresRestart
  <2>2. <<>> \in Seq(Range(<<>>)) /\ Len(<<>>) <= RingCap /\ Range(<<>>) = {}
    BY StoresAssumption DEF Range
  <2>3. QED
    BY <2>1, <2>2 DEF StoresInv, IsRing, Rows
<1>2. CASE ~StoresRestart
  <2>1. tasks' \subseteq tasks /\ UNCHANGED <<ring, table, torn>>
    BY <1>2 DEF storeVars
  <2>2. QED
    BY <2>1 DEF StoresInv, IsRing, Rows
<1>3. QED
  BY <1>1, <1>2

LEMMA RunsStores ==
  ASSUME StoresInv, RunsStep
  PROVE  StoresInv' /\ \A s \in Store \ {"sandbox"} : Rows(s)' \subseteq Rows(s)
<1>1. CASE UNCHANGED storeVars
  BY <1>1, EndStores
<1>2. CASE ~UNCHANGED storeVars
  <2>1. PICK row : Push("sandbox", row) /\ UNCHANGED <<table, torn>>
    BY <1>2 DEF RunsStep, ExecStart, ExecDenied, ExecCounts, ExecDropped, Ingest, IngestByToken,
                Fails, Pushes, JoinFails
  <2>2. "sandbox" \in Store
    BY DEF Store
  <2>3. QED
    BY <2>1, <2>2, PushStores
<1>3. QED
  BY <1>1, <1>2

(* The proxy adds the row of a call at its receipt and at its capture.     *)
Captures(r) == PushCaptured(r) /\ Rows("captured")' \subseteq Rows("captured") \cup {CallRow(r)}

LEMMA LlmStores ==
  ASSUME StoresInv, LlmStep
  PROVE  /\ StoresInv'
         /\ \/ Rows("captured")' \subseteq Rows("captured")
            \/ \E r \in Req : Captures(r)
<1>a. {"captured", "recent"} \subseteq Store
  BY DEF Store
<1>1. CASE UNCHANGED storeVars \/ \E t \in tasks : TaskEnqueues(t)
  <2>1. \/ UNCHANGED storeVars
        \/ tasks' \subseteq tasks /\ UNCHANGED <<ring, table, torn>>
    BY <1>1 DEF TaskEnqueues
  <2>2. QED
    BY <1>a, <2>1, EndStores
<1>2. CASE ~UNCHANGED storeVars /\ ~\E t \in tasks : TaskEnqueues(t)
  <2>1. PICK r \in Req : PushReceipt(r) \/ PushCaptured(r)
    BY <1>2 DEF LlmStep, TaskStep, HandlerStep, Arrive, Refuse, Admit, SendFails, StreamHead,
                Chunk, SendChunk, UpstreamEnds, Flush, Release, BufferedReturns, Resume,
                ClientReads, Leave, ViewRead, ViewShow, DrainMemory, Claim, Commit, Rollback
  <2>2. UNCHANGED <<table, torn>>
    BY <2>1 DEF PushReceipt, PushCaptured
  <2>3. CASE PushReceipt(r)
    <3>1. Push("recent", CallRow(r))
      BY <2>3 DEF PushReceipt
    <3>2. QED
      BY <1>a, <2>2, <3>1, PushStores
  <2>4. CASE PushCaptured(r)
    <3>1. Push("captured", CallRow(r))
      BY <1>2, <2>2, <2>4 DEF PushCaptured, storeVars
    <3>2. QED
      BY <1>a, <2>2, <2>4, <3>1, PushStores DEF Captures
  <2>5. QED
    BY <2>1, <2>3, <2>4
<1>3. QED
  BY <1>1, <1>2

LEMMA StoresKept ==
  ASSUME StoresInv, [ServerNext]_serverVars
  PROVE  StoresInv'
<1>1. CASE UNCHANGED storeVars \/ StoresRestart
  BY <1>1, EndStores
<1>2. CASE Tasks
  BY <1>2, TaskStores DEF Tasks
<1>3. CASE Llm \/ Runs
  BY <1>3, LlmStores, RunsStores DEF Llm, Runs
<1>4. QED
  BY <1>1, <1>2, <1>3 DEF ServerNext, Web, Restart, serverVars

LEMMA StoresStart == ServerInit => StoresInv
<1>1. SUFFICES ASSUME ServerInit PROVE StoresInv
  OBVIOUS
<1>2. /\ ring = [s \in Store |-> <<>>] /\ table = [s \in Store |-> <<>>]
      /\ torn = [s \in Store |-> 0] /\ tasks = {}
  BY <1>1 DEF ServerInit, StoresInit
<1>3. <<>> \in Seq(Range(<<>>)) /\ Len(<<>>) <= RingCap
  BY StoresAssumption
<1>4. QED
  BY <1>2, <1>3 DEF StoresInv, IsRing

-----------------------------------------------------------------------------
(* Captured calls.  A call that came with a live token carries the user    *)
(* that token had then, or nobody if the lookup failed, and so does every  *)
(* row it leaves and every answer that shows it.                           *)
OwnerOf(q) == IF minter[q].found THEN minter[q].user ELSE ""

Used(q) == q \in Req /\ req[q].at # "unused"

OwnerKept(r) ==
  r \in DOMAIN minter =>
    /\ Used(r)
    /\ req[r].at \in CallPlaces => "owner" \in DOMAIN req[r] /\ req[r].owner = OwnerOf(r)

RowPrivate(row) ==
  Used(row.id) /\ (row.id \in DOMAIN minter => row.tag = OwnerOf(row.id))

ShownPrivate(v, q) == Used(q) /\ (q \in DOMAIN minter => v = OwnerOf(q))

PrivateInv ==
  /\ \A r \in DOMAIN minter : r \in Req /\ OwnerKept(r)
  /\ \A row \in Rows("captured") : RowPrivate(row)
  /\ \A v, q : <<v, q>> \in shown => ShownPrivate(v, q)

(* A step that adds no row, no answer and no call.                         *)
LEMMA QuietPrivate ==
  ASSUME PrivateInv, UNCHANGED <<minter, shown>>, Rows("captured")' \subseteq Rows("captured"),
         \/ UNCHANGED req
         \/ \A q \in Req : req'[q].at \notin CallPlaces /\ (Used(q) => req'[q].at # "unused")
         \/ \E r \in Req, places \in {WebPlaces, RunPlaces, LlmPlaces} :
              Goes(r, places) /\ ~(req[r].at = "unused" /\ req'[r].at \in CallPlaces)
  PROVE  PrivateInv'
<1>1. \A q : Used(q) => Used(q)'
  BY DEF Used, Goes, WebPlaces, RunPlaces, LlmPlaces, CallPlaces
<1>2. ASSUME NEW q \in DOMAIN minter
      PROVE  q \in Req /\ OwnerKept(q)'
  <2>1. q \in Req /\ OwnerKept(q)
    BY DEF PrivateInv
  <2>2. CASE req'[q] = req[q] \/ req'[q].at \notin CallPlaces
    BY <1>1, <2>1, <2>2 DEF OwnerKept, OwnerOf
  <2>3. CASE req'[q] # req[q] /\ req'[q].at \in CallPlaces
    <3>1. MovesTo(q, req'[q].at) /\ \E places \in {WebPlaces, RunPlaces, LlmPlaces} : Goes(q, places)
      BY <2>1, <2>3 DEF Goes
    <3>2. req[q].at \in CallPlaces
      BY <2>1, <2>3, <3>1 DEF Goes, OwnerKept, Used, WebPlaces, RunPlaces, LlmPlaces, CallPlaces
    <3>3. QED
      BY <1>1, <2>1, <3>1, <3>2 DEF OwnerKept, MovesTo, OwnerOf
  <2>4. QED
    BY <2>1, <2>2, <2>3
<1>3. \A row \in Rows("captured")' : RowPrivate(row)'
  BY <1>1 DEF PrivateInv, RowPrivate, OwnerOf
<1>4. \A v, q : <<v, q>> \in shown' => ShownPrivate(v, q)'
  BY <1>1 DEF PrivateInv, ShownPrivate, OwnerOf
<1>5. QED
  BY <1>2, <1>3, <1>4 DEF PrivateInv

(* A call arrives: no row and no answer is about it yet.                   *)
LEMMA ArrivePrivate ==
  ASSUME IsRequests(req), PrivateInv, StoresInv,
         NEW r \in Req, NEW k, NEW stream, Arrive(r, k, stream)
  PROVE  PrivateInv'
<1>1. PICK found \in CliTokenLookup(k) :
        /\ To(r, [at |-> "body", owner |-> IF found THEN tokens[k].user ELSE "",
                  token |-> k, stream |-> stream,
                  client |-> "waits", chan |-> 0, chunks |-> 0])
        /\ minter' = IF Live(k) THEN Put(minter, r, [user |-> tokens[k].user, found |-> found])
                     ELSE minter
        /\ UNCHANGED <<shown, storeVars>> /\ req[r].at = "unused"
  BY DEF Arrive, Routed
<1> DEFINE o == IF found THEN tokens[k].user ELSE ""
           x == [at |-> "body", owner |-> o, token |-> k, stream |-> stream,
                 client |-> "waits", chan |-> 0, chunks |-> 0]
           m == [user |-> tokens[k].user, found |-> found]
<1>b. /\ x.at = "body" /\ "owner" \in DOMAIN x /\ x.owner = o
      /\ To(r, x) /\ o = IF m.found THEN m.user ELSE ""
  BY <1>1
<1>c. minter' = IF Live(k) THEN Put(minter, r, m) ELSE minter
  BY <1>1
<1> HIDE DEF x, o, m
<1>2. req'[r] = x /\ \A q \in Req : q # r => req'[q] = req[q]
  BY <1>b, ToMoves
<1>3. \A q : Used(q) => q # r /\ Used(q)'
  BY <1>1, <1>2 DEF Used
<1>4. /\ r \in DOMAIN minter' => r \in DOMAIN minter \/ OwnerOf(r)' = o
      /\ \A q \in DOMAIN minter' : q # r => q \in DOMAIN minter /\ minter'[q] = minter[q]
  <2>1. CASE Live(k)
    <3>1. minter' = [q \in DOMAIN minter \cup {r} |-> IF q = r THEN m ELSE minter[q]]
      BY <1>c, <2>1 DEF Put
    <3>2. minter'[r] = m /\ \A q \in DOMAIN minter' :
                              q # r => q \in DOMAIN minter /\ minter'[q] = minter[q]
      BY <3>1
    <3>3. QED
      BY <1>b, <3>2 DEF OwnerOf
  <2>2. CASE ~Live(k)
    BY <1>c, <2>2
  <2>3. QED
    BY <2>1, <2>2
<1>5. Rows("captured")' = Rows("captured")
  BY <1>1 DEF storeVars, Rows
<1>6. r \notin DOMAIN minter
  BY <1>1 DEF PrivateInv, OwnerKept, Used
<1>7. ASSUME NEW q \in DOMAIN minter'
      PROVE  q \in Req /\ OwnerKept(q)'
  <2>1. CASE q = r
    <3>1. Used(r)'
      BY <1>b, <1>2 DEF Used
    <3>2. QED
      BY <1>b, <1>2, <1>4, <1>6, <2>1, <3>1 DEF OwnerKept
  <2>2. CASE q # r
    <3>1. q \in DOMAIN minter /\ q \in Req /\ OwnerKept(q)
      BY <1>4, <2>2 DEF PrivateInv
    <3>2. req'[q] = req[q] /\ OwnerOf(q)' = OwnerOf(q)
      BY <1>2, <1>4, <2>2, <3>1 DEF OwnerOf
    <3>3. QED
      BY <1>3, <3>1, <3>2 DEF OwnerKept
  <2>3. QED
    BY <2>1, <2>2
<1>8. \A row \in Rows("captured")' : RowPrivate(row)'
  BY <1>3, <1>4, <1>5 DEF PrivateInv, RowPrivate, OwnerOf
<1>9. ASSUME NEW v, NEW q, <<v, q>> \in shown'
      PROVE  ShownPrivate(v, q)'
  <2>1. ShownPrivate(v, q)
    BY <1>1, <1>9 DEF PrivateInv
  <2>2. q \in DOMAIN minter' => q \in DOMAIN minter /\ OwnerOf(q)' = OwnerOf(q)
    BY <1>3, <1>4, <2>1 DEF ShownPrivate, OwnerOf
  <2>3. QED
    BY <1>3, <2>1, <2>2 DEF ShownPrivate
<1>10. QED
  BY <1>7, <1>8, <1>9 DEF PrivateInv

(* Its capture leaves a row with its owner.                                *)
LEMMA CapturePrivate ==
  ASSUME IsRequests(req), PrivateInv, NEW r \in Req, Captures(r), Goes(r, LlmPlaces)
  PROVE  PrivateInv'
<1>1. /\ req[r].at = "capture" /\ UNCHANGED <<minter, shown>>
  BY DEF Captures, PushCaptured, llmVars, viewVars
<1>2. req[r].at \in CallPlaces /\ Used(r)
  BY <1>1 DEF CallPlaces, Used
<1>3. RowPrivate(CallRow(r))
  <2>1. CallRow(r).id = r /\ CallRow(r).tag = req[r].owner
    BY DEF CallRow
  <2>2. r \in DOMAIN minter => req[r].owner = OwnerOf(r)
    BY <1>2 DEF PrivateInv, OwnerKept
  <2>3. QED
    BY <1>2, <2>1, <2>2 DEF RowPrivate
<1>4. \A q : Used(q) => Used(q)'
  BY DEF Used, Goes, LlmPlaces, CallPlaces
<1>5. \A row \in Rows("captured")' : RowPrivate(row)'
  <2>1. \A row \in Rows("captured")' : RowPrivate(row)
    BY <1>3 DEF Captures, PrivateInv
  <2>2. QED
    BY <1>1, <1>4, <2>1 DEF RowPrivate, OwnerOf
<1>6. ASSUME NEW q \in DOMAIN minter
      PROVE  q \in Req /\ OwnerKept(q)'
  <2>1. q \in Req /\ OwnerKept(q)
    BY DEF PrivateInv
  <2>2. req'[q] = req[q] \/ req'[q].at \notin CallPlaces \/ MovesTo(q, req'[q].at)
    BY <1>1, <2>1 DEF Goes
  <2>3. req'[q] # req[q] => req[q].at \in CallPlaces
    BY <1>2, <2>1 DEF Goes
  <2>4. QED
    BY <1>1, <1>4, <2>1, <2>2, <2>3 DEF OwnerKept, MovesTo, OwnerOf
<1>7. \A v, q : <<v, q>> \in shown' => ShownPrivate(v, q)'
  BY <1>1, <1>4 DEF PrivateInv, ShownPrivate, OwnerOf
<1>8. QED
  BY <1>1, <1>5, <1>6, <1>7 DEF PrivateInv

(* A reader is shown rows of its own.                                      *)
LEMMA ShowPrivate ==
  ASSUME IsRequests(req), PrivateInv, StoresInv, NEW r \in Req, ViewShow(r)
  PROVE  PrivateInv'
<1>1. /\ To(r, Done) /\ req[r].at = "view" /\ UNCHANGED <<minter, storeVars>>
  BY DEF ViewShow
<1>2. Goes(r, LlmPlaces) /\ req'[r].at = "done"
  BY <1>1, DoneGoes, ToMoves DEF LlmPlaces, Done
<1>3. PICK source : /\ Range(source) \subseteq Rows("captured")
                    /\ shown' = shown \cup {<<req[r].user, c.id>> :
                                   c \in {x \in Range(source) : x.tag = req[r].user}}
  <2>1. PICK source \in {ring["captured"]} \cup (IF pg THEN {table["captured"]} ELSE {}) :
          shown' = shown \cup {<<req[r].user, c.id>> :
                                   c \in {x \in Range(source) : x.tag = req[r].user}}
    BY DEF ViewShow
  <2>2. Range(source) \subseteq Rows("captured")
    BY <2>1 DEF Rows
  <2>3. QED
    BY <2>1, <2>2
<1>4. Rows("captured")' = Rows("captured")
  BY <1>1 DEF storeVars, Rows
<1>5. \A q : Used(q) => Used(q)'
  BY <1>2 DEF Used, Goes, LlmPlaces, CallPlaces
<1>6. ASSUME NEW v, NEW q, <<v, q>> \in shown'
      PROVE  ShownPrivate(v, q)
  <2>1. CASE <<v, q>> \in shown
    BY <2>1 DEF PrivateInv
  <2>2. CASE <<v, q>> \notin shown
    <3>1. PICK c \in Range(source) : c.tag = req[r].user /\ <<v, q>> = <<req[r].user, c.id>>
      BY <1>3, <1>6, <2>2
    <3>2. RowPrivate(c) /\ v = c.tag /\ q = c.id
      BY <1>3, <3>1 DEF PrivateInv
    <3>3. QED
      BY <3>2 DEF RowPrivate, ShownPrivate
  <2>3. QED
    BY <2>1, <2>2
<1>7. \A v, q : <<v, q>> \in shown' => ShownPrivate(v, q)'
  BY <1>1, <1>5, <1>6 DEF ShownPrivate, OwnerOf
<1>8. \A row \in Rows("captured")' : RowPrivate(row)'
  BY <1>1, <1>4, <1>5 DEF PrivateInv, RowPrivate, OwnerOf
<1>9. ASSUME NEW q \in DOMAIN minter
      PROVE  q \in Req /\ OwnerKept(q)'
  <2>1. q \in Req /\ OwnerKept(q)
    BY DEF PrivateInv
  <2>2. req'[q] = req[q] \/ req'[q].at \notin CallPlaces
    BY <1>2, <2>1 DEF Goes, CallPlaces
  <2>3. QED
    BY <1>1, <1>5, <2>1, <2>2 DEF OwnerKept, OwnerOf
<1>10. QED
  BY <1>1, <1>7, <1>8, <1>9 DEF PrivateInv

LEMMA LlmPrivate ==
  ASSUME IsRequests(req), PrivateInv, StoresInv, LlmStep
  PROVE  PrivateInv'
<1>1. CASE \E r \in Req, k \in Token, stream \in BOOLEAN : Arrive(r, k, stream)
  BY <1>1, ArrivePrivate
<1>2. CASE \E r \in Req : ViewShow(r)
  BY <1>2, ShowPrivate
<1>3. CASE /\ ~\E r \in Req, k \in Token, stream \in BOOLEAN : Arrive(r, k, stream)
           /\ ~\E r \in Req : ViewShow(r)
  <2>1. UNCHANGED <<minter, shown>>
    BY <1>3 DEF LlmStep, TaskStep, HandlerStep, Refuse, Admit, SendFails, StreamHead,
                Chunk, SendChunk, UpstreamEnds, Flush, Release, BufferedReturns, Resume,
                ClientReads, Leave, ViewRead, TaskEnqueues, DrainMemory, Claim, Commit, Rollback,
                PushReceipt, PushCaptured, llmVars, viewVars
  <2>2. CASE \E r \in Req : Captures(r)
    <3>1. PICK r \in Req : Captures(r)
      BY <2>2
    <3>2. Goes(r, LlmPlaces)
      <4>1. TaskStep(r) \/ HandlerStep(r)
        BY <3>1 DEF Captures, PushCaptured, TaskStep, HandlerStep
      <4>2. QED
        BY <4>1, TaskGoes
    <3>3. QED
      BY <3>1, <3>2, CapturePrivate
  <2>3. CASE Rows("captured")' \subseteq Rows("captured")
    <3>1. UNCHANGED req \/ \E r \in Req : /\ Goes(r, LlmPlaces)
                                          /\ ~(req[r].at = "unused" /\ req'[r].at \in CallPlaces)
      <4>1. CASE \/ \E t \in tasks : TaskEnqueues(t)
                 \/ DrainMemory
                 \/ \E d \in Drainer : Claim(d) \/ Commit(d) \/ Rollback(d)
        BY <4>1 DEF TaskEnqueues, DrainMemory, Claim, Commit, Rollback
      <4>2. ASSUME NEW r \in Req, \/ Refuse(r) \/ Admit(r) \/ ClientReads(r) \/ Leave(r)
                                  \/ TaskStep(r) \/ HandlerStep(r)
            PROVE  Goes(r, LlmPlaces) /\ req[r].at # "unused"
        <5>1. Goes(r, LlmPlaces)
          BY <4>2, TaskGoes, ClientGoes
        <5>2. req[r].at # "unused"
          BY <4>2 DEF Refuse, Admit, ClientReads, Leave, TaskStep, HandlerStep, Holding, Resume,
                      PushReceipt, PushCaptured
        <5>3. QED
          BY <5>1, <5>2
      <4>3. ASSUME NEW r \in Req, NEW s \in Sid, ViewRead(r, s)
            PROVE  Goes(r, LlmPlaces) /\ req'[r].at \notin CallPlaces
        <5>1. Goes(r, {"view"})
          BY <4>3, RequireGoes DEF ViewRead, CallPlaces
        <5>2. QED
          BY <5>1 DEF Goes, LlmPlaces, CallPlaces
      <4>4. QED
        BY <1>3, <4>1, <4>2, <4>3 DEF LlmStep
    <3>2. QED
      BY <2>1, <2>3, <3>1, QuietPrivate
  <2>4. QED
    BY <2>2, <2>3, LlmStores
<1>4. QED
  BY <1>1, <1>2, <1>3

LEMMA PrivateKept ==
  ASSUME IsRequests(req), StoresInv, PrivateInv, [ServerNext]_serverVars
  PROVE  PrivateInv'
<1>a. {"captured"} \subseteq Store \ {"sandbox"}
  BY DEF Store
<1>1. CASE UNCHANGED serverVars \/ Tasks
  <2>1. Rows("captured")' \subseteq Rows("captured")
    BY <1>a, <1>1, TaskStores, EndStores DEF Tasks, serverVars
  <2>2. UNCHANGED <<minter, shown, req>>
    BY <1>1 DEF Tasks, serverVars, llmVars, viewVars
  <2>3. QED
    BY <2>1, <2>2, QuietPrivate
<1>2. CASE Web
  <2>1. Rows("captured")' \subseteq Rows("captured")
    BY <1>a, <1>2, EndStores DEF Web
  <2>2. UNCHANGED <<minter, shown>>
    BY <1>2 DEF Web, llmVars, viewVars
  <2>3. UNCHANGED req \/ \E r \in Req : Goes(r, WebPlaces) /\ req'[r].at \notin CallPlaces
    BY <1>2, WebGoes DEF Web, Goes, WebPlaces, CallPlaces
  <2>4. QED
    BY <2>1, <2>2, <2>3, QuietPrivate
<1>3. CASE Llm
  BY <1>3, LlmPrivate DEF Llm
<1>4. CASE Runs
  <2>1. Rows("captured")' \subseteq Rows("captured")
    BY <1>a, <1>4, RunsStores DEF Runs
  <2>2. UNCHANGED <<minter, shown>>
    BY <1>4 DEF Runs, llmVars, viewVars
  <2>3. \E r \in Req : Goes(r, RunPlaces) /\ req'[r].at \notin CallPlaces
    BY <1>4, RunsGo DEF Runs, Goes, RunPlaces, CallPlaces
  <2>4. QED
    BY <2>1, <2>2, <2>3, QuietPrivate
<1>5. CASE Restart
  <2>1. Rows("captured")' \subseteq Rows("captured")
    BY <1>a, <1>5, EndStores DEF Restart
  <2>2. UNCHANGED <<minter, shown>>
    BY <1>5 DEF Restart, LlmRestart, viewVars
  <2>3. \A q \in Req : req'[q].at \notin CallPlaces /\ (Used(q) => req'[q].at # "unused")
    <3>1. req' = [r \in Req |-> IF req[r] = Unused THEN Unused ELSE Done]
      BY <1>5 DEF Restart, StoresRestart
    <3>2. QED
      BY <3>1 DEF Unused, Done, Used, CallPlaces
  <2>4. QED
    BY <2>1, <2>2, <2>3, QuietPrivate
<1>6. QED
  BY <1>1, <1>2, <1>3, <1>4, <1>5 DEF ServerNext

(* A captured call that came with a user's live token is shown to that     *)
(* user alone, or, if the token could not be looked up, only to sessions   *)
(* without a subject: for any calls, tokens and sessions, any ring, and    *)
(* whatever the tables keep of it across trims and restarts.               *)
THEOREM PrivateCorrect == ServerSpec => []CapturedIsPrivate
<1>1. ServerInit => PrivateInv
  <2>1. SUFFICES ASSUME ServerInit PROVE PrivateInv
    OBVIOUS
  <2>2. minter = <<>> /\ shown = {} /\ tasks = {}
    BY <2>1 DEF ServerInit, StoresInit, LlmInit
  <2>3. Rows("captured") = {}
    BY <2>1, <2>2 DEF ServerInit, StoresInit, Rows, Store, Range
  <2>4. QED
    BY <2>2, <2>3 DEF PrivateInv
<1>2. PrivateInv => CapturedIsPrivate
  BY DEF PrivateInv, ShownPrivate, OwnerOf, CapturedIsPrivate
<1>3. CallInv => IsRequests(req)
  BY DEF CallInv
<1>4. QED
  BY <1>1, <1>2, <1>3, CallsInit, CallsKept, StoresStart, StoresKept, PrivateKept, PTL DEF ServerSpec

-----------------------------------------------------------------------------
(* Sequences without repetition.                                           *)
LEMMA AppendOnce ==
  ASSUME NEW S, NEW s \in Seq(S), NEW x \in S
  PROVE  /\ Append(s, x) \in Seq(S)
         /\ Range(Append(s, x)) = Range(s) \cup {x}
         /\ IsInjective(s) /\ x \notin Range(s) => IsInjective(Append(s, x))
<1> DEFINE a == Append(s, x)
<1>1. /\ a \in Seq(S) /\ Len(s) \in Nat /\ DOMAIN s = 1 .. Len(s)
      /\ DOMAIN a = 1 .. (Len(s) + 1)
      /\ a[Len(s) + 1] = x /\ \A i \in 1 .. Len(s) : a[i] = s[i]
  OBVIOUS
<1> HIDE DEF a
<1>2. \A i \in DOMAIN a : i \in DOMAIN s \/ i = Len(s) + 1
  BY <1>1
<1>3. DOMAIN s \subseteq DOMAIN a /\ Len(s) + 1 \in DOMAIN a
  BY <1>1
<1>4. Range(a) = Range(s) \cup {x}
  BY <1>1, <1>2, <1>3 DEF Range
<1>5. ASSUME IsInjective(s), x \notin Range(s), NEW i \in DOMAIN a, NEW j \in DOMAIN a, a[i] = a[j]
      PROVE  i = j
  BY <1>1, <1>2, <1>5 DEF IsInjective, Range
<1>6. QED
  BY <1>1, <1>4, <1>5 DEF IsInjective, a

LEMMA ConcatOnce ==
  ASSUME NEW S, NEW s \in Seq(S), NEW t \in Seq(S)
  PROVE  /\ s \o t \in Seq(S)
         /\ Range(s \o t) = Range(s) \cup Range(t)
         /\ IsInjective(s) /\ IsInjective(t) /\ Range(s) \cap Range(t) = {} => IsInjective(s \o t)
<1> DEFINE c == s \o t
           n == Len(s)
<1>1. /\ c \in Seq(S) /\ n \in Nat /\ Len(t) \in Nat
      /\ DOMAIN s = 1 .. n /\ DOMAIN t = 1 .. Len(t) /\ DOMAIN c = 1 .. (n + Len(t))
      /\ \A i \in DOMAIN c : c[i] = IF i <= n THEN s[i] ELSE t[i - n]
  OBVIOUS
<1> HIDE DEF c, n
<1>2. \A i \in DOMAIN c : \/ i \in DOMAIN s /\ c[i] = s[i]
                          \/ i - n \in DOMAIN t /\ c[i] = t[i - n]
  BY <1>1
<1>3. /\ \A i \in DOMAIN s : i \in DOMAIN c /\ c[i] = s[i]
      /\ \A i \in DOMAIN t : i + n \in DOMAIN c /\ c[i + n] = t[i]
  BY <1>1
<1>4. Range(c) = Range(s) \cup Range(t)
  BY <1>2, <1>3 DEF Range
<1>5. ASSUME IsInjective(s), IsInjective(t), Range(s) \cap Range(t) = {},
             NEW i \in DOMAIN c, NEW j \in DOMAIN c, c[i] = c[j]
      PROVE  i = j
  <2>1. i \in Nat /\ j \in Nat
    BY <1>1
  <2>2. i - n = j - n => i = j
    BY <1>1, <2>1
  <2>3. QED
    BY <1>2, <1>5, <2>2 DEF IsInjective, Range
<1>6. QED
  BY <1>1, <1>4, <1>5 DEF IsInjective, c

LEMMA PartOnce ==
  ASSUME NEW S, NEW s \in Seq(S), NEW m \in 1 .. 2, NEW n \in 0 .. Len(s)
  PROVE  /\ SubSeq(s, m, n) \in Seq(S)
         /\ Range(SubSeq(s, m, n)) \subseteq Range(s)
         /\ IsInjective(s) => IsInjective(SubSeq(s, m, n))
<1> DEFINE u == SubSeq(s, m, n)
<1>1. Len(s) \in Nat /\ DOMAIN s = 1 .. Len(s) /\ m \in Nat /\ n \in Nat
  OBVIOUS
<1>2. /\ u \in Seq(S)
      /\ DOMAIN u = 1 .. (n - m + 1)
      /\ \A i \in DOMAIN u : u[i] = s[i + m - 1]
  BY <1>1
<1> HIDE DEF u
<1>3. \A i \in DOMAIN u : i + m - 1 \in DOMAIN s /\ i \in Nat
  BY <1>1, <1>2
<1>4. Range(u) \subseteq Range(s)
  BY <1>2, <1>3 DEF Range
<1>5. ASSUME IsInjective(s), NEW i \in DOMAIN u, NEW j \in DOMAIN u, u[i] = u[j]
      PROVE  i = j
  <2>1. i + m - 1 = j + m - 1
    BY <1>2, <1>3, <1>5 DEF IsInjective
  <2>2. QED
    BY <1>1, <1>3, <2>1
<1>6. QED
  BY <1>2, <1>4, <1>5 DEF IsInjective, u

-----------------------------------------------------------------------------
(* Receipts.  A call is past its receipt once it has pushed it.            *)
Past(q) == q \in Req /\ (req[q].at = "done" \/ BehindReceipt(req[q].at, req[q].stream))

Waiting == IF pg THEN rows ELSE queue
Taken == Range(drained) \cup Range(Waiting)

(* A receipt has been drained, or waits, or is with its task: at one of    *)
(* these places, once, and only of a call that is past it.                 *)
ReceiptsApart ==
  /\ drained \in Seq(Req) /\ rows \in Seq(Req) /\ queue \in Seq(Req)
  /\ IsInjective(drained) /\ IsInjective(Waiting)
  /\ Range(drained) \cap Range(Waiting) = {}
  /\ \A q \in Taken : Past(q)

TasksApart ==
  /\ ~pg => tasks = {}
  /\ \A t \in tasks : t.store = "recent" =>
       /\ Past(t.row.id) /\ t.row.id \notin Taken
       /\ \A u \in tasks : u.store = "recent" /\ u.row.id = t.row.id => u = t

ClaimsApart ==
  /\ claims = [d \in Drainer |-> claims[d]]
  /\ \A d \in Drainer :
       /\ claims[d] \in Seq(Req) /\ IsInjective(claims[d])
       /\ Range(claims[d]) \subseteq Range(rows)
       /\ ~pg => claims[d] = <<>>
       /\ \A e \in Drainer : e # d => Range(claims[d]) \cap Range(claims[e]) = {}

ReceiptInv == ReceiptsApart /\ TasksApart /\ ClaimsApart

(* Where a call goes from its receipt and its capture on.                  *)
Flows(q) ==
  \/ MovesTo(q, req[q].at)
  \/ req[q].at = "release" /\ MovesTo(q, "closed")
  \/ req[q].at = "capture" /\ MovesTo(q, IF req[q].stream THEN "receipt" ELSE "closed")
  \/ req[q].at = "receipt" /\ MovesTo(q, IF req[q].stream THEN "release" ELSE "capture")

LEMMA CallFlows ==
  ASSUME IsRequests(req), LlmStep, NEW q \in Req, req'[q] # req[q],
         req[q].at \in {"capture", "receipt", "release", "closed"}
  PROVE  Flows(q)
<1> DEFINE Pushing(r) == PushCaptured(r) \/ PushReceipt(r) \/ Release(r)
           Reading(r) == ClientReads(r) \/ Leave(r)
<1>1. ASSUME NEW r \in Req,
             \/ \E k \in Token, stream \in BOOLEAN : Arrive(r, k, stream)
             \/ Refuse(r) \/ Admit(r)
             \/ TaskStep(r) \/ HandlerStep(r)
             \/ \E s \in Sid : ViewRead(r, s)
             \/ ViewShow(r),
             ~Pushing(r)
      PROVE  r # q /\ Goes(r, LlmPlaces)
  <2>1. Goes(r, LlmPlaces)
    BY <1>1, ArriveGoes, TaskGoes, ClientGoes
  <2>2. req[r].at \in {"unused", "body", "send", "relay", "chunk", "flush", "joined", "view"}
    BY <1>1 DEF Arrive, Refuse, Admit, TaskStep, HandlerStep, ViewRead, ViewShow, Require,
                Routed, SendFails, StreamHead, Chunk, SendChunk, UpstreamEnds, Flush,
                BufferedReturns, Resume
  <2>3. QED
    BY <2>1, <2>2
<1>2. UNCHANGED req \/ (\E r \in Req : r # q /\ Goes(r, LlmPlaces)) \/ \E r \in Req : Pushing(r) \/ Reading(r)
  BY <1>1 DEF LlmStep, TaskEnqueues, DrainMemory, Claim, Commit, Rollback
<1>3. PICK r \in Req : Pushing(r) \/ Reading(r)
  BY <1>2 DEF Goes
<1>4. Goes(r, LlmPlaces)
  <2>1. Pushing(r) => TaskStep(r) \/ HandlerStep(r)
    BY DEF PushCaptured, PushReceipt, Release, TaskStep, HandlerStep, Holding
  <2>2. QED
    BY <1>3, <2>1, TaskGoes, ClientGoes
<1>5. r = q
  BY <1>4 DEF Goes
<1>6. CASE PushCaptured(q)
  <2>1. /\ req[q].at = "capture"
        /\ req[q].stream => With(q, [at |-> "receipt"])
        /\ ~req[q].stream => With(q, [at |-> "closed", client |-> "answered"])
    BY <1>6 DEF PushCaptured
  <2>2. QED
    BY <2>1, CallMoves DEF Flows
<1>7. CASE PushReceipt(q)
  <2>1. req[q].at = "receipt" /\ With(q, [at |-> IF req[q].stream THEN "release" ELSE "capture"])
    BY <1>7 DEF PushReceipt
  <2>2. QED
    BY <2>1, CallMoves DEF Flows
<1>8. CASE Release(q)
  <2>1. req[q].at = "release" /\ With(q, [at |-> "closed"])
    BY <1>8 DEF Release
  <2>2. QED
    BY <2>1, CallMoves DEF Flows
<1>9. CASE Reading(q)
  <2>1. \/ With(q, [at |-> req[q].at, chan |-> req[q].chan - 1])
        \/ With(q, [at |-> req[q].at, client |-> "ended"])
        \/ With(q, [at |-> req[q].at, client |-> "gone"])
        \/ With(q, [at |-> req[q].at, client |-> "gone", chan |-> 0])
    BY <1>9 DEF ClientReads, Leave
  <2>2. QED
    BY <2>1, CallMoves DEF Flows
<1>10. QED
  BY <1>3, <1>5, <1>6, <1>7, <1>8, <1>9

LEMMA PastLlm ==
  ASSUME CallInv, LlmStep, NEW q, Past(q)
  PROVE  Past(q)'
<1>1. q \in Req /\ IsRequests(req) /\ CallOK(q)
  BY DEF Past, CallInv
<1>2. CASE req'[q] = req[q]
  BY <1>2 DEF Past
<1>3. CASE req'[q] # req[q]
  <2>1. Goes(q, LlmPlaces)
    BY <1>1, <1>3, LlmGoes DEF Goes
  <2>2. /\ BehindReceipt(req[q].at, req[q].stream)
        /\ req[q].at \in {"capture", "release", "closed"}
        /\ "stream" \in DOMAIN req[q]
    BY <1>1, <2>1 DEF Past, BehindReceipt, Goes, LlmPlaces, CallPlaces, CallOK
  <2>3. Flows(q)
    BY <1>1, <1>3, <2>2, CallFlows
  <2>4. QED
    BY <1>1, <2>2, <2>3 DEF Past, BehindReceipt, Flows, MovesTo
<1>4. QED
  BY <1>2, <1>3

LEMMA PastKept ==
  ASSUME CallInv, [ServerNext]_serverVars
  PROVE  \A q : Past(q) => Past(q)'
<1>1. CASE Llm
  BY <1>1, PastLlm DEF Llm
<1>2. CASE Restart
  <2>1. req' = [r \in Req |-> IF req[r] = Unused THEN Unused ELSE Done]
    BY <1>2 DEF Restart, StoresRestart
  <2>2. QED
    BY <2>1 DEF Past, BehindReceipt, Unused, Done
<1>3. CASE UNCHANGED req
  BY <1>3 DEF Past
<1>4. CASE \E r \in Req, places \in {WebPlaces, RunPlaces} : Goes(r, places)
  BY <1>4 DEF Past, Goes, BehindReceipt, WebPlaces, RunPlaces
<1>5. QED
  BY <1>1, <1>2, <1>3, <1>4, WebGoes, RunsGo DEF ServerNext, Tasks, Web, Runs, serverVars, CallInv

(* A step that leaves the receipts where they are.                         *)
LEMMA StillApart ==
  ASSUME ReceiptInv, UNCHANGED <<drained, rows, queue, claims, setting>>,
         \A q : Past(q) => Past(q)', TasksApart'
  PROVE  ReceiptInv'
<1>1. Waiting' = Waiting /\ Taken' = Taken /\ pg' = pg
  BY DEF Waiting, Taken, pg
<1>2. ReceiptsApart' /\ ClaimsApart'
  BY <1>1 DEF ReceiptInv, ReceiptsApart, ClaimsApart
<1>3. QED
  BY <1>2 DEF ReceiptInv

(* No task with a receipt appears.                                         *)
LEMMA FewerTasks ==
  ASSUME ReceiptInv, UNCHANGED <<drained, rows, queue, setting>>,
         \A q : Past(q) => Past(q)',
         \A v \in tasks' : v \in tasks \/ (pg /\ v.store # "recent")
  PROVE  TasksApart'
<1>1. Waiting' = Waiting /\ Taken' = Taken /\ pg' = pg
  BY DEF Waiting, Taken, pg
<1>2. QED
  BY <1>1 DEF ReceiptInv, TasksApart

LEMMA OtherPushApart ==
  ASSUME ReceiptInv, UNCHANGED <<drained, rows, queue, claims, setting>>,
         \A q : Past(q) => Past(q)',
         \/ tasks' \subseteq tasks
         \/ \E s \in {"captured", "sandbox"} : \E row : Push(s, row)
  PROVE  ReceiptInv'
<1>1. \A v \in tasks' : v \in tasks \/ (pg /\ v.store # "recent")
  BY DEF Push
<1>2. QED
  BY <1>1, FewerTasks, StillApart

LEMMA TaskApart ==
  ASSUME StoresInv, ReceiptInv, UNCHANGED <<drained, rows, queue, claims, setting>>,
         \A q : Past(q) => Past(q)', NEW t \in tasks, TaskMoves(t)
  PROVE  ReceiptInv'
<1>1. Waiting' = Waiting /\ Taken' = Taken /\ pg' = pg
  BY DEF Waiting, Taken, pg
<1>2. \A v \in tasks' :
        /\ (v \in tasks /\ v # t) \/ (v.store = t.store /\ v.row = t.row)
        /\ \A w \in tasks' : {v, w} \cap (tasks \ {t}) = {} => v = w
  BY TasksKept DEF StoresInv
<1>3. ASSUME NEW v \in tasks', v.store = "recent"
      PROVE  /\ Past(v.row.id) /\ v.row.id \notin Taken
             /\ \A w \in tasks' : w.store = "recent" /\ w.row.id = v.row.id => w = v
  <2>1. PICK u \in tasks : u.store = "recent" /\ u.row = v.row
    BY <1>2, <1>3
  <2>2. Past(v.row.id) /\ v.row.id \notin Taken
    BY <2>1 DEF ReceiptInv, TasksApart
  <2>3. ASSUME NEW w \in tasks', w.store = "recent", w.row.id = v.row.id
        PROVE  w = v
    <3>1. CASE v \in tasks \ {t} /\ w \in tasks \ {t}
      BY <1>3, <2>3, <3>1 DEF ReceiptInv, TasksApart
    <3>2. CASE v \notin tasks \ {t} /\ w \notin tasks \ {t}
      BY <1>2, <3>2
    <3>3. CASE v \in tasks \ {t} /\ w \notin tasks \ {t}
      <4>1. w.store = t.store /\ w.row = t.row
        BY <1>2, <3>3
      <4>2. t = v
        BY <1>3, <2>3, <3>3, <4>1 DEF ReceiptInv, TasksApart
      <4>3. QED
        BY <3>3, <4>2
    <3>4. CASE v \notin tasks \ {t} /\ w \in tasks \ {t}
      <4>1. v.store = t.store /\ v.row = t.row
        BY <1>2, <3>4
      <4>2. t = w
        BY <1>3, <2>3, <3>4, <4>1 DEF ReceiptInv, TasksApart
      <4>3. QED
        BY <3>4, <4>2
    <3>5. QED
      BY <3>1, <3>2, <3>3, <3>4
  <2>4. QED
    BY <2>2, <2>3
<1>4. pg
  BY DEF ReceiptInv, TasksApart
<1>5. TasksApart'
  BY <1>1, <1>3, <1>4 DEF TasksApart
<1>6. QED
  BY <1>5, StillApart

(* The receipt: on the queue, and with a task when there is a database.    *)
LEMMA ReceiptApart ==
  ASSUME CallInv, ReceiptInv, UNCHANGED setting, \A q : Past(q) => Past(q)',
         NEW r \in Req, PushReceipt(r)
  PROVE  ReceiptInv'
<1>1. /\ req[r].at = "receipt" /\ UNCHANGED <<drained, rows, claims>>
      /\ queue' = Append(queue, r) \/ queue' = Tail(Append(queue, r))
      /\ tasks' = IF pg THEN tasks \cup {[store |-> "recent", row |-> CallRow(r), step |-> "insert"]}
                        ELSE tasks
      /\ With(r, [at |-> IF req[r].stream THEN "release" ELSE "capture"])
  BY DEF PushReceipt, Push
<1>2. ~Past(r)
  BY <1>1 DEF Past, BehindReceipt
<1>3. Past(r)'
  <2>1. "stream" \in DOMAIN req[r] /\ IsRequests(req)
    BY <1>1 DEF CallInv, CallOK, CallPlaces
  <2>2. MovesTo(r, IF req[r].stream THEN "release" ELSE "capture")
    BY <1>1, <2>1, CallMoves
  <2>3. QED
    BY <2>1, <2>2 DEF MovesTo, Past, BehindReceipt
<1>4. pg' = pg
  BY DEF pg
<1>5. /\ queue' \in Seq(Req) /\ Range(queue') \subseteq Range(queue) \cup {r}
      /\ IsInjective(queue) /\ r \notin Range(queue) => IsInjective(queue')
  <2> DEFINE a == Append(queue, r)
  <2>1. /\ a \in Seq(Req) /\ Range(a) = Range(queue) \cup {r}
        /\ IsInjective(queue) /\ r \notin Range(queue) => IsInjective(a)
    BY AppendOnce DEF ReceiptInv, ReceiptsApart
  <2>2. Tail(a) = SubSeq(a, 2, Len(a)) /\ Len(a) \in Nat /\ 2 \in Nat
    BY <2>1
  <2> HIDE DEF a
  <2> DEFINE u == SubSeq(a, 2, Len(a))
  <2>3. 2 \in 1 .. 2 /\ Len(a) \in 0 .. Len(a)
    BY <2>2
  <2>4. /\ u \in Seq(Req) /\ Range(u) \subseteq Range(a)
        /\ IsInjective(a) => IsInjective(u)
    BY <2>1, <2>3, PartOnce
  <2>5. queue' = a \/ queue' = u
    BY <1>1, <2>2 DEF a
  <2> HIDE DEF u
  <2>6. QED
    BY <2>1, <2>4, <2>5
<1>6. CASE pg
  <2>1. Waiting' = Waiting /\ Taken' = Taken
    BY <1>1, <1>4, <1>6 DEF Waiting, Taken
  <2>2. ReceiptsApart' /\ ClaimsApart'
    BY <1>1, <1>4, <1>5, <2>1 DEF ReceiptInv, ReceiptsApart, ClaimsApart
  <2>3. r \notin Taken /\ \A t \in tasks : t.store = "recent" => t.row.id # r
    BY <1>2 DEF ReceiptInv, ReceiptsApart, TasksApart
  <2>4. CallRow(r).id = r
    BY DEF CallRow
  <2>5. TasksApart'
    BY <1>1, <1>3, <1>4, <1>6, <2>1, <2>3, <2>4 DEF ReceiptInv, TasksApart
  <2>6. QED
    BY <2>2, <2>5 DEF ReceiptInv
<1>7. CASE ~pg
  <2>1. Waiting = queue /\ Waiting' = queue' /\ drained' = drained
    BY <1>1, <1>4, <1>7 DEF Waiting
  <2>2. r \notin Taken
    BY <1>2 DEF ReceiptInv, ReceiptsApart
  <2>3. Taken' \subseteq Taken \cup {r}
    BY <1>5, <2>1 DEF Taken
  <2>4. ReceiptsApart'
    BY <1>1, <1>3, <1>5, <2>1, <2>2, <2>3 DEF ReceiptInv, ReceiptsApart, Taken
  <2>5. TasksApart' /\ ClaimsApart'
    BY <1>1, <1>4, <1>7 DEF ReceiptInv, TasksApart, ClaimsApart
  <2>6. QED
    BY <2>4, <2>5 DEF ReceiptInv
<1>8. QED
  BY <1>6, <1>7

(* Its task puts it in the table of the receipts to drain.                 *)
LEMMA EnqueueApart ==
  ASSUME StoresInv, ReceiptInv, UNCHANGED <<setting, req>>,
         NEW t \in tasks, TaskEnqueues(t)
  PROVE  ReceiptInv'
<1>1. /\ t.store = "recent" /\ tasks' = tasks \ {t} /\ UNCHANGED <<queue, claims, drained>>
      /\ rows' = rows \/ rows' = Append(rows, t.row.id)
  BY DEF StoresInv, IsTask, TaskEnqueues
<1>2. \A q : Past(q)' <=> Past(q)
  BY DEF Past
<1>3. pg /\ pg'
  BY DEF ReceiptInv, TasksApart, pg
<1>4. Waiting = rows /\ Waiting' = rows'
  BY <1>3 DEF Waiting
<1>5. /\ Past(t.row.id) /\ t.row.id \in Req /\ t.row.id \notin Taken
      /\ \A u \in tasks' : u.store = "recent" => u.row.id # t.row.id
  BY <1>1 DEF ReceiptInv, TasksApart, Past
<1>6. /\ rows' \in Seq(Req) /\ IsInjective(rows')
      /\ Range(rows) \subseteq Range(rows') /\ Range(rows') \subseteq Range(rows) \cup {t.row.id}
  <2>1. rows \in Seq(Req) /\ IsInjective(rows) /\ t.row.id \notin Range(rows)
    BY <1>4, <1>5 DEF ReceiptInv, ReceiptsApart, Taken
  <2> DEFINE a == Append(rows, t.row.id)
  <2>2. a \in Seq(Req) /\ IsInjective(a) /\ Range(a) = Range(rows) \cup {t.row.id}
    BY <1>5, <2>1, AppendOnce
  <2>3. rows' = rows \/ rows' = a
    BY <1>1
  <2> HIDE DEF a
  <2>4. QED
    BY <2>1, <2>2, <2>3
<1>7. Taken' \subseteq Taken \cup {t.row.id}
  BY <1>1, <1>4, <1>6 DEF Taken
<1>8. ReceiptsApart'
  BY <1>1, <1>2, <1>4, <1>5, <1>6, <1>7 DEF ReceiptInv, ReceiptsApart, Taken
<1>9. TasksApart'
  BY <1>1, <1>2, <1>3, <1>5, <1>7 DEF ReceiptInv, TasksApart
<1>10. ClaimsApart'
  BY <1>1, <1>3, <1>6 DEF ReceiptInv, ClaimsApart
<1>11. QED
  BY <1>8, <1>9, <1>10 DEF ReceiptInv

(* The relayers.                                                           *)
LEMMA DrainApart ==
  ASSUME ReceiptInv, UNCHANGED setting, DrainMemory
  PROVE  ReceiptInv'
<1>1. /\ ~pg /\ drained' = drained \o queue /\ queue' = <<>>
      /\ UNCHANGED <<req, rows, claims, tasks>> /\ ~pg'
  BY DEF DrainMemory, storeVars, pg
<1>2. \A q : Past(q)' <=> Past(q)
  BY <1>1 DEF Past
<1>3. Waiting = queue /\ Waiting' = <<>>
  BY <1>1 DEF Waiting
<1>4. <<>> \in Seq(Req) /\ IsInjective(<<>>) /\ Range(<<>>) = {}
  BY DEF IsInjective, Range
<1>5. /\ drained' \in Seq(Req) /\ IsInjective(drained')
      /\ Range(drained') = Range(drained) \cup Range(queue)
  BY <1>1, <1>3, ConcatOnce DEF ReceiptInv, ReceiptsApart
<1>6. Taken' = Taken
  BY <1>3, <1>4, <1>5 DEF Taken
<1>7. ReceiptsApart'
  BY <1>1, <1>2, <1>3, <1>4, <1>5, <1>6 DEF ReceiptInv, ReceiptsApart
<1>8. TasksApart' /\ ClaimsApart'
  BY <1>1 DEF ReceiptInv, TasksApart, ClaimsApart
<1>9. QED
  BY <1>7, <1>8 DEF ReceiptInv

LEMMA ClaimApart ==
  ASSUME ReceiptInv, UNCHANGED setting, NEW d \in Drainer, Claim(d)
  PROVE  ReceiptInv'
<1> DEFINE free == Without(rows, Locked)
           batch == SubSeq(free, 1, IF Len(free) < BatchSize THEN Len(free) ELSE BatchSize)
<1>1. /\ pg /\ claims' = [claims EXCEPT ![d] = batch]
      /\ UNCHANGED <<req, rows, queue, drained, tasks>>
  BY DEF Claim, storeVars
<1>2. \A q : Past(q)' <=> Past(q)
  BY <1>1 DEF Past
<1>3. /\ free \in Seq(Req) /\ IsInjective(free) /\ Range(free) = Range(rows) \ Locked
  <2>1. rows \in Seq(Req) /\ IsInjective(rows)
    BY <1>1 DEF ReceiptInv, ReceiptsApart, Waiting
  <2>2. QED
    BY <2>1, WithoutRange
<1>4. /\ batch \in Seq(Req) /\ IsInjective(batch) /\ Range(batch) \subseteq Range(rows) \ Locked
  <2> DEFINE n == IF Len(free) < BatchSize THEN Len(free) ELSE BatchSize
  <2>1. n \in 0 .. Len(free)
    BY <1>3, LlmAssumption
  <2> HIDE DEF free, n
  <2>2. QED
    BY <1>3, <2>1, PartOnce DEF n
<1> HIDE DEF batch
<1>5. /\ claims' = [e \in Drainer |-> claims'[e]] /\ claims'[d] = batch
      /\ \A e \in Drainer : e # d => claims'[e] = claims[e]
  BY <1>1 DEF ReceiptInv, ClaimsApart
<1>6. \A e \in Drainer : Range(claims[e]) \cap Range(batch) = {}
  BY <1>4 DEF Locked
<1>7. ClaimsApart'
  <2>1. pg'
    BY <1>1 DEF pg
  <2>2. QED
    BY <1>1, <1>4, <1>5, <1>6, <2>1 DEF ReceiptInv, ClaimsApart
<1>8. ReceiptsApart' /\ TasksApart'
  <2>1. Waiting' = Waiting /\ Taken' = Taken /\ pg' = pg
    BY <1>1 DEF Waiting, Taken, pg
  <2>2. QED
    BY <1>1, <1>2, <2>1 DEF ReceiptInv, ReceiptsApart, TasksApart
<1>9. QED
  BY <1>7, <1>8 DEF ReceiptInv

LEMMA CommitApart ==
  ASSUME ReceiptInv, UNCHANGED setting, NEW d \in Drainer, Commit(d)
  PROVE  ReceiptInv'
<1> DEFINE c == claims[d]
<1>1. /\ c # <<>> /\ drained' = drained \o c /\ rows' = Without(rows, Range(c))
      /\ claims' = [claims EXCEPT ![d] = <<>>]
      /\ UNCHANGED <<req, queue, tasks>>
  BY DEF Commit, storeVars
<1>2. \A q : Past(q)' <=> Past(q)
  BY <1>1 DEF Past
<1>3. pg /\ pg'
  BY <1>1 DEF ReceiptInv, ClaimsApart, pg
<1>4. Waiting = rows /\ Waiting' = rows'
  BY <1>3 DEF Waiting
<1>5. /\ c \in Seq(Req) /\ IsInjective(c) /\ Range(c) \subseteq Range(rows)
      /\ \A e \in Drainer : e # d => Range(c) \cap Range(claims[e]) = {}
  BY DEF ReceiptInv, ClaimsApart
<1> HIDE DEF c
<1>6. /\ rows' \in Seq(Req) /\ IsInjective(rows') /\ Range(rows') = Range(rows) \ Range(c)
  BY <1>1, <1>4, WithoutRange DEF ReceiptInv, ReceiptsApart
<1>7. /\ drained' \in Seq(Req) /\ IsInjective(drained')
      /\ Range(drained') = Range(drained) \cup Range(c)
  <2>1. Range(drained) \cap Range(c) = {}
    BY <1>4, <1>5 DEF ReceiptInv, ReceiptsApart
  <2>2. QED
    BY <1>1, <1>5, <2>1, ConcatOnce DEF ReceiptInv, ReceiptsApart
<1>8. Taken' = Taken /\ Range(drained') \cap Range(rows') = {}
  BY <1>4, <1>5, <1>6, <1>7 DEF Taken, ReceiptInv, ReceiptsApart
<1>9. ReceiptsApart'
  BY <1>1, <1>2, <1>4, <1>6, <1>7, <1>8 DEF ReceiptInv, ReceiptsApart
<1>10. TasksApart'
  BY <1>1, <1>2, <1>3, <1>8 DEF ReceiptInv, TasksApart
<1>11. ClaimsApart'
  <2>1. /\ claims' = [e \in Drainer |-> claims'[e]] /\ claims'[d] = <<>>
        /\ \A e \in Drainer : e # d => claims'[e] = claims[e]
    BY <1>1 DEF ReceiptInv, ClaimsApart
  <2>2. <<>> \in Seq(Req) /\ IsInjective(<<>>) /\ Range(<<>>) = {}
    BY DEF IsInjective, Range
  <2>3. \A e \in Drainer : e # d => Range(claims[e]) \subseteq Range(rows')
    BY <1>5, <1>6 DEF ReceiptInv, ClaimsApart
  <2>4. QED
    BY <1>3, <2>1, <2>2, <2>3 DEF ReceiptInv, ClaimsApart
<1>12. QED
  BY <1>9, <1>10, <1>11 DEF ReceiptInv

(* A transaction that is rolled back, and a restart.                       *)
LEMMA RollbackApart ==
  ASSUME ReceiptInv, UNCHANGED <<setting, rows, drained>>, \A q : Past(q) => Past(q)',
         \/ Restart
         \/ \E d \in Drainer : Rollback(d)
  PROVE  ReceiptInv'
<1>1. /\ claims' = [d \in Drainer |-> claims'[d]]
      /\ \A d \in Drainer : claims'[d] = <<>> \/ claims'[d] = claims[d]
      /\ tasks' \subseteq tasks
      /\ queue' = <<>> \/ queue' = queue
  BY DEF Restart, StoresRestart, LlmRestart, Rollback, storeVars, ReceiptInv, ClaimsApart
<1>2. <<>> \in Seq(Req) /\ IsInjective(<<>>) /\ Range(<<>>) = {}
  BY DEF IsInjective, Range
<1>3. pg' = pg /\ (Waiting' = Waiting \/ Waiting' = <<>>)
  BY <1>1 DEF pg, Waiting
<1>4. Taken' \subseteq Taken
  BY <1>2, <1>3 DEF Taken
<1>5. ReceiptsApart'
  BY <1>1, <1>2, <1>3, <1>4 DEF ReceiptInv, ReceiptsApart
<1>6. TasksApart'
  BY <1>1, <1>3, <1>4 DEF ReceiptInv, TasksApart
<1>7. ClaimsApart'
  BY <1>1, <1>2, <1>3 DEF ReceiptInv, ClaimsApart
<1>8. QED
  BY <1>5, <1>6, <1>7 DEF ReceiptInv

LEMMA ReceiptsKept ==
  ASSUME CallInv, StoresInv, ReceiptInv, [ServerNext]_serverVars
  PROVE  ReceiptInv'
<1>1. UNCHANGED setting /\ \A q : Past(q) => Past(q)'
  BY PastKept DEF ServerNext, Restart, StoresRestart, serverVars
<1>2. CASE Tasks \/ UNCHANGED serverVars
  <2>1. UNCHANGED <<drained, rows, queue, claims>>
    BY <1>2 DEF Tasks, serverVars, llmVars, receiptVars
  <2>2. CASE Tasks
    BY <1>1, <2>1, <2>2, TasksMove, TaskApart DEF Tasks
  <2>3. CASE UNCHANGED serverVars
    BY <1>1, <2>1, <2>3, OtherPushApart DEF serverVars, storeVars
  <2>4. QED
    BY <1>2, <2>2, <2>3
<1>3. CASE Web
  BY <1>1, <1>3, OtherPushApart DEF Web, storeVars, llmVars, receiptVars
<1>4. CASE Runs
  <2>1. tasks' \subseteq tasks \/ \E row : Push("sandbox", row)
    BY <1>4 DEF Runs, RunsStep, ExecStart, ExecDenied, ExecCounts, ExecDropped, Ingest,
                IngestByToken, Fails, Pushes, JoinFails, storeVars
  <2>2. UNCHANGED <<drained, rows, queue, claims>>
    BY <1>4 DEF Runs, llmVars, receiptVars
  <2>3. QED
    BY <1>1, <2>1, <2>2, OtherPushApart
<1>5. CASE Llm
  <2>1. CASE \E r \in Req : PushReceipt(r)
    BY <1>1, <2>1, ReceiptApart
  <2>2. CASE \E t \in tasks : TaskEnqueues(t)
    <3>1. UNCHANGED req
      BY <2>2 DEF TaskEnqueues
    <3>2. QED
      BY <1>1, <2>2, <3>1, EnqueueApart
  <2>3. CASE DrainMemory \/ \E d \in Drainer : Claim(d) \/ Commit(d)
    BY <1>1, <2>3, DrainApart, ClaimApart, CommitApart
  <2>4. CASE \E d \in Drainer : Rollback(d)
    <3>1. UNCHANGED <<rows, drained>>
      BY <2>4 DEF Rollback
    <3>2. QED
      BY <1>1, <2>4, <3>1, RollbackApart
  <2>5. CASE \/ \E r \in Req :
                 \/ \E k \in Token, stream \in BOOLEAN : Arrive(r, k, stream)
                 \/ Refuse(r) \/ Admit(r)
                 \/ ClientReads(r) \/ Leave(r)
                 \/ SendFails(r) \/ StreamHead(r) \/ Chunk(r) \/ SendChunk(r)
                 \/ UpstreamEnds(r) \/ Flush(r) \/ PushCaptured(r)
                 \/ Release(r) \/ BufferedReturns(r) \/ Resume(r)
                 \/ \E s \in Sid : ViewRead(r, s)
                 \/ ViewShow(r)
    <3>1. UNCHANGED <<drained, rows, queue, claims>>
      BY <2>5 DEF Arrive, Refuse, Admit, SendFails, StreamHead, Chunk, SendChunk,
                  UpstreamEnds, Flush, PushCaptured, Release, BufferedReturns, Resume, ClientReads, Leave, ViewRead,
                  ViewShow, llmVars, receiptVars
    <3>2. tasks' \subseteq tasks \/ \E row : Push("captured", row)
      BY <2>5 DEF Arrive, Refuse, Admit, SendFails, StreamHead, Chunk, SendChunk,
                  UpstreamEnds, Flush, PushCaptured, Release, BufferedReturns, Resume, ClientReads, Leave, ViewRead,
                  ViewShow, storeVars
    <3>3. QED
      BY <1>1, <3>1, <3>2, OtherPushApart
  <2>6. QED
    BY <1>5, <2>1, <2>2, <2>3, <2>4, <2>5 DEF Llm, LlmStep, TaskStep, HandlerStep
<1>6. CASE Restart
  <2>1. UNCHANGED <<rows, drained>>
    BY <1>6 DEF Restart, LlmRestart
  <2>2. QED
    BY <1>1, <1>6, <2>1, RollbackApart
<1>7. QED
  BY <1>2, <1>3, <1>4, <1>5, <1>6 DEF ServerNext

LEMMA ReceiptsStart == ServerInit => ReceiptInv
<1>1. SUFFICES ASSUME ServerInit PROVE ReceiptInv
  OBVIOUS
<1>2. /\ queue = <<>> /\ rows = <<>> /\ drained = <<>> /\ tasks = {}
      /\ claims = [d \in Drainer |-> <<>>]
  BY <1>1 DEF ServerInit, StoresInit, LlmInit
<1>3. <<>> \in Seq(Req) /\ IsInjective(<<>>) /\ Range(<<>>) = {}
  BY DEF IsInjective, Range
<1>4. Waiting = <<>> /\ Taken = {}
  BY <1>2, <1>3 DEF Waiting, Taken
<1>5. QED
  BY <1>2, <1>3, <1>4 DEF ReceiptInv, ReceiptsApart, TasksApart, ClaimsApart

(* No receipt is handed out twice, nor while it still waits: for any number *)
(* of calls and of relayers that claim, commit and roll back at once, any   *)
(* batch and queue, and restarts between any two of their steps.           *)
THEOREM ReceiptsCorrect == ServerSpec => []ReceiptsOnce
<1>1. ReceiptInv => ReceiptsOnce
  <2>1. SUFFICES ASSUME ReceiptInv PROVE IsInjective(drained \o Waiting)
    BY DEF ReceiptsOnce, Waiting
  <2>2. Waiting \in Seq(Req) /\ drained \in Seq(Req)
    BY <2>1 DEF ReceiptInv, ReceiptsApart, Waiting
  <2>3. QED
    BY <2>1, <2>2, ConcatOnce DEF ReceiptInv, ReceiptsApart
<1>2. QED
  BY <1>1, CallsInit, CallsKept, StoresStart, StoresKept, ReceiptsStart, ReceiptsKept, PTL
     DEF ServerSpec
-----------------------------------------------------------------------------
(* The types.  A call's record keeps its fields; the permits that are not  *)
(* free are those the calls hold.                                          *)
Clients == {"waits", "reads", "gone", "answered", "ended"}
CallFields == {"at", "owner", "token", "stream", "client", "chan", "chunks"}

ReqTyped == req \in [Req -> ReqRecord]

WebTyped ==
  /\ Stored \subseteq Sid /\ \A s \in Stored : sess[s] \in Owner
  /\ pending \subseteq OAuthState
  /\ \A k \in DOMAIN tokens : k \in Token /\ tokens[k] \in [user : Owner, revoked : BOOLEAN]

Holders == {r \in Req : Holding(r)}

PermitsOK ==
  /\ permits \in Nat /\ IsFiniteSet(Holders)
  /\ permits + Cardinality(Holders) = MaxPermits

QueueOK == queue \in Seq(Req) /\ Len(queue) <= QueueCap

TypeInv == setting \in Setting /\ ReqTyped /\ WebTyped /\ PermitsOK /\ QueueOK

LEMMA ReqPlaces ==
  /\ CallRecord \subseteq ReqRecord
  /\ \A x \in ReqRecord : x.at \in CallPlaces => x \in CallRecord
  /\ Done \in ReqRecord /\ Unused \in ReqRecord
BY DEF ReqRecord, CallRecord, CallPlaces, Done, Unused

LEMMA CallTyped ==
  ASSUME NEW c
  PROVE  c \in CallRecord <=>
           /\ c = [f \in CallFields |-> c[f]]
           /\ c.at \in CallPlaces /\ c.owner \in Owner /\ c.token \in Token
           /\ c.stream \in BOOLEAN /\ c.client \in Clients
           /\ c.chan \in 0 .. ChanCap /\ c.chunks \in 0 .. MaxChunks
BY DEF CallRecord, CallFields, Clients

LEMMA ToTyped ==
  ASSUME ReqTyped, NEW r \in Req, NEW x \in ReqRecord, To(r, x)
  PROVE  ReqTyped'
BY DEF ReqTyped, To

(* The record with some of its fields changed, each within its type.       *)
LEMMA WithTyped ==
  ASSUME ReqTyped, NEW r \in Req, req[r] \in CallRecord, NEW changes, With(r, changes),
         DOMAIN changes \subseteq {"at", "client", "chan", "chunks"},
         "at" \in DOMAIN changes => changes.at \in CallPlaces,
         "client" \in DOMAIN changes => changes.client \in Clients,
         "chan" \in DOMAIN changes => changes.chan \in 0 .. ChanCap,
         "chunks" \in DOMAIN changes => changes.chunks \in 0 .. MaxChunks
  PROVE  ReqTyped'
<1> DEFINE x == [f \in DOMAIN changes \cup DOMAIN req[r] |->
                   IF f \in DOMAIN changes THEN changes[f] ELSE req[r][f]]
<1>1. DOMAIN req[r] = CallFields
  BY CallTyped
<1>2. x = [f \in CallFields |-> x[f]]
  BY <1>1 DEF CallFields
<1>3. /\ x.at \in CallPlaces /\ x.owner \in Owner /\ x.token \in Token
      /\ x.stream \in BOOLEAN /\ x.client \in Clients
      /\ x.chan \in 0 .. ChanCap /\ x.chunks \in 0 .. MaxChunks
  BY <1>1, CallTyped DEF CallFields
<1>4. To(r, x)
  BY DEF With
<1> HIDE DEF x
<1>5. x \in ReqRecord
  BY <1>2, <1>3, CallTyped, ReqPlaces
<1>6. QED
  BY <1>4, <1>5, ToTyped

LEMMA CallTypes ==
  ASSUME ReqTyped, NEW r \in Req, req[r] \in CallRecord, NEW place \in CallPlaces, NEW m, NEW n,
         \/ With(r, [at |-> place])
         \/ With(r, [at |-> place, client |-> m]) /\ m \in Clients
         \/ With(r, [at |-> place, chan |-> m]) /\ m \in 0 .. ChanCap
         \/ With(r, [at |-> place, client |-> m, chan |-> n]) /\ m \in Clients /\ n \in 0 .. ChanCap
         \/ With(r, [at |-> place, chunks |-> m]) /\ m \in 0 .. MaxChunks
  PROVE  ReqTyped'
<1>1. CASE With(r, [at |-> place])
  <2> DEFINE x == [at |-> place]
  <2>1. /\ DOMAIN x = {"at"} /\ x.at = place
    OBVIOUS
  <2>2. QED
    BY <1>1, <2>1, WithTyped
<1>2. CASE With(r, [at |-> place, client |-> m]) /\ m \in Clients
  <2> DEFINE x == [at |-> place, client |-> m]
  <2>1. /\ DOMAIN x = {"at", "client"} /\ x.at = place /\ x.client = m
    OBVIOUS
  <2>2. QED
    BY <1>2, <2>1, WithTyped
<1>3. CASE With(r, [at |-> place, chan |-> m]) /\ m \in 0 .. ChanCap
  <2> DEFINE x == [at |-> place, chan |-> m]
  <2>1. /\ DOMAIN x = {"at", "chan"} /\ x.at = place /\ x.chan = m
    OBVIOUS
  <2>2. QED
    BY <1>3, <2>1, WithTyped
<1>4. CASE With(r, [at |-> place, client |-> m, chan |-> n]) /\ m \in Clients /\ n \in 0 .. ChanCap
  <2> DEFINE x == [at |-> place, client |-> m, chan |-> n]
  <2>1. /\ DOMAIN x = {"at", "client", "chan"} /\ x.at = place /\ x.client = m /\ x.chan = n
    OBVIOUS
  <2>2. QED
    BY <1>4, <2>1, WithTyped
<1>5. CASE With(r, [at |-> place, chunks |-> m]) /\ m \in 0 .. MaxChunks
  <2> DEFINE x == [at |-> place, chunks |-> m]
  <2>1. /\ DOMAIN x = {"at", "chunks"} /\ x.at = place /\ x.chunks = m
    OBVIOUS
  <2>2. QED
    BY <1>5, <2>1, WithTyped
<1>6. QED
  BY <1>1, <1>2, <1>3, <1>4, <1>5

(* The permits follow the one request that moves.                          *)
PermitsGo(r) ==
  \/ UNCHANGED permits /\ (Holding(r)' <=> Holding(r))
  \/ permits > 0 /\ permits' = permits - 1 /\ ~Holding(r) /\ Holding(r)'
  \/ permits' = permits + 1 /\ Holding(r) /\ ~Holding(r)'

LEMMA PermitsKept ==
  ASSUME PermitsOK, NEW r \in Req, \A q \in Req : q # r => req'[q] = req[q], PermitsGo(r)
  PROVE  PermitsOK'
<1>1. \A q \in Req : q # r => (Holding(q)' <=> Holding(q))
  BY DEF Holding
<1>2. Cardinality(Holders) \in Nat /\ MaxPermits \in Nat
  BY FS_CardinalityType, LlmAssumption DEF PermitsOK
<1>3. CASE UNCHANGED permits /\ (Holding(r)' <=> Holding(r))
  BY <1>1, <1>3 DEF PermitsOK, Holders
<1>4. CASE permits > 0 /\ permits' = permits - 1 /\ ~Holding(r) /\ Holding(r)'
  <2>1. Holders' = Holders \cup {r} /\ r \notin Holders
    BY <1>1, <1>4 DEF Holders
  <2>2. IsFiniteSet(Holders') /\ Cardinality(Holders') = Cardinality(Holders) + 1
    BY <2>1, FS_AddElement DEF PermitsOK
  <2>3. QED
    BY <1>2, <1>4, <2>2 DEF PermitsOK
<1>5. CASE permits' = permits + 1 /\ Holding(r) /\ ~Holding(r)'
  <2>1. Holders' = Holders \ {r} /\ r \in Holders
    BY <1>1, <1>5 DEF Holders
  <2>2. IsFiniteSet(Holders') /\ Cardinality(Holders') = Cardinality(Holders) - 1
    BY <2>1, FS_RemoveElement DEF PermitsOK
  <2>3. QED
    BY <1>2, <1>5, <2>2 DEF PermitsOK
<1>6. QED
  BY <1>3, <1>4, <1>5 DEF PermitsGo

\* Request r ends, or goes to a place, its record typed.
CallGoesOn(r, place) == MovesTo(r, place) /\ ReqTyped'

LEMMA CallGoesTyped ==
  ASSUME ReqTyped, IsRequests(req), NEW r \in Req, req[r].at \in CallPlaces,
         NEW place \in CallPlaces, NEW m, NEW n,
         \/ With(r, [at |-> place])
         \/ With(r, [at |-> place, client |-> m]) /\ m \in Clients
         \/ With(r, [at |-> place, chan |-> m]) /\ m \in 0 .. ChanCap
         \/ With(r, [at |-> place, client |-> m, chan |-> n]) /\ m \in Clients /\ n \in 0 .. ChanCap
         \/ With(r, [at |-> place, chunks |-> m]) /\ m \in 0 .. MaxChunks
  PROVE  CallGoesOn(r, place)
<1>1. req[r] \in CallRecord
  BY ReqPlaces DEF ReqTyped
<1>2. MovesTo(r, place)
  BY CallMoves
<1>3. ReqTyped'
  BY <1>1, CallTypes
<1>4. QED
  BY <1>2, <1>3 DEF CallGoesOn

(* The steps of a call's task and handler.                                 *)
LEMMA TaskTyped ==
  ASSUME ReqTyped, CallInv, NEW r \in Req, TaskStep(r) \/ HandlerStep(r)
  PROVE  ReqTyped' /\ PermitsGo(r)
<1>1. IsRequests(req) /\ req[r].at \in CallPlaces
  BY DEF CallInv, CallPlaces, TaskStep, HandlerStep, Holding, Resume, PushReceipt, PushCaptured
<1>2. /\ req[r] \in CallRecord /\ req[r].chan \in 0 .. ChanCap /\ req[r].chunks \in 0 .. MaxChunks
      /\ req[r].stream \in BOOLEAN /\ "stream" \in DOMAIN req[r]
  BY <1>1, ReqPlaces, CallTyped DEF ReqTyped, CallRecord
<1>3. {"send", "relay", "chunk", "flush", "capture", "receipt", "release", "joined", "closed"}
         \subseteq CallPlaces
  BY DEF CallPlaces
<1>4. {"reads", "answered"} \subseteq Clients /\ ChanCap \in Nat /\ MaxChunks \in Nat
  BY LlmAssumption DEF Clients
<1>5. ASSUME To(r, Done)
      PROVE  ReqTyped' /\ ~Holding(r)'
  <2>1. Done \in ReqRecord /\ req'[r] = Done
    BY <1>1, <1>5, ReqPlaces, ToMoves
  <2>2. QED
    BY <1>5, <2>1, ToTyped DEF Done, Holding
<1>6. ASSUME NEW place, CallGoesOn(r, place)
      PROVE  /\ ReqTyped'
             /\ Holding(r)' <=> \/ place \in {"send", "relay", "chunk", "flush", "release"}
                                \/ place \in {"capture", "receipt"} /\ req[r].stream
  BY <1>2, <1>6 DEF CallGoesOn, MovesTo, Holding
<1>7. CASE SendFails(r)
  BY <1>5, <1>7 DEF SendFails, PermitsGo, Holding
<1>8. CASE StreamHead(r)
  <2>1. CASE req[r].client = "gone"
    BY <1>5, <1>8, <2>1 DEF StreamHead, PermitsGo, Holding
  <2>2. CASE req[r].client # "gone"
    <3>1. With(r, [at |-> "relay", client |-> "reads"]) /\ UNCHANGED permits
      BY <1>8, <2>2 DEF StreamHead
    <3>2. CallGoesOn(r, "relay")
      BY <1>1, <1>3, <1>4, <3>1, CallGoesTyped
    <3>3. QED
      BY <1>6, <1>8, <3>1, <3>2 DEF StreamHead, PermitsGo, Holding
  <2>3. QED
    BY <2>1, <2>2
<1>9. CASE Chunk(r)
  <2>1. With(r, [at |-> "chunk", chunks |-> req[r].chunks + 1]) /\ req[r].chunks + 1 \in 0 .. MaxChunks
    BY <1>2, <1>4, <1>9 DEF Chunk
  <2>2. CallGoesOn(r, "chunk")
    BY <1>1, <1>3, <2>1, CallGoesTyped
  <2>3. QED
    BY <1>6, <1>9, <2>2 DEF Chunk, PermitsGo, Holding, llmVars
<1>9a. CASE SendChunk(r)
  <2>1. \/ With(r, [at |-> "flush"])
        \/ With(r, [at |-> "relay", chan |-> req[r].chan + 1]) /\ req[r].chan + 1 \in 0 .. ChanCap
    BY <1>2, <1>4, <1>9a DEF SendChunk
  <2>2. \E place \in {"flush", "relay"} : CallGoesOn(r, place)
    BY <1>1, <1>3, <2>1, CallGoesTyped
  <2>3. QED
    BY <1>6, <1>9a, <2>2 DEF SendChunk, PermitsGo, Holding, llmVars
<1>10. CASE Flush(r)
  <2>1. \/ With(r, [at |-> "capture"])
        \/ /\ With(r, [at |-> "capture", chan |-> req[r].chan + 1])
           /\ req[r].chan + 1 \in 0 .. ChanCap
    BY <1>2, <1>4, <1>10 DEF Flush
  <2>2. CallGoesOn(r, "capture")
    BY <1>1, <1>3, <2>1, CallGoesTyped
  <2>3. req[r].stream
    BY <1>10 DEF Flush, CallInv, CallOK
  <2>4. QED
    BY <1>6, <1>10, <2>2, <2>3 DEF Flush, PermitsGo, Holding, llmVars
<1>11. CASE UpstreamEnds(r)
  <2>1. PICK place \in {"flush", "capture"} : With(r, [at |-> place])
    BY <1>11 DEF UpstreamEnds, EndsRelay
  <2>2. CallGoesOn(r, place)
    BY <1>1, <1>3, <2>1, CallGoesTyped
  <2>3. req[r].stream
    BY <1>11 DEF UpstreamEnds, CallInv, CallOK
  <2>4. QED
    BY <1>6, <1>11, <2>2, <2>3 DEF UpstreamEnds, PermitsGo, Holding, llmVars
<1>12. CASE PushCaptured(r)
  <2>1. CASE req[r].stream
    <3>1. With(r, [at |-> "receipt"])
      BY <1>12, <2>1 DEF PushCaptured
    <3>2. CallGoesOn(r, "receipt")
      BY <1>1, <1>3, <3>1, CallGoesTyped
    <3>3. QED
      BY <1>6, <1>12, <2>1, <3>2 DEF PushCaptured, PermitsGo, Holding, llmVars
  <2>2. CASE ~req[r].stream
    <3>1. With(r, [at |-> "closed", client |-> "answered"])
      BY <1>12, <2>2 DEF PushCaptured
    <3>2. CallGoesOn(r, "closed")
      BY <1>1, <1>3, <1>4, <3>1, CallGoesTyped
    <3>3. QED
      BY <1>6, <1>12, <2>2, <3>2 DEF PushCaptured, PermitsGo, Holding, llmVars
  <2>3. QED
    BY <2>1, <2>2
<1>13. CASE PushReceipt(r)
  <2>1. PICK place \in {"release", "capture"} :
          With(r, [at |-> place]) /\ (place = "release" <=> req[r].stream)
    BY <1>13 DEF PushReceipt
  <2>2. CallGoesOn(r, place)
    BY <1>1, <1>3, <2>1, CallGoesTyped
  <2>3. QED
    BY <1>6, <1>13, <2>1, <2>2 DEF PushReceipt, PermitsGo, Holding
<1>14. CASE Release(r)
  <2>1. CallGoesOn(r, "closed")
    BY <1>1, <1>3, <1>14, CallGoesTyped DEF Release
  <2>2. QED
    BY <1>6, <1>14, <2>1 DEF Release, PermitsGo, Holding
<1>15. CASE BufferedReturns(r)
  <2>1. CASE req[r].client = "gone"
    BY <1>5, <1>15, <2>1 DEF BufferedReturns, PermitsGo, Holding
  <2>2. CASE req[r].client # "gone"
    <3>1. CallGoesOn(r, "joined")
      BY <1>1, <1>3, <1>15, <2>2, CallGoesTyped DEF BufferedReturns
    <3>2. QED
      BY <1>6, <1>15, <3>1 DEF BufferedReturns, PermitsGo, Holding
  <2>3. QED
    BY <2>1, <2>2
<1>16. CASE Resume(r) /\ ~Holding(r)
  <2>1. CallGoesOn(r, "receipt")
    BY <1>1, <1>3, <1>16, CallGoesTyped DEF Resume
  <2>2. ~req[r].stream
    BY <1>16 DEF Resume, CallInv, CallOK
  <2>3. QED
    BY <1>6, <1>16, <2>1, <2>2 DEF Resume, PermitsGo, Holding, llmVars
<1>17. QED
  BY <1>7, <1>8, <1>9, <1>9a, <1>10, <1>11, <1>12, <1>13, <1>14, <1>15, <1>16
     DEF TaskStep, HandlerStep

LEMMA DoneTyped ==
  ASSUME ReqTyped, IsRequests(req), NEW r \in Req, To(r, Done)
  PROVE  ReqTyped' /\ ~Holding(r)'
<1>1. Done \in ReqRecord /\ req'[r] = Done
  BY ReqPlaces, ToMoves
<1>2. QED
  BY <1>1, ToTyped DEF Done, Holding

LEMMA RequireTyped ==
  ASSUME ReqTyped, IsRequests(req), NEW route, NEW r \in Req, NEW s, NEW x,
         Require(route, r, s, x), s \in Stored => x \in ReqRecord
  PROVE  ReqTyped'
BY ToTyped, DoneTyped DEF Require

(* What the client of a call does.                                         *)
LEMMA ClientTyped ==
  ASSUME ReqTyped, CallInv, NEW r \in Req,
         Refuse(r) \/ Admit(r) \/ ClientReads(r) \/ Leave(r)
  PROVE  ReqTyped' /\ PermitsGo(r)
<1>1. IsRequests(req) /\ req[r].at \in CallPlaces
  BY DEF CallInv, CallPlaces, Refuse, Admit, ClientReads, Leave
<1>2. /\ req[r].chan \in 0 .. ChanCap /\ req[r].stream \in BOOLEAN /\ "stream" \in DOMAIN req[r]
  BY <1>1, ReqPlaces, CallTyped DEF ReqTyped, CallRecord
<1>3. ASSUME NEW place, CallGoesOn(r, place)
      PROVE  /\ ReqTyped'
             /\ Holding(r)' <=> \/ place \in {"send", "relay", "chunk", "flush", "release"}
                                \/ place \in {"capture", "receipt"} /\ req[r].stream
  BY <1>2, <1>3 DEF CallGoesOn, MovesTo, Holding
<1>4. CASE \/ Refuse(r) \/ (Admit(r) /\ ~(permits > 0))
           \/ Leave(r) /\ req[r].at \in {"body", "joined"}
  <2>1. UNCHANGED permits /\ ~Holding(r) /\ To(r, Done)
    BY <1>4 DEF Refuse, Admit, Leave, Holding, llmVars
  <2>2. QED
    BY <1>1, <2>1, DoneTyped DEF PermitsGo
<1>5. CASE Admit(r) /\ permits > 0
  <2>1. /\ req[r].at = "body" /\ permits > 0 /\ permits' = permits - 1
        /\ With(r, [at |-> "send"])
    BY <1>5 DEF Admit
  <2>2. CallGoesOn(r, "send")
    BY <1>1, <2>1, CallGoesTyped DEF CallPlaces
  <2>3. QED
    BY <1>3, <2>1, <2>2 DEF PermitsGo, Holding
<1>6. CASE ClientReads(r) \/ (Leave(r) /\ req[r].at \notin {"body", "joined"})
  <2>1. /\ UNCHANGED permits
        /\ \/ With(r, [at |-> req[r].at, chan |-> req[r].chan - 1]) /\ req[r].chan > 0
           \/ With(r, [at |-> req[r].at, client |-> "ended"])
           \/ With(r, [at |-> req[r].at, client |-> "gone"])
           \/ With(r, [at |-> req[r].at, client |-> "gone", chan |-> 0])
    BY <1>6 DEF ClientReads, Leave, llmVars
  <2>2. {"gone", "ended"} \subseteq Clients /\ 0 \in 0 .. ChanCap
    BY LlmAssumption DEF Clients
  <2>3. req[r].chan > 0 => req[r].chan - 1 \in 0 .. ChanCap
    BY <1>2, LlmAssumption
  <2>4. CallGoesOn(r, req[r].at)
    BY <1>1, <2>1, <2>2, <2>3, CallGoesTyped
  <2>5. QED
    BY <1>3, <2>1, <2>4 DEF PermitsGo, Holding
<1>7. QED
  BY <1>4, <1>5, <1>6

LEMMA ArriveTyped ==
  ASSUME ReqTyped, WebTyped, IsRequests(req), NEW r \in Req, NEW k \in Token, NEW stream \in BOOLEAN,
         Arrive(r, k, stream)
  PROVE  ReqTyped' /\ PermitsGo(r)
<1>a. PICK found \in CliTokenLookup(k) :
        To(r, [at |-> "body", owner |-> IF found THEN tokens[k].user ELSE "",
               token |-> k, stream |-> stream,
               client |-> "waits", chan |-> 0, chunks |-> 0])
  BY DEF Arrive
<1> DEFINE x == [at |-> "body", owner |-> IF found THEN tokens[k].user ELSE "",
                 token |-> k, stream |-> stream,
                 client |-> "waits", chan |-> 0, chunks |-> 0]
<1>1. To(r, x) /\ req[r].at = "unused" /\ UNCHANGED permits
  BY <1>a DEF Arrive, Routed
<1>2. x.owner \in Owner
  BY <1>a DEF WebTyped, CliTokenLookup, Live, Owner
<1>3. x \in ReqRecord
  <2>1. 0 \in 0 .. ChanCap /\ 0 \in 0 .. MaxChunks
    BY LlmAssumption
  <2>2. x \in CallRecord
    BY <1>2, <2>1 DEF CallRecord, CallPlaces
  <2>3. QED
    BY <2>2, ReqPlaces
<1>4. x.at = "body"
  OBVIOUS
<1> HIDE DEF x
<1>5. ReqTyped' /\ req'[r] = x
  BY <1>1, <1>3, ToTyped, ToMoves
<1>6. QED
  BY <1>1, <1>4, <1>5 DEF PermitsGo, Holding

LEMMA ViewTyped ==
  ASSUME ReqTyped, WebTyped, IsRequests(req), NEW r \in Req,
         ViewShow(r) \/ \E s \in Sid : ViewRead(r, s)
  PROVE  ReqTyped' /\ PermitsGo(r)
<1>1. UNCHANGED permits /\ req[r].at \in {"unused", "view"}
  BY DEF ViewShow, ViewRead, Require, Routed, llmVars
<1>2. CASE ViewShow(r)
  BY <1>1, <1>2, DoneTyped DEF ViewShow, PermitsGo, Holding
<1>3. CASE \E s \in Sid : ViewRead(r, s)
  <2>1. PICK s \in Sid : Require("captured", r, s, [at |-> "view", user |-> sess[s]])
    BY <1>3 DEF ViewRead
  <2>2. s \in Stored => [at |-> "view", user |-> sess[s]] \in ReqRecord
    BY DEF WebTyped, ReqRecord
  <2>3. ReqTyped'
    BY <2>1, <2>2, RequireTyped
  <2>4. req'[r].at \in {"view", "done"}
    BY <2>1, ToMoves DEF Require, Done
  <2>5. QED
    BY <1>1, <2>3, <2>4 DEF PermitsGo, Holding
<1>4. QED
  BY <1>2, <1>3

LEMMA QueueTyped ==
  ASSUME QueueOK, LlmStep
  PROVE  QueueOK'
<1>1. QueueCap \in Nat \ {0}
  BY LlmAssumption
<1>2. CASE UNCHANGED queue \/ queue' = <<>>
  <2>1. <<>> \in Seq(Req) /\ Len(<<>>) = 0 /\ 0 <= QueueCap
    BY <1>1
  <2>2. CASE queue' = <<>>
    BY <2>1, <2>2 DEF QueueOK
  <2>3. CASE UNCHANGED queue
    BY <2>3 DEF QueueOK
  <2>4. QED
    BY <1>2, <2>2, <2>3
<1>3. ASSUME NEW r \in Req, PushReceipt(r)
      PROVE  QueueOK'
  <2>1. queue \in Seq(Req) /\ Len(queue) <= QueueCap
    BY DEF QueueOK
  <2> DEFINE a == Append(queue, r)
  <2>2. a \in Seq(Req) /\ Len(a) = Len(queue) + 1 /\ a # <<>>
    BY <2>1
  <2>3. IF Len(a) > QueueCap THEN queue' = Tail(a) ELSE queue' = a
    BY <1>3 DEF PushReceipt
  <2> HIDE DEF a
  <2>4. Tail(a) \in Seq(Req) /\ Len(Tail(a)) = Len(queue)
    BY <2>1, <2>2
  <2>5. QED
    BY <1>1, <2>1, <2>2, <2>3, <2>4, SMTT(20) DEF QueueOK
<1>4. QED
  BY <1>2, <1>3 DEF LlmStep, TaskStep, HandlerStep, Arrive, Refuse, Admit, SendFails, StreamHead,
                    Chunk, SendChunk, UpstreamEnds, Flush, PushCaptured, Release,
                    BufferedReturns, Resume, ClientReads, Leave, ViewRead, ViewShow, TaskEnqueues, DrainMemory, Claim,
                    Commit, Rollback, llmVars, receiptVars

LEMMA LlmTyped ==
  ASSUME TypeInv, CallInv, LlmStep, UNCHANGED <<setting, webVars>>
  PROVE  TypeInv'
<1>1. ReqTyped /\ IsRequests(req) /\ WebTyped /\ PermitsOK /\ QueueOK'
  BY QueueTyped DEF TypeInv, CallInv
<1>2. WebTyped' /\ setting' \in Setting
  BY DEF TypeInv, WebTyped, webVars, Stored
<1>3. CASE \/ \E t \in tasks : TaskEnqueues(t)
           \/ DrainMemory
           \/ \E d \in Drainer : Claim(d) \/ Commit(d) \/ Rollback(d)
  <2>1. UNCHANGED <<req, permits>>
    BY <1>3 DEF TaskEnqueues, DrainMemory, Claim, Commit, Rollback
  <2>2. ReqTyped' /\ PermitsOK'
    BY <1>1, <2>1 DEF ReqTyped, PermitsOK, Holders, Holding
  <2>3. QED
    BY <1>1, <1>2, <2>2 DEF TypeInv
<1>4. ASSUME NEW r \in Req,
             \/ \E k \in Token, stream \in BOOLEAN : Arrive(r, k, stream)
             \/ Refuse(r) \/ Admit(r)
             \/ TaskStep(r) \/ HandlerStep(r)
             \/ ClientReads(r) \/ Leave(r)
             \/ \E s \in Sid : ViewRead(r, s)
             \/ ViewShow(r)
      PROVE  TypeInv'
  <2>1. ReqTyped' /\ PermitsGo(r)
    BY <1>1, <1>4, ArriveTyped, TaskTyped, ClientTyped, ViewTyped
  <2>2. Goes(r, LlmPlaces)
    BY <1>1, <1>4, ArriveGoes, TaskGoes, ClientGoes
  <2>3. PermitsOK'
    BY <1>1, <2>1, <2>2, PermitsKept DEF Goes
  <2>4. QED
    BY <1>1, <1>2, <2>1, <2>3 DEF TypeInv
<1>5. QED
  BY <1>3, <1>4 DEF LlmStep
(* Runs leave the types alone, and the web keeps the users of its sessions  *)
(* and tokens.                                                             *)
LEMMA RunsTyped ==
  ASSUME ReqTyped, IsRequests(req), RunsStep
  PROVE  ReqTyped'
<1>1. PICK r \in Req :
        \/ \E s \in Sid : ExecStart(r, s)
        \/ ExecDenied(r) \/ ExecCounts(r) \/ ExecDropped(r)
        \/ Ingest(r) \/ \E k \in Token : IngestByToken(r, k)
        \/ Fails(r) \/ Pushes(r) \/ JoinFails(r)
  BY DEF RunsStep
<1>2. [at |-> "exec"] \in ReqRecord /\ [at |-> "counted"] \in ReqRecord /\ [at |-> "failed"] \in ReqRecord
  BY DEF ReqRecord
<1>3. CASE \E s \in Sid : ExecStart(r, s)
  BY <1>2, <1>3, RequireTyped DEF ExecStart
<1>4. CASE ~\E s \in Sid : ExecStart(r, s)
  <2>1. To(r, [at |-> "counted"]) \/ To(r, [at |-> "failed"]) \/ To(r, Done)
    BY <1>1, <1>4 DEF ExecDenied, ExecCounts, ExecDropped, Ingest, IngestByToken, Fails,
                      Pushes, JoinFails
  <2>2. QED
    BY <1>2, <2>1, ToTyped, DoneTyped
<1>5. QED
  BY <1>3, <1>4

LEMMA SessionsTyped ==
  ASSUME WebTyped, NEW s \in Sid, NEW u \in Owner, SessionsInsert(s, u),
         UNCHANGED <<pending, tokens>>
  PROVE  WebTyped'
<1>1. Stored' = Stored \cup {s} /\ sess'[s] = u /\ \A x \in Stored \ {s} : sess'[x] = sess[x]
  BY DEF SessionsInsert, Put, Stored
<1>2. QED
  BY <1>1 DEF WebTyped

LEMMA TokensTyped ==
  ASSUME WebTyped, NEW k \in Token, NEW v \in [user : Owner, revoked : BOOLEAN],
         tokens' = Put(tokens, k, v), UNCHANGED <<pending, sess>>
  PROVE  WebTyped'
<1>1. DOMAIN tokens' = DOMAIN tokens \cup {k} /\ tokens'[k] = v
      /\ \A x \in DOMAIN tokens \ {k} : tokens'[x] = tokens[x]
  BY DEF Put
<1>2. QED
  BY <1>1 DEF WebTyped, Stored

LEMMA StillTyped ==
  ASSUME WebTyped, UNCHANGED <<sess, tokens>>, pending' \subseteq OAuthState
  PROVE  WebTyped'
BY DEF WebTyped, Stored

\* What a handler holds where it waits.
LEMMA HeldTyped ==
  ASSUME ReqTyped, NEW r \in Req
  PROVE  /\ req[r].at = "switch" => req[r].sid \in Sid /\ req[r].user \in Owner
         /\ req[r].at = "mint" => req[r].user \in Owner
<1>1. req[r] \in ReqRecord
  BY DEF ReqTyped
<1>2. QED
  BY <1>1 DEF ReqRecord, CallRecord, CallPlaces

LEMMA WebStepTyped ==
  ASSUME ReqTyped, WebTyped, IsRequests(req), WebStep
  PROVE  ReqTyped' /\ WebTyped'
<1>1. ASSUME NEW s \in Sid, Login(s)
      PROVE  ReqTyped' /\ WebTyped'
  <2>1. SessionsInsert(s, "user-dev") /\ "user-dev" \in Owner /\ UNCHANGED <<req, pending, tokens>>
    BY <1>1 DEF Login, Owner
  <2>2. QED
    BY <2>1, SessionsTyped DEF ReqTyped
<1>2. ASSUME NEW s \in Sid, Logout(s)
      PROVE  ReqTyped' /\ WebTyped'
  <2>1. UNCHANGED <<req, pending, tokens>> /\ sess' = [x \in Stored \ {s} |-> sess[x]]
    BY <1>2 DEF Logout, SessionsRemove
  <2>2. QED
    BY <2>1 DEF ReqTyped, WebTyped, Stored
<1>3. ASSUME NEW o \in OAuthState, LogtoStart(o) \/ Expire(o)
      PROVE  ReqTyped' /\ WebTyped'
  <2>1. UNCHANGED <<req, sess, tokens>> /\ pending' \subseteq OAuthState
    BY <1>3 DEF LogtoStart, Expire, WebTyped
  <2>2. QED
    BY <2>1, StillTyped DEF ReqTyped
<1>4. ASSUME NEW r \in Req, NEW o \in OAuthState, CallbackTake(r, o)
      PROVE  ReqTyped' /\ WebTyped'
  <2>1. UNCHANGED <<sess, tokens>> /\ pending' \subseteq OAuthState
    BY <1>4 DEF CallbackTake, WebTyped
  <2>2. [at |-> "exchange", state |-> o] \in ReqRecord
    BY DEF ReqRecord
  <2>3. ReqTyped'
    BY <1>4, <2>2, ToTyped, DoneTyped DEF CallbackTake
  <2>4. QED
    BY <2>1, <2>3, StillTyped
<1>5. ASSUME NEW r \in Req, NEW s \in Sid, NEW u \in User \cup {""}, CallbackFinish(r, s, u)
      PROVE  ReqTyped' /\ WebTyped'
  <2>1. SessionsInsert(s, u) /\ u \in Owner /\ UNCHANGED <<pending, tokens>> /\ To(r, Done)
    BY <1>5 DEF CallbackFinish, Owner
  <2>2. QED
    BY <2>1, SessionsTyped, DoneTyped
<1>6. ASSUME NEW r \in Req, NEW s \in Sid, SwitchRead(r, s)
      PROVE  ReqTyped' /\ WebTyped'
  <2>1. s \in Stored => [at |-> "switch", sid |-> s, user |-> sess[s]] \in ReqRecord
    BY DEF ReqRecord, WebTyped
  <2>2. ReqTyped' /\ UNCHANGED webVars
    BY <1>6, <2>1, RequireTyped DEF SwitchRead, Require
  <2>3. QED
    BY <2>2, StillTyped DEF webVars, WebTyped
<1>7. ASSUME NEW r \in Req, SwitchWrite(r)
      PROVE  ReqTyped' /\ WebTyped'
  <2>1. /\ SessionsInsert(req[r].sid, req[r].user) /\ req[r].at = "switch"
        /\ UNCHANGED <<pending, tokens>> /\ To(r, Done)
    BY <1>7 DEF SwitchWrite
  <2>2. QED
    BY <2>1, HeldTyped, SessionsTyped, DoneTyped
<1>8. ASSUME NEW r \in Req, NEW s \in Sid,
             MintRead(r, s) \/ \E k \in Token : RevokeRead(r, s, k)
      PROVE  ReqTyped' /\ WebTyped'
  <2>1. s \in Stored =>
          /\ [at |-> "mint", user |-> sess[s]] \in ReqRecord
          /\ \A k \in Token : [at |-> "revoke", user |-> sess[s], token |-> k] \in ReqRecord
    BY DEF ReqRecord, WebTyped
  <2>2. PICK x : Require("token", r, s, x) /\ (s \in Stored => x \in ReqRecord)
    BY <1>8, <2>1, ReqPlaces DEF MintRead, RevokeRead
  <2>3. UNCHANGED webVars
    BY <2>2 DEF Require
  <2>4. QED
    BY <2>2, <2>3, RequireTyped, StillTyped DEF webVars, WebTyped
<1>9. ASSUME NEW r \in Req, NEW k \in Token, MintInsert(r, k)
      PROVE  ReqTyped' /\ WebTyped'
  <2> DEFINE v == [user |-> req[r].user, revoked |-> FALSE]
  <2>1. /\ req[r].at = "mint" /\ tokens' = Put(tokens, k, v)
        /\ UNCHANGED <<sess, pending>> /\ To(r, Done)
    BY <1>9 DEF MintInsert
  <2>2. v \in [user : Owner, revoked : BOOLEAN]
    BY <2>1, HeldTyped
  <2> HIDE DEF v
  <2>3. QED
    BY <2>1, <2>2, TokensTyped, DoneTyped
<1>10. ASSUME NEW r \in Req, RevokeWrite(r)
       PROVE  ReqTyped' /\ WebTyped'
  <2> DEFINE k == req[r].token
  <2>1. /\ UNCHANGED <<sess, pending>> /\ To(r, Done)
        /\ \/ UNCHANGED tokens
           \/ k \in DOMAIN tokens /\ tokens' = [tokens EXCEPT ![k].revoked = TRUE]
    BY <1>10 DEF RevokeWrite
  <2> HIDE DEF k
  <2>2. CASE k \in DOMAIN tokens /\ tokens' = [tokens EXCEPT ![k].revoked = TRUE]
    <3>1. /\ DOMAIN tokens' = DOMAIN tokens
          /\ \A x \in DOMAIN tokens : x # k => tokens'[x] = tokens[x]
          /\ tokens'[k] = [tokens[k] EXCEPT !.revoked = TRUE]
      BY <2>2
    <3>2. tokens'[k] \in [user : Owner, revoked : BOOLEAN]
      BY <2>2, <3>1 DEF WebTyped
    <3>3. WebTyped'
      BY <2>1, <3>1, <3>2 DEF WebTyped, Stored
    <3>4. QED
      BY <2>1, <3>3, DoneTyped
  <2>3. CASE UNCHANGED tokens
    BY <2>1, <2>3, StillTyped, DoneTyped DEF WebTyped
  <2>4. QED
    BY <2>1, <2>2, <2>3
<1>11. ASSUME NEW r \in Req, GiveUp(r)
       PROVE  ReqTyped' /\ WebTyped'
  BY <1>11, StillTyped, DoneTyped DEF GiveUp, webVars, WebTyped
<1>12. ASSUME NEW r \in Req,
              \/ \E o \in OAuthState : CallbackTake(r, o)
              \/ \E s \in Sid, u \in User \cup {""} : CallbackFinish(r, s, u)
              \/ \E s \in Sid : SwitchRead(r, s)
       PROVE  ReqTyped' /\ WebTyped'
  BY <1>4, <1>5, <1>6, <1>12
<1>13. ASSUME NEW r \in Req,
              \/ \E s \in Sid : MintRead(r, s)
              \/ \E s \in Sid, k \in Token : RevokeRead(r, s, k)
              \/ \E k \in Token : MintInsert(r, k)
       PROVE  ReqTyped' /\ WebTyped'
  BY <1>8, <1>9, <1>13
<1>14. QED
  BY <1>1, <1>2, <1>3, <1>7, <1>10, <1>11, <1>12, <1>13 DEF WebStep

(* The other handlers hold no permit.                                      *)
LEMMA OtherPermits ==
  ASSUME PermitsOK, UNCHANGED permits, NEW r \in Req, NEW places \in {WebPlaces, RunPlaces},
         Goes(r, places)
  PROVE  PermitsOK'
<1>1. ~Holding(r) /\ ~Holding(r)'
  BY DEF Goes, Holding, WebPlaces, RunPlaces
<1>2. QED
  BY <1>1, PermitsKept DEF Goes, PermitsGo

LEMMA TypesKept ==
  ASSUME TypeInv, CallInv, [ServerNext]_serverVars
  PROVE  TypeInv'
<1>1. ReqTyped /\ IsRequests(req) /\ WebTyped /\ PermitsOK /\ QueueOK
  BY DEF TypeInv, CallInv
<1>2. UNCHANGED setting
  BY DEF ServerNext, Restart, StoresRestart, serverVars
<1>3. CASE UNCHANGED <<req, webVars, llmVars>>
  <2>1. ReqTyped' /\ WebTyped' /\ QueueOK'
    BY <1>1, <1>3, StillTyped DEF ReqTyped, WebTyped, QueueOK, webVars, llmVars, receiptVars
  <2>2. PermitsOK'
    BY <1>1, <1>3 DEF PermitsOK, Holders, Holding, llmVars
  <2>3. QED
    BY <1>2, <2>1, <2>2 DEF TypeInv
<1>4. CASE Web
  <2>1. ReqTyped' /\ WebTyped'
    BY <1>1, <1>4, WebStepTyped DEF Web
  <2>2. QueueOK' /\ UNCHANGED permits
    BY <1>1, <1>4 DEF Web, QueueOK, llmVars, receiptVars
  <2>3. PermitsOK'
    <3>1. CASE UNCHANGED req
      BY <1>1, <2>2, <3>1 DEF PermitsOK, Holders, Holding
    <3>2. CASE \E r \in Req : Goes(r, WebPlaces)
      BY <1>1, <2>2, <3>2, OtherPermits
    <3>3. QED
      BY <1>1, <1>4, <3>1, <3>2, WebGoes DEF Web
  <2>4. QED
    BY <1>2, <2>1, <2>2, <2>3 DEF TypeInv
<1>5. CASE Llm /\ UNCHANGED setting
  BY <1>5, LlmTyped DEF Llm
<1>6. CASE Runs
  <2>1. ReqTyped' /\ UNCHANGED webVars
    BY <1>1, <1>6, RunsTyped DEF Runs
  <2>2. WebTyped'
    BY <1>1, <2>1, StillTyped DEF webVars, WebTyped
  <2>3. QueueOK' /\ UNCHANGED permits
    BY <1>1, <1>6 DEF Runs, QueueOK, llmVars, receiptVars
  <2>4. PermitsOK'
    BY <1>1, <1>6, <2>3, RunsGo, OtherPermits DEF Runs
  <2>5. QED
    BY <1>2, <2>1, <2>2, <2>3, <2>4 DEF TypeInv
<1>7. CASE Restart
  <2>1. /\ req' = [r \in Req |-> IF req[r] = Unused THEN Unused ELSE Done]
        /\ permits' = MaxPermits /\ queue' = <<>> /\ tokens' = tokens
        /\ sess' = sess \/ sess' = <<>>
        /\ pending' \subseteq pending
    BY <1>7 DEF Restart, StoresRestart, LlmRestart, WebRestart
  <2>2. ReqTyped' /\ Holders' = {}
    BY <2>1, ReqPlaces DEF ReqTyped, Holders, Holding, Unused, Done
  <2>3. PermitsOK'
    <3>1. IsFiniteSet({}) /\ Cardinality({}) = 0
      BY FS_EmptySet
    <3>2. QED
      BY <2>1, <2>2, <3>1, LlmAssumption DEF PermitsOK
  <2>4. WebTyped'
    BY <1>1, <2>1 DEF WebTyped, Stored
  <2>5. QueueOK'
    <3>1. <<>> \in Seq(Req) /\ Len(<<>>) = 0 /\ QueueCap \in Nat
      BY LlmAssumption
    <3>2. QED
      BY <2>1, <3>1 DEF QueueOK
  <2>6. QED
    BY <1>2, <2>2, <2>3, <2>4, <2>5 DEF TypeInv
<1>8. QED
  BY <1>2, <1>3, <1>4, <1>5, <1>6, <1>7 DEF ServerNext, Tasks, serverVars

LEMMA TypesStart == ServerInit => TypeInv
<1>1. SUFFICES ASSUME ServerInit PROVE TypeInv
  OBVIOUS
<1>2. /\ setting \in Settings /\ req = [r \in Req |-> Unused]
      /\ sess = <<>> /\ pending = {} /\ tokens = <<>>
      /\ permits = MaxPermits /\ queue = <<>>
  BY <1>1 DEF ServerInit, StoresInit, WebInit, LlmInit
<1>3. setting \in Setting
  BY <1>2, StoresAssumption
<1>4. ReqTyped /\ Holders = {}
  BY <1>2, ReqPlaces DEF ReqTyped, Holders, Holding, Unused
<1>5. WebTyped
  BY <1>2 DEF WebTyped, Stored
<1>6. IsFiniteSet({}) /\ Cardinality({}) = 0
  BY FS_EmptySet
<1>7. PermitsOK
  BY <1>2, <1>4, <1>6, LlmAssumption DEF PermitsOK
<1>8. <<>> \in Seq(Req) /\ Len(<<>>) = 0 /\ QueueCap \in Nat
  BY LlmAssumption
<1>9. QueueOK
  BY <1>2, <1>8 DEF QueueOK
<1>10. QED
  BY <1>3, <1>4, <1>5, <1>7, <1>9 DEF TypeInv

(* The types, with their bounds: a request is at one place of one handler, *)
(* with what that handler holds there; the permits are free or held by a   *)
(* call's task, never lost and never handed out twice; the queue and the   *)
(* rings stay within their caps.                                           *)
THEOREM TypeCorrect == ServerSpec => []ServerTypeOK
<1>1. TypeInv /\ StoresInv => ServerTypeOK
  BY DEF TypeInv, ReqTyped, WebTyped, PermitsOK, Holders, QueueOK, StoresInv, ServerTypeOK
<1>2. QED
  BY <1>1, TypesStart, TypesKept, CallsInit, CallsKept, StoresStart, StoresKept, PTL DEF ServerSpec
-----------------------------------------------------------------------------
(* The tables.  What a trim keeps is within the cap.                       *)
RowsOf(s, rs, v) == {i \in DOMAIN rs : s = "captured" => rs[i].tag = v}

LEMMA CapturedTrimmed ==
  ASSUME NEW S, NEW rs \in Seq(S), NEW v
  PROVE  Covered(RowsOf("captured", Trimmed("captured", rs), v), RingCap)
<1> DEFINE newer(i) == {j \in i + 1 .. Len(rs) : rs[j].tag = rs[i].tag}
           P == {i \in 1 .. Len(rs) : Cardinality(newer(i)) < RingCap}
           Q == {i \in P : rs[i].tag = v}
           k == Trimmed("captured", rs)
           T == RowsOf("captured", k, v)
<1>1. Len(rs) \in Nat /\ RingCap \in Nat \ {0}
  BY StoresAssumption
<1>2. k = Kept(rs, P)
  BY DEF Trimmed
<1>3. P \in SUBSET Nat /\ Q \in SUBSET Nat /\ IsFiniteSet(P) /\ IsFiniteSet(Q)
  <2>1. IsFiniteSet(1 .. Len(rs)) /\ 1 .. Len(rs) \subseteq Nat
    BY <1>1, UpTo
  <2>2. P \in SUBSET (1 .. Len(rs)) /\ Q \in SUBSET (1 .. Len(rs))
    OBVIOUS
  <2> HIDE DEF P, Q
  <2>3. QED
    BY <1>1, <2>1, <2>2, FS_Subset
<1>4. Covered(Q, RingCap)
  <2>1. Cardinality(Q) \in Nat
    BY <1>3, FS_CardinalityType
  <2>2. CASE Cardinality(Q) = 0
    BY <1>1, <1>3, <2>2 DEF Covered
  <2>3. CASE Cardinality(Q) # 0
    <3>1. 1 \in 1 .. Cardinality(Q)
      BY <2>1, <2>3
    <3> HIDE DEF Q
    <3>2. PICK i \in Q : Rank(Q, i) = 1
      BY <1>3, <3>1, RankTaken
    <3>3. ASSUME NEW j \in Q, j # i
          PROVE  i < j
      <4>1. i \in Nat /\ j \in Nat
        BY <1>3
      <4>2. ~(j < i)
        <5>1. Rank(Q, j) \in 1 .. Cardinality(Q) /\ (j < i => Rank(Q, j) < Rank(Q, i))
          BY <1>3, RankGrows
        <5>2. QED
          BY <2>1, <3>2, <5>1
      <4>3. QED
        BY <3>3, <4>1, <4>2
    <3>4. i \in 1 .. Len(rs) /\ Cardinality(newer(i)) < RingCap /\ rs[i].tag = v
      BY DEF Q
    <3>5. \A j \in Q : j \in 1 .. Len(rs) /\ rs[j].tag = v
      BY DEF Q
    <3> DEFINE N == newer(i)
    <3>6. Q \subseteq N \cup {i}
      <4>1. \A j \in Q : j # i => j \in i + 1 .. Len(rs)
        BY <1>1, <3>3, <3>4, <3>5
      <4>2. QED
        BY <3>4, <3>5, <4>1
    <3>7. IsFiniteSet(N)
      <4>1. i + 1 \in Int /\ Len(rs) \in Int
        BY <1>1, <3>4
      <4>2. IsFiniteSet(i + 1 .. Len(rs))
        BY <4>1, FS_Interval
      <4>3. N \in SUBSET (i + 1 .. Len(rs))
        OBVIOUS
      <4>4. QED
        BY <4>2, <4>3, FS_Subset
    <3> HIDE DEF N
    <3>8. Cardinality(N) \in Nat
      BY <3>7, FS_CardinalityType
    <3>9. RingCap - 1 \in Nat /\ Covered(N, RingCap - 1)
      BY <1>1, <3>4, <3>7, <3>8 DEF Covered, N
    <3>10. Covered(Q, RingCap - 1 + 1)
      BY <3>6, <3>9, CoveredMore
    <3>11. RingCap - 1 + 1 = RingCap
      BY <1>1
    <3>12. QED
      BY <3>10, <3>11
  <2>4. QED
    BY <2>2, <2>3
<1> HIDE DEF P, k
<1>5. PICK f : IsEnumeration(f, P) /\ Kept(rs, P) = [n \in 1 .. Cardinality(P) |-> rs[f[n]]]
  BY <1>3, KeptEntries
<1> DEFINE g == [n \in T |-> f[n]]
<1>6. g \in Injection(T, Q)
  <2>1. T \subseteq 1 .. Cardinality(P) /\ \A n \in T : rs[f[n]].tag = v
    BY <1>2, <1>5 DEF RowsOf
  <2>2. \A n \in T : f[n] \in P
    BY <1>5, <2>1 DEF IsEnumeration
  <2>3. g \in [T -> Q]
    BY <2>1, <2>2
  <2>4. \A m, n \in T : g[m] = g[n] => m = n
    BY <1>5, <2>1 DEF IsEnumeration
  <2> HIDE DEF g
  <2>5. QED
    BY <2>3, <2>4 DEF Injection, IsInjective
<1> HIDE DEF g, Q, T
<1>7. IsFiniteSet(T) /\ Cardinality(T) <= Cardinality(Q)
  BY <1>3, <1>6, FS_Injection
<1>8. Cardinality(T) \in Nat /\ Cardinality(Q) \in Nat
  BY <1>3, <1>7, FS_CardinalityType
<1>9. Covered(T, RingCap)
  BY <1>1, <1>4, <1>7, <1>8 DEF Covered
<1>10. QED
  BY <1>9 DEF T, k

LEMMA TrimmedWithin ==
  ASSUME NEW s, NEW S, NEW rs \in Seq(S), NEW v
  PROVE  Covered(RowsOf(s, Trimmed(s, rs), v), RingCap)
<1>1. CASE s = "captured"
  BY <1>1, CapturedTrimmed
<1>2. CASE s # "captured"
  <2> DEFINE n == Newest(rs)
  <2>1. n \in Seq(S) /\ Len(n) <= RingCap /\ Trimmed(s, rs) = n
    BY <1>2, NewestOf DEF Trimmed
  <2> HIDE DEF n
  <2>2. DOMAIN n = 1 .. Len(n) /\ Len(n) \in Nat /\ RingCap \in Nat
    BY <2>1, StoresAssumption
  <2>3. IsFiniteSet(1 .. Len(n)) /\ Cardinality(1 .. Len(n)) = Len(n)
    BY <2>2, UpTo
  <2>4. RowsOf(s, n, v) = 1 .. Len(n)
    BY <1>2, <2>2 DEF RowsOf
  <2>5. Covered(1 .. Len(n), RingCap)
    BY <2>1, <2>2, <2>3 DEF Covered
  <2>6. QED
    BY <2>1, <2>4, <2>5
<1>3. QED
  BY <1>1, <1>2
(* A request has one row to push to a store, and has pushed it from here on. *)
PastOf(s, q) ==
  \/ s = "recent" /\ Past(q)
  \/ s = "captured" /\ q \in Req
     /\ (req[q].at \in {"release", "closed", "done"} \/ (req[q].at = "receipt" /\ req[q].stream))
  \/ s = "sandbox" /\ q \in Req /\ req[q].at = "done"

Trims(s) == {u \in tasks : u.store = s /\ u.step = "trim"}

Bound(s) == RingCap + torn[s] + Cardinality(Trims(s))

Within(s, v) == Covered(Sharing(s, v), Bound(s))

\* One task per row, so that every row over the cap has a trim of its own.
TasksOnce ==
  /\ IsFiniteSet(tasks)
  /\ \A u \in tasks : PastOf(u.store, u.row.id)
  /\ \A u, v \in tasks : u.store = v.store /\ u.row = v.row => u = v

TableInv ==
  /\ TasksOnce
  /\ \A s \in Store : torn[s] \in Nat
  /\ \A s \in Store : \A v : Within(s, v)

LEMMA PastOfLlm ==
  ASSUME CallInv, LlmStep, NEW s, NEW q, PastOf(s, q)
  PROVE  PastOf(s, q)'
<1>1. q \in Req /\ IsRequests(req) /\ CallOK(q)
  BY DEF Past, PastOf, CallInv
<1>2. CASE req'[q] = req[q]
  BY <1>2 DEF Past, PastOf
<1>3. CASE s = "recent"
  BY <1>3, PastLlm DEF PastOf
<1>4. CASE s # "recent" /\ req'[q] # req[q]
  <2>1. Goes(q, LlmPlaces)
    BY <1>1, <1>4, LlmGoes DEF Goes
  <2>2. /\ s = "captured"
        /\ req[q].at \in {"release", "closed"} \/ (req[q].at = "receipt" /\ req[q].stream)
        /\ "stream" \in DOMAIN req[q]
    BY <1>1, <1>4, <2>1 DEF PastOf, Goes, LlmPlaces, CallPlaces, CallOK
  <2>3. Flows(q)
    BY <1>1, <1>4, <2>2, CallFlows
  <2>4. QED
    BY <1>1, <2>2, <2>3 DEF PastOf, Flows, MovesTo
<1>5. QED
  BY <1>2, <1>3, <1>4

LEMMA PastOfKept ==
  ASSUME CallInv, [ServerNext]_serverVars
  PROVE  \A s, q : PastOf(s, q) => PastOf(s, q)'
<1>1. CASE Llm
  BY <1>1, PastOfLlm DEF Llm
<1>2. CASE Restart
  <2>1. req' = [r \in Req |-> IF req[r] = Unused THEN Unused ELSE Done]
    BY <1>2 DEF Restart, StoresRestart
  <2>2. \A q \in Req : req[q].at # "unused" => req'[q].at = "done"
    BY <2>1 DEF Unused, Done
  <2>3. \A q : Past(q) => Past(q)'
    BY PastKept
  <2>4. QED
    BY <2>2, <2>3 DEF PastOf
<1>3. CASE UNCHANGED req
  BY <1>3 DEF PastOf, Past
<1>4. CASE \E r \in Req, places \in {WebPlaces, RunPlaces} : Goes(r, places)
  <2>1. PICK r \in Req, places \in {WebPlaces, RunPlaces} : Goes(r, places)
    BY <1>4
  <2>2. /\ \A q \in Req : q # r => req'[q] = req[q]
        /\ req[r].at \in {"unused", "exchange", "switch", "mint", "revoke", "exec", "counted", "failed"}
    BY <2>1 DEF Goes, WebPlaces, RunPlaces
  <2>3. \A q : Past(q) => Past(q)'
    BY PastKept
  <2>4. QED
    BY <2>2, <2>3 DEF PastOf
<1>5. QED
  BY <1>1, <1>2, <1>3, <1>4, WebGoes, RunsGo DEF ServerNext, Tasks, Web, Runs, serverVars, CallInv

(* A push adds one task, with a row of its own.                            *)
LEMMA PushOnce ==
  ASSUME TasksOnce, \A x, q : PastOf(x, q) => PastOf(x, q)',
         NEW s, NEW row, Push(s, row), ~PastOf(s, row.id), PastOf(s, row.id)'
  PROVE  TasksOnce' /\ \A x : Trims(x)' = Trims(x)
<1> DEFINE t == [store |-> s, row |-> row, step |-> "insert"]
<1>1. tasks' = tasks \/ tasks' = tasks \cup {t}
  BY DEF Push
<1>2. t.store = s /\ t.row = row /\ t.step = "insert"
  OBVIOUS
<1> HIDE DEF t
<1>3. \A u \in tasks : ~(u.store = s /\ u.row = row)
  BY DEF TasksOnce
<1>4. IsFiniteSet(tasks \cup {t}) /\ IsFiniteSet(tasks)
  BY FS_AddElement DEF TasksOnce
<1>5. TasksOnce'
  BY <1>1, <1>2, <1>3, <1>4 DEF TasksOnce
<1>6. ASSUME NEW x
      PROVE  Trims(x)' = Trims(x)
  BY <1>1, <1>2 DEF Trims
<1>7. QED
  BY <1>5, <1>6

(* A task that goes on with its row.                                       *)
LEMMA MovesOnce ==
  ASSUME TasksOnce, \A u \in tasks : IsTask(u), \A x, q : PastOf(x, q) => PastOf(x, q)',
         NEW t \in tasks, TaskMoves(t)
  PROVE  TasksOnce'
<1>1. \A v \in tasks' :
        /\ (v \in tasks /\ v # t) \/ (v.store = t.store /\ v.row = t.row)
        /\ \A w \in tasks' : {v, w} \cap (tasks \ {t}) = {} => v = w
  BY TasksKept
<1>2. IsFiniteSet(tasks')
  <2>1. IsFiniteSet(tasks \ {t})
    BY FS_RemoveElement DEF TasksOnce
  <2>2. PICK u : /\ tasks' = (tasks \ {t}) \cup u
                 /\ u = {} \/ u = {[t EXCEPT !.step = "trim"]}
                           \/ (t.store = "recent" /\ u = {[t EXCEPT !.step = "enqueue"]})
    BY DEF TaskMoves
  <2>3. tasks' = tasks \ {t} \/ \E x : tasks' = (tasks \ {t}) \cup {x}
    BY <2>2
  <2>4. QED
    BY <2>1, <2>3, FS_AddElement
<1>3. \A v \in tasks' : PastOf(v.store, v.row.id)'
  BY <1>1 DEF TasksOnce
<1>4. ASSUME NEW v \in tasks', NEW w \in tasks', v.store = w.store, v.row = w.row
      PROVE  v = w
  <2>1. CASE v \in tasks \ {t} /\ w \in tasks \ {t}
    BY <1>4, <2>1 DEF TasksOnce
  <2>2. CASE v \notin tasks \ {t} /\ w \notin tasks \ {t}
    BY <1>1, <2>2
  <2>3. CASE v \in tasks \ {t} /\ w \notin tasks \ {t}
    <3>1. w.store = t.store /\ w.row = t.row
      BY <1>1, <2>3
    <3>2. v = t
      BY <1>4, <2>3, <3>1 DEF TasksOnce
    <3>3. QED
      BY <2>3, <3>2
  <2>4. CASE v \notin tasks \ {t} /\ w \in tasks \ {t}
    <3>1. v.store = t.store /\ v.row = t.row
      BY <1>1, <2>4
    <3>2. w = t
      BY <1>4, <2>4, <3>1 DEF TasksOnce
    <3>3. QED
      BY <2>4, <3>2
  <2>5. QED
    BY <2>1, <2>2, <2>3, <2>4
<1>5. QED
  BY <1>2, <1>3, <1>4 DEF TasksOnce

LEMMA FewerOnce ==
  ASSUME TasksOnce, \A x, q : PastOf(x, q) => PastOf(x, q)', tasks' \subseteq tasks
  PROVE  TasksOnce'
<1>1. IsFiniteSet(tasks')
  BY FS_Subset DEF TasksOnce
<1>2. QED
  BY <1>1 DEF TasksOnce

LEMMA CoveredUp ==
  ASSUME NEW S, NEW n \in Nat, Covered(S, n), NEW m \in Nat, n <= m
  PROVE  Covered(S, m)
<1>1. Cardinality(S) \in Nat
  BY FS_CardinalityType DEF Covered
<1>2. QED
  BY <1>1 DEF Covered

(* The bound of a table counts its trims, those to come and those torn.    *)
LEMMA BoundType ==
  ASSUME IsFiniteSet(tasks), NEW s, torn[s] \in Nat
  PROVE  /\ IsFiniteSet(Trims(s)) /\ Cardinality(Trims(s)) \in Nat
         /\ RingCap \in Nat /\ Bound(s) \in Nat
<1>1. Trims(s) \in SUBSET tasks
  BY DEF Trims
<1>2. IsFiniteSet(Trims(s)) /\ Cardinality(Trims(s)) \in Nat
  BY <1>1, FS_Subset, FS_CardinalityType
<1>3. RingCap \in Nat
  BY StoresAssumption
<1>4. \A c \in Nat : \A m \in Nat : RingCap + c + m \in Nat
  BY <1>3
<1>5. QED
  BY <1>2, <1>3, <1>4 DEF Bound

(* A table that stays is within its bound if that has not shrunk.          *)
LEMMA BoundStays ==
  ASSUME TableInv, NEW s \in Store, table'[s] = table[s],
         Bound(s)' \in Nat, Bound(s) <= Bound(s)'
  PROVE  \A v : Within(s, v)'
<1>1. Bound(s) \in Nat
  BY BoundType DEF TableInv, TasksOnce
<1>2. ASSUME NEW v
      PROVE  Within(s, v)'
  <2>1. Sharing(s, v)' = Sharing(s, v) /\ Covered(Sharing(s, v), Bound(s))
    BY DEF Sharing, TableInv, Within
  <2>2. Covered(Sharing(s, v), Bound(s)')
    BY <1>1, <2>1, CoveredUp
  <2>3. QED
    BY <2>1, <2>2 DEF Within, Covered
<1>3. QED
  BY <1>2

(* One that has a row more is, if its bound has grown by one.              *)
LEMMA BoundGrows ==
  ASSUME TableInv, NEW s \in Store, NEW S, table[s] \in Seq(S),
         NEW row, table'[s] = Append(table[s], row), Bound(s)' = Bound(s) + 1
  PROVE  \A v : Within(s, v)'
<1>1. Bound(s) \in Nat
  BY BoundType DEF TableInv, TasksOnce
<1> DEFINE rs == table[s]
           a == Append(rs, row)
           n == Len(rs) + 1
<1>2. DOMAIN a = DOMAIN rs \cup {n} /\ \A i \in DOMAIN rs : a[i] = rs[i]
  OBVIOUS
<1>3. ASSUME NEW v
      PROVE  Within(s, v)'
  <2>1. Sharing(s, v)' \subseteq Sharing(s, v) \cup {n}
    <3>1. Sharing(s, v)' = {i \in DOMAIN a : s = "captured" => a[i].tag = v}
      BY DEF Sharing
    <3>2. Sharing(s, v) = {i \in DOMAIN rs : s = "captured" => rs[i].tag = v}
      BY DEF Sharing
    <3> HIDE DEF a, n, rs
    <3>3. QED
      BY <1>2, <3>1, <3>2
  <2>2. Covered(Sharing(s, v), Bound(s))
    BY DEF TableInv, Within
  <2> HIDE DEF n, a, rs
  <2>3. Covered(Sharing(s, v)', Bound(s) + 1)
    BY <1>1, <2>1, <2>2, CoveredMore
  <2>4. QED
    BY <2>3 DEF Within, Covered
<1>4. QED
  BY <1>3

(* A table that stays, with the trims that stood against it.               *)
LEMMA WithinStays ==
  ASSUME TableInv, IsFiniteSet(tasks'), NEW s \in Store,
         table'[s] = table[s], torn'[s] = torn[s], Trims(s) \subseteq Trims(s)'
  PROVE  torn'[s] \in Nat /\ \A v : Within(s, v)'
<1>1. torn[s] \in Nat /\ IsFiniteSet(tasks)
  BY DEF TableInv, TasksOnce
<1>2. IsFiniteSet(Trims(s)')
  <2>1. Trims(s)' \in SUBSET tasks'
    BY DEF Trims
  <2>2. QED
    BY <2>1, FS_Subset
<1>3. Trims(s) \in SUBSET Trims(s)'
  OBVIOUS
<1>4. Cardinality(Trims(s)) <= Cardinality(Trims(s)') /\ Cardinality(Trims(s)') \in Nat
  BY <1>2, <1>3, FS_Subset, FS_CardinalityType
<1>5. Cardinality(Trims(s)) \in Nat /\ RingCap \in Nat
  BY <1>1, BoundType
<1>6. \A c, m, n \in Nat : m <= n => RingCap + c + m <= RingCap + c + n /\ RingCap + c + n \in Nat
  BY <1>5
<1>7. Bound(s)' \in Nat /\ Bound(s) <= Bound(s)'
  BY <1>1, <1>4, <1>5, <1>6 DEF Bound
<1>8. QED
  BY <1>1, <1>7, BoundStays

LEMMA TaskTables ==
  ASSUME StoresInv, TableInv, NEW t \in tasks, IsFiniteSet(tasks'),
         TaskFails(t) \/ TaskInserts(t) \/ TaskTrims(t) \/ TaskTrimFails(t)
  PROVE  \A s \in Store : torn'[s] \in Nat /\ \A v : Within(s, v)'
<1>1. IsTask(t) /\ t.store \in Store
  BY DEF StoresInv, IsTask
<1>2. /\ t = [store |-> t.store, row |-> t.row, step |-> t.step]
      /\ table = [s \in Store |-> table[s]] /\ torn = [s \in Store |-> torn[s]]
  BY <1>1 DEF IsTask, StoresInv
<1>3. ASSUME NEW s \in Store, s # t.store
      PROVE  torn'[s] \in Nat /\ \A v : Within(s, v)'
  <2>1. table'[s] = table[s] /\ torn'[s] = torn[s]
    BY <1>2, <1>3 DEF TaskFails, TaskInserts, TaskTrims, TaskTrimFails
  <2>2. tasks \ {t} \subseteq tasks'
    BY DEF TaskFails, TaskInserts, TaskTrims, TaskTrimFails, AfterTrim
  <2>3. Trims(s) \subseteq Trims(s)'
    BY <1>3, <2>2 DEF Trims
  <2>4. QED
    BY <2>1, <2>3, WithinStays
<1> DEFINE s == t.store
           rs == table[s]
<1>4. /\ torn[s] \in Nat /\ IsFiniteSet(tasks) /\ rs \in Seq(Range(rs))
      /\ IsFiniteSet(Trims(s)) /\ Cardinality(Trims(s)) \in Nat /\ RingCap \in Nat
  BY <1>1, BoundType DEF StoresInv, TableInv, TasksOnce
<1>5. \A c, m \in Nat : /\ RingCap + c + (m + 1) = RingCap + c + m + 1
                        /\ RingCap + (c + 1) + m = RingCap + c + m + 1
                        /\ m # 0 => RingCap + (c + 1) + (m - 1) = RingCap + c + m
                        /\ c + 1 \in Nat
  BY <1>4
<1>6. CASE UNCHANGED <<table, torn>> /\ t.step = "insert" /\ tasks \ {t} \subseteq tasks'
  <2>1. Trims(s) \subseteq Trims(s)'
    BY <1>6 DEF Trims
  <2>2. torn'[s] \in Nat /\ \A v : Within(s, v)'
    BY <1>1, <1>6, <2>1, WithinStays
  <2>3. QED
    BY <1>3, <2>2
<1>7. CASE /\ t.step = "insert" /\ table'[s] = Append(rs, t.row) /\ torn' = torn
           /\ tasks' = (tasks \ {t}) \cup {[t EXCEPT !.step = "trim"]}
  <2> DEFINE u == [t EXCEPT !.step = "trim"]
  <2>1. u.store = s /\ u.row = t.row /\ u.step = "trim"
    BY <1>2
  <2>2. u \notin tasks
    BY <1>7, <2>1 DEF TableInv, TasksOnce
  <2>3. tasks' = (tasks \ {t}) \cup {u}
    BY <1>7
  <2> HIDE DEF u
  <2>4. Trims(s)' = Trims(s) \cup {u} /\ u \notin Trims(s)
    BY <1>7, <2>1, <2>2, <2>3 DEF Trims
  <2>5. Cardinality(Trims(s)') = Cardinality(Trims(s)) + 1
    BY <1>4, <2>4, FS_AddElement
  <2>6. PICK c \in Nat, m \in Nat : c = torn[s] /\ m = Cardinality(Trims(s))
    BY <1>4
  <2>7. Bound(s) = RingCap + c + m /\ Bound(s)' = RingCap + c + (m + 1)
    BY <1>7, <2>5, <2>6 DEF Bound
  <2>8. Bound(s)' = Bound(s) + 1
    BY <1>5, <2>7
  <2>9. torn'[s] \in Nat /\ \A v : Within(s, v)'
    BY <1>1, <1>4, <1>7, <2>8, BoundGrows
  <2>10. QED
    BY <1>3, <2>9
<1>8. CASE /\ t.step = "insert" /\ table'[s] = Append(rs, t.row) /\ torn'[s] = torn[s] + 1
           /\ tasks' = tasks \ {t}
  <2>1. Trims(s)' = Trims(s)
    BY <1>8 DEF Trims
  <2>2. PICK c \in Nat, m \in Nat : c = torn[s] /\ m = Cardinality(Trims(s))
    BY <1>4
  <2>3. Bound(s) = RingCap + c + m /\ Bound(s)' = RingCap + (c + 1) + m
    BY <1>8, <2>1, <2>2 DEF Bound
  <2>4. Bound(s)' = Bound(s) + 1
    BY <1>5, <2>3
  <2>5. torn'[s] \in Nat /\ \A v : Within(s, v)'
    BY <1>1, <1>4, <1>5, <1>8, <2>4, BoundGrows
  <2>6. QED
    BY <1>3, <2>5
<1>9. CASE TaskTrimFails(t)
  <2>1. /\ t.step = "trim" /\ table'[s] = rs /\ torn'[s] = torn[s] + 1
        /\ tasks' = tasks \ {t} \/ tasks' = (tasks \ {t}) \cup {[t EXCEPT !.step = "enqueue"]}
    BY <1>1, <1>2, <1>9 DEF TaskTrimFails, AfterTrim
  <2>2. [t EXCEPT !.step = "enqueue"].step = "enqueue"
    BY <1>2
  <2>3. Trims(s)' = Trims(s) \ {t} /\ t \in Trims(s)
    BY <2>1, <2>2 DEF Trims
  <2>4. Cardinality(Trims(s)') = Cardinality(Trims(s)) - 1 /\ Cardinality(Trims(s)) # 0
    BY <1>4, <2>3, FS_RemoveElement, FS_EmptySet
  <2>5. Bound(s)' = Bound(s) /\ torn'[s] \in Nat
    BY <1>4, <1>5, <2>1, <2>4 DEF Bound
  <2>6. Bound(s) \in Nat
    BY <1>4, BoundType
  <2>7. \A v : Within(s, v)'
    BY <1>1, <2>1, <2>5, <2>6, BoundStays
  <2>8. QED
    BY <1>3, <2>5, <2>7
<1>10. CASE TaskTrims(t)
  <2>1. torn'[s] = 0 /\ table'[s] = Trimmed(s, rs)
    BY <1>1, <1>2, <1>10 DEF TaskTrims
  <2>2. IsFiniteSet(Trims(s)')
    <3>1. Trims(s)' \in SUBSET tasks'
      BY DEF Trims
    <3>2. QED
      BY <3>1, FS_Subset
  <2>3. Cardinality(Trims(s)') \in Nat
    BY <2>2, FS_CardinalityType
  <2>4. \A m \in Nat : RingCap + 0 + m \in Nat /\ RingCap <= RingCap + 0 + m
    BY <1>4
  <2>5. Bound(s)' \in Nat /\ RingCap <= Bound(s)'
    BY <2>1, <2>3, <2>4 DEF Bound
  <2>6. ASSUME NEW v
        PROVE  Within(s, v)'
    <3>1. Sharing(s, v)' = RowsOf(s, Trimmed(s, rs), v)
      BY <2>1 DEF Sharing, RowsOf
    <3>2. Covered(Sharing(s, v)', RingCap)
      BY <1>4, <3>1, TrimmedWithin
    <3>3. Covered(Sharing(s, v)', Bound(s)')
      BY <1>4, <2>5, <3>2, CoveredUp
    <3>4. QED
      BY <3>3 DEF Within, Covered
  <2>7. QED
    BY <1>3, <2>1, <2>6
<1>11. TaskFails(t) \/ TaskInserts(t) =>
         \/ UNCHANGED <<table, torn>> /\ t.step = "insert" /\ tasks \ {t} \subseteq tasks'
         \/ /\ t.step = "insert" /\ table'[s] = Append(rs, t.row) /\ torn' = torn
            /\ tasks' = (tasks \ {t}) \cup {[t EXCEPT !.step = "trim"]}
         \/ /\ t.step = "insert" /\ table'[s] = Append(rs, t.row) /\ torn'[s] = torn[s] + 1
            /\ tasks' = tasks \ {t}
  <2>1. CASE TaskInserts(t)
    BY <1>1, <1>2, <2>1 DEF TaskInserts
  <2>2. CASE TaskFails(t) /\ UNCHANGED <<table, torn>>
    BY <2>2 DEF TaskFails
  <2>3. CASE TaskFails(t) /\ ~UNCHANGED <<table, torn>>
    <3>1. /\ t.step = "insert" /\ table' = [table EXCEPT ![s] = Append(@, t.row)]
          /\ torn' = [torn EXCEPT ![s] = IF s = "recent" THEN @ ELSE @ + 1]
          /\ tasks' = (tasks \ {t}) \cup
                      (IF s = "recent" THEN {[t EXCEPT !.step = "trim"]} ELSE {})
      BY <2>3 DEF TaskFails
    <3>2. table'[s] = Append(rs, t.row)
      BY <1>1, <1>2, <3>1
    <3>3. CASE s = "recent"
      <4>1. torn' = torn
        BY <1>1, <1>2, <3>1, <3>3
      <4>2. QED
        BY <3>1, <3>2, <3>3, <4>1
    <3>4. CASE s # "recent"
      <4>1. torn'[s] = torn[s] + 1
        BY <1>1, <1>2, <3>1, <3>4
      <4>2. QED
        BY <3>1, <3>2, <3>4, <4>1
    <3>5. QED
      BY <3>3, <3>4
  <2>4. QED
    BY <2>1, <2>2, <2>3
<1>12. QED
  BY <1>6, <1>7, <1>8, <1>9, <1>10, <1>11

(* Tasks stay, end without a trim due, or are joined by one.               *)
LEMMA OtherTables ==
  ASSUME TableInv, TasksOnce', UNCHANGED <<table, torn>>,
         \A s \in Store : Trims(s) \subseteq Trims(s)'
  PROVE  TableInv'
<1>1. IsFiniteSet(tasks')
  BY DEF TasksOnce
<1>2. \A s \in Store : torn'[s] \in Nat /\ \A v : Within(s, v)'
  BY <1>1, WithinStays
<1>3. QED
  BY <1>2 DEF TableInv

(* A restart: what was to be trimmed is counted as torn.                   *)
LEMMA RestartTables ==
  ASSUME StoresInv, TableInv, StoresRestart
  PROVE  TableInv'
<1>1. tasks' = {} /\ table' = table
  BY DEF StoresRestart
<1>2. TasksOnce'
  <2>1. IsFiniteSet({})
    BY FS_EmptySet
  <2>2. QED
    BY <1>1, <2>1 DEF TasksOnce
<1>3. ASSUME NEW s \in Store
      PROVE  torn'[s] \in Nat /\ \A v : Within(s, v)'
  <2>1. torn'[s] = torn[s] + Cardinality(Trims(s))
    BY DEF StoresRestart, Trims
  <2>2. IsFiniteSet(Trims(s))
    <3>1. Trims(s) \in SUBSET tasks
      BY DEF Trims
    <3>2. QED
      BY <3>1, FS_Subset DEF TableInv, TasksOnce
  <2>3. Cardinality(Trims(s)) \in Nat /\ torn[s] \in Nat /\ RingCap \in Nat
    BY <2>2, FS_CardinalityType, StoresAssumption DEF TableInv
  <2>4. Trims(s)' = {}
    BY <1>1 DEF Trims
  <2>5. Cardinality(Trims(s)') = 0
    BY <2>4, FS_EmptySet
  <2>6. \A c, m \in Nat : RingCap + (c + m) + 0 = RingCap + c + m /\ c + m \in Nat
    BY <2>3
  <2>7. Bound(s)' = Bound(s) /\ torn'[s] \in Nat
    BY <2>1, <2>3, <2>5, <2>6 DEF Bound
  <2>8. Bound(s) \in Nat
    BY <2>3, BoundType DEF TableInv, TasksOnce
  <2>9. QED
    BY <1>1, <2>7, <2>8, BoundStays
<1>4. QED
  BY <1>2, <1>3 DEF TableInv

LEMMA LlmTables ==
  ASSUME CallInv, TableInv, LlmStep, \A x, q : PastOf(x, q) => PastOf(x, q)'
  PROVE  TableInv'
<1>1. IsRequests(req)
  BY DEF CallInv
<1>2. CASE UNCHANGED storeVars
  <2>1. TasksOnce' /\ \A x : Trims(x)' = Trims(x)
    BY <1>2, FewerOnce DEF TableInv, storeVars, Trims
  <2>2. QED
    BY <1>2, <2>1, OtherTables DEF storeVars
<1>3. ASSUME NEW t \in tasks, TaskEnqueues(t)
      PROVE  TableInv'
  <2>1. tasks' = tasks \ {t} /\ t.step = "enqueue" /\ UNCHANGED <<table, torn>>
    BY <1>3 DEF TaskEnqueues
  <2>2. TasksOnce' /\ \A x : Trims(x) \subseteq Trims(x)'
    BY <2>1, FewerOnce DEF TableInv, Trims
  <2>3. QED
    BY <2>1, <2>2, OtherTables
<1>4. ASSUME NEW r \in Req, PushReceipt(r)
      PROVE  TableInv'
  <2>1. /\ req[r].at = "receipt" /\ Push("recent", CallRow(r)) /\ UNCHANGED <<table, torn>>
        /\ With(r, [at |-> IF req[r].stream THEN "release" ELSE "capture"])
    BY <1>4 DEF PushReceipt
  <2>2. CallRow(r).id = r /\ "stream" \in DOMAIN req[r]
    BY <2>1 DEF CallRow, CallInv, CallOK, CallPlaces
  <2>3. MovesTo(r, IF req[r].stream THEN "release" ELSE "capture")
    BY <1>1, <2>1, CallMoves
  <2>4. ~PastOf("recent", r) /\ PastOf("recent", r)'
    BY <2>1, <2>2, <2>3 DEF PastOf, Past, BehindReceipt, MovesTo
  <2>5. TasksOnce' /\ \A x : Trims(x)' = Trims(x)
    BY <2>1, <2>2, <2>4, PushOnce DEF TableInv
  <2>6. QED
    BY <2>1, <2>5, OtherTables
<1>5. ASSUME NEW r \in Req, PushCaptured(r), ~UNCHANGED storeVars
      PROVE  TableInv'
  <2>1. /\ req[r].at = "capture" /\ Push("captured", CallRow(r)) /\ UNCHANGED <<table, torn>>
        /\ req[r].stream => With(r, [at |-> "receipt"])
        /\ ~req[r].stream => With(r, [at |-> "closed", client |-> "answered"])
    BY <1>5 DEF PushCaptured, storeVars
  <2>2. CallRow(r).id = r /\ "stream" \in DOMAIN req[r]
    BY <2>1 DEF CallRow, CallInv, CallOK, CallPlaces
  <2>3. MovesTo(r, IF req[r].stream THEN "receipt" ELSE "closed")
    BY <1>1, <2>1, CallMoves
  <2>4. ~PastOf("captured", r) /\ PastOf("captured", r)'
    BY <2>1, <2>2, <2>3 DEF PastOf, MovesTo
  <2>5. TasksOnce' /\ \A x : Trims(x)' = Trims(x)
    BY <2>1, <2>2, <2>4, PushOnce DEF TableInv
  <2>6. QED
    BY <2>1, <2>5, OtherTables
<1>6. QED
  BY <1>2, <1>3, <1>4, <1>5 DEF LlmStep, TaskStep, HandlerStep, Arrive, Refuse, Admit, SendFails, StreamHead,
                Chunk, SendChunk, UpstreamEnds, Flush, Release, BufferedReturns, Resume,
                ClientReads, Leave, ViewRead, ViewShow, DrainMemory, Claim, Commit, Rollback

LEMMA RunsTables ==
  ASSUME CallInv, TableInv, RunsStep, \A x, q : PastOf(x, q) => PastOf(x, q)'
  PROVE  TableInv'
<1>1. CASE UNCHANGED storeVars
  <2>1. TasksOnce' /\ \A x : Trims(x)' = Trims(x)
    BY <1>1, FewerOnce DEF TableInv, storeVars, Trims
  <2>2. QED
    BY <1>1, <2>1, OtherTables DEF storeVars
<1>2. ASSUME NEW r \in Req, NEW o, Push("sandbox", Run(r, o)), req[r].at # "done", To(r, Done),
             UNCHANGED <<table, torn>>
      PROVE  TableInv'
  <2>1. Run(r, o).id = r
    BY DEF Run
  <2>2. req'[r].at = "done"
    BY <1>2, ToMoves DEF CallInv, Done
  <2>3. ~PastOf("sandbox", r) /\ PastOf("sandbox", r)'
    BY <1>2, <2>2 DEF PastOf
  <2>4. TasksOnce' /\ \A x : Trims(x)' = Trims(x)
    BY <1>2, <2>1, <2>3, PushOnce DEF TableInv
  <2>5. QED
    BY <1>2, <2>4, OtherTables
<1>3. CASE \E r \in Req : ExecDenied(r) \/ Pushes(r)
  <2>1. PICK r \in Req : ExecDenied(r) \/ Pushes(r)
    BY <1>3
  <2>2. /\ \E o : Push("sandbox", Run(r, o))
        /\ req[r].at # "done" /\ To(r, Done) /\ UNCHANGED <<table, torn>>
    BY <2>1 DEF ExecDenied, Pushes
  <2>3. QED
    BY <1>2, <2>2
<1>4. QED
  BY <1>1, <1>3 DEF RunsStep, ExecStart, ExecCounts, ExecDropped, Ingest, IngestByToken, Fails,
                    JoinFails

LEMMA TablesKept ==
  ASSUME CallInv, StoresInv, TableInv, [ServerNext]_serverVars
  PROVE  TableInv'
<1>1. \A x, q : PastOf(x, q) => PastOf(x, q)'
  BY PastOfKept
<1>2. CASE UNCHANGED storeVars
  <2>1. TasksOnce' /\ \A x : Trims(x)' = Trims(x)
    BY <1>1, <1>2, FewerOnce DEF TableInv, storeVars, Trims
  <2>2. QED
    BY <1>2, <2>1, OtherTables DEF storeVars
<1>3. CASE Tasks
  <2>1. PICK t \in tasks : TaskFails(t) \/ TaskInserts(t) \/ TaskTrims(t) \/ TaskTrimFails(t)
    BY <1>3 DEF Tasks
  <2>2. TasksOnce'
    BY <1>1, <2>1, TasksMove, MovesOnce DEF StoresInv, TableInv
  <2>3. QED
    BY <2>1, <2>2, TaskTables DEF TableInv, TasksOnce
<1>4. CASE Llm \/ Runs
  BY <1>1, <1>4, LlmTables, RunsTables DEF Llm, Runs
<1>5. CASE Restart
  BY <1>5, RestartTables DEF Restart
<1>6. QED
  BY <1>2, <1>3, <1>4, <1>5 DEF ServerNext, Web, serverVars

LEMMA TablesStart == ServerInit => TableInv
<1>1. SUFFICES ASSUME ServerInit PROVE TableInv
  OBVIOUS
<1>2. /\ table = [s \in Store |-> <<>>] /\ torn = [s \in Store |-> 0] /\ tasks = {}
  BY <1>1 DEF ServerInit, StoresInit
<1>3. IsFiniteSet({}) /\ Cardinality({}) = 0
  BY FS_EmptySet
<1>4. TasksOnce
  BY <1>2, <1>3 DEF TasksOnce
<1>5. ASSUME NEW s \in Store, NEW v
      PROVE  Within(s, v)
  <2>1. Sharing(s, v) = {} /\ Trims(s) = {} /\ torn[s] = 0
    BY <1>2 DEF Sharing, Trims
  <2>2. RingCap + 0 + 0 \in Nat
    BY StoresAssumption
  <2>3. QED
    BY <1>3, <2>1, <2>2, CoveredEmpty DEF Within, Bound
<1>6. QED
  BY <1>2, <1>4, <1>5 DEF TableInv

(* A table outgrows its cap only by as many rows as trims are still to     *)
(* come, or failed or were cut off since the last that worked: for any cap, *)
(* any number of calls and runs, every order in which their tasks insert   *)
(* and trim, and whichever of their statements fail.                       *)
THEOREM TablesCorrect == ServerSpec => []TablesTrimmed
<1>1. TableInv => TablesTrimmed
  BY DEF TableInv, Within, Bound, Covered, Trims, TablesTrimmed
<1>2. QED
  BY <1>1, TablesStart, TablesKept, CallsInit, CallsKept, StoresStart, StoresKept, PTL
     DEF ServerSpec
=============================================================================
