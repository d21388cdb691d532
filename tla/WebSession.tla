----------------------------- MODULE WebSession -----------------------------
(***************************************************************************)
(* Browser sessions, sign-in over OAuth and the tokens of the command      *)
(* line.  Sessions are in PostgreSQL or, without it, in memory; pending    *)
(* OAuth states are in Redis or in memory.  A handler's read and its later *)
(* write are separate steps; single statements are atomic.  Of a session   *)
(* only its user is kept: the tenant it shows changes nothing else.        *)
(***************************************************************************)
EXTENDS ServerStores

CONSTANTS
  Sid,          \* session ids new_session_id draws: random, never repeated
  OAuthState,   \* states logto_random_state draws; each stands for its verifier too
  Token,        \* tokens handle_cli_token_mint draws
  User          \* subjects of the id tokens Logto issues

\* user_id: "" of a session whose id token had no subject, and the owner of a
\* call that came without a valid token.
Owner == User \cup {"user-dev", ""}

VARIABLES
  sess,         \* stored sessions: the user of every stored id
  pending,      \* OAuth states put and neither taken nor expired
  tokens,       \* cli_tokens: a function from the minted tokens
  drawn,        \* ids and states drawn so far (history)
  gone,         \* removed session id -> the switches that had read it by then (history)
  loginOf       \* session id -> the OAuth state it came from (history)

webVars == <<sess, pending, tokens, drawn, gone, loginOf>>

Stored == DOMAIN sess

SessionsInsert(s, session) == sess' = Put(sess, s, session)

SessionsRemove(s) == sess' = [x \in Stored \ {s} |-> sess[x]]

\* A request moves on or ends.
To(r, record) == req' = [req EXCEPT ![r] = record]

\* handle_login, and handle_setup on a server that needs it.  When the insert
\* fails the answer carries no cookie and nothing has changed.
Login(s) ==
  /\ Served("login")
  /\ s \notin drawn
  /\ SessionsInsert(s, "user-dev")
  /\ drawn' = drawn \cup {s}
  /\ UNCHANGED <<req, pending, tokens, gone, loginOf>>

\* handle_logto_start: oauth_state_put.
LogtoStart(o) ==
  /\ Served("logto")
  /\ o \notin drawn
  /\ drawn' = drawn \cup {o}
  /\ pending' = pending \cup {o}
  /\ UNCHANGED <<req, sess, tokens, gone, loginOf>>

\* LOGTO_PENDING_TTL_SECS have passed.
Expire(o) ==
  /\ o \in pending
  /\ pending' = pending \ {o}
  /\ UNCHANGED <<req, sess, tokens, drawn, gone, loginOf>>

\* Mutant: the state is read and not removed.
CallbackTake_Keeps(r, o) ==
  /\ Routed(r, "logto")
  /\ o \in drawn
  /\ To(r, IF o \in pending THEN [at |-> "exchange", state |-> o] ELSE Done)
  /\ UNCHANGED webVars

\* handle_logto_callback: oauth_state_take reads and removes; a state that is
\* not pending is answered with 400, an error of Redis with 503, the state taken
\* or not.  Any browser may come with any state drawn.
CallbackTake(r, o) ==
  /\ Routed(r, "logto")
  /\ o \in drawn
  /\ \/ /\ o \in pending
        /\ pending' = pending \ {o}
        /\ To(r, [at |-> "exchange", state |-> o])
     \/ /\ pending' \in {pending} \cup (IF redis THEN {pending \ {o}} ELSE {})
        /\ o \notin pending \/ redis
        /\ To(r, Done)
  /\ UNCHANGED <<sess, tokens, drawn, gone, loginOf>>

\* The code has been exchanged for an id token; its subject gets a session.
CallbackFinish(r, s, u) ==
  /\ req[r].at = "exchange"
  /\ s \notin drawn
  /\ SessionsInsert(s, u)
  /\ drawn' = drawn \cup {s}
  /\ loginOf' = Put(loginOf, s, req[r].state)
  /\ To(r, Done)
  /\ UNCHANGED <<pending, tokens, gone>>

\* The handler of r gives up: the exchange or a statement failed, or the client
\* has left and the handler is dropped where it waits.
GiveUp(r) ==
  /\ req[r].at \in {"exchange", "switch", "mint", "revoke"}
  /\ To(r, Done)
  /\ UNCHANGED webVars

\* handle_logout.  An error of the DELETE is logged and the answer is the same.
Logout(s) ==
  /\ Served("logout")
  /\ s \in drawn
  /\ SessionsRemove(s)
  /\ gone' = Put(gone, s, {r \in Req : req[r].at = "switch" /\ req[r].sid = s})
  /\ UNCHANGED <<req, pending, tokens, drawn, loginOf>>

\* Mutant: a session that is missing is made up.
SwitchRead_Any(r, s) ==
  /\ Routed(r, "switch")
  /\ s \in drawn
  /\ To(r, [at |-> "switch", sid |-> s, user |-> "user-dev"])
  /\ UNCHANGED webVars

\* sessions_get returns the session; without one, and when PostgreSQL does not
\* answer, the request ends with 401.
Require(route, r, s, record) ==
  /\ Routed(r, route)
  /\ s \in drawn
  /\ \/ s \in Stored /\ To(r, record)
     \/ (s \notin Stored \/ pg) /\ To(r, Done)
  /\ UNCHANGED webVars

\* handle_switch_tenant reads the session ...
SwitchRead(r, s) ==
  Require("switch", r, s, [at |-> "switch", sid |-> s, user |-> sess[s]])

\* ... and inserts it again, whether or not it is still there.
SwitchWrite(r) ==
  /\ req[r].at = "switch"
  /\ SessionsInsert(req[r].sid, req[r].user)
  /\ gone' = [s \in {x \in DOMAIN gone : x # req[r].sid \/ r \notin gone[x]} |-> gone[s]]
  /\ To(r, Done)
  /\ UNCHANGED <<pending, tokens, drawn, loginOf>>

\* handle_cli_token_mint: 503 without PostgreSQL, else a row for the user.
MintRead(r, s) ==
  Require("token", r, s, IF pg THEN [at |-> "mint", user |-> sess[s]] ELSE Done)

MintInsert(r, k) ==
  /\ req[r].at = "mint"
  /\ k \notin DOMAIN tokens
  /\ tokens' = Put(tokens, k, [user |-> req[r].user, revoked |-> FALSE])
  /\ To(r, Done)
  /\ UNCHANGED <<sess, pending, drawn, gone, loginOf>>

\* handle_cli_token_revoke names a token by its row; the UPDATE finds it only
\* when it is the user's own and not revoked yet.
RevokeRead(r, s, k) ==
  Require("token", r, s, IF pg THEN [at |-> "revoke", user |-> sess[s], token |-> k] ELSE Done)

RevokeWrite(r) ==
  /\ req[r].at = "revoke"
  /\ LET k == req[r].token IN
     tokens' = IF k \in DOMAIN tokens /\ tokens[k].user = req[r].user
               THEN [tokens EXCEPT ![k].revoked = TRUE] ELSE tokens
  /\ To(r, Done)
  /\ UNCHANGED <<sess, pending, drawn, gone, loginOf>>

\* cli_token_lookup: whether it finds the user of k.  A token that is not minted
\* or is revoked is not found, and no token is when the query fails.  The task
\* that sets last_used_at touches nothing else.
Live(k) == pg /\ k \in DOMAIN tokens /\ ~tokens[k].revoked

CliTokenLookup(k) == IF Live(k) THEN BOOLEAN ELSE {FALSE}

WebInit ==
  /\ sess = <<>>
  /\ pending = {}
  /\ tokens = <<>>
  /\ drawn = {}
  /\ gone = <<>>
  /\ loginOf = <<>>

\* What was in memory is lost; what was in a store stays.
WebRestart ==
  /\ sess' = IF pg THEN sess ELSE <<>>
  /\ pending' = IF redis THEN pending ELSE {}
  /\ UNCHANGED <<tokens, drawn, gone, loginOf>>

WebStep ==
  \/ \E s \in Sid : Login(s) \/ Logout(s)
  \/ \E o \in OAuthState : LogtoStart(o) \/ Expire(o)
  \/ \E r \in Req :
       \/ \E o \in OAuthState : CallbackTake(r, o)
       \/ \E s \in Sid, u \in User \cup {""} : CallbackFinish(r, s, u)
       \/ \E s \in Sid : SwitchRead(r, s)
       \/ SwitchWrite(r)
       \/ \E s \in Sid : MintRead(r, s)
       \/ \E s \in Sid, k \in Token : RevokeRead(r, s, k)
       \/ \E k \in Token : MintInsert(r, k)
       \/ RevokeWrite(r)
       \/ GiveUp(r)

-----------------------------------------------------------------------------
(***************************************************************************)
(* A session that handle_logout has removed comes back only by the write   *)
(* of a handle_switch_tenant that had read it before: no other request, no *)
(* switch that started later, and no restart brings it back, and none does *)
(* after the switches that had read it have given up.                      *)
(***************************************************************************)
LogoutHolds == DOMAIN gone \cap Stored = {}

(***************************************************************************)
(* A started sign-in ends in one session at most, however often its        *)
(* callback is called, at the same time or later, and across a restart.    *)
(***************************************************************************)
OneLoginPerState == IsInjective(loginOf)
=============================================================================
