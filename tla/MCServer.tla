------------------------------ MODULE MCServer ------------------------------
\* Server for TLC.  Settings: each part of the server with what it interacts
\* with, with PostgreSQL and Redis as it is deployed and without as in its tests.
EXTENDS Server

MCReq == 1 .. 4

Setup(open, asks, stores, bodies) ==
  [open |-> open, asks |-> asks, pg |-> stores, redis |-> stores, capture |-> bodies]

Times(n, routes) == [r \in MCReq |-> IF r <= n THEN routes ELSE {}]

SignIn == {Setup({"login", "logto", "logout"}, Times(3, {"logto", "switch"}), d, FALSE) :
             d \in BOOLEAN}

OfBothKinds == <<{"stream"}, {"llm", "stream"}, {"llm"}, {}>>

Calls == {Setup({"drain"}, [OfBothKinds EXCEPT ![3] = {}], TRUE, FALSE),
          Setup({"drain"}, OfBothKinds, FALSE, FALSE),
          Setup({}, Times(2, {"llm", "stream"}), FALSE, TRUE)}

Captures == {Setup({"login", "logto"},
                   <<{"logto"}, {"token"}, {"llm"}, {"captured"}>>, TRUE, TRUE)}

Tokens == {Setup({"login"}, <<{"token"}, {"token"}, {"llm"}, {"ingest"}>>, TRUE, FALSE)}

Sandbox == {Setup({"login"}, Times(3, {"sandbox", "ingest"}), d, FALSE) : d \in BOOLEAN}

MCSettings == SignIn \cup Calls \cup Captures \cup Tokens \cup Sandbox
=============================================================================
