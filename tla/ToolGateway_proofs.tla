-------------------------- MODULE ToolGateway_proofs --------------------------
(***************************************************************************)
(* Theorems about ToolGateway, for any clients, any number of posts, polls *)
(* and deaths of the server.                                               *)
(*                                                                         *)
(* A client posts again only while it polls, and it polls only after its   *)
(* request was answered without having run (Outstanding).  So of all its   *)
(* posts at most the latest can still reach the tool (Earlier), and that   *)
(* is what AtMostOnce and ToldTheTruth both rest on.                       *)
(***************************************************************************)
EXTENDS ToolGateway, FiniteSetTheorems, TLAPS

\* A call runs only after it was cleared, and what ran is answered with what
\* came of it.
Calls ==
  \A r \in Request :
    /\ call[r].at \in {"none", "arrived", "waiting", "givingUp", "cleared"} => ~call[r].ran
    /\ call[r].at = "answered" => call[r].reply # "none"
    /\ call[r].at = "answered" /\ call[r].ran => call[r].reply \in {"result", "failed"}
    /\ call[r].at = "none" => call[r].by = NoClient

\* Posts that a client has replaced by another are over and did not run.
Earlier ==
  \A c \in Client, r \in Request :
    call[r].by = c /\ r # client[c].request => call[r].at = "answered" /\ ~call[r].ran

\* A client that waits for an approval, or has stopped to, holds a request
\* that was answered and did not run.
Outstanding ==
  \A c \in Client :
    /\ client[c].at = "idle" => client[c].request = NoRequest
    /\ client[c].at \in {"posted", "polling"} => client[c].request \in Request
    /\ client[c].at \in {"idle", "posted", "polling"} => client[c].told = "none"
    /\ \/ client[c].at = "polling"
       \/ client[c].told \in {"denied", "expired", "disabled"}
       => LET r == client[c].request
          IN r \in Request /\ call[r].at = "answered" /\ ~call[r].ran

Facts == Calls /\ Earlier /\ Outstanding

IInv == TypeOK /\ Facts

USE DEF Closed

-----------------------------------------------------------------------------
(***************************************************************************)
(* What the updates of a call and of a client come to, field by field.     *)
(***************************************************************************)

CallType == call \in [Request -> CallInfo]
ClientType == client \in [Client -> ClientInfo]

\* Post r is now at a, may have run, and has the given reply; no other moved.
Moved(r, a, ran, reply) ==
  /\ CallType'
  /\ call'[r].at = a /\ call'[r].by = call[r].by
  /\ call'[r].ran = ran /\ call'[r].reply = reply
  /\ \A q \in Request : q # r => call'[q] = call[q]

\* A call that is answered, and one that goes on.
LEMMA Replied ==
  ASSUME CallType, NEW r \in Request, NEW reply \in Replies, Reply(r, reply)
  PROVE  Moved(r, "answered", call[r].ran, reply)
  BY DEF CallType, CallInfo, Reply, Moved

LEMMA WentOn ==
  ASSUME CallType, NEW r \in Request, NEW a \in {"waiting", "givingUp", "cleared"},
         call' = [call EXCEPT ![r].at = a]
  PROVE  Moved(r, a, call[r].ran, call[r].reply)
  BY DEF CallType, CallInfo, Moved

LEMMA Ran ==
  ASSUME CallType, NEW r \in Request,
         call' = [call EXCEPT ![r].at = "running", ![r].ran = TRUE]
  PROVE  Moved(r, "running", TRUE, call[r].reply)
  BY DEF CallType, CallInfo, Moved

\* A post is taken by a client.
LEMMA Taken ==
  ASSUME CallType, NEW r \in Request, NEW c \in Client,
         call' = [call EXCEPT ![r].at = "arrived", ![r].by = c]
  PROVE  /\ CallType'
         /\ call'[r].at = "arrived" /\ call'[r].by = c /\ call'[r].ran = call[r].ran
         /\ \A q \in Request : q # r => call'[q] = call[q]
  BY DEF CallType, CallInfo

\* Client c is where it says now; no other moved.
Stands(c, at, request, told) ==
  /\ ClientType'
  /\ client'[c].at = at /\ client'[c].request = request /\ client'[c].told = told
  /\ \A d \in Client : d # c => client'[d] = client[d]

LEMMA Told ==
  ASSUME ClientType, NEW c \in Client, NEW what \in Outcomes, Tell(c, what)
  PROVE  Stands(c, "told", client[c].request, what)
  BY DEF ClientType, ClientInfo, Tell, Stands

LEMMA BeganPolling ==
  ASSUME ClientType, NEW c \in Client, client' = [client EXCEPT ![c].at = "polling"]
  PROVE  Stands(c, "polling", client[c].request, client[c].told)
  BY DEF ClientType, ClientInfo, Stands

LEMMA Polled ==
  ASSUME ClientType, NEW c \in Client, client[c].polls < MaxPolls,
         client' = [client EXCEPT ![c].polls = @ + 1]
  PROVE  Stands(c, client[c].at, client[c].request, client[c].told)
  BY BoundsAssumption DEF ClientType, ClientInfo, Stands

LEMMA Posted ==
  ASSUME ClientType, NEW c \in Client, NEW r \in Request,
         client' = [client EXCEPT ![c].at = "posted", ![c].request = r, ![c].polls = 0]
  PROVE  Stands(c, "posted", r, client[c].told)
<1>1. 0 \in 0 .. MaxPolls
  BY BoundsAssumption
<1>2. client' = [client EXCEPT ![c] = [client[c] EXCEPT !.at = "posted", !.request = r, !.polls = 0]]
  BY DEF ClientType, ClientInfo
<1>3. client[c] \in ClientInfo
  BY DEF ClientType
<1>4. [client[c] EXCEPT !.at = "posted", !.request = r, !.polls = 0] \in ClientInfo
  BY <1>1, <1>3 DEF ClientInfo
<1> QED
  BY <1>2, <1>3, <1>4 DEF ClientType, ClientInfo, Stands

-----------------------------------------------------------------------------
(***************************************************************************)
(* The three kinds of steps the invariant has to survive.                  *)
(***************************************************************************)

\* A step of rows, time or administrators: no client and no call moves.
LEMMA NothingMoved ==
  ASSUME Facts, UNCHANGED <<client, call>>
  PROVE  Facts'
  BY DEF Facts, Calls, Earlier, Outstanding

\* The server takes a call that is neither fresh nor answered one step further.
LEMMA CallMoves ==
  ASSUME Facts, UNCHANGED client,
         NEW r \in Request, NEW a, NEW ran, NEW reply, Moved(r, a, ran, reply),
         call[r].at \notin {"none", "answered"}, a # "none",
         ran => a \in {"running", "answered", "lost"},
         a = "answered" => reply # "none",
         a = "answered" /\ ran => reply \in {"result", "failed"}
  PROVE  Facts'
<1>1. Calls'
  BY DEF Facts, Calls, Moved
<1>2. Earlier'
  BY DEF Facts, Earlier, Moved
<1>3. Outstanding'
  BY DEF Facts, Outstanding, Moved
<1> QED
  BY <1>1, <1>2, <1>3 DEF Facts

\* A client goes from where it is to another place, with the same request.
LEMMA ClientMoves ==
  ASSUME Facts, UNCHANGED call,
         NEW c \in Client, NEW at, NEW told, Stands(c, at, client[c].request, told),
         client[c].at \in {"idle", "posted", "polling"},
         at \in {"posted", "polling", "told"},
         at # "told" => client[c].at # "idle" /\ told = "none",
         at = "polling" \/ told \in {"denied", "expired", "disabled"} =>
           LET r == client[c].request
           IN r \in Request /\ call[r].at = "answered" /\ ~call[r].ran
  PROVE  Facts'
<1>1. Calls'
  BY DEF Facts, Calls
<1>2. Earlier'
  BY DEF Facts, Earlier, Stands
<1>3. Outstanding'
  BY DEF Facts, Outstanding, Stands
<1> QED
  BY <1>1, <1>2, <1>3 DEF Facts

\* A client that has not posted, or polls, posts, or is told that it cannot.
LEMMA SendKeeps ==
  ASSUME TypeOK, Facts, NEW c \in Client, client[c].at \in {"idle", "polling"}, Send(c)
  PROVE  CallType' /\ ClientType' /\ Facts'
<1>0. CallType /\ ClientType
  BY DEF TypeOK, CallType, ClientType
<1>1. CASE up
  <2>1. PICK r \in Fresh :
           /\ call' = [call EXCEPT ![r].at = "arrived", ![r].by = c]
           /\ client' = [client EXCEPT ![c].at = "posted", ![c].request = r, ![c].polls = 0]
    BY <1>1 DEF Send
  <2>2. r \in Request /\ call[r].at = "none"
    BY DEF Fresh
  <2>3. /\ CallType'
        /\ call'[r].at = "arrived" /\ call'[r].by = c /\ call'[r].ran = call[r].ran
        /\ \A q \in Request : q # r => call'[q] = call[q]
    BY <1>0, <2>1, <2>2, Taken
  <2>4. Stands(c, "posted", r, client[c].told)
    BY <1>0, <2>1, <2>2, Posted
  <2>5. Calls'
    BY <2>2, <2>3, BoundsAssumption DEF Facts, Calls
  <2>6. Earlier'
    <3> SUFFICES ASSUME NEW d \in Client, NEW q \in Request,
                        call'[q].by = d, q # client'[d].request
                 PROVE  call'[q].at = "answered" /\ ~call'[q].ran
      BY DEF Earlier
    <3>1. q # r
      BY <2>3, <2>4 DEF Stands
    <3>2. call'[q] = call[q]
      BY <2>3, <3>1
    <3>3. CASE d # c
      BY <3>2, <3>3, <2>4 DEF Facts, Earlier, Stands
    <3>4. CASE d = c /\ q # client[c].request
      BY <3>2, <3>4 DEF Facts, Earlier
    <3>5. CASE d = c /\ q = client[c].request /\ client[c].at = "polling"
      BY <3>2, <3>5 DEF Facts, Outstanding
    <3>6. CASE d = c /\ q = client[c].request /\ client[c].at = "idle"
      BY <3>2, <3>6, BoundsAssumption DEF Facts, Outstanding
    <3> QED
      BY <3>3, <3>4, <3>5, <3>6
  <2>7. Outstanding'
    BY <2>2, <2>3, <2>4 DEF Facts, Outstanding, Stands
  <2> QED
    BY <2>3, <2>4, <2>5, <2>6, <2>7 DEF Facts, Stands
<1>2. CASE ~up
  <2>1. Tell(c, "error") /\ UNCHANGED call
    BY <1>2 DEF Send
  <2>2. Stands(c, "told", client[c].request, "error")
    BY <1>0, <2>1, Told DEF Outcomes
  <2> QED
    BY <1>0, <2>1, <2>2, ClientMoves DEF CallType, Stands
<1> QED
  BY <1>1, <1>2

-----------------------------------------------------------------------------
(***************************************************************************)
(* The steps of the client.                                                *)
(***************************************************************************)

\* What the server has of its own stays well typed when only clients move.
Others == <<policy, row, due, up, crashes>>

LEMMA OthersTyped ==
  ASSUME TypeOK, CallType', ClientType', UNCHANGED Others
  PROVE  TypeOK'
  BY DEF TypeOK, CallType, ClientType, Others

\* The first post.
LEMMA PostInv ==
  ASSUME IInv, NEW c \in Client, Post(c)
  PROVE  IInv'
<1>1. CallType' /\ ClientType' /\ Facts'
  BY SendKeeps DEF IInv, Post
<1> QED
  BY <1>1, OthersTyped DEF IInv, Post, rows, server, Others

\* A client that tells its user something that needs no proof.
LEMMA TellsOnly ==
  ASSUME IInv, NEW c \in Client, NEW what \in {"data", "error", "timed out"},
         client[c].at \in {"posted", "polling"}, Tell(c, what), UNCHANGED call, UNCHANGED Others
  PROVE  IInv'
<1>1. CallType /\ ClientType /\ what \in Outcomes
  BY DEF IInv, TypeOK, CallType, ClientType, Outcomes
<1>2. Stands(c, "told", client[c].request, what)
  BY <1>1, Told
<1>3. Facts'
  BY <1>2, ClientMoves DEF IInv
<1> QED
  BY <1>1, <1>2, <1>3, OthersTyped DEF IInv, CallType, Stands

\* One that tells its user that nothing came of the request it holds.
LEMMA TellsOfNothing ==
  ASSUME IInv, NEW c \in Client, NEW what \in {"denied", "expired", "disabled"},
         client[c].at \in {"posted", "polling"}, Tell(c, what), UNCHANGED call, UNCHANGED Others,
         client[c].request \in Request,
         call[client[c].request].at = "answered", ~call[client[c].request].ran
  PROVE  IInv'
<1>1. CallType /\ ClientType /\ what \in Outcomes
  BY DEF IInv, TypeOK, CallType, ClientType, Outcomes
<1>2. Stands(c, "told", client[c].request, what)
  BY <1>1, Told
<1>3. Facts'
  BY <1>2, ClientMoves DEF IInv
<1> QED
  BY <1>1, <1>2, <1>3, OthersTyped DEF IInv, CallType, Stands

\* A reply that wants approval means that nothing ran.
LEMMA ReceiveInv ==
  ASSUME IInv, NEW c \in Client, Receive(c)
  PROVE  IInv'
<1> DEFINE r == client[c].request
<1>1. /\ client[c].at = "posted" /\ r \in Request /\ call[r].at = "answered"
      /\ client[c].told = "none" /\ CallType /\ ClientType
      /\ UNCHANGED call /\ UNCHANGED Others
  BY DEF IInv, Facts, Outstanding, TypeOK, Receive, CallType, ClientType, rows, server, Others
<1>2. CASE call[r].reply \in {"result", "failed", "limited"}
  BY <1>1, <1>2, TellsOnly DEF Receive
<1>3. CASE call[r].reply \in {"forbidden", "unavailable"}
  <2>1. Tell(c, "error")
    BY <1>3 DEF Receive
  <2> QED
    BY <1>1, <2>1, TellsOnly
<1>4. CASE call[r].reply = "approval_required"
  <2>1. ~call[r].ran
    BY <1>1, <1>4 DEF IInv, Facts, Calls, CallType, CallInfo
  <2>2. CASE client[c].patient
    <3>1. client' = [client EXCEPT ![c].at = "polling"]
      BY <1>4, <2>2 DEF Receive
    <3>2. Stands(c, "polling", client[c].request, client[c].told)
      BY <1>1, <3>1, BeganPolling
    <3>3. Facts'
      BY <1>1, <2>1, <3>2, ClientMoves DEF IInv
    <3> QED
      BY <1>1, <3>2, <3>3, OthersTyped DEF IInv, CallType, Stands
  <2>3. CASE ~client[c].patient
    <3>1. Tell(c, "disabled")
      BY <1>4, <2>3 DEF Receive
    <3> QED
      BY <1>1, <2>1, <3>1, TellsOfNothing
  <2> QED
    BY <2>2, <2>3
<1> QED
  BY <1>1, <1>2, <1>3, <1>4 DEF IInv, Facts, Calls, CallType, CallInfo, Replies

\* A client that is told of nothing more than a failed post.
LEMMA LostInv ==
  ASSUME IInv, NEW c \in Client, Disconnect(c) \/ GiveUpPost(c)
  PROVE  IInv'
<1>1. \/ Tell(c, "error")
      \/ Tell(c, "timed out")
  BY DEF Disconnect, GiveUpPost
<1>2. client[c].at = "posted" /\ UNCHANGED call /\ UNCHANGED Others
  BY DEF Disconnect, GiveUpPost, rows, server, Others
<1> QED
  BY <1>1, <1>2, TellsOnly

\* A client that polls has a request that is over; it posts again, is told so,
\* or polls on.
LEMMA PollInv ==
  ASSUME IInv, NEW c \in Client, Poll(c)
  PROVE  IInv'
<1>1. /\ client[c].at = "polling" /\ client[c].polls < MaxPolls
      /\ client[c].request \in Request
      /\ call[client[c].request].at = "answered" /\ ~call[client[c].request].ran
      /\ client[c].told = "none" /\ CallType /\ ClientType /\ UNCHANGED Others
  BY DEF IInv, Facts, Outstanding, TypeOK, Poll, CallType, ClientType, rows, server, Others
<1>2. \/ Send(c)
      \/ Tell(c, "denied") /\ UNCHANGED call
      \/ client' = [client EXCEPT ![c].polls = @ + 1] /\ UNCHANGED call
  BY DEF Poll
<1>3. CASE Send(c)
  BY <1>1, <1>3, SendKeeps, OthersTyped DEF IInv
<1>4. CASE Tell(c, "denied") /\ UNCHANGED call
  BY <1>1, <1>4, TellsOfNothing
<1>5. CASE client' = [client EXCEPT ![c].polls = @ + 1] /\ UNCHANGED call
  <2>1. Stands(c, "polling", client[c].request, "none")
    BY <1>1, <1>5, Polled
  <2>2. Facts'
    BY <1>1, <1>5, <2>1, ClientMoves DEF IInv
  <2> QED
    BY <1>1, <1>5, <2>1, <2>2, OthersTyped DEF IInv, CallType, Stands
<1> QED
  BY <1>2, <1>3, <1>4, <1>5

\* The same holds when it stops polling.
LEMMA StopPollingInv ==
  ASSUME IInv, NEW c \in Client, StopPolling(c)
  PROVE  IInv'
<1>1. /\ client[c].at = "polling" /\ Tell(c, "expired")
      /\ client[c].request \in Request
      /\ call[client[c].request].at = "answered" /\ ~call[client[c].request].ran
      /\ UNCHANGED call /\ UNCHANGED Others
  BY DEF IInv, Facts, Outstanding, StopPolling, rows, server, Others
<1> QED
  BY <1>1, TellsOfNothing

-----------------------------------------------------------------------------
(***************************************************************************)
(* The steps of the server.                                                *)
(***************************************************************************)

\* A post is cleared, refused, or given a row to wait for.
LEMMA CheckInv ==
  ASSUME IInv, NEW r \in Request, Check(r)
  PROVE  IInv'
<1>1. /\ call[r].at = "arrived" /\ ~call[r].ran /\ CallType
      /\ UNCHANGED <<policy, client, due, up, crashes>>
  BY DEF IInv, Facts, Calls, TypeOK, CallType, Check, server
<1>2. \/ call' = [call EXCEPT ![r].at = "cleared"] /\ UNCHANGED row
      \/ Reply(r, "forbidden") /\ UNCHANGED row
      \/ Reply(r, "unavailable") /\ UNCHANGED row
      \/ call' = [call EXCEPT ![r].at = "waiting"] /\ row' = [row EXCEPT ![r] = "pending"]
  BY DEF Check
<1>3. row' \in [Request -> Closed \cup {"none", "pending"}]
  BY <1>2 DEF IInv, TypeOK
<1>4. \E a \in {"cleared", "answered", "waiting"} :
        \E reply : Moved(r, a, FALSE, reply) /\ (a = "answered" => reply # "none")
  <2>1. {"forbidden", "unavailable"} \subseteq Replies
    BY DEF Replies
  <2>2. call[r].ran = FALSE
    BY <1>1 DEF CallType, CallInfo
  <2>3. CASE call' = [call EXCEPT ![r].at = "cleared"]
    BY <1>1, <2>2, <2>3, WentOn
  <2>4. CASE Reply(r, "forbidden")
    <3>1. Moved(r, "answered", FALSE, "forbidden")
      BY <1>1, <2>1, <2>2, <2>4, Replied
    <3>2. "forbidden" # "none"
      OBVIOUS
    <3> QED
      BY <3>1, <3>2, Zenon
  <2>5. CASE Reply(r, "unavailable")
    <3>1. Moved(r, "answered", FALSE, "unavailable")
      BY <1>1, <2>1, <2>2, <2>5, Replied
    <3>2. "unavailable" # "none"
      OBVIOUS
    <3> QED
      BY <3>1, <3>2, Zenon
  <2>6. CASE call' = [call EXCEPT ![r].at = "waiting"]
    BY <1>1, <2>2, <2>6, WentOn
  <2> QED
    BY <1>2, <2>3, <2>4, <2>5, <2>6
<1>5. Facts' /\ CallType'
  BY <1>1, <1>4, CallMoves DEF IInv, Moved
<1> QED
  BY <1>1, <1>3, <1>5 DEF IInv, TypeOK, CallType

\* A post that waited is cleared or refused; it has not run.
LEMMA WaitInv ==
  ASSUME IInv, NEW r \in Request, Heed(r) \/ TimeOut(r) \/ MarkTimeout(r)
  PROVE  IInv'
<1>1. /\ call[r].at \in {"waiting", "givingUp"} /\ call[r].ran = FALSE /\ CallType
      /\ UNCHANGED <<policy, client, due, up, crashes>>
  BY DEF IInv, Facts, Calls, TypeOK, CallType, CallInfo, Heed, TimeOut, MarkTimeout, rows, server
<1>2. \/ call' = [call EXCEPT ![r].at = "cleared"]
      \/ call' = [call EXCEPT ![r].at = "givingUp"]
      \/ Reply(r, "approval_required")
  BY DEF Heed, TimeOut, MarkTimeout
<1>3. row' \in [Request -> Closed \cup {"none", "pending"}]
  BY DEF IInv, TypeOK, Heed, TimeOut, MarkTimeout, rows
<1>4. \E a \in {"cleared", "answered", "givingUp"} :
        \E reply : Moved(r, a, FALSE, reply) /\ (a = "answered" => reply # "none")
  <2>1. CASE call' = [call EXCEPT ![r].at = "cleared"]
    BY <1>1, <2>1, WentOn
  <2>2. CASE call' = [call EXCEPT ![r].at = "givingUp"]
    BY <1>1, <2>2, WentOn
  <2>3. "approval_required" \in Replies
    BY DEF Replies
  <2>4. CASE Reply(r, "approval_required")
    <3>1. Moved(r, "answered", FALSE, "approval_required")
      BY <1>1, <2>3, <2>4, Replied
    <3>2. "approval_required" # "none"
      OBVIOUS
    <3> QED
      BY <3>1, <3>2, Zenon
  <2> QED
    BY <1>2, <2>1, <2>2, <2>4
<1>5. Facts' /\ CallType'
  BY <1>1, <1>4, CallMoves DEF IInv, Moved
<1> QED
  BY <1>1, <1>3, <1>5 DEF IInv, TypeOK, CallType

\* Only a call nobody has answered runs.
LEMMA CallToolInv ==
  ASSUME IInv, NEW r \in Request, CallTool(r)
  PROVE  IInv'
<1>1. /\ call[r].at = "cleared" /\ call[r].ran = FALSE /\ CallType
      /\ UNCHANGED <<policy, client, row, due, up, crashes>>
  BY DEF IInv, Facts, Calls, TypeOK, CallType, CallInfo, CallTool, rows, server
<1>2. CASE Reply(r, "limited")
  <2>1. Moved(r, "answered", FALSE, "limited")
    BY <1>1, <1>2, Replied DEF Replies
  <2>2. Facts' /\ CallType'
    BY <1>1, <2>1, CallMoves DEF IInv, Moved
  <2> QED
    BY <1>1, <2>2 DEF IInv, TypeOK, CallType
<1>3. CASE call' = [call EXCEPT ![r].at = "running", ![r].ran = TRUE]
  <2>1. Moved(r, "running", TRUE, call[r].reply)
    BY <1>1, <1>3, Ran
  <2>2. Facts' /\ CallType'
    BY <1>1, <2>1, CallMoves DEF IInv, Moved
  <2> QED
    BY <1>1, <2>2 DEF IInv, TypeOK, CallType
<1> QED
  BY <1>2, <1>3 DEF CallTool

\* What ran is answered with what came of it.
LEMMA ReturnInv ==
  ASSUME IInv, NEW r \in Request, Return(r)
  PROVE  IInv'
<1>1. /\ call[r].at = "running" /\ CallType
      /\ UNCHANGED <<policy, client, row, due, up, crashes>>
  BY DEF IInv, TypeOK, CallType, Return, rows, server
<1>2. PICK reply \in {"result", "failed"} : Reply(r, reply)
  BY DEF Return
<1>3. Moved(r, "answered", call[r].ran, reply)
  BY <1>1, <1>2, Replied DEF Replies
<1>4. Facts' /\ CallType'
  BY <1>1, <1>3, CallMoves DEF IInv, Moved
<1> QED
  BY <1>1, <1>4 DEF IInv, TypeOK, CallType

\* Verdicts, time and the cleanup change rows only.
LEMMA RowsInv ==
  ASSUME IInv, (\E r \in Request : Decide(r) \/ Expire(r)) \/ Cleanup
  PROVE  IInv'
<1>1. UNCHANGED <<policy, client, call, up, crashes>>
  BY DEF Decide, Expire, Cleanup, server
<1>2. Facts'
  BY <1>1, NothingMoved DEF IInv
<1>3. row' \in [Request -> Closed \cup {"none", "pending"}] /\ due' \subseteq Request
  BY DEF IInv, TypeOK, Decide, Expire, Cleanup
<1> QED
  BY <1>1, <1>2, <1>3 DEF IInv, TypeOK

\* The server dies: what is answered stays answered, the rest is lost.
LEMMA CrashInv ==
  ASSUME IInv, Crash
  PROVE  IInv'
<1>1. CallType /\ UNCHANGED <<policy, client, row, due>>
  BY DEF IInv, TypeOK, CallType, Crash, rows
<1>2. \A r \in Request :
        IF call[r].at \in {"none", "answered"} THEN call'[r] = call[r]
        ELSE call'[r] = [call[r] EXCEPT !.at = "lost"]
  BY DEF Crash
<1>3. CallType'
  BY <1>1 DEF Crash, CallType, CallInfo
<1>4. \A r \in Request :
        /\ call'[r].by = call[r].by /\ call'[r].ran = call[r].ran /\ call'[r].reply = call[r].reply
        /\ call'[r].at = IF call[r].at \in {"none", "answered"} THEN call[r].at ELSE "lost"
  BY <1>1, <1>2 DEF CallType, CallInfo
<1>5. Calls'
  BY <1>4 DEF IInv, Facts, Calls
<1>6. Earlier'
  BY <1>1, <1>4 DEF IInv, Facts, Earlier
<1>7. Outstanding'
  BY <1>1, <1>4 DEF IInv, Facts, Outstanding
<1>8. up' = FALSE
  BY DEF Crash
<1>9. crashes' \in 0 .. MaxCrashes
  BY BoundsAssumption DEF IInv, TypeOK, Crash
<1> QED
  BY <1>1, <1>3, <1>5, <1>6, <1>7, <1>8, <1>9 DEF IInv, Facts, TypeOK, CallType

\* The server is back.
LEMMA StartupInv == IInv /\ Startup => IInv'
<1> SUFFICES ASSUME IInv, Startup PROVE IInv'
  OBVIOUS
<1>1. Facts'
  BY NothingMoved DEF IInv, Startup
<1> QED
  BY <1>1 DEF IInv, TypeOK, Startup, rows

-----------------------------------------------------------------------------
\* At first nobody has posted.
LEMMA InitInv == Init => IInv
<1> SUFFICES ASSUME Init PROVE IInv
  OBVIOUS
<1>0. 0 \in 0 .. MaxPolls /\ 0 \in 0 .. MaxCrashes
  BY BoundsAssumption
<1>1. client \in [Client -> ClientInfo]
  BY <1>0 DEF Init, ClientInfo, Outcomes
<1>2. call \in [Request -> CallInfo]
  BY DEF Init, CallInfo, Replies
<1>3. TypeOK
  BY <1>0, <1>1, <1>2 DEF Init, TypeOK
<1>4. Calls /\ Outstanding
  BY DEF Init, Calls, Outstanding
<1>5. Earlier
  BY BoundsAssumption DEF Init, Earlier
<1> QED
  BY <1>3, <1>4, <1>5 DEF IInv, Facts

\* Every step keeps the invariant.
LEMMA NextInv == IInv /\ [Next]_vars => IInv'
<1> SUFFICES ASSUME IInv, [Next]_vars PROVE IInv'
  OBVIOUS
<1>1. CASE \E c \in Client : Post(c) \/ ClientStep(c)
  BY <1>1, PostInv, ReceiveInv, LostInv, PollInv, StopPollingInv DEF ClientStep
<1>2. CASE \E r \in Request : ServerStep(r)
  BY <1>2, CheckInv, WaitInv, CallToolInv, ReturnInv DEF ServerStep
<1>3. CASE (\E r \in Request : Decide(r) \/ Expire(r)) \/ Cleanup
  BY <1>3, RowsInv
<1>4. CASE Crash \/ Startup
  BY <1>4, CrashInv, StartupInv
<1>5. CASE UNCHANGED vars
  <2>1. Facts'
    BY <1>5, NothingMoved DEF IInv, vars
  <2> QED
    BY <1>5, <2>1 DEF IInv, TypeOK, vars, rows, server
<1> QED
  BY <1>1, <1>2, <1>3, <1>4, <1>5 DEF Next

\* The invariant holds throughout.
THEOREM Invariant == Spec => []IInv
  BY InitInv, NextInv, PTL DEF Spec

\* Every variable keeps its type.
THEOREM TypeCorrect == Spec => []TypeOK
<1>1. IInv => TypeOK
  BY DEF IInv
<1> QED
  BY <1>1, Invariant, PTL

\* However often call_mcp_tool posts a call, the tool runs at most once for it.
THEOREM RunsAtMostOnce == Spec => []AtMostOnce
<1>1. IInv => AtMostOnce
  <2> SUFFICES ASSUME IInv, NEW c \in Client PROVE Cardinality(Runs(c)) <= 1
    BY DEF AtMostOnce
  <2>1. Runs(c) \subseteq {client[c].request}
    BY DEF IInv, Facts, Earlier, Runs
  <2>2. CASE Runs(c) = {}
    <3>1. Cardinality(Runs(c)) = 0
      BY <2>2, FS_EmptySet
    <3> QED
      BY <3>1
  <2>3. CASE Runs(c) = {client[c].request}
    <3>1. Cardinality(Runs(c)) = 1
      BY <2>3, FS_Singleton
    <3> QED
      BY <3>1
  <2> QED
    BY <2>1, <2>2, <2>3
<1> QED
  BY <1>1, Invariant, PTL

\* What the user of the command line is told of his call is true, now and in
\* the end: after "denied", "expired" or "disabled" nothing ran and nothing
\* will.
THEOREM UserToldTheTruth == Spec => []ToldTheTruth
<1>1. IInv => ToldTheTruth
  BY DEF IInv, Facts, Earlier, Outstanding, Runs, ToldTheTruth
<1> QED
  BY <1>1, Invariant, PTL
=============================================================================
