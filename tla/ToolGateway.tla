---------------------------- MODULE ToolGateway ----------------------------
(***************************************************************************)
(* A tool call from end to end: call_mcp_tool of the command-line client   *)
(* (scripts/ai.py), the RBAC middleware, the approval it may wait for, and *)
(* the handler of POST /tools/{tool_name}/call.                            *)
(*                                                                         *)
(* The client and the server lose sight of each other in many ways: the    *)
(* client gives up after its 60 seconds while the server goes on waiting   *)
(* for an administrator; the server gives up and the row is approved just  *)
(* then; the server dies.  A client that is told its call wants approval   *)
(* polls the row and, once that says approved, posts the call anew: a new  *)
(* request with a row of its own.                                          *)
(*                                                                         *)
(* ApprovalWorkflow has the decision of a row in its small steps.  Here it *)
(* is one step.                                                            *)
(***************************************************************************)
EXTENDS Naturals, FiniteSets

CONSTANTS
  Client,     \* uses of the command line, each wanting one tool call
  Request,    \* posts of a call, each with the request id it may get
  NoRequest,  \* of a client that has not posted
  NoClient,   \* of a post that was not made
  MaxPolls,   \* APPROVAL_TIMEOUT / APPROVAL_POLLING_INTERVAL of the client
  MaxCrashes  \* bound on the deaths of the server

ASSUME BoundsAssumption ==
  /\ NoRequest \notin Request /\ NoClient \notin Client
  /\ MaxPolls \in Nat /\ MaxCrashes \in Nat

VARIABLES
  policy,   \* what the server thinks of the tool and the user
  client,   \* client[c]: where a client stands and what it told its user
  call,     \* call[r]: how far the server got with post r
  row,      \* row[r]: the status column of its approval request
  due,      \* the requests whose expires_at has passed
  up,       \* the server is serving
  crashes   \* how often it died

vars == <<policy, client, call, row, due, up, crashes>>
rows == <<row, due>>
server == <<up, crashes>>

\* RBAC is off; permission denied; granted; granted with approval required.
Policies == {"open", "forbidden", "granted", "gated"}

\* What comes back to a client, and what it makes of it.
Replies == {"none", "result", "failed", "limited", "forbidden", "unavailable",
            "approval_required"}
Outcomes == {"none", "data", "error", "timed out", "disabled", "denied", "expired"}

Closed == {"approved", "rejected", "expired", "timeout", "cancelled"}

\* patient: APPROVAL_WORKFLOW_ENABLED in the client's environment.
ClientInfo == [at : {"idle", "posted", "polling", "told"}, request : Request \cup {NoRequest},
               polls : 0 .. MaxPolls, told : Outcomes, patient : BOOLEAN]
CallInfo == [at : {"none", "arrived", "waiting", "givingUp", "cleared", "running",
                   "answered", "lost"},
             by : Client \cup {NoClient}, ran : BOOLEAN, reply : Replies]

TypeOK ==
  /\ policy \in Policies
  /\ client \in [Client -> ClientInfo]
  /\ call \in [Request -> CallInfo]
  /\ row \in [Request -> Closed \cup {"none", "pending"}]
  /\ due \subseteq Request
  /\ up \in BOOLEAN
  /\ crashes \in 0 .. MaxCrashes

Init ==
  /\ policy \in Policies
  /\ client \in [Client -> [at : {"idle"}, request : {NoRequest}, polls : {0},
                            told : {"none"}, patient : BOOLEAN]]
  /\ call = [r \in Request |->
               [at |-> "none", by |-> NoClient, ran |-> FALSE, reply |-> "none"]]
  /\ row = [r \in Request |-> "none"]
  /\ due = {}
  /\ up = TRUE
  /\ crashes = 0

(***************************************************************************)
(* The client.                                                             *)
(***************************************************************************)

Tell(c, what) == client' = [client EXCEPT ![c].at = "told", ![c].told = what]

Fresh == {r \in Request : call[r].at = "none"}

\* requests.post of call_mcp_tool: it reaches the server or cannot connect.
Send(c) ==
  IF up
    THEN \E r \in Fresh :
           /\ call' = [call EXCEPT ![r].at = "arrived", ![r].by = c]
           /\ client' = [client EXCEPT ![c].at = "posted", ![c].request = r, ![c].polls = 0]
    ELSE Tell(c, "error") /\ UNCHANGED call

Post(c) ==
  /\ client[c].at = "idle"
  /\ Send(c)
  /\ UNCHANGED <<policy, rows, server>>

\* What call_mcp_tool makes of a reply.  One that wants approval is waited
\* for only by a client that was told to.
Receive(c) ==
  LET r == client[c].request IN
  /\ client[c].at = "posted"
  /\ call[r].at = "answered"
  /\ CASE call[r].reply \in {"result", "failed", "limited"} -> Tell(c, "data")
       [] call[r].reply \in {"forbidden", "unavailable"} -> Tell(c, "error")
       [] call[r].reply = "approval_required" ->
            IF client[c].patient THEN client' = [client EXCEPT ![c].at = "polling"]
                                 ELSE Tell(c, "disabled")
  /\ UNCHANGED <<policy, call, rows, server>>

\* The server died under the request.
Disconnect(c) ==
  /\ client[c].at = "posted"
  /\ call[client[c].request].at = "lost"
  /\ Tell(c, "error")
  /\ UNCHANGED <<policy, call, rows, server>>

\* A plausible slip: a call that timed out is posted once more.
GiveUpPost_Retry(c) ==
  /\ client[c].at = "posted"
  /\ IF Fresh = {} THEN Tell(c, "timed out") /\ UNCHANGED call ELSE Send(c)
  /\ UNCHANGED <<policy, rows, server>>

\* A plausible slip: the user is told that the request expired.
GiveUpPost_Expired(c) ==
  /\ client[c].at = "posted"
  /\ Tell(c, "expired")
  /\ UNCHANGED <<policy, call, rows, server>>

\* timeout=60: the client gives up on its request, which the server keeps.
GiveUpPost(c) ==
  /\ client[c].at = "posted"
  /\ Tell(c, "timed out")
  /\ UNCHANGED <<policy, call, rows, server>>

\* What GET /api/approvals/{id}/status may answer; "error" stands for a server
\* that cannot be reached or cannot read its database.
Seen(r) == {"error"} \cup
  IF ~up THEN {} ELSE {IF row[r] = "pending" /\ r \in due THEN "expired" ELSE row[r]}

\* A plausible slip: a poll that fails is not counted.
Poll_Uncounted(c) ==
  /\ client[c].at = "polling"
  /\ client[c].polls < MaxPolls
  /\ \E seen \in Seen(client[c].request) :
       \/ seen = "approved" /\ Send(c)
       \/ seen \in {"rejected", "expired", "timeout"} /\ Tell(c, "denied") /\ UNCHANGED call
       \/ /\ seen \in {"pending", "cancelled"}
          /\ client' = [client EXCEPT ![c].polls = @ + 1]
          /\ UNCHANGED call
  /\ UNCHANGED <<policy, rows, server>>

\* One turn of handle_approval_workflow or wait_for_approval_simple.
Poll(c) ==
  /\ client[c].at = "polling"
  /\ client[c].polls < MaxPolls
  /\ \E seen \in Seen(client[c].request) :
       \/ seen = "approved" /\ Send(c)
       \/ seen \in {"rejected", "expired", "timeout"} /\ Tell(c, "denied") /\ UNCHANGED call
       \/ /\ seen \in {"pending", "cancelled", "error"}
          /\ client' = [client EXCEPT ![c].polls = @ + 1]
          /\ UNCHANGED call
  /\ UNCHANGED <<policy, rows, server>>

StopPolling(c) ==
  /\ client[c].at = "polling"
  /\ client[c].polls = MaxPolls
  /\ Tell(c, "expired")
  /\ UNCHANGED <<policy, call, rows, server>>

ClientStep(c) == Receive(c) \/ Disconnect(c) \/ GiveUpPost(c) \/ Poll(c) \/ StopPolling(c)

(***************************************************************************)
(* The server.                                                             *)
(***************************************************************************)

Reply(r, reply) == call' = [call EXCEPT ![r].at = "answered", ![r].reply = reply]

\* RBACMiddleware.dispatch up to the point where it passes the call on,
\* refuses it, or waits for its approval, if it can write the row.
Check(r) ==
  /\ up /\ call[r].at = "arrived"
  /\ \/ /\ policy \in {"open", "granted"}
        /\ call' = [call EXCEPT ![r].at = "cleared"]
        /\ UNCHANGED row
     \/ policy = "forbidden" /\ Reply(r, "forbidden") /\ UNCHANGED row
     \/ policy = "gated" /\ Reply(r, "unavailable") /\ UNCHANGED row
     \/ /\ policy = "gated"
        /\ call' = [call EXCEPT ![r].at = "waiting"]
        /\ row' = [row EXCEPT ![r] = "pending"]
  /\ UNCHANGED <<policy, client, due, server>>

\* The waiting coroutine finds the row decided; a cancellation it overlooks.
Heed(r) ==
  /\ up /\ call[r].at = "waiting"
  /\ row[r] \in {"approved", "rejected", "expired", "timeout"}
  /\ IF row[r] = "approved" THEN call' = [call EXCEPT ![r].at = "cleared"]
                            ELSE Reply(r, "approval_required")
  /\ UNCHANGED <<policy, client, rows, server>>

\* Its time is up, whatever the row says by now ...
TimeOut(r) ==
  /\ up /\ call[r].at = "waiting"
  /\ r \in due
  /\ call' = [call EXCEPT ![r].at = "givingUp"]
  /\ UNCHANGED <<policy, client, rows, server>>

\* ... and it marks the row, if that is still open and can be written.
MarkTimeout(r) ==
  /\ up /\ call[r].at = "givingUp"
  /\ \/ row[r] = "pending" /\ row' = [row EXCEPT ![r] = "timeout"]
     \/ UNCHANGED row
  /\ Reply(r, "approval_required")
  /\ UNCHANGED <<policy, client, due, server>>

\* call_tool: the limits refuse the call, or the tool starts.
CallTool(r) ==
  /\ up /\ call[r].at = "cleared"
  /\ \/ Reply(r, "limited")
     \/ call' = [call EXCEPT ![r].at = "running", ![r].ran = TRUE]
  /\ UNCHANGED <<policy, client, rows, server>>

Return(r) ==
  /\ up /\ call[r].at = "running"
  /\ Reply(r, "result") \/ Reply(r, "failed")
  /\ UNCHANGED <<policy, client, rows, server>>

\* An administrator decides a row, from whatever program.
Decide(r) ==
  /\ row[r] = "pending"
  /\ \E v \in {"approved", "rejected", "cancelled"} : row' = [row EXCEPT ![r] = v]
  /\ UNCHANGED <<policy, client, call, due, server>>

\* expires_at is reached.
Expire(r) ==
  /\ row[r] # "none"
  /\ r \notin due
  /\ due' = due \cup {r}
  /\ UNCHANGED <<policy, client, call, row, server>>

\* cleanup_expired_approvals, should anybody call it: startup does not get as far as starting
\* the task that would.
Cleanup ==
  /\ up
  /\ \E r \in due : row[r] = "pending"
  /\ row' = [r \in Request |-> IF r \in due /\ row[r] = "pending" THEN "expired" ELSE row[r]]
  /\ UNCHANGED <<policy, client, call, due, server>>

\* The server dies with all its coroutines ...
Crash ==
  /\ up
  /\ crashes < MaxCrashes
  /\ up' = FALSE
  /\ crashes' = crashes + 1
  /\ call' = [r \in Request |->
                IF call[r].at \in {"none", "answered"} THEN call[r]
                ELSE [call[r] EXCEPT !.at = "lost"]]
  /\ UNCHANGED <<policy, client, rows>>

\* ... and is started again, which startup_event with RBAC on does not allow: a host that
\* goes on without it serves what it served before.
Startup ==
  /\ ~up
  /\ up' = TRUE
  /\ UNCHANGED <<policy, client, call, rows, crashes>>

ServerStep(r) ==
  Check(r) \/ Heed(r) \/ TimeOut(r) \/ MarkTimeout(r) \/ CallTool(r) \/ Return(r)

Next ==
  \/ \E c \in Client : Post(c) \/ ClientStep(c)
  \/ \E r \in Request : ServerStep(r) \/ Decide(r) \/ Expire(r)
  \/ Cleanup \/ Crash \/ Startup

\* The client is a program that runs to its end: its timers fire and its loop
\* goes on.  Nothing is asked of the server or of an administrator.
Fairness == \A c \in Client : WF_vars(ClientStep(c))

Spec == Init /\ [][Next]_vars /\ Fairness

(***************************************************************************)
(* Properties.                                                             *)
(***************************************************************************)

Runs(c) == {r \in Request : call[r].by = c /\ call[r].ran}

\* However often a client posts its call, the tool runs at most once for it:
\* it posts again only when the earlier request can no longer reach the tool.
AtMostOnce == \A c \in Client : Cardinality(Runs(c)) <= 1

\* What the user is told is true, also in the end: after "denied", "expired"
\* or "disabled" nothing was run and nothing will be, although rows of the
\* call may still be approved; after data the server answered this call.
ToldTheTruth ==
  \A c \in Client :
    /\ client[c].told \in {"denied", "expired", "disabled"} =>
         /\ Runs(c) = {}
         /\ \A r \in Request : call[r].by = c => call[r].at = "answered"
    /\ client[c].told = "data" => Runs(c) \subseteq {client[c].request}

\* A client comes back to its user whatever the server does, unless approvals
\* that come too late make it post again and again (here: until there are no
\* requests left).
EveryClientTold ==
  \A c \in Client :
    client[c].at \in {"posted", "polling"} ~> (client[c].at = "told" \/ Fresh = {})
=============================================================================
