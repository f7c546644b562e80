-------------------------- MODULE ApprovalWorkflow --------------------------
(***************************************************************************)
(* The approval workflow of the MCP server (services/mcp-server).          *)
(*                                                                         *)
(* A call of a HIGH or CRITICAL tool inserts a row in approval_requests    *)
(* and its coroutine polls that row (rbac_manager.py, _wait_for_approval). *)
(* The row is decided by whoever comes first: the admin REST endpoints     *)
(* (app.py), the v1 API (api/v1/approvals.py), two command-line tools that *)
(* are processes of their own (scripts/approval_admin.py, approval_cli.py),*)
(* the cleanup of overdue rows, or the waiter itself when it times out.    *)
(* Every await is a point where the others run, so a database call is a    *)
(* step of its own; so is the server's death, which takes its coroutines   *)
(* with it and leaves the rows.                                            *)
(*                                                                         *)
(* Nothing calls the cleanup in the code as it is: startup_event means to  *)
(* start approval_cleanup_task, but with RBAC on it uses a name it has not *)
(* imported (get_security_database, app.py 341), raises the NameError      *)
(* again and never comes to line 370.  CleanupRuns says whether somebody   *)
(* calls cleanup_expired_approvals all the same, as its test does; where   *)
(* it is TRUE the cleanup may happen at any time, or never.                *)
(*                                                                         *)
(* Time is one bit per request: expires_at has been reached or not.  The   *)
(* waiter's own timeout starts after the INSERT and is as long, so it only *)
(* fires once expires_at has been reached.  The module is about gated      *)
(* calls (permission granted, approval required) with e-mail off           *)
(* (NOTIFICATION_ENABLED=false, the default); `audit' holds the entries    *)
(* handed to the audit logger.                                             *)
(***************************************************************************)
EXTENDS Naturals

CONSTANTS
    Requests,       \* gated tool calls, each with its fresh request_id
    Responders,     \* one use each of an endpoint or command that decides a request
    Nobody,         \* responder_id IS NULL
    Waiter,         \* responder_id 'system': the waiter marking its own timeout
    NoJob,          \* the job of a responder that has not been called yet
    Kinds,          \* the ways to decide a request that are in use
    IdForms,        \* how responders name a request: "full" UUID or "short" prefix
    DbMayFail,      \* whether a write may fail (database is locked)
    CleanupRuns,    \* whether anybody calls cleanup_expired_approvals
    MaxCrashes      \* bound on the deaths of the server

\* "rest": POST /api/approvals/{id}/approve and /reject     (app.py)
\* "api": PUT, "cancel": DELETE /api/v1/approvals/{id}      (api/v1/approvals.py)
\* "admin": approval_admin.py approve | reject, "cli": approval_cli.py
ServerKinds == {"rest", "api", "cancel"}
AllKinds == ServerKinds \cup {"admin", "cli"}

ASSUME ConstantsAssumption ==
    /\ {Nobody, Waiter} \cap Responders = {}
    /\ Nobody # Waiter
    /\ Kinds \subseteq AllKinds
    /\ IdForms \subseteq {"full", "short"}
    /\ DbMayFail \in BOOLEAN
    /\ CleanupRuns \in BOOLEAN
    /\ MaxCrashes \in Nat

VARIABLES
    rows,       \* the table: rows[r] has the status and responder_id columns
    expired,    \* the requests whose expires_at has been reached
    call,       \* call[r]: where the coroutine of request r stands
    verdict,    \* verdict[r]: what _wait_for_approval returned
    ran,        \* the requests whose tool was executed
    job,        \* job[p]: what responder p was asked to do
    resp,       \* resp[p]: how far it got, at last what it was told
    audit,      \* entries handed to the audit logger
    reported,   \* reported[r]: final statuses the status endpoint answered
    up,         \* the server process is alive
    crashes     \* how often it died

waiting == <<expired, call, verdict, ran>>
deciding == <<job, resp>>
server == <<up, crashes>>
vars == <<rows, expired, call, verdict, ran, job, resp, audit, reported, up, crashes>>

Verdicts == {"approved", "rejected", "expired", "timeout", "cancelled"}
Actors == Responders \cup {Nobody, Waiter}
Row == [status : Verdicts \cup {"none", "pending"}, by : Actors]

CallStates == {"idle", "created", "polling", "granted", "timingOut",
               "marking", "reporting", "done", "lost"}
Answering == CallStates \ {"idle", "done", "lost"}
Results == {"none", "approved", "rejected", "expired", "timeout", "create_failed"}

Job == [kind : AllKinds, target : Requests, form : {"full", "short"},
        choice : {"approved", "rejected", "cancelled"}]
Working == {"looked", "checked", "written"}
RespStates == Working \cup {"idle", "ok", "refused", "not_found", "failed", "dead"}

Entry == [event : {"requested", "granted", "rejected", "timeout", "denied", "success"},
          req : Requests, by : Actors]

TypeOK ==
    /\ rows \in [Requests -> Row]
    /\ expired \subseteq Requests
    /\ call \in [Requests -> CallStates]
    /\ verdict \in [Requests -> Results]
    /\ ran \subseteq Requests
    /\ job \in [Responders -> Job \cup {NoJob}]
    /\ resp \in [Responders -> RespStates]
    /\ audit \subseteq Entry
    /\ reported \in [Requests -> SUBSET Verdicts]
    /\ up \in BOOLEAN
    /\ crashes \in 0..MaxCrashes

Init ==
    /\ rows = [r \in Requests |-> [status |-> "none", by |-> Nobody]]
    /\ expired = {}
    /\ call = [r \in Requests |-> "idle"]
    /\ verdict = [r \in Requests |-> "none"]
    /\ ran = {}
    /\ job = [p \in Responders |-> NoJob]
    /\ resp = [p \in Responders |-> "idle"]
    /\ audit = {}
    /\ reported = [r \in Requests |-> {}]
    /\ up = TRUE
    /\ crashes = 0

-----------------------------------------------------------------------------
(* The table, and the statements that write it (security_database.py).     *)

Pending(r) == rows[r].status = "pending"
Decided(r) == rows[r].status \in Verdicts

\* Faulty variant: the UPDATE without "AND status = 'pending'".
UpdateAnyway(r, s, p) == [rows EXCEPT ![r] = [status |-> s, by |-> p]]

\* UPDATE ... SET status, responder_id WHERE request_id = r AND status = 'pending'.
\* Callers do not look at how many rows it changed.
UpdatePending(r, s, p) ==
    IF Pending(r) THEN [rows EXCEPT ![r] = [status |-> s, by |-> p]] ELSE rows

\* The SELECT with which update_approval_status decides whether to go on.
StillPending(r) == Pending(r)

Log(event, r, p) == audit \cup {[event |-> event, req |-> r, by |-> p]}

-----------------------------------------------------------------------------
(* The gated call: RBACMiddleware.dispatch and _wait_for_approval.         *)

\* The INSERT of the pending row, expires_at = now + timeout.
Submit(r) ==
    /\ up
    /\ call[r] = "idle"
    /\ rows' = [rows EXCEPT ![r].status = "pending"]
    /\ call' = [call EXCEPT ![r] = "created"]
    /\ UNCHANGED <<expired, verdict, ran, deciding, audit, reported, server>>

\* The INSERT fails: the caller gets 503 and the call is not executed.
SubmitFails(r) ==
    /\ up
    /\ DbMayFail
    /\ call[r] = "idle"
    /\ verdict' = [verdict EXCEPT ![r] = "create_failed"]
    /\ call' = [call EXCEPT ![r] = "done"]
    /\ audit' = Log("denied", r, Nobody)
    /\ UNCHANGED <<rows, expired, ran, deciding, reported, server>>

\* The row is read back for its expires_at, the request is logged, polling starts.
Announce(r) ==
    /\ up
    /\ call[r] = "created"
    /\ call' = [call EXCEPT ![r] = "polling"]
    /\ audit' = Log("requested", r, Nobody)
    /\ UNCHANGED <<rows, expired, verdict, ran, deciding, reported, server>>

\* The statuses poll_approval stops at; a "cancelled" row is polled on.
PollStops == {"approved", "rejected", "expired", "timeout"}

\* Faulty variant: only "rejected" is taken for a denial.
GrantsUnlessRejected(s) == s # "rejected"

Grants(s) == s = "approved"

\* One turn of poll_approval.  A turn that finds nothing sleeps and changes nothing.
Poll(r) ==
    /\ up
    /\ call[r] = "polling"
    /\ rows[r].status \in PollStops
    /\ verdict' = [verdict EXCEPT ![r] = rows[r].status]
    /\ IF Grants(rows[r].status)
       THEN /\ call' = [call EXCEPT ![r] = "granted"]
            /\ UNCHANGED audit
       ELSE /\ call' = [call EXCEPT ![r] = "done"]
            /\ audit' = Log("denied", r, Nobody)
    /\ UNCHANGED <<rows, expired, ran, deciding, reported, server>>

\* The read of a turn fails: the exception leaves the middleware, the caller gets
\* 500, and the row stays behind.
PollFails(r) ==
    /\ up
    /\ DbMayFail
    /\ call[r] = "polling"
    /\ call' = [call EXCEPT ![r] = "lost"]
    /\ UNCHANGED <<rows, expired, verdict, ran, deciding, audit, reported, server>>

\* call_next: the tool runs, the middleware logs the success.
Execute(r) ==
    /\ up
    /\ call[r] = "granted"
    /\ ran' = ran \cup {r}
    /\ call' = [call EXCEPT ![r] = "done"]
    /\ audit' = Log("success", r, Nobody)
    /\ UNCHANGED <<rows, expired, verdict, deciding, reported, server>>

\* expires_at is reached.
Expire(r) ==
    /\ rows[r].status # "none"
    /\ r \notin expired
    /\ expired' = expired \cup {r}
    /\ UNCHANGED <<rows, call, verdict, ran, deciding, audit, reported, server>>

\* Faulty variant: the wait is only cut short while the row is undecided.
TimeOutIfPending(r) ==
    /\ up
    /\ call[r] = "polling"
    /\ r \in expired
    /\ Pending(r)
    /\ call' = [call EXCEPT ![r] = "timingOut"]
    /\ UNCHANGED <<rows, expired, verdict, ran, deciding, audit, reported, server>>

\* asyncio.wait_for gives up, whatever the row says by now ...
TimeOut(r) ==
    /\ up
    /\ call[r] = "polling"
    /\ r \in expired
    /\ call' = [call EXCEPT ![r] = "timingOut"]
    /\ UNCHANGED <<rows, expired, verdict, ran, deciding, audit, reported, server>>

\* ... update_approval_status(status="timeout") looks whether it is still pending ...
CheckBeforeMark(r) ==
    /\ up
    /\ call[r] = "timingOut"
    /\ call' = [call EXCEPT ![r] = IF StillPending(r) THEN "marking" ELSE "reporting"]
    /\ UNCHANGED <<rows, expired, verdict, ran, deciding, audit, reported, server>>

\* ... and writes, or fails to; the waiter does not look at the result.
MarkTimeout(r) ==
    /\ up
    /\ call[r] = "marking"
    /\ call' = [call EXCEPT ![r] = "reporting"]
    /\ \/ rows' = UpdatePending(r, "timeout", Waiter)
       \/ DbMayFail /\ UNCHANGED rows
    /\ UNCHANGED <<expired, verdict, ran, deciding, audit, reported, server>>

\* The timeout is logged and the caller gets 403.
ReportTimeout(r) ==
    /\ up
    /\ call[r] = "reporting"
    /\ verdict' = [verdict EXCEPT ![r] = "timeout"]
    /\ call' = [call EXCEPT ![r] = "done"]
    /\ audit' = Log("timeout", r, Waiter) \cup Log("denied", r, Nobody)
    /\ UNCHANGED <<rows, expired, ran, deciding, reported, server>>

-----------------------------------------------------------------------------
(* Deciding a request.  Admission (the admin role, the API key) is taken   *)
(* for granted here.                                                       *)

Jobs == {j \in Job : /\ j.kind \in Kinds
                     /\ j.form \in IdForms
                     /\ j.kind = "cancel" <=> j.choice = "cancelled"
                     /\ j.kind = "cli" => j.form = "full"}

Alive(p) == job[p].kind \in ServerKinds => up

\* The first read finds the row by UUID or prefix.  All but the REST handlers
\* look at its status; approval_cli.py has no second SELECT.
AfterLookup(j) ==
    IF rows[j.target].status = "none" THEN "not_found"
    ELSE IF j.kind # "rest" /\ ~Pending(j.target) THEN "refused"
    ELSE IF j.kind = "cli" THEN "checked" ELSE "looked"

Lookup(p) ==
    /\ resp[p] = "idle"
    /\ \E j \in Jobs :
          /\ j.kind \in ServerKinds => up
          /\ job' = [job EXCEPT ![p] = j]
          /\ resp' = [resp EXCEPT ![p] = AfterLookup(j)]
    /\ UNCHANGED <<rows, waiting, audit, reported, server>>

\* The first read fails with an exception.
LookupFails(p) ==
    /\ DbMayFail
    /\ resp[p] = "idle"
    /\ \E j \in Jobs :
          /\ j.kind \in ServerKinds => up
          /\ job' = [job EXCEPT ![p] = j]
    /\ resp' = [resp EXCEPT ![p] = "failed"]
    /\ UNCHANGED <<rows, waiting, audit, reported, server>>

\* The SELECT of update_approval_status, by the exact request_id only.
CheckPending(p) ==
    /\ resp[p] = "looked"
    /\ Alive(p)
    /\ LET found == job[p].form = "full" /\ StillPending(job[p].target)
       IN  resp' = [resp EXCEPT ![p] = IF found THEN "checked" ELSE "refused"]
    /\ UNCHANGED <<rows, waiting, job, audit, reported, server>>

\* The UPDATE and its commit: the responder is told it succeeded in any case.
Write(p) ==
    /\ resp[p] = "checked"
    /\ Alive(p)
    /\ rows' = UpdatePending(job[p].target, job[p].choice, p)
    /\ resp' = [resp EXCEPT ![p] = "written"]
    /\ UNCHANGED <<waiting, job, audit, reported, server>>

\* The SELECT or the UPDATE fails.  update_approval_status answers False, as if the
\* request had been processed; approval_cli.py ends with the exception.
WriteFails(p) ==
    /\ DbMayFail
    /\ resp[p] \in {"looked", "checked"}
    /\ Alive(p)
    /\ resp' = [resp EXCEPT ![p] = IF job[p].kind = "cli" THEN "failed" ELSE "refused"]
    /\ UNCHANGED <<rows, waiting, job, audit, reported, server>>

\* What is logged about a decision.  A cancellation is not, and the queue of
\* approval_admin.py's own audit logger has no writer: its entry goes nowhere.
DecisionLog(p) ==
    LET j == job[p]
    IN  CASE j.kind \in {"cancel", "admin"} -> audit
          [] j.choice = "approved"          -> Log("granted", j.target, p)
          [] OTHER                          -> Log("rejected", j.target, p)

\* The decision is logged; approval_cli.py goes on when its own INSERT of the entry fails.
Finish(p) ==
    /\ resp[p] = "written"
    /\ Alive(p)
    /\ resp' = [resp EXCEPT ![p] = "ok"]
    /\ \/ audit' = DecisionLog(p)
       \/ DbMayFail /\ job[p].kind = "cli" /\ UNCHANGED audit
    /\ UNCHANGED <<rows, waiting, job, reported, server>>

-----------------------------------------------------------------------------
(* The cleanup, the status endpoint, and the life of the server.           *)

Overdue(r) == Pending(r) /\ r \in expired

\* cleanup_expired_approvals: one UPDATE for every overdue row.
Cleanup ==
    /\ CleanupRuns
    /\ up
    /\ \E r \in Requests : Overdue(r)
    /\ rows' = [r \in Requests |->
                  IF Overdue(r) THEN [status |-> "expired", by |-> Nobody] ELSE rows[r]]
    /\ UNCHANGED <<waiting, deciding, audit, reported, server>>

\* GET /api/approvals/{id}/status answers "expired" for an overdue row it leaves pending.
Answer(r) == IF Overdue(r) THEN "expired" ELSE rows[r].status

ReportStatus(r) ==
    /\ up
    /\ Answer(r) \in Verdicts
    /\ reported' = [reported EXCEPT ![r] = @ \cup {Answer(r)}]
    /\ UNCHANGED <<rows, waiting, deciding, audit, server>>

\* The process dies with its coroutines; the table and the command-line tools live on.
Crash ==
    /\ up
    /\ crashes < MaxCrashes
    /\ up' = FALSE
    /\ crashes' = crashes + 1
    /\ call' = [r \in Requests |-> IF call[r] \in Answering THEN "lost" ELSE call[r]]
    /\ resp' = [p \in Responders |->
                  IF resp[p] \in Working /\ job[p].kind \in ServerKinds
                  THEN "dead" ELSE resp[p]]
    /\ UNCHANGED <<rows, expired, verdict, ran, job, audit, reported>>

\* Docker starts the container again.  A host that insists on the startup event does
\* not come up with RBAC on (see above); one that goes on without it has no cleanup task.
Restart ==
    /\ ~up
    /\ up' = TRUE
    /\ UNCHANGED <<rows, waiting, deciding, audit, reported, crashes>>

-----------------------------------------------------------------------------
Waiting(r) == \/ Submit(r) \/ SubmitFails(r) \/ Announce(r) \/ Poll(r) \/ PollFails(r)
              \/ Execute(r)
              \/ TimeOut(r) \/ CheckBeforeMark(r) \/ MarkTimeout(r) \/ ReportTimeout(r)

Responding(p) == \/ Lookup(p) \/ LookupFails(p) \/ CheckPending(p) \/ Write(p) \/ WriteFails(p)
                 \/ Finish(p)

Next == \/ \E r \in Requests : Waiting(r) \/ Expire(r) \/ ReportStatus(r)
        \/ \E p \in Responders : Responding(p)
        \/ Cleanup \/ Crash \/ Restart

Spec == Init /\ [][Next]_vars

\* Time passes and the event loop resumes every coroutine that is ready.  Nothing makes
\* a client call, an administrator respond, or a dead server come back.
Fairness ==
    \A r \in Requests :
        /\ WF_vars(Expire(r))
        /\ WF_vars(Announce(r))
        /\ WF_vars(Poll(r) \/ TimeOut(r))
        /\ WF_vars(Execute(r) \/ CheckBeforeMark(r) \/ MarkTimeout(r) \/ ReportTimeout(r))

FairSpec == Spec /\ Fairness

\* The best case for the rows: a dead server does come back, and whoever calls the
\* cleanup calls it again and again.
MaintainedSpec == FairSpec /\ WF_vars(Cleanup) /\ WF_vars(Restart)

-----------------------------------------------------------------------------
(* Properties that hold.                                                   *)

\* A decided row is never written again, whatever the waiter, the responders in
\* the server and out of it, and the cleanup do between each other's steps.
DecisionIsFinal ==
    [][\A r \in Requests : Decided(r) => rows'[r] = rows[r]]_vars

\* A tool only runs because some responder was asked to approve that very
\* request and its UPDATE was the one that decided the row.
ExecutionAuthorised ==
    \A r \in ran : \E p \in Responders :
        /\ rows[r] = [status |-> "approved", by |-> p]
        /\ job[p].target = r
        /\ job[p].choice = "approved"

\* What _wait_for_approval concluded from the row is still what the row says.
VerdictMatchesRow ==
    \A r \in Requests :
        verdict[r] \in {"approved", "rejected", "expired"} => rows[r].status = verdict[r]

\* A caller that was told "timeout" leaves no pending row behind, so nobody can be
\* asked to approve a call that is over.  Only where writes do not fail.
TimeoutCloses ==
    \A r \in Requests : verdict[r] = "timeout" => ~Pending(r)

\* A responder that gave the full id is only refused when the request is decided.
\* Only where writes do not fail.
RefusedOnlyIfDecided ==
    \A p \in Responders : resp[p] = "refused" => Decided(job[p].target)

\* Two polls of the status endpoint never contradict each other, except that an
\* overdue row is called "expired" early.
AnswersAgree ==
    \A r \in Requests : reported[r] \subseteq {rows[r].status, "expired"}

\* Every gated call is answered, or dies with the server or a failed read.
EveryCallAnswered ==
    \A r \in Requests : call[r] \in Answering ~> call[r] \in {"done", "lost"}

\* The workflow implements its abstract specification: decisions are taken once
\* and a tool runs at most once and only when approved.
Decision == INSTANCE ApprovalDecision
                WITH decision <- [r \in Requests |-> rows[r].status], executed <- ran

ImplementsDecision == Decision!Spec

-----------------------------------------------------------------------------
(* A claim of the documentation.                                           *)

\* No request is pending for ever: what its own waiter does not close, because the
\* server died, is marked "expired" by the cleanup that runs every minute.
EveryRowDecided ==
    \A r \in Requests : Pending(r) ~> Decided(r)

=============================================================================
