-------------------------- MODULE SandboxSessions --------------------------
(***************************************************************************)
(* The sessions of the code sandbox (mcp-server/sandbox.py) as the         *)
(* security administration API and the execute_python tool use them.       *)
(*                                                                         *)
(* EnhancedSandbox.execute_code runs in one event loop: from one await to  *)
(* the next it is one step.  It validates or creates the session, counts   *)
(* the execution, lets the validator look at the code and then awaits the  *)
(* interpreter, in a container or as a process, for at most RunTime.       *)
(* Other calls of the same session run meanwhile, and what the awaited     *)
(* code did wrong is charged to the session afterwards, by its name.       *)
(***************************************************************************)
EXTENDS Integers, FiniteSets, Functions

CONSTANTS
  Session,     \* names a client may give its session
  Call,        \* calls of execute_code
  MaxSessions, \* MCP_MAX_SESSIONS
  Timeout,     \* MCP_SESSION_TIMEOUT
  RunTime,     \* max_cpu_time_sec, the time limit of one execution
  Grace,       \* how long after that limit its call may still be under way
  BlockAfter,  \* violations that close a session: 5 in the code
  Horizon      \* bound of the clock

ASSUME LimitsAssumption ==
  /\ {MaxSessions, RunTime, BlockAfter, Horizon} \subseteq Nat \ {0}
  /\ {Timeout, Grace} \subseteq Nat

\* The time limit of an execution lies well inside the life of an idle
\* session (30 seconds and an hour unless the environment says otherwise).
ASSUME RunsAreShort == RunTime + Grace <= Timeout

VARIABLES
  now,       \* the clock, time.time()
  sessions,  \* SessionManager.sessions, from names to what is kept of them
  calls,     \* the calls of execute_code, with what became of them
  born,      \* how many sessions were ever created
  cleaned    \* when cleanup_expired_sessions last ran

sandboxVars == <<now, sessions, calls, born, cleaned>>

\* A session: the number it was created under, last_activity,
\* execution_count and security_violations.
SessionInfo == [born : Nat, since : Nat, executions : Nat, violations : Nat]

\* A call: its session and the number of the one it was let into, since when
\* it runs, and the number of the session it charged a violation to (0: none).
CallInfo == [at : {"idle", "running", "done", "refused", "invalid"},
             session : Session, in : Nat, began : Nat,
             violation : BOOLEAN, charged : Nat]

SandboxTypeOK ==
  /\ now \in 0 .. Horizon
  /\ DOMAIN sessions \subseteq Session
  /\ Cardinality(DOMAIN sessions) <= MaxSessions
  /\ \A s \in DOMAIN sessions : sessions[s] \in SessionInfo
  /\ calls \in [Call -> CallInfo]
  /\ born \in Nat
  /\ cleaned \in 0 .. Horizon

SandboxInit ==
  /\ now = 0
  /\ sessions = [s \in {} |-> [born |-> 0, since |-> 0, executions |-> 0, violations |-> 0]]
  /\ calls \in [Call -> [at : {"idle"}, session : Session, in : {0}, began : {0},
                           violation : {FALSE}, charged : {0}]]
  /\ born = 0
  /\ cleaned = 0

(***************************************************************************)
(* The session table.                                                      *)
(***************************************************************************)

Drop(names) == Restrict(sessions, DOMAIN sessions \ names)

Expired(s) == now - sessions[s].since > Timeout

\* validate_session: the name is known and was used recently.  An expired
\* session is deleted on the way, a valid one counts as used now.
Valid(s) == s \in DOMAIN sessions /\ ~Expired(s)

\* create_session finds room, once validate_session has deleted s.
HasRoom(s) == Cardinality(DOMAIN sessions \ {s}) < MaxSessions

\* A plausible slip: only a new session gets its time of last use.
Opened_Unrefreshed(s) ==
  IF Valid(s)
    THEN [sessions EXCEPT ![s].executions = @ + 1]
    ELSE [t \in DOMAIN sessions \cup {s} |->
            IF t # s THEN sessions[t]
            ELSE [born |-> born + 1, since |-> now, executions |-> 1, violations |-> 0]]

\* The table once s has been validated or created and its execution counted.
Opened(s) ==
  IF Valid(s)
    THEN [sessions EXCEPT ![s].since = now, ![s].executions = @ + 1]
    ELSE [t \in DOMAIN sessions \cup {s} |->
            IF t # s THEN sessions[t]
            ELSE [born |-> born + 1, since |-> now, executions |-> 1, violations |-> 0]]

\* record_security_violation: the session with that name, if there is one
\* now, gets one more and is closed at the limit.
Charge(table, s) ==
  IF s \notin DOMAIN table THEN table
  ELSE IF table[s].violations + 1 >= BlockAfter
    THEN Restrict(table, DOMAIN table \ {s})
    ELSE [table EXCEPT ![s].violations = @ + 1]

ChargedBy(table, s) == IF s \in DOMAIN table THEN table[s].born ELSE 0

(***************************************************************************)
(* The calls: informed says whether the caller describes its client.       *)
(***************************************************************************)

\* Neither a session nor the right to have one: the call is over at once.
Refuse(c, informed) ==
  LET s == calls[c].session IN
  /\ calls[c].at = "idle"
  /\ ~Valid(s)
  /\ informed => ~HasRoom(s)
  /\ sessions' = Drop({s})
  /\ calls' = [calls EXCEPT ![c].at = IF informed THEN "refused" ELSE "invalid"]
  /\ UNCHANGED <<now, born, cleaned>>

Admitted(c, informed) ==
  LET s == calls[c].session IN
  /\ calls[c].at = "idle"
  /\ Valid(s) \/ (informed /\ HasRoom(s))
  /\ born' = IF Valid(s) THEN born ELSE born + 1

\* The validator lets the code pass and the interpreter is started.  The
\* guard on the clock keeps the end of the execution within the horizon.
Start(c, informed) ==
  LET s == calls[c].session IN
  /\ now + RunTime + Grace <= Horizon
  /\ Admitted(c, informed)
  /\ sessions' = Opened(s)
  /\ calls' = [calls EXCEPT ![c].at = "running", ![c].in = Opened(s)[s].born,
                            ![c].began = now]
  /\ UNCHANGED <<now, cleaned>>

\* The validator raises a SecurityError: no await comes between that and the
\* violation in the books.
Reject(c, informed) ==
  LET s == calls[c].session
      mine == Opened(s)[s].born IN
  /\ Admitted(c, informed)
  /\ sessions' = Charge(Opened(s), s)
  /\ calls' = [calls EXCEPT ![c].at = "done", ![c].in = mine,
                            ![c].violation = TRUE, ![c].charged = mine]
  /\ UNCHANGED <<now, cleaned>>

Ended(c) == [calls[c] EXCEPT !.at = "done"]

\* The interpreter ends by itself, or cannot be started.
Finish(c) ==
  /\ calls[c].at = "running"
  /\ calls' = [calls EXCEPT ![c] = Ended(c)]
  /\ UNCHANGED <<now, sessions, born, cleaned>>

\* It fails with the word Security in its error output: that is a violation
\* of the session that bears the name now.
FinishInViolation(c) ==
  LET s == calls[c].session IN
  /\ calls[c].at = "running"
  /\ sessions' = Charge(sessions, s)
  /\ calls' = [calls EXCEPT ![c] =
                 [Ended(c) EXCEPT !.violation = TRUE, !.charged = ChargedBy(sessions, s)]]
  /\ UNCHANGED <<now, born, cleaned>>

\* The time limit of ResourceLimits is used up.
Overdue(c) == now - calls[c].began >= RunTime

\* wait_for gives up, the process is killed and waited for.
TimeOut(c) ==
  /\ calls[c].at = "running"
  /\ Overdue(c)
  /\ calls' = [calls EXCEPT ![c] = Ended(c)]
  /\ UNCHANGED <<now, sessions, born, cleaned>>

\* A plausible slip: the loop over the expired sessions ends after the first.
CleanupSessions_First ==
  /\ sessions' = Drop(LET old == {s \in DOMAIN sessions : Expired(s)}
                      IN IF old = {} THEN {} ELSE {CHOOSE s \in old : TRUE})
  /\ cleaned' = now
  /\ UNCHANGED <<now, calls, born>>

\* POST /security/sessions/cleanup: cleanup_expired_sessions.
CleanupSessions ==
  /\ sessions' = Drop({s \in DOMAIN sessions : Expired(s)})
  /\ cleaned' = now
  /\ UNCHANGED <<now, calls, born>>

\* Time passes; the timer of an execution fires at most Grace late.
Tick ==
  /\ now < Horizon
  /\ \A c \in Call : calls[c].at = "running" => now - calls[c].began < RunTime + Grace
  /\ now' = now + 1
  /\ UNCHANGED <<sessions, calls, born, cleaned>>

\* POST /security/execute: execute_code_with_audit makes up the client's
\* description when the request has none.
AdminCall(c) == Refuse(c, TRUE) \/ Start(c, TRUE) \/ Reject(c, TRUE)

\* SecureExecutionEnvironment.execute_python_code gives none.
LegacyCall(c) == Refuse(c, FALSE) \/ Start(c, FALSE) \/ Reject(c, FALSE)

SandboxNext ==
  \/ \E c \in Call : AdminCall(c) \/ LegacyCall(c)
  \/ \E c \in Call : Finish(c) \/ FinishInViolation(c) \/ TimeOut(c)
  \/ CleanupSessions
  \/ Tick

SandboxSpec == SandboxInit /\ [][SandboxNext]_sandboxVars

(***************************************************************************)
(* Properties.                                                             *)
(***************************************************************************)

ChargedTo(k) == {c \in Call : calls[c].charged = k}

\* A violation is charged to the session its code ran in.  It goes to another
\* session of the same name, or to none, only if its own was closed for
\* BlockAfter other violations while the code was running: expiry and cleanup
\* never take a session away under a running execution.  A session in the table
\* has as many violations as calls charged it, and fewer than close a session.
ViolationsAccounted ==
  /\ \A c \in Call :
       calls[c].violation /\ calls[c].charged # calls[c].in
         => Cardinality(ChargedTo(calls[c].in)) = BlockAfter
  /\ \A s \in DOMAIN sessions :
       /\ sessions[s].violations = Cardinality(ChargedTo(sessions[s].born))
       /\ sessions[s].violations < BlockAfter

\* A client that names itself is turned away only by MaxSessions sessions
\* that were all in use less than Timeout before the last cleanup: whoever
\* cleans up first is never refused because of sessions nobody uses.
RefusedByCrowd ==
  [][\A c \in Call :
       calls[c].at = "idle" /\ calls'[c].at = "refused"
         => Cardinality({s \in DOMAIN sessions' :
                           cleaned - sessions'[s].since <= Timeout}) >= MaxSessions]_sandboxVars
=============================================================================
