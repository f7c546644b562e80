----------------------------- MODULE RateLimiter -----------------------------
(***************************************************************************)
(* Rate limiting of tool calls (services/mcp-server/rate_limiter.py) as    *)
(* the handler of POST /tools/{tool_name}/call drives it (app.py,          *)
(* call_tool).  The limiter keeps its state for each tool and user apart,  *)
(* so the module is about one such pair with a configured limit.           *)
(*                                                                         *)
(* From the rate check to the start of the execution the handler awaits    *)
(* nothing: it is one step.  The execution is awaited, so others start and *)
(* end meanwhile.  Time is in whole seconds and only moves forward.        *)
(***************************************************************************)
EXTENDS Naturals, Sequences, FiniteSets

CONSTANTS
    Callers,            \* concurrent uses of the endpoint by this user for this tool
    MaxRequests,        \* RateLimit.max_requests
    BurstSize,          \* RateLimit.burst_size
    TimeWindow,         \* RateLimit.time_window
    MaxConcurrent,      \* AccessControlRule.max_concurrent
    MaxTime             \* bound on the time the module looks at

ASSUME LimitsAssumption ==
    /\ MaxRequests \in Nat \ {0}
    /\ BurstSize \in Nat
    /\ TimeWindow \in Nat
    /\ MaxConcurrent \in Nat \ {0}
    /\ MaxTime \in Nat

VARIABLES
    now,            \* time.time()
    history,        \* request_history: times of the requests in the window
    admitted,       \* times of all requests that passed the rate check
    permitted,      \* what check_access says about this user and tool
    concurrent,     \* concurrent_executions
    executing,      \* the callers whose tool is being executed
    answer,         \* answer[c]: what caller c was last answered
    retryAt         \* when the last refusal said to try again, 0 if none

vars == <<now, history, admitted, permitted, concurrent, executing, answer, retryAt>>

MaxAllowed == MaxRequests + BurstSize
Answers == {"none", "rate_limit", "access_denied", "concurrent_limit", "success", "error"}

TypeOK ==
    /\ now \in 1..MaxTime + 1
    /\ history \in Seq(1..MaxTime + 1)
    /\ Len(history) <= MaxAllowed
    /\ admitted \in Seq(1..MaxTime + 1)
    /\ permitted \in BOOLEAN
    /\ concurrent \in Nat
    /\ executing \subseteq Callers
    /\ answer \in [Callers -> Answers]
    /\ retryAt \in Nat

Init ==
    /\ now = 1
    /\ history = <<>>
    /\ admitted = <<>>
    /\ permitted \in BOOLEAN
    /\ concurrent = 0
    /\ executing = {}
    /\ answer = [c \in Callers |-> "none"]
    /\ retryAt = 0

Tick ==
    /\ now <= MaxTime
    /\ now' = now + 1
    /\ UNCHANGED <<history, admitted, permitted, concurrent, executing, answer, retryAt>>

-----------------------------------------------------------------------------
(* RateLimiter.                                                            *)

\* Faulty variant: a request as old as the window is out of it already.
StaleAtWindow(t) == now - t >= TimeWindow

Stale(t) == now - t > TimeWindow

\* The popleft loop takes away n entries: the stale ones at the front.
Prunes(n) == /\ n \in 0..Len(history)
             /\ \A i \in 1..n : Stale(history[i])
             /\ n < Len(history) => ~Stale(history[n + 1])

Pruned(n) == SubSeq(history, n + 1, Len(history))

\* Faulty variant: refused requests are recorded too.
RefuseAndRecord(c, h) ==
    /\ Len(h) >= MaxAllowed
    /\ history' = Append(h, now)
    /\ retryAt' = now + (TimeWindow - (now - h[1]))
    /\ answer' = [answer EXCEPT ![c] = "rate_limit"]
    /\ UNCHANGED <<admitted, concurrent, executing>>

\* check_rate_limit refuses and tells how many seconds to wait.
Refuse(c, h) ==
    /\ Len(h) >= MaxAllowed
    /\ history' = h
    /\ retryAt' = now + (TimeWindow - (now - h[1]))
    /\ answer' = [answer EXCEPT ![c] = "rate_limit"]
    /\ UNCHANGED <<admitted, concurrent, executing>>

\* Faulty variant: one execution too many is let in.
FullAboveLimit == concurrent > MaxConcurrent

Full == concurrent >= MaxConcurrent

\* check_rate_limit records the request and lets it pass; then check_access and
\* start_execution may still turn it down.
Admit(c, h) ==
    /\ Len(h) < MaxAllowed
    /\ history' = Append(h, now)
    /\ admitted' = Append(admitted, now)
    /\ retryAt' = 0
    /\ IF permitted /\ ~Full
       THEN /\ concurrent' = concurrent + 1
            /\ executing' = executing \cup {c}
            /\ UNCHANGED answer
       ELSE /\ answer' = [answer EXCEPT ![c] = IF permitted THEN "concurrent_limit"
                                                            ELSE "access_denied"]
            /\ UNCHANGED <<concurrent, executing>>

\* call_tool up to the await of the tool.
CallTool(c) ==
    /\ c \notin executing
    /\ \E n \in 0..Len(history) : Prunes(n) /\ (Refuse(c, Pruned(n)) \/ Admit(c, Pruned(n)))
    /\ UNCHANGED <<now, permitted>>

\* The tool returns or raises; end_execution runs in the finally clause.
Return(c) ==
    /\ c \in executing
    /\ \E a \in {"success", "error"} : answer' = [answer EXCEPT ![c] = a]
    /\ concurrent' = IF concurrent > 0 THEN concurrent - 1 ELSE concurrent
    /\ executing' = executing \ {c}
    /\ UNCHANGED <<now, history, admitted, permitted, retryAt>>

\* get_current_usage: the "remaining" it reports.
Remaining ==
    LET valid == {i \in 1..Len(history) : now - history[i] <= TimeWindow}
        used  == Cardinality(valid)
    IN  IF used >= MaxAllowed THEN 0 ELSE MaxAllowed - used

Next == Tick \/ \E c \in Callers : CallTool(c) \/ Return(c)

Spec == Init /\ [][Next]_vars

-----------------------------------------------------------------------------
(* Properties that hold.                                                   *)

\* No more than MaxAllowed requests pass in any stretch of TimeWindow seconds,
\* wherever the stretch begins.
WindowBound ==
    \A i \in 1..Len(admitted) :
        i + MaxAllowed <= Len(admitted) => admitted[i + MaxAllowed] - admitted[i] > TimeWindow

\* A request is only refused when MaxAllowed others passed within the window, whatever was
\* refused, pruned or reported in between, and the usage endpoint foretells it: nothing
\* remains exactly when a call would be refused.
RefusalJustified ==
    [][\A c \in Callers : CallTool(c) =>
          /\ retryAt' # 0 => Cardinality({i \in 1..Len(admitted) : now - admitted[i] <= TimeWindow})
                                >= MaxAllowed
          /\ retryAt' # 0 <=> Remaining = 0]_vars

\* The counter of executions is the number of executions there are ...
CountIsTrue == concurrent = Cardinality(executing)

\* ... which never exceeds the limit.
ConcurrencyBound == Cardinality(executing) <= MaxConcurrent
=============================================================================
