----------------------------- MODULE ModelSwitch -----------------------------
(***************************************************************************)
(* The tool switch_model of the MCP server (services/mcp-server/app.py):   *)
(* it looks which inference containers docker compose runs, asks the one   *)
(* in question for its model, and, if that is not the wanted one, stops    *)
(* and starts the container with another environment, waits for its health *)
(* check and asks again.                                                   *)
(*                                                                         *)
(* The docker commands block the event loop, so nothing of the server runs *)
(* between a stop and the start that follows; other calls get in where the *)
(* coroutine awaits an answer of a container or sleeps between two health  *)
(* checks.  A container may load its model for any length of time.         *)
(***************************************************************************)
EXTENDS Naturals

CONSTANTS
    Calls,      \* coroutines of switch_model
    Chat, Code, \* the model types; with two containers, the containers too
    Single,     \* the only container of the other layout
    Target,     \* Target[t]: CHAT_MODEL and CODE_MODEL of the server's environment
    Models,     \* the model files
    NoModel,    \* "unknown"
    MaxWait     \* health checks before a call gives up

Types == {Chat, Code}
Containers == Types \cup {Single}

ASSUME SwitchAssumption ==
    /\ Single \notin Types
    /\ Target \in [Types -> Models]
    /\ NoModel \notin Models
    /\ MaxWait \in Nat \ {0}

VARIABLES
    up,         \* the containers docker compose runs
    healthy,    \* those of them whose model is loaded
    model,      \* model[s]: the model container s was last started with
    startFailed,\* a start has ever failed
    step,       \* step[c]: what call c awaits
    type,       \* type[c]: the model type it was asked for
    on,         \* on[c]: the container it works on
    attempts,   \* attempts[c]: health checks so far
    result,     \* result[c]: what it has reported
    seen,       \* seen[c]: the models its container served since c was called
    rival       \* rival[c]: another call restarted the container after c did

containers == <<up, healthy, model, startFailed>>
switchVars == <<up, healthy, model, startFailed, step, type, on, attempts, result, seen, rival>>

Results == {"none", "success", "no layout", "no info", "no restart", "no health", "wrong model"}

SwitchTypeOK ==
    /\ up \subseteq Containers
    /\ healthy \subseteq up
    /\ model \in [Containers -> Models]
    /\ startFailed \in BOOLEAN
    /\ step \in [Calls -> {"idle", "info", "health", "verify"}]
    /\ type \in [Calls -> Types]
    /\ on \in [Calls -> Containers]
    /\ attempts \in [Calls -> 0..MaxWait]
    /\ result \in [Calls -> Results]
    /\ seen \in [Calls -> SUBSET Models]
    /\ rival \in [Calls -> BOOLEAN]

SwitchInit ==
    /\ up \in {Types, {Single}}
    /\ healthy = up
    /\ model \in [Containers -> Models]
    /\ startFailed = FALSE
    /\ step = [c \in Calls |-> "idle"]
    /\ type = [c \in Calls |-> Chat]
    /\ on = [c \in Calls |-> Single]
    /\ attempts = [c \in Calls |-> 0]
    /\ result = [c \in Calls |-> "none"]
    /\ seen = [c \in Calls |-> {}]
    /\ rival = [c \in Calls |-> FALSE]

(* _detect_phase: two containers, or one, or it cannot be told. *)
Dual == Types \subseteq up
Detected == Dual \/ Single \in up

ServedBy(s) == IF s \in healthy THEN {model[s]} ELSE {}

Report(c, r) ==
    /\ step' = [step EXCEPT ![c] = "idle"]
    /\ result' = [result EXCEPT ![c] = r]

(* The call begins and asks its container for the model it has loaded. *)
Begin(c, t) ==
    /\ step[c] = "idle"
    /\ type' = [type EXCEPT ![c] = t]
    /\ attempts' = [attempts EXCEPT ![c] = 0]
    /\ rival' = [rival EXCEPT ![c] = FALSE]
    /\ IF Detected
       THEN LET s == IF Dual THEN t ELSE Single
            IN /\ step' = [step EXCEPT ![c] = "info"]
               /\ on' = [on EXCEPT ![c] = s]
               /\ seen' = [seen EXCEPT ![c] = ServedBy(s)]
               /\ result' = [result EXCEPT ![c] = "none"]
       ELSE Report(c, "no layout") /\ UNCHANGED <<on, seen>>
    /\ UNCHANGED containers

(* _get_model_info: what a container answers, or no answer in time. *)
Info(s) == ServedBy(s) \cup {NoModel}

(* The environment a container is started with: with one container CHAT_MODEL
   names the model of either type. *)
ModelFor(s, t) == Target[t]

(* A mutant: a stop that is refused leaves the container out of the running
   ones, as if it had been stopped. *)
StopsAnyway(c) ==
    /\ up' = up \ {on[c]}
    /\ healthy' = healthy \ {on[c]}
    /\ Report(c, "no restart")
    /\ UNCHANGED <<model, startFailed, rival>>

(* _restart_service of the container c works on: stop, then start. *)
StopFails(c) ==
    /\ Report(c, "no restart")
    /\ UNCHANGED <<up, healthy, model, startFailed, rival>>

StartFails(c) ==
    /\ up' = up \ {on[c]}
    /\ healthy' = healthy \ {on[c]}
    /\ startFailed' = TRUE
    /\ Report(c, "no restart")
    /\ UNCHANGED <<model, rival>>

Restarts(c) ==
    /\ up' = up \cup {on[c]}
    /\ healthy' = healthy \ {on[c]}
    /\ model' = [model EXCEPT ![on[c]] = ModelFor(on[c], type[c])]
    /\ rival' = [d \in Calls |-> d # c /\ (rival[d] \/ (step[d] # "idle" /\ on[d] = on[c]))]
    /\ step' = [step EXCEPT ![c] = "health"]
    /\ UNCHANGED <<startFailed, result>>

(* The first answer.  With two containers a call whose container does not
   answer is over; with one it is restarted all the same. *)
Answered(c) ==
    /\ step[c] = "info"
    /\ \E m \in Info(on[c]) :
           \/ /\ m = Target[type[c]]
              /\ Report(c, "success")
              /\ UNCHANGED <<containers, rival>>
           \/ /\ m = NoModel
              /\ on[c] # Single
              /\ Report(c, "no info")
              /\ UNCHANGED <<containers, rival>>
           \/ /\ m # Target[type[c]]
              /\ m # NoModel \/ on[c] = Single
              /\ StopFails(c) \/ StartFails(c) \/ Restarts(c)
    /\ UNCHANGED <<type, on, attempts, seen>>

(* A mutant: an attempt that gets no answer is not counted. *)
CheckUncounted(c) ==
    /\ step[c] = "health"
    /\ on[c] \in healthy
    /\ step' = [step EXCEPT ![c] = "verify"]
    /\ UNCHANGED <<containers, type, on, attempts, result, seen, rival>>

(* One round of _wait_for_health: a healthy container may fail to answer. *)
Check(c) ==
    /\ step[c] = "health"
    /\ \/ /\ on[c] \in healthy
          /\ step' = [step EXCEPT ![c] = "verify"]
          /\ UNCHANGED <<attempts, result>>
       \/ /\ attempts' = [attempts EXCEPT ![c] = @ + 1]
          /\ IF attempts[c] + 1 = MaxWait
             THEN Report(c, "no health")
             ELSE UNCHANGED <<step, result>>
    /\ UNCHANGED <<containers, type, on, seen, rival>>

(* A mutant: the container is healthy, hence has the wanted model. *)
HealthyIsEnough(c) ==
    /\ step[c] = "verify"
    /\ Report(c, "success")
    /\ UNCHANGED <<containers, type, on, attempts, seen, rival>>

(* The second answer decides what is reported. *)
Verify(c) ==
    /\ step[c] = "verify"
    /\ \E m \in Info(on[c]) :
           Report(c, IF m = Target[type[c]] THEN "success"
                     ELSE IF m = NoModel THEN "no info" ELSE "wrong model")
    /\ UNCHANGED <<containers, type, on, attempts, seen, rival>>

(* A container has loaded its model. *)
Loaded(s) ==
    /\ s \in up \ healthy
    /\ healthy' = healthy \cup {s}
    /\ seen' = [c \in Calls |->
                   IF step[c] # "idle" /\ on[c] = s THEN seen[c] \cup {model[s]} ELSE seen[c]]
    /\ UNCHANGED <<up, model, startFailed, step, type, on, attempts, result, rival>>

(* A container that dies is started again by docker ("unless-stopped"). *)
Dies(s) ==
    /\ s \in healthy
    /\ healthy' = healthy \ {s}
    /\ UNCHANGED <<up, model, startFailed, step, type, on, attempts, result, seen, rival>>

Proceed(c) == Answered(c) \/ Check(c) \/ Verify(c)

SwitchNext ==
    \/ \E c \in Calls, t \in Types : Begin(c, t)
    \/ \E c \in Calls : Proceed(c)
    \/ \E s \in Containers : Loaded(s) \/ Dies(s)

(* Requests time out and sleeps end: a call that awaits something goes on. *)
SwitchFairness == \A c \in Calls : WF_switchVars(Proceed(c))

SwitchSpec == SwitchInit /\ [][SwitchNext]_switchVars /\ SwitchFairness
------------------------------------------------------------------------------
(* What a call reports is true, even if other calls restart the container
   meanwhile: with success its container served the wanted model while the call
   lasted, and a wrong model is the work of another call that restarted the
   container after this one did. *)
ReportIsTrue ==
    \A c \in Calls :
        /\ result[c] = "success" => Target[type[c]] \in seen[c]
        /\ result[c] = "wrong model" => rival[c]

(* Which containers there are can always be told until a start has failed.
   If it cannot be told and no call is under way, no call brings the stopped
   container back: only the operator does. *)
LayoutLostByFailedStart ==
    [][/\ ~Detected' => startFailed'
       /\ ~Detected /\ (\A c \in Calls : step[c] = "idle") => up' = up]_switchVars

(* However long the model takes to load and whoever restarts the container,
   every call reports something. *)
EverySwitchReturns == \A c \in Calls : step[c] # "idle" ~> step[c] = "idle"
==============================================================================
