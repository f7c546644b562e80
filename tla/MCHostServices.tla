---------------------------- MODULE MCHostServices ----------------------------
(***************************************************************************)
(* Three small components on small instances in one run: the embedding     *)
(* service, the calls of the command line through the MCP server, and the  *)
(* queue of notifications.  They share no state, so TLC is spared the      *)
(* product: the service first loads its model and does as it likes; the    *)
(* others move while it has the model and nothing to do, each only while   *)
(* the other is where it starts, with nothing to do there that fairness    *)
(* would force.                                                            *)
(***************************************************************************)
EXTENDS EmbeddingService, NotificationQueue, ToolGateway

CONSTANTS small, large

MCDim == [m \in Models |-> IF m = small THEN 1 ELSE 2]

ServiceRests ==
    /\ model = DefaultModel /\ dim = Dim[model] /\ failures = 0
    /\ \A t \in Threads : step[t] = "idle"
    /\ \A c \in Callers : ~disturbed[c]

\* One of the ways the gateway starts is enough for the queue.
GatewayRests == Init /\ policy = "open" /\ \A c \in Client : ~client[c].patient

ServicesInit == EmbeddingInit /\ QueueInit /\ Init

ServicesNext ==
    \/ QueueInit /\ Init            /\ EmbeddingNext /\ UNCHANGED <<queueVars, vars>>
    \/ ServiceRests /\ GatewayRests /\ QueueNext     /\ UNCHANGED <<embeddingVars, vars>>
    \/ ServiceRests /\ QueueInit    /\ Next          /\ UNCHANGED <<embeddingVars, queueVars>>

ServicesSpec ==
    /\ ServicesInit /\ [][ServicesNext]_<<embeddingVars, queueVars, vars>>
    /\ EmbeddingFairness /\ QueueFairness /\ Fairness
===============================================================================
