---------------------------- MODULE MCModelSwitch ----------------------------
(***************************************************************************)
(* Two parts of the MCP server on small instances in one run: the switch   *)
(* of models, with two calls, both layouts and containers that run either  *)
(* model at first, and the audit logger.  They share no state, so TLC is   *)
(* spared the product: each moves only while the other is where it starts, *)
(* with nothing to do there that fairness would force.                     *)
(***************************************************************************)
EXTENDS ModelSwitch, AuditLogger, TLC

CONSTANTS chatModel, codeModel

MCTarget == (Chat :> chatModel) @@ (Code :> codeModel)

\* One of the ways the containers start is enough for the logger.
SwitchRests ==
    SwitchInit /\ up = {Single} /\ model = [s \in Containers |-> chatModel]

BothInit == SwitchInit /\ Init

BothSpec ==
    /\ BothInit
    /\ [][\/ Init        /\ SwitchNext /\ UNCHANGED vars
          \/ SwitchRests /\ Next       /\ UNCHANGED switchVars]_<<switchVars, vars>>
    /\ SwitchFairness /\ Fairness
=============================================================================
