-------------------------- MODULE ApprovalDecision --------------------------
(***************************************************************************)
(* What the approval workflow of the MCP server promises, with none of the *)
(* machinery: a gated tool call is submitted, at most one decision is ever *)
(* taken about it, and the tool runs only after the decision "approved".   *)
(*                                                                         *)
(* ApprovalWorkflow refines this specification: the waiter coroutine, the  *)
(* REST and CLI responders, the cleanup and the crashes of the server      *)
(* all map to the three actions below, or to no step at all.               *)
(***************************************************************************)

CONSTANT Requests           \* the gated tool calls

VARIABLES decision,         \* decision[r]: where request r stands
          executed          \* the requests whose tool has run

avars == <<decision, executed>>

\* The final values of approval_requests.status.
Verdicts == {"approved", "rejected", "expired", "timeout", "cancelled"}

Init == /\ decision = [r \in Requests |-> "none"]
        /\ executed = {}

Submit(r) == /\ decision[r] = "none"
             /\ decision' = [decision EXCEPT ![r] = "pending"]
             /\ UNCHANGED executed

\* One UPDATE decides a set of open requests: one of them for a responder,
\* all the overdue ones at once for the cleanup.
Decide(S, v) == /\ S # {}
                /\ \A r \in S : decision[r] = "pending"
                /\ decision' = [r \in Requests |-> IF r \in S THEN v ELSE decision[r]]
                /\ UNCHANGED executed

Execute(r) == /\ decision[r] = "approved"
              /\ r \notin executed
              /\ executed' = executed \cup {r}
              /\ UNCHANGED decision

Next == \/ \E r \in Requests : Submit(r) \/ Execute(r)
        \/ \E S \in SUBSET Requests, v \in Verdicts : Decide(S, v)

Spec == Init /\ [][Next]_avars
=============================================================================
