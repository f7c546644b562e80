------------------------- MODULE MCApprovalWorkflow -------------------------
(***************************************************************************)
(* The instance of ApprovalWorkflow that TLC checks.                       *)
(***************************************************************************)
EXTENDS ApprovalWorkflow

\* The v1 API takes the steps of approval_admin.py, inside the server.
MostKinds == AllKinds \ {"api"}

AnyIds == {"full", "short"}
=============================================================================
