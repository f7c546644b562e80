------------------------- MODULE MCSandboxSessions -------------------------
(***************************************************************************)
(* Three names and two places in the table, four calls, two violations to  *)
(* close a session.                                                        *)
(***************************************************************************)
EXTENDS SandboxSessions, TLC

Symmetry == Permutations(Session) \cup Permutations(Call)
=============================================================================
