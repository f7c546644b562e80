---------------------------- MODULE MCToolServer ----------------------------
(***************************************************************************)
(* The instance of ToolServer that TLC checks.  The callers of git_commit  *)
(* are alike and so are the files, and no property tells them apart.       *)
(***************************************************************************)
EXTENDS ToolServer, TLC

Symmetry == Permutations(Callers) \cup Permutations(Files)

\* Files are written only as far as they leave room for the commits: the more calls of
\* git_commit the limiter let in, the fewer files are there, three of both in all.
Bounded == Cardinality({f \in Files : tree[f] # 0}) + Len(admitted) <= 3

BoundedSpec == ToolInit /\ [][ToolNext /\ Bounded']_toolVars
=============================================================================
