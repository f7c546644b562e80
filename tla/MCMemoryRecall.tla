---------------------------- MODULE MCMemoryRecall ----------------------------
(***************************************************************************)
(* MemoryRecall with one exchange of the command line and one of another   *)
(* caller, which may be marked.  Each is the most trivial one there is, so *)
(* that a wrong score shows first.                                         *)
(***************************************************************************)
EXTENDS MemoryRecall

Trivial(mark) ==
    [high |-> 0, low |-> 3, answer |-> "short", code |-> FALSE, codeModel |-> FALSE,
     mark |-> mark, longQuery |-> FALSE]

MCFeatures ==
    [e \in Exchanges |-> IF e \in Direct THEN {Trivial("important"), Trivial("saved")}
                                        ELSE {Trivial("none")}]
==============================================================================
