-------------------------- MODULE EmbeddingContract --------------------------
(***************************************************************************)
(* What the callers of POST /embed rely on: all vectors of one answer come *)
(* from one model, and that model served at some moment of the call.       *)
(***************************************************************************)
CONSTANTS
    Models,     \* the embedding models that can be loaded
    NoModel,    \* none is loaded; no vectors
    Callers     \* the requests in flight

VARIABLES
    serving,    \* the model that serves
    asked,      \* the callers that wait for an answer
    vectors     \* vectors[c]: the model that made the vectors of c's answer

Init ==
    /\ serving = NoModel
    /\ asked = {}
    /\ vectors = [c \in Callers |-> NoModel]

(* A model comes into service; once one serves, one always does. *)
Serve(m) ==
    /\ serving' = m
    /\ UNCHANGED <<asked, vectors>>

Ask(c) ==
    /\ c \notin asked
    /\ asked' = asked \cup {c}
    /\ UNCHANGED <<serving, vectors>>

Embed(c) ==
    /\ c \in asked
    /\ vectors[c] = NoModel
    /\ serving # NoModel
    /\ vectors' = [vectors EXCEPT ![c] = serving]
    /\ UNCHANGED <<serving, asked>>

(* The answer is sent, or, when there is none, an error. *)
Return(c) ==
    /\ c \in asked
    /\ asked' = asked \ {c}
    /\ vectors' = [vectors EXCEPT ![c] = NoModel]
    /\ UNCHANGED serving

Next ==
    \/ \E m \in Models : Serve(m)
    \/ \E c \in Callers : Ask(c) \/ Embed(c) \/ Return(c)

Spec == Init /\ [][Next]_<<serving, asked, vectors>>
=============================================================================
