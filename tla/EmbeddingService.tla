--------------------------- MODULE EmbeddingService ---------------------------
(***************************************************************************)
(* The embedding service (services/embedding/app.py).  Its handlers run in *)
(* the threads of a pool and share the loaded model, its name and its      *)
(* dimension.  Loading and exchanging the model happens under a lock;      *)
(* computing vectors, and reading the name and the dimension for an        *)
(* answer, does not.  A background thread loads the first model and is     *)
(* started again by GET /health as long as there is none.                  *)
(***************************************************************************)
EXTENDS Naturals

CONSTANTS
    Models,         \* the names a model can be loaded by
    NoModel,        \* _model is None
    DefaultModel,   \* EMBEDDING_MODEL
    Dim,            \* Dim[m]: length of the vectors of model m
    Callers,        \* threads of the pool
    Loader,         \* the background thread, _model_loader
    Free,           \* nobody holds _model_lock
    MaxFailures     \* bound on loads that fail

ASSUME EmbeddingAssumption ==
    /\ DefaultModel \in Models
    /\ NoModel \notin Models
    /\ Dim \in [Models -> Nat \ {0}]
    /\ Loader \notin Callers
    /\ Free \notin Callers \cup {Loader}
    /\ MaxFailures \in Nat

VARIABLES
    model,      \* _model
    name,       \* _model_name
    dim,        \* _model_dim, 0 for None
    lock,       \* who holds _model_lock
    op,         \* op[t]: what thread t was asked for
    step,       \* step[t]: where it stands
    target,     \* target[c]: the model a reload was asked for
    vecs,       \* vecs[c]: the model that made the vectors in c's hands
    label,      \* label[c]: [model, dim] of the answer c puts together
    disturbed,  \* disturbed[c]: a model was exchanged since c saw one loaded
    failures    \* loads that failed so far

answers == <<vecs, label, disturbed>>
embeddingVars == <<model, name, dim, lock, op, step, target, vecs, label, disturbed, failures>>

Threads == Callers \cup {Loader}
NoLabel == [model |-> NoModel, dim |-> 0]

Steps == {"idle", "ensure", "load", "probe", "compute", "name", "dim", "answer",
          "wait", "exchange", "rename", "resize"}

EmbeddingTypeOK ==
    /\ model \in Models \cup {NoModel}
    /\ name \in Models
    /\ dim \in Nat
    /\ lock \in Threads \cup {Free}
    /\ op \in [Threads -> {"embed", "prewarm", "reload", "none"}]
    /\ step \in [Threads -> Steps]
    /\ target \in [Callers -> Models \cup {NoModel}]
    /\ vecs \in [Callers -> Models \cup {NoModel}]
    /\ label \in [Callers -> [model : Models \cup {NoModel}, dim : Nat]]
    /\ disturbed \in [Callers -> BOOLEAN]
    /\ failures \in 0..MaxFailures

EmbeddingInit ==
    /\ model = NoModel
    /\ name = DefaultModel
    /\ dim = 0
    /\ lock = Free
    /\ op = [t \in Threads |-> "none"]
    /\ step = [t \in Threads |-> "idle"]
    /\ target = [c \in Callers |-> NoModel]
    /\ vecs = [c \in Callers |-> NoModel]
    /\ label = [c \in Callers |-> NoLabel]
    /\ disturbed = [c \in Callers |-> FALSE]
    /\ failures = 0

Goto(t, s) == step' = [step EXCEPT ![t] = s]

(* The thread is done: the answer or the error is out. *)
Leave(t) ==
    /\ step' = [step EXCEPT ![t] = "idle"]
    /\ op' = [op EXCEPT ![t] = "none"]

(* A mutant: the dead loader is taken for a live one. *)
LoaderNotCleared ==
    /\ model = NoModel
    /\ step[Loader] = "idle"
    /\ failures = 0
    /\ op' = [op EXCEPT ![Loader] = "prewarm"]
    /\ Goto(Loader, "ensure")
    /\ UNCHANGED <<model, name, dim, lock, target, answers, failures>>

(* _start_background_load, of the startup handler and of every health check:
   nothing if there is a model or a live loader. *)
StartBackgroundLoad ==
    /\ model = NoModel
    /\ step[Loader] = "idle"
    /\ op' = [op EXCEPT ![Loader] = "prewarm"]
    /\ Goto(Loader, "ensure")
    /\ UNCHANGED <<model, name, dim, lock, target, answers, failures>>

(* POST /embed and POST /prewarm begin with _ensure_model. *)
Ask(c, o) ==
    /\ step[c] = "idle"
    /\ op' = [op EXCEPT ![c] = o]
    /\ Goto(c, "ensure")
    /\ UNCHANGED <<model, name, dim, lock, target, answers, failures>>

(* What a thread does once _ensure_model is through. *)
AfterEnsure(t) ==
    IF op[t] = "embed"
    THEN Goto(t, "compute") /\ UNCHANGED op
    ELSE Leave(t)

(* _ensure_model takes the lock and finds a model: it is through. *)
FindLoaded(t) ==
    /\ step[t] = "ensure"
    /\ lock = Free
    /\ model # NoModel
    /\ AfterEnsure(t)
    /\ UNCHANGED <<model, name, dim, lock, target, answers, failures>>

(* _ensure_model takes the lock and finds none. *)
BeginLoad(t) ==
    /\ step[t] = "ensure"
    /\ lock = Free
    /\ model = NoModel
    /\ lock' = t
    /\ Goto(t, "load")
    /\ UNCHANGED <<model, name, dim, op, target, answers, failures>>

Loaded(t) ==
    /\ step[t] = "load"
    /\ model' = name
    /\ Goto(t, "probe")
    /\ UNCHANGED <<name, dim, lock, op, target, answers, failures>>

(* The short text that is embedded to learn the dimension. *)
Probed(t) ==
    /\ step[t] = "probe"
    /\ dim' = Dim[model]
    /\ lock' = Free
    /\ AfterEnsure(t)
    /\ UNCHANGED <<model, name, target, answers, failures>>

(* Loading, the probe or the loading of an exchange raises: the lock is given
   back, what was assigned stays, the caller gets an error. *)
Fails(t) ==
    /\ step[t] \in {"load", "probe", "exchange"}
    /\ failures < MaxFailures
    /\ failures' = failures + 1
    /\ lock' = Free
    /\ target' = [c \in Callers |-> IF c = t THEN NoModel ELSE target[c]]
    /\ Leave(t)
    /\ UNCHANGED <<model, name, dim, answers>>

(* _model.embed(...), on the model that is loaded now, without the lock. *)
Compute(c) ==
    /\ step[c] = "compute"
    /\ vecs' = [vecs EXCEPT ![c] = model]
    /\ Goto(c, "name")
    /\ UNCHANGED <<model, name, dim, lock, op, target, label, disturbed, failures>>

(* A mutant: the texts are embedded in two portions, each by the model of the
   moment. *)
EmbedAgain(c) ==
    /\ step[c] = "name"
    /\ vecs' = [vecs EXCEPT ![c] = model]
    /\ label' = [label EXCEPT ![c].model = name]
    /\ Goto(c, "dim")
    /\ UNCHANGED <<model, name, dim, lock, op, target, disturbed, failures>>

(* The answer's name and dimension are read one after the other. *)
ReadName(c) ==
    /\ step[c] = "name"
    /\ label' = [label EXCEPT ![c].model = name]
    /\ Goto(c, "dim")
    /\ UNCHANGED <<model, name, dim, lock, op, target, vecs, disturbed, failures>>

(* A mutant: no dimension known, none said. *)
DimUnknown(c) ==
    /\ step[c] = "dim"
    /\ label' = [label EXCEPT ![c].dim = dim]
    /\ Goto(c, "answer")
    /\ UNCHANGED <<model, name, dim, lock, op, target, vecs, disturbed, failures>>

(* _model_dim, or the length of the first vector if it is not known. *)
ReadDim(c) ==
    /\ step[c] = "dim"
    /\ label' = [label EXCEPT ![c].dim = IF dim # 0 THEN dim ELSE Dim[vecs[c]]]
    /\ Goto(c, "answer")
    /\ UNCHANGED <<model, name, dim, lock, op, target, vecs, disturbed, failures>>

Answer(c) ==
    /\ step[c] = "answer"
    /\ Leave(c)
    /\ vecs' = [vecs EXCEPT ![c] = NoModel]
    /\ label' = [label EXCEPT ![c] = NoLabel]
    /\ disturbed' = [disturbed EXCEPT ![c] = FALSE]
    /\ UNCHANGED <<model, name, dim, lock, target, failures>>

(* POST /reload: without the lock it is seen whether there is anything to do. *)
AskReload(c, m) ==
    /\ step[c] = "idle"
    /\ m # name
    /\ op' = [op EXCEPT ![c] = "reload"]
    /\ target' = [target EXCEPT ![c] = m]
    /\ Goto(c, "wait")
    /\ UNCHANGED <<model, name, dim, lock, answers, failures>>

BeginExchange(c) ==
    /\ step[c] = "wait"
    /\ lock = Free
    /\ lock' = c
    /\ Goto(c, "exchange")
    /\ UNCHANGED <<model, name, dim, op, target, answers, failures>>

(* The new model is loaded and probed; only then are the model, its name and
   its dimension assigned, one after the other. *)
Exchange(c) ==
    /\ step[c] = "exchange"
    /\ model' = target[c]
    /\ disturbed' = [d \in Callers |-> disturbed[d] \/ step[d] \in {"compute", "name", "dim"}]
    /\ Goto(c, "rename")
    /\ UNCHANGED <<name, dim, lock, op, target, vecs, label, failures>>

Rename(c) ==
    /\ step[c] = "rename"
    /\ name' = target[c]
    /\ Goto(c, "resize")
    /\ UNCHANGED <<model, dim, lock, op, target, answers, failures>>

Resize(c) ==
    /\ step[c] = "resize"
    /\ dim' = Dim[target[c]]
    /\ lock' = Free
    /\ target' = [target EXCEPT ![c] = NoModel]
    /\ Leave(c)
    /\ UNCHANGED <<model, name, answers, failures>>

Ensure(t) == FindLoaded(t) \/ BeginLoad(t) \/ Loaded(t) \/ Probed(t) \/ Fails(t)

EmbeddingNext ==
    \/ StartBackgroundLoad
    \/ \E c \in Callers, o \in {"embed", "prewarm"} : Ask(c, o)
    \/ \E t \in Threads : Ensure(t)
    \/ \E c \in Callers : Compute(c) \/ ReadName(c) \/ ReadDim(c) \/ Answer(c)
    \/ \E c \in Callers, m \in Models : AskReload(c, m)
    \/ \E c \in Callers : BeginExchange(c) \/ Exchange(c) \/ Rename(c) \/ Resize(c)

(* Health checks keep coming (docker/compose.p3.yml, interval 30s), a thread
   that can run does, and the lock is not withheld for ever from the loader. *)
EmbeddingFairness ==
    /\ WF_embeddingVars(StartBackgroundLoad)
    /\ \A t \in Threads : WF_embeddingVars(Loaded(t) \/ Probed(t) \/ Fails(t))
    /\ \A c \in Callers : WF_embeddingVars(Exchange(c) \/ Rename(c) \/ Resize(c))
    /\ SF_embeddingVars(FindLoaded(Loader) \/ BeginLoad(Loader))

EmbeddingSpec == EmbeddingInit /\ [][EmbeddingNext]_embeddingVars /\ EmbeddingFairness

-------------------------------------------------------------------------------
(* With nobody under the lock the model, its name and its dimension belong
   together; only the dimension may be missing, after a probe that failed. *)
QuietAgreement ==
    lock = Free =>
        \/ model = NoModel /\ dim = 0
        \/ model = name /\ dim \in {0, Dim[name]}

(* An answer of /embed names the model that made its vectors, and their
   length, unless a reload exchanged the model while the answer was made. *)
LabelledRight ==
    \A c \in Callers :
        step[c] = "answer" /\ ~disturbed[c] =>
            label[c] = [model |-> vecs[c], dim |-> Dim[vecs[c]]]

(* The vectors of one answer come from one model, whatever reloads meanwhile. *)
Contract == INSTANCE EmbeddingContract
    WITH serving <- model,
         asked <- {c \in Callers : op[c] = "embed"},
         vectors <- vecs
ImplementsContract == Contract!Spec

(* Loads that fail end the loader's thread; the health checks start another,
   so that a model is loaded in the end. *)
LoaderRecovers == <>(model # NoModel)
===============================================================================
