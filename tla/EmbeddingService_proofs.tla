----------------------- MODULE EmbeddingService_proofs -----------------------
(***************************************************************************)
(* Theorems about EmbeddingService, for any models, dimensions and threads *)
(* and any number of failures.                                             *)
(*                                                                         *)
(* That answers are labelled right is not inductive: the handlers of       *)
(* /embed read the model, its name and its dimension without the lock.     *)
(* They may, because the three belong together except while some thread is *)
(* between the assignments of an exchange (Agreement), because only the    *)
(* holder of the lock can be there (Held), and because an exchange marks   *)
(* whoever is between his reads as disturbed before it assigns the second  *)
(* of the three (Undisturbed).                                             *)
(***************************************************************************)
EXTENDS EmbeddingService, TLAPS

\* The steps taken under the lock, and those between the first and the last
\* assignment of an exchange.
Locked == {"load", "probe", "exchange", "rename", "resize"}
Halfway == {"rename", "resize"}
Quiet == \A c \in Callers : step[c] \notin Halfway

Held == \A t \in Threads : step[t] \in Locked <=> lock = t

\* What a thread was asked for tells where it can be.
Kinds ==
    /\ op[Loader] \in {"none", "prewarm"}
    /\ \A t \in Threads :
        /\ step[t] = "idle" <=> op[t] = "none"
        /\ step[t] \in {"ensure", "load", "probe"} => op[t] \in {"embed", "prewarm"}
        /\ step[t] \in {"compute", "name", "dim", "answer"} => op[t] = "embed"
        /\ step[t] \in {"wait", "exchange", "rename", "resize"} => op[t] = "reload"
    /\ \A c \in Callers : op[c] = "reload" => target[c] \in Models

\* The model, its name and its dimension, by where the holder of the lock is.
Agreement ==
    /\ Quiet => \/ model = NoModel /\ dim = 0
                \/ model = name /\ dim \in {0, Dim[name]}
    /\ \A t \in Threads : step[t] = "load" => model = NoModel
    /\ \A t \in Threads : step[t] = "probe" => model = name
    /\ \A c \in Callers : step[c] = "rename" => model = target[c]
    /\ \A c \in Callers : step[c] = "resize" => model = target[c] /\ name = target[c]

\* A handler that is past _ensure_model has a model to use, and holds vectors
\* from then on when it made them until it answers.
Readers ==
    \A c \in Callers :
        /\ step[c] \in {"compute", "name", "dim", "answer"} => model # NoModel
        /\ vecs[c] # NoModel <=> step[c] \in {"name", "dim", "answer"}

\* What an undisturbed handler has read so far is what it would read now.
Undisturbed ==
    \A c \in Callers : ~disturbed[c] =>
        /\ step[c] \in {"compute", "name", "dim"} => Quiet
        /\ step[c] = "name" => vecs[c] = model
        /\ step[c] = "dim" => vecs[c] = model /\ label[c].model = model
        /\ step[c] = "answer" => label[c] = [model |-> vecs[c], dim |-> Dim[vecs[c]]]

IInv == EmbeddingTypeOK /\ Held /\ Kinds /\ Agreement /\ Readers /\ Undisturbed

-----------------------------------------------------------------------------
\* The loader is started only while there is no model and it is idle.
LEMMA StartBackgroundLoadInv ==
  ASSUME IInv, StartBackgroundLoad
  PROVE  IInv'
<1> USE EmbeddingAssumption DEF IInv, Threads, Goto, Leave, answers, Steps
<1>1. EmbeddingTypeOK'
  BY DEF StartBackgroundLoad, EmbeddingTypeOK
<1>2. Held'
  BY DEF StartBackgroundLoad, EmbeddingTypeOK, Held, Locked
<1>3. Kinds'
  BY DEF StartBackgroundLoad, EmbeddingTypeOK, Kinds
<1>4. Agreement'
  BY DEF StartBackgroundLoad, EmbeddingTypeOK, Held, Locked, Kinds, Agreement, Quiet, Halfway
<1>5. Readers'
  BY DEF StartBackgroundLoad, EmbeddingTypeOK, Agreement, Quiet, Halfway, Readers
<1>6. Undisturbed'
  BY DEF StartBackgroundLoad, EmbeddingTypeOK, Held, Locked, Kinds, Agreement, Quiet, Halfway, Readers,
         Undisturbed
<1> QED
  BY <1>1, <1>2, <1>3, <1>4, <1>5, <1>6

\* A request begins; its thread held nothing.
LEMMA AskInv ==
  ASSUME IInv, NEW c \in Callers, NEW o \in {"embed", "prewarm"}, Ask(c, o)
  PROVE  IInv'
<1> USE EmbeddingAssumption DEF IInv, Threads, Goto, Leave, answers, Steps
<1>1. EmbeddingTypeOK'
  BY DEF Ask, EmbeddingTypeOK
<1>2. Held'
  BY DEF Ask, EmbeddingTypeOK, Held, Locked
<1>3. Kinds'
  BY DEF Ask, EmbeddingTypeOK, Kinds
<1>4. Agreement'
  BY DEF Ask, EmbeddingTypeOK, Held, Locked, Kinds, Agreement, Quiet, Halfway
<1>5. Readers'
  BY DEF Ask, EmbeddingTypeOK, Agreement, Quiet, Halfway, Readers
<1>6. Undisturbed'
  BY DEF Ask, EmbeddingTypeOK, Held, Locked, Kinds, Agreement, Quiet, Halfway, Readers, Undisturbed
<1> QED
  BY <1>1, <1>2, <1>3, <1>4, <1>5, <1>6

\* With the lock free no exchange is halfway: a handler starts undisturbed.
LEMMA FindLoadedInv ==
  ASSUME IInv, NEW t \in Threads, FindLoaded(t)
  PROVE  IInv'
<1> USE EmbeddingAssumption DEF IInv, Threads, Goto, Leave, answers, Steps
<1>1. EmbeddingTypeOK'
  BY DEF FindLoaded, AfterEnsure, EmbeddingTypeOK
<1>2. Held'
  BY DEF FindLoaded, AfterEnsure, EmbeddingTypeOK, Held, Locked
<1>3. Kinds'
  BY DEF FindLoaded, AfterEnsure, EmbeddingTypeOK, Kinds
<1>4. Agreement'
  BY DEF FindLoaded, AfterEnsure, EmbeddingTypeOK, Held, Locked, Kinds, Agreement, Quiet, Halfway
<1>5. Readers'
  BY DEF FindLoaded, AfterEnsure, EmbeddingTypeOK, Agreement, Quiet, Halfway, Readers
<1>6. Undisturbed'
  BY DEF FindLoaded, AfterEnsure, EmbeddingTypeOK, Held, Locked, Kinds, Agreement, Quiet, Halfway,
         Readers, Undisturbed
<1> QED
  BY <1>1, <1>2, <1>3, <1>4, <1>5, <1>6

\* The lock is taken, and there is no model.
LEMMA BeginLoadInv ==
  ASSUME IInv, NEW t \in Threads, BeginLoad(t)
  PROVE  IInv'
<1> USE EmbeddingAssumption DEF IInv, Threads, Goto, Leave, answers, Steps
<1>1. EmbeddingTypeOK'
  BY DEF BeginLoad, EmbeddingTypeOK
<1>2. Held'
  BY DEF BeginLoad, EmbeddingTypeOK, Held, Locked
<1>3. Kinds'
  BY DEF BeginLoad, EmbeddingTypeOK, Kinds
<1>4. Agreement'
  BY DEF BeginLoad, EmbeddingTypeOK, Held, Locked, Kinds, Agreement, Quiet, Halfway
<1>5. Readers'
  BY DEF BeginLoad, EmbeddingTypeOK, Agreement, Quiet, Halfway, Readers
<1>6. Undisturbed'
  BY DEF BeginLoad, EmbeddingTypeOK, Held, Locked, Kinds, Agreement, Quiet, Halfway, Readers, Undisturbed
<1> QED
  BY <1>1, <1>2, <1>3, <1>4, <1>5, <1>6

\* No handler is past _ensure_model while there is no model.
LEMMA LoadedInv ==
  ASSUME IInv, NEW t \in Threads, Loaded(t)
  PROVE  IInv'
<1> USE EmbeddingAssumption DEF IInv, Threads, Goto, Leave, answers, Steps
<1>1. EmbeddingTypeOK'
  BY DEF Loaded, EmbeddingTypeOK
<1>2. Held'
  BY DEF Loaded, EmbeddingTypeOK, Held, Locked
<1>3. Kinds'
  BY DEF Loaded, EmbeddingTypeOK, Kinds
<1>4. Agreement'
  BY DEF Loaded, EmbeddingTypeOK, Held, Locked, Kinds, Agreement, Quiet, Halfway
<1>5. Readers'
  BY DEF Loaded, EmbeddingTypeOK, Agreement, Quiet, Halfway, Readers
<1>6. Undisturbed'
  BY DEF Loaded, EmbeddingTypeOK, Held, Locked, Kinds, Agreement, Quiet, Halfway, Readers, Undisturbed
<1> QED
  BY <1>1, <1>2, <1>3, <1>4, <1>5, <1>6

\* The dimension is that of the model, which is the one named.
LEMMA ProbedInv ==
  ASSUME IInv, NEW t \in Threads, Probed(t)
  PROVE  IInv'
<1> USE EmbeddingAssumption DEF IInv, Threads, Goto, Leave, answers, Steps
<1>1. EmbeddingTypeOK'
  BY DEF Probed, AfterEnsure, EmbeddingTypeOK, Agreement, Quiet, Halfway
<1>2. Held'
  BY DEF Probed, AfterEnsure, EmbeddingTypeOK, Held, Locked
<1>3. Kinds'
  BY DEF Probed, AfterEnsure, EmbeddingTypeOK, Kinds
<1>4. Agreement'
  BY DEF Probed, AfterEnsure, EmbeddingTypeOK, Held, Locked, Kinds, Agreement, Quiet, Halfway
<1>5. Readers'
  BY DEF Probed, AfterEnsure, EmbeddingTypeOK, Agreement, Quiet, Halfway, Readers
<1>6. Undisturbed'
  BY DEF Probed, AfterEnsure, EmbeddingTypeOK, Held, Locked, Kinds, Agreement, Quiet, Halfway, Readers,
         Undisturbed
<1> QED
  BY <1>1, <1>2, <1>3, <1>4, <1>5, <1>6

\* What was assigned stays: a model without a dimension at most.
LEMMA FailsInv ==
  ASSUME IInv, NEW t \in Threads, Fails(t)
  PROVE  IInv'
<1> USE EmbeddingAssumption DEF IInv, Threads, Goto, Leave, answers, Steps
<1>1. EmbeddingTypeOK'
  BY DEF Fails, EmbeddingTypeOK
<1>2. Held'
  BY DEF Fails, EmbeddingTypeOK, Held, Locked
<1>3. Kinds'
  BY DEF Fails, EmbeddingTypeOK, Kinds
<1>4. Agreement'
  BY DEF Fails, EmbeddingTypeOK, Held, Locked, Kinds, Agreement, Quiet, Halfway
<1>5. Readers'
  BY DEF Fails, EmbeddingTypeOK, Agreement, Quiet, Halfway, Readers
<1>6. Undisturbed'
  BY DEF Fails, EmbeddingTypeOK, Held, Locked, Kinds, Agreement, Quiet, Halfway, Readers, Undisturbed
<1> QED
  BY <1>1, <1>2, <1>3, <1>4, <1>5, <1>6

\* The vectors are those of the model of the moment.
LEMMA ComputeInv ==
  ASSUME IInv, NEW c \in Callers, Compute(c)
  PROVE  IInv'
<1> USE EmbeddingAssumption DEF IInv, Threads, Goto, Leave, answers, Steps
<1>1. EmbeddingTypeOK'
  BY DEF Compute, EmbeddingTypeOK
<1>2. Held'
  BY DEF Compute, EmbeddingTypeOK, Held, Locked
<1>3. Kinds'
  BY DEF Compute, EmbeddingTypeOK, Kinds
<1>4. Agreement'
  BY DEF Compute, EmbeddingTypeOK, Held, Locked, Kinds, Agreement, Quiet, Halfway
<1>5. Readers'
  BY DEF Compute, EmbeddingTypeOK, Agreement, Quiet, Halfway, Readers
<1>6. Undisturbed'
  BY DEF Compute, EmbeddingTypeOK, Held, Locked, Kinds, Agreement, Quiet, Halfway, Readers, Undisturbed
<1> QED
  BY <1>1, <1>2, <1>3, <1>4, <1>5, <1>6

\* For an undisturbed handler the name is that of its vectors' model.
LEMMA ReadNameInv ==
  ASSUME IInv, NEW c \in Callers, ReadName(c)
  PROVE  IInv'
<1> USE EmbeddingAssumption DEF IInv, Threads, Goto, Leave, answers, Steps
<1>1. EmbeddingTypeOK'
  BY DEF ReadName, EmbeddingTypeOK
<1>2. Held'
  BY DEF ReadName, EmbeddingTypeOK, Held, Locked
<1>3. Kinds'
  BY DEF ReadName, EmbeddingTypeOK, Kinds
<1>4. Agreement'
  BY DEF ReadName, EmbeddingTypeOK, Held, Locked, Kinds, Agreement, Quiet, Halfway
<1>5. Readers'
  BY DEF ReadName, EmbeddingTypeOK, Agreement, Quiet, Halfway, Readers
<1>6. Undisturbed'
  BY DEF ReadName, EmbeddingTypeOK, Held, Locked, Kinds, Agreement, Quiet, Halfway, Readers, Undisturbed
<1> QED
  BY <1>1, <1>2, <1>3, <1>4, <1>5, <1>6

\* A dimension that is known is that of the model; else the vectors tell.
LEMMA ReadDimInv ==
  ASSUME IInv, NEW c \in Callers, ReadDim(c)
  PROVE  IInv'
<1> USE EmbeddingAssumption DEF IInv, Threads, Goto, Leave, answers, Steps
<1>1. EmbeddingTypeOK'
  BY DEF ReadDim, EmbeddingTypeOK, Readers
<1>2. Held'
  BY DEF ReadDim, EmbeddingTypeOK, Held, Locked
<1>3. Kinds'
  BY DEF ReadDim, EmbeddingTypeOK, Kinds
<1>4. Agreement'
  BY DEF ReadDim, EmbeddingTypeOK, Held, Locked, Kinds, Agreement, Quiet, Halfway
<1>5. Readers'
  BY DEF ReadDim, EmbeddingTypeOK, Agreement, Quiet, Halfway, Readers
<1>6. Undisturbed'
  BY DEF ReadDim, EmbeddingTypeOK, Held, Locked, Kinds, Agreement, Quiet, Halfway, Readers, Undisturbed
<1> QED
  BY <1>1, <1>2, <1>3, <1>4, <1>5, <1>6

\* The handler lets go of its vectors.
LEMMA AnswerInv ==
  ASSUME IInv, NEW c \in Callers, Answer(c)
  PROVE  IInv'
<1> USE EmbeddingAssumption DEF IInv, Threads, Goto, Leave, answers, Steps
<1>1. EmbeddingTypeOK'
  BY DEF Answer, NoLabel, EmbeddingTypeOK
<1>2. Held'
  BY DEF Answer, EmbeddingTypeOK, Held, Locked
<1>3. Kinds'
  BY DEF Answer, EmbeddingTypeOK, Kinds
<1>4. Agreement'
  BY DEF Answer, EmbeddingTypeOK, Held, Locked, Kinds, Agreement, Quiet, Halfway
<1>5. Readers'
  BY DEF Answer, EmbeddingTypeOK, Agreement, Quiet, Halfway, Readers
<1>6. Undisturbed'
  BY DEF Answer, EmbeddingTypeOK, Held, Locked, Kinds, Agreement, Quiet, Halfway, Readers, Undisturbed
<1> QED
  BY <1>1, <1>2, <1>3, <1>4, <1>5, <1>6

\* A reload begins; its thread held nothing.
LEMMA AskReloadInv ==
  ASSUME IInv, NEW c \in Callers, NEW m \in Models, AskReload(c, m)
  PROVE  IInv'
<1> USE EmbeddingAssumption DEF IInv, Threads, Goto, Leave, answers, Steps
<1>1. EmbeddingTypeOK'
  BY DEF AskReload, EmbeddingTypeOK
<1>2. Held'
  BY DEF AskReload, EmbeddingTypeOK, Held, Locked
<1>3. Kinds'
  BY DEF AskReload, EmbeddingTypeOK, Kinds
<1>4. Agreement'
  BY DEF AskReload, EmbeddingTypeOK, Held, Locked, Kinds, Agreement, Quiet, Halfway
<1>5. Readers'
  BY DEF AskReload, EmbeddingTypeOK, Agreement, Quiet, Halfway, Readers
<1>6. Undisturbed'
  BY DEF AskReload, EmbeddingTypeOK, Held, Locked, Kinds, Agreement, Quiet, Halfway, Readers, Undisturbed
<1> QED
  BY <1>1, <1>2, <1>3, <1>4, <1>5, <1>6

\* The lock is taken by one that means to exchange the model.
LEMMA BeginExchangeInv ==
  ASSUME IInv, NEW c \in Callers, BeginExchange(c)
  PROVE  IInv'
<1> USE EmbeddingAssumption DEF IInv, Threads, Goto, Leave, answers, Steps
<1>1. EmbeddingTypeOK'
  BY DEF BeginExchange, EmbeddingTypeOK
<1>2. Held'
  BY DEF BeginExchange, EmbeddingTypeOK, Held, Locked
<1>3. Kinds'
  BY DEF BeginExchange, EmbeddingTypeOK, Kinds
<1>4. Agreement'
  BY DEF BeginExchange, EmbeddingTypeOK, Held, Locked, Kinds, Agreement, Quiet, Halfway
<1>5. Readers'
  BY DEF BeginExchange, EmbeddingTypeOK, Agreement, Quiet, Halfway, Readers
<1>6. Undisturbed'
  BY DEF BeginExchange, EmbeddingTypeOK, Held, Locked, Kinds, Agreement, Quiet, Halfway, Readers,
         Undisturbed
<1> QED
  BY <1>1, <1>2, <1>3, <1>4, <1>5, <1>6

\* The model is exchanged: whoever is between his reads is disturbed.
LEMMA ExchangeInv ==
  ASSUME IInv, NEW c \in Callers, Exchange(c)
  PROVE  IInv'
<1> USE EmbeddingAssumption DEF IInv, Threads, Goto, Leave, answers, Steps
<1>1. EmbeddingTypeOK'
  BY DEF Exchange, EmbeddingTypeOK, Kinds
<1>2. Held'
  BY DEF Exchange, EmbeddingTypeOK, Held, Locked
<1>3. Kinds'
  BY DEF Exchange, EmbeddingTypeOK, Kinds
<1>4. Agreement'
  BY DEF Exchange, EmbeddingTypeOK, Held, Locked, Kinds, Agreement, Quiet, Halfway
<1>5. Readers'
  BY DEF Exchange, EmbeddingTypeOK, Agreement, Quiet, Halfway, Readers, Kinds
<1>6. Undisturbed'
  BY DEF Exchange, EmbeddingTypeOK, Held, Locked, Kinds, Agreement, Quiet, Halfway, Readers, Undisturbed
<1> QED
  BY <1>1, <1>2, <1>3, <1>4, <1>5, <1>6

\* The name follows while the lock is held.
LEMMA RenameInv ==
  ASSUME IInv, NEW c \in Callers, Rename(c)
  PROVE  IInv'
<1> USE EmbeddingAssumption DEF IInv, Threads, Goto, Leave, answers, Steps
<1>1. EmbeddingTypeOK'
  BY DEF Rename, EmbeddingTypeOK, Kinds
<1>2. Held'
  BY DEF Rename, EmbeddingTypeOK, Held, Locked
<1>3. Kinds'
  BY DEF Rename, EmbeddingTypeOK, Kinds
<1>4. Agreement'
  BY DEF Rename, EmbeddingTypeOK, Held, Locked, Kinds, Agreement, Quiet, Halfway
<1>5. Readers'
  BY DEF Rename, EmbeddingTypeOK, Agreement, Quiet, Halfway, Readers
<1>6. Undisturbed'
  BY DEF Rename, EmbeddingTypeOK, Held, Locked, Kinds, Agreement, Quiet, Halfway, Readers, Undisturbed
<1> QED
  BY <1>1, <1>2, <1>3, <1>4, <1>5, <1>6

\* The dimension follows, and the three belong together again.
LEMMA ResizeInv ==
  ASSUME IInv, NEW c \in Callers, Resize(c)
  PROVE  IInv'
<1> USE EmbeddingAssumption DEF IInv, Threads, Goto, Leave, answers, Steps
<1>1. EmbeddingTypeOK'
  BY DEF Resize, EmbeddingTypeOK, Kinds
<1>2. Held'
  BY DEF Resize, EmbeddingTypeOK, Held, Locked
<1>3. Kinds'
  BY DEF Resize, EmbeddingTypeOK, Kinds
<1>4. Agreement'
  BY DEF Resize, EmbeddingTypeOK, Held, Locked, Kinds, Agreement, Quiet, Halfway
<1>5. Readers'
  BY DEF Resize, EmbeddingTypeOK, Agreement, Quiet, Halfway, Readers
<1>6. Undisturbed'
  BY DEF Resize, EmbeddingTypeOK, Held, Locked, Kinds, Agreement, Quiet, Halfway, Readers, Undisturbed
<1> QED
  BY <1>1, <1>2, <1>3, <1>4, <1>5, <1>6

-----------------------------------------------------------------------------
\* Nothing is loaded at first and nobody is busy.
LEMMA InitInv == EmbeddingInit => IInv
<1> SUFFICES ASSUME EmbeddingInit PROVE IInv
  OBVIOUS
<1> USE EmbeddingAssumption DEF EmbeddingInit, Threads
<1>1. EmbeddingTypeOK
  BY DEF EmbeddingTypeOK, Steps, NoLabel
<1>2. Held /\ Kinds /\ Readers
  BY DEF Held, Kinds, Readers, Locked
<1>3. Agreement /\ Undisturbed
  BY DEF Agreement, Undisturbed, Quiet, Halfway
<1> QED
  BY <1>1, <1>2, <1>3 DEF IInv

\* The parts of the invariant speak of all variables.
LEMMA StutterInv == IInv /\ UNCHANGED embeddingVars => IInv'
<1> SUFFICES ASSUME IInv, UNCHANGED embeddingVars PROVE IInv'
  OBVIOUS
<1> USE DEF embeddingVars, answers
<1>1. EmbeddingTypeOK' /\ Held' /\ Kinds' /\ Readers'
  BY DEF IInv, EmbeddingTypeOK, Held, Kinds, Readers, Threads
<1>2. Agreement' /\ Undisturbed'
  BY DEF IInv, Agreement, Undisturbed, Quiet, Threads
<1> QED
  BY <1>1, <1>2 DEF IInv

\* Every step keeps the invariant.
LEMMA NextInv == IInv /\ [EmbeddingNext]_embeddingVars => IInv'
<1> SUFFICES ASSUME IInv, [EmbeddingNext]_embeddingVars PROVE IInv'
  OBVIOUS
<1>1. CASE StartBackgroundLoad
  BY <1>1, StartBackgroundLoadInv
<1>2. CASE \E c \in Callers, o \in {"embed", "prewarm"} : Ask(c, o)
  BY <1>2, AskInv
<1>3. CASE \E t \in Threads : Ensure(t)
  BY <1>3, FindLoadedInv, BeginLoadInv, LoadedInv, ProbedInv, FailsInv DEF Ensure
<1>4. CASE \E c \in Callers : Compute(c) \/ ReadName(c) \/ ReadDim(c) \/ Answer(c)
  BY <1>4, ComputeInv, ReadNameInv, ReadDimInv, AnswerInv
<1>5. CASE \E c \in Callers, m \in Models : AskReload(c, m)
  BY <1>5, AskReloadInv
<1>6. CASE \E c \in Callers : BeginExchange(c) \/ Exchange(c) \/ Rename(c) \/ Resize(c)
  BY <1>6, BeginExchangeInv, ExchangeInv, RenameInv, ResizeInv
<1>7. CASE UNCHANGED embeddingVars
  BY <1>7, StutterInv
<1> QED
  BY <1>1, <1>2, <1>3, <1>4, <1>5, <1>6, <1>7 DEF EmbeddingNext

\* The invariant holds throughout.
THEOREM Invariant == EmbeddingSpec => []IInv
  BY InitInv, NextInv, PTL DEF EmbeddingSpec

\* Every variable keeps its type.
THEOREM TypeCorrect == EmbeddingSpec => []EmbeddingTypeOK
<1>1. IInv => EmbeddingTypeOK
  BY DEF IInv
<1> QED
  BY <1>1, Invariant, PTL

\* With nobody under _model_lock, _model, _model_name and _model_dim belong
\* together, after whatever loads, failures and exchanges.
THEOREM QuietlyAgreed == EmbeddingSpec => []QuietAgreement
<1>1. IInv => QuietAgreement
  BY EmbeddingAssumption
  DEF IInv, EmbeddingTypeOK, Held, Agreement, QuietAgreement, Quiet, Halfway, Locked, Threads
<1> QED
  BY <1>1, Invariant, PTL

\* An answer of /embed names the model that made its vectors and their length,
\* unless a reload exchanged the model while the answer was made.
THEOREM AnswersLabelledRight == EmbeddingSpec => []LabelledRight
<1>1. IInv => LabelledRight
  BY DEF IInv, Undisturbed, LabelledRight
<1> QED
  BY <1>1, Invariant, PTL

-----------------------------------------------------------------------------
(***************************************************************************)
(* The service keeps its contract.  A model comes into service when a load *)
(* or an exchange assigns it; vectors are made by the model that serves;   *)
(* all else the contract does not see.                                     *)
(***************************************************************************)
Asked == {c \in Callers : op[c] = "embed"}

\* At first no model serves and nobody asks.
LEMMA InitRefines == EmbeddingInit => Contract!Init
  BY EmbeddingAssumption DEF EmbeddingInit, Contract!Init, Threads

\* Steps the contract does not see.
LEMMA Unseen ==
  ASSUME UNCHANGED <<model, Asked, vecs>>
  PROVE  [Contract!Next]_<<model, Asked, vecs>>
  OBVIOUS

\* The loader is not a caller.
LEMMA LoaderRefines ==
  ASSUME IInv, StartBackgroundLoad
  PROVE  UNCHANGED <<model, Asked, vecs>>
  BY EmbeddingAssumption
  DEF IInv, EmbeddingTypeOK, Threads, StartBackgroundLoad, Goto, answers, Asked

\* A caller of /embed asks; one of /prewarm does not.
LEMMA AskRefines ==
  ASSUME IInv, NEW c \in Callers, NEW o \in {"embed", "prewarm"}, Ask(c, o)
  PROVE  Contract!Ask(c) \/ UNCHANGED <<model, Asked, vecs>>
<1> USE DEF IInv, EmbeddingTypeOK, Kinds, Threads, Ask, Goto, answers
<1>1. CASE o = "embed"
  BY <1>1 DEF Contract!Ask
<1>2. CASE o = "prewarm"
  BY <1>2 DEF Asked
<1> QED
  BY <1>1, <1>2

\* Looking for a model and probing it change nothing the contract sees.
LEMMA EnsureRefines ==
  ASSUME IInv, NEW t \in Threads, FindLoaded(t) \/ BeginLoad(t) \/ Probed(t)
  PROVE  UNCHANGED <<model, Asked, vecs>>
<1> USE DEF IInv, EmbeddingTypeOK, Kinds, Threads, Goto, Leave, AfterEnsure, answers, Asked
<1>1. CASE FindLoaded(t)
  BY <1>1 DEF FindLoaded
<1>2. CASE BeginLoad(t)
  BY <1>2 DEF BeginLoad
<1>3. CASE Probed(t)
  BY <1>3 DEF Probed
<1> QED
  BY <1>1, <1>2, <1>3

\* The first model comes into service.
LEMMA LoadedRefines ==
  ASSUME IInv, NEW t \in Threads, Loaded(t)
  PROVE  \E m \in Models : Contract!Serve(m)
<1>1. Contract!Serve(name)
  BY DEF Loaded, Goto, answers, Contract!Serve
<1> QED
  BY <1>1 DEF IInv, EmbeddingTypeOK

\* A call of /embed that finds no model to load returns with an error.
LEMMA FailsRefines ==
  ASSUME IInv, NEW t \in Threads, Fails(t)
  PROVE  \/ t \in Callers /\ Contract!Return(t)
         \/ UNCHANGED <<model, Asked, vecs>>
<1> USE DEF IInv, EmbeddingTypeOK, Threads, Fails, Leave, answers
<1>1. CASE t \in Callers /\ op[t] = "embed"
  <2>1. vecs[t] = NoModel
    BY <1>1 DEF Readers
  <2> QED
    BY <1>1, <2>1 DEF Contract!Return
<1>2. CASE ~(t \in Callers /\ op[t] = "embed")
  BY <1>2 DEF Asked
<1> QED
  BY <1>1, <1>2

\* The vectors are made by the model that serves, once for each answer.
LEMMA ComputeRefines ==
  ASSUME IInv, NEW c \in Callers, Compute(c)
  PROVE  Contract!Embed(c)
  BY DEF IInv, Kinds, Readers, Threads, Compute, Goto, Contract!Embed

\* The answer's label is no concern of the contract.
LEMMA ReadRefines ==
  ASSUME NEW c \in Callers, ReadName(c) \/ ReadDim(c)
  PROVE  UNCHANGED <<model, Asked, vecs>>
  BY DEF ReadName, ReadDim, Goto, Asked

\* The answer is sent.
LEMMA AnswerRefines ==
  ASSUME IInv, NEW c \in Callers, Answer(c)
  PROVE  Contract!Return(c)
  BY DEF IInv, EmbeddingTypeOK, Kinds, Threads, Answer, Leave, Contract!Return

\* Of a reload the contract sees that another model serves.
LEMMA ExchangeRefines ==
  ASSUME IInv, NEW c \in Callers, Exchange(c)
  PROVE  \E m \in Models : Contract!Serve(m)
<1>1. Contract!Serve(target[c])
  BY DEF Exchange, Goto, Contract!Serve
<1> QED
  BY <1>1 DEF IInv, Kinds, Exchange, Threads

\* The other steps of a reload.
LEMMA ReloadRefines ==
  ASSUME IInv, NEW c \in Callers,
         \/ \E m \in Models : AskReload(c, m)
         \/ BeginExchange(c) \/ Rename(c) \/ Resize(c)
  PROVE  UNCHANGED <<model, Asked, vecs>>
<1> USE DEF IInv, EmbeddingTypeOK, Kinds, Threads, Goto, Leave, answers, Asked
<1>1. CASE \E m \in Models : AskReload(c, m)
  BY <1>1 DEF AskReload
<1>2. CASE BeginExchange(c)
  BY <1>2 DEF BeginExchange
<1>3. CASE Rename(c)
  BY <1>3 DEF Rename
<1>4. CASE Resize(c)
  BY <1>4 DEF Resize
<1> QED
  BY <1>1, <1>2, <1>3, <1>4

\* Every step of the service is a step of the contract or unseen.
LEMMA StepRefines == IInv /\ [EmbeddingNext]_embeddingVars => [Contract!Next]_<<model, Asked, vecs>>
<1> SUFFICES ASSUME IInv, [EmbeddingNext]_embeddingVars
             PROVE  Contract!Next \/ UNCHANGED <<model, Asked, vecs>>
  BY Unseen
<1>1. CASE StartBackgroundLoad
  BY <1>1, LoaderRefines
<1>2. CASE \E c \in Callers, o \in {"embed", "prewarm"} : Ask(c, o)
  BY <1>2, AskRefines DEF Contract!Next
<1>3. CASE \E t \in Threads : Ensure(t)
  BY <1>3, EnsureRefines, LoadedRefines, FailsRefines DEF Ensure, Contract!Next
<1>4. CASE \E c \in Callers : Compute(c) \/ ReadName(c) \/ ReadDim(c) \/ Answer(c)
  BY <1>4, ComputeRefines, ReadRefines, AnswerRefines DEF Contract!Next
<1>5. CASE \E c \in Callers, m \in Models : AskReload(c, m)
  BY <1>5, ReloadRefines
<1>6. CASE \E c \in Callers : BeginExchange(c) \/ Exchange(c) \/ Rename(c) \/ Resize(c)
  BY <1>6, ReloadRefines, ExchangeRefines DEF Contract!Next
<1>7. CASE UNCHANGED embeddingVars
  BY <1>7 DEF embeddingVars, answers, Asked
<1> QED
  BY <1>1, <1>2, <1>3, <1>4, <1>5, <1>6, <1>7 DEF EmbeddingNext

\* The vectors of one answer come from one model, which served at some moment
\* of the call, whatever reloads and failures surround it.
THEOREM Refinement == EmbeddingSpec => ImplementsContract
<1>1. EmbeddingSpec => []IInv
  BY Invariant
<1>2. IInv /\ [EmbeddingNext]_embeddingVars => [Contract!Next]_<<model, {c \in Callers : op[c] = "embed"}, vecs>>
  BY StepRefines DEF Asked
<1> QED
  BY <1>1, <1>2, InitRefines, PTL DEF EmbeddingSpec, ImplementsContract, Contract!Spec
=============================================================================
