-------------------------- MODULE McpServer_proofs --------------------------
(***************************************************************************)
(* Theorems about three parts of the MCP server that share nothing but the *)
(* process: the audit logger, the tool switch_model and the sessions of    *)
(* the code sandbox, for any number of entries, calls and sessions.        *)
(*                                                                         *)
(* The audit logger: that the trail is in order is not inductive: it rests *)
(* on the order in the queue, and on everything stored being older than    *)
(* the entry in the writer's hand, and that one older than everything      *)
(* still queued.  The arguments for the other two stand before them.       *)
(***************************************************************************)
EXTENDS AuditLogger, ModelSwitch, SandboxSessions, FiniteSetTheorems, TLAPS

(***************************************************************************)
(* The audit logger.                                                       *)
(***************************************************************************)

QueueInOrder ==
    /\ \A i, j \in 1..Len(queue) : i < j => queue[i] < queue[j]
    /\ \A i \in 1..Len(queue) : queue[i] <= logged

HandBeforeQueue ==
    /\ inHand <= logged
    /\ inHand # 0 <=> writer = "inserting" /\ alive
    /\ \A i \in 1..Len(queue) : inHand < queue[i]

StoredBeforeRest ==
    \A k \in 1..Len(stored) :
        /\ stored[k] <= logged
        /\ inHand # 0 => stored[k] < inHand
        /\ \A i \in 1..Len(queue) : stored[k] < queue[i]

IInv == TypeOK /\ QueueInOrder /\ HandBeforeQueue /\ StoredBeforeRest /\ StoredInOrder

LEMMA EmptyFacts == <<>> \in Seq(Entries) /\ Len(<<>>) = 0 /\ 1..Len(<<>>) = {}
OBVIOUS

LEMMA InitIInv == Init => IInv
<1> SUFFICES ASSUME Init PROVE IInv
  OBVIOUS
<1>1. TypeOK
  <2>1. queue \in Seq(Entries) /\ Len(queue) <= QueueSize /\ stored \in Seq(Entries)
    BY EmptyFacts, SizesAssumption DEF Init
  <2>2. 0 \in 0..MaxEntries
    BY SizesAssumption
  <2> QED
    BY <2>1, <2>2 DEF Init, TypeOK
<1>2. QueueInOrder /\ HandBeforeQueue /\ StoredBeforeRest /\ StoredInOrder
  BY EmptyFacts
  DEF Init, QueueInOrder, HandBeforeQueue, StoredBeforeRest, StoredInOrder
<1> QED
  BY <1>1, <1>2 DEF IInv

LEMMA TailFacts ==
    ASSUME NEW q \in Seq(Entries), q # <<>>
    PROVE  /\ Head(q) = q[1] /\ Head(q) \in Entries
           /\ Tail(q) \in Seq(Entries) /\ Len(Tail(q)) = Len(q) - 1
           /\ \A i \in 1..Len(Tail(q)) : i + 1 \in 1..Len(q) /\ Tail(q)[i] = q[i + 1]
           /\ 1 \in 1..Len(q)
OBVIOUS

LEMMA AppendFacts ==
    ASSUME NEW q \in Seq(Entries), NEW e \in Entries
    PROVE  /\ Append(q, e) \in Seq(Entries) /\ Len(Append(q, e)) = Len(q) + 1
           /\ \A i \in 1..Len(q) + 1 : \/ i \in 1..Len(q) /\ Append(q, e)[i] = q[i]
                                       \/ i = Len(q) + 1 /\ Append(q, e)[i] = e
OBVIOUS

LEMMA NextIInv == IInv /\ [Next]_vars => IInv'
<1> SUFFICES ASSUME IInv, [Next]_vars PROVE IInv'
  OBVIOUS
<1> USE SizesAssumption
    DEF IInv, TypeOK, QueueInOrder, HandBeforeQueue, StoredBeforeRest, StoredInOrder,
        Entries, history, control
<1>1. CASE LogToolCall
  <2>1. logged + 1 \in Entries /\ logged' = logged + 1
    BY <1>1 DEF LogToolCall
  <2>2. CASE Len(queue) < QueueSize
    <3>1. queue' = Append(queue, logged + 1) /\ dropped' = dropped
      BY <1>1, <2>2 DEF LogToolCall
    <3>2. UNCHANGED <<inHand, stored, lost, running, writer, stopper, mark, alive>>
      BY <1>1 DEF LogToolCall
    <3>3. TypeOK'
      BY <2>1, <2>2, <3>1, <3>2, AppendFacts
    <3>4. QueueInOrder'
      <4>1. \A i \in 1..Len(queue)' : queue'[i] <= logged'
        BY <2>1, <3>1, AppendFacts
      <4>2. ASSUME NEW i \in 1..Len(queue)', NEW j \in 1..Len(queue)', i < j
            PROVE  queue'[i] < queue'[j]
        <5>1. i \in 1..Len(queue) /\ queue'[i] = queue[i]
          BY <2>1, <3>1, <4>2, AppendFacts
        <5> QED
          BY <2>1, <3>1, <4>2, <5>1, AppendFacts
      <4> QED
        BY <4>1, <4>2
    <3>5. HandBeforeQueue'
      BY <2>1, <3>1, <3>2, AppendFacts
    <3>6. StoredBeforeRest' /\ StoredInOrder'
      BY <2>1, <3>1, <3>2, AppendFacts
    <3> QED
      BY <3>3, <3>4, <3>5, <3>6
  <2>3. CASE ~(Len(queue) < QueueSize)
    <3>1. dropped' = dropped \cup {logged + 1} /\ queue' = queue
      BY <1>1, <2>3 DEF LogToolCall
    <3>2. UNCHANGED <<inHand, stored, lost, running, writer, stopper, mark, alive>>
      BY <1>1 DEF LogToolCall
    <3>3. TypeOK'
      BY <2>1, <3>1, <3>2
    <3>4. QueueInOrder' /\ HandBeforeQueue' /\ StoredBeforeRest' /\ StoredInOrder'
      BY <2>1, <3>1, <3>2
    <3> QED
      BY <3>3, <3>4
  <2> QED
    BY <2>2, <2>3
<1>2. CASE StartAsyncWriter
  BY <1>2 DEF StartAsyncWriter
<1>3. CASE StopAsyncWriter
  BY <1>3 DEF StopAsyncWriter
<1>4. CASE Joined
  BY <1>4 DEF Joined
<1>5. CASE Take
  BY <1>5, TailFacts DEF Take
<1>6. CASE GiveUp
  BY <1>6 DEF GiveUp
<1>7. CASE InsertAuditLog
  <2>1. inHand \in Entries
    BY <1>7 DEF InsertAuditLog
  <2> QED
    BY <1>7, <2>1, AppendFacts DEF InsertAuditLog
<1>8. CASE InsertFails
  BY <1>8 DEF InsertFails, InHand
<1>9. CASE Kill
  <2>1. Queued \subseteq Entries /\ InHand \subseteq Entries
    BY DEF Queued, InHand
  <2>2. queue' = <<>> /\ inHand' = 0 /\ lost' \subseteq Entries
    BY <1>9, <2>1 DEF Kill
  <2>3. UNCHANGED <<logged, dropped, running, writer, stopper, mark>> /\ alive' = FALSE
    BY <1>9 DEF Kill
  <2>4. QueueInOrder' /\ HandBeforeQueue'
    BY <2>2, <2>3, EmptyFacts
  <2>5. stored' \in Seq(Entries) /\ StoredBeforeRest' /\ StoredInOrder'
    <3>1. CASE inHand # 0 /\ stored' = Append(stored, inHand)
      <4>1. inHand \in Entries
        BY <3>1
      <4> QED
        BY <2>2, <2>3, <3>1, <4>1, AppendFacts, EmptyFacts
    <3>2. CASE stored' = stored
      BY <2>2, <2>3, <3>2, EmptyFacts
    <3> QED
      BY <1>9, <3>1, <3>2 DEF Kill
  <2>6. TypeOK'
    <3>1. queue' \in Seq(Entries) /\ Len(queue') <= QueueSize
      BY <2>2, EmptyFacts
    <3>2. running' \in BOOLEAN /\ alive' \in BOOLEAN
      BY <2>3
    <3>3. inHand' \in 0..MaxEntries /\ dropped' \subseteq Entries
      BY <2>2, <2>3
    <3>4. /\ logged' \in 0..MaxEntries /\ mark' \in 0..MaxEntries
          /\ writer' \in {"none", "waiting", "inserting", "ended"}
          /\ stopper' \in {"idle", "joining", "returned"}
      BY <2>3
    <3> HIDE DEF Entries
    <3> QED
      BY <2>2, <2>5, <3>1, <3>2, <3>3, <3>4
  <2> QED
    BY <2>4, <2>5, <2>6
<1>10. CASE UNCHANGED vars
  BY <1>10 DEF vars
<1> QED
  BY <1>1, <1>2, <1>3, <1>4, <1>5, <1>6, <1>7, <1>8, <1>9, <1>10 DEF Next

LEMMA Inductive == Spec => []IInv
BY InitIInv, NextIInv, PTL DEF Spec

\* Type correctness, the bound on the queue included.
THEOREM TypeCorrect == Spec => []TypeOK
BY Inductive, PTL DEF IInv

\* The rows of the audit table are in the order of the calls, and none is there twice.
THEOREM TrailInOrder == Spec => []StoredInOrder
BY Inductive, PTL DEF IInv

-----------------------------------------------------------------------------
(* Shutdown.                                                               *)

NewerThanMark == \A i \in 1..Len(queue) : mark < queue[i]

\* The writer only ends when it was told to and found the queue empty.
ShutdownInv ==
    /\ mark <= logged
    /\ stopper = "idle" /\ writer # "none" => running
    /\ writer = "ended" => stopper = "joining" /\ NewerThanMark
    /\ stopper = "returned" => writer = "none" /\ NewerThanMark

LEMMA NextShutdownInv == IInv /\ ShutdownInv /\ [Next]_vars => ShutdownInv'
<1> SUFFICES ASSUME IInv, ShutdownInv, [Next]_vars PROVE ShutdownInv'
  OBVIOUS
<1> USE DEF ShutdownInv, NewerThanMark, IInv, TypeOK, Entries, history, control
<1>1. CASE LogToolCall
  <2>1. logged' = logged + 1 /\ logged + 1 \in Entries
    BY <1>1, SizesAssumption DEF LogToolCall
  <2>2. UNCHANGED <<running, writer, stopper, mark>>
    BY <1>1 DEF LogToolCall
  <2>3. NewerThanMark => NewerThanMark'
    <3>1. CASE queue' = queue
      BY <2>2, <3>1
    <3>2. CASE queue' = Append(queue, logged + 1)
      BY <2>1, <2>2, <3>2, AppendFacts
    <3> QED
      BY <1>1, <3>1, <3>2 DEF LogToolCall
  <2>4. mark' <= logged'
    BY <2>1, <2>2
  <2> HIDE DEF NewerThanMark
  <2> QED
    BY <2>2, <2>3, <2>4
<1>2. CASE StartAsyncWriter
  BY <1>2 DEF StartAsyncWriter
<1>3. CASE StopAsyncWriter
  BY <1>3 DEF StopAsyncWriter
<1>4. CASE Joined
  BY <1>4 DEF Joined
<1>5. CASE Take
  BY <1>5 DEF Take
<1>6. CASE GiveUp
  <2>1. queue' = <<>> /\ ~running
    BY <1>6 DEF GiveUp, Loops
  <2> QED
    BY <1>6, <2>1, EmptyFacts DEF GiveUp
<1>7. CASE InsertAuditLog
  BY <1>7 DEF InsertAuditLog
<1>8. CASE InsertFails
  BY <1>8 DEF InsertFails
<1>9. CASE Kill
  BY <1>9, EmptyFacts DEF Kill
<1>10. CASE UNCHANGED vars
  BY <1>10 DEF vars
<1> QED
  BY <1>1, <1>2, <1>3, <1>4, <1>5, <1>6, <1>7, <1>8, <1>9, <1>10 DEF Next

\* When the shutdown handler goes on, nothing that was logged before it called
\* stop_async_writer is still waiting to be stored.
THEOREM StopsDrained == Spec => []StopDrains
<1>1. Init => ShutdownInv
  BY DEF Init, ShutdownInv
<1>2. IInv /\ ShutdownInv => StopDrains
  BY DEF IInv, TypeOK, HandBeforeQueue, ShutdownInv, NewerThanMark, StopDrains, Queued,
         InHand, Entries
<1> QED
  BY <1>1, <1>2, Inductive, NextShutdownInv, PTL DEF Spec

(***************************************************************************)
(* The tool switch_model.  A call that reports success has seen its model  *)
(* served because it has been watching its container from its first step;  *)
(* a wrong model can only come from another call because, as long as no    *)
(* rival comes, the container a call has restarted was started with the    *)
(* model that call wants.                                                  *)
(***************************************************************************)

\* A call that is under way has reported nothing, and has seen whatever its container
\* serves now.
Watching ==
    \A c \in Calls : step[c] # "idle" =>
        /\ result[c] = "none"
        /\ ServedBy(on[c]) \subseteq seen[c]
        /\ attempts[c] < MaxWait

\* Unless another call came after it, a call that has restarted its container finds the
\* model there that it was started with.
Undisputed ==
    \A c \in Calls :
        step[c] \in {"health", "verify"} /\ ~rival[c] => model[on[c]] = Target[type[c]]

\* One layout or the other, as long as every start succeeded.
LayoutKnown == Detected \/ startFailed

SwitchInv ==
    SwitchTypeOK /\ Watching /\ Undisputed /\ ReportIsTrue /\ LayoutKnown

LEMMA SwitchStarts == SwitchInit => SwitchInv
<1> SUFFICES ASSUME SwitchInit PROVE SwitchInv
  OBVIOUS
<1>1. SwitchTypeOK
  <2>1. up \subseteq Containers
    BY DEF SwitchInit, Types, Containers
  <2>2. /\ [c \in Calls |-> 0] \in [Calls -> 0..MaxWait]
        /\ [c \in Calls |-> Chat] \in [Calls -> Types]
        /\ [c \in Calls |-> Single] \in [Calls -> Containers]
    BY SwitchAssumption DEF Types, Containers
  <2> QED BY <2>1, <2>2 DEF SwitchInit, SwitchTypeOK, Results
<1>2. Watching /\ Undisputed /\ ReportIsTrue
  BY DEF SwitchInit, Watching, Undisputed, ReportIsTrue
<1>3. LayoutKnown
  BY DEF SwitchInit, LayoutKnown, Detected, Dual
<1> QED BY <1>1, <1>2, <1>3 DEF SwitchInv

\* What a container answers: the model it was started with, once that is loaded, or
\* nothing.
LEMMA Answers ==
    ASSUME NEW s, NEW m \in Info(s)
    PROVE  m = NoModel \/ (m = model[s] /\ m \in ServedBy(s))
BY DEF Info, ServedBy

\* A call that reports something true leaves the invariant intact.
LEMMA ReportKeeps ==
    ASSUME SwitchInv, NEW c \in Calls, step[c] # "idle",
           NEW r \in Results \ {"none"}, Report(c, r),
           r = "success" => Target[type[c]] \in seen[c],
           r = "wrong model" => rival[c],
           model' = model, healthy' \subseteq healthy, healthy' \subseteq up',
           up' \subseteq Containers, startFailed' \in BOOLEAN,
           LayoutKnown',
           attempts' \in [Calls -> 0..MaxWait],
           \A d \in Calls \ {c} : attempts'[d] = attempts[d],
           UNCHANGED <<type, on, seen, rival>>
    PROVE  SwitchInv'
<1> USE DEF SwitchInv
<1>1. /\ step' = [step EXCEPT ![c] = "idle"]
      /\ result' = [result EXCEPT ![c] = r]
  BY DEF Report
<1>2. SwitchTypeOK'
  BY <1>1 DEF SwitchTypeOK
<1>3. Watching'
  BY <1>1 DEF SwitchTypeOK, Watching, ServedBy
<1>4. Undisputed'
  BY <1>1 DEF SwitchTypeOK, Undisputed
<1>5. ReportIsTrue'
  BY <1>1 DEF SwitchTypeOK, ReportIsTrue
<1> QED BY <1>2, <1>3, <1>4, <1>5

\* A restart makes rivals of the other calls on that container.
LEMMA RestartKeeps ==
    ASSUME SwitchInv, NEW c \in Calls, step[c] # "idle",
           Restarts(c), UNCHANGED <<type, on, attempts, seen>>
    PROVE  SwitchInv'
<1> USE DEF SwitchInv
<1>1. /\ on[c] \in Containers
      /\ Target[type[c]] \in Models
  BY SwitchAssumption DEF SwitchTypeOK
<1>2. /\ up' = up \cup {on[c]}
      /\ healthy' = healthy \ {on[c]}
      /\ model' = [model EXCEPT ![on[c]] = Target[type[c]]]
      /\ rival' = [d \in Calls |-> d # c /\ (rival[d] \/ (step[d] # "idle" /\ on[d] = on[c]))]
      /\ step' = [step EXCEPT ![c] = "health"]
      /\ UNCHANGED <<startFailed, result>>
  BY DEF Restarts, ModelFor
<1>3. SwitchTypeOK'
  <2>1. rival' \in [Calls -> BOOLEAN]
    BY <1>2, Zenon
  <2> QED BY <1>1, <1>2, <2>1 DEF SwitchTypeOK
<1>4. Watching'
  BY <1>1, <1>2 DEF SwitchTypeOK, Watching, ServedBy
<1>5. Undisputed'
  <2> SUFFICES ASSUME NEW d \in Calls, step'[d] \in {"health", "verify"}, ~rival'[d]
               PROVE  model'[on[d]] = Target[type[d]]
    BY DEF Undisputed
  <2>1. CASE d = c
    BY <1>1, <1>2, <2>1 DEF SwitchTypeOK
  <2>2. CASE d # c
    <3>1. step'[d] = step[d]
      BY <1>2, <2>2 DEF SwitchTypeOK
    <3>2. ~rival[d] /\ on[d] # on[c]
      BY <1>2, <2>2, <3>1
    <3>3. on[d] \in Containers
      BY DEF SwitchTypeOK
    <3> QED BY <1>1, <1>2, <3>1, <3>2, <3>3 DEF SwitchTypeOK, Undisputed
  <2> QED BY <2>1, <2>2
<1>6. ReportIsTrue'
  <2> SUFFICES ASSUME NEW d \in Calls, result[d] = "wrong model" PROVE rival'[d]
    BY <1>2 DEF ReportIsTrue
  <2>1. d # c /\ rival[d]
    BY DEF Watching, ReportIsTrue
  <2> QED BY <1>2, <2>1
<1>7. LayoutKnown'
  BY <1>2 DEF LayoutKnown, Detected, Dual
<1> QED BY <1>3, <1>4, <1>5, <1>6, <1>7

LEMMA SwitchSteps ==
    SwitchInv /\ [SwitchNext]_switchVars => SwitchInv'
<1> SUFFICES ASSUME SwitchInv, [SwitchNext]_switchVars
             PROVE  SwitchInv'
  OBVIOUS
<1> USE DEF SwitchInv
<1>1. ASSUME NEW c \in Calls, NEW t \in Types, Begin(c, t)
      PROVE  SwitchInv'
  <2>0. 0 \in 0..MaxWait /\ 0 < MaxWait /\ "none" \in Results /\ "no layout" \in Results
    BY SwitchAssumption DEF Results
  <2>1. UNCHANGED <<up, healthy, model, startFailed>> /\ step[c] = "idle"
    BY <1>1 DEF Begin, containers
  <2>2. LayoutKnown'
    BY <2>1 DEF LayoutKnown, Detected, Dual
  <2>3. CASE Detected
    <3> DEFINE s == IF Dual THEN t ELSE Single
    <3>1. s \in Containers
      BY DEF Containers
    <3>2. /\ step' = [step EXCEPT ![c] = "info"]
          /\ on' = [on EXCEPT ![c] = s]
          /\ seen' = [seen EXCEPT ![c] = ServedBy(s)]
          /\ result' = [result EXCEPT ![c] = "none"]
          /\ type' = [type EXCEPT ![c] = t]
          /\ attempts' = [attempts EXCEPT ![c] = 0]
          /\ rival' = [rival EXCEPT ![c] = FALSE]
      BY <1>1, <2>3 DEF Begin
    <3> HIDE DEF s
    <3>3. ServedBy(s) \subseteq Models
      BY <3>1 DEF ServedBy, SwitchTypeOK
    <3>4. SwitchTypeOK'
      BY <2>0, <2>1, <3>1, <3>2, <3>3 DEF SwitchTypeOK
    <3>5. Watching'
      BY <2>0, <2>1, <3>2 DEF SwitchTypeOK, Watching, ServedBy
    <3>6. Undisputed' /\ ReportIsTrue'
      BY <2>1, <3>2 DEF SwitchTypeOK, Undisputed, ReportIsTrue
    <3> QED BY <2>2, <3>4, <3>5, <3>6
  <2>4. CASE ~Detected
    <3>1. /\ step' = [step EXCEPT ![c] = "idle"]
          /\ result' = [result EXCEPT ![c] = "no layout"]
          /\ type' = [type EXCEPT ![c] = t]
          /\ attempts' = [attempts EXCEPT ![c] = 0]
          /\ rival' = [rival EXCEPT ![c] = FALSE]
          /\ UNCHANGED <<on, seen>>
      BY <1>1, <2>4 DEF Begin, Report
    <3>2. SwitchTypeOK'
      BY <2>0, <2>1, <3>1 DEF SwitchTypeOK
    <3>3. Watching' /\ Undisputed' /\ ReportIsTrue'
      BY <2>1, <3>1
      DEF SwitchTypeOK, Watching, ServedBy, Undisputed, ReportIsTrue
    <3> QED BY <2>2, <3>2, <3>3
  <2> QED BY <2>3, <2>4
<1>2. ASSUME NEW c \in Calls, Answered(c) PROVE SwitchInv'
  <2>0. step[c] = "info" /\ UNCHANGED <<type, on, attempts, seen>>
    BY <1>2 DEF Answered
  <2>1. CASE \E m \in Info(on[c]) :
                 \/ /\ m = Target[type[c]]
                    /\ Report(c, "success")
                    /\ UNCHANGED <<containers, rival>>
                 \/ Report(c, "no info") /\ UNCHANGED <<containers, rival>>
    <3>1. PICK m \in Info(on[c]) :
                 \/ /\ m = Target[type[c]]
                    /\ Report(c, "success")
                    /\ UNCHANGED <<containers, rival>>
                 \/ Report(c, "no info") /\ UNCHANGED <<containers, rival>>
      BY <2>1
    <3>2. UNCHANGED <<up, healthy, model, startFailed, rival>>
      BY <3>1 DEF containers
    <3>3. LayoutKnown'
      BY <3>2 DEF LayoutKnown, Detected, Dual
    <3>4. PICK r \in {"success", "no info"} :
              /\ Report(c, r)
              /\ r = "success" => Target[type[c]] \in seen[c]
      <4>1. Target[type[c]] # NoModel
        BY SwitchAssumption DEF SwitchTypeOK
      <4>2. m = Target[type[c]] => m \in seen[c]
        BY <2>0, <4>1, Answers DEF Watching
      <4> QED BY <3>1, <4>2
    <3> QED BY <2>0, <3>2, <3>3, <3>4, ReportKeeps DEF Results, SwitchTypeOK
  <2>2. CASE StopFails(c) \/ StartFails(c)
    <3>1. /\ Report(c, "no restart")
          /\ model' = model /\ rival' = rival
          /\ healthy' \subseteq healthy /\ healthy' \subseteq up'
          /\ up' \subseteq Containers
          /\ startFailed' \in BOOLEAN
      BY <2>2 DEF StopFails, StartFails, SwitchTypeOK
    <3>2. LayoutKnown'
      BY <2>2 DEF StopFails, StartFails, LayoutKnown, Detected, Dual
    <3> QED BY <2>0, <3>1, <3>2, ReportKeeps DEF Results, SwitchTypeOK
  <2>3. CASE Restarts(c)
    BY <2>0, <2>3, RestartKeeps
  <2> QED BY <1>2, <2>1, <2>2, <2>3 DEF Answered
<1>3. ASSUME NEW c \in Calls, Check(c) PROVE SwitchInv'
  <2>1. UNCHANGED <<up, healthy, model, startFailed, type, on, seen, rival>> /\ step[c] = "health"
    BY <1>3 DEF Check, containers
  <2>2. LayoutKnown'
    BY <2>1 DEF LayoutKnown, Detected, Dual
  <2>3. CASE step' = [step EXCEPT ![c] = "verify"] /\ UNCHANGED <<attempts, result>>
    BY <2>1, <2>2, <2>3
    DEF SwitchTypeOK, Watching, Undisputed, ReportIsTrue, ServedBy
  <2>4. attempts[c] + 1 \in 0..MaxWait /\ (attempts[c] + 1 # MaxWait => attempts[c] + 1 < MaxWait)
    BY <2>1, SwitchAssumption DEF SwitchTypeOK, Watching
  <2>5. CASE attempts' = [attempts EXCEPT ![c] = @ + 1] /\ attempts[c] + 1 = MaxWait
             /\ Report(c, "no health")
    <3>1. attempts' \in [Calls -> 0..MaxWait]
      BY <2>4, <2>5 DEF SwitchTypeOK
    <3> QED BY <2>1, <2>2, <2>5, <3>1, ReportKeeps DEF Results, SwitchTypeOK
  <2>6. CASE attempts' = [attempts EXCEPT ![c] = @ + 1] /\ attempts[c] + 1 # MaxWait
             /\ UNCHANGED <<step, result>>
    <3>1. attempts' \in [Calls -> 0..MaxWait]
      BY <2>4, <2>6 DEF SwitchTypeOK
    <3>2. Watching'
      BY <2>1, <2>4, <2>6 DEF SwitchTypeOK, Watching, ServedBy
    <3> QED BY <2>1, <2>2, <2>6, <3>1, <3>2
        DEF SwitchTypeOK, Undisputed, ReportIsTrue
  <2> QED BY <1>3, <2>3, <2>5, <2>6 DEF Check
<1>4. ASSUME NEW c \in Calls, Verify(c) PROVE SwitchInv'
  <2>1. UNCHANGED <<up, healthy, model, startFailed, type, on, attempts, seen, rival>> /\ step[c] = "verify"
    BY <1>4 DEF Verify, containers
  <2>2. LayoutKnown'
    BY <2>1 DEF LayoutKnown, Detected, Dual
  <2>3. PICK m \in Info(on[c]) :
            Report(c, IF m = Target[type[c]] THEN "success"
                             ELSE IF m = NoModel THEN "no info" ELSE "wrong model")
    BY <1>4 DEF Verify
  <2>4. Target[type[c]] # NoModel
    BY SwitchAssumption DEF SwitchTypeOK
  <2>5. m = Target[type[c]] => m \in seen[c]
    BY <2>1, <2>4, Answers DEF Watching
  <2>6. m # Target[type[c]] /\ m # NoModel => rival[c]
    BY <2>1, Answers DEF Undisputed
  <2>7. PICK r \in {"success", "no info", "wrong model"} :
            /\ Report(c, r)
            /\ r = "success" => Target[type[c]] \in seen[c]
            /\ r = "wrong model" => rival[c]
    BY <2>3, <2>5, <2>6
  <2> QED BY <2>1, <2>2, <2>7, ReportKeeps DEF Results, SwitchTypeOK
<1>5. ASSUME NEW s \in Containers, Loaded(s) PROVE SwitchInv'
  <2>1. /\ s \in up
        /\ healthy' = healthy \cup {s}
        /\ seen' = [c \in Calls |->
                       IF step[c] # "idle" /\ on[c] = s THEN seen[c] \cup {model[s]} ELSE seen[c]]
        /\ UNCHANGED <<up, model, startFailed, step, type, on, attempts, result, rival>>
    BY <1>5 DEF Loaded
  <2>2. model[s] \in Models
    BY DEF SwitchTypeOK
  <2>3. \A c \in Calls : seen[c] \subseteq seen'[c] /\ seen'[c] \subseteq Models
    BY <2>1, <2>2 DEF SwitchTypeOK
  <2>4. SwitchTypeOK'
    BY <2>1, <2>3 DEF SwitchTypeOK
  <2>5. Watching'
    BY <2>1 DEF Watching, ServedBy
  <2>6. Undisputed' /\ ReportIsTrue' /\ LayoutKnown'
    BY <2>1, <2>3 DEF Undisputed, ReportIsTrue, LayoutKnown, Detected, Dual
  <2> QED BY <2>4, <2>5, <2>6
<1>6. ASSUME NEW s \in Containers, Dies(s) PROVE SwitchInv'
  BY <1>6 DEF Dies, SwitchTypeOK, Watching, ServedBy, Undisputed,
      ReportIsTrue, LayoutKnown, Detected, Dual
<1>7. CASE UNCHANGED switchVars
  BY <1>7 DEF switchVars, SwitchTypeOK, Watching, ServedBy, Undisputed,
      ReportIsTrue, LayoutKnown, Detected, Dual
<1> QED BY <1>1, <1>2, <1>3, <1>4, <1>5, <1>6, <1>7 DEF SwitchNext, Proceed

LEMMA SwitchInvariance ==
    SwitchSpec => []SwitchInv
<1>1. SwitchInit => SwitchInv
  BY SwitchStarts
<1>2. SwitchInv /\ [SwitchNext]_switchVars => SwitchInv'
  BY SwitchSteps
<1> QED BY <1>1, <1>2, PTL DEF SwitchSpec

\* The variables of switch_model keep their types.
THEOREM SwitchTypes ==
    SwitchSpec => []SwitchTypeOK
BY SwitchInvariance, PTL DEF SwitchInv

\* A call of switch_model that reports success has really seen the wanted model served,
\* and one that reports a wrong model has had its container restarted by another call.
THEOREM ReportsAreTrue ==
    SwitchSpec => []ReportIsTrue
BY SwitchInvariance, PTL DEF SwitchInv

\* Which containers there are can be told until a start fails; once it cannot, no new
\* call of switch_model changes that.
THEOREM LayoutStaysKnown ==
    SwitchSpec => LayoutLostByFailedStart
<1>1. SwitchInv /\ SwitchInv' /\ [SwitchNext]_switchVars =>
        [/\ ~Detected' => startFailed'
         /\ ~Detected /\ (\A c \in Calls : step[c] = "idle")
               => up' = up]_switchVars
  BY DEF SwitchInv, LayoutKnown, SwitchNext, Begin, containers, Proceed,
         Answered, Check, Verify, Loaded, Dies
<1> QED BY <1>1, SwitchInvariance, PTL DEF SwitchSpec, LayoutLostByFailedStart

(***************************************************************************)
(* The sessions of the sandbox.  A running call's session is still in the  *)
(* table, used since the call began and therefore never expired, unless it *)
(* was closed for its violations; a closed session's number never comes    *)
(* back, so that its violations stay as many as close a session.           *)
(***************************************************************************)

\* A table of sessions: it fits, its sessions have numbers of their own among the first n,
\* and none of them was stale at the last cleanup.
Table(table, n, clean) ==
    /\ DOMAIN table \subseteq Session
    /\ IsFiniteSet(DOMAIN table)
    /\ Cardinality(DOMAIN table) <= MaxSessions
    /\ \A s \in DOMAIN table :
           /\ table[s] \in SessionInfo
           /\ table[s].born \in 1..n
           /\ clean - table[s].since <= Timeout
    /\ \A s, t \in DOMAIN table : table[s].born = table[t].born => s = t

\* The calls that have charged each session.
Tally == [n \in Nat |-> Cardinality(ChargedTo(n))]

\* Its sessions have as many violations as calls have charged them, and not yet too many.
Charges(table) ==
    \A s \in DOMAIN table :
        /\ table[s].violations = Tally[table[s].born]
        /\ table[s].violations < BlockAfter

\* The session of a running call is still there, used since, unless others closed it.
Kept(table) ==
    \A c \in Call :
        calls[c].at = "running" =>
            \/ /\ calls[c].session \in DOMAIN table
               /\ table[calls[c].session].born = calls[c].in
               /\ calls[c].began <= table[calls[c].session].since
            \/ Tally[calls[c].in] = BlockAfter

Clocks == now \in 0..Horizon /\ cleaned \in 0..Horizon /\ cleaned <= now

CallFacts(n) ==
    /\ calls \in [Call -> CallInfo]
    /\ \A c \in Call :
          /\ calls[c].charged <= n /\ calls[c].in <= n
          /\ calls[c].at # "done" => ~calls[c].violation /\ calls[c].charged = 0
          /\ calls[c].at \in {"running", "done"} => 1 <= calls[c].in

RunsInTime ==
    \A c \in Call :
        calls[c].at = "running" => calls[c].began <= now /\ now - calls[c].began <= RunTime + Grace

\* A violation that missed its session found it closed.
Excused ==
    \A c \in Call :
        calls[c].violation /\ calls[c].charged # calls[c].in
            => Tally[calls[c].in] = BlockAfter

FinitelyCharged == \A k \in Nat \ {0} : IsFiniteSet(ChargedTo(k))

SandboxInv ==
    /\ Clocks /\ born \in Nat
    /\ CallFacts(born) /\ RunsInTime /\ FinitelyCharged
    /\ Table(sessions, born, cleaned) /\ Charges(sessions) /\ Kept(sessions)
    /\ Excused

LEMMA RestrictIs == \A f, S : Restrict(f, S) = [x \in S |-> f[x]]
BY DEF Restrict

LEMMA TallyIs == \A n \in Nat : Tally[n] = Cardinality(ChargedTo(n))
BY DEF Tally

LEMMA Uncharged == ASSUME NEW n \in Nat, ChargedTo(n) = {} PROVE Tally[n] = 0
BY FS_EmptySet, TallyIs

LEMMA IdleCall ==
    ASSUME NEW s \in Session
    PROVE  [at |-> "idle", session |-> s, in |-> 0, began |-> 0, violation |-> FALSE, charged |-> 0]
               \in CallInfo
BY DEF CallInfo

LEMMA LimitFacts ==
    /\ MaxSessions \in Nat /\ MaxSessions >= 1 /\ BlockAfter \in Nat /\ BlockAfter >= 1
    /\ RunTime \in Nat /\ Grace \in Nat /\ Timeout \in Nat /\ Horizon \in Nat
    /\ RunTime + Grace <= Timeout
BY LimitsAssumption, RunsAreShort

LEMMA SandboxStarts == SandboxInit => SandboxInv
<1> SUFFICES ASSUME SandboxInit PROVE SandboxInv
  OBVIOUS
<1> USE LimitFacts
<1>1. Clocks /\ born = 0
  BY DEF SandboxInit, Clocks
<1>2. DOMAIN sessions = {}
  BY DEF SandboxInit
<1>3. Table(sessions, born, cleaned) /\ Charges(sessions)
  BY <1>1, <1>2, FS_EmptySet DEF Table, Charges
<1>4. \A c \in Call :
          /\ calls[c] \in CallInfo
          /\ calls[c].at = "idle" /\ calls[c].in = 0 /\ calls[c].charged = 0
          /\ ~calls[c].violation
  <2> SUFFICES ASSUME NEW c \in Call
               PROVE  /\ calls[c] \in CallInfo
                      /\ calls[c].at = "idle" /\ calls[c].in = 0 /\ calls[c].charged = 0
                      /\ ~calls[c].violation
    OBVIOUS
  <2>1. calls[c] \in [at : {"idle"}, session : Session, in : {0}, began : {0},
                      violation : {FALSE}, charged : {0}]
    BY DEF SandboxInit
  <2>2. calls[c] = [at |-> "idle", session |-> calls[c].session, in |-> 0, began |-> 0,
                    violation |-> FALSE, charged |-> 0] /\ calls[c].session \in Session
    BY <2>1
  <2>3. calls[c] \in CallInfo
    BY <2>2, IdleCall
  <2> QED BY <2>2, <2>3
<1>5. calls \in [Call -> CallInfo]
  <2>1. calls = [c \in Call |-> calls[c]]
    BY DEF SandboxInit
  <2> QED BY <2>1, <1>4
<1>6. CallFacts(born) /\ RunsInTime /\ Kept(sessions) /\ Excused
  BY <1>1, <1>4, <1>5 DEF CallFacts, RunsInTime, Kept, Excused
<1>7. FinitelyCharged
  <2> SUFFICES ASSUME NEW k \in Nat \ {0} PROVE IsFiniteSet(ChargedTo(k))
    BY DEF FinitelyCharged
  <2>1. ChargedTo(k) = {}
    BY <1>4 DEF ChargedTo
  <2> QED BY <2>1, FS_EmptySet
<1> QED BY <1>1, <1>3, <1>6, <1>7 DEF SandboxInv

\* A table from which sessions are taken is a table.
LEMMA TableShrinks ==
    ASSUME NEW table, NEW n \in Nat, NEW clean, NEW K, DOMAIN K \subseteq DOMAIN table,
           Table(table, n, clean),
           \A s \in DOMAIN K : /\ K[s] \in SessionInfo
                               /\ K[s].born = table[s].born
                               /\ K[s].since = table[s].since
    PROVE  Table(K, n, clean)
<1>1. IsFiniteSet(DOMAIN K) /\ Cardinality(DOMAIN K) <= Cardinality(DOMAIN table)
  BY FS_Subset DEF Table
<1>2. Cardinality(DOMAIN K) \in Nat /\ Cardinality(DOMAIN table) \in Nat
  BY <1>1, FS_CardinalityType DEF Table
<1>3. Cardinality(DOMAIN K) <= MaxSessions
  BY <1>1, <1>2, LimitFacts DEF Table
<1> QED BY <1>1, <1>3 DEF Table

\* The session a call was let into.
LEMMA OpenedFacts ==
    ASSUME NEW s \in Session, now \in Nat, born \in Nat,
           \A t \in DOMAIN sessions : sessions[t] \in SessionInfo
    PROVE  /\ DOMAIN Opened(s) = DOMAIN sessions \cup {s}
           /\ \A t \in DOMAIN sessions \ {s} : Opened(s)[t] = sessions[t]
           /\ Opened(s)[s] \in SessionInfo
           /\ Opened(s)[s].since = now
           /\ Valid(s) => /\ Opened(s)[s].born = sessions[s].born
                          /\ Opened(s)[s].violations = sessions[s].violations
           /\ ~Valid(s) => /\ Opened(s)[s].born = born + 1
                           /\ Opened(s)[s].violations = 0
<1>1. CASE Valid(s)
  <2>1. s \in DOMAIN sessions
    BY <1>1 DEF Valid
  <2>2. Opened(s) = [sessions EXCEPT ![s].since = now, ![s].executions = @ + 1]
    BY <1>1 DEF Opened
  <2>3. /\ DOMAIN Opened(s) = DOMAIN sessions
        /\ \A t \in DOMAIN sessions \ {s} : Opened(s)[t] = sessions[t]
    BY <2>2
  <2>4. Opened(s)[s] =
          [[sessions[s] EXCEPT !.since = now] EXCEPT !.executions = sessions[s].executions + 1]
    BY <2>1, <2>2 DEF SessionInfo
  <2>5. [sessions[s] EXCEPT !.since = now] =
          [born |-> sessions[s].born, since |-> now, executions |-> sessions[s].executions,
           violations |-> sessions[s].violations]
    BY <2>1 DEF SessionInfo
  <2>6. Opened(s)[s] =
          [born |-> sessions[s].born, since |-> now, executions |-> sessions[s].executions + 1,
           violations |-> sessions[s].violations]
    BY <2>4, <2>5
  <2>7. sessions[s] \in SessionInfo
    BY <2>1
  <2>8. Opened(s)[s] \in SessionInfo
    BY <2>6, <2>7 DEF SessionInfo
  <2>9. /\ Opened(s)[s].since = now
        /\ Opened(s)[s].born = sessions[s].born
        /\ Opened(s)[s].violations = sessions[s].violations
    BY <2>6
  <2>10. DOMAIN sessions \cup {s} = DOMAIN sessions
    BY <2>1
  <2> QED BY <1>1, <2>3, <2>8, <2>9, <2>10
<1>2. CASE ~Valid(s)
  <2>1. Opened(s) =
          [t \in DOMAIN sessions \cup {s} |->
            IF t # s THEN sessions[t]
            ELSE [born |-> born + 1, since |-> now, executions |-> 1, violations |-> 0]]
    BY <1>2 DEF Opened
  <2> QED BY <1>2, <2>1 DEF SessionInfo
<1> QED BY <1>1, <1>2

\* What record_security_violation leaves of a table.
LEMMA ChargeFacts ==
    ASSUME NEW table, NEW s, BlockAfter \in Nat,
           \A t \in DOMAIN table : table[t] \in SessionInfo
    PROVE  /\ DOMAIN Charge(table, s) \subseteq DOMAIN table
           /\ DOMAIN table \ {s} \subseteq DOMAIN Charge(table, s)
           /\ \A t \in DOMAIN table \ {s} : Charge(table, s)[t] = table[t]
           /\ s \in DOMAIN Charge(table, s) =>
                 /\ Charge(table, s)[s] = [table[s] EXCEPT !.violations = table[s].violations + 1]
                 /\ table[s].violations + 1 < BlockAfter
           /\ s \in DOMAIN table /\ s \notin DOMAIN Charge(table, s) =>
                 table[s].violations + 1 >= BlockAfter
<1>1. CASE s \notin DOMAIN table
  BY <1>1 DEF Charge
<1>2. CASE s \in DOMAIN table /\ table[s].violations + 1 >= BlockAfter
  BY <1>2, RestrictIs DEF Charge
<1>3. CASE s \in DOMAIN table /\ ~(table[s].violations + 1 >= BlockAfter)
  <2>1. Charge(table, s) = [table EXCEPT ![s].violations = @ + 1]
    BY <1>3 DEF Charge
  <2> QED BY <1>3, <2>1 DEF SessionInfo
<1> QED BY <1>1, <1>2, <1>3

\* The session of a running call is in use.
LEMMA RunningIsValid ==
    ASSUME SandboxInv, NEW d \in Call, calls[d].at = "running",
           calls[d].session \in DOMAIN sessions,
           calls[d].began <= sessions[calls[d].session].since
    PROVE  Valid(calls[d].session)
<1>1. /\ calls[d].began <= now /\ now - calls[d].began <= RunTime + Grace
      /\ calls[d].began \in Nat /\ sessions[calls[d].session].since \in Nat /\ now \in Nat
  BY LimitFacts DEF SandboxInv, Clocks, RunsInTime, Table, CallFacts, CallInfo, SessionInfo
<1> QED BY <1>1, LimitFacts DEF Valid, Expired

\* Whom the table as it is after Opened belongs to.
LEMMA OpenedKeeps ==
    ASSUME SandboxInv, NEW c \in Call, NEW informed, Admitted(c, informed)
    PROVE  /\ born' \in Nat /\ born <= born'
           /\ Table(Opened(calls[c].session), born', cleaned)
           /\ Charges(Opened(calls[c].session))
           /\ Kept(Opened(calls[c].session))
<1> DEFINE s == calls[c].session
           O == Opened(s)
<1> USE LimitFacts
<1>1. /\ s \in Session /\ now \in Nat /\ born \in Nat /\ cleaned \in Nat /\ cleaned <= now
      /\ \A t \in DOMAIN sessions : sessions[t] \in SessionInfo
  BY DEF SandboxInv, CallFacts, CallInfo, Clocks, Table
<1>2. /\ DOMAIN O = DOMAIN sessions \cup {s}
      /\ \A t \in DOMAIN sessions \ {s} : O[t] = sessions[t]
      /\ O[s] \in SessionInfo
      /\ O[s].since = now
      /\ Valid(s) => O[s].born = sessions[s].born /\ O[s].violations = sessions[s].violations
      /\ ~Valid(s) => O[s].born = born + 1 /\ O[s].violations = 0
  BY <1>1, OpenedFacts
<1>3. /\ Valid(s) => born' = born
      /\ ~Valid(s) => born' = born + 1 /\ HasRoom(s)
  BY DEF Admitted
<1>4. Valid(s) => s \in DOMAIN sessions
  BY DEF Valid
<1> HIDE DEF O
<1>5. born' \in Nat /\ born <= born'
  BY <1>1, <1>3
<1>6. IsFiniteSet(DOMAIN O) /\ Cardinality(DOMAIN O) <= MaxSessions
  <2>1. CASE Valid(s)
    <3>1. DOMAIN O = DOMAIN sessions
      BY <1>2, <1>4, <2>1
    <3> QED BY <3>1 DEF SandboxInv, Table
  <2>2. CASE ~Valid(s)
    <3>1. IsFiniteSet(DOMAIN sessions)
      BY DEF SandboxInv, Table
    <3>2. IsFiniteSet(DOMAIN sessions \ {s})
      BY <3>1, FS_Subset
    <3>3. Cardinality(DOMAIN sessions \ {s}) \in Nat
      BY <3>2, FS_CardinalityType
    <3>4. Cardinality(DOMAIN sessions \ {s}) < MaxSessions
      BY <1>3, <2>2 DEF HasRoom
    <3>5. s \notin DOMAIN sessions \ {s} /\ DOMAIN O = (DOMAIN sessions \ {s}) \cup {s}
      BY <1>2
    <3>6. /\ IsFiniteSet((DOMAIN sessions \ {s}) \cup {s})
          /\ Cardinality((DOMAIN sessions \ {s}) \cup {s}) = Cardinality(DOMAIN sessions \ {s}) + 1
      BY <3>2, <3>5, FS_AddElement
    <3> QED BY <3>3, <3>4, <3>5, <3>6
  <2> QED BY <2>1, <2>2
<1>7. Table(O, born', cleaned)
  <2>1. \A t \in DOMAIN O :
           /\ O[t] \in SessionInfo
           /\ O[t].born \in 1..born'
           /\ cleaned - O[t].since <= Timeout
    BY <1>1, <1>2, <1>3, <1>4, <1>5 DEF SandboxInv, Table, SessionInfo
  <2>2. ASSUME NEW t \in DOMAIN O, NEW u \in DOMAIN O, O[t].born = O[u].born PROVE t = u
    BY <1>1, <1>2, <1>3, <1>4, <2>2 DEF SandboxInv, Table, SessionInfo
  <2>3. DOMAIN O \subseteq Session
    BY <1>1, <1>2 DEF SandboxInv, Table
  <2> QED BY <1>6, <2>1, <2>2, <2>3 DEF Table
<1>8. Charges(O)
  <2>1. ChargedTo(born + 1) = {}
    BY <1>1 DEF SandboxInv, CallFacts, ChargedTo, CallInfo
  <2>2. Tally[born + 1] = 0
    BY <1>1, <2>1, Uncharged
  <2> QED BY <1>2, <1>4, <2>2 DEF SandboxInv, Charges
<1>9. Kept(O)
  <2> SUFFICES ASSUME NEW d \in Call, calls[d].at = "running",
                      ~(Tally[calls[d].in] = BlockAfter)
               PROVE  /\ calls[d].session \in DOMAIN O
                      /\ O[calls[d].session].born = calls[d].in
                      /\ calls[d].began <= O[calls[d].session].since
    BY DEF Kept
  <2>1. /\ calls[d].session \in DOMAIN sessions
        /\ sessions[calls[d].session].born = calls[d].in
        /\ calls[d].began <= sessions[calls[d].session].since
        /\ calls[d].began <= now
    BY DEF SandboxInv, Kept, RunsInTime
  <2>2. CASE calls[d].session = s
    <3>1. Valid(s)
      BY <2>1, <2>2, RunningIsValid
    <3> QED BY <1>2, <2>1, <2>2, <3>1
  <2>3. CASE calls[d].session # s
    BY <1>2, <2>1, <2>3
  <2> QED BY <2>2, <2>3
<1> QED BY <1>5, <1>7, <1>8, <1>9 DEF O


\* A violation is charged, or misses a session that was closed: the call c ends as r, and
\* the table, in which it ran with those of the other calls, takes the violation.
LEMMA ChargeStep ==
    ASSUME SandboxInv, NEW c \in Call, NEW table, NEW r,
           born' \in Nat, born <= born', UNCHANGED <<now, cleaned>>,
           Table(table, born', cleaned), Charges(table), Kept(table),
           calls[c].charged = 0,
           r \in CallInfo, r.at = "done", r.violation, r.session = calls[c].session,
           r.charged = ChargedBy(table, r.session), r.in \in 1..born',
           r.charged # r.in => Tally[r.in] = BlockAfter,
           calls' = [calls EXCEPT ![c] = r],
           sessions' = Charge(table, r.session)
    PROVE  SandboxInv'
<1> DEFINE s == r.session
           k == r.charged
<1> USE LimitFacts
<1>1. \A t \in DOMAIN table : table[t] \in SessionInfo /\ table[t].born \in 1..born'
  BY DEF Table
<1>2. /\ DOMAIN sessions' \subseteq DOMAIN table
      /\ DOMAIN table \ {s} \subseteq DOMAIN sessions'
      /\ \A t \in DOMAIN table \ {s} : sessions'[t] = table[t]
      /\ s \in DOMAIN sessions' =>
            /\ sessions'[s] = [table[s] EXCEPT !.violations = table[s].violations + 1]
            /\ table[s].violations + 1 < BlockAfter
      /\ s \in DOMAIN table /\ s \notin DOMAIN sessions' => table[s].violations + 1 >= BlockAfter
  BY <1>1, ChargeFacts
<1>4. \A t \in DOMAIN sessions' :
          /\ sessions'[t] \in SessionInfo
          /\ sessions'[t].born = table[t].born
          /\ sessions'[t].since = table[t].since
          /\ t # s => sessions'[t] = table[t]
  BY <1>1, <1>2 DEF SessionInfo
<1>5. /\ \A d \in Call \ {c} : calls'[d] = calls[d]
      /\ calls'[c] = r
      /\ calls' \in [Call -> CallInfo]
  BY DEF SandboxInv, CallFacts
<1>6. /\ s \in DOMAIN table => k = table[s].born /\ k \in 1..born'
      /\ s \notin DOMAIN table => k = 0
      /\ k \in 0..born'
  BY <1>1 DEF ChargedBy
\* Who has charged which session.
<1>7. \A n \in Nat \ {0} :
          ChargedTo(n)' = IF n = k THEN ChargedTo(n) \cup {c} ELSE ChargedTo(n)
  BY <1>5 DEF ChargedTo
<1>8. \A n \in Nat \ {0} : /\ IsFiniteSet(ChargedTo(n)) /\ c \notin ChargedTo(n)
                           /\ Tally[n] \in Nat
  BY FS_CardinalityType DEF SandboxInv, FinitelyCharged, ChargedTo, Tally
<1>9. \A n \in Nat \ {0} :
          /\ IsFiniteSet(ChargedTo(n)')
          /\ n # k => Tally'[n] = Tally[n]
          /\ n = k => Tally'[n] = Tally[n] + 1
  <2>1. \A n \in Nat : Tally'[n] = Cardinality(ChargedTo(n)')
    BY DEF Tally
  <2> SUFFICES ASSUME NEW n \in Nat \ {0}
               PROVE  /\ IsFiniteSet(ChargedTo(n)')
                      /\ n # k => Tally'[n] = Tally[n]
                      /\ n = k => Tally'[n] = Tally[n] + 1
    OBVIOUS
  <2>2. CASE n = k
    <3>1. ChargedTo(n)' = ChargedTo(n) \cup {c}
      BY <1>7, <2>2
    <3>2. /\ IsFiniteSet(ChargedTo(n) \cup {c})
          /\ Cardinality(ChargedTo(n) \cup {c}) = Cardinality(ChargedTo(n)) + 1
      BY <1>8, FS_AddElement
    <3> QED BY <2>1, <2>2, <3>1, <3>2, TallyIs
  <2>3. CASE n # k
    BY <1>7, <1>8, <2>1, <2>3, TallyIs
  <2> QED BY <2>2, <2>3
\* A closed session is charged no more.
<1>10. \A n \in Nat \ {0} : Tally[n] = BlockAfter =>
            Tally'[n] = BlockAfter
  <2> SUFFICES ASSUME NEW n \in Nat \ {0}, Tally[n] = BlockAfter
               PROVE  n # k
    BY <1>9
  <2>1. s \in DOMAIN table => Tally[k] < BlockAfter
    BY <1>1, <1>6 DEF Charges
  <2> QED BY <1>6, <2>1
<1>11. CallFacts(born)' /\ FinitelyCharged'
  BY <1>5, <1>6, <1>9 DEF SandboxInv, CallFacts, FinitelyCharged, CallInfo
<1>12. RunsInTime' /\ Clocks'
  BY <1>5 DEF SandboxInv, RunsInTime, Clocks
<1>13. Table(sessions', born', cleaned')
  <2>1. \A t \in DOMAIN sessions' : /\ sessions'[t] \in SessionInfo
                                   /\ sessions'[t].born = table[t].born
                                   /\ sessions'[t].since = table[t].since
    BY <1>4
  <2>2. Table(sessions', born', cleaned)
    BY <1>2, <2>1, TableShrinks
  <2> QED BY <2>2
<1>14. Charges(sessions)'
  <2> SUFFICES ASSUME NEW t \in DOMAIN sessions'
               PROVE  /\ sessions'[t].violations = Tally'[sessions'[t].born]
                      /\ sessions'[t].violations < BlockAfter
    BY DEF Charges
  <2>1. /\ table[t].violations = Tally[table[t].born]
        /\ table[t].violations < BlockAfter
        /\ table[t].born \in Nat \ {0}
        /\ sessions'[t].born = table[t].born
    <3>1. t \in DOMAIN table /\ sessions'[t].born = table[t].born
      BY <1>2, <1>4
    <3> QED BY <1>1, <3>1 DEF Charges
  <2>2. CASE t = s
    <3>1. sessions'[s].violations = table[s].violations + 1 /\ table[s].violations + 1 < BlockAfter
      BY <1>1, <1>2, <2>2 DEF SessionInfo
    <3> QED BY <1>2, <1>6, <1>9, <2>1, <2>2, <3>1
  <2>3. CASE t # s
    <3>1. table[t].born # k
      BY <1>2, <1>6, <2>1, <2>3 DEF Table
    <3>2. Tally'[table[t].born] = Tally[table[t].born]
      BY <1>9, <2>1, <3>1
    <3>3. sessions'[t] = table[t]
      BY <1>4, <2>3
    <3> QED BY <2>1, <3>2, <3>3
  <2> QED BY <2>2, <2>3
<1>15. Kept(sessions)'
  <2> SUFFICES ASSUME NEW d \in Call, calls'[d].at = "running",
                      ~(Tally'[calls'[d].in] = BlockAfter)
               PROVE  /\ calls'[d].session \in DOMAIN sessions'
                      /\ sessions'[calls'[d].session].born = calls'[d].in
                      /\ calls'[d].began <= sessions'[calls'[d].session].since
    BY DEF Kept
  <2>1. d # c /\ calls'[d] = calls[d] /\ calls[d].in \in Nat \ {0}
    BY <1>5 DEF SandboxInv, CallFacts, CallInfo
  <2> DEFINE t == calls[d].session
  <2>2. t \in DOMAIN table /\ table[t].born = calls[d].in /\ calls[d].began <= table[t].since
    BY <1>10, <2>1 DEF Kept
  <2>3. t \in DOMAIN sessions'
    <3> SUFFICES ASSUME t \notin DOMAIN sessions' PROVE FALSE
      OBVIOUS
    <3>1. t = s /\ table[s].violations + 1 >= BlockAfter
      BY <1>2, <2>2
    <3>2. /\ table[s].violations = Tally[k] /\ table[s].violations < BlockAfter
          /\ table[s].violations \in Nat /\ k = calls[d].in
      BY <1>1, <1>6, <2>2, <3>1 DEF Charges, SessionInfo
    <3>3. Tally'[k] = BlockAfter
      BY <1>9, <2>1, <3>1, <3>2
    <3> QED BY <2>1, <3>2, <3>3
  <2>4. sessions'[t].born = table[t].born /\ sessions'[t].since = table[t].since
    BY <1>4, <2>3
  <2> QED BY <2>1, <2>2, <2>3, <2>4
<1>16. Excused'
  <2> SUFFICES ASSUME NEW d \in Call, calls'[d].violation, calls'[d].charged # calls'[d].in
               PROVE  Tally'[calls'[d].in] = BlockAfter
    BY DEF Excused
  <2>1. CASE d = c
    BY <1>5, <1>10, <2>1
  <2>2. CASE d # c
    <3>1. calls'[d] = calls[d] /\ calls[d].in \in Nat \ {0}
      BY <1>5, <2>2 DEF SandboxInv, CallFacts, CallInfo
    <3> QED BY <1>10, <3>1 DEF SandboxInv, Excused
  <2> QED BY <2>1, <2>2
<1>17. Table(sessions, born, cleaned)'
  BY <1>13 DEF Table
<1> QED BY <1>11, <1>12, <1>14, <1>15, <1>16, <1>17 DEF SandboxInv


\* Nobody is charged in the step.
LEMMA TallyStays ==
    ASSUME SandboxInv, \A c \in Call : calls'[c].charged = calls[c].charged
    PROVE  Tally' = Tally /\ FinitelyCharged'
<1>1. \A n : ChargedTo(n)' = ChargedTo(n)
  BY DEF ChargedTo
<1> QED BY <1>1 DEF Tally, SandboxInv, FinitelyCharged

\* A running call is over and nobody is charged.
LEMMA Ends ==
    ASSUME SandboxInv, NEW c \in Call, calls[c].at = "running",
           calls' = [calls EXCEPT ![c] = Ended(c)],
           UNCHANGED <<now, sessions, born, cleaned>>
    PROVE  SandboxInv'
<1> USE LimitFacts
<1>1. calls \in [Call -> CallInfo]
  BY DEF SandboxInv, CallFacts
<1>2. /\ Ended(c) \in CallInfo
      /\ Ended(c).at = "done" /\ Ended(c).in = calls[c].in
      /\ Ended(c).charged = calls[c].charged
      /\ Ended(c).violation = calls[c].violation
  BY <1>1 DEF Ended, CallInfo
<1>3. /\ calls' \in [Call -> CallInfo]
      /\ calls'[c] = Ended(c)
      /\ \A d \in Call \ {c} : calls'[d] = calls[d]
  BY <1>1, <1>2
<1>4. Tally' = Tally /\ FinitelyCharged'
  BY <1>2, <1>3, TallyStays
<1>5. CallFacts(born)'
  BY <1>2, <1>3 DEF SandboxInv, CallFacts
<1>6. RunsInTime' /\ Clocks' /\ Table(sessions, born, cleaned)'
  BY <1>2, <1>3 DEF SandboxInv, RunsInTime, Clocks, Table
<1>7. Charges(sessions)'
  BY <1>4 DEF SandboxInv, Charges
<1>8. Kept(sessions)'
  BY <1>2, <1>3, <1>4 DEF SandboxInv, Kept
<1>9. Excused'
  BY <1>2, <1>3, <1>4 DEF SandboxInv, Excused
<1> QED BY <1>4, <1>5, <1>6, <1>7, <1>8, <1>9 DEF SandboxInv

\* Calls are turned away, and sessions leave that are not in use.
LEMMA Departures ==
    ASSUME SandboxInv, NEW names, UNCHANGED <<now, born>>,
           sessions' = Drop(names),
           \A s \in names \cap DOMAIN sessions : ~Valid(s),
           cleaned' \in Nat, cleaned' <= now,
           \A s \in DOMAIN sessions \ names : cleaned' - sessions[s].since <= Timeout,
           calls' \in [Call -> CallInfo],
           \A c \in Call :
               \/ calls'[c] = calls[c]
               \/ /\ calls[c].at = "idle" /\ calls'[c].at \in {"refused", "invalid"}
                  /\ calls'[c].charged = calls[c].charged /\ calls'[c].in = calls[c].in
                  /\ calls'[c].violation = calls[c].violation
    PROVE  SandboxInv'
<1> USE LimitFacts
<1>1. /\ DOMAIN sessions' = DOMAIN sessions \ names
      /\ \A s \in DOMAIN sessions' : sessions'[s] = sessions[s]
  BY RestrictIs DEF Drop
<1>2. \A c \in Call : calls'[c].charged = calls[c].charged
  OBVIOUS
<1>3. Tally' = Tally /\ FinitelyCharged'
  BY <1>2, TallyStays
<1>4. CallFacts(born)'
  BY DEF SandboxInv, CallFacts
<1>5. RunsInTime' /\ Clocks'
  BY DEF SandboxInv, RunsInTime, Clocks
<1>6. Table(sessions, born, cleaned)'
  <2>1. Table(sessions', born, cleaned)
    <3>1. Table(sessions, born, cleaned) /\ born \in Nat
      BY DEF SandboxInv
    <3>2. \A s \in DOMAIN sessions' :
              /\ sessions'[s] \in SessionInfo
              /\ sessions'[s].born = sessions[s].born
              /\ sessions'[s].since = sessions[s].since
      BY <1>1, <3>1 DEF Table
    <3> QED BY <1>1, <3>1, <3>2, TableShrinks
  <2> QED BY <1>1, <2>1 DEF Table
<1>7. Charges(sessions)'
  BY <1>1, <1>3 DEF SandboxInv, Charges
<1>8. Kept(sessions)'
  <2> SUFFICES ASSUME NEW d \in Call, calls'[d].at = "running", Tally'[calls'[d].in] # BlockAfter
               PROVE  /\ calls'[d].session \in DOMAIN sessions'
                      /\ sessions'[calls'[d].session].born = calls'[d].in
                      /\ calls'[d].began <= sessions'[calls'[d].session].since
    BY DEF Kept
  <2>1. calls'[d] = calls[d]
    OBVIOUS
  <2>2. /\ calls[d].session \in DOMAIN sessions
        /\ sessions[calls[d].session].born = calls[d].in
        /\ calls[d].began <= sessions[calls[d].session].since
    BY <1>3, <2>1 DEF SandboxInv, Kept
  <2>3. Valid(calls[d].session)
    BY <2>1, <2>2, RunningIsValid
  <2> QED BY <1>1, <2>1, <2>2, <2>3
<1>9. Excused'
  BY <1>3 DEF SandboxInv, Excused, CallFacts
<1> QED BY <1>3, <1>4, <1>5, <1>6, <1>7, <1>8, <1>9 DEF SandboxInv

\* A call begins to run, in session k at time t.
Running(x, k, t) == [[[x EXCEPT !.at = "running"] EXCEPT !.in = k] EXCEPT !.began = t]

LEMMA RunningCall ==
    ASSUME NEW x \in CallInfo, NEW k, NEW t, k \in Nat, t \in Nat
    PROVE  /\ Running(x, k, t) \in CallInfo
           /\ Running(x, k, t).at = "running" /\ Running(x, k, t).session = x.session
           /\ Running(x, k, t).in = k /\ Running(x, k, t).began = t
           /\ Running(x, k, t).charged = x.charged /\ Running(x, k, t).violation = x.violation
BY DEF CallInfo, Running

\* Its code is rejected at once, and session k charged.
LEMMA RejectedCall ==
    ASSUME NEW x \in CallInfo, NEW k \in Nat, NEW r,
           r = [[[[x EXCEPT !.at = "done"] EXCEPT !.in = k] EXCEPT !.violation = TRUE] EXCEPT !.charged = k]
    PROVE  /\ r \in CallInfo
           /\ r.at = "done" /\ r.session = x.session /\ r.in = k /\ r.charged = k /\ r.violation
<1>1. PICK y : y = [[[x EXCEPT !.at = "done"] EXCEPT !.in = k] EXCEPT !.violation = TRUE]
  OBVIOUS
<1>2. y \in CallInfo /\ y.at = "done" /\ y.session = x.session /\ y.in = k /\ y.violation = TRUE
  BY <1>1 DEF CallInfo
<1>3. r = [y EXCEPT !.charged = k]
  BY <1>1
<1> QED BY <1>2, <1>3 DEF CallInfo

LEMMA SandboxSteps ==
    SandboxInv /\ [SandboxNext]_sandboxVars => SandboxInv'
<1> SUFFICES ASSUME SandboxInv, [SandboxNext]_sandboxVars PROVE SandboxInv'
  OBVIOUS
<1> USE LimitFacts
<1>0. /\ calls \in [Call -> CallInfo] /\ now \in Nat /\ born \in Nat /\ cleaned \in Nat
      /\ cleaned <= now /\ now <= Horizon
      /\ \A s \in DOMAIN sessions : sessions[s] \in SessionInfo
  BY DEF SandboxInv, CallFacts, Clocks, Table
<1>1. ASSUME NEW c \in Call, NEW informed, Refuse(c, informed) PROVE SandboxInv'
  <2> DEFINE s == calls[c].session
  <2>1. /\ calls[c].at = "idle" /\ ~Valid(s)
        /\ sessions' = Drop({s})
        /\ UNCHANGED <<now, born, cleaned>>
    BY <1>1 DEF Refuse
  <2>2. PICK a \in {"refused", "invalid"} : calls' = [calls EXCEPT ![c].at = a]
    BY <1>1 DEF Refuse
  <2>3. [calls[c] EXCEPT !.at = a] \in CallInfo
    BY <1>0 DEF CallInfo
  <2>4. calls' \in [Call -> CallInfo]
    BY <1>0, <2>2, <2>3
  <2>5. /\ calls'[c].at = a /\ calls'[c].charged = calls[c].charged
        /\ calls'[c].in = calls[c].in /\ calls'[c].violation = calls[c].violation
    BY <1>0, <2>2 DEF CallInfo
  <2>6. \A d \in Call \ {c} : calls'[d] = calls[d]
    BY <1>0, <2>2
  <2>7. \A t \in DOMAIN sessions \ {s} : cleaned' - sessions[t].since <= Timeout
    BY <2>1 DEF SandboxInv, Table
  <2> QED BY <1>0, <2>1, <2>2, <2>4, <2>5, <2>6, <2>7, Departures
<1>2. ASSUME NEW c \in Call, NEW informed, Start(c, informed) PROVE SandboxInv'
  <2> DEFINE s == calls[c].session
             k == Opened(s)[s].born
             r == Running(calls[c], k, now)
  <2>1. /\ Admitted(c, informed)
        /\ sessions' = Opened(s)
        /\ UNCHANGED <<now, cleaned>>
        /\ calls[c].at = "idle" /\ s \in Session
    BY <1>0, <1>2 DEF Start, Admitted, CallInfo
  <2>2. /\ born' \in Nat /\ born <= born'
        /\ Table(sessions', born', cleaned) /\ Charges(sessions') /\ Kept(sessions')
    BY <2>1, OpenedKeeps
  <2>3. s \in DOMAIN sessions' /\ sessions'[s].since = now /\ k = sessions'[s].born /\ k \in 1..born'
    BY <1>0, <2>1, <2>2, OpenedFacts DEF Table
  <2>4. calls' = [calls EXCEPT ![c] = r]
    BY <1>0, <1>2 DEF Start, Running
  <2> HIDE DEF k
  <2>5. /\ r \in CallInfo
        /\ r.at = "running" /\ r.session = s /\ r.in = k /\ r.began = now
        /\ r.charged = calls[c].charged /\ r.violation = calls[c].violation
    <3>1. calls[c] \in CallInfo /\ k \in Nat /\ now \in Nat
      BY <1>0, <2>2, <2>3
    <3> QED BY <3>1, RunningCall
  <2> HIDE DEF r
  <2>6. /\ calls' \in [Call -> CallInfo]
        /\ calls'[c] = r
        /\ \A d \in Call \ {c} : calls'[d] = calls[d]
    BY <1>0, <2>4, <2>5
  <2>7. Tally' = Tally /\ FinitelyCharged'
    BY <2>5, <2>6, TallyStays
  <2>8. CallFacts(born)'
    BY <1>0, <2>1, <2>2, <2>3, <2>5, <2>6 DEF SandboxInv, CallFacts, CallInfo
  <2>9. RunsInTime' /\ Clocks' /\ Table(sessions, born, cleaned)'
    BY <1>0, <2>1, <2>2, <2>5, <2>6 DEF SandboxInv, RunsInTime, Clocks, Table
  <2>10. Charges(sessions)'
    BY <2>2, <2>7 DEF Charges
  <2>11. Kept(sessions)'
    BY <1>0, <2>2, <2>3, <2>5, <2>6, <2>7 DEF Kept
  <2>12. Excused'
    BY <2>1, <2>5, <2>6, <2>7 DEF SandboxInv, CallFacts, Excused
  <2> QED BY <2>2, <2>7, <2>8, <2>9, <2>10, <2>11, <2>12 DEF SandboxInv
<1>3. ASSUME NEW c \in Call, NEW informed, Reject(c, informed) PROVE SandboxInv'
  <2> DEFINE s == calls[c].session
             k == Opened(s)[s].born
             r == [[[[calls[c] EXCEPT !.at = "done"] EXCEPT !.in = k] EXCEPT !.violation = TRUE]
                        EXCEPT !.charged = k]
  <2>1. /\ Admitted(c, informed)
        /\ sessions' = Charge(Opened(s), s)
        /\ UNCHANGED <<now, cleaned>>
        /\ calls[c].at = "idle" /\ s \in Session
    BY <1>0, <1>3 DEF Reject, Admitted, CallInfo
  <2>2. calls' = [calls EXCEPT ![c] = r]
    BY <1>0, <1>3 DEF Reject
  <2>3. PICK table : table = Opened(s)
    OBVIOUS
  <2>4. /\ born' \in Nat /\ born <= born'
        /\ Table(table, born', cleaned) /\ Charges(table) /\ Kept(table)
    BY <2>1, <2>3, OpenedKeeps
  <2>5. s \in DOMAIN table /\ k = table[s].born /\ k \in 1..born'
    BY <1>0, <2>1, <2>3, <2>4, OpenedFacts DEF Table
  <2>6. /\ r \in CallInfo
        /\ r.at = "done" /\ r.session = s /\ r.in = k /\ r.charged = k /\ r.violation
    <3>1. calls[c] \in CallInfo /\ k \in Nat
      BY <1>0, <2>4, <2>5
    <3> QED BY <3>1, RejectedCall
  <2> HIDE DEF k, r
  <2>7. r.charged = ChargedBy(table, r.session)
    BY <2>5, <2>6 DEF ChargedBy
  <2>8. calls[c].charged = 0
    BY <2>1 DEF SandboxInv, CallFacts
  <2> QED BY <2>1, <2>2, <2>3, <2>4, <2>5, <2>6, <2>7, <2>8, ChargeStep
<1>4. ASSUME NEW c \in Call, Finish(c) \/ TimeOut(c) PROVE SandboxInv'
  BY <1>4, Ends DEF Finish, TimeOut
<1>5. ASSUME NEW c \in Call, FinishInViolation(c) PROVE SandboxInv'
  <2> DEFINE s == calls[c].session
             k == ChargedBy(sessions, s)
             r == [[Ended(c) EXCEPT !.violation = TRUE] EXCEPT !.charged = k]
  <2>1. /\ calls[c].at = "running"
        /\ sessions' = Charge(sessions, s)
        /\ calls' = [calls EXCEPT ![c] = r]
        /\ UNCHANGED <<now, born, cleaned>>
    BY <1>5 DEF FinishInViolation
  <2>2. PICK table : table = sessions
    OBVIOUS
  <2>3. Table(table, born', cleaned) /\ Charges(table) /\ Kept(table)
    BY <2>1, <2>2 DEF SandboxInv
  <2>4. k \in Nat
    BY <1>0 DEF ChargedBy, SessionInfo
  <2>5. /\ r \in CallInfo
        /\ r.at = "done" /\ r.session = s /\ r.in = calls[c].in /\ r.charged = k /\ r.violation
    BY <1>0, <2>4 DEF CallInfo, Ended
  <2> HIDE DEF r
  <2>6. r.charged = ChargedBy(table, r.session)
    BY <2>2, <2>5
  <2>7. calls[c].charged = 0 /\ r.in \in 1..born'
    BY <1>0, <2>1, <2>5 DEF SandboxInv, CallFacts, CallInfo
  <2>8. r.charged # r.in => Tally[r.in] = BlockAfter
    BY <2>1, <2>5 DEF SandboxInv, Kept, ChargedBy
  <2>9. /\ born' \in Nat /\ born <= born' /\ UNCHANGED <<now, cleaned>>
        /\ sessions' = Charge(table, r.session)
    BY <1>0, <2>1, <2>2, <2>5
  <2> QED BY <2>1, <2>3, <2>5, <2>6, <2>7, <2>8, <2>9, ChargeStep
<1>6. CASE CleanupSessions
  <2> DEFINE names == {s \in DOMAIN sessions : Expired(s)}
  <2>1. sessions' = Drop(names) /\ cleaned' = now /\ UNCHANGED <<now, calls, born>>
    BY <1>6 DEF CleanupSessions
  <2>2. \A s \in names \cap DOMAIN sessions : ~Valid(s)
    BY DEF Valid
  <2>3. \A s \in DOMAIN sessions \ names : cleaned' - sessions[s].since <= Timeout
    BY <1>0, <2>1 DEF Expired, SessionInfo
  <2> QED BY <1>0, <2>1, <2>2, <2>3, Departures
<1>7. CASE Tick
  <2>1. /\ now < Horizon /\ now' = now + 1 /\ UNCHANGED <<sessions, calls, born, cleaned>>
        /\ \A c \in Call : calls[c].at = "running" => now - calls[c].began < RunTime + Grace
    BY <1>7 DEF Tick
  <2>2. Clocks'
    BY <1>0, <2>1 DEF Clocks
  <2>3. RunsInTime'
    BY <1>0, <2>1 DEF SandboxInv, RunsInTime, CallInfo
  <2>4. Tally' = Tally /\ FinitelyCharged'
    BY <2>1, TallyStays
  <2> QED BY <2>1, <2>2, <2>3, <2>4 DEF SandboxInv, CallFacts, Table, Charges, Kept, Excused
<1>8. CASE UNCHANGED sandboxVars
  <2>1. UNCHANGED <<now, sessions, calls, born, cleaned>>
    BY <1>8 DEF sandboxVars
  <2>2. Tally' = Tally /\ FinitelyCharged'
    BY <2>1, TallyStays
  <2> QED BY <2>1, <2>2 DEF SandboxInv, Clocks, RunsInTime, CallFacts, Table, Charges, Kept, Excused
<1> QED
  BY <1>1, <1>2, <1>3, <1>4, <1>5, <1>6, <1>7, <1>8
  DEF SandboxNext, AdminCall, LegacyCall

LEMMA SandboxInvariance ==
    SandboxSpec => []SandboxInv
<1>1. SandboxInit => SandboxInv
  BY SandboxStarts
<1>2. SandboxInv /\ [SandboxNext]_sandboxVars => SandboxInv'
  BY SandboxSteps
<1> QED BY <1>1, <1>2, PTL DEF SandboxSpec

\* The table of sessions never outgrows MaxSessions, and the variables of the sandbox
\* keep their types.
THEOREM SandboxTypes ==
    SandboxSpec => []SandboxTypeOK
<1>1. SandboxInv => SandboxTypeOK
  BY DEF SandboxInv, Clocks, CallFacts, Table, SandboxTypeOK
<1> QED BY <1>1, SandboxInvariance, PTL

\* Every violation is charged to the session its code ran in, unless that one was closed
\* meanwhile for BlockAfter other violations; the counts in the table are those of the calls.
THEOREM ViolationsFindTheirSession ==
    SandboxSpec => []ViolationsAccounted
<1>1. SandboxInv => ViolationsAccounted
  <2> SUFFICES ASSUME SandboxInv PROVE ViolationsAccounted
    OBVIOUS
  <2>1. \A n \in Nat : Cardinality(ChargedTo(n)) = Tally[n]
    BY TallyIs
  <2>2. \A c \in Call : calls[c].in \in Nat
    BY DEF SandboxInv, CallFacts, CallInfo
  <2>3. \A s \in DOMAIN sessions : sessions[s].born \in Nat
    BY DEF SandboxInv, Table, SessionInfo
  <2> QED BY <2>1, <2>2, <2>3 DEF SandboxInv, Excused, Charges, ViolationsAccounted
<1> QED BY <1>1, SandboxInvariance, PTL

\* A client that names itself is refused a session only when MaxSessions others were in
\* use within Timeout before the last cleanup.
THEOREM TurnedAwayByACrowd ==
    SandboxSpec => RefusedByCrowd
<1>1. SandboxInv /\ [SandboxNext]_sandboxVars =>
        [\A c \in Call :
           calls[c].at = "idle" /\ calls'[c].at = "refused"
             => Cardinality({s \in DOMAIN sessions' :
                           cleaned - sessions'[s].since <= Timeout}) >= MaxSessions]_sandboxVars
  <2> SUFFICES ASSUME SandboxInv, [SandboxNext]_sandboxVars,
                      NEW c \in Call, calls[c].at = "idle", calls'[c].at = "refused"
               PROVE  Cardinality({s \in DOMAIN sessions' :
                           cleaned - sessions'[s].since <= Timeout}) >= MaxSessions
    OBVIOUS
  <2> DEFINE s == calls[c].session
  <2>1. calls \in [Call -> CallInfo] /\ cleaned \in Nat
    BY DEF SandboxInv, CallFacts, Clocks
  <2>2. sessions' = Drop({s}) /\ ~HasRoom(s)
    <3>1. Refuse(c, TRUE)
      <4>1. calls' # calls
        OBVIOUS
      <4>2. PICK d \in Call :
              \/ Refuse(d, TRUE) \/ Refuse(d, FALSE)
              \/ Start(d, TRUE) \/ Start(d, FALSE)
              \/ Reject(d, TRUE) \/ Reject(d, FALSE)
              \/ Finish(d) \/ FinishInViolation(d) \/ TimeOut(d)
        BY <4>1 DEF SandboxNext, sandboxVars, AdminCall, LegacyCall,
              CleanupSessions, Tick
      <4>3. \A e \in Call \ {d} : calls'[e] = calls[e]
        BY <2>1, <4>2 DEF Refuse, Start, Reject, Finish,
              FinishInViolation, TimeOut
      <4>4. d = c
        BY <4>3
      <4>5. ~Refuse(c, FALSE) /\ ~Finish(c) /\ ~TimeOut(c)
        BY <2>1 DEF Refuse, Finish, TimeOut, CallInfo
      <4>6. ~FinishInViolation(c)
        BY DEF FinishInViolation
      <4>7. ASSUME NEW informed, Start(c, informed) PROVE calls'[c].at = "running"
        BY <2>1, <4>7 DEF Start, CallInfo
      <4>8. ASSUME NEW informed, Reject(c, informed) PROVE calls'[c].at = "done"
        BY <2>1, <4>8 DEF Reject, CallInfo
      <4> QED BY <4>2, <4>4, <4>5, <4>6, <4>7, <4>8
    <3> QED BY <3>1 DEF Refuse
  <2>3. /\ DOMAIN sessions' = DOMAIN sessions \ {s}
        /\ \A t \in DOMAIN sessions' : sessions'[t] = sessions[t]
    BY <2>2, RestrictIs DEF Drop
  <2>4. {t \in DOMAIN sessions' : cleaned - sessions'[t].since <= Timeout} = DOMAIN sessions \ {s}
    BY <2>3 DEF SandboxInv, Table
  <2>5. IsFiniteSet(DOMAIN sessions \ {s})
    BY FS_Subset DEF SandboxInv, Table
  <2>6. Cardinality(DOMAIN sessions \ {s}) \in Nat
    BY <2>5, FS_CardinalityType
  <2>7. Cardinality(DOMAIN sessions \ {s}) >= MaxSessions
    BY <2>2, <2>6, LimitFacts DEF HasRoom
  <2> QED BY <2>4, <2>7
<1> QED BY <1>1, SandboxInvariance, PTL DEF SandboxSpec, RefusedByCrowd
=============================================================================
