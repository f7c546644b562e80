--------------------------- MODULE Approvals_proofs ---------------------------
(***************************************************************************)
(* Theorems about the approval workflow and about the queue that mails its *)
(* events: for any sets of requests and responders, any ways to decide and *)
(* any number of crashes, and for any batch size, any numbers of retries   *)
(* and SMTP attempts, and any number of events.  The two share nothing;    *)
(* the arguments for each stand before its part.                           *)
(***************************************************************************)
EXTENDS ApprovalWorkflow, NotificationQueue, FiniteSetTheorems, TLAPS

(***************************************************************************)
(* The workflow.  The safety properties are not inductive.  IInv adds what *)
(* links a row to the two parties that act on it: a responder whose UPDATE *)
(* decided a row was asked to, and is past its own UPDATE; a coroutine     *)
(* that is about to run the tool has an approved row behind it.            *)
(***************************************************************************)

\* A responder that was called works on a job of the kinds in use.
Called == \A p \in Responders : resp[p] # "idle" => job[p] \in Jobs

\* A request has no row before its call starts.
Unsubmitted == \A r \in Requests : call[r] = "idle" => rows[r].status = "none"

\* Every other call has one, unless its INSERT failed or it was lost.
Submitted ==
    \A r \in Requests :
        call[r] \in {"created", "polling", "granted", "timingOut", "marking", "reporting"}
            => rows[r].status # "none"

\* Whoever found the row found it in the table.
Found ==
    \A p \in Responders :
        resp[p] \in {"looked", "checked"} => rows[job[p].target].status # "none"

\* A row names the responder whose job decided it, and that one does not write again.
Credited ==
    \A r \in Requests, p \in Responders :
        rows[r].by = p => /\ job[p].target = r
                          /\ rows[r].status = job[p].choice
                          /\ resp[p] \notin {"idle", "looked", "checked"}

\* Only responders approve.
ApprovedBy == \A r \in Requests : rows[r].status = "approved" => rows[r].by \in Responders

\* A tool runs behind an approved row, once.
Granted ==
    \A r \in Requests : /\ call[r] = "granted" => rows[r].status = "approved"
                        /\ r \in ran => rows[r].status = "approved" /\ call[r] = "done"

\* A call that has concluded is over.
Concluded ==
    \A r \in Requests : verdict[r] # "none" => call[r] \in {"granted", "done", "lost"}

IInv ==
    /\ TypeOK
    /\ Called
    /\ Unsubmitted
    /\ Submitted
    /\ Found
    /\ Credited
    /\ ApprovedBy
    /\ Granted
    /\ Concluded
    /\ VerdictMatchesRow

-----------------------------------------------------------------------------
(* Type correctness.                                                       *)

LEMMA InitTypeOK == Init => TypeOK
BY ConstantsAssumption DEF Init, TypeOK, Row, Actors, CallStates, Results, RespStates

LEMMA UpdatePendingType ==
    ASSUME TypeOK, NEW r \in Requests, NEW s \in Verdicts, NEW p \in Actors
    PROVE  UpdatePending(r, s, p) \in [Requests -> Row]
BY DEF TypeOK, UpdatePending, Row

LEMMA LogType ==
    ASSUME audit \subseteq Entry, NEW r \in Requests, NEW p \in Actors,
           NEW e \in {"requested", "granted", "rejected", "timeout", "denied", "success"}
    PROVE  Log(e, r, p) \subseteq Entry
BY DEF Log, Entry

LEMMA JobsType == \A j \in Jobs : j \in Job /\ j.target \in Requests /\ j.choice \in Verdicts
BY DEF Jobs, Job, Verdicts

\* Each step of a gated call keeps the types.
LEMMA WaitingTypeOK ==
    ASSUME TypeOK, NEW r \in Requests, Waiting(r)
    PROVE  TypeOK'
<1> USE DEF waiting, deciding, server
<1>a. Nobody \in Actors /\ Waiter \in Actors
  BY DEF Actors
<1>1. CASE Submit(r)
  BY <1>1 DEF TypeOK, Submit, Row, CallStates
<1>2. CASE SubmitFails(r)
  BY <1>2, <1>a, LogType DEF TypeOK, SubmitFails, CallStates, Results
<1>3. CASE Announce(r)
  BY <1>3, <1>a, LogType DEF TypeOK, Announce, CallStates
<1>4. CASE Poll(r)
  BY <1>4, <1>a, LogType DEF TypeOK, Poll, CallStates, Results, PollStops
<1>5. CASE PollFails(r)
  BY <1>5 DEF TypeOK, PollFails, CallStates
<1>6. CASE Execute(r)
  BY <1>6, <1>a, LogType DEF TypeOK, Execute, CallStates
<1>7. CASE TimeOut(r)
  BY <1>7 DEF TypeOK, TimeOut, CallStates
<1>8. CASE CheckBeforeMark(r)
  BY <1>8 DEF TypeOK, CheckBeforeMark, CallStates
<1>9. CASE MarkTimeout(r)
  BY <1>9, <1>a, UpdatePendingType DEF TypeOK, MarkTimeout, CallStates, Verdicts
<1>10. CASE ReportTimeout(r)
  BY <1>10, <1>a, LogType DEF TypeOK, ReportTimeout, CallStates, Results
<1> QED
  BY <1>1, <1>2, <1>3, <1>4, <1>5, <1>6, <1>7, <1>8, <1>9, <1>10 DEF Waiting

\* Each step of a responder keeps the types.
LEMMA RespondingTypeOK ==
    ASSUME TypeOK, Called, NEW p \in Responders, Responding(p)
    PROVE  TypeOK'
<1> USE DEF waiting, deciding, server
<1>1. CASE Lookup(p)
  <2>1. \A j \in Jobs : AfterLookup(j) \in RespStates
    BY DEF AfterLookup, RespStates, Working
  <2> QED
    BY <1>1, <2>1, JobsType DEF TypeOK, Lookup
<1>2. CASE LookupFails(p)
  BY <1>2, JobsType DEF TypeOK, LookupFails, RespStates
<1>3. CASE CheckPending(p)
  BY <1>3 DEF TypeOK, CheckPending, RespStates, Working
<1>4. CASE Write(p)
  <2>1. job[p].target \in Requests /\ job[p].choice \in Verdicts /\ p \in Actors
    BY <1>4, JobsType DEF Write, Called, Actors
  <2>2. UpdatePending(job[p].target, job[p].choice, p) \in [Requests -> Row]
    BY <2>1, UpdatePendingType
  <2> QED
    BY <1>4, <2>2 DEF TypeOK, Write, RespStates, Working
<1>5. CASE WriteFails(p)
  BY <1>5 DEF TypeOK, WriteFails, RespStates, Working
<1>6. CASE Finish(p)
  <2>1. job[p].target \in Requests /\ p \in Actors
    BY <1>6, JobsType DEF Finish, Called, Actors
  <2>2. DecisionLog(p) \subseteq Entry
    BY <2>1, LogType DEF DecisionLog, TypeOK
  <2> QED
    BY <1>6, <2>2 DEF TypeOK, Finish, RespStates
<1> QED
  BY <1>1, <1>2, <1>3, <1>4, <1>5, <1>6 DEF Responding

LEMMA NextTypeOK ==
    ASSUME TypeOK, Called, [Next]_vars
    PROVE  TypeOK'
<1> USE DEF waiting, deciding, server
<1>1. ASSUME NEW r \in Requests, Waiting(r) PROVE TypeOK'
  BY <1>1, WaitingTypeOK
<1>2. ASSUME NEW r \in Requests, Expire(r) PROVE TypeOK'
  BY <1>2 DEF TypeOK, Expire
<1>3. ASSUME NEW r \in Requests, ReportStatus(r) PROVE TypeOK'
  BY <1>3 DEF TypeOK, ReportStatus
<1>4. ASSUME NEW p \in Responders, Responding(p) PROVE TypeOK'
  BY <1>4, RespondingTypeOK
<1>5. CASE Cleanup
  BY <1>5 DEF TypeOK, Cleanup, Row, Actors, Verdicts
<1>6. CASE Crash
  <2>1. crashes' \in 0..MaxCrashes
    BY <1>6, ConstantsAssumption DEF TypeOK, Crash
  <2>2. call' \in [Requests -> CallStates] /\ resp' \in [Responders -> RespStates]
    BY <1>6 DEF TypeOK, Crash, CallStates, RespStates
  <2> QED
    BY <1>6, <2>1, <2>2 DEF TypeOK, Crash
<1>7. CASE Restart
  BY <1>7 DEF TypeOK, Restart
<1>8. CASE UNCHANGED vars
  BY <1>8 DEF TypeOK, vars
<1> QED
  BY <1>1, <1>2, <1>3, <1>4, <1>5, <1>6, <1>7, <1>8 DEF Next

-----------------------------------------------------------------------------
(* What one step can do to a row, to a responder and to a call.            *)

\* The ways a row changes: it is opened, closed by the server itself, or decided.
Opened(r) ==
    /\ call[r] = "idle" /\ call'[r] = "created"
    /\ rows'[r].status = "pending" /\ rows'[r].by = rows[r].by

Closed(r) ==
    /\ Pending(r)
    /\ rows'[r].status \in {"timeout", "expired"} /\ rows'[r].by \in {Waiter, Nobody}

DecidedBy(r, p) ==
    /\ Pending(r)
    /\ resp[p] = "checked" /\ resp'[p] = "written"
    /\ job[p].target = r
    /\ rows'[r].status = job[p].choice /\ rows'[r].by = p

RowStep(r) ==
    \/ rows'[r] = rows[r]
    \/ Opened(r)
    \/ Closed(r)
    \/ \E p \in Responders : DecidedBy(r, p)

\* How a responder goes on.
JobStep(p) ==
    /\ resp[p] # "idle" => job'[p] = job[p] /\ resp'[p] # "idle"
    /\ resp[p] \notin {"idle", "looked", "checked"}
            => resp'[p] \notin {"idle", "looked", "checked"}
    /\ resp'[p] # "idle" => job'[p] \in Jobs
    /\ resp'[p] \in {"looked", "checked"} => rows[job'[p].target].status # "none"

\* How a call goes on.
CallStep(r) ==
    /\ call'[r] = "idle" => call[r] = "idle"
    /\ call'[r] \in {"polling", "granted", "timingOut", "marking", "reporting"}
            => call[r] \in {"created", "polling", "granted", "timingOut", "marking", "reporting"}
    /\ call'[r] = "created" => call[r] = "created" \/ rows'[r].status # "none"
    /\ call'[r] = "granted" => rows[r].status = "approved"
    /\ r \in ran' => r \in ran \/ (call[r] = "granted" /\ call'[r] = "done")
    /\ call[r] \in {"done", "lost"} => call'[r] = call[r]
    /\ call[r] = "granted" => call'[r] \in {"granted", "done", "lost"}
    /\ \/ verdict'[r] = verdict[r]
       \/ call'[r] = "done" /\ verdict'[r] = "create_failed"
       \/ call'[r] = "done" /\ verdict'[r] = "timeout" /\ call[r] = "reporting"
       \/ call'[r] \in {"granted", "done"} /\ verdict'[r] = rows[r].status

LEMMA RowSteps ==
    ASSUME IInv, Next, NEW r \in Requests
    PROVE  RowStep(r)
<1> USE DEF IInv, TypeOK, RowStep, waiting, deciding, server
<1>1. ASSUME NEW q \in Requests, Waiting(q) PROVE RowStep(r)
  <2>1. CASE Submit(q)
    BY <2>1 DEF Submit, Opened, Row
  <2>2. CASE MarkTimeout(q)
    BY <2>2 DEF MarkTimeout, UpdatePending, Closed
  <2>3. CASE UNCHANGED rows
    BY <2>3
  <2> QED
    BY <1>1, <2>1, <2>2, <2>3
    DEF Waiting, SubmitFails, Announce, Poll, PollFails, Execute, TimeOut,
        CheckBeforeMark, ReportTimeout
<1>2. ASSUME NEW p \in Responders, Responding(p) PROVE RowStep(r)
  <2>1. CASE Write(p)
    <3>1. job[p].target \in Requests
      BY <2>1, JobsType DEF Write, Called
    <3> QED
      BY <2>1, <3>1 DEF Write, UpdatePending, Pending, DecidedBy
  <2>2. CASE UNCHANGED rows
    BY <2>2
  <2> QED
    BY <1>2, <2>1, <2>2 DEF Responding, Lookup, LookupFails, CheckPending, WriteFails, Finish
<1>3. CASE Cleanup
  BY <1>3 DEF Cleanup, Overdue, Closed
<1>4. CASE UNCHANGED rows
  BY <1>4
<1> QED
  BY <1>1, <1>2, <1>3, <1>4 DEF Next, Expire, ReportStatus, Crash, Restart

LEMMA JobSteps ==
    ASSUME IInv, Next, NEW p \in Responders
    PROVE  JobStep(p)
<1> USE DEF IInv, TypeOK, JobStep, waiting, deciding, server
<1>1. ASSUME NEW q \in Responders, Responding(q) PROVE JobStep(p)
  <2>1. CASE Lookup(q)
    <3>1. PICK j \in Jobs : /\ job' = [job EXCEPT ![q] = j]
                            /\ resp' = [resp EXCEPT ![q] = AfterLookup(j)]
      BY <2>1 DEF Lookup
    <3>2. AfterLookup(j) # "idle"
      BY DEF AfterLookup
    <3>3. AfterLookup(j) \in {"looked", "checked"} => rows[j.target].status # "none"
      BY DEF AfterLookup
    <3> QED
      BY <2>1, <3>1, <3>2, <3>3 DEF Lookup, Called, Found
  <2>2. CASE LookupFails(q)
    BY <2>2 DEF LookupFails, Called, Found
  <2>3. CASE CheckPending(q)
    BY <2>3 DEF CheckPending, Called, Found
  <2>4. CASE Write(q)
    BY <2>4 DEF Write, Called, Found
  <2>5. CASE WriteFails(q)
    BY <2>5 DEF WriteFails, Called, Found
  <2>6. CASE Finish(q)
    BY <2>6 DEF Finish, Called, Found
  <2> QED
    BY <1>1, <2>1, <2>2, <2>3, <2>4, <2>5, <2>6 DEF Responding
<1>2. CASE Crash
  BY <1>2 DEF Crash, Called, Found, Working
<1>3. CASE UNCHANGED deciding
  BY <1>3 DEF Called, Found
<1> QED
  BY <1>1, <1>2, <1>3
  DEF Next, Waiting, Submit, SubmitFails, Announce, Poll, PollFails, Execute, TimeOut,
      CheckBeforeMark, MarkTimeout, ReportTimeout, Expire, ReportStatus, Cleanup, Restart

LEMMA CallSteps ==
    ASSUME IInv, Next, NEW r \in Requests
    PROVE  CallStep(r)
<1> USE DEF IInv, TypeOK, CallStep, waiting, deciding, server
<1>1. ASSUME NEW q \in Requests, Waiting(q) PROVE CallStep(r)
  <2>1. CASE Submit(q)
    BY <2>1 DEF Submit, Granted, Submitted
  <2>2. CASE SubmitFails(q)
    BY <2>2 DEF SubmitFails, Granted, Submitted
  <2>3. CASE Announce(q)
    BY <2>3 DEF Announce, Granted, Submitted
  <2>4. CASE Poll(q)
    BY <2>4 DEF Poll, Granted, Submitted, Grants
  <2>5. CASE PollFails(q)
    BY <2>5 DEF PollFails, Granted, Submitted
  <2>6. CASE Execute(q)
    BY <2>6 DEF Execute, Granted, Submitted
  <2>7. CASE TimeOut(q)
    BY <2>7 DEF TimeOut, Granted, Submitted
  <2>8. CASE CheckBeforeMark(q)
    BY <2>8 DEF CheckBeforeMark, Granted, Submitted
  <2>9. CASE MarkTimeout(q)
    BY <2>9 DEF MarkTimeout, Granted, Submitted
  <2>10. CASE ReportTimeout(q)
    BY <2>10 DEF ReportTimeout, Granted, Submitted
  <2> QED
    BY <1>1, <2>1, <2>2, <2>3, <2>4, <2>5, <2>6, <2>7, <2>8, <2>9, <2>10 DEF Waiting
<1>2. CASE Crash
  BY <1>2 DEF Crash, Granted, Submitted, Answering, CallStates
<1>3. CASE UNCHANGED <<call, verdict, ran>>
  BY <1>3 DEF Granted
<1> QED
  BY <1>1, <1>2, <1>3
  DEF Next, Responding, Lookup, LookupFails, CheckPending, Write, WriteFails, Finish,
      Expire, ReportStatus, Cleanup, Restart

-----------------------------------------------------------------------------
(* The inductive invariant.                                                *)

LEMMA InitIInv == Init => IInv
<1> SUFFICES ASSUME Init PROVE IInv
  OBVIOUS
<1>1. TypeOK
  BY InitTypeOK
<1> QED
  BY <1>1, ConstantsAssumption
  DEF Init, IInv, Called, Unsubmitted, Submitted, Found, Credited, ApprovedBy, Granted, Concluded,
      VerdictMatchesRow

LEMMA NextIInv == IInv /\ [Next]_vars => IInv'
<1> SUFFICES ASSUME IInv, [Next]_vars PROVE IInv'
  OBVIOUS
<1>1. CASE UNCHANGED vars
  BY <1>1
  DEF vars, IInv, TypeOK, Called, Unsubmitted, Submitted, Found, Credited, ApprovedBy, Granted,
      Concluded, VerdictMatchesRow, Jobs
<1>2. CASE Next
  <2>1. TypeOK'
    BY <1>2, NextTypeOK DEF IInv
  <2>2. \A r \in Requests : RowStep(r)
    BY <1>2, RowSteps
  <2>3. \A p \in Responders : JobStep(p)
    BY <1>2, JobSteps
  <2>4. \A r \in Requests : CallStep(r)
    BY <1>2, CallSteps
  <2>5. Nobody \notin Responders /\ Waiter \notin Responders
    BY ConstantsAssumption
  <2>6. \A p \in Responders : resp[p] # "idle" =>
            /\ job[p].target \in Requests
            /\ job[p].choice \in {"approved", "rejected", "cancelled"}
    BY DEF IInv, Called, Jobs, Job
  <2>7. Called'
    BY <2>3 DEF Called, JobStep, Jobs
  <2>8. Unsubmitted'
    <3> SUFFICES ASSUME NEW r \in Requests, call'[r] = "idle" PROVE rows'[r].status = "none"
      BY DEF Unsubmitted
    <3>1. rows[r].status = "none" /\ RowStep(r)
      BY <2>2, <2>4 DEF IInv, Unsubmitted, CallStep
    <3> QED
      BY <3>1 DEF RowStep, Opened, Closed, DecidedBy, Pending
  <2>9. \A r \in Requests : rows[r].status # "none" => rows'[r].status # "none"
    <3> SUFFICES ASSUME NEW r \in Requests, rows[r].status # "none"
                 PROVE  rows'[r].status # "none"
      OBVIOUS
    <3>1. ASSUME NEW p \in Responders, DecidedBy(r, p) PROVE rows'[r].status # "none"
      BY <3>1, <2>6 DEF DecidedBy
    <3>2. CASE Opened(r) \/ Closed(r)
      BY <3>2 DEF Opened, Closed
    <3> QED
      BY <2>2, <3>1, <3>2 DEF RowStep
  <2>10. Submitted'
    BY <2>4, <2>9 DEF IInv, Submitted, CallStep
  <2>11. Found'
    BY <2>3, <2>7, <2>9, JobsType DEF Found, Called, JobStep
  <2>12. Credited'
    <3> SUFFICES ASSUME NEW r \in Requests, NEW p \in Responders, rows'[r].by = p
                 PROVE  /\ job'[p].target = r
                        /\ rows'[r].status = job'[p].choice
                        /\ resp'[p] \notin {"idle", "looked", "checked"}
      BY DEF Credited
    <3>1. CASE rows'[r] = rows[r]
      BY <3>1, <2>3 DEF IInv, Credited, JobStep
    <3>2. CASE Opened(r)
      BY <3>2, <2>6 DEF IInv, Credited, Unsubmitted, Opened
    <3>3. CASE Closed(r)
      BY <3>3, <2>5 DEF Closed
    <3>4. CASE \E q \in Responders : DecidedBy(r, q)
      <4>1. DecidedBy(r, p)
        BY <3>4 DEF DecidedBy
      <4> QED
        BY <4>1, <2>3 DEF DecidedBy, JobStep
    <3> QED
      BY <2>2, <3>1, <3>2, <3>3, <3>4 DEF RowStep
  <2>13. ApprovedBy'
    <3> SUFFICES ASSUME NEW r \in Requests, rows'[r].status = "approved"
                 PROVE  rows'[r].by \in Responders
      BY DEF ApprovedBy
    <3>1. CASE rows'[r] = rows[r]
      BY <3>1 DEF IInv, ApprovedBy
    <3>2. CASE \E p \in Responders : DecidedBy(r, p)
      BY <3>2 DEF DecidedBy
    <3> QED
      BY <2>2, <3>1, <3>2 DEF RowStep, Opened, Closed
  <2>14. \A r \in Requests : rows[r].status \in Verdicts => rows'[r] = rows[r]
    BY <2>2 DEF IInv, Unsubmitted, RowStep, Opened, Closed, DecidedBy, Pending, Verdicts
  <2>15. Granted'
    BY <2>4, <2>14 DEF IInv, Granted, CallStep, Verdicts
  <2>16. Concluded'
    BY <2>4 DEF IInv, Concluded, CallStep
  <2>17. VerdictMatchesRow'
    BY <2>4, <2>14 DEF IInv, VerdictMatchesRow, CallStep, Verdicts
  <2> QED
    BY <2>1, <2>7, <2>8, <2>10, <2>11, <2>12, <2>13, <2>15, <2>16, <2>17 DEF IInv
<1> QED
  BY <1>1, <1>2

LEMMA Inductive == Spec => []IInv
BY InitIInv, NextIInv, PTL DEF Spec

-----------------------------------------------------------------------------
(* The theorems.                                                           *)

\* Type correctness: no step leaves the types of the table, of the calls and of
\* the responders.
THEOREM TypeCorrect == Spec => []TypeOK
BY Inductive, PTL DEF IInv

\* A decided row is never written again, whoever races for it.
THEOREM DecisionFinality == Spec => DecisionIsFinal
<1>1. IInv /\ [Next]_vars => [\A r \in Requests : Decided(r) => rows'[r] = rows[r]]_vars
  <2> SUFFICES ASSUME IInv, Next, NEW r \in Requests, Decided(r)
               PROVE  rows'[r] = rows[r]
    OBVIOUS
  <2>1. RowStep(r)
    BY RowSteps
  <2> QED
    BY <2>1
    DEF IInv, Unsubmitted, RowStep, Opened, Closed, DecidedBy, Pending, Decided, Verdicts
<1> QED
  BY <1>1, Inductive, PTL DEF Spec, DecisionIsFinal

\* A tool that ran was approved by a responder that was asked to approve it.
THEOREM ExecutionIsAuthorised == Spec => []ExecutionAuthorised
<1>1. IInv => ExecutionAuthorised
  <2> SUFFICES ASSUME IInv, NEW r \in ran
               PROVE  \E p \in Responders : /\ rows[r] = [status |-> "approved", by |-> p]
                                             /\ job[p].target = r
                                             /\ job[p].choice = "approved"
    BY DEF ExecutionAuthorised
  <2>1. r \in Requests /\ rows[r] \in Row
    BY DEF IInv, TypeOK
  <2>2. rows[r].status = "approved" /\ rows[r].by \in Responders
    BY <2>1 DEF IInv, Granted, ApprovedBy
  <2>3. rows[r] = [status |-> "approved", by |-> rows[r].by]
    BY <2>1, <2>2 DEF Row
  <2>4. job[rows[r].by].target = r /\ job[rows[r].by].choice = "approved"
    BY <2>1, <2>2 DEF IInv, Credited
  <2> QED
    BY <2>2, <2>3, <2>4
<1> QED
  BY <1>1, Inductive, PTL

\* What the waiting call concluded stays what the row says.
THEOREM VerdictIsRow == Spec => []VerdictMatchesRow
BY Inductive, PTL DEF IInv

\* Where writes do not fail, a call that was told "timeout" leaves no pending row.
THEOREM TimeoutsClose == ASSUME ~DbMayFail PROVE Spec => []TimeoutCloses
<1> DEFINE Marked == \A r \in Requests :
                         call[r] = "reporting" \/ verdict[r] = "timeout" => Decided(r)
<1>1. Init => Marked
  BY DEF Init
<1>2. ASSUME IInv, Marked, [Next]_vars PROVE Marked'
  <2>1. CASE UNCHANGED vars
    BY <1>2, <2>1 DEF Decided, vars
  <2>2. CASE Next
    <3> SUFFICES ASSUME NEW r \in Requests
                 PROVE  call'[r] = "reporting" \/ verdict'[r] = "timeout" => Decided(r)'
      OBVIOUS
    <3>1. RowStep(r) /\ CallStep(r)
      BY <2>2, <1>2, RowSteps, CallSteps
    <3>2. Decided(r) => Decided(r)'
      BY <3>1, <1>2
      DEF Decided, Verdicts, RowStep, Opened, Closed, DecidedBy, Pending, IInv, Unsubmitted
    <3>3. call'[r] = "reporting" => Decided(r)'
      <4> SUFFICES ASSUME call'[r] = "reporting", call[r] # "reporting"
                   PROVE  Decided(r)'
        BY <1>2, <3>2
      <4>1. CheckBeforeMark(r) \/ MarkTimeout(r)
        <5> USE DEF IInv, TypeOK, waiting, deciding, server
        <5>1. ASSUME NEW q \in Requests, Waiting(q) PROVE CheckBeforeMark(r) \/ MarkTimeout(r)
          BY <1>2, <5>1
          DEF Waiting, Submit, SubmitFails, Announce, Poll, PollFails, Execute, TimeOut,
              CheckBeforeMark, MarkTimeout, ReportTimeout
        <5>2. ~Crash
          BY <1>2 DEF Crash, Answering, CallStates
        <5>3. call' # call
          OBVIOUS
        <5> QED
          BY <2>2, <5>1, <5>2, <5>3
          DEF Next, Responding, Lookup, LookupFails, CheckPending, Write, WriteFails,
              Finish, Expire, ReportStatus, Cleanup, Restart
      <4>2. rows[r].status \in Verdicts \cup {"none", "pending"}
        BY <1>2 DEF IInv, TypeOK, Row
      <4>3. CASE CheckBeforeMark(r)
        <5>1. rows' = rows /\ ~Pending(r)
          BY <4>3, <1>2 DEF CheckBeforeMark, StillPending, IInv, TypeOK
        <5>2. rows[r].status # "none"
          BY <4>3, <1>2 DEF CheckBeforeMark, IInv, Submitted
        <5> QED
          BY <5>1, <5>2, <4>2 DEF Decided, Pending
      <4>4. CASE MarkTimeout(r)
        <5>1. rows' = UpdatePending(r, "timeout", Waiter)
          BY <4>4 DEF MarkTimeout
        <5>2. rows[r].status # "none"
          BY <4>4, <1>2 DEF MarkTimeout, IInv, Submitted
        <5> QED
          BY <5>1, <5>2, <4>2, <1>2 DEF UpdatePending, Decided, Pending, Verdicts, IInv, TypeOK
      <4> QED
        BY <4>1, <4>3, <4>4
    <3>4. verdict'[r] = "timeout" => Decided(r)'
      <4>1. CASE verdict'[r] = verdict[r] \/ call[r] = "reporting"
        BY <4>1, <3>2, <1>2
      <4>2. CASE verdict'[r] = rows[r].status /\ rows[r].status = "timeout"
        BY <4>2, <3>2 DEF Decided, Verdicts
      <4> QED
        BY <3>1, <4>1, <4>2 DEF CallStep
    <3> QED
      BY <3>3, <3>4
  <2> QED
    BY <1>2, <2>1, <2>2
<1>3. Marked => TimeoutCloses
  BY DEF TimeoutCloses, Decided, Pending, Verdicts
<1> QED
  BY <1>1, <1>2, <1>3, Inductive, PTL DEF Spec

\* Where writes do not fail and the full id is given, only decided requests are refused.
THEOREM RefusalsAreDecided ==
    ASSUME ~DbMayFail, IdForms = {"full"} PROVE Spec => []RefusedOnlyIfDecided
<1>1. Init => RefusedOnlyIfDecided
  BY DEF Init, RefusedOnlyIfDecided
<1>2. ASSUME IInv, RefusedOnlyIfDecided, [Next]_vars PROVE RefusedOnlyIfDecided'
  <2>1. CASE UNCHANGED vars
    BY <1>2, <2>1 DEF RefusedOnlyIfDecided, Decided, vars
  <2>2. CASE Next
    <3> SUFFICES ASSUME NEW p \in Responders, resp'[p] = "refused"
                 PROVE  rows'[job'[p].target].status \in Verdicts
      BY DEF RefusedOnlyIfDecided, Decided
    <3>1. job'[p] \in Jobs /\ job'[p].target \in Requests
      BY <1>2, <2>2, JobSteps, JobsType DEF JobStep
    <3>2. \A r \in Requests : rows[r].status \in Verdicts => rows'[r].status \in Verdicts
      <4> SUFFICES ASSUME NEW r \in Requests, rows[r].status \in Verdicts
                   PROVE  rows'[r].status \in Verdicts
        OBVIOUS
      <4>1. RowStep(r)
        BY <1>2, <2>2, RowSteps
      <4> QED
        BY <4>1, <1>2
        DEF Verdicts, RowStep, Opened, Closed, DecidedBy, Pending, IInv, Unsubmitted
    <3>3. CASE resp[p] = "refused"
      BY <1>2, <2>2, <3>1, <3>2, <3>3, JobSteps DEF RefusedOnlyIfDecided, Decided, JobStep
    <3>4. CASE resp[p] # "refused"
      <4> USE DEF IInv, TypeOK, waiting, deciding, server
      <4>1. Lookup(p) \/ CheckPending(p)
        <5>1. ASSUME NEW q \in Responders, Responding(q) PROVE Lookup(p) \/ CheckPending(p)
          BY <1>2, <3>4, <5>1
          DEF Responding, Lookup, LookupFails, CheckPending, Write, WriteFails, Finish
        <5>2. ~Crash
          BY <1>2, <3>4 DEF Crash
        <5>3. resp' # resp
          BY <3>4
        <5> QED
          BY <2>2, <5>1, <5>2, <5>3
          DEF Next, Waiting, Submit, SubmitFails, Announce, Poll, PollFails, Execute,
              TimeOut, CheckBeforeMark, MarkTimeout, ReportTimeout, Expire, ReportStatus,
              Cleanup, Restart
      <4>2. \A r \in Requests : rows[r].status \in Verdicts \cup {"none", "pending"}
        BY <1>2 DEF Row
      <4>3. CASE Lookup(p)
        <5>1. PICK j \in Jobs : job'[p] = j /\ resp'[p] = AfterLookup(j)
          BY <1>2, <4>3 DEF Lookup
        <5>2. rows[j.target].status \notin {"none", "pending"}
          BY <5>1 DEF AfterLookup, Pending
        <5> QED
          BY <3>1, <3>2, <4>2, <5>1, <5>2
      <4>4. CASE CheckPending(p)
        <5>1. job'[p] = job[p] /\ job[p].form = "full"
          BY <1>2, <4>4, <3>1 DEF CheckPending, Jobs
        <5>2. rows[job[p].target].status \notin {"none", "pending"}
          BY <1>2, <4>4, <5>1 DEF CheckPending, StillPending, Pending, Found
        <5> QED
          BY <3>1, <3>2, <4>2, <5>1, <5>2
      <4> QED
        BY <4>1, <4>3, <4>4
    <3> QED
      BY <3>3, <3>4
  <2> QED
    BY <1>2, <2>1, <2>2
<1> QED
  BY <1>1, <1>2, Inductive, PTL DEF Spec

\* The status endpoint's answers about a request agree but for an early "expired".
THEOREM AnswersAlwaysAgree == Spec => []AnswersAgree
<1>1. Init => AnswersAgree
  BY DEF Init, AnswersAgree
<1>2. ASSUME IInv, AnswersAgree, [Next]_vars PROVE AnswersAgree'
  <2> SUFFICES ASSUME NEW r \in Requests, NEW a \in reported'[r]
               PROVE  a \in {rows'[r].status, "expired"}
    BY DEF AnswersAgree
  <2>1. CASE UNCHANGED vars
    BY <1>2, <2>1 DEF AnswersAgree, vars
  <2>2. CASE Next
    <3>1. RowStep(r)
      BY <1>2, <2>2, RowSteps
    <3>2. rows[r].status \in Verdicts => rows'[r] = rows[r]
      BY <3>1, <1>2
      DEF IInv, Unsubmitted, RowStep, Opened, Closed, DecidedBy, Pending, Verdicts
    <3>3. a \in Verdicts /\ a \in {rows[r].status, "expired"}
      <4>1. CASE a \in reported[r]
        BY <4>1, <1>2 DEF IInv, TypeOK, AnswersAgree
      <4>2. CASE a \notin reported[r]
        <5>1. ASSUME NEW q \in Requests, ReportStatus(q)
              PROVE  a \in Verdicts /\ a \in {rows[r].status, "expired"}
          BY <1>2, <4>2, <5>1 DEF ReportStatus, Answer, IInv, TypeOK
        <5>2. reported' # reported
          BY <4>2
        <5> QED
          BY <2>2, <5>1, <5>2
          DEF Next, Waiting, Submit, SubmitFails, Announce, Poll, PollFails, Execute,
              TimeOut, CheckBeforeMark, MarkTimeout, ReportTimeout, Responding, Lookup,
              LookupFails, CheckPending, Write, WriteFails, Finish, Expire, Cleanup,
              Crash, Restart
      <4> QED
        BY <4>1, <4>2
    <3> QED
      BY <3>2, <3>3
  <2> QED
    BY <1>2, <2>1, <2>2
<1> QED
  BY <1>1, <1>2, Inductive, PTL DEF Spec

-----------------------------------------------------------------------------
(* The workflow implements ApprovalDecision.                               *)

LEMMA InitRefines == Init => Decision!Init
BY DEF Init, Decision!Init

LEMMA WriteRefines ==
    ASSUME IInv, NEW p \in Responders, Write(p)
    PROVE  [Decision!Next]_Decision!avars
<1> USE DEF IInv, TypeOK, waiting
<1>1. PICK t \in Requests, c \in Verdicts : t = job[p].target /\ c = job[p].choice
  BY JobsType DEF Write, Called
<1>2. CASE Pending(t)
  <2>1. rows' = [rows EXCEPT ![t] = [status |-> c, by |-> p]] /\ ran' = ran
    BY <1>1, <1>2 DEF Write, UpdatePending
  <2>2. Decision!Decide({t}, c)
    BY <1>1, <1>2, <2>1 DEF Decision!Decide, Pending
  <2> QED
    BY <2>2 DEF Decision!Next, Verdicts, Decision!Verdicts
<1>3. CASE ~Pending(t)
  BY <1>1, <1>3 DEF Write, UpdatePending, Decision!avars
<1> QED
  BY <1>2, <1>3

LEMMA WaitingRefines ==
    ASSUME IInv, NEW r \in Requests, Waiting(r)
    PROVE  [Decision!Next]_Decision!avars
<1> USE DEF IInv, TypeOK, deciding, server
<1>1. CASE Submit(r)
  <2>1. \A q \in Requests :
            rows'[q].status = IF q = r THEN "pending" ELSE rows[q].status
    BY <1>1 DEF Submit, Row
  <2>2. rows[r].status = "none" /\ ran' = ran
    BY <1>1 DEF Submit, Unsubmitted
  <2>3. Decision!Submit(r)
    BY <2>1, <2>2 DEF Decision!Submit
  <2> QED
    BY <2>3 DEF Decision!Next
<1>2. CASE Execute(r)
  <2>1. Decision!Execute(r)
    BY <1>2 DEF Execute, Granted, Decision!Execute
  <2> QED
    BY <2>1 DEF Decision!Next
<1>3. CASE MarkTimeout(r)
  <2>1. CASE rows' = rows
    BY <1>3, <2>1 DEF MarkTimeout, Decision!avars
  <2>2. CASE rows' # rows
    <3>1. /\ Pending(r)
          /\ rows' = [rows EXCEPT ![r] = [status |-> "timeout", by |-> Waiter]]
          /\ ran' = ran
      BY <1>3, <2>2 DEF MarkTimeout, UpdatePending
    <3>2. Decision!Decide({r}, "timeout")
      BY <3>1 DEF Decision!Decide, Pending
    <3> QED
      BY <3>2 DEF Decision!Next, Decision!Verdicts
  <2> QED
    BY <2>1, <2>2
<1>4. CASE UNCHANGED <<rows, ran>>
  BY <1>4 DEF Decision!avars
<1> QED
  BY <1>1, <1>2, <1>3, <1>4
  DEF Waiting, SubmitFails, Announce, Poll, PollFails, TimeOut, CheckBeforeMark,
      ReportTimeout

LEMMA CleanupRefines ==
    ASSUME IInv, Cleanup
    PROVE  [Decision!Next]_Decision!avars
<1> DEFINE S == {r \in Requests : Overdue(r)}
<1>1. S # {} /\ S \subseteq Requests /\ ran' = ran
  BY DEF Cleanup, waiting
<1>2. \A r \in Requests :
        rows'[r].status = IF r \in S THEN "expired" ELSE rows[r].status
  BY DEF Cleanup
<1>3. \A r \in S : rows[r].status = "pending"
  BY DEF Overdue, Pending
<1>4. Decision!Decide(S, "expired")
  <2> HIDE DEF S
  <2> QED
    BY <1>1, <1>2, <1>3 DEF Decision!Decide
<1> QED
  BY <1>1, <1>4 DEF Decision!Next, Decision!Verdicts

\* The table and the set of executed tools, seen alone, are taken through once-only
\* decisions: one step of anything in the workflow is one step of ApprovalDecision,
\* or none.
THEOREM Refinement == Spec => ImplementsDecision
<1>1. IInv /\ [Next]_vars => [Decision!Next]_Decision!avars
  <2> SUFFICES ASSUME IInv, [Next]_vars PROVE [Decision!Next]_Decision!avars
    OBVIOUS
  <2>1. ASSUME NEW r \in Requests, Waiting(r) PROVE [Decision!Next]_Decision!avars
    BY <2>1, WaitingRefines
  <2>2. ASSUME NEW p \in Responders, Responding(p) PROVE [Decision!Next]_Decision!avars
    <3>1. CASE Write(p)
      BY <3>1, WriteRefines
    <3>2. CASE UNCHANGED <<rows, ran>>
      BY <3>2 DEF Decision!avars
    <3> QED
      BY <2>2, <3>1, <3>2
      DEF Responding, Lookup, LookupFails, CheckPending, WriteFails, Finish, waiting
  <2>3. CASE Cleanup
    BY <2>3, CleanupRefines
  <2>4. CASE UNCHANGED <<rows, ran>>
    BY <2>4 DEF Decision!avars
  <2> QED
    BY <2>1, <2>2, <2>3, <2>4
    DEF Next, Expire, ReportStatus, Crash, Restart, waiting, vars
<1> QED
  BY <1>1, InitRefines, Inductive, PTL DEF Spec, ImplementsDecision, Decision!Spec

(***************************************************************************)
(* The queue.  The bound on the SMTP sessions is not inductive: it needs   *)
(* the exact account of an event's sessions in each place it can be        *)
(* (Ledger), which needs that it is in one place only (OnePlace,           *)
(* Distinct), which needs that no batch is being sent when the next one is *)
(* filled (Life).                                                          *)
(***************************************************************************)

Trying == sending \cup orphans

\* Batches are sent one at a time, by one worker.
Life ==
    /\ running => ~stopping /\ worker \in {"filling", "processing"}
    /\ ~running /\ ~stopping => worker = "none"
    /\ worker # "processing" => sending = {}

NoRepeats(s) == \A i, j \in 1..Len(s) : s[i] = s[j] => i = j

Distinct == NoRepeats(queue) /\ NoRepeats(batch)

\* OneFate in terms of sets; a thread that was left behind has a lost event.
OnePlace ==
    /\ orphans \subseteq lost
    /\ \A e \in Events :
          One(e \in Elements(queue)) + One(e \in Elements(batch)) + One(e \in sending)
              + One(e \in sent) + One(e \in givenUp) + One(e \in lost) = One(e \in 1..enqueued)

\* The sessions of n threads that failed.
Failed(n) == SmtpAttempts * n

Ledger ==
    \A e \in Events :
        /\ e \in Elements(queue) \cup Elements(batch) => sessions[e] = Failed(retries[e])
        /\ e \in Trying => /\ sessions[e] = Failed(retries[e]) + tries[e]
                           /\ tries[e] < SmtpAttempts
        /\ e \in givenUp => sessions[e] = Failed(MaxRetries + 1)
        /\ sessions[e] <= Failed(retries[e] + 1)
        /\ e \notin 1..enqueued => sessions[e] = 0 /\ retries[e] = 0

\* Whatever was enqueued after an event that still waits for its first session waits
\* behind it.
FreshInOrder ==
    \A i \in 1..Len(queue) :
        retries[queue[i]] = 0 =>
            \A f \in (queue[i] + 1)..enqueued :
                \E j \in 1..Len(queue) : i < j /\ queue[j] = f /\ retries[f] = 0

TypeInv == QueueTypeOK /\ Life

QueueInv == TypeInv /\ Distinct /\ OnePlace /\ Ledger /\ FreshInOrder

-----------------------------------------------------------------------------
(* Sequences without repetitions, and products.                            *)

LEMMA EmptyFacts ==
    <<>> \in Seq(Events) /\ Len(<<>>) = 0 /\ Elements(<<>>) = {} /\ NoRepeats(<<>>)
BY DEF Elements, NoRepeats

LEMMA TailFacts ==
    ASSUME NEW q \in Seq(Events), q # <<>>
    PROVE  /\ Head(q) = q[1] /\ Head(q) \in Events
           /\ Tail(q) \in Seq(Events) /\ Len(Tail(q)) = Len(q) - 1
           /\ \A i \in 1..Len(Tail(q)) : i + 1 \in 1..Len(q) /\ Tail(q)[i] = q[i + 1]
           /\ 1 \in 1..Len(q)
OBVIOUS

LEMMA AppendFacts ==
    ASSUME NEW q \in Seq(Events), NEW e \in Events
    PROVE  /\ Append(q, e) \in Seq(Events) /\ Len(Append(q, e)) = Len(q) + 1
           /\ \A i \in 1..Len(q) + 1 : \/ i \in 1..Len(q) /\ Append(q, e)[i] = q[i]
                                       \/ i = Len(q) + 1 /\ Append(q, e)[i] = e
           /\ \A i \in 1..Len(q) : Append(q, e)[i] = q[i]
           /\ Append(q, e)[Len(q) + 1] = e
OBVIOUS

\* Taking the head of a queue without repetitions removes it from the elements.
LEMMA TailElements ==
    ASSUME NEW q \in Seq(Events), q # <<>>, NoRepeats(q)
    PROVE  /\ Elements(Tail(q)) = Elements(q) \ {Head(q)}
           /\ Head(q) \in Elements(q)
           /\ NoRepeats(Tail(q))
<1> DEFINE t == Tail(q)
<1>1. Head(q) \in Elements(q)
  BY TailFacts DEF Elements
<1>2. NoRepeats(t)
  <2> SUFFICES ASSUME NEW i \in 1..Len(t), NEW j \in 1..Len(t), t[i] = t[j] PROVE i = j
    BY DEF NoRepeats
  <2>1. i + 1 \in 1..Len(q) /\ j + 1 \in 1..Len(q) /\ q[i + 1] = q[j + 1]
    BY TailFacts
  <2>2. i + 1 = j + 1
    BY <2>1 DEF NoRepeats
  <2> QED
    BY <2>2
<1>3. ASSUME NEW e \in Elements(t) PROVE e \in Elements(q) /\ e # Head(q)
  <2>1. PICK i \in 1..Len(t) : e = t[i]
    BY <1>3 DEF Elements
  <2>2. i + 1 \in 1..Len(q) /\ e = q[i + 1] /\ i + 1 # 1
    BY <2>1, TailFacts
  <2>3. q[i + 1] # q[1]
    BY <2>2, TailFacts DEF NoRepeats
  <2> QED
    BY <2>2, <2>3, TailFacts DEF Elements
<1>4. ASSUME NEW e \in Elements(q), e # Head(q) PROVE e \in Elements(t)
  <2>1. PICK i \in 1..Len(q) : e = q[i]
    BY <1>4 DEF Elements
  <2>2. i # 1 /\ Len(q) \in Nat
    BY <2>1, <1>4, TailFacts
  <2>3. i - 1 \in 1..Len(t) /\ t[i - 1] = q[(i - 1) + 1] /\ (i - 1) + 1 = i
    BY <2>2, TailFacts
  <2> QED
    BY <2>1, <2>3 DEF Elements
<1> QED
  BY <1>1, <1>2, <1>3, <1>4

LEMMA AppendElements ==
    ASSUME NEW q \in Seq(Events), NEW e \in Events
    PROVE  /\ Elements(Append(q, e)) = Elements(q) \cup {e}
           /\ NoRepeats(q) /\ e \notin Elements(q) => NoRepeats(Append(q, e))
<1> DEFINE a == Append(q, e)
<1>0. Len(q) \in Nat
  OBVIOUS
<1>1. ASSUME NEW d \in Elements(a) PROVE d \in Elements(q) \cup {e}
  BY <1>1, AppendFacts DEF Elements
<1>2. ASSUME NEW d \in Elements(q) PROVE d \in Elements(a)
  <2>1. PICK i \in 1..Len(q) : d = q[i]
    BY <1>2 DEF Elements
  <2>2. i \in 1..Len(a) /\ a[i] = d
    BY <2>1, <1>0, AppendFacts
  <2> QED
    BY <2>2 DEF Elements
<1>3. e \in Elements(a)
  <2>1. Len(q) + 1 \in 1..Len(a) /\ a[Len(q) + 1] = e
    BY <1>0, AppendFacts
  <2> QED
    BY <2>1 DEF Elements
<1>4. ASSUME NoRepeats(q), e \notin Elements(q) PROVE NoRepeats(a)
  <2> SUFFICES ASSUME NEW i \in 1..Len(a), NEW j \in 1..Len(a), a[i] = a[j] PROVE i = j
    BY DEF NoRepeats
  <2>1. \A k \in 1..Len(q) : q[k] # e
    BY <1>4 DEF Elements
  <2>2. i \in 1..Len(q) + 1 /\ j \in 1..Len(q) + 1
    BY AppendFacts
  <2>3. CASE i \in 1..Len(q) /\ j \in 1..Len(q)
    BY <1>4, <2>3, AppendFacts DEF NoRepeats
  <2> QED
    BY <2>1, <2>2, <2>3, AppendFacts
<1> QED
  BY <1>1, <1>2, <1>3, <1>4

LEMMA ElementsTyped == ASSUME NEW q \in Seq(Events) PROVE Elements(q) \subseteq Events
BY DEF Elements

\* Without repetitions an event occurs once or not at all.
LEMMA OccursOnce ==
    ASSUME NEW q \in Seq(Events), NoRepeats(q), NEW e \in Events
    PROVE  Occurrences(e, q) = One(e \in Elements(q))
<1> DEFINE S == {i \in 1..Len(q) : q[i] = e}
<1>1. CASE e \in Elements(q)
  <2>1. PICK k \in 1..Len(q) : q[k] = e
    BY <1>1 DEF Elements
  <2>2. S = {k}
    BY <2>1 DEF NoRepeats
  <2>3. Cardinality(S) = 1
    BY <2>2, FS_Singleton
  <2> QED
    BY <1>1, <2>3 DEF Occurrences, One
<1>2. CASE e \notin Elements(q)
  <2>1. S = {}
    BY <1>2 DEF Elements
  <2>2. Cardinality(S) = 0
    BY <2>1, FS_EmptySet
  <2> QED
    BY <1>2, <2>2 DEF Occurrences, One
<1> QED
  BY <1>1, <1>2

LEMMA FailedFacts ==
    /\ Failed(0) = 0
    /\ \A n \in Nat : /\ Failed(n) \in Nat
                      /\ Failed(n + 1) = Failed(n) + SmtpAttempts
    /\ \A m, n \in Nat : m <= n => Failed(m) <= Failed(n)
<1>1. SmtpAttempts \in Nat
  BY NotificationAssumption
<1>2. ASSUME NEW n \in Nat PROVE Failed(n) \in Nat /\ Failed(n + 1) = Failed(n) + SmtpAttempts
  BY <1>1 DEF Failed
<1>3. ASSUME NEW m \in Nat, NEW n \in Nat, m <= n PROVE Failed(m) <= Failed(n)
  <2>1. n - m \in Nat /\ SmtpAttempts * (n - m) \in Nat
    BY <1>1, <1>3
  <2>2. SmtpAttempts * n = SmtpAttempts * m + SmtpAttempts * (n - m)
    BY <1>1
  <2>3. SmtpAttempts * n \in Nat /\ SmtpAttempts * m \in Nat
    BY <1>1
  <2> QED
    BY <2>1, <2>2, <2>3 DEF Failed
<1>4. Failed(0) = 0
  BY <1>1 DEF Failed
<1> QED
  BY <1>2, <1>3, <1>4

-----------------------------------------------------------------------------
(* Types, and the life of the worker.                                      *)

LEMMA InitTyped == QueueInit => TypeInv
<1> USE NotificationAssumption
<1>1. ASSUME QueueInit PROVE QueueTypeOK
  <2>1. queue \in Seq(Events) /\ batch \in Seq(Events) /\ Len(batch) < BatchSize
    BY <1>1, EmptyFacts DEF QueueInit
  <2>2. 0 \in 0..MaxEvents /\ 0 \in 0..MaxRetries /\ 0 \in 0..SmtpAttempts
    OBVIOUS
  <2> QED
    BY <1>1, <2>1, <2>2 DEF QueueInit, QueueTypeOK
<1>2. QueueInit => Life
  BY DEF QueueInit, Life
<1> QED
  BY <1>1, <1>2 DEF TypeInv

LEMMA ProcessTyped ==
    ASSUME TypeInv, NEW b \in Seq(Events), Process(b), worker = "filling",
           UNCHANGED <<enqueued, retries, running, stopping, orphans, sessions, fates>>,
           queue' \in Seq(Events)
    PROVE  TypeInv'
<1>1. Elements(b) \subseteq Events
  BY ElementsTyped
<1>2. tries' \in [Events -> 0..SmtpAttempts]
  BY NotificationAssumption DEF Process, TypeInv, QueueTypeOK
<1>3. <<>> \in Seq(Events) /\ Len(<<>>) < BatchSize
  BY EmptyFacts, NotificationAssumption
<1>4. QueueTypeOK'
  BY <1>1, <1>2, <1>3 DEF Process, TypeInv, QueueTypeOK, fates
<1>5. Life'
  BY DEF Process, TypeInv, Life, fates
<1> QED
  BY <1>4, <1>5 DEF TypeInv

LEMMA MailTyped == ASSUME TypeInv, NEW e \in Events, Mail(e) PROVE TypeInv'
<1> USE NotificationAssumption DEF TypeInv
<1>1. tries[e] \in 0..SmtpAttempts /\ sessions[e] \in Nat /\ tries[e] + 1 <= SmtpAttempts
  BY DEF Mail, Delivered, AttemptFails, ThreadFails, QueueTypeOK
<1>2. tries' = [tries EXCEPT ![e] = tries[e] + 1]
      /\ sessions' = [sessions EXCEPT ![e] = sessions[e] + 1]
  BY DEF Mail, Delivered, AttemptFails, ThreadFails
<1>3. tries' \in [Events -> 0..SmtpAttempts] /\ sessions' \in [Events -> Nat]
  BY <1>1, <1>2 DEF QueueTypeOK
<1>4. UNCHANGED <<enqueued, running, worker, stopping, batch>>
  BY DEF Mail, Delivered, AttemptFails, ThreadFails, control, fates
<1>5. sending' \subseteq sending /\ orphans' \subseteq Events
  BY DEF Mail, Delivered, AttemptFails, ThreadFails, QueueTypeOK
<1>6. sent' \subseteq Events /\ givenUp' \subseteq Events /\ lost' \subseteq Events
  BY DEF Mail, Delivered, AttemptFails, ThreadFails, RetryOrGiveUp, QueueTypeOK, fates
<1>7. queue' \in Seq(Events) /\ retries' \in [Events -> 0..MaxRetries]
  <2>1. CASE UNCHANGED <<queue, retries>>
    BY <2>1 DEF QueueTypeOK
  <2>2. CASE /\ RetryLeft(e)
             /\ retries' = [retries EXCEPT ![e] = retries[e] + 1]
             /\ queue' = Append(queue, e)
    <3>1. retries[e] + 1 \in 0..MaxRetries
      BY <2>2 DEF RetryLeft, QueueTypeOK
    <3>2. retries' \in [Events -> 0..MaxRetries]
      BY <2>2, <3>1 DEF QueueTypeOK
    <3>3. queue' \in Seq(Events)
      BY <2>2, AppendFacts DEF QueueTypeOK
    <3> QED
      BY <3>2, <3>3
  <2> QED
    BY <2>1, <2>2 DEF Mail, Delivered, AttemptFails, ThreadFails, RetryOrGiveUp
<1>8. QueueTypeOK'
  BY <1>3, <1>4, <1>5, <1>6, <1>7 DEF QueueTypeOK
<1>9. Life'
  BY <1>4, <1>5 DEF Life
<1> QED
  BY <1>8, <1>9

LEMMA NextTyped == TypeInv /\ [QueueNext]_queueVars => TypeInv'
<1> SUFFICES ASSUME TypeInv, [QueueNext]_queueVars PROVE TypeInv'
  OBVIOUS
<1> USE NotificationAssumption
<1>1. CASE Enqueue
  <2>1. enqueued + 1 \in Events /\ enqueued' = enqueued + 1 /\ enqueued' \in 0..MaxEvents
    BY <1>1 DEF Enqueue, Events, TypeInv, QueueTypeOK
  <2>2. queue' \in Seq(Events)
    BY <1>1, <2>1, AppendFacts DEF Enqueue, TypeInv, QueueTypeOK
  <2>3. QueueTypeOK'
    BY <1>1, <2>1, <2>2 DEF Enqueue, TypeInv, QueueTypeOK, control, fates
  <2>4. Life'
    BY <1>1 DEF Enqueue, TypeInv, Life, control
  <2> QED
    BY <2>3, <2>4 DEF TypeInv
<1>2. CASE StartWorker \/ StopWorker \/ Joined \/ BatchDone
  <2>1. UNCHANGED <<enqueued, queue, retries, batch, sending, orphans, tries, sessions, fates>>
        /\ running' \in BOOLEAN /\ stopping' \in BOOLEAN
        /\ worker' \in {"none", "filling", "processing", "ended"}
    BY <1>2 DEF StartWorker, StopWorker, Joined, BatchDone, TypeInv, QueueTypeOK
  <2>2. QueueTypeOK'
    BY <2>1 DEF TypeInv, QueueTypeOK, fates
  <2>3. Life'
    BY <1>2 DEF StartWorker, StopWorker, Joined, BatchDone, TypeInv, Life
  <2> QED
    BY <2>2, <2>3 DEF TypeInv
<1>3. CASE StopTimesOut
  <2>1. Elements(batch) \subseteq Events
    BY ElementsTyped DEF TypeInv, QueueTypeOK
  <2>2. batch' \in Seq(Events) /\ Len(batch') < BatchSize
    BY <1>3, EmptyFacts DEF StopTimesOut
  <2>3. orphans' \subseteq Events /\ sending' \subseteq Events /\ lost' \subseteq Events
    BY <1>3, <2>1 DEF StopTimesOut, TypeInv, QueueTypeOK
  <2>4. QueueTypeOK'
    BY <1>3, <2>2, <2>3 DEF StopTimesOut, TypeInv, QueueTypeOK
  <2>5. Life'
    BY <1>3 DEF StopTimesOut, TypeInv, Life
  <2> QED
    BY <2>4, <2>5 DEF TypeInv
<1>4. CASE Fill
  <2> DEFINE b == Append(batch, Head(queue))
  <2>1. b \in Seq(Events) /\ queue' \in Seq(Events) /\ worker = "filling"
        /\ UNCHANGED <<enqueued, retries, running, stopping, orphans, sessions, fates>>
    BY <1>4, TailFacts, AppendFacts DEF Fill, TypeInv, QueueTypeOK
  <2>2. CASE Process(b)
    BY <2>1, <2>2, ProcessTyped
  <2>3. CASE Len(b) < BatchSize /\ batch' = b /\ UNCHANGED <<worker, sending, tries>>
    <3>1. QueueTypeOK'
      BY <2>1, <2>3 DEF TypeInv, QueueTypeOK, fates
    <3>2. Life'
      BY <2>1, <2>3 DEF TypeInv, Life
    <3> QED
      BY <3>1, <3>2 DEF TypeInv
  <2> QED
    BY <1>4, <2>2, <2>3 DEF Fill, HasRoom
<1>5. CASE GetTimesOut
  <2>1. CASE Process(batch)
    <3>1. batch \in Seq(Events) /\ queue' \in Seq(Events) /\ worker = "filling"
          /\ UNCHANGED <<enqueued, retries, running, stopping, orphans, sessions, fates>>
      BY <1>5 DEF GetTimesOut, TypeInv, QueueTypeOK
    <3> QED
      BY <2>1, <3>1, ProcessTyped
  <2>2. CASE ~running /\ worker' = "ended" /\ UNCHANGED <<batch, sending, tries>>
    <3>1. QueueTypeOK'
      BY <1>5, <2>2 DEF GetTimesOut, TypeInv, QueueTypeOK, fates
    <3>2. Life'
      BY <1>5, <2>2 DEF GetTimesOut, TypeInv, Life
    <3> QED
      BY <3>1, <3>2 DEF TypeInv
  <2> QED
    BY <1>5, <2>1, <2>2 DEF GetTimesOut
<1>6. CASE \E e \in Events : Mail(e)
  BY <1>6, MailTyped
<1>7. CASE UNCHANGED queueVars
  <2>1. QueueTypeOK'
    BY <1>7 DEF queueVars, TypeInv, QueueTypeOK
  <2>2. Life'
    BY <1>7 DEF queueVars, TypeInv, Life
  <2> QED
    BY <2>1, <2>2 DEF TypeInv
<1> QED
  BY <1>1, <1>2, <1>3, <1>4, <1>5, <1>6, <1>7 DEF QueueNext

-----------------------------------------------------------------------------
(* The account of the sessions.                                            *)

LEMMA InitQueueInv == QueueInit => QueueInv
<1> SUFFICES ASSUME QueueInit PROVE QueueInv
  OBVIOUS
<1> USE NotificationAssumption
<1>1. TypeInv
  BY InitTyped
<1>2. Len(queue) = 0 /\ Elements(queue) = {} /\ Elements(batch) = {} /\ Distinct
  BY EmptyFacts DEF QueueInit, Distinct
<1>3. OnePlace
  BY <1>2 DEF QueueInit, OnePlace, One, Events
<1>4. Ledger
  BY <1>2, FailedFacts DEF QueueInit, Ledger, Trying
<1>5. FreshInOrder
  BY <1>2 DEF FreshInOrder
<1> QED
  BY <1>1, <1>2, <1>3, <1>4, <1>5 DEF QueueInv

LEMMA EnqueueKeeps == QueueInv /\ Enqueue => QueueInv'
<1> SUFFICES ASSUME QueueInv, Enqueue PROVE QueueInv'
  OBVIOUS
<1> USE NotificationAssumption DEF QueueInv
<1> DEFINE n == enqueued + 1
<1>1. /\ n \in Events /\ n \notin 1..enqueued /\ queue \in Seq(Events) /\ enqueued \in Nat
      /\ enqueued' = n /\ queue' = Append(queue, n)
      /\ UNCHANGED <<retries, control, batch, sending, orphans, tries, sessions, fates>>
  BY DEF Enqueue, Events, TypeInv, QueueTypeOK
<1>2. n \notin Elements(queue) /\ n \notin Elements(batch)
      /\ n \notin sending \cup sent \cup givenUp \cup lost \cup orphans
  BY <1>1 DEF OnePlace, One
<1>3. Elements(queue') = Elements(queue) \cup {n} /\ NoRepeats(queue')
  BY <1>1, <1>2, AppendElements DEF Distinct
<1>4. TypeInv'
  BY NextTyped DEF QueueNext
<1>5. Distinct'
  BY <1>1, <1>3 DEF Distinct
<1>6. OnePlace'
  <2>1. \A e \in Events : e \in 1..enqueued' <=> e \in 1..enqueued \/ e = n
    BY <1>1 DEF Events
  <2> QED
    BY <1>1, <1>2, <1>3, <2>1 DEF OnePlace, One, fates
<1>7. Ledger'
  <2>1. sessions' = sessions /\ retries' = retries /\ tries' = tries /\ givenUp' = givenUp
        /\ Trying' = Trying /\ Elements(batch') = Elements(batch)
    BY <1>1 DEF Trying, fates
  <2>2. sessions[n] = 0 /\ retries[n] = 0
    BY <1>1 DEF Ledger
  <2>3. \A e \in Events : e \notin 1..enqueued' => e \notin 1..enqueued
    BY <1>1
  <2>4. Failed(0) = 0
    BY FailedFacts
  <2> QED
    BY <1>3, <2>1, <2>2, <2>3, <2>4 DEF Ledger
<1>8. FreshInOrder'
  <2> SUFFICES ASSUME NEW i \in 1..Len(queue'), retries[queue'[i]] = 0,
                      NEW f \in (queue'[i] + 1)..n
               PROVE  \E j \in 1..Len(queue') : i < j /\ queue'[j] = f /\ retries[f] = 0
    BY <1>1 DEF FreshInOrder
  <2>1. i \in 1..Len(queue) /\ queue'[i] = queue[i] /\ queue[i] \in Events
    BY <1>1, AppendFacts DEF Events
  <2>2. CASE f = n
    <3>1. Len(queue) + 1 \in 1..Len(queue') /\ queue'[Len(queue) + 1] = n /\ i < Len(queue) + 1
      BY <1>1, <2>1, AppendFacts
    <3>2. retries[n] = 0
      BY <1>1 DEF Ledger
    <3> QED
      BY <2>2, <3>1, <3>2
  <2>3. CASE f # n
    <3>1. f \in (queue[i] + 1)..enqueued
      BY <1>1, <2>1, <2>3 DEF Events
    <3>2. PICK j \in 1..Len(queue) : i < j /\ queue[j] = f /\ retries[f] = 0
      BY <2>1, <3>1 DEF FreshInOrder
    <3>3. j \in 1..Len(queue') /\ queue'[j] = f
      BY <1>1, <3>2, AppendFacts
    <3> QED
      BY <3>2, <3>3
  <2> QED
    BY <2>2, <2>3
<1> QED
  BY <1>4, <1>5, <1>6, <1>7, <1>8

LEMMA StopKeeps == QueueInv /\ StopTimesOut => QueueInv'
<1> SUFFICES ASSUME QueueInv, StopTimesOut PROVE QueueInv'
  OBVIOUS
<1> USE NotificationAssumption DEF QueueInv
<1>1. PICK begun \in SUBSET sending : orphans' = orphans \cup begun
  BY DEF StopTimesOut
<1>2. /\ lost' = lost \cup sending \cup Elements(batch)
      /\ sending' = {} /\ batch' = <<>>
      /\ UNCHANGED <<enqueued, queue, retries, running, tries, sessions, sent, givenUp>>
  BY DEF StopTimesOut
<1>3. Elements(batch') = {} /\ NoRepeats(batch')
  BY <1>2, EmptyFacts
<1>4. TypeInv'
  BY NextTyped DEF QueueNext
<1>5. Distinct'
  BY <1>2, <1>3 DEF Distinct
<1>6. OnePlace'
  BY <1>1, <1>2, <1>3 DEF OnePlace, One
<1>7. Ledger'
  BY <1>1, <1>2, <1>3 DEF Ledger, Trying
<1>8. FreshInOrder'
  BY <1>2 DEF FreshInOrder
<1> QED
  BY <1>4, <1>5, <1>6, <1>7, <1>8

\* What taking the first event from the queue does to the order in it.
LEMMA TakeKeepsOrder ==
    ASSUME QueueInv, queue # <<>>, queue' = Tail(queue), UNCHANGED <<enqueued, retries>>
    PROVE  FreshInOrder'
<1>0. TypeInv /\ FreshInOrder
  BY DEF QueueInv
<1>1. queue \in Seq(Events) /\ retries' = retries /\ enqueued' = enqueued
  BY <1>0 DEF TypeInv, QueueTypeOK
<1> SUFFICES ASSUME NEW i \in 1..Len(queue'), retries[queue'[i]] = 0,
                    NEW f \in (queue'[i] + 1)..enqueued
             PROVE  \E j \in 1..Len(queue') : i < j /\ queue'[j] = f /\ retries[f] = 0
  BY <1>1 DEF FreshInOrder
<1>2. i + 1 \in 1..Len(queue) /\ queue'[i] = queue[i + 1]
  BY <1>1, TailFacts
<1>3. PICK j \in 1..Len(queue) : i + 1 < j /\ queue[j] = f /\ retries[f] = 0
  BY <1>0, <1>2 DEF FreshInOrder
<1>4. j - 1 \in 1..Len(queue') /\ i < j - 1 /\ queue'[j - 1] = queue[(j - 1) + 1] /\ (j - 1) + 1 = j
  BY <1>1, <1>3, TailFacts
<1> QED
  BY <1>3, <1>4

LEMMA FillKeeps == QueueInv /\ Fill => QueueInv'
<1> SUFFICES ASSUME QueueInv, Fill PROVE QueueInv'
  OBVIOUS
<1> USE NotificationAssumption DEF QueueInv
<1> DEFINE h == Head(queue)
           b == Append(batch, h)
<1>1. /\ queue \in Seq(Events) /\ queue # <<>> /\ queue' = Tail(queue)
      /\ batch \in Seq(Events) /\ h \in Events
      /\ sending = {}
      /\ UNCHANGED <<enqueued, retries, running, stopping, orphans, sessions, sent, givenUp, lost>>
  BY TailFacts DEF Fill, TypeInv, QueueTypeOK, Life, fates
<1>2. Elements(queue') = Elements(queue) \ {h} /\ h \in Elements(queue) /\ NoRepeats(queue')
  BY <1>1, TailElements DEF Distinct
<1>3. h \notin Elements(batch)
  BY <1>1, <1>2 DEF OnePlace, One
<1>4. Elements(b) = Elements(batch) \cup {h} /\ NoRepeats(b)
  BY <1>1, <1>3, AppendElements DEF Distinct
<1>5. \/ batch' = b /\ sending' = sending /\ tries' = tries
      \/ /\ batch' = <<>> /\ sending' = Elements(b)
         /\ tries' = [e \in Events |-> IF e \in Elements(b) THEN 0 ELSE tries[e]]
  BY DEF Fill, Process
<1>6. TypeInv'
  BY NextTyped DEF QueueNext
<1>7. FreshInOrder'
  BY <1>1, TakeKeepsOrder
<1>8. CASE batch' = b /\ sending' = sending /\ tries' = tries
  <2>1. Distinct'
    BY <1>2, <1>4, <1>8 DEF Distinct
  <2>2. OnePlace'
    BY <1>1, <1>2, <1>3, <1>4, <1>8 DEF OnePlace, One
  <2>3. Ledger'
    BY <1>1, <1>2, <1>4, <1>8 DEF Ledger, Trying
  <2> QED
    BY <1>6, <1>7, <2>1, <2>2, <2>3
<1>9. CASE /\ batch' = <<>> /\ sending' = Elements(b)
           /\ tries' = [e \in Events |-> IF e \in Elements(b) THEN 0 ELSE tries[e]]
  <2>1. Elements(batch') = {} /\ Distinct'
    BY <1>2, <1>9, EmptyFacts DEF Distinct
  <2>2. OnePlace'
    BY <1>1, <1>2, <1>3, <1>4, <1>9, <2>1 DEF OnePlace, One
  <2>3. Ledger'
    <3> SUFFICES ASSUME NEW e \in Events
                 PROVE  /\ e \in Elements(queue') \cup Elements(batch')
                              => sessions[e] = Failed(retries[e])
                        /\ e \in Trying' => /\ sessions[e] = Failed(retries[e]) + tries'[e]
                                            /\ tries'[e] < SmtpAttempts
                        /\ e \in givenUp => sessions[e] = Failed(MaxRetries + 1)
                        /\ sessions[e] <= Failed(retries[e] + 1)
                        /\ e \notin 1..enqueued => sessions[e] = 0 /\ retries[e] = 0
      BY <1>1 DEF Ledger
    <3>1. retries[e] \in Nat /\ sessions[e] \in Nat
      BY DEF TypeInv, QueueTypeOK
    <3>2. e \in Trying' => \/ e \in Elements(b)
                           \/ e \in orphans /\ e \notin Elements(b)
      BY <1>1, <1>9 DEF Trying
    <3>3. e \in Elements(b) => tries'[e] = 0 /\ sessions[e] = Failed(retries[e])
      BY <1>2, <1>4, <1>9 DEF Ledger
    <3>4. e \notin Elements(b) => tries'[e] = tries[e]
      BY <1>9
    <3> QED
      BY <1>2, <2>1, <3>1, <3>2, <3>3, <3>4 DEF Ledger, Trying
  <2> QED
    BY <1>6, <1>7, <2>1, <2>2, <2>3
<1> QED
  BY <1>5, <1>8, <1>9

LEMMA GetTimesOutKeeps == QueueInv /\ GetTimesOut => QueueInv'
<1> SUFFICES ASSUME QueueInv, GetTimesOut PROVE QueueInv'
  OBVIOUS
<1> USE NotificationAssumption DEF QueueInv
<1>1. /\ sending = {}
      /\ UNCHANGED <<enqueued, queue, retries, running, stopping, orphans, sessions,
                     sent, givenUp, lost>>
  BY DEF GetTimesOut, TypeInv, Life, fates
<1>2. TypeInv' /\ FreshInOrder'
  BY <1>1, NextTyped DEF QueueNext, FreshInOrder
<1>3. CASE UNCHANGED <<batch, sending, tries>>
  <2>1. Distinct' /\ OnePlace' /\ Ledger'
    BY <1>1, <1>3 DEF Distinct, OnePlace, Ledger, Trying
  <2> QED
    BY <1>2, <2>1
<1>4. CASE Process(batch)
  <2>1. /\ Elements(batch') = {} /\ sending' = Elements(batch)
        /\ tries' = [e \in Events |-> IF e \in Elements(batch) THEN 0 ELSE tries[e]]
        /\ NoRepeats(batch')
    BY <1>4, EmptyFacts DEF Process
  <2>2. Distinct'
    BY <1>1, <2>1 DEF Distinct
  <2>3. OnePlace'
    BY <1>1, <2>1 DEF OnePlace, One
  <2>4. Ledger'
    <3> SUFFICES ASSUME NEW e \in Events
                 PROVE  /\ e \in Elements(queue) \cup Elements(batch')
                              => sessions[e] = Failed(retries[e])
                        /\ e \in Trying' => /\ sessions[e] = Failed(retries[e]) + tries'[e]
                                            /\ tries'[e] < SmtpAttempts
                        /\ e \in givenUp => sessions[e] = Failed(MaxRetries + 1)
                        /\ sessions[e] <= Failed(retries[e] + 1)
                        /\ e \notin 1..enqueued => sessions[e] = 0 /\ retries[e] = 0
      BY <1>1 DEF Ledger
    <3>1. retries[e] \in Nat /\ sessions[e] \in Nat
      BY DEF TypeInv, QueueTypeOK
    <3>2. e \in Elements(batch) => tries'[e] = 0 /\ sessions[e] = Failed(retries[e])
      BY <2>1 DEF Ledger
    <3>3. e \notin Elements(batch) => tries'[e] = tries[e]
      BY <2>1
    <3> QED
      BY <1>1, <2>1, <3>1, <3>2, <3>3 DEF Ledger, Trying
  <2> QED
    BY <1>2, <2>2, <2>3, <2>4
<1> QED
  BY <1>3, <1>4 DEF GetTimesOut

\* What a session of e does to the counts, and where e was.
LEMMA SessionFacts ==
    ASSUME QueueInv, NEW e \in Events, Mail(e)
    PROVE  /\ e \in Trying
           /\ sessions' = [sessions EXCEPT ![e] = @ + 1] /\ sessions'[e] = sessions[e] + 1
           /\ tries' = [tries EXCEPT ![e] = @ + 1] /\ tries'[e] = tries[e] + 1
           /\ \A d \in Events \ {e} : sessions'[d] = sessions[d] /\ tries'[d] = tries[d]
           /\ sessions[e] = Failed(retries[e]) + tries[e] /\ tries[e] < SmtpAttempts
           /\ Failed(retries[e] + 1) = Failed(retries[e]) + SmtpAttempts
           /\ Failed(retries[e]) \in Nat /\ tries[e] \in Nat /\ sessions[e] \in Nat
           /\ retries[e] \in 0..MaxRetries /\ SmtpAttempts \in Nat
           /\ e \notin Elements(queue) \cup Elements(batch) \cup givenUp \cup sent
           /\ e \in 1..enqueued /\ enqueued' = enqueued /\ batch' = batch
<1> USE NotificationAssumption DEF QueueInv
<1>1. e \in Trying
      /\ sessions' = [sessions EXCEPT ![e] = @ + 1]
      /\ tries' = [tries EXCEPT ![e] = @ + 1]
      /\ enqueued' = enqueued /\ batch' = batch
  BY DEF Mail, Delivered, AttemptFails, ThreadFails, Trying
<1>2. sessions \in [Events -> Nat] /\ tries \in [Events -> 0..SmtpAttempts]
      /\ retries[e] \in 0..MaxRetries
  BY DEF TypeInv, QueueTypeOK
<1>3. sessions'[e] = sessions[e] + 1 /\ tries'[e] = tries[e] + 1
      /\ \A d \in Events \ {e} : sessions'[d] = sessions[d] /\ tries'[d] = tries[d]
  BY <1>1, <1>2
<1>4. sessions[e] = Failed(retries[e]) + tries[e] /\ tries[e] < SmtpAttempts
  BY <1>1 DEF Ledger
<1>5. Failed(retries[e] + 1) = Failed(retries[e]) + SmtpAttempts /\ Failed(retries[e]) \in Nat
  <2>1. retries[e] \in Nat
    BY <1>2
  <2> QED
    BY <2>1, FailedFacts
<1>6. e \notin Elements(queue) \cup Elements(batch) \cup givenUp \cup sent /\ e \in 1..enqueued
  BY <1>1 DEF OnePlace, One, Trying
<1> QED
  BY <1>1, <1>2, <1>3, <1>4, <1>5, <1>6

\* A session that succeeds, that fails with another to come, or that was the last one
\* of a thread nobody waits for: only these leave queue, retries and givenUp alone.
LEMMA AttemptKeeps ==
    ASSUME QueueInv, NEW e \in Events, Mail(e), UNCHANGED <<queue, retries, givenUp>>
    PROVE  QueueInv'
<1> USE NotificationAssumption DEF QueueInv
<1>1. \/ UNCHANGED <<sending, orphans, fates>>
      \/ /\ e \in sending /\ sending' = sending \ {e} /\ sent' = sent \cup {e}
         /\ UNCHANGED <<orphans, givenUp, lost>>
      \/ /\ e \in sending /\ sending' = sending \ {e} /\ orphans' = orphans
         /\ RetryOrGiveUp(e) /\ UNCHANGED <<sent, lost>>
      \/ /\ e \in orphans /\ e \notin sending /\ orphans' = orphans \ {e}
         /\ UNCHANGED <<sending, sent, givenUp, lost>>
  BY DEF Mail, Delivered, AttemptFails, ThreadFails, fates
<1>2. ~RetryOrGiveUp(e)
  <2>1. CASE RetryLeft(e)
    <3>1. retries[e] + 1 # retries[e] /\ retries \in [Events -> 0..MaxRetries]
      BY DEF TypeInv, QueueTypeOK
    <3> QED
      BY <2>1, <3>1 DEF RetryOrGiveUp
  <2>2. CASE ~RetryLeft(e)
    BY <2>2, SessionFacts DEF RetryOrGiveUp
  <2> QED
    BY <2>1, <2>2
<1>3. TypeInv' /\ FreshInOrder'
  BY NextTyped, SessionFacts DEF QueueNext, FreshInOrder
<1>4. Distinct'
  BY SessionFacts DEF Distinct
<1>5. OnePlace'
  BY <1>1, <1>2, SessionFacts DEF OnePlace, One, fates
<1>6. Trying' \subseteq Trying /\ (e \in Trying' => tries[e] + 1 < SmtpAttempts)
  <2>1. e \in sending => e \notin orphans
    BY DEF OnePlace, One
  <2>2. Trying' \subseteq Trying
    BY <1>1, <1>2 DEF Trying
  <2>3. e \in Trying' => tries[e] + 1 < SmtpAttempts
    BY <1>2, <2>1 DEF Mail, Delivered, AttemptFails, ThreadFails, Trying
  <2> QED
    BY <2>2, <2>3
<1>7. Ledger'
  <2>1. sessions'[e] = Failed(retries[e]) + tries'[e] /\ sessions'[e] <= Failed(retries[e] + 1)
    BY SessionFacts
  <2>2. e \in Trying' => tries'[e] < SmtpAttempts
    BY <1>6, SessionFacts
  <2>3. e \notin Elements(queue') \cup Elements(batch') \cup givenUp' /\ e \in 1..enqueued'
    BY SessionFacts
  <2>4. \A d \in Events \ {e} : sessions'[d] = sessions[d] /\ tries'[d] = tries[d]
    BY SessionFacts
  <2>5. retries' = retries /\ queue' = queue /\ batch' = batch /\ givenUp' = givenUp
        /\ enqueued' = enqueued
    BY SessionFacts
  <2> QED
    BY <1>6, <2>1, <2>2, <2>3, <2>4, <2>5 DEF Ledger
<1> QED
  BY <1>3, <1>4, <1>5, <1>7

\* The last session of a thread fails, and its event is queued again or given up.
LEMMA RetryKeeps ==
    ASSUME QueueInv, NEW e \in Events, ThreadFails(e), e \in sending
    PROVE  QueueInv'
<1> USE NotificationAssumption DEF QueueInv
<1>0. Mail(e)
  BY DEF Mail
<1>1. /\ sending' = sending \ {e} /\ orphans' = orphans /\ sent' = sent /\ lost' = lost
      /\ tries[e] + 1 = SmtpAttempts /\ RetryOrGiveUp(e)
  BY DEF ThreadFails
<1>2. e \notin orphans /\ e \notin lost
  BY DEF OnePlace, One
<1>3. TypeInv' /\ queue \in Seq(Events) /\ retries \in [Events -> 0..MaxRetries]
  BY <1>0, NextTyped DEF QueueNext, TypeInv, QueueTypeOK
<1>4. sessions'[e] = Failed(retries[e] + 1)
  BY <1>0, <1>1, SessionFacts
<1>5. Trying' = Trying \ {e}
  BY <1>1, <1>2 DEF Trying
<1>6. /\ \A d \in Events \ {e} : sessions'[d] = sessions[d] /\ tries'[d] = tries[d]
      /\ retries[e] \in 0..MaxRetries /\ batch' = batch /\ enqueued' = enqueued
      /\ e \notin Elements(queue) \cup Elements(batch) \cup givenUp \cup sent
      /\ e \in 1..enqueued
  BY <1>0, SessionFacts
<1>7. CASE RetryLeft(e)
  <2>1. retries' = [retries EXCEPT ![e] = @ + 1] /\ queue' = Append(queue, e)
        /\ givenUp' = givenUp
    BY <1>1, <1>7 DEF RetryOrGiveUp
  <2>2. retries'[e] = retries[e] + 1 /\ retries'[e] # 0
        /\ \A d \in Events \ {e} : retries'[d] = retries[d]
    BY <1>3, <1>6, <2>1
  <2>3. Elements(queue') = Elements(queue) \cup {e} /\ NoRepeats(queue')
    BY <1>3, <1>6, <2>1, AppendElements DEF Distinct
  <2>4. Distinct'
    BY <1>6, <2>3 DEF Distinct
  <2>5. OnePlace'
    BY <1>1, <1>2, <1>6, <2>1, <2>3 DEF OnePlace, One
  <2>6. Ledger'
    <3>1. Failed(retries'[e]) <= Failed(retries'[e] + 1)
      <4>1. retries'[e] \in Nat /\ retries'[e] + 1 \in Nat /\ retries'[e] <= retries'[e] + 1
        BY <1>6, <2>2
      <4> QED
        BY <4>1, FailedFacts
    <3> QED
      BY <1>4, <1>5, <1>6, <2>1, <2>2, <2>3, <3>1 DEF Ledger
  <2>7. FreshInOrder'
    <3> SUFFICES ASSUME NEW i \in 1..Len(queue'), retries'[queue'[i]] = 0,
                        NEW f \in (queue'[i] + 1)..enqueued
                 PROVE  \E j \in 1..Len(queue') : i < j /\ queue'[j] = f /\ retries'[f] = 0
      BY <1>6 DEF FreshInOrder
    <3>1. i \in 1..Len(queue) /\ queue'[i] = queue[i] /\ queue[i] \in Events /\ queue[i] # e
      BY <1>3, <2>1, <2>2, AppendFacts
    <3>2. retries[queue[i]] = 0 /\ f \in (queue[i] + 1)..enqueued
      BY <2>2, <3>1
    <3>3. PICK j \in 1..Len(queue) : i < j /\ queue[j] = f /\ retries[f] = 0
      BY <3>1, <3>2 DEF FreshInOrder
    <3>4. j \in 1..Len(queue') /\ queue'[j] = f /\ f \in Events
      BY <1>3, <2>1, <3>3, AppendFacts
    <3>5. f # e
      BY <1>6, <3>3 DEF Elements
    <3> QED
      BY <2>2, <3>3, <3>4, <3>5
  <2> QED
    BY <1>3, <2>4, <2>5, <2>6, <2>7
<1>8. CASE ~RetryLeft(e)
  <2>1. retries' = retries /\ queue' = queue /\ givenUp' = givenUp \cup {e}
    BY <1>1, <1>8 DEF RetryOrGiveUp
  <2>2. retries[e] = MaxRetries
    BY <1>6, <1>8 DEF RetryLeft
  <2>3. Distinct' /\ FreshInOrder'
    BY <1>6, <2>1 DEF Distinct, FreshInOrder
  <2>4. OnePlace'
    BY <1>1, <1>2, <1>6, <2>1 DEF OnePlace, One
  <2>5. Ledger'
    <3>1. sessions'[e] = Failed(MaxRetries + 1) /\ Failed(retries[e] + 1) \in Nat
      BY <1>4, <1>6, <2>2, FailedFacts
    <3> QED
      BY <1>4, <1>5, <1>6, <2>1, <3>1 DEF Ledger
  <2> QED
    BY <1>3, <2>3, <2>4, <2>5
<1> QED
  BY <1>7, <1>8

-----------------------------------------------------------------------------
LEMMA NextQueueInv == QueueInv /\ [QueueNext]_queueVars => QueueInv'
<1> SUFFICES ASSUME QueueInv, [QueueNext]_queueVars PROVE QueueInv'
  OBVIOUS
<1>1. CASE Enqueue
  BY <1>1, EnqueueKeeps
<1>2. CASE StartWorker \/ StopWorker \/ Joined \/ BatchDone \/ UNCHANGED queueVars
  <2>1. TypeInv'
    BY NextTyped DEF QueueInv
  <2>2. UNCHANGED <<enqueued, queue, retries, batch, sending, orphans, tries, sessions, fates>>
    BY <1>2 DEF StartWorker, StopWorker, Joined, BatchDone, queueVars, fates
  <2>3. Distinct' /\ OnePlace' /\ Ledger' /\ FreshInOrder'
    BY <2>2 DEF QueueInv, Distinct, OnePlace, Ledger, Trying, FreshInOrder, fates
  <2> QED
    BY <2>1, <2>3 DEF QueueInv
<1>3. CASE StopTimesOut
  BY <1>3, StopKeeps
<1>4. CASE Fill
  BY <1>4, FillKeeps
<1>5. CASE GetTimesOut
  BY <1>5, GetTimesOutKeeps
<1>6. CASE \E e \in Events : Mail(e)
  <2>1. PICK e \in Events : Mail(e)
    BY <1>6
  <2>2. CASE ThreadFails(e) /\ e \in sending
    BY <2>2, RetryKeeps
  <2>3. CASE ~(ThreadFails(e) /\ e \in sending)
    <3>1. UNCHANGED <<queue, retries, givenUp>>
      BY <2>1, <2>3 DEF Mail, Delivered, AttemptFails, ThreadFails, fates
    <3> QED
      BY <2>1, <3>1, AttemptKeeps
  <2> QED
    BY <2>2, <2>3
<1> QED
  BY <1>1, <1>2, <1>3, <1>4, <1>5, <1>6 DEF QueueNext

LEMMA AlwaysQueueInv == QueueSpec => []QueueInv
BY InitQueueInv, NextQueueInv, PTL DEF QueueSpec

\* Every variable keeps its type: the batch never reaches BatchSize between two steps of
\* the worker, and no count passes its limit.
THEOREM QueueTypes == QueueSpec => []QueueTypeOK
<1>1. QueueInv => QueueTypeOK
  BY DEF QueueInv, TypeInv
<1> QED
  BY <1>1, AlwaysQueueInv, PTL

\* Every event that was enqueued is in exactly one place: waiting, in the batch, being
\* sent, or settled as sent, given up or lost with a cancelled worker.
THEOREM EventsHaveOneFate == QueueSpec => []OneFate
<1>1. ASSUME QueueInv PROVE OneFate
  <2> SUFFICES ASSUME NEW e \in Events
               PROVE  Occurrences(e, queue) + Occurrences(e, batch) + One(e \in sending)
                          + One(e \in sent) + One(e \in givenUp) + One(e \in lost)
                          = One(e \in 1..enqueued)
    BY DEF OneFate
  <2>1. queue \in Seq(Events) /\ batch \in Seq(Events) /\ NoRepeats(queue) /\ NoRepeats(batch)
    BY <1>1 DEF QueueInv, TypeInv, QueueTypeOK, Distinct
  <2>2. Occurrences(e, queue) = One(e \in Elements(queue))
        /\ Occurrences(e, batch) = One(e \in Elements(batch))
    BY <2>1, OccursOnce
  <2> QED
    BY <1>1, <2>2 DEF QueueInv, OnePlace
<1> QED
  BY <1>1, AlwaysQueueInv, PTL

\* The nested retries of tenacity and of the queue cost at most SmtpAttempts sessions
\* for the first try and for each retry of an event, with cancelled workers whose threads
\* go on.
THEOREM SessionsAreBounded == QueueSpec => []SessionsBounded
<1>1. ASSUME QueueInv PROVE SessionsBounded
  <2> SUFFICES ASSUME NEW e \in Events PROVE sessions[e] <= SmtpAttempts * (MaxRetries + 1)
    BY DEF SessionsBounded
  <2>1. /\ retries[e] + 1 \in Nat /\ MaxRetries + 1 \in Nat
        /\ retries[e] + 1 <= MaxRetries + 1 /\ sessions[e] \in Nat
    BY <1>1, NotificationAssumption DEF QueueInv, TypeInv, QueueTypeOK
  <2>2. /\ Failed(retries[e] + 1) <= Failed(MaxRetries + 1)
        /\ Failed(retries[e] + 1) \in Nat /\ Failed(MaxRetries + 1) \in Nat
    BY <2>1, FailedFacts
  <2>3. sessions[e] <= Failed(retries[e] + 1)
    BY <1>1 DEF QueueInv, Ledger
  <2>4. sessions[e] <= Failed(MaxRetries + 1)
    BY <2>1, <2>2, <2>3
  <2> QED
    BY <2>4 DEF Failed
<1> QED
  BY <1>1, AlwaysQueueInv, PTL

\* _process_event drops an event only after every session it has a right to has failed.
THEOREM GivenUpAtTheEnd == QueueSpec => []GivenUpLast
<1>1. ASSUME QueueInv PROVE GivenUpLast
  <2>1. givenUp \subseteq Events
    BY <1>1 DEF QueueInv, TypeInv, QueueTypeOK
  <2>2. \A e \in givenUp : sessions[e] = Failed(MaxRetries + 1)
    BY <1>1, <2>1 DEF QueueInv, Ledger
  <2> QED
    BY <2>2 DEF GivenUpLast, Failed
<1> QED
  BY <1>1, AlwaysQueueInv, PTL

\* Once an event has been taken into the batch untried, every later one is untried too,
\* and in the batch or still in the queue.
FreshInBatch ==
    \A e \in Elements(batch) :
        retries[e] = 0 =>
            \A f \in (e + 1)..enqueued :
                f \in Elements(batch) \cup Elements(queue) /\ retries[f] = 0

\* What was sent took a session.
SentTried == \A e \in sent : sessions[e] > 0

OrderInv == QueueInv /\ FreshInBatch /\ SentTried

LEMMA InitOrderInv == QueueInit => OrderInv
<1> SUFFICES ASSUME QueueInit PROVE OrderInv
  OBVIOUS
<1>1. QueueInv
  BY InitQueueInv
<1>2. Elements(batch) = {}
  BY EmptyFacts DEF QueueInit
<1> QED
  BY <1>1, <1>2 DEF QueueInit, OrderInv, FreshInBatch, SentTried

\* An untried event at the head of the queue has every later one behind it.
LEMMA HeadFacts ==
    ASSUME QueueInv, queue # <<>>, NEW f \in (Head(queue) + 1)..enqueued, retries[Head(queue)] = 0
    PROVE  f \in Elements(queue) /\ retries[f] = 0 /\ f # Head(queue)
<1>1. queue \in Seq(Events) /\ FreshInOrder
  BY DEF QueueInv, TypeInv, QueueTypeOK
<1>2. 1 \in 1..Len(queue) /\ queue[1] = Head(queue) /\ Head(queue) \in Events
  BY <1>1, TailFacts
<1>3. PICK j \in 1..Len(queue) : queue[j] = f /\ retries[f] = 0
  BY <1>1, <1>2 DEF FreshInOrder
<1>4. f # Head(queue)
  BY <1>2 DEF Events
<1> QED
  BY <1>3, <1>4 DEF Elements

LEMMA FreshInBatchKept == OrderInv /\ [QueueNext]_queueVars => FreshInBatch'
<1> SUFFICES ASSUME OrderInv, [QueueNext]_queueVars PROVE FreshInBatch'
  OBVIOUS
<1> USE NotificationAssumption DEF OrderInv
<1>0. /\ queue \in Seq(Events) /\ batch \in Seq(Events) /\ Elements(batch) \subseteq Events
      /\ Elements(queue) \subseteq Events /\ retries \in [Events -> 0..MaxRetries]
  BY ElementsTyped DEF QueueInv, TypeInv, QueueTypeOK
<1>1. CASE UNCHANGED <<enqueued, queue, batch, retries>>
  BY <1>1 DEF FreshInBatch
<1>2. CASE batch' = <<>>
  BY <1>2, EmptyFacts DEF FreshInBatch
<1>3. CASE Enqueue
  <2>1. /\ enqueued' = enqueued + 1 /\ batch' = batch /\ retries' = retries
        /\ queue' = Append(queue, enqueued + 1) /\ enqueued \in Nat /\ enqueued + 1 \in Events
    BY <1>3 DEF Enqueue, Events, QueueInv, TypeInv, QueueTypeOK
  <2>2. Elements(queue') = Elements(queue) \cup {enqueued + 1}
    BY <1>0, <2>1, AppendElements
  <2>3. retries[enqueued + 1] = 0
    BY <2>1 DEF QueueInv, Ledger
  <2> SUFFICES ASSUME NEW e \in Elements(batch), retries[e] = 0, NEW f \in (e + 1)..(enqueued + 1)
               PROVE  f \in Elements(batch) \cup Elements(queue') /\ retries[f] = 0
    BY <2>1 DEF FreshInBatch
  <2>4. CASE f = enqueued + 1
    BY <2>2, <2>3, <2>4
  <2>5. CASE f # enqueued + 1
    <3>1. f \in (e + 1)..enqueued
      BY <1>0, <2>1, <2>5 DEF Events
    <3> QED
      BY <2>2, <3>1 DEF FreshInBatch
  <2> QED
    BY <2>4, <2>5
<1>4. CASE Fill /\ batch' # <<>>
  <2> DEFINE h == Head(queue)
  <2>1. /\ queue # <<>> /\ h \in Events /\ queue' = Tail(queue) /\ batch' = Append(batch, h)
        /\ retries' = retries /\ enqueued' = enqueued
    BY <1>0, <1>4, TailFacts DEF Fill, Process
  <2>2. Elements(queue') = Elements(queue) \ {h} /\ Elements(batch') = Elements(batch) \cup {h}
    BY <1>0, <2>1, TailElements, AppendElements DEF QueueInv, Distinct
  <2> SUFFICES ASSUME NEW e \in Elements(batch'), retries[e] = 0, NEW f \in (e + 1)..enqueued
               PROVE  f \in Elements(batch') \cup Elements(queue') /\ retries[f] = 0
    BY <2>1 DEF FreshInBatch
  <2>3. CASE e = h
    BY <2>1, <2>2, <2>3, HeadFacts
  <2>4. CASE e \in Elements(batch)
    <3>1. f \in Elements(batch) \cup Elements(queue) /\ retries[f] = 0
      BY <2>4 DEF FreshInBatch
    <3> QED
      BY <2>2, <3>1
  <2> QED
    BY <2>2, <2>3, <2>4
<1>5. ASSUME NEW e \in Events, ThreadFails(e), e \in sending, RetryLeft(e) PROVE FreshInBatch'
  <2>1. /\ queue' = Append(queue, e) /\ batch' = batch /\ enqueued' = enqueued
        /\ retries' = [retries EXCEPT ![e] = @ + 1]
    BY <1>5 DEF ThreadFails, RetryOrGiveUp
  <2>2. Elements(queue') = Elements(queue) \cup {e}
    BY <1>0, <2>1, AppendElements
  <2>3. e \notin Elements(batch) \cup Elements(queue)
    BY <1>5 DEF QueueInv, OnePlace, One
  <2>4. \A d \in Elements(batch) \cup Elements(queue) : retries'[d] = retries[d]
    BY <1>0, <2>1, <2>3
  <2> QED
    BY <2>1, <2>2, <2>3, <2>4 DEF FreshInBatch
<1>6. CASE \E e \in Events : Mail(e)
  <2>1. PICK e \in Events : Mail(e)
    BY <1>6
  <2>2. \/ UNCHANGED <<enqueued, queue, batch, retries>>
        \/ ThreadFails(e) /\ e \in sending /\ RetryLeft(e)
    BY <2>1 DEF Mail, Delivered, AttemptFails, ThreadFails, RetryOrGiveUp
  <2> QED
    BY <1>1, <1>5, <2>2
<1>7. CASE StartWorker \/ StopWorker \/ Joined \/ BatchDone \/ UNCHANGED queueVars
  BY <1>1, <1>7 DEF StartWorker, StopWorker, Joined, BatchDone, queueVars
<1>8. CASE StopTimesOut
  BY <1>2, <1>8 DEF StopTimesOut
<1>9. CASE GetTimesOut
  <2>1. batch' = <<>> \/ UNCHANGED <<enqueued, queue, batch, retries>>
    BY <1>9 DEF GetTimesOut, Process
  <2> QED
    BY <1>1, <1>2, <2>1
<1> QED
  BY <1>2, <1>3, <1>4, <1>6, <1>7, <1>8, <1>9 DEF QueueNext

LEMMA NextOrderInv == OrderInv /\ [QueueNext]_queueVars => OrderInv'
<1> SUFFICES ASSUME OrderInv, [QueueNext]_queueVars PROVE OrderInv'
  OBVIOUS
<1>1. QueueInv' /\ FreshInBatch'
  BY NextQueueInv, FreshInBatchKept DEF OrderInv
<1>2. SentTried'
  <2>1. SentTried /\ sent \subseteq Events /\ sessions \in [Events -> Nat]
    BY DEF OrderInv, QueueInv, TypeInv, QueueTypeOK
  <2>2. CASE UNCHANGED <<sent, sessions>>
    BY <2>1, <2>2 DEF SentTried
  <2>3. CASE \E e \in Events : Mail(e)
    <3>1. PICK e \in Events : Mail(e)
      BY <2>3
    <3>2. /\ sessions' = [sessions EXCEPT ![e] = @ + 1]
          /\ sent' \subseteq sent \cup {e}
      BY <3>1 DEF Mail, Delivered, AttemptFails, ThreadFails, fates
    <3>3. \A d \in Events : sessions[d] \in Nat /\ sessions'[d] >= sessions[d]
      BY <2>1, <3>2
    <3>4. sessions'[e] > 0
      BY <2>1, <3>2
    <3> QED
      BY <2>1, <3>2, <3>3, <3>4 DEF SentTried
  <2> QED
    BY <2>2, <2>3 DEF QueueNext, queueVars, Enqueue, StartWorker, StopWorker, Joined,
       StopTimesOut, Fill, GetTimesOut, BatchDone, fates
<1> QED
  BY <1>1, <1>2 DEF OrderInv

\* No event has its first session while one enqueued before it still waits for its own in
\* the queue or in the batch being filled: retried events go behind the untried ones, and
\* batches are taken from the front.  Within a batch nothing is promised.
THEOREM NoOvertaking == QueueSpec => []OvertakenOnlyInBatch
<1>1. ASSUME OrderInv PROVE OvertakenOnlyInBatch
  <2> USE NotificationAssumption DEF OrderInv
  <2> SUFFICES ASSUME NEW e \in 1..enqueued, NEW f \in 1..enqueued, e < f,
                      sessions[e] = 0, e \notin sending \cup lost
               PROVE  ~(sessions[f] > 0)
    BY DEF OvertakenOnlyInBatch
  <2>1. /\ e \in Events /\ f \in Events /\ f \in (e + 1)..enqueued /\ SmtpAttempts \in Nat
        /\ retries[e] \in Nat /\ retries[f] \in Nat
    BY <1>1 DEF QueueInv, TypeInv, QueueTypeOK, Events
  <2>2. e \notin sent
    BY <1>1 DEF SentTried
  <2>3. e \notin givenUp
    <3>1. Failed(MaxRetries + 1) = Failed(MaxRetries) + SmtpAttempts /\ Failed(MaxRetries) \in Nat
      BY FailedFacts
    <3> QED
      BY <1>1, <2>1, <3>1 DEF QueueInv, Ledger
  <2>4. e \in Elements(queue) \cup Elements(batch)
    BY <1>1, <2>1, <2>2, <2>3 DEF QueueInv, OnePlace, One
  <2>5. retries[e] = 0
    <3>1. Failed(retries[e]) = 0
      BY <1>1, <2>1, <2>4 DEF QueueInv, Ledger
    <3>2. retries[e] # 0 => Failed(1) <= Failed(retries[e])
      <4>1. retries[e] # 0 => 1 <= retries[e]
        BY <2>1
      <4>2. \A m, n \in Nat : m <= n => Failed(m) <= Failed(n)
        BY FailedFacts
      <4> QED
        BY ONLY <2>1, <4>1, <4>2
    <3>3. Failed(0 + 1) = Failed(0) + SmtpAttempts /\ Failed(0) = 0
      BY FailedFacts
    <3> QED
      BY <2>1, <3>1, <3>2, <3>3
  <2>6. f \in Elements(queue) \cup Elements(batch) /\ retries[f] = 0
    <3>1. CASE e \in Elements(queue)
      <4>1. PICK i \in 1..Len(queue) : queue[i] = e
        BY <3>1 DEF Elements
      <4>2. PICK j \in 1..Len(queue) : queue[j] = f /\ retries[f] = 0
        BY <1>1, <2>1, <2>5, <4>1 DEF QueueInv, FreshInOrder
      <4> QED
        BY <4>2 DEF Elements
    <3>2. CASE e \in Elements(batch)
      BY <1>1, <2>1, <2>5, <3>2 DEF FreshInBatch
    <3> QED
      BY <2>4, <3>1, <3>2
  <2>7. sessions[f] = Failed(retries[f])
    BY <1>1, <2>1, <2>6 DEF QueueInv, Ledger
  <2>8. Failed(0) = 0
    BY FailedFacts
  <2> QED
    BY <2>6, <2>7, <2>8
<1>2. QueueSpec => []OrderInv
  BY InitOrderInv, NextOrderInv, PTL DEF QueueSpec
<1> QED
  BY <1>1, <1>2, PTL
=============================================================================
