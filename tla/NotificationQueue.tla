-------------------------- MODULE NotificationQueue --------------------------
(***************************************************************************)
(* The e-mail notifications of the MCP server (services/mcp-server/        *)
(* notifications): the handlers put approval events into an unbounded      *)
(* queue, one worker task collects them into batches, and the events of a  *)
(* batch are mailed concurrently, each in a thread that tries SMTP several *)
(* times.  An event whose thread gave up goes back to the end of the queue *)
(* a few times.  stop_worker waits five seconds and cancels the worker.    *)
(*                                                                         *)
(* Events are numbered in the order they were enqueued.                    *)
(***************************************************************************)
EXTENDS Naturals, Sequences, FiniteSets

CONSTANTS
    BatchSize,      \* NOTIFICATION_BATCH_SIZE
    MaxRetries,     \* ApprovalEvent.max_retries
    SmtpAttempts,   \* stop_after_attempt of EmailNotifier._send_sync
    MaxEvents       \* bound on the events enqueued

ASSUME NotificationAssumption ==
    /\ BatchSize \in Nat \ {0}
    /\ MaxRetries \in Nat
    /\ SmtpAttempts \in Nat \ {0}
    /\ MaxEvents \in Nat

VARIABLES
    enqueued,   \* how many events were enqueued
    queue,      \* asyncio.Queue of events
    retries,    \* retries[e]: retry_count
    running,    \* the flag of the queue
    worker,     \* the worker task: "none" | "filling" | "processing" | "ended"
    batch,      \* the batch being filled
    sending,    \* the events of the batch whose _process_event awaits its thread
    orphans,    \* events whose thread runs on after the worker was cancelled
    tries,      \* tries[e]: SMTP sessions of the latest thread of e
    sessions,   \* sessions[e]: SMTP sessions for e altogether
    sent,       \* events whose thread returned
    givenUp,    \* events that failed once too often
    lost,       \* events the worker was cancelled with
    stopping    \* a stop_worker is waiting for the worker

control == <<running, worker, stopping>>
fates == <<sent, givenUp, lost>>
queueVars == <<enqueued, queue, retries, running, worker, batch, sending, orphans, tries,
               sessions, sent, givenUp, lost, stopping>>

Events == 1..MaxEvents
Elements(s) == {s[i] : i \in 1..Len(s)}

QueueTypeOK ==
    /\ enqueued \in 0..MaxEvents
    /\ queue \in Seq(Events)
    /\ retries \in [Events -> 0..MaxRetries]
    /\ running \in BOOLEAN
    /\ worker \in {"none", "filling", "processing", "ended"}
    /\ batch \in Seq(Events) /\ Len(batch) < BatchSize
    /\ sending \subseteq Events
    /\ orphans \subseteq Events
    /\ tries \in [Events -> 0..SmtpAttempts]
    /\ sessions \in [Events -> Nat]
    /\ sent \subseteq Events
    /\ givenUp \subseteq Events
    /\ lost \subseteq Events
    /\ stopping \in BOOLEAN

QueueInit ==
    /\ enqueued = 0
    /\ queue = <<>>
    /\ retries = [e \in Events |-> 0]
    /\ running = FALSE
    /\ worker = "none"
    /\ batch = <<>>
    /\ sending = {}
    /\ orphans = {}
    /\ tries = [e \in Events |-> 0]
    /\ sessions = [e \in Events |-> 0]
    /\ sent = {}
    /\ givenUp = {}
    /\ lost = {}
    /\ stopping = FALSE

-----------------------------------------------------------------------------
(* The handlers and the life of the worker.                                *)

\* put() on an unbounded queue; with no worker too.
Enqueue ==
    /\ enqueued < MaxEvents
    /\ enqueued' = enqueued + 1
    /\ queue' = Append(queue, enqueued + 1)
    /\ UNCHANGED <<retries, control, batch, sending, orphans, tries, sessions, fates>>

\* With the worker already running it only warns.
StartWorker ==
    /\ ~running
    /\ ~stopping
    /\ running' = TRUE
    /\ worker' = "filling"
    /\ UNCHANGED <<enqueued, queue, retries, batch, sending, orphans, tries, sessions, fates,
                   stopping>>

\* The flag is cleared and the worker awaited.
StopWorker ==
    /\ running
    /\ running' = FALSE
    /\ stopping' = TRUE
    /\ UNCHANGED <<enqueued, queue, retries, worker, batch, sending, orphans, tries, sessions,
                   fates>>

Joined ==
    /\ stopping
    /\ worker = "ended"
    /\ worker' = "none"
    /\ stopping' = FALSE
    /\ UNCHANGED <<enqueued, queue, retries, running, batch, sending, orphans, tries, sessions,
                   fates>>

\* Five seconds are over: wait_for cancels the worker and with it the tasks of the
\* batch.  A thread that has begun cannot be cancelled.
StopTimesOut ==
    /\ stopping
    /\ worker \in {"filling", "processing"}
    /\ \E begun \in SUBSET sending :
          /\ \A e \in sending : tries[e] > 0 => e \in begun
          /\ orphans' = orphans \cup begun
    /\ lost' = lost \cup sending \cup Elements(batch)
    /\ sending' = {}
    /\ batch' = <<>>
    /\ worker' = "none"
    /\ stopping' = FALSE
    /\ UNCHANGED <<enqueued, queue, retries, running, tries, sessions, sent, givenUp>>

-----------------------------------------------------------------------------
(* _worker_loop.  "filling" is the await of queue.get().                   *)

\* _process_batch starts a task for every event of the batch.
Process(b) ==
    /\ worker' = "processing"
    /\ batch' = <<>>
    /\ sending' = Elements(b)
    /\ tries' = [e \in Events |-> IF e \in Elements(b) THEN 0 ELSE tries[e]]

HasRoom(b) == Len(b) < BatchSize

\* Faulty variant: the latest event is taken first.
FillFromTheEnd ==
    /\ worker = "filling"
    /\ queue # <<>>
    /\ queue' = SubSeq(queue, 1, Len(queue) - 1)
    /\ LET b == Append(batch, queue[Len(queue)])
       IN  IF HasRoom(b) /\ running
           THEN batch' = b /\ UNCHANGED <<worker, sending, tries>>
           ELSE Process(b)
    /\ UNCHANGED <<enqueued, retries, running, stopping, orphans, sessions, fates>>

\* get() returns.
Fill ==
    /\ worker = "filling"
    /\ queue # <<>>
    /\ queue' = Tail(queue)
    /\ LET b == Append(batch, Head(queue))
       IN  IF HasRoom(b) /\ running
           THEN batch' = b /\ UNCHANGED <<worker, sending, tries>>
           ELSE Process(b)
    /\ UNCHANGED <<enqueued, retries, running, stopping, orphans, sessions, fates>>

\* Faulty variant: a batch is only processed once it is full.
TimeoutKeepsWaiting ==
    /\ worker = "filling"
    /\ queue = <<>>
    /\ batch = <<>>
    /\ ~running
    /\ worker' = "ended"
    /\ UNCHANGED <<enqueued, queue, retries, running, batch, stopping, sending, orphans, tries,
                   sessions, fates>>

\* get() times out: a batch begun is processed, and a worker with nothing in hand
\* looks whether it is to go on.
GetTimesOut ==
    /\ worker = "filling"
    /\ queue = <<>>
    /\ IF batch # <<>>
       THEN Process(batch)
       ELSE /\ ~running
            /\ worker' = "ended"
            /\ UNCHANGED <<batch, sending, tries>>
    /\ UNCHANGED <<enqueued, queue, retries, running, stopping, orphans, sessions, fates>>

\* gather returns once every event of the batch has been dealt with.
BatchDone ==
    /\ worker = "processing"
    /\ sending = {}
    /\ worker' = IF running THEN "filling" ELSE "ended"
    /\ UNCHANGED <<enqueued, queue, retries, running, stopping, batch, sending, orphans, tries,
                   sessions, fates>>

-----------------------------------------------------------------------------
(* _process_event and the thread of _send_sync.                            *)

\* An SMTP session succeeds, and so does the thread.
Delivered(e) ==
    /\ e \in sending \cup orphans
    /\ tries[e] < SmtpAttempts
    /\ tries' = [tries EXCEPT ![e] = @ + 1]
    /\ sessions' = [sessions EXCEPT ![e] = @ + 1]
    /\ IF e \in sending
       THEN /\ sending' = sending \ {e}
            /\ sent' = sent \cup {e}
            /\ UNCHANGED orphans
       ELSE /\ orphans' = orphans \ {e}
            /\ UNCHANGED <<sending, sent>>
    /\ UNCHANGED <<enqueued, queue, retries, control, batch, givenUp, lost>>

\* A session fails -- perhaps after the mail went out -- and tenacity tries again.
AttemptFails(e) ==
    /\ e \in sending \cup orphans
    /\ tries[e] + 1 < SmtpAttempts
    /\ tries' = [tries EXCEPT ![e] = @ + 1]
    /\ sessions' = [sessions EXCEPT ![e] = @ + 1]
    /\ UNCHANGED <<enqueued, queue, retries, control, batch, sending, orphans, fates>>

\* Faulty variant: the count is compared after it went up.
RetryLeftAfterCounting(e) == retries[e] + 1 < MaxRetries

RetryLeft(e) == retries[e] < MaxRetries

\* The except clause of _process_event.
RetryOrGiveUp(e) ==
    IF RetryLeft(e)
    THEN /\ retries' = [retries EXCEPT ![e] = @ + 1]
         /\ queue' = Append(queue, e)
         /\ UNCHANGED givenUp
    ELSE /\ givenUp' = givenUp \cup {e}
         /\ UNCHANGED <<retries, queue>>

\* The last session of the thread fails.
ThreadFails(e) ==
    /\ e \in sending \cup orphans
    /\ tries[e] + 1 = SmtpAttempts
    /\ tries' = [tries EXCEPT ![e] = @ + 1]
    /\ sessions' = [sessions EXCEPT ![e] = @ + 1]
    /\ IF e \in sending
       THEN /\ sending' = sending \ {e}
            /\ RetryOrGiveUp(e)
            /\ UNCHANGED orphans
       ELSE /\ orphans' = orphans \ {e}
            /\ UNCHANGED <<sending, retries, queue, givenUp>>
    /\ UNCHANGED <<enqueued, control, batch, sent, lost>>

-----------------------------------------------------------------------------
Mail(e) == Delivered(e) \/ AttemptFails(e) \/ ThreadFails(e)

QueueNext ==
    \/ Enqueue
    \/ StartWorker \/ StopWorker \/ Joined \/ StopTimesOut
    \/ Fill \/ GetTimesOut \/ BatchDone
    \/ \E e \in Events : Mail(e)

QueueSpec == QueueInit /\ [][QueueNext]_queueVars

\* The event loop resumes the worker, and every SMTP session ends (timeout=10).
QueueFairness ==
    /\ WF_queueVars(Fill) /\ WF_queueVars(GetTimesOut) /\ WF_queueVars(BatchDone)
    /\ \A e \in Events : WF_queueVars(Mail(e))

FairQueueSpec == QueueSpec /\ QueueFairness

-----------------------------------------------------------------------------
(* Properties that hold.                                                   *)

Occurrences(e, s) == Cardinality({i \in 1..Len(s) : s[i] = e})
One(b) == IF b THEN 1 ELSE 0

\* Whatever fails, is retried or cancelled, an event is in one place only: waiting,
\* in the batch, being sent, or settled; none vanishes and none is queued twice.
OneFate ==
    \A e \in Events :
        Occurrences(e, queue) + Occurrences(e, batch) + One(e \in sending)
            + One(e \in sent) + One(e \in givenUp) + One(e \in lost) = One(e \in 1..enqueued)

\* The two retry loops, one inside the other, end: there is a bound on the SMTP
\* sessions for one event, cancelled workers and their threads included.
SessionsBounded ==
    \A e \in Events : sessions[e] <= SmtpAttempts * (MaxRetries + 1)

\* An event is only given up when every session it has a right to has failed.
GivenUpLast ==
    \A e \in givenUp : sessions[e] = SmtpAttempts * (MaxRetries + 1)

\* The events of a batch are mailed concurrently, so the later one of two may have its
\* first session first.  But no event is overtaken while it waits: one that has had no
\* session yet while a later one has is being sent (or was lost with a cancelled
\* worker), and not still in the queue or in the batch being filled.
OvertakenOnlyInBatch ==
    \A e, f \in 1..enqueued :
        e < f /\ sessions[e] = 0 /\ sessions[f] > 0 => e \in sending \cup lost

\* While the worker is not being stopped, every event is sent or given up in the end:
\* the events that are retried do not starve the others, nor they them.
EveryEventSettled ==
    \A e \in Events :
        e <= enqueued ~> (e \in sent \cup givenUp \cup lost \/ ~running)
=============================================================================
