----------------------------- MODULE AuditLogger -----------------------------
(***************************************************************************)
(* The audit logger of the MCP server (services/mcp-server/                *)
(* audit_logger.py): request handlers put entries into a bounded queue     *)
(* without waiting, one writer task takes them out and inserts them into   *)
(* security_audit_logs, and the shutdown handler stops the writer.         *)
(*                                                                         *)
(* Entries are numbered in the order of the calls of log_tool_call.  Each  *)
(* await of the writer and of stop_async_writer is the end of a step.      *)
(***************************************************************************)
EXTENDS Naturals, Sequences

CONSTANTS
    QueueSize,      \* SECURITY_QUEUE_SIZE
    MaxEntries      \* bound on the calls of log_tool_call

ASSUME SizesAssumption == QueueSize \in Nat \ {0} /\ MaxEntries \in Nat

VARIABLES
    logged,     \* how many entries were handed to the logger
    queue,      \* asyncio.Queue of entries
    inHand,     \* the entry the writer is inserting, 0 if none
    stored,     \* the rows of security_audit_logs, in the order of their log_id
    dropped,    \* entries refused because the queue was full
    lost,       \* entries taken from the queue or left in it and never stored
    running,    \* _running
    writer,     \* the writer task: "none" | "waiting" | "inserting" | "ended"
    stopper,    \* stop_async_writer: "idle" | "joining" | "returned"
    mark,       \* `logged' at the moment stop_async_writer was called
    alive       \* the process has not been killed

history == <<logged, dropped>>
control == <<running, writer, stopper, mark>>
vars == <<logged, queue, inHand, stored, dropped, lost, running, writer, stopper, mark, alive>>

Entries == 1..MaxEntries
Queued == {queue[i] : i \in 1..Len(queue)}
Stored == {stored[i] : i \in 1..Len(stored)}
InHand == {inHand} \ {0}

TypeOK ==
    /\ logged \in 0..MaxEntries
    /\ queue \in Seq(Entries) /\ Len(queue) <= QueueSize
    /\ inHand \in 0..MaxEntries
    /\ stored \in Seq(Entries)
    /\ dropped \subseteq Entries
    /\ lost \subseteq Entries
    /\ running \in BOOLEAN
    /\ writer \in {"none", "waiting", "inserting", "ended"}
    /\ stopper \in {"idle", "joining", "returned"}
    /\ mark \in 0..MaxEntries
    /\ alive \in BOOLEAN

Init ==
    /\ logged = 0
    /\ queue = <<>>
    /\ inHand = 0
    /\ stored = <<>>
    /\ dropped = {}
    /\ lost = {}
    /\ running = FALSE
    /\ writer = "none"
    /\ stopper = "idle"
    /\ mark = 0
    /\ alive = TRUE

\* put_nowait, or QueueFull and the entry is dropped.  It works without a writer too.
LogToolCall ==
    /\ alive
    /\ logged < MaxEntries
    /\ logged' = logged + 1
    /\ IF Len(queue) < QueueSize
       THEN queue' = Append(queue, logged + 1) /\ UNCHANGED dropped
       ELSE dropped' = dropped \cup {logged + 1} /\ UNCHANGED queue
    /\ UNCHANGED <<inHand, stored, lost, control, alive>>

\* start_async_writer; with a writer already there it only warns.
StartAsyncWriter ==
    /\ alive
    /\ writer = "none"
    /\ stopper # "joining"
    /\ running' = TRUE
    /\ writer' = "waiting"
    /\ stopper' = "idle"
    /\ UNCHANGED <<history, queue, inHand, stored, lost, mark, alive>>

\* Faulty variant: the loop ends as soon as it is told to, with entries in the queue.
LoopsWhileRunning(q) == running

\* The condition of the writer's loop.
Loops(q) == running \/ q # <<>>

\* queue.get() returns the oldest entry.
Take ==
    /\ alive
    /\ writer = "waiting"
    /\ Loops(queue)
    /\ queue # <<>>
    /\ inHand' = Head(queue)
    /\ queue' = Tail(queue)
    /\ writer' = "inserting"
    /\ UNCHANGED <<history, stored, lost, running, stopper, mark, alive>>

\* queue.get() times out after a second, and the loop is over.
GiveUp ==
    /\ alive
    /\ writer = "waiting"
    /\ ~Loops(queue)
    /\ writer' = "ended"
    /\ UNCHANGED <<history, queue, inHand, stored, lost, running, stopper, mark, alive>>

\* insert_audit_log commits.
InsertAuditLog ==
    /\ alive
    /\ writer = "inserting"
    /\ stored' = Append(stored, inHand)
    /\ inHand' = 0
    /\ writer' = "waiting"
    /\ UNCHANGED <<history, queue, lost, running, stopper, mark, alive>>

\* Faulty variant: an entry that could not be stored goes back into the queue.
Requeue ==
    /\ alive
    /\ writer = "inserting"
    /\ queue' = Append(queue, inHand)
    /\ inHand' = 0
    /\ writer' = "waiting"
    /\ UNCHANGED <<history, stored, lost, running, stopper, mark, alive>>

\* It raises (database is locked): the error is logged, the entry is gone.
InsertFails ==
    /\ alive
    /\ writer = "inserting"
    /\ lost' = lost \cup InHand
    /\ inHand' = 0
    /\ writer' = "waiting"
    /\ UNCHANGED <<history, queue, stored, running, stopper, mark, alive>>

\* stop_async_writer clears the flag and awaits the task; with none there is no more to do.
StopAsyncWriter ==
    /\ alive
    /\ stopper = "idle"
    /\ writer # "none"
    /\ running' = FALSE
    /\ mark' = logged
    /\ stopper' = "joining"
    /\ UNCHANGED <<history, queue, inHand, stored, lost, writer, alive>>

Joined ==
    /\ alive
    /\ stopper = "joining"
    /\ writer = "ended"
    /\ writer' = "none"
    /\ stopper' = "returned"
    /\ UNCHANGED <<history, queue, inHand, stored, lost, running, mark, alive>>

\* The process is killed.  The INSERT under way may have been committed or not.
Kill ==
    /\ alive
    /\ alive' = FALSE
    /\ \/ /\ inHand # 0
          /\ stored' = Append(stored, inHand)
          /\ lost' = lost \cup Queued
       \/ /\ lost' = lost \cup Queued \cup InHand
          /\ UNCHANGED stored
    /\ queue' = <<>>
    /\ inHand' = 0
    /\ UNCHANGED <<history, control>>

Next ==
    \/ LogToolCall
    \/ StartAsyncWriter \/ StopAsyncWriter \/ Joined
    \/ Take \/ GiveUp \/ InsertAuditLog \/ InsertFails
    \/ Kill

Spec == Init /\ [][Next]_vars

\* The event loop resumes the writer and the shutdown handler when they are ready.
Fairness ==
    /\ WF_vars(Take \/ GiveUp)
    /\ WF_vars(InsertAuditLog \/ InsertFails)
    /\ WF_vars(Joined)

FairSpec == Spec /\ Fairness

-----------------------------------------------------------------------------
(* Properties that hold.                                                   *)

\* The trail is in the order of the calls and has no entry twice, through full
\* queues, failed inserts, stops, restarts of the writer and kills.
StoredInOrder ==
    \A i, j \in 1..Len(stored) : i < j => stored[i] < stored[j]

\* When stop_async_writer returns, no entry logged before it was called is waiting.
StopDrains ==
    stopper = "returned" => \A n \in Queued \cup InHand : n > mark

\* While there is a writer every entry in the queue is stored or given up in the end.
EveryEntrySettled ==
    \A n \in Entries :
        (n \in Queued /\ writer # "none" /\ writer # "ended")
            ~> (n \notin Queued \cup InHand)
=============================================================================
