------------------------------ MODULE MemorySync ------------------------------
(***************************************************************************)
(* The conversation memory (scripts/memory_system.py, memory_maintainer.py *)
(* and the two servers in front of it).  A conversation and the row that   *)
(* queues its embedding are inserted into SQLite together; three kinds of  *)
(* writers, in several processes, bring embeddings to Qdrant and then say  *)
(* so in the row:                                                          *)
(*   background   process_pending_embeddings, one task per POST, item by   *)
(*                item;                                                    *)
(*   batch        batch_sync_to_qdrant, all items in one request;          *)
(*   maintainer   sync_to_qdrant of the maintainer, every five minutes,    *)
(*                with the vectors the rows already have.                  *)
(* Meanwhile conversations expire, are backed up and restored.             *)
(*                                                                         *)
(* retry_failed_syncs is no writer: every item of it ends in a NameError   *)
(* before the first request (requests is imported in batch_sync_to_qdrant  *)
(* only), which it counts and forgets.  A call of it changes nothing.      *)
(*                                                                         *)
(* Each writer here is a call that any of them may use for a while.        *)
(*                                                                         *)
(* Conversations are numbered in the order they were saved: AUTOINCREMENT  *)
(* never gives out an id twice.  A row is gone ("none") when its           *)
(* conversation was deleted or restored without it.                        *)
(***************************************************************************)
EXTENDS Naturals, FiniteSets

CONSTANTS
    Writers,            \* the calls that can run at a time
    BatchSize,          \* LIMIT of the SELECT of each writer
    MaxConversations,   \* bound on the conversations saved
    MaxImports          \* bound on the backups restored

ASSUME MemoryAssumption ==
    /\ BatchSize \in Nat \ {0}
    /\ MaxConversations \in Nat
    /\ MaxImports \in Nat

VARIABLES
    saved,      \* how many conversations were saved
    stored,     \* ids in the table conversations
    expired,    \* conversations whose expires_at the cleanup finds in the past
    row,        \* row[c]: sync_status in conversation_embeddings, or "none"
    vectors,    \* rows whose embedding_vector is not NULL
    points,     \* ids in the Qdrant collection
    kind,       \* kind[w]: which of the three w is, or "none"
    stage,      \* stage[w]: "idle" | "embedding" | "uploading" | "marking" | "failing"
    hand,       \* hand[w]: the items of the request w is making
    todo,       \* todo[w]: items read and not begun
    tasks,      \* background tasks scheduled and not begun
    backup,     \* conversations in the backup file
    imports     \* backups restored

tables == <<stored, row, vectors>>
writing == <<kind, stage, hand, todo>>
others == <<saved, expired, tasks, backup, imports>>
memoryVars == <<saved, stored, expired, row, vectors, points, kind, stage, hand, todo,
                tasks, backup, imports>>

Conversations == 1..MaxConversations
Kinds == {"background", "batch", "maintainer"}

MemoryTypeOK ==
    /\ saved \in 0..MaxConversations
    /\ stored \subseteq 1..saved
    /\ expired \subseteq stored
    /\ row \in [Conversations -> {"none", "pending", "synced", "failed"}]
    /\ vectors \subseteq Conversations
    /\ points \subseteq Conversations
    /\ kind \in [Writers -> Kinds \cup {"none"}]
    /\ stage \in [Writers -> {"idle", "embedding", "uploading", "marking", "failing"}]
    /\ hand \in [Writers -> SUBSET Conversations]
    /\ todo \in [Writers -> SUBSET Conversations]
    /\ tasks \in 0..saved
    /\ backup \subseteq 1..saved
    /\ imports \in 0..MaxImports

MemoryInit ==
    /\ saved = 0
    /\ stored = {}
    /\ expired = {}
    /\ row = [c \in Conversations |-> "none"]
    /\ vectors = {}
    /\ points = {}
    /\ kind = [w \in Writers |-> "none"]
    /\ stage = [w \in Writers |-> "idle"]
    /\ hand = [w \in Writers |-> {}]
    /\ todo = [w \in Writers |-> {}]
    /\ tasks = 0
    /\ backup = {}
    /\ imports = 0

-----------------------------------------------------------------------------
(* Conversations come and go.                                              *)

\* The memory service schedules a background task for what it saved; the gateway and the
\* command line do not.
ScheduleEmbedding == tasks' \in {tasks, tasks + 1}

\* Faulty variant: the embedding is not queued.
SaveUnqueued ==
    /\ saved < MaxConversations
    /\ saved' = saved + 1
    /\ stored' = stored \cup {saved + 1}
    /\ ScheduleEmbedding
    /\ UNCHANGED <<expired, row, vectors, points, writing, backup, imports>>

\* One transaction for both tables.
SaveConversation ==
    /\ saved < MaxConversations
    /\ saved' = saved + 1
    /\ stored' = stored \cup {saved + 1}
    /\ row' = [row EXCEPT ![saved + 1] = "pending"]
    /\ ScheduleEmbedding
    /\ UNCHANGED <<expired, vectors, points, writing, backup, imports>>

\* Importance decides whether a conversation has an expires_at at all.  A blank against a
\* "T" in the comparison makes it pass at the beginning of its last day.
Expire(c) ==
    /\ c \in stored
    /\ expired' = expired \cup {c}
    /\ UNCHANGED <<saved, tables, points, writing, tasks, backup, imports>>

\* Expired conversations, and all rows that have none.
DeleteExpired ==
    /\ stored' = stored \ expired
    /\ expired' = {}
    /\ row' = [c \in Conversations |-> IF c \in stored' THEN row[c] ELSE "none"]
    /\ vectors' = vectors \cap stored'

\* The cleanup endpoints.  With foreign keys on, the DELETE fails on the first
\* conversation that has a row, and nothing is deleted.
ApiCleanup ==
    /\ \A c \in expired : row[c] = "none"
    /\ DeleteExpired
    /\ UNCHANGED <<saved, points, writing, tasks, backup, imports>>

\* The hourly job of the maintainer, whose connection does not enforce foreign keys.  Its
\* jobs run one after the other.
MaintainerCleanup ==
    /\ \A w \in Writers : kind[w] # "maintainer"
    /\ DeleteExpired
    /\ UNCHANGED <<saved, points, writing, tasks, backup, imports>>

ExportBackup ==
    /\ backup' = stored
    /\ UNCHANGED <<saved, tables, expired, points, writing, tasks, imports>>

\* What the gateway is asked to do with a store.
Requests == ApiCleanup \/ ExportBackup

\* Only conversations are restored; whether the rest is deleted first is asked.
ImportBackup ==
    /\ imports < MaxImports
    /\ imports' = imports + 1
    /\ \/ /\ stored' = backup
          /\ expired' = expired \cap backup
          /\ row' = [c \in Conversations |-> "none"]
          /\ vectors' = {}
       \/ /\ stored' = stored \cup backup
          /\ UNCHANGED <<expired, row, vectors>>
    /\ UNCHANGED <<saved, points, writing, tasks, backup>>

-----------------------------------------------------------------------------
(* The writers.                                                            *)

\* What the SELECT of a writer of kind k finds; it joins with conversations.
Queued(k) ==
    {c \in stored : row[c] = "pending" \/ (k # "background" /\ row[c] = "failed")}

\* Up to BatchSize of them: the oldest ones for the background task, pending ones before
\* failed ones for the batch.
Selections(k) ==
    {S \in SUBSET Queued(k) :
        /\ Cardinality(S) <= BatchSize
        /\ S = Queued(k) \/ Cardinality(S) = BatchSize
        /\ \A c \in S, d \in Queued(k) \ S :
              /\ k = "background" => c < d
              /\ k = "batch" /\ row[d] = "pending" => row[c] = "pending"}

Become(w, k, s, S, rest) ==
    /\ kind' = [kind EXCEPT ![w] = k]
    /\ stage' = [stage EXCEPT ![w] = s]
    /\ hand' = [hand EXCEPT ![w] = S]
    /\ todo' = [todo EXCEPT ![w] = rest]

Return(w) == Become(w, "none", "idle", {}, {})

\* The loop of a writer that works item by item; the background task goes by age.
Proceed(w, k, S) ==
    IF S = {}
    THEN Return(w)
    ELSE \E c \in S : /\ k = "background" => \A d \in S : c <= d
                      /\ Become(w, k, "embedding", {c}, S \ {c})

Idle(w) == stage[w] = "idle"

ProcessPending(w) ==
    /\ Idle(w)
    /\ tasks > 0
    /\ tasks' = tasks - 1
    /\ \E S \in Selections("background") : Proceed(w, "background", S)
    /\ UNCHANGED <<saved, tables, expired, points, backup, imports>>

BatchSync(w) ==
    /\ Idle(w)
    /\ \E S \in Selections("batch") \ {{}} : Become(w, "batch", "embedding", S, {})
    /\ UNCHANGED <<tables, points, others>>

\* The maintainer sends the vectors it finds.  Qdrant refuses a request with a null
\* vector in it, and then nothing has happened.
SyncToQdrant(w) ==
    /\ Idle(w)
    /\ \A v \in Writers : kind[v] # "maintainer"
    /\ \E S \in Selections("maintainer") \ {{}} :
          /\ S \subseteq vectors
          /\ Become(w, "maintainer", "uploading", S, {})
    /\ UNCHANGED <<tables, points, others>>

Select(w) == ProcessPending(w) \/ BatchSync(w) \/ SyncToQdrant(w)

-----------------------------------------------------------------------------
(* The requests of a writer, in order, and what becomes of those that fail. *)

Advance(w, s) == stage' = [stage EXCEPT ![w] = s] /\ UNCHANGED <<kind, hand, todo>>

Embed(w) ==
    /\ stage[w] = "embedding"
    /\ Advance(w, "uploading")
    /\ UNCHANGED <<tables, points, others>>

\* Only a batch is marked as failed; the others leave the row as it is.
EmbedFails(w) ==
    /\ stage[w] = "embedding"
    /\ IF kind[w] = "batch" THEN Advance(w, "failing") ELSE Proceed(w, kind[w], todo[w])
    /\ UNCHANGED <<tables, points, others>>

\* The upsert of the conversation's point.
Upload(w) ==
    /\ stage[w] = "uploading"
    /\ points' = points \cup hand[w]
    /\ Advance(w, "marking")
    /\ UNCHANGED <<tables, others>>

\* From the upload on, whatever fails a batch or a background task fails its items; the
\* maintainer leaves the rows as they are.
GiveUp(w) ==
    IF kind[w] \in {"background", "batch"}
    THEN Advance(w, "failing")
    ELSE Proceed(w, kind[w], todo[w])

\* Without an answer the points may be stored or not.
UploadFails(w) ==
    /\ stage[w] = "uploading"
    /\ points' \in {points, points \cup hand[w]}
    /\ GiveUp(w)
    /\ UNCHANGED <<tables, others>>

\* Faulty variant: the rows are written whether they are still there or not.
SetStatusAnyway(S, s) == row' = [c \in Conversations |-> IF c \in S THEN s ELSE row[c]]

\* UPDATE conversation_embeddings ... WHERE conversation_id, one transaction for S.
SetStatus(S, s) ==
    row' = [c \in Conversations |-> IF c \in S /\ row[c] # "none" THEN s ELSE row[c]]

Mark(w) ==
    /\ stage[w] = "marking"
    /\ SetStatus(hand[w], "synced")
    /\ vectors' = IF kind[w] = "batch"
                  THEN vectors \cup {c \in hand[w] : row[c] # "none"}
                  ELSE vectors
    /\ Proceed(w, kind[w], todo[w])
    /\ UNCHANGED <<stored, points, others>>

MarkFails(w) ==
    /\ stage[w] = "marking"
    /\ GiveUp(w)
    /\ UNCHANGED <<tables, points, others>>

\* Faulty variant: the wrong status is written.
MarkFailedAsSynced(w) ==
    /\ stage[w] = "failing"
    /\ SetStatus(hand[w], "synced")
    /\ Proceed(w, kind[w], todo[w])
    /\ UNCHANGED <<stored, vectors, points, others>>

\* Should this fail too, the row stays as it is.
MarkFailed(w) ==
    /\ stage[w] = "failing"
    /\ SetStatus(hand[w], "failed") \/ UNCHANGED row
    /\ Proceed(w, kind[w], todo[w])
    /\ UNCHANGED <<stored, vectors, points, others>>

Continue(w) ==
    \/ Embed(w) \/ EmbedFails(w) \/ Upload(w) \/ UploadFails(w)
    \/ Mark(w) \/ MarkFails(w) \/ MarkFailed(w)

\* A process dies with its calls; that of the background tasks with those scheduled, too.
Die(k) ==
    LET Survives(w, v, dead) == IF kind[w] = k THEN dead ELSE v
    IN  /\ kind' = [w \in Writers |-> Survives(w, kind[w], "none")]
        /\ stage' = [w \in Writers |-> Survives(w, stage[w], "idle")]
        /\ hand' = [w \in Writers |-> Survives(w, hand[w], {})]
        /\ todo' = [w \in Writers |-> Survives(w, todo[w], {})]
        /\ tasks' = IF k = "background" THEN 0 ELSE tasks
        /\ UNCHANGED <<saved, tables, expired, points, backup, imports>>

MemoryNext ==
    \/ SaveConversation
    \/ \E c \in Conversations : Expire(c)
    \/ Requests
    \/ MaintainerCleanup \/ ImportBackup
    \/ \E w \in Writers : Select(w) \/ Continue(w)
    \/ \E k \in Kinds : Die(k)

MemorySpec == MemoryInit /\ [][MemoryNext]_memoryVars

-----------------------------------------------------------------------------
(* Properties that hold.                                                   *)

\* What a row calls synced can be found by vector search, whichever writer said so and
\* whatever the others, the crashes and the failures did in between.
SyncedIsIndexed == \A c \in Conversations : row[c] = "synced" => c \in points

\* No row of a deleted conversation is left behind: the writers join with conversations,
\* and an orphan would hold its place in the queue for nothing.
RowsHaveConversations == \A c \in Conversations : row[c] # "none" => c \in stored

\* A writer that still had a conversation in hand when it was deleted does not bring its
\* row back.
RowsStayGone ==
    [][\A c \in 1..saved : row[c] = "none" => row'[c] = "none"]_memoryVars

\* Only conversations out of a backup are never queued for an embedding.
OnlyRestoredForgotten == \A c \in stored : row[c] = "none" => c \in backup
=============================================================================
