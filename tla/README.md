# Specifications of local-ai-suite

TLA+ models of the concurrent parts of the suite: the MCP server with its
approval workflow, audit trail, limiter, tools, notifications, caches, sandbox
and model switch, the command-line client that calls it, the conversation
memory with its vectors, and the RAG and embedding services. TLC checks each on
small instances, and TLAPS proves their safety properties for every value of the
constants. Paths are relative to the repository; `mcp/`
is short for `services/mcp-server/`.

    tlc -workers 2 -config MCApprovalWorkflow.cfg MCApprovalWorkflow.tla
    tlapm Approvals_proofs.tla

## 1. The system

The suite is a set of containers: inference servers behind a gateway, an
embedding service, a RAG service over Qdrant, a memory service, and the MCP
server, which runs tools (files, git, code, models) for the command-line client
`scripts/ai.py` and the desktop application.

| Component | State | Operations | Talks to |
|---|---|---|---|
| Approval workflow (`mcp/rbac_manager.py`, `security_database.py`, `app.py`, `api/v1/approvals.py`, `scripts/approval_*.py`) | table `approval_requests`, one coroutine per waiting call | create, poll, time out, approve, reject, cancel, clean up, report the status | the database, audit logger, notifications; two command-line processes that share only the database |
| RBAC middleware (`mcp/rbac_middleware.py`) | none of its own | admit or refuse a tool call, start the approval, call the tool | RBAC manager, audit logger |
| RBAC caches (`mcp/rbac_manager.py`) | permission cache (with TTL), role cache (without) | look up, prewarm, invalidate | the database |
| Audit logger (`mcp/audit_logger.py`) | bounded queue, writer task, table `security_audit_logs` | log, write, start, stop | every handler, the database |
| Rate limiter, access control (`mcp/rate_limiter.py`) | a history of requests and a counter of executions per tool and user | check, start, end, usage | `call_tool` in `app.py` |
| File and git tools (`mcp/app.py`) | working tree, index and last commit of a repository | write, add, commit, status, diff, log | git processes |
| Notifications (`mcp/notifications/`) | unbounded queue, worker task, SMTP threads | enqueue, batch, send, retry, stop | approval handlers, SMTP |
| Model switch (`mcp/app.py`) | which model each inference container has loaded | switch, report | docker compose, inference servers |
| Sandbox (`mcp/sandbox.py`) | table of sessions | create, validate, expire, block, execute | docker |
| Client (`scripts/ai.py`) | none | call a tool, poll the approval, call again; save an exchange | MCP server, memory |
| Memory store (`scripts/memory_system.py`, `memory_maintainer.py`, `memory_utils.py`, `services/memory-service`, `services/api-gateway`) | conversations and the `sync_status` of their embeddings in SQLite; points in Qdrant; the switch `_vector_enabled` | save, score, search, embed, synchronise, retry, expire, import, export, back up, recover | embedding service, Qdrant |
| RAG (`services/rag`) | documents and points, cache of answers, metadata, `EMBED_DIM` | index, query, prewarm, clean up | embedding service, Qdrant, inference |
| Embedding (`services/embedding`) | the loaded model, its name and dimension, a loader thread | load, embed, prewarm, reload, health | RAG, memory |

Validators, settings, API keys, desktop windows, analytics, benchmarks and
deployment files keep no state that several actors share; `PROJECT.json` lists
them with the reason each is left out.

What is hard in it, and what makes the components correct:

* **Approval.** A decision can come from three endpoints in the server, two
  processes outside of it, a cleanup and the waiter itself. Each looks
  at the row first and writes later, in separate awaits or processes; writes
  fail when the database is locked; the server can die with its waiters. A
  tool must run only on a decision that was really taken about it, a decision
  must never change, what callers are told must match the row, and every call
  must come to an end.
* **A tool call from end to end.** The client gives up after 60 seconds, the
  server waits 300; the client posts anew after an approval. The tool must not
  run twice, and what the user is told must stay true.
* **Audit.** Handlers log without waiting, the writer stops and starts, inserts
  fail. The trail must be in order and have nothing twice, and shutdown must
  not lose what is queued.
* **Limiter and tools.** Checks and slots must agree about the edges of a
  sliding window while executions overlap; commits of several callers meet at
  the lock of one git index, and each may carry what others staged.
* **Notifications.** Two retry loops inside each other, batches, a worker that
  is cancelled while threads mail on.
* **RBAC caches.** What a lookup read before an await is written, or answered,
  after it.
* **Memory.** Three kinds of writers in three processes bring embeddings to
  Qdrant and say so in SQLite, each from a list it read earlier, while
  conversations expire and are restored. No row may call synced what was not
  stored, none may outlive its conversation or come back. A search must not
  lose its text hits to a vector side that is slow or gone.
* **RAG.** Uploads overlay each other from point 0 on, metadata follows in
  separate rows, answers are cached, a dimension is measured once.
* **Embedding.** Handlers read the model, its name and its dimension without
  the lock under which a reload exchanges them.
* **Model switch, sandbox.** What was looked at before an await is acted on
  after it: a container that another call restarted, a session that was closed.

## 2. The modules

| Module | Models | Proofs |
|---|---|---|
| `ApprovalDecision` | what the approval workflow promises: submit, decide once, execute | |
| `ApprovalWorkflow`, `MCApprovalWorkflow` | the workflow as coded; implements `ApprovalDecision` | `Approvals_proofs` |
| `ToolGateway` | client, middleware, approval and tool composed | `ToolGateway_proofs` |
| `AuditLogger` | queue, writer, shutdown | `McpServer_proofs` |
| `RateLimiter` | window and execution slots | `ToolServer_proofs` |
| `ToolServer`, `MCToolServer` | the limiter with access rules, files and git behind it | `ToolServer_proofs` |
| `NotificationQueue` | batches, threads, retries, cancellation | `Approvals_proofs` |
| `RbacCache` | both caches, prewarming, changes of the database | `RbacCache_proofs` |
| `MemorySync` | conversations, their rows and points, the writers | `Memory_proofs` |
| `MemoryRecall`, `MCMemoryRecall` | scores, lifetimes, saving from two sides, searches, the vector switch | `Memory_proofs` |
| `RagText` | how a text is cut into chunks, as functions | `RagService_proofs` |
| `RagService`, `MCRagService` | indexing, metadata, cached answers | `RagService_proofs` |
| `EmbeddingContract` | what callers of the embedding service rely on | |
| `EmbeddingService` | lock, loader thread, handlers; implements `EmbeddingContract` | `EmbeddingService_proofs` |
| `ModelSwitch` | two switches on the same containers | `McpServer_proofs` |
| `SandboxSessions`, `MCSandboxSessions` | the session table | `McpServer_proofs` |
| `MCHostServices` | `EmbeddingService`, `NotificationQueue` and `ToolGateway` on small instances, one after the other | |
| `MCModelSwitch` | `ModelSwitch` and `AuditLogger`, likewise | |
| `MCMemoryAccess` | `RbacCache` and `MemorySync`, likewise | |

Modules that are proved about together have names of their own for what would
clash, as have those that are checked together: `QueueInit`, `QueueNext` and
`QueueSpec` are those of `NotificationQueue`, and likewise `Switch...` of
`ModelSwitch`, `Sandbox...` of `SandboxSessions`, `Recall...` of `MemoryRecall`,
`Memory...` of `MemorySync`, `Cache...` of `RbacCache`, `Tool...` of `ToolServer`
and `Embedding...` of `EmbeddingService`.

Each `await` of a coroutine, each statement of another process and each SMTP
session ends a step, as others run there; in the embedding service, whose
handlers run in threads, each access to a shared variable does. Code between two
awaits is one action. The definitions called *faulty variant*, *mutant* or
*plausible slip* are not part of any specification: each is the mutated form of
the definition after it, and `PROJECT.json` names the property it breaks.

### ApprovalWorkflow

`rows` is the table (status and responder), `call[r]` the place of
the coroutine of request `r` in `RBACMiddleware.dispatch` and
`_wait_for_approval`, `verdict[r]` what the latter returned, `ran` the executed
tools. `job[p]` and `resp[p]` follow one use of an endpoint or command by
responder `p`: look up (`Lookup`), the SELECT of `update_approval_status`
(`CheckPending`), its UPDATE (`Write`), and the log entry and answer
(`Finish`). The handlers differ as in the code: the REST handlers do not look
at the status they read first, `approval_cli.py` has no second SELECT and
takes full ids only, the others find a row by prefix and update it by exact
match. `Cleanup` is a call of `cleanup_expired_approvals`; the task that should
make it every minute is never started (section 6), so it may happen
(`CleanupRuns`) and is never relied on. `Crash` takes the coroutines inside the server and leaves
the rows and the commands. A failing
write is an alternative of each step that writes (`DbMayFail`).

Time is one bit per request: `expires_at` reached or not. The waiter's timeout
begins after the INSERT and is as long, so it only fires later than that.
E-mail is off, as by default; `audit` is the set of entries handed to the
audit logger. Permission checks come before this module's first step.

### ToolGateway

`client[c]` is one use of `call_mcp_tool` (post, wait, poll, post again) and
what it told its user; `call[r]` how far the server got with a post: the
middleware (`Check`), the wait (`Heed`, `TimeOut`, `MarkTimeout`), `call_tool`
(`CallTool`, `Return`). A row is decided in one step, at any time. A server that
dies loses the calls it has not answered; the rows stay. `policy` is fixed: what
the caches think of the tool is `RbacCache`'s concern.

### AuditLogger

`log_tool_call` (`LogToolCall`) puts or drops; the writer's loop is `Take`
(or `GiveUp` after its one-second wait), then `InsertAuditLog` or
`InsertFails`. `StopAsyncWriter` clears the flag and waits for the task
(`Joined`). `lost` and `dropped` record the fates the code only logs.

### RateLimiter and ToolServer

`RateLimiter` is one tool and user. From the rate check to the start of the
execution `call_tool` awaits nothing, so `CallTool` is one step that prunes the
history, refuses or records, and takes a slot; `Return` is the `finally` clause.
`Prunes` states the `popleft` loop without recursion. `admitted` is a history
variable: all times that passed. Time is in whole seconds and only moves forward.

`ToolServer` extends it with what lies behind. Its limiter is that of
`git_commit` and one user; the other tools count on limiters that are not
modelled. A file is the number of the write that made its content, in the
working tree, in the index and in the last commit. Every git process is awaited;
one that writes takes the index lock or fails (`TakeLock`, `GitFails`), `git add`
reads the files when it ends (`Adds`), `git commit` takes what is staged, by
whomever (`Commits`). A file that was not staged yet is untracked: status shows
it, a plain diff does not (`Tracked`). A diff is asked about one file or all, of
the index or the tree; one without a working directory (`"elsewhere"`) reads the
repository at `GIT_DIR_PATH`, which may be another one, and answers anything.
Abstractions: one working tree, `write_text` is atomic, a
caller calls once and again only after it was turned away, the server is not
killed (a killed process leaves `index.lock` behind, and the counts are lost).

### NotificationQueue

`Fill`, `GetTimesOut` and `Process` are the worker's loop; the events of a
batch are processed concurrently, each thread trying SMTP `SmtpAttempts` times
(`AttemptFails`, `Delivered`), after which `RetryOrGiveUp` queues the event
again or drops it. `StopTimesOut` is the cancellation after five seconds: the
threads that had begun go on (`orphans`).

### RbacCache

For one user and one tool. A lookup is a hit, or a miss followed by the read
and, when the coroutine is resumed, the write of the cache. A role, from the
cache or from the database, is only an id: its name is awaited (`RoleHit` or
`CacheRole`, then `NameRole`), and by then the caches may be invalidated. `lastRole` and
`lastGrant` remember when the database last said each thing, so that `age` is
how long the latest answer had been out of date. `Startup` is the startup
handler with its prewarming.

### MemorySync

For one project. `stored` and `row` are the tables `conversations` and
`conversation_embeddings`, `points` the collection in Qdrant. A writer `w` is a
call: of `process_pending_embeddings` (`ProcessPending`, one task per POST to
the memory service, scheduled by `ScheduleEmbedding`), `batch_sync_to_qdrant`
(`BatchSync`) or the maintainer's `sync_to_qdrant` (`SyncToQdrant`).
`retry_failed_syncs` is none: it uploads nothing (section 6). It reads its list (`todo`), and takes what it
has in `hand` through the embedding, the upload and the UPDATE (`Embed`,
`Upload`, `Mark`); what follows when one of them fails differs by kind, as in
the code. `Die` takes all calls of a kind, and the tasks that were scheduled.

Abstractions: the collection exists and loses nothing; Qdrant refuses a null
vector. A writer that finds vectors turned off or no collection has no effect,
so it does not begin. An import that fails has no effect. A request that gets no
answer in its sixty or thirty seconds may have been carried out.

### MemoryRecall

`Importance` and `ExpiresAt` are `calculate_importance_score` and the TTL table.
The command line posts an exchange and saves it itself when nothing good comes
back in ten seconds (`SaveLocally`); the server may still save it
(`ServerSaves`). Whether that is the same project depends on where the two run
(`shared`, `Project`). `saver` says who saved a row. A search asks SQLite, the embedding service and
Qdrant, by the server that has the port. `enabled` and `connected` are
`_vector_enabled` and `_qdrant_client`. Ranking within the hits is left open:
any set of at most `Limit` of them may come back. A point says whether its
payload has the timestamp that vector search reads.

### RagText and RagService

A text is the sequence of the lengths of its sentences, a chunk the sequence of
its words. `Iterations` are those of the loop of `_sliding_chunks`, of which the
k-th begins at the word (k - 1) * `Step`. In `RagService` a coroutine gives way only where it awaits the
embedding service or the language model. `points` has the ids 0, 1, ... of one
collection; a point knows its document, chunk and upload. `sent[c]` counts the
chunks a call has had embedded, `vecs[c]` are the models that did it, as only
the lengths of the vectors matter. `Upload` is the last
batch, the upload and the metadata rows, of which an error leaves out the last
ones (`torn`). One question stands for all. `Restart` loses the coroutines.

### EmbeddingContract and EmbeddingService

The contract knows the model that serves, who waits for an answer, and which
model made its vectors. In the service `step[t]` is where a thread stands,
`lock` who holds `_model_lock`; an exchange assigns the model, its name and its
dimension in three steps (`Exchange`, `Rename`, `Resize`), and a handler reads
them in three (`Compute`, `ReadName`, `ReadDim`). `disturbed` marks a handler
that met an exchange. A load fails at any point (`Fails`) and leaves what it
assigned.

### ModelSwitch

`up`, `healthy` and `model` are the containers; `Begin` is the look at
docker compose, `Answered` the first question to the container with, if needed,
the blocking stop and start, `Check` a round of `_wait_for_health`, `Verify` the
second question. `seen` and `rival` are history variables. A container loads
for any time, may die and is started again.

### SandboxSessions

`sessions` is `SessionManager.sessions`, `calls` what became of each
`execute_code`. `Start` validates or creates the session; `Finish`,
`FinishInViolation` and `TimeOut` end the execution, the second of them charging
the session by its name. `born` numbers the sessions, so that two of the same
name can be told apart. Calls come from the admin API, which makes up a
description of the client, or without one.

## 3. The runs

| Run | Instance | Shows |
|---|---|---|
| `approval` | 1 request, 2 responders of every kind but the v1 API, full and short ids, failing database, 1 crash, a cleanup at any time or never | `ExecutionAuthorised`, `VerdictMatchesRow`, `EveryCallAnswered`; `ImplementsDecision`, the refinement of `ApprovalDecision` |
| `services` | embedding: 2 threads and the loader, 2 models, 2 failing loads; notifications: 3 events, batches of 2, 2 SMTP attempts, 1 retry; tool calls: 1 client, 3 posts, 3 polls, 2 crashes | `LabelledRight`, `ImplementsContract`, `LoaderRecovers`; `GivenUpLast`, `OvertakenOnlyInBatch`, `EveryEventSettled`; `AtMostOnce`, `ToldTheTruth`, `EveryClientTold` |
| `tools` | 3 callers of `git_commit`, 1 of other tools, 2 files, allowance 2 in 1 s, 2 slots, 2 s | `WindowBound`, `ConcurrencyBound`, `RefusalJustified`, `ToldIsDone`, `CommitsAreGuarded` |
| `memory_access` | caches: 2 lookups and the prewarming, TTL 1, latency 1, 1 restart; memory: 2 writers of any kind, 2 conversations, 1 restore | `PermissionsFresh`, `InvalidationWorks`; `SyncedIsIndexed`, `OnlyRestoredForgotten`, `RowsStayGone` |
| `recall` | 1 exchange of the command line, 1 of another caller, 1 search, days 0, 179 and 180, 1 outage, either server, one project or two | `KeptForItsWorth`, `StoredOnceByEach`, `TextHitsSurvive`, `VectorReturns` |
| `rag` | 2 coroutines, 2 documents, 2 models of different dimension, 2 uploads, 1 exchange, 1 restart, TTL 1 | `LatestIsWhole`, `MetadataFollows`, `UsableIsRecent`, `RefusedOnlyAfterExchange` |
| `model_switch` | switch: 2 calls, both layouts, 2 models, 2 health checks; audit: queue of 2, 5 entries | `ReportIsTrue`, `LayoutLostByFailedStart`, `EverySwitchReturns`; `StoredInOrder`, `StopDrains`, `EveryEntrySettled` |
| `sandbox` | 4 calls, 3 names, room for 2 sessions, blocked after 2 violations, timeout 2, 5 ticks | `ViolationsAccounted`, `RefusedByCrowd` |

Four more runs check what the documents say and the code does not do. TLC finds
each violated; section 6 has the quotations, and `PROJECT.json` the findings.

| Run | Claim | What happens |
|---|---|---|
| `approval_cleanup` | `EveryRowDecided`: no request is pending for ever | the server dies with the waiter, comes back (as its specification assumes, to be generous), and nobody cleans up |
| `rag_slices` | `LongOnesAreSliced`: an over-long sentence is sliced again | its words past `MaxChars` are in no chunk |
| `recall_vectors` | `VectorHitsArrive`: what Qdrant finds the caller gets | behind the gateway the payload lacks the timestamp that the search reads |
| `recall_trivial` | `TrivialIsOverdue`: the most trivial exchanges are deleted at once | they score 2 and stay three days |

Three runs check several components that share no state, each on its instance.
TLC is spared the product: one moves only while the others are where they start
(the embedding service, which starts without a model, has loaded one and has
nothing to do) and fairness asks nothing of them there. So every behaviour of
each is checked while the others rest.

Why the bounds are enough. Approval requests only meet in `Cleanup` and in the
one database, so races need one request and two responders besides the waiter,
the cleanup and the status endpoint; the theorems have any number of
requests. One crash loses each waiter at each of its steps; a second would find
the rows in states that the first one already leaves. The v1 API takes the steps
of `approval_admin.py`, inside the server. Clients share nothing but the
server's death, so one is enough; three posts are a call, a repetition after an
approval, and one after that. A queue of two with five entries fills, overflows
and drains with entries before and after the mark of a stop. The limiter's clock
runs over two edges of the window; three commits are one more than slots and
allowance have room for, and meet an add, a look and writes. Of two files one
can be untracked while the other is changed, and a call can be about one of
them; commits that were let in and files that were written are three in all
(`Bounded`), as the limiter's hazards need three commits and the repository's
two files and one commit, or two commits and one file. Three events make
a full batch and one that waits; one retry and two attempts tell the two loops
apart. In `RbacCache` an entry needs TTL + latency + 1 ticks to become older
than allowed, which is how far the clock goes. Two conversations are a list whose
first item fails and whose second does not, and a batch of both. The exchanges
of `recall` are the most trivial ones, so that a wrong score shows first; the
days are the last two of the shortest life an important one may have. In `rag`
one document shrinks when it is edited, the other has a sentence longer than is
kept of one, and a batch is smaller than a document. Two threads and two models
put an exchange between any two reads of a handler. Four calls block a session
by two violations while a third runs in it and a fourth opens it anew.

Symmetry is used only in runs that check no liveness, over requests, callers,
lookups, writers or sessions; no expression chooses among them. Deadlock is not
checked where clients may stop calling or a counter is used up.

Bounds: `MaxCrashes`, `MaxEntries`, `MaxTime`, `MaxClock`, `MaxEvents`, `MaxRestarts`,
`MaxConversations`, `MaxImports`, `MaxWrites`, `MaxUploads`, `MaxReloads`,
`MaxFailures`, `MaxOutages`, `Horizon`, and the sets of clients, requests and
calls.

## 4. Fairness

* Approval: the event loop resumes every coroutine that is ready and
  `expires_at` is reached. Nothing makes a client call, an administrator
  respond, somebody clean up or a dead server come back. Only the refuted claim
  `EveryRowDecided` is given more (`MaintainedSpec`), and fails all the same.
* Gateway: only the client, whose timers fire and whose loop goes on. Nothing
  is asked of the server or of an administrator.
* Audit: the writer and the shutdown handler are resumed. The writer must be
  running; an entry logged with no writer waits for ever, and the property says
  so.
* Notifications: the worker is resumed and each SMTP session ends, as it has a
  timeout.
* Embedding: health checks keep coming (every 30 seconds in the compose file), a
  thread that can run does, loads and probes end, and the lock is not withheld
  from the loader for ever (strong fairness: others may take it in between).
* Model switch: requests have timeouts and sleeps end, so a call that awaits
  something goes on. Nothing is asked of the containers.
* Recall: Qdrant is restarted, and docker asks the gateway for its health every
  30 seconds, which is what turns the vector switch on again.

The other modules state no liveness.

## 5. What is proved

TLAPS proves these for any number of actors, crashes and failures, and any sizes
and limits allowed by the modules' assumptions.

**`Approvals_proofs`, the workflow.** `TypeCorrect`, `DecisionFinality`,
`ExecutionIsAuthorised`, `VerdictIsRow`, `AnswersAlwaysAgree`, `TimeoutsClose`,
`RefusalsAreDecided` and `Refinement`. The properties are not inductive: a tool
that runs was granted by a verdict, which was read from a row, which was written
by a responder with a job. `IInv` states each link: calls that are not idle have
a row (`Called`, `Unsubmitted`, `Submitted`), responders that got past the
lookup found their row (`Found`), the responder named in a row had that job
(`Credited`), an approved row names one (`ApprovedBy`), a granted call's row is
approved (`Granted`), and what is concluded is still in the row (`Concluded`,
`VerdictMatchesRow`). All of it rests on `UpdatePending` leaving decided rows
alone. `TimeoutsClose` and `RefusalsAreDecided` assume that the database does
not fail, the latter also full ids (section 6). `Refinement` maps every step to
a step of `ApprovalDecision` or a stutter.

**The notification queue.** `QueueTypes`, `EventsHaveOneFate`,
`SessionsAreBounded`, `GivenUpAtTheEnd`, `NoOvertaking`. The bound on the
sessions needs an exact account: `Ledger` says that an event that waits has had
`SmtpAttempts` sessions for each of its retries, and one being sent also the
tries of its thread. The account is only true because an event is in one place
(`OnePlace`, with queue and batch free of repetitions, `Distinct`), and that
because no batch is filled while another is being sent (`Life`). That none is
overtaken while it waits rests on `FreshInOrder` and `FreshInBatch`: whatever was
enqueued after an event that was never tried waits behind it, or with it in the
batch. Within a batch, which is mailed concurrently, nothing is promised.

**`ToolGateway_proofs`.** `TypeCorrect`, `RunsAtMostOnce`, `UserToldTheTruth`. A
client posts again only while it polls, and polls only after its request was
answered without having run (`Outstanding`); so all posts but its latest are
over and did not run (`Earlier`), and a reply that wants approval is never one
to a call that ran (`Calls`). The lemmas say what the three kinds of steps do:
one of a call that is neither fresh nor answered (`CallMoves`), one of a client
that keeps its request (`ClientMoves`), and a post (`SendKeeps`).

**`McpServer_proofs`, the audit logger.** `TypeCorrect`, `TrailInOrder`,
`StopsDrained`. The trail is in order because table, hand and queue read one
after the other are: the invariant says that what is stored is smaller than what
is in hand, that than what is queued, and that than what is not logged yet. The
lemmas at the top say what `Append` and `Tail` do to the elements of a sequence.

**The model switch.** `SwitchTypes`, `ReportsAreTrue`, `LayoutStaysKnown`. A
call reports what it was told while it was under way: `Watching` says that such
a call has reported nothing yet and has seen whatever its container serves now;
`Undisputed` that a container which a call restarted has that call's model
unless another one restarted it since, in which case the call has a `rival`. The
layout is lost by a failing start and nothing else (`LayoutKnown`).

**The sandbox.** `SandboxTypes`, `ViolationsFindTheirSession`,
`TurnedAwayByACrowd`. The account of the violations is kept by `Tally`: each
session in the table has exactly as many as calls have charged it, a finite
number (`FinitelyCharged`) below the limit. It only adds up because the session
a running call was let into is still in the table, as it cannot have got stale
while the call runs (`RunsInTime`), unless other calls closed it by their own
violations (`Kept`); a violation that misses its session found it closed
(`Excused`). No session in the table was stale at the last cleanup and there are
no more than fit (`Table`), so a caller that is turned away met a crowd.

**`ToolServer_proofs`, the limiter.** `TypeCorrect`, `WindowIsBounded`,
`SlotsAreBounded`, `RefusalsAreJustified`. No window of any position sees more
requests pass than allowed, although the limiter only looks at the window that
ends now: the history is a suffix of all admitted requests (`HistoryIsSuffix`),
those cut off are stale (`DroppedAreStale`), times are ordered (`Ordered`), and
the length never exceeds the allowance. So any stretch of that many requests and
one more began before the window. A refusal is justified because the entries
that are not stale are exactly the end of the history, so that their number,
which the usage endpoint reports, can be counted off against the allowance.

**The tools behind it.** `LimitsHoldForTools`, `ToldIsTrue`,
`CommitsStayGuarded`. The tools drive the limiter by its own steps (lemma
`ToolsUseTheLimiter`), so its theorems hold for them too. What a caller is told
stays true because the versions of a file only grow in tree, index and commit,
each behind the one before (`Repository`): `CallsAreHonest` says that what a
call set out to carry has got as far as the call has. `Guarded` ties each commit
under way to a slot of the limiter and to a caller the rules admit.

**`RbacCache_proofs`.** `TypeCorrect`, `AnswersAreFresh`,
`InvalidationIsEffective`, under `CalmPrewarming`. The second is about lookups
that begin after the invalidation: one that read the cached role before it, and
awaits the role's name, answers as before. An answer is as good as the
entry it came from, that as what the coroutine that wrote it held, and that as
the moment it was read: `HeldTrue`, `PrewarmedRole`, `EntryTrue` and `RoleTrue`
bound the age of each link by `MaxLatency` and the lifetime of an entry, and
rest on `Clock`, that the history of what was true never runs ahead of time.

**`Memory_proofs`, the vectors.** `TypeCorrect`, `SyncedRowsAreIndexed`,
`NoOrphans`, `ForgottenWereRestored`, `DeletedRowsStayGone`. What makes "synced"
true is not in the row but in the writer: `Uploaded` says that whoever is about
to mark has uploaded all that is in its hand. The lemmas on `Become`, `Proceed`
and `Advance` show that no other step of a writer disturbs this, and `Updating`
that an UPDATE neither makes a row nor loses one; from the latter come the
statements about deleted rows.

**Keeping and finding.** `RecallTypes`, `ScoresOfMarks`, `WorthIsKept`,
`CopiesOfAnExchange`, `TextHitsAreKept`, `NothingByMeaning`. That nothing is
deleted before its time is arithmetic: a mark outweighs all that can speak
against it (`ScoresOfMarks`), no row of the TTL table is shorter than what a
score promises, and a stored conversation has the date that follows from its own
score (`WorthItsDays`). One copy by each, because whoever still may save an
exchange has not done so (`SavedBy`); counted by exchange and saver, the rows are
therefore never more than `MaxRows` (`RowsFit`). Text hits survive whatever
happens to the vector side. `NothingByMeaning` says why the run `recall_vectors`
is no accident: behind the gateway no payload has a timestamp (`NothingTimed`),
so vector search adds nothing, whatever the exchanges and the searches are.

**`RagService_proofs`.** `TypeCorrect`, `MetadataIsFollowed`, `CacheIsRecent`,
`DimensionFitsUntilExchange`, `ChunksHoldEveryWord`, `LatestUploadIsWhole`.
Metadata, cache and dimension need the numbers of uploads in order (`Followed`),
an account of when pending answers were searched (`Recent`), and that whoever
awaits vectors has a collection of their length (`Fitting`).
`ChunksHoldEveryWord` is about texts of any length: every iteration of the loop
begins no later than the one before ends, and the last one reaches the end, if
`ChunkSize` is at least the least size of a chunk, as it is by default (512, and
8); below it words are lost (section 6). The iterations are a set of numbers
with a greatest member, and `FlattenSeq` is a recursive function, so both need
induction. The library's induction theorem takes an operator and cannot be used;
`WFMin`, that a well-founded relation has minimal elements, takes a set, and
from it follow the least number of a set (`LeastNumber`) and induction over sets
of numbers (`Induction`). `LatestUploadIsWhole` puts the pieces together: what
is read is a text of its document (`ReadingTyped`), the payloads hold every
chunk of such a text (`PayloadsComplete`), an upload leaves them where their ids
say (`Overlaid`), and what it does not write over comes from earlier uploads
(`PointsTyped`).

**`EmbeddingService_proofs`.** `TypeCorrect`, `QuietlyAgreed`,
`AnswersLabelledRight`, `Refinement`. The model, its name and its dimension
belong together except while a thread is halfway through an exchange
(`Agreement`); only the holder of the lock can be there (`Held`), and what a
thread was asked for tells where it can be (`Kinds`). A handler that no exchange
disturbed would read now what it has read so far (`Undisturbed`), and one past
`_ensure_model` has a model to use, as none is ever unloaded (`Readers`).
`Refinement` needs the last: vectors are made by a model that serves, and once
for an answer.

Every safety and action property that a run checks is stated by one of these
theorems. Assumptions beyond those on the constants: `CalmPrewarming` for the
two of `RbacCache`, a database that does not fail and full ids for
`TimeoutsClose` and `RefusalsAreDecided`, `ChunkSize >= MinSize` for
`ChunksHoldEveryWord` and `LatestUploadIsWhole`. The theorems are about the
specifications without fairness, and the bounds in the guards may have any
value.

Only model-checked: liveness under fairness, which is out of the prover's reach
(`EveryCallAnswered`, `EveryClientTold`, `EveryEntrySettled`,
`EveryEventSettled`, `VectorReturns`, `LoaderRecovers`, `EverySwitchReturns`).

## 6. Seen while reading

Facts about the code that the models contain or leave aside; where a document
says otherwise it is named. The four that a run shows are marked with its name.

Approval and server:

* `update_approval_status` answers True after an UPDATE that changed no row, so
  the loser of a race is told that it succeeded (`mcp/security_database.py:646`,
  `scripts/approval_cli.py:75`).
* A request found by its short id is refused by the exact-match update
  (`mcp/security_database.py:623`), so `approval_admin.py approve 1a2b3c4d` never
  succeeds (`docs/security/APPROVAL_GUIDE.md:17` uses short ids), and its audit
  entry goes to a queue that has no writer (`APPROVAL_GUIDE.md:15`).
* Nobody compares `expires_at` when approving (`mcp/security_database.py:640`);
  a waiter that times out reports "timeout" without looking whether its UPDATE
  marked the row (`mcp/rbac_manager.py:320`); the status endpoint calls an
  overdue row expired that may be approved later (`mcp/app.py:696`), and each
  such poll enqueues another mail (`:709`); `APPROVAL_MAX_PENDING` is read by
  nobody.
* `startup_event` (`mcp/app.py:341`) uses `get_security_database`, which is only
  imported inside other functions: with RBAC on, startup ends with a NameError,
  raised again at `:346`. `approval_cleanup_task` would be created at `:370`, and
  nothing else calls the cleanup, so a request whose waiter died stays pending
  (run `approval_cleanup`), although `docs/progress/v1/ri_8.md:1093` lists
  "Background Cleanup - Automatic expired request cleanup", which "runs every 60
  seconds", and `:1102` "Timeout protection (prevents indefinite pending)". A
  host that insists on the startup event does not come up with RBAC on at all;
  the modules are about one that goes on without it.
* `get_user_role` reads the cached role id and awaits its name
  (`mcp/rbac_manager.py:107`, `:108`): an invalidation in between is not heeded by
  that answer. The role cache has no TTL and `update_user_role` invalidates nothing
  (`mcp/rbac_manager.py:106`), although `docs/security/architecture.md:435` says
  so. Permission is checked before a wait of up to five minutes and not again.
* Prewarming reads role and permissions in two queries and can cache a
  permission that was never granted, which is why `memory_access` holds the database
  still between the two (`CalmPrewarming`). `PermissionsFresh` also assumes that
  a coroutine is resumed within `MaxLatency` of its read.
* A full audit queue drops the newest entry, not the oldest as
  `docs/security/architecture.md:443` says; the middleware logs "success" for
  calls the limiter refused.
* An event is tried in up to twelve SMTP sessions (`mcp/notifications/email.py:75`
  inside `queue.py:153`) where `docs/ops/NOTIFICATION_GUIDE.md:16` says three
  retries; a session that fails after the mail went out is repeated.
* A caller that waits as long as the rate limiter tells it is one second early
  (`mcp/rate_limiter.py:109` and `:117`). `time.time()` may step back (`:103`),
  which `RateLimiter` excludes. A tool missing in the table counts as a medium
  one (`:303`).
* `security_admin.py`'s approval endpoints use relative imports and answer 500
  in the flat layout in which the server is started.

Tools and sandbox:

* `git_commit` with nothing staged answers that git failed without a reason, as
  git says so on stdout; `git_add` splits its paths at blanks.
* `git_diff` without a working directory reads the repository at `GIT_DIR_PATH`
  (`.git-main`, `mcp/app.py:1262`), the other tools that of the current
  directory; and a plain diff answers "변경사항 없음" (no changes) while files
  that were never staged are there.
* With two inference containers, as `docker/compose.p3.yml` runs them, the branch
  of `switch_model` for one container is never taken; a container whose start
  failed is not brought back by any later switch.
* A blocked sandbox session is deleted and created anew by the next admin call.
  The docker client that is killed on a timeout does not stop its container, and
  `SafeCommandExecutor` does not kill its process, so processes may outnumber
  the executions that are counted. `SecureExecutionEnvironment` calls the
  sandbox without `client_info`; in the flat layout its relative import fails
  and the older path blocks the event loop.

Memory:

* The cleanup endpoints enforce foreign keys, delete conversations before the
  rows that refer to them, and so delete nothing as soon as one expired
  conversation has a row (`scripts/memory_system.py:1194`), while the
  maintainer's connection does not enforce them. `expires_at` is written with a
  blank and compared with a "T", so a conversation expires at the beginning of
  its last day. Greetings and tests are not "즉시삭제, 0일" (deleted at once, 0 days;
  `docs/MEMORY_SYSTEM.md:131`, `scripts/memory_system.py:73`): the lowest score
  there is is 2, which stays three days, and a 1 would never expire (`:538`; run
  `recall_trivial`).
* `retry_failed_syncs` uses `requests`, which only `batch_sync_to_qdrant` imports
  (`scripts/memory_system.py:1306`): every item ends in a NameError (`:1435`) that
  is counted and forgotten. `docs/MEMORY_SYSTEM_GUIDE.md:383` and `:391` expect the
  retry to work. Nothing else takes up a row again unless somebody posts, so a
  row may stay pending or failed for ever, and no property says otherwise.
* The maintainer sends the null vectors of conversations that were never
  embedded, together with good ones, and the batch is refused
  (`scripts/memory_maintainer.py:251`); `docs/MEMORY_SYSTEM_GUIDE.md:410` says
  pending ones are synchronised automatically. The retry after fifteen minutes
  (`docs/MEMORY_SYSTEM_GUIDE.md:393`) is never scheduled, as `sync_to_qdrant`
  catches its own errors (`scripts/memory_maintainer.py:360`).
* A failing `rebuild_fts_index` rolls back the import that called it, which then
  reports success (`scripts/memory_system.py:1181`). Points of deleted
  conversations stay in Qdrant.
* Vector search behind the gateway finds nothing, because the payloads of its
  writers lack the timestamp it reads (`scripts/memory_system.py:888`, run
  `recall_vectors`, theorem `NothingByMeaning`), while
  `docs/MEMORY_SYSTEM_GUIDE.md:412-427` expects "의미적 유사성 기반 결과" (results
  by similarity of meaning) and `docs/MEMORY_SYSTEM.md:15` lists the search; while
  the switch is off it answers with success and nothing, where the memory service falls back
  to text but never turns its switch on again. Hybrid search ignores
  `importance_min` and the offset; text ranking puts better matches last.
* The command line's local fallback saves into a project the server's search
  does not see, unless both run outside of containers or have the same
  `DEFAULT_PROJECT_ID` (`scripts/memory_system.py:151-169`); then an exchange that
  was answered too late is there twice. Two processes that find no `project.json` make up two ids
  (`scripts/memory_system.py:172`), and a collection is named by eight characters
  of one. `ai.py` speaks the gateway's API and the desktop client that of the
  memory service, both on port 8005.

RAG: the docstring of `_split_sentences_ko` (`services/rag/app.py:119-121`) says
"너무 길면 다시 고정폭 슬라이스" (if too long, sliced again at a fixed width); the code
keeps the first 400 characters only (`:130`, run `rag_slices`), and
`LatestIsWhole` speaks of what is kept;
a `RAG_CHUNK_SIZE` below 8 makes the step larger than a chunk, so words are
skipped (`RagText` takes both as they are). `expires_at` is local time compared
with UTC.

## 7. Not modelled

* Path and command validation, settings and API keys: pure functions.
* Web, Notion, chat and execution tools: one sequence of requests each, and no
  state of their own.
* Containers, interpreters, SMTP, Qdrant and docker themselves: their answers are
  choices in the modules that call them.
* Dashboards, statistics, analytics, benchmarks, one-off scripts, desktop
  windows: no state that anything else reads.
* The order in which `startup_event` brings the parts up: one sequence, and with
  RBAC on it does not get through (section 6).
* A composition of approval, notification and audit: the workflow only hands
  entries and events over and looks at neither queue again, so nothing follows
  from putting the three together that the modules do not show apart.

Left for later: as theorems, that `KeptWords` keeps the words of a text in their
order, and that each chunk begins within the one before it.
