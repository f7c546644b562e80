------------------------------ MODULE ToolServer ------------------------------
(***************************************************************************)
(* The file and git tools of the MCP server (services/mcp-server/app.py)   *)
(* behind its limiter and access control (rate_limiter.py).                *)
(*                                                                         *)
(* The limiter of RateLimiter is that of git_commit and one user; what the *)
(* Others do (write_file, git_add, git_status, git_diff, git_log) counts   *)
(* on other limiters and only meets the commits in the repository.  Every  *)
(* git process is awaited, so those of several calls run side by side and  *)
(* meet at the lock of git's index: the process that finds it taken fails. *)
(*                                                                         *)
(* The repository is one working tree with a few files; a file is known by *)
(* the number of the write that made its content, a file that is not there *)
(* (not staged, not committed) by 0.  The server is not killed here: a     *)
(* process killed while it holds the lock leaves it behind, and the        *)
(* limiter's counts are lost.                                              *)
(***************************************************************************)
EXTENDS RateLimiter

CONSTANTS
    Others,             \* callers of the other tools
    Files,              \* the files of the working tree
    MaxWrites,          \* bound on the writes of the module's behaviours
    Free                \* the lock's holder when there is none

Agents == Callers \cup Others

ASSUME AgentsAssumption == Callers \cap Others = {} /\ Free \notin Agents

VARIABLES
    mode,       \* SECURITY_MODE
    user,       \* the user whose git_commit calls the limiter counts
    tree,       \* tree[f]: the version of f in the working tree
    index,      \* index[f]: the version staged
    head,       \* head[f]: the version in the last commit
    lock,       \* who holds index.lock
    call        \* call[a]: how far the call of a is

git  == <<tree, index, head>>
repo == <<git, lock>>
toolVars == <<vars, mode, user, repo, call>>

-----------------------------------------------------------------------------
(* Access control.                                                         *)

Sensitivity ==
    [t \in {"git_status", "git_log", "git_diff", "read_file",
            "write_file", "git_add", "git_commit"} |->
        CASE t = "write_file" -> "medium"
          [] t = "git_add"    -> "high"
          [] t = "git_commit" -> "critical"
          [] OTHER            -> "low"]

\* Faulty variant: the tool is missing in the table and taken for a medium one.
SensitivityForgotten(t) == IF t \in DOMAIN Sensitivity \ {"git_commit"} THEN Sensitivity[t]
                                                                        ELSE "medium"

SensitivityOf(t) == IF t \in DOMAIN Sensitivity THEN Sensitivity[t] ELSE "medium"

Everyone == {"admin", "guest"}

\* The rule of a level.  No rule has denied_users.
AllowedUsers(m, level) == IF m = "production" /\ level = "critical" THEN {"admin"} ELSE Everyone

MaxConcurrentOf(level) == CASE level = "low"      -> 20
                            [] level = "medium"   -> 10
                            [] level = "high"     -> 5
                            [] level = "critical" -> 2

CheckAccess(m, t, u) == u \in AllowedUsers(m, SensitivityOf(t))

\* start_execution asks the access control for the limit of the tool.
ASSUME LimitOfCommits == MaxConcurrent = MaxConcurrentOf("critical")

-----------------------------------------------------------------------------
(* A call: what it asks for, the files it is to stage, the versions there  *)
(* were when it began and what it is told.                                 *)

Idle == [at |-> "idle", asks |-> "", files |-> {}, seen |-> [f \in Files |-> 0], told |-> ""]

Asked(asks, at, files, store) ==
    [at |-> at, asks |-> asks, files |-> files,
     seen |-> [f \in Files |-> IF f \in files THEN store[f] ELSE 0], told |-> ""]

ToolInit ==
    /\ Init
    /\ mode \in {"development", "production"}
    /\ user \in Everyone
    /\ permitted = CheckAccess(mode, "git_commit", user)
    /\ tree = [f \in Files |-> 0] /\ index = tree /\ head = tree
    /\ lock = Free
    /\ call = [a \in Agents |-> Idle]

Told(said) == [Idle EXCEPT !.at = "told", !.told = said]

Tell(a, said) ==
    call' = [call EXCEPT ![a] = IF said \in {"failed", "output"} THEN Told(said)
                                ELSE [@ EXCEPT !.at = "told", !.told = said]]

Becomes(a, at) == call' = [call EXCEPT ![a].at = at]

\* A caller is a use of the tool: it calls once, and again as long as it is turned away.
Calls(c) == answer[c] \notin {"success", "error"}

\* call_tool for git_commit and, once it is let in, git_commit up to its first process.
\* A blank message is refused, a working directory that cannot be resolved raises.
BeginCommit(c) ==
    /\ Calls(c)
    /\ CallTool(c)
    /\ IF c \in executing'
       THEN \/ \E addAll \in BOOLEAN :
                  call' = [call EXCEPT ![c] =
                      IF addAll THEN Asked("commit", "adds", Files, tree)
                                ELSE [Idle EXCEPT !.asks = "commit", !.at = "commits"]]
            \/ \E said \in {"failed", "raised"} :
                  call' = [call EXCEPT ![c] = Told(said)]
       ELSE UNCHANGED call
    /\ UNCHANGED <<mode, user, repo>>

\* The call returns: only an exception outside the tool's own try is an error.
FinishCommit(c) ==
    /\ call[c].at = "told"
    /\ Return(c)
    /\ answer'[c] = IF call[c].told = "raised" THEN "error" ELSE "success"
    /\ call' = [call EXCEPT ![c] = Idle]
    /\ UNCHANGED <<mode, user, repo>>

\* SafeFileAPI.write_text; when it raises nothing has changed.
WriteText(f) == tree' = [tree EXCEPT ![f] = @ + 1]

\* write_file awaits nothing.
Write(f) ==
    /\ tree[f] < MaxWrites
    /\ CheckAccess(mode, "write_file", "guest")
    /\ WriteText(f)
    /\ UNCHANGED <<vars, mode, user, index, head, lock, call>>

\* git_add of some paths; no paths at all means ".".
BeginAdd(a) ==
    /\ call[a].at = "idle"
    /\ CheckAccess(mode, "git_add", "guest")
    /\ \E files \in SUBSET Files :
          call' = [call EXCEPT ![a] =
              Asked("add", "adds", IF files = {} THEN Files ELSE files, tree)]
    /\ UNCHANGED <<vars, mode, user, repo>>

Look(a, asks, files, store) ==
    /\ call[a].at = "idle"
    /\ call' = [call EXCEPT ![a] = Asked(asks, "looks", files, store)]
    /\ UNCHANGED <<vars, mode, user, repo>>

BeginStatus(a) == Look(a, "status", Files, tree)

\* git_diff of one file or all: against the index or, staged, of the index against the
\* last commit.  Without a working directory it reads the repository at GIT_DIR_PATH,
\* which may be this one or, in a worktree, another than the other tools work on.
BeginDiff(a) ==
    \/ \E files \in {Files} \cup {{f} : f \in Files} :
           Look(a, "diff", files, tree) \/ Look(a, "cached", files, index)
    \/ Look(a, "elsewhere", {}, tree)

BeginLog(a) == Look(a, "log", {}, head)

FinishOther(a) ==
    /\ call[a].at = "told"
    /\ call' = [call EXCEPT ![a] = Idle]
    /\ UNCHANGED <<vars, mode, user, repo>>

-----------------------------------------------------------------------------
(* The git processes and what the tools make of how they end.              *)

TakeLock(a) ==
    /\ call[a].at \in {"adds", "commits"}
    /\ lock = Free
    /\ lock' = a
    /\ UNCHANGED <<git, call>>

Unlock(a) == lock' = IF lock = a THEN Free ELSE lock

\* Faulty variant: a commit goes on after its git add has failed.
GitFailsIgnored(a) ==
    /\ call[a].at \in {"adds", "commits", "looks"}
    /\ Unlock(a)
    /\ IF call[a].at = "adds" /\ call[a].asks = "commit" THEN Becomes(a, "commits")
                                                         ELSE Tell(a, "failed")
    /\ UNCHANGED git

\* A process ends with another code than 0: because the lock is taken (it tries but
\* once) or for reasons of its own.  The tool says so, git_commit that its add failed.
GitFails(a) ==
    /\ call[a].at \in {"adds", "commits", "looks"}
    /\ Unlock(a)
    /\ Tell(a, "failed")
    /\ UNCHANGED git

\* git add ends well: git_add is done, git_commit goes on to its commit.  A path that is
\* not there makes git fail; all of them stand for ".", which is always there.
Adds(a) ==
    /\ call[a].at = "adds"
    /\ call[a].files = Files \/ \A f \in call[a].files : tree[f] # 0
    /\ lock = a
    /\ index' = [f \in Files |-> IF f \in call[a].files THEN tree[f] ELSE index[f]]
    /\ lock' = Free
    /\ IF call[a].asks = "add" THEN Tell(a, "staged") ELSE Becomes(a, "commits")
    /\ UNCHANGED <<tree, head>>

\* git commit commits what is staged, by whomever; with nothing staged it ends with 1,
\* and says so where git_commit does not look (standard output).
Commits(a) ==
    /\ call[a].at = "commits"
    /\ lock = a
    /\ head' = index
    /\ lock' = Free
    /\ Tell(a, IF index = head THEN "nothing" ELSE "committed")
    /\ UNCHANGED <<tree, index>>

\* What the processes that only read find: no line of status; no difference between the
\* index and the last commit, or between the working tree and the index, where a plain
\* diff passes over the files that were never staged.
Clean == tree = index /\ index = head

Tracked == {f \in Files : index[f] # 0}

NoDifference(files, staged) ==
    IF staged THEN \A f \in files : index[f] = head[f]
              ELSE \A f \in files \cap Tracked : tree[f] = index[f]

\* "No change" speaks of the files asked about, from a plain diff of the tracked ones
\* among them; what another repository answers is anything.
Looks(a) ==
    /\ call[a].at = "looks"
    /\ LET c == call[a]
       IN  \E said \in {"no change", "output"} :
              /\ c.asks = "status" => (said = "no change" <=> Clean)
              /\ c.asks = "diff"   => (said = "no change" <=> NoDifference(c.files, FALSE))
              /\ c.asks = "cached" => (said = "no change" <=> NoDifference(c.files, TRUE))
              /\ c.asks = "log"    => said = "output"
              /\ call' = [call EXCEPT ![a] =
                     IF said = "output" THEN Told(said)
                     ELSE [c EXCEPT !.at = "told", !.told = said,
                                    !.files = IF c.asks = "diff" THEN @ \cap Tracked ELSE @]]
    /\ UNCHANGED repo

GitStep(a) ==
    /\ TakeLock(a) \/ GitFails(a) \/ Adds(a) \/ Commits(a) \/ Looks(a)
    /\ UNCHANGED <<vars, mode, user>>

ClockTicks == Tick /\ UNCHANGED <<mode, user, repo, call>>

ToolNext ==
    \/ ClockTicks
    \/ \E c \in Callers : BeginCommit(c) \/ FinishCommit(c)
    \/ \E a \in Others : BeginAdd(a) \/ BeginStatus(a) \/ BeginDiff(a) \/ BeginLog(a) \/ FinishOther(a)
    \/ \E f \in Files : Write(f)
    \/ \E a \in Agents : GitStep(a)

ToolSpec == ToolInit /\ [][ToolNext]_toolVars

-----------------------------------------------------------------------------
(* Properties.                                                             *)

AtLeast(store, a) == \A f \in call[a].files : store[f] >= call[a].seen[f]

\* What a caller is told holds of everything written before it called, whoever's commit
\* carried it: staged is in the index; committed, or nothing left to commit, after a
\* commit that stages all, is in the last commit.  What a status reports as unchanged is
\* in the last commit; of the files a diff was asked about and shows nothing, --cached
\* has in the last commit what was staged, and a plain one has in the index what was
\* written, but only to the tracked files, and only if it read this repository.
ToldIsDone ==
    \A a \in Agents :
        LET told == call[a].told
            asks == call[a].asks
        IN  /\ told = "staged" => AtLeast(index, a)
            /\ told \in {"committed", "nothing"} => AtLeast(head, a)
            /\ told = "no change" => AtLeast(IF asks = "diff" THEN index ELSE head, a)

\* In production nobody but the administrator commits, and whoever commits, at most
\* MaxConcurrent of the user's commits are under way, whatever the limiter was told.
CommitsAreGuarded ==
    LET underWay == {c \in Callers : call[c].at # "idle"}
    IN  /\ underWay = executing
        /\ mode = "production" /\ user # "admin" => underWay = {} /\ head = [f \in Files |-> 0]
===============================================================================
