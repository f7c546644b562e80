------------------------------ MODULE RbacCache ------------------------------
(***************************************************************************)
(* The caches of the RBAC manager (services/mcp-server/rbac_manager.py) in *)
(* front of the security database: one of permissions, whose entries live  *)
(* for cache_ttl seconds, and one of roles, whose entries live for ever.   *)
(*                                                                         *)
(* The caches keep users and tools apart, so the module is about one user  *)
(* and one tool: `role' and `allowing' are what the database says of them. *)
(* Administrators change the database behind the server's back.  A lookup  *)
(* reads the database and, once its coroutine is resumed, writes the cache *)
(* -- by then the database may say something else.  A cached role is only  *)
(* an id: its name is awaited from the database, and the caches may be     *)
(* invalidated before the lookup answers.                                  *)
(***************************************************************************)
EXTENDS Integers, FiniteSets

CONSTANTS
    Lookups,            \* coroutines of requests that look something up
    Startup,            \* the startup handler, which prewarms the caches
    Roles,              \* security_roles
    NoRole,             \* the user is not there, or not active
    NoEntry,            \* nothing is cached
    Ttl,                \* cache_ttl
    MaxLatency,         \* longest time from a read of the database to its coroutine's resumption
    CalmPrewarming,     \* whether the database waits for the prewarming's second query
    MaxRestarts,        \* bound on the restarts of the server
    MaxClock            \* bound on the time the module looks at

ASSUME CacheAssumption ==
    /\ Startup \notin Lookups
    /\ NoRole \notin Roles
    /\ NoEntry \notin Roles
    /\ NoEntry \notin [allowed : BOOLEAN, at : Nat]
    /\ Ttl \in Nat
    /\ MaxLatency \in Nat
    /\ CalmPrewarming \in BOOLEAN
    /\ MaxRestarts \in Nat
    /\ MaxClock \in Nat

VARIABLES
    clock,          \* time.time()
    role,           \* role of the user in security_users
    allowing,       \* the roles security_role_permissions grants the tool
    lastRole,       \* lastRole[r]: when the database last had the user in role r
    lastGrant,      \* lastGrant[v]: when it last granted (TRUE), denied (FALSE) the tool
    permission,     \* _permission_cache: [allowed, at] or NoEntry
    roleCache,      \* _role_cache: a role or NoEntry
    step,           \* step[c]: where coroutine c stands
    got,            \* got[c]: what it read
    since,          \* since[c]: when it read it
    heeded,         \* heeded[c]: the latest invalidation before its lookup began
    about,          \* what the latest step answered: "permission" | "role" | "none"
    age,            \* how long that answer had been out of date
    before,         \* how long before the invalidation its lookup heeded it had been
    invalidated,    \* when the user's entries were last invalidated
    restarts        \* how often the server was restarted

database == <<role, allowing, lastRole, lastGrant>>
caches == <<permission, roleCache>>
coroutines == <<step, got, since, heeded>>
cacheVars == <<clock, role, allowing, lastRole, lastGrant, permission, roleCache, step, got,
               since, heeded, about, age, before, invalidated, restarts>>

Coroutines == Lookups \cup {Startup}
UserRoles == Roles \cup {NoRole}
Steps == {"idle", "asking", "holding", "askingRole", "holdingRole", "naming",
          "askingUser", "holdingUser", "holdingGrants"}
Holding == {"holding", "holdingRole", "holdingUser", "holdingGrants"}

\* The first moment: all that was before is further back than any bound.
Start == Ttl + MaxLatency + 1
Times == 0..Start + MaxClock

CacheTypeOK ==
    /\ clock \in Start..Start + MaxClock
    /\ role \in UserRoles
    /\ allowing \subseteq Roles
    /\ lastRole \in [UserRoles -> Times]
    /\ lastGrant \in [BOOLEAN -> Times]
    /\ permission \in [allowed : BOOLEAN, at : Times] \cup {NoEntry}
    /\ roleCache \in Roles \cup {NoEntry}
    /\ step \in [Coroutines -> Steps]
    /\ got \in [Coroutines -> UserRoles \cup BOOLEAN]
    /\ since \in [Coroutines -> Times]
    /\ heeded \in [Coroutines -> Times]
    /\ about \in {"permission", "role", "none"}
    /\ age \in Times
    /\ before \in Times
    /\ invalidated \in Times
    /\ restarts \in 0..MaxRestarts

\* v_user_permissions.
Granted == role \in allowing

CacheInit ==
    /\ clock = Start
    /\ role \in UserRoles
    /\ allowing \in SUBSET Roles
    /\ lastRole = [r \in UserRoles |-> IF r = role THEN Start ELSE 0]
    /\ lastGrant = [v \in BOOLEAN |-> IF v = Granted THEN Start ELSE 0]
    /\ permission = NoEntry
    /\ roleCache = NoEntry
    /\ step = [c \in Coroutines |-> IF c = Startup THEN "askingRole" ELSE "idle"]
    /\ got = [c \in Coroutines |-> NoRole]
    /\ since = [c \in Coroutines |-> 0]
    /\ heeded = [c \in Coroutines |-> 0]
    /\ about = "none"
    /\ age = 0
    /\ before = 0
    /\ invalidated = 0
    /\ restarts = 0

-----------------------------------------------------------------------------
(* Time and the database.                                                  *)

\* A step gives an answer that was last true at time t, to a lookup that began after
\* the invalidation at time h; or none.
Answer(subject, t, h) ==
    /\ about' = subject
    /\ age' = clock - t
    /\ before' = IF t < h THEN h - t ELSE 0
Silent == about' = "none" /\ age' = 0 /\ before' = 0

\* No coroutine is kept waiting for longer than MaxLatency with what it read.
TimePasses ==
    /\ clock < Start + MaxClock
    /\ \A c \in Coroutines : step[c] \in Holding => clock < since[c] + MaxLatency
    /\ clock' = clock + 1
    /\ lastRole' = [lastRole EXCEPT ![role] = clock + 1]
    /\ lastGrant' = [lastGrant EXCEPT ![Granted] = clock + 1]
    /\ Silent
    /\ UNCHANGED <<role, allowing, caches, coroutines, invalidated, restarts>>

\* The database does not change between the two queries of the prewarming.
MayChange == CalmPrewarming => step[Startup] # "holdingUser"

Record == /\ lastRole' = [lastRole EXCEPT ![role'] = clock]
          /\ lastGrant' = [lastGrant EXCEPT ![role' \in allowing'] = clock]

\* create_user, update_user_role, or the user is deactivated.
UpdateUserRole ==
    /\ MayChange
    /\ role' \in UserRoles \ {role}
    /\ UNCHANGED allowing
    /\ Record
    /\ Silent
    /\ UNCHANGED <<clock, caches, coroutines, invalidated, restarts>>

\* A role is given the permission or loses it.
ChangePermissions ==
    /\ MayChange
    /\ \E r \in Roles : allowing' = IF r \in allowing THEN allowing \ {r} ELSE allowing \cup {r}
    /\ UNCHANGED role
    /\ Record
    /\ Silent
    /\ UNCHANGED <<clock, caches, coroutines, invalidated, restarts>>

-----------------------------------------------------------------------------
(* check_permission.                                                       *)

Serving == step[Startup] = "idle"

\* _get_from_cache finds an entry that has not expired.
Fresh == permission # NoEntry /\ clock - permission.at <= Ttl

Hit(c) ==
    /\ Serving
    /\ step[c] = "idle"
    /\ Fresh
    /\ Answer("permission", lastGrant[permission.allowed], invalidated)
    /\ UNCHANGED <<clock, database, caches, coroutines, invalidated, restarts>>

\* An expired entry is deleted; the database is asked.
Miss(c) ==
    /\ Serving
    /\ step[c] = "idle"
    /\ ~Fresh
    /\ permission' = NoEntry
    /\ step' = [step EXCEPT ![c] = "asking"]
    /\ heeded' = [heeded EXCEPT ![c] = invalidated]
    /\ Silent
    /\ UNCHANGED <<clock, database, roleCache, got, since, invalidated, restarts>>

\* Coroutine c is done with what it read, and stands at the next step.
Leave(c, next) ==
    /\ got' = [got EXCEPT ![c] = NoRole]
    /\ since' = [since EXCEPT ![c] = 0]
    /\ heeded' = [heeded EXCEPT ![c] = 0]
    /\ step' = [step EXCEPT ![c] = next]

\* Coroutine c gets value v from the database.
Read(c, v, next) ==
    /\ got' = [got EXCEPT ![c] = v]
    /\ since' = [since EXCEPT ![c] = clock]
    /\ step' = [step EXCEPT ![c] = next]
    /\ UNCHANGED heeded

QueryPermission(c) ==
    /\ step[c] = "asking"
    /\ Read(c, Granted, "holding")
    /\ Silent
    /\ UNCHANGED <<clock, database, caches, invalidated, restarts>>

\* Faulty variant: an entry that was added meanwhile is taken to be confirmed.
AddOrRenew(c) ==
    /\ step[c] = "holding"
    /\ permission' = [allowed |-> IF permission = NoEntry THEN got[c] ELSE permission.allowed,
                      at |-> clock]
    /\ Answer("permission", lastGrant[got[c]], heeded[c])
    /\ Leave(c, "idle")
    /\ UNCHANGED <<clock, database, roleCache, invalidated, restarts>>

\* _add_to_cache, and the answer.
AddToCache(c) ==
    /\ step[c] = "holding"
    /\ permission' = [allowed |-> got[c], at |-> clock]
    /\ Answer("permission", lastGrant[got[c]], heeded[c])
    /\ Leave(c, "idle")
    /\ UNCHANGED <<clock, database, roleCache, invalidated, restarts>>

-----------------------------------------------------------------------------
(* get_user_role, with which the administrators' endpoints admit callers.  *)

\* The cached id is read, and the name of the role awaited from the database.
RoleHit(c) ==
    /\ Serving
    /\ step[c] = "idle"
    /\ roleCache # NoEntry
    /\ got' = [got EXCEPT ![c] = roleCache]
    /\ step' = [step EXCEPT ![c] = "naming"]
    /\ heeded' = [heeded EXCEPT ![c] = invalidated]
    /\ Silent
    /\ UNCHANGED <<clock, database, caches, since, invalidated, restarts>>

RoleMiss(c) ==
    /\ Serving
    /\ step[c] = "idle"
    /\ roleCache = NoEntry
    /\ step' = [step EXCEPT ![c] = "askingRole"]
    /\ heeded' = [heeded EXCEPT ![c] = invalidated]
    /\ Silent
    /\ UNCHANGED <<clock, database, caches, got, since, invalidated, restarts>>

QueryUser(c) ==
    /\ step[c] = "askingRole"
    /\ Read(c, role, "holdingRole")
    /\ Silent
    /\ UNCHANGED <<clock, database, caches, invalidated, restarts>>

\* What get_user_role returns, to whom it may concern: the startup handler drops it.
TellRole(c) ==
    IF c = Startup
    THEN Leave(c, "askingUser") /\ Silent
    ELSE Leave(c, "idle") /\ Answer("role", lastRole[got[c]], heeded[c])

\* A user that is not there, or has no role, is not cached.
NoSuchUser(c) ==
    /\ step[c] = "holdingRole"
    /\ got[c] = NoRole
    /\ TellRole(c)
    /\ UNCHANGED <<clock, database, caches, invalidated, restarts>>

\* The id is cached, and then the name of the role awaited.
CacheRole(c) ==
    /\ step[c] = "holdingRole"
    /\ got[c] # NoRole
    /\ roleCache' = got[c]
    /\ since' = [since EXCEPT ![c] = 0]
    /\ step' = [step EXCEPT ![c] = "naming"]
    /\ Silent
    /\ UNCHANGED <<clock, database, permission, got, heeded, invalidated, restarts>>

\* The name has come.  Neither the cache nor the user's row is looked at again.
NameRole(c) ==
    /\ step[c] = "naming"
    /\ TellRole(c)
    /\ UNCHANGED <<clock, database, caches, invalidated, restarts>>

-----------------------------------------------------------------------------
(* prewarm_cache, after the role: get_user_permissions in two queries, and *)
(* an entry for a permission that is granted.                              *)

PrewarmUser ==
    /\ step[Startup] = "askingUser"
    /\ IF role = NoRole
       THEN Leave(Startup, "idle")
       ELSE Read(Startup, role, "holdingUser")
    /\ Silent
    /\ UNCHANGED <<clock, database, caches, invalidated, restarts>>

PrewarmGrants ==
    /\ step[Startup] = "holdingUser"
    /\ got' = [got EXCEPT ![Startup] = got[Startup] \in allowing]
    /\ step' = [step EXCEPT ![Startup] = "holdingGrants"]
    /\ Silent
    /\ UNCHANGED <<clock, database, caches, since, heeded, invalidated, restarts>>

PrewarmAdd ==
    /\ step[Startup] = "holdingGrants"
    /\ permission' = IF got[Startup] THEN [allowed |-> TRUE, at |-> clock] ELSE permission
    /\ Leave(Startup, "idle")
    /\ Silent
    /\ UNCHANGED <<clock, database, roleCache, invalidated, restarts>>

\* A query fails, which is only logged, and the server starts with what there is.
PrewarmFails ==
    /\ step[Startup] # "idle"
    /\ Leave(Startup, "idle")
    /\ Silent
    /\ UNCHANGED <<clock, database, caches, invalidated, restarts>>

-----------------------------------------------------------------------------
\* Faulty variant: the user's role stays in its cache.
InvalidatePermissions ==
    /\ Serving
    /\ permission' = NoEntry
    /\ invalidated' = clock
    /\ Silent
    /\ UNCHANGED <<clock, database, roleCache, coroutines, restarts>>

\* invalidate_user_cache, invalidate_all_cache.
Invalidate ==
    /\ Serving
    /\ permission' = NoEntry
    /\ roleCache' = NoEntry
    /\ invalidated' = clock
    /\ Silent
    /\ UNCHANGED <<clock, database, coroutines, restarts>>

\* The process is replaced: empty caches, and the startup handler runs.
Restart ==
    /\ restarts < MaxRestarts
    /\ restarts' = restarts + 1
    /\ permission' = NoEntry
    /\ roleCache' = NoEntry
    /\ step' = [c \in Coroutines |-> IF c = Startup THEN "askingRole" ELSE "idle"]
    /\ got' = [c \in Coroutines |-> NoRole]
    /\ since' = [c \in Coroutines |-> 0]
    /\ heeded' = [c \in Coroutines |-> 0]
    /\ Silent
    /\ UNCHANGED <<clock, database, invalidated>>

Lookup(c) == \/ Hit(c) \/ Miss(c) \/ RoleHit(c) \/ RoleMiss(c)

Resume(c) == \/ QueryPermission(c) \/ AddToCache(c)
             \/ QueryUser(c) \/ NoSuchUser(c) \/ CacheRole(c) \/ NameRole(c)

CacheNext ==
    \/ TimePasses \/ UpdateUserRole \/ ChangePermissions
    \/ \E c \in Lookups : Lookup(c)
    \/ \E c \in Coroutines : Resume(c)
    \/ PrewarmUser \/ PrewarmGrants \/ PrewarmAdd \/ PrewarmFails
    \/ Invalidate \/ Restart

CacheSpec == CacheInit /\ [][CacheNext]_cacheVars

-----------------------------------------------------------------------------
(* Properties that hold.                                                   *)

\* Whatever lookups, the prewarming and changes of the database do between each
\* other's steps, an answer about a permission was true no longer ago than the
\* life of an entry and the time its reader was kept waiting.  Only where not both
\* of roles and permissions change: prewarm_cache reads the one before the other and
\* can cache a permission that was never granted.
PermissionsFresh == about = "permission" => age <= Ttl + MaxLatency

\* A lookup that begins once the user's entries are invalidated heeds that: what it
\* answers, of permission or role, had at most been out of date for as long before the
\* invalidation as a reader is kept waiting, who may have cached afterwards what he
\* read before.  A lookup under way at the invalidation does not heed it: it has read
\* the cache and only waits for the name of the role.
InvalidationWorks == before <= MaxLatency
=============================================================================
