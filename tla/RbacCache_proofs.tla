--------------------------- MODULE RbacCache_proofs ---------------------------
(***************************************************************************)
(* Theorems about RbacCache, for any lookups, roles, lifetimes and waits.  *)
(*                                                                         *)
(* That an answer is fresh is not inductive.  An entry is as good as what  *)
(* its writer held, and that is as good as the moment it was read; so the  *)
(* invariant is about what coroutines hold, then about what is cached, and *)
(* last about what is answered.                                            *)
(***************************************************************************)
EXTENDS RbacCache, TLAPS

USE DEF Start

\* The database knows what it says now, and nothing of the future.
Clock ==
    /\ lastRole[role] = clock
    /\ lastGrant[Granted] = clock
    /\ \A r \in UserRoles : lastRole[r] <= clock
    /\ \A v \in BOOLEAN : lastGrant[v] <= clock
    /\ invalidated <= clock

\* A coroutine holds an answer of the kind it asked for.
HeldKind ==
    \A c \in Coroutines :
        /\ step[c] \in {"holding", "holdingGrants"} => got[c] \in BOOLEAN
        /\ step[c] \in {"holdingRole", "holdingUser"} => got[c] \in UserRoles
        /\ step[c] = "naming" => got[c] \in Roles

TypeInv == CacheTypeOK /\ Clock /\ HeldKind

-----------------------------------------------------------------------------
LEMMA TypeInit == CacheInit => TypeInv
<1> SUFFICES ASSUME CacheInit PROVE TypeInv
  OBVIOUS
<1> USE CacheAssumption
<1>1. CacheTypeOK
  BY DEF CacheInit, CacheTypeOK, Times, UserRoles, Granted, Steps, Coroutines
<1>2. Clock
  BY DEF CacheInit, Clock, UserRoles, Granted
<1>3. HeldKind
  BY DEF CacheInit, HeldKind
<1> QED
  BY <1>1, <1>2, <1>3 DEF TypeInv

\* Time and changes of the database leave Clock true.
LEMMA TickTyped == TypeInv /\ TimePasses => TypeInv'
<1> SUFFICES ASSUME TypeInv, TimePasses PROVE TypeInv'
  OBVIOUS
<1> USE CacheAssumption DEF TypeInv
<1>1. Granted \in BOOLEAN /\ Granted' = Granted /\ role \in UserRoles
  BY DEF Granted, TimePasses, CacheTypeOK
<1>2. lastRole' = [lastRole EXCEPT ![role] = clock + 1]
      /\ lastGrant' = [lastGrant EXCEPT ![Granted] = clock + 1]
      /\ clock' = clock + 1 /\ role' = role /\ invalidated' = invalidated /\ clock < Start + MaxClock
  BY DEF TimePasses
<1>3. CacheTypeOK'
  BY <1>1, <1>2 DEF CacheTypeOK, TimePasses, Silent, Times, caches, coroutines
<1>4. Clock'
  BY <1>1, <1>2 DEF CacheTypeOK, Clock, Times
<1>5. HeldKind'
  BY DEF HeldKind, TimePasses, coroutines
<1> QED
  BY <1>3, <1>4, <1>5

LEMMA ChangeTyped == TypeInv /\ (UpdateUserRole \/ ChangePermissions) => TypeInv'
<1> SUFFICES ASSUME TypeInv, UpdateUserRole \/ ChangePermissions PROVE TypeInv'
  OBVIOUS
<1> USE CacheAssumption DEF TypeInv
<1>1. role' \in UserRoles /\ allowing' \subseteq Roles
  <2>1. CASE UpdateUserRole
    BY <2>1 DEF UpdateUserRole, CacheTypeOK
  <2>2. CASE ChangePermissions
    BY <2>2 DEF ChangePermissions, CacheTypeOK
  <2> QED
    BY <2>1, <2>2
<1>2. Record /\ Silent /\ UNCHANGED <<clock, caches, coroutines, invalidated, restarts>>
  BY DEF UpdateUserRole, ChangePermissions
<1>3. lastRole' = [lastRole EXCEPT ![role'] = clock]
      /\ lastGrant' = [lastGrant EXCEPT ![Granted'] = clock]
      /\ Granted' \in BOOLEAN
  BY <1>2 DEF Record, Granted
<1>4. CacheTypeOK'
  BY <1>1, <1>2, <1>3 DEF CacheTypeOK, Silent, Times, caches, coroutines
<1>5. Clock'
  BY <1>1, <1>2, <1>3 DEF CacheTypeOK, Clock, Times
<1>6. HeldKind'
  BY <1>2 DEF HeldKind, coroutines
<1> QED
  BY <1>4, <1>5, <1>6

\* So does every step in which neither time nor the database changes: what is left
\* is what coroutines hold and what is cached.
LEMMA StillTyped ==
    ASSUME TypeInv, clock' = clock, UNCHANGED database,
           permission' \in [allowed : BOOLEAN, at : Times] \cup {NoEntry},
           roleCache' \in Roles \cup {NoEntry},
           step' \in [Coroutines -> Steps], got' \in [Coroutines -> UserRoles \cup BOOLEAN],
           since' \in [Coroutines -> Times], heeded' \in [Coroutines -> Times],
           about' \in {"permission", "role", "none"}, age' \in Times, before' \in Times,
           invalidated' \in {invalidated, clock}, restarts' \in 0..MaxRestarts, HeldKind'
    PROVE  TypeInv'
<1> USE CacheAssumption DEF TypeInv, database
<1>1. clock \in Times
  BY DEF CacheTypeOK, Times
<1>2. CacheTypeOK'
  BY <1>1 DEF CacheTypeOK
<1>3. Clock'
  BY DEF CacheTypeOK, Clock, Granted, Times
<1> QED
  BY <1>2, <1>3

\* An answer that was true at some moment until now has an age within the bounds.
LEMMA AnswerTyped ==
    ASSUME TypeInv, NEW s, NEW t \in Times, t <= clock, NEW h \in Times, Answer(s, t, h)
    PROVE  about' = s /\ age' \in Times /\ before' \in Times
BY CacheAssumption DEF TypeInv, CacheTypeOK, Times, Answer

\* Each step of a lookup, of the prewarming and of the server.
LEMMA LookupTyped ==
    ASSUME TypeInv, NEW c \in Lookups, Lookup(c)
    PROVE  TypeInv'
<1> USE CacheAssumption DEF TypeInv, CacheTypeOK, Coroutines
<1>1. CASE Hit(c)
  <2>1. permission.allowed \in BOOLEAN /\ lastGrant[permission.allowed] <= clock
        /\ lastGrant[permission.allowed] \in Times
    BY <1>1 DEF Hit, Fresh, Clock
  <2>2. about' = "permission" /\ age' \in Times /\ before' \in Times
    BY <1>1, <2>1, AnswerTyped DEF Hit
  <2> QED
    BY <1>1, <2>2, StillTyped DEF Hit, caches, coroutines, HeldKind
<1>2. CASE Miss(c)
  <2>1. step' \in [Coroutines -> Steps] /\ HeldKind' /\ age' \in Times /\ before' \in Times
        /\ heeded' \in [Coroutines -> Times]
    BY <1>2 DEF Miss, Silent, HeldKind, Steps, Times
  <2> QED
    BY <1>2, <2>1, StillTyped DEF Miss, Silent
<1>3. CASE RoleHit(c)
  <2>1. /\ step' \in [Coroutines -> Steps] /\ got' \in [Coroutines -> UserRoles \cup BOOLEAN]
        /\ heeded' \in [Coroutines -> Times] /\ age' \in Times /\ before' \in Times
    BY <1>3 DEF RoleHit, Silent, Steps, Times, UserRoles
  <2>2. HeldKind'
    BY <1>3 DEF RoleHit, HeldKind
  <2> QED
    BY <1>3, <2>1, <2>2, StillTyped DEF RoleHit, Silent, caches
<1>4. CASE RoleMiss(c)
  <2>1. step' \in [Coroutines -> Steps] /\ HeldKind' /\ age' \in Times /\ before' \in Times
        /\ heeded' \in [Coroutines -> Times]
    BY <1>4 DEF RoleMiss, Silent, HeldKind, Steps, Times
  <2> QED
    BY <1>4, <2>1, StillTyped DEF RoleMiss, Silent, caches
<1> QED
  BY <1>1, <1>2, <1>3, <1>4 DEF Lookup

\* A role is told, and its coroutine let go.
LEMMA TellTyped ==
    ASSUME TypeInv, NEW c \in Coroutines, TellRole(c), got[c] \in UserRoles
    PROVE  /\ step' \in [Coroutines -> Steps] /\ got' \in [Coroutines -> UserRoles \cup BOOLEAN]
           /\ since' \in [Coroutines -> Times] /\ heeded' \in [Coroutines -> Times] /\ HeldKind'
           /\ about' \in {"role", "none"} /\ age' \in Times /\ before' \in Times
<1> USE CacheAssumption DEF TypeInv, CacheTypeOK
<1>1. \E next \in {"idle", "askingUser"} : Leave(c, next)
  BY DEF TellRole
<1>2. /\ step' \in [Coroutines -> Steps] /\ got' \in [Coroutines -> UserRoles \cup BOOLEAN]
      /\ since' \in [Coroutines -> Times] /\ heeded' \in [Coroutines -> Times] /\ HeldKind'
  BY <1>1 DEF Leave, HeldKind, Steps, Times, UserRoles
<1>3. CASE Silent
  BY <1>2, <1>3 DEF Silent, Times
<1>4. CASE Answer("role", lastRole[got[c]], heeded[c])
  <2>1. lastRole[got[c]] \in Times /\ lastRole[got[c]] <= clock /\ heeded[c] \in Times
    BY DEF Clock
  <2> QED
    BY <1>2, <1>4, <2>1, AnswerTyped
<1> QED
  BY <1>3, <1>4 DEF TellRole

LEMMA ResumeTyped ==
    ASSUME TypeInv, NEW c \in Coroutines, Resume(c)
    PROVE  TypeInv'
<1> USE CacheAssumption DEF TypeInv, CacheTypeOK
<1>0. clock \in Times /\ Granted \in BOOLEAN
  BY DEF Times, Granted
<1>1. CASE QueryPermission(c)
  <2>1. /\ step' \in [Coroutines -> Steps] /\ got' \in [Coroutines -> UserRoles \cup BOOLEAN]
        /\ since' \in [Coroutines -> Times] /\ HeldKind' /\ age' \in Times /\ before' \in Times
    BY <1>0, <1>1 DEF QueryPermission, Read, Silent, HeldKind, Steps, Times
  <2> QED
    BY <1>1, <2>1, StillTyped DEF QueryPermission, Read, Silent, caches
<1>2. CASE AddToCache(c)
  <2>1. got[c] \in BOOLEAN /\ lastGrant[got[c]] <= clock /\ lastGrant[got[c]] \in Times
        /\ heeded[c] \in Times
    BY <1>2 DEF AddToCache, HeldKind, Clock
  <2>2. about' = "permission" /\ age' \in Times /\ before' \in Times
    BY <1>2, <2>1, AnswerTyped DEF AddToCache
  <2>3. /\ step' \in [Coroutines -> Steps] /\ got' \in [Coroutines -> UserRoles \cup BOOLEAN]
        /\ since' \in [Coroutines -> Times] /\ heeded' \in [Coroutines -> Times] /\ HeldKind'
    BY <1>2 DEF AddToCache, Leave, HeldKind, Steps, Times, UserRoles
  <2> QED
    BY <1>0, <1>2, <2>1, <2>2, <2>3, StillTyped DEF AddToCache
<1>3. CASE QueryUser(c)
  <2>1. /\ step' \in [Coroutines -> Steps] /\ got' \in [Coroutines -> UserRoles \cup BOOLEAN]
        /\ since' \in [Coroutines -> Times] /\ HeldKind' /\ age' \in Times /\ before' \in Times
    BY <1>0, <1>3 DEF QueryUser, Read, Silent, HeldKind, Steps, Times
  <2> QED
    BY <1>3, <2>1, StillTyped DEF QueryUser, Read, Silent, caches
<1>4. CASE NoSuchUser(c) \/ NameRole(c)
  <2>1. TellRole(c) /\ got[c] \in UserRoles
        /\ UNCHANGED <<clock, database, caches, invalidated, restarts>>
    BY <1>4 DEF NoSuchUser, NameRole, HeldKind, UserRoles
  <2> QED
    BY <2>1, TellTyped, StillTyped DEF caches
<1>5. CASE CacheRole(c)
  <2>1. got[c] \in Roles
    BY <1>5 DEF CacheRole, HeldKind, UserRoles
  <2>2. /\ step' \in [Coroutines -> Steps] /\ since' \in [Coroutines -> Times]
        /\ age' \in Times /\ before' \in Times /\ roleCache' \in Roles
    BY <1>5, <2>1 DEF CacheRole, Silent, Steps, Times
  <2>3. HeldKind'
    BY <1>5, <2>1 DEF CacheRole, HeldKind
  <2> QED
    BY <1>5, <2>2, <2>3, StillTyped DEF CacheRole, Silent
<1> QED
  BY <1>1, <1>2, <1>3, <1>4, <1>5 DEF Resume

LEMMA ServerTyped ==
    ASSUME TypeInv,
           PrewarmUser \/ PrewarmGrants \/ PrewarmAdd \/ PrewarmFails \/ Invalidate \/ Restart
    PROVE  TypeInv'
<1> USE CacheAssumption DEF TypeInv, CacheTypeOK
<1>0. clock \in Times /\ Startup \in Coroutines /\ 0 \in Times
  BY DEF Times, Coroutines
<1>1. CASE PrewarmUser
  <2>1. /\ step' \in [Coroutines -> Steps] /\ got' \in [Coroutines -> UserRoles \cup BOOLEAN]
        /\ since' \in [Coroutines -> Times] /\ heeded' \in [Coroutines -> Times] /\ HeldKind'
    BY <1>0, <1>1 DEF PrewarmUser, Read, Leave, HeldKind, Steps, UserRoles
  <2> QED
    BY <1>0, <1>1, <2>1, StillTyped DEF PrewarmUser, Silent, caches
<1>2. CASE PrewarmGrants
  <2>1. /\ step' \in [Coroutines -> Steps] /\ got' \in [Coroutines -> UserRoles \cup BOOLEAN]
        /\ HeldKind'
    BY <1>0, <1>2 DEF PrewarmGrants, HeldKind, Steps
  <2> QED
    BY <1>0, <1>2, <2>1, StillTyped DEF PrewarmGrants, Silent, caches
<1>3. CASE PrewarmAdd
  <2>1. /\ step' \in [Coroutines -> Steps] /\ got' \in [Coroutines -> UserRoles \cup BOOLEAN]
        /\ since' \in [Coroutines -> Times] /\ heeded' \in [Coroutines -> Times] /\ HeldKind'
    BY <1>0, <1>3 DEF PrewarmAdd, Leave, HeldKind, Steps, UserRoles
  <2> QED
    BY <1>0, <1>3, <2>1, StillTyped DEF PrewarmAdd, Silent
<1>4. CASE PrewarmFails
  <2>1. /\ step' \in [Coroutines -> Steps] /\ got' \in [Coroutines -> UserRoles \cup BOOLEAN]
        /\ since' \in [Coroutines -> Times] /\ heeded' \in [Coroutines -> Times] /\ HeldKind'
    BY <1>0, <1>4 DEF PrewarmFails, Leave, HeldKind, Steps, UserRoles
  <2> QED
    BY <1>0, <1>4, <2>1, StillTyped DEF PrewarmFails, Silent, caches
<1>5. CASE Invalidate
  <2>1. HeldKind'
    BY <1>5 DEF Invalidate, HeldKind, coroutines
  <2> QED
    BY <1>0, <1>5, <2>1, StillTyped DEF Invalidate, Silent, coroutines
<1>6. CASE Restart
  <2>1. /\ step' \in [Coroutines -> Steps] /\ got' \in [Coroutines -> UserRoles \cup BOOLEAN]
        /\ since' \in [Coroutines -> Times] /\ heeded' \in [Coroutines -> Times] /\ HeldKind' /\ restarts' \in 0..MaxRestarts
    BY <1>0, <1>6 DEF Restart, HeldKind, Steps, UserRoles
  <2> QED
    BY <1>0, <1>6, <2>1, StillTyped DEF Restart, Silent
<1> QED
  BY <1>1, <1>2, <1>3, <1>4, <1>5, <1>6

LEMMA TypeStep == TypeInv /\ [CacheNext]_cacheVars => TypeInv'
<1> SUFFICES ASSUME TypeInv, [CacheNext]_cacheVars PROVE TypeInv'
  OBVIOUS
<1>1. CASE UNCHANGED cacheVars
  BY <1>1 DEF cacheVars, TypeInv, CacheTypeOK, Clock, HeldKind, Granted
<1>2. CASE CacheNext
  BY <1>2, TickTyped, ChangeTyped, LookupTyped, ResumeTyped, ServerTyped DEF CacheNext
<1> QED
  BY <1>1, <1>2

\* Every variable keeps its type: whatever the caches are filled with in whatever
\* order, they hold roles and answers, of moments that have been.
THEOREM TypeCorrect == CacheSpec => []CacheTypeOK
<1>1. CacheSpec => []TypeInv
  BY TypeInit, TypeStep, PTL DEF CacheSpec
<1>2. TypeInv => CacheTypeOK
  BY DEF TypeInv
<1> QED
  BY <1>1, <1>2, PTL

-----------------------------------------------------------------------------
\* What a coroutine holds it read within MaxLatency, and it was true then.
HeldTrue ==
    \A c \in Coroutines :
        /\ step[c] \in Holding => since[c] <= clock /\ clock <= since[c] + MaxLatency
        /\ step[c] \in {"holding", "holdingGrants"} => since[c] <= lastGrant[got[c]]
        /\ step[c] = "holdingRole" => since[c] <= lastRole[got[c]]

\* A lookup that asks the database does so after the invalidation it heeds, and one that
\* waits for the name of a role has one that was true within MaxLatency of it.
HeededTrue ==
    \A c \in Coroutines :
        /\ heeded[c] <= invalidated
        /\ step[c] \in {"holding", "holdingRole"} => heeded[c] <= since[c]
        /\ step[c] = "naming" => heeded[c] <= lastRole[got[c]] + MaxLatency

\* Between its two queries the prewarming holds the role the user has.
PrewarmedRole == step[Startup] = "holdingUser" => got[Startup] = role

\* What was cached was true within MaxLatency of the moment it was written, and of
\* the latest invalidation.
EntryTrue ==
    permission # NoEntry =>
        /\ permission.at <= clock
        /\ permission.at <= lastGrant[permission.allowed] + MaxLatency
        /\ invalidated <= lastGrant[permission.allowed] + MaxLatency

RoleTrue == roleCache # NoEntry => invalidated <= lastRole[roleCache] + MaxLatency

FreshInv ==
    /\ TypeInv
    /\ HeldTrue
    /\ HeededTrue
    /\ PrewarmedRole
    /\ EntryTrue
    /\ RoleTrue
    /\ PermissionsFresh
    /\ InvalidationWorks

LEMMA FreshInit == CacheInit => FreshInv
<1> SUFFICES ASSUME CacheInit PROVE FreshInv
  OBVIOUS
<1>1. /\ HeldTrue /\ HeededTrue /\ PrewarmedRole /\ EntryTrue /\ RoleTrue
      /\ PermissionsFresh /\ InvalidationWorks
  BY CacheAssumption DEF CacheInit, HeldTrue, HeededTrue, PrewarmedRole, EntryTrue, RoleTrue,
                         PermissionsFresh, InvalidationWorks, Holding, Coroutines
<1> QED
  BY <1>1, TypeInit DEF FreshInv

\* As time passes and the database changes, nothing that was true becomes older.
LEMMA DatabaseFresh ==
    ASSUME CalmPrewarming, FreshInv, TimePasses \/ UpdateUserRole \/ ChangePermissions
    PROVE  FreshInv'
<1> USE CacheAssumption DEF FreshInv, TypeInv, CacheTypeOK
<1>1. TypeInv'
  BY TickTyped, ChangeTyped
<1>2. Silent /\ UNCHANGED <<caches, coroutines, invalidated>>
  BY DEF TimePasses, UpdateUserRole, ChangePermissions
<1>3. \A r \in UserRoles : lastRole[r] <= lastRole'[r] /\ lastRole'[r] \in Times
  BY <1>1 DEF TimePasses, UpdateUserRole, ChangePermissions, Record, Clock, Times
<1>4. \A v \in BOOLEAN : lastGrant[v] <= lastGrant'[v] /\ lastGrant'[v] \in Times
  BY <1>1 DEF TimePasses, UpdateUserRole, ChangePermissions, Record, Clock, Times
<1>5. /\ clock' \in {clock, clock + 1}
      /\ \A c \in Coroutines : step[c] \in Holding => clock' <= since[c] + MaxLatency
  BY DEF TimePasses, UpdateUserRole, ChangePermissions, HeldTrue, Times
<1>6. HeldTrue'
  BY <1>2, <1>3, <1>4, <1>5 DEF HeldTrue, HeldKind, coroutines, Times
<1>7. HeededTrue'
  BY <1>2, <1>3 DEF HeededTrue, HeldKind, UserRoles, coroutines, Times
<1>8. PrewarmedRole'
  BY <1>2 DEF PrewarmedRole, TimePasses, UpdateUserRole, ChangePermissions, MayChange, coroutines
<1>9. EntryTrue' /\ RoleTrue'
  BY <1>2, <1>3, <1>4, <1>5 DEF EntryTrue, RoleTrue, caches, Times, UserRoles
<1> QED
  BY <1>1, <1>2, <1>6, <1>7, <1>8, <1>9 DEF PermissionsFresh, InvalidationWorks, Silent

\* An answer that was true within MaxLatency of the invalidation its lookup heeded is
\* within the bound, and one about a role is not about a permission.
LEMMA AnswerHeeds ==
    ASSUME FreshInv, NEW s, NEW t \in Times, NEW h \in Times, h <= t + MaxLatency,
           Answer(s, t, h)
    PROVE  InvalidationWorks'
BY CacheAssumption DEF Answer, InvalidationWorks, Times

\* Lookups that find something in a cache.
LEMMA LookupFresh ==
    ASSUME FreshInv, NEW c \in Lookups, Lookup(c)
    PROVE  FreshInv'
<1> USE CacheAssumption DEF FreshInv, TypeInv, CacheTypeOK, Coroutines
<1>1. TypeInv'
  BY LookupTyped
<1>2. UNCHANGED <<clock, database, since, invalidated>>
  BY DEF Lookup, Hit, Miss, RoleHit, RoleMiss, coroutines
<1>3. /\ permission' \in {permission, NoEntry} /\ roleCache' = roleCache
      /\ \A d \in Coroutines : \/ /\ step'[d] = step[d] /\ got'[d] = got[d]
                                  /\ heeded'[d] = heeded[d]
                               \/ /\ step'[d] \in {"asking", "askingRole"}
                                  /\ heeded'[d] = invalidated
                               \/ /\ step'[d] = "naming" /\ got'[d] = roleCache
                                  /\ roleCache # NoEntry
                                  /\ heeded'[d] = invalidated
  BY DEF Lookup, Hit, Miss, RoleHit, RoleMiss, coroutines, caches
<1>4. HeldTrue' /\ PrewarmedRole'
  BY <1>2, <1>3 DEF HeldTrue, PrewarmedRole, Holding, database
<1>5. HeededTrue'
  BY <1>2, <1>3 DEF HeededTrue, RoleTrue, database, Times
<1>6. EntryTrue' /\ RoleTrue'
  BY <1>2, <1>3 DEF EntryTrue, RoleTrue, database
<1>7. PermissionsFresh' /\ InvalidationWorks'
  <2>1. CASE Hit(c)
    <3>1. permission.allowed \in BOOLEAN /\ permission.at \in Times
      BY <2>1 DEF Hit, Fresh
    <3>2. lastGrant[permission.allowed] \in Times
      BY <3>1
    <3>3. age' = clock - lastGrant[permission.allowed] /\ clock - permission.at <= Ttl
          /\ permission # NoEntry
          /\ Answer("permission", lastGrant[permission.allowed], invalidated)
      BY <2>1 DEF Hit, Fresh, Answer
    <3>4. InvalidationWorks'
      BY <3>2, <3>3, AnswerHeeds DEF EntryTrue
    <3> QED
      BY <1>2, <3>1, <3>2, <3>3, <3>4 DEF EntryTrue, PermissionsFresh, Times
  <2>2. CASE RoleHit(c) \/ Miss(c) \/ RoleMiss(c)
    BY <2>2 DEF Miss, RoleHit, RoleMiss, Silent, PermissionsFresh, InvalidationWorks
  <2> QED
    BY <2>1, <2>2 DEF Lookup
<1> QED
  BY <1>1, <1>4, <1>5, <1>6, <1>7

\* A role is told that was true within MaxLatency of the invalidation heeded.
LEMMA TellFresh ==
    ASSUME FreshInv, NEW c \in Coroutines, TellRole(c), got[c] \in UserRoles,
           heeded[c] <= lastRole[got[c]] + MaxLatency
    PROVE  /\ PermissionsFresh' /\ InvalidationWorks'
           /\ step'[c] \in {"idle", "askingUser"} /\ heeded'[c] = 0
           /\ \A d \in Coroutines \ {c} : /\ step'[d] = step[d] /\ got'[d] = got[d]
                                          /\ since'[d] = since[d] /\ heeded'[d] = heeded[d]
<1> USE CacheAssumption DEF FreshInv, TypeInv, CacheTypeOK
<1>1. lastRole[got[c]] \in Times /\ heeded[c] \in Times
  OBVIOUS
<1>2. CASE Answer("role", lastRole[got[c]], heeded[c])
  BY <1>1, <1>2, AnswerHeeds DEF TellRole, Leave, Answer, PermissionsFresh
<1>3. CASE Silent
  BY <1>3 DEF TellRole, Leave, Silent, PermissionsFresh, InvalidationWorks
<1> QED
  BY <1>2, <1>3 DEF TellRole

\* Coroutines that come back with an answer from the database.
LEMMA ResumeFresh ==
    ASSUME FreshInv, NEW c \in Coroutines, Resume(c)
    PROVE  FreshInv'
<1> USE CacheAssumption DEF FreshInv, TypeInv, CacheTypeOK
<1>1. TypeInv'
  BY ResumeTyped
<1>2. UNCHANGED <<clock, database, invalidated>>
  BY DEF Resume, QueryPermission, AddToCache, QueryUser, NoSuchUser, CacheRole, NameRole
<1>3. \A d \in Coroutines \ {c} : /\ step'[d] = step[d] /\ got'[d] = got[d]
                                 /\ since'[d] = since[d] /\ heeded'[d] = heeded[d]
  BY DEF Resume, QueryPermission, AddToCache, QueryUser, NoSuchUser, CacheRole, NameRole,
         TellRole, Read, Leave
<1>4. clock \in Times /\ Granted \in BOOLEAN /\ Startup \in Coroutines /\ invalidated <= clock
      /\ invalidated \in Times /\ heeded[c] \in Times
  BY DEF Times, Granted, Coroutines, Clock
<1>5. CASE QueryPermission(c) \/ QueryUser(c)
  <2>1. /\ step'[c] \in {"holding", "holdingRole"} /\ since'[c] = clock
        /\ heeded'[c] = heeded[c]
        /\ step'[c] = "holding" => got'[c] = Granted
        /\ step'[c] = "holdingRole" => got'[c] = role
        /\ UNCHANGED caches
    BY <1>5 DEF QueryPermission, QueryUser, Read
  <2>2. HeldTrue'
    BY <1>2, <1>3, <1>4, <2>1 DEF HeldTrue, Clock, database, Times, Holding
  <2>3. HeededTrue'
    BY <1>2, <1>3, <1>4, <2>1 DEF HeededTrue, database, Times
  <2>4. PrewarmedRole' /\ EntryTrue' /\ RoleTrue'
    BY <1>2, <1>3, <1>4, <2>1 DEF PrewarmedRole, EntryTrue, RoleTrue, database, caches
  <2> QED
    BY <1>1, <1>5, <2>2, <2>3, <2>4
       DEF QueryPermission, QueryUser, Silent, PermissionsFresh, InvalidationWorks
<1>6. CASE AddToCache(c)
  <2>1. /\ got[c] \in BOOLEAN /\ since[c] \in Times /\ clock <= since[c] + MaxLatency
        /\ since[c] <= lastGrant[got[c]] /\ lastGrant[got[c]] \in Times
        /\ heeded[c] <= since[c]
    BY <1>6 DEF AddToCache, HeldTrue, HeededTrue, HeldKind, Holding
  <2>2. /\ permission' = [allowed |-> got[c], at |-> clock] /\ roleCache' = roleCache
        /\ step'[c] = "idle" /\ heeded'[c] = 0
        /\ about' = "permission" /\ age' = clock - lastGrant[got[c]]
        /\ Answer("permission", lastGrant[got[c]], heeded[c])
    BY <1>6 DEF AddToCache, Leave, Answer, Coroutines
  <2>3. HeldTrue' /\ PrewarmedRole'
    BY <1>2, <1>3, <1>4, <2>2 DEF HeldTrue, PrewarmedRole, Holding, database
  <2>4. HeededTrue'
    BY <1>2, <1>3, <1>4, <2>2 DEF HeededTrue, database, Times
  <2>5. EntryTrue' /\ RoleTrue'
    BY <1>2, <2>1, <2>2 DEF EntryTrue, RoleTrue, database, Clock, Times
  <2>6. PermissionsFresh'
    BY <1>2, <2>1, <2>2 DEF PermissionsFresh, Clock, Times
  <2>7. heeded[c] <= lastGrant[got[c]] + MaxLatency
    BY <1>4, <2>1 DEF Times
  <2>8. InvalidationWorks'
    BY <1>4, <2>1, <2>2, <2>7, AnswerHeeds
  <2> QED
    BY <1>1, <2>3, <2>4, <2>5, <2>6, <2>8
<1>7. CASE NoSuchUser(c) \/ NameRole(c)
  <2>1. TellRole(c) /\ got[c] \in UserRoles /\ UNCHANGED caches
    BY <1>7 DEF NoSuchUser, NameRole, HeldKind, UserRoles
  <2>2. heeded[c] <= lastRole[got[c]] + MaxLatency
    <3>1. CASE NoSuchUser(c)
      <4>1. /\ heeded[c] <= since[c] /\ since[c] <= lastRole[got[c]]
            /\ since[c] \in Times /\ lastRole[got[c]] \in Times
        BY <2>1, <3>1 DEF NoSuchUser, HeldTrue, HeededTrue
      <4> QED
        BY <1>4, <4>1 DEF Times
    <3>2. CASE NameRole(c)
      BY <3>2 DEF NameRole, HeededTrue
    <3> QED
      BY <1>7, <3>1, <3>2
  <2>3. /\ PermissionsFresh' /\ InvalidationWorks'
        /\ step'[c] \in {"idle", "askingUser"} /\ heeded'[c] = 0
    BY <2>1, <2>2, TellFresh
  <2>4. HeldTrue' /\ PrewarmedRole'
    BY <1>2, <1>3, <1>4, <2>3 DEF HeldTrue, PrewarmedRole, Holding, database
  <2>5. HeededTrue'
    BY <1>2, <1>3, <1>4, <2>3 DEF HeededTrue, database, Times
  <2>6. EntryTrue' /\ RoleTrue'
    BY <1>2, <2>1 DEF EntryTrue, RoleTrue, database, caches
  <2> QED
    BY <1>1, <2>3, <2>4, <2>5, <2>6
<1>8. CASE CacheRole(c)
  <2>1. /\ got[c] \in Roles /\ got[c] \in UserRoles /\ since[c] \in Times
        /\ clock <= since[c] + MaxLatency
        /\ since[c] <= lastRole[got[c]] /\ lastRole[got[c]] \in Times
        /\ heeded[c] <= since[c]
    BY <1>8 DEF CacheRole, HeldTrue, HeededTrue, HeldKind, Holding, UserRoles
  <2>2. /\ roleCache' = got[c] /\ permission' = permission
        /\ step'[c] = "naming" /\ got' = got /\ heeded' = heeded /\ Silent
    BY <1>8 DEF CacheRole
  <2>3. HeldTrue' /\ PrewarmedRole'
    BY <1>2, <1>3, <1>4, <2>2 DEF HeldTrue, PrewarmedRole, Holding, database
  <2>4. heeded[c] <= lastRole[got[c]] + MaxLatency
    BY <1>4, <2>1 DEF Times
  <2>5. HeededTrue'
    BY <1>2, <1>3, <2>2, <2>4 DEF HeededTrue, database
  <2>6. EntryTrue' /\ RoleTrue'
    BY <1>2, <1>4, <2>1, <2>2 DEF EntryTrue, RoleTrue, database, Times
  <2> QED
    BY <1>1, <2>2, <2>3, <2>5, <2>6 DEF Silent, PermissionsFresh, InvalidationWorks
<1> QED
  BY <1>5, <1>6, <1>7, <1>8 DEF Resume

\* The prewarming, invalidation and restarts answer nobody.
LEMMA ServerFresh ==
    ASSUME FreshInv,
           PrewarmUser \/ PrewarmGrants \/ PrewarmAdd \/ PrewarmFails \/ Invalidate \/ Restart
    PROVE  FreshInv'
<1> USE CacheAssumption DEF FreshInv, TypeInv, CacheTypeOK
<1>1. TypeInv'
  BY ServerTyped
<1>2. Silent /\ UNCHANGED <<clock, database>>
  BY DEF PrewarmUser, PrewarmGrants, PrewarmAdd, PrewarmFails, Invalidate, Restart
<1>3. PermissionsFresh' /\ InvalidationWorks'
  BY <1>2 DEF Silent, PermissionsFresh, InvalidationWorks
<1>4. clock \in Times /\ Granted \in BOOLEAN /\ Startup \in Coroutines
  BY DEF Times, Granted, Coroutines
<1>5. CASE PrewarmUser \/ PrewarmGrants \/ PrewarmFails
  <2>1. /\ UNCHANGED <<caches, invalidated>>
        /\ \A d \in Coroutines \ {Startup} :
              step'[d] = step[d] /\ got'[d] = got[d] /\ since'[d] = since[d]
    BY <1>5 DEF PrewarmUser, PrewarmGrants, PrewarmFails, Read, Leave
  <2>2. \/ step'[Startup] = "idle"
        \/ step'[Startup] = "holdingUser" /\ got'[Startup] = role /\ since'[Startup] = clock
        \/ /\ step[Startup] = "holdingUser" /\ step'[Startup] = "holdingGrants"
           /\ got'[Startup] = Granted /\ since'[Startup] = since[Startup]
    <3>1. CASE PrewarmUser \/ PrewarmFails
      BY <1>4, <3>1 DEF PrewarmUser, PrewarmFails, Read, Leave
    <3>2. CASE PrewarmGrants
      BY <1>4, <3>2, Zenon DEF PrewarmGrants, PrewarmedRole, Granted
    <3> QED
      BY <1>5, <3>1, <3>2
  <2>3. HeldTrue'
    <3>1. lastGrant[Granted] = clock /\ lastRole[role] = clock
      BY DEF Clock
    <3>2. lastGrant'[Granted] = clock /\ clock' = clock /\ clock <= clock + MaxLatency
      BY <1>2, <1>4, <3>1 DEF database, Times
    <3>3. step[Startup] = "holdingUser"
              => since[Startup] <= clock /\ clock <= since[Startup] + MaxLatency
      BY <1>4 DEF HeldTrue, Holding
    <3> QED
      BY <1>2, <1>4, <2>1, <2>2, <3>2, <3>3 DEF HeldTrue, database, Times, Holding
  <2>4. HeededTrue'
    <3>1. \A d \in Coroutines \ {Startup} : heeded'[d] = heeded[d]
      BY <1>5 DEF PrewarmUser, PrewarmGrants, PrewarmFails, Read, Leave
    <3>2. heeded'[Startup] \in {heeded[Startup], 0}
      BY <1>4, <1>5 DEF PrewarmUser, PrewarmGrants, PrewarmFails, Read, Leave
    <3> QED
      BY <1>2, <1>4, <2>1, <2>2, <3>1, <3>2 DEF HeededTrue, database, Times
  <2>5. PrewarmedRole' /\ EntryTrue' /\ RoleTrue'
    BY <1>2, <2>1, <2>2 DEF PrewarmedRole, EntryTrue, RoleTrue, database, caches
  <2> QED
    BY <1>1, <1>3, <2>3, <2>4, <2>5
<1>6. CASE PrewarmAdd
  <2>1. /\ UNCHANGED <<roleCache, invalidated>> /\ step'[Startup] = "idle"
        /\ \A d \in Coroutines \ {Startup} :
              /\ step'[d] = step[d] /\ got'[d] = got[d] /\ since'[d] = since[d]
              /\ heeded'[d] = heeded[d]
        /\ heeded'[Startup] = 0
        /\ step[Startup] = "holdingGrants"
        /\ \/ permission' = permission
           \/ permission' = [allowed |-> got[Startup], at |-> clock]
    BY <1>4, <1>6 DEF PrewarmAdd, Leave, HeldKind
  <2>2. /\ got[Startup] \in BOOLEAN /\ since[Startup] \in Times
        /\ clock <= since[Startup] + MaxLatency
        /\ since[Startup] <= lastGrant[got[Startup]] /\ lastGrant[got[Startup]] \in Times
    BY <1>4, <2>1 DEF HeldTrue, HeldKind, Holding
  <2>3. HeldTrue' /\ PrewarmedRole'
    BY <1>2, <1>4, <2>1 DEF HeldTrue, PrewarmedRole, Holding, database
  <2>6. HeededTrue'
    BY <1>2, <1>4, <2>1 DEF HeededTrue, database, Times
  <2>4. RoleTrue'
    BY <1>2, <2>1 DEF RoleTrue, database
  <2>5. EntryTrue'
    <3>1. CASE permission' = permission
      BY <1>2, <2>1, <3>1 DEF EntryTrue, database
    <3>2. CASE permission' = [allowed |-> got[Startup], at |-> clock]
      BY <1>2, <2>1, <2>2, <3>2 DEF EntryTrue, database, Clock, Times
    <3> QED
      BY <2>1, <3>1, <3>2
  <2> QED
    BY <1>1, <1>3, <2>3, <2>4, <2>5, <2>6
<1>7. CASE Invalidate \/ Restart
  <2>1. /\ permission' = NoEntry /\ roleCache' = NoEntry
        /\ \/ UNCHANGED coroutines
           \/ \A d \in Coroutines : step'[d] \in {"idle", "askingRole"}
    BY <1>7 DEF Invalidate, Restart
  <2>2. HeldTrue' /\ PrewarmedRole'
    BY <1>2, <1>4, <2>1 DEF HeldTrue, PrewarmedRole, Holding, database, coroutines
  <2>3. EntryTrue' /\ RoleTrue'
    BY <2>1 DEF EntryTrue, RoleTrue
  <2>4. HeededTrue'
    <3>1. CASE Invalidate
      BY <1>2, <1>4, <3>1 DEF Invalidate, HeededTrue, Clock, coroutines, database, Times
    <3>2. CASE Restart
      BY <1>2, <1>4, <3>2 DEF Restart, HeededTrue, Times
    <3> QED
      BY <1>7, <3>1, <3>2
  <2> QED
    BY <1>1, <1>3, <2>2, <2>3, <2>4
<1> QED
  BY <1>5, <1>6, <1>7

LEMMA FreshStep == CalmPrewarming /\ FreshInv /\ [CacheNext]_cacheVars => FreshInv'
<1> SUFFICES ASSUME CalmPrewarming, FreshInv, [CacheNext]_cacheVars PROVE FreshInv'
  OBVIOUS
<1>1. CASE UNCHANGED cacheVars
  <2>1. TypeInv'
    BY <1>1, TypeStep DEF FreshInv
  <2> QED
    BY <1>1, <2>1 DEF cacheVars, FreshInv, HeldTrue, HeededTrue, PrewarmedRole, EntryTrue, RoleTrue,
                      PermissionsFresh, InvalidationWorks
<1>2. CASE CacheNext
  BY <1>2, DatabaseFresh, LookupFresh, ResumeFresh, ServerFresh DEF CacheNext
<1> QED
  BY <1>1, <1>2

\* However lookups, the prewarming, invalidations and changes of the database are
\* interleaved, no answer about a permission is older than an entry may get and its
\* reader may have waited.
THEOREM AnswersAreFresh == CalmPrewarming /\ CacheSpec => []PermissionsFresh
<1>1. CalmPrewarming /\ CacheSpec => []FreshInv
  <2> SUFFICES ASSUME CalmPrewarming PROVE CacheSpec => []FreshInv
    OBVIOUS
  <2>1. FreshInv /\ [CacheNext]_cacheVars => FreshInv'
    BY FreshStep
  <2> QED
    BY <2>1, FreshInit, PTL DEF CacheSpec
<1>2. FreshInv => PermissionsFresh
  BY DEF FreshInv
<1> QED
  BY <1>1, <1>2, PTL

\* A lookup that begins after an invalidation, also one that reads the cached role and
\* waits for its name, answers nothing that had been out of date before the invalidation
\* for longer than a reader is kept waiting.
THEOREM InvalidationIsEffective == CalmPrewarming /\ CacheSpec => []InvalidationWorks
<1>1. CalmPrewarming /\ CacheSpec => []FreshInv
  <2> SUFFICES ASSUME CalmPrewarming PROVE CacheSpec => []FreshInv
    OBVIOUS
  <2>1. FreshInv /\ [CacheNext]_cacheVars => FreshInv'
    BY FreshStep
  <2> QED
    BY <2>1, FreshInit, PTL DEF CacheSpec
<1>2. FreshInv => InvalidationWorks
  BY DEF FreshInv
<1> QED
  BY <1>1, <1>2, PTL
=============================================================================
