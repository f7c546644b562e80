--------------------------- MODULE MCMemoryAccess ---------------------------
(***************************************************************************)
(* The caches of the access control and the synchronisation of the memory, *)
(* on small instances in one run.  They share no state, so TLC is spared   *)
(* the product: each moves only while the other is where it starts.        *)
(***************************************************************************)
EXTENDS RbacCache, MemorySync, TLC

\* One of the ways the caches start is enough for the memory.
CacheRests == CacheInit /\ role = NoRole /\ allowing = {}

BothInit == CacheInit /\ MemoryInit

BothSpec ==
    /\ BothInit
    /\ [][\/ MemoryInit /\ CacheNext  /\ UNCHANGED memoryVars
          \/ CacheRests /\ MemoryNext /\ UNCHANGED cacheVars]_<<cacheVars, memoryVars>>

\* Nothing tells the lookups from each other, nor the calls of the memory.
Symmetry == Permutations(Lookups) \cup Permutations(Writers)
=============================================================================
