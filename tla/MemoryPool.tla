------------------------------ MODULE MemoryPool ------------------------------
(* The slab allocator of memory_pool.c.  Its free list runs through the free *)
(* blocks themselves: the first word of a free block is the link to the next *)
(* one.  One mutex guards list and counters; a block taken off the list is   *)
(* zeroed after the mutex is given back, by the thread that took it.         *)
EXTENDS Integers, FiniteSets

CONSTANTS
  Users,           \* threads that call the pool
  Slabs,           \* memory that malloc can still give for a slab
  BlocksPerSlab,   \* blocks_per_slab
  Data,            \* what a caller writes into the first word of its block
  Null,            \* a NULL link, and the first word of a zeroed block
  MaxAllocs,       \* bound: successful allocations per pool
  MaxFailures      \* bound: failed allocations per pool

ASSUME PoolAssumption ==
  /\ BlocksPerSlab \in Nat \ {0}
  /\ MaxAllocs \in Nat /\ MaxFailures \in Nat
  /\ Null # Data /\ {Null, Data} \cap (Slabs \X (1..BlocksPerSlab)) = {}

VARIABLES
  created,                                    \* the pool exists
  slabs, free_list,                           \* pool->slabs, pool->free_list
  mem,                                        \* the first word of each block
  used_blocks, peak_blocks, total_blocks,     \* the counters of mempool_get_stats
  alloc_count, free_count, alloc_failures,
  taken,                                      \* the block each thread is about to zero
  owned                                       \* the blocks in callers' hands

list     == <<slabs, free_list, mem, total_blocks>>
counters == <<used_blocks, peak_blocks, alloc_count, free_count, alloc_failures>>
poolVars == <<created, list, counters, taken, owned>>

Blocks == Slabs \X (1..BlocksPerSlab)
Taken  == {taken[t] : t \in Users} \ {Null}

PoolInit ==
  /\ created = FALSE
  /\ slabs = {} /\ free_list = Null /\ total_blocks = 0
  /\ mem = [b \in Blocks |-> Null]
  /\ used_blocks = 0 /\ peak_blocks = 0
  /\ alloc_count = 0 /\ free_count = 0 /\ alloc_failures = 0
  /\ taken = [t \in Users |-> Null] /\ owned = {}

-------------------------------------------------------------------------------
\* Slip: the links reach one block too far back.
ThreadedTooFar(s) == [b \in Blocks |-> IF b[1] # s THEN mem[b]
                                       ELSE IF b[2] = 1 THEN free_list ELSE <<s, b[2] - 2>>]

\* grow_pool pushes the blocks of a new slab one after the other, so the first
\* block ends the chain and the last one becomes the head.
Threaded(s) == [b \in Blocks |-> IF b[1] # s THEN mem[b]
                                 ELSE IF b[2] = 1 THEN free_list ELSE <<s, b[2] - 1>>]
Top(s) == <<s, BlocksPerSlab>>

GrowPool(s) ==
  /\ slabs' = slabs \cup {s}
  /\ total_blocks' = total_blocks + BlocksPerSlab
  /\ mem' = Threaded(s)

\* mempool_create: without memory for the first slab there is no pool.
CreatePool ==
  /\ ~created /\ created' = TRUE
  /\ \E s \in Slabs : GrowPool(s) /\ free_list' = Top(s)
  /\ UNCHANGED <<counters, taken, owned>>

\* mempool_destroy, once nobody is inside the pool: the slabs go back with
\* whatever blocks are still in use.
DestroyPool ==
  /\ created /\ created' = FALSE
  /\ Taken = {}
  /\ slabs' = {} /\ free_list' = Null /\ total_blocks' = 0 /\ owned' = {}
  /\ used_blocks' = 0 /\ peak_blocks' = 0
  /\ alloc_count' = 0 /\ free_count' = 0 /\ alloc_failures' = 0
  /\ UNCHANGED <<mem, taken>>

-------------------------------------------------------------------------------
\* Slip: the peak is compared before the block is counted.
UnlinkLatePeak(t, head, links) ==
  /\ free_list' = links[head]
  /\ taken' = [taken EXCEPT ![t] = head]
  /\ used_blocks' = used_blocks + 1
  /\ alloc_count' = alloc_count + 1
  /\ peak_blocks' = IF used_blocks > peak_blocks THEN used_blocks ELSE peak_blocks
  /\ UNCHANGED <<created, free_count, alloc_failures, owned>>

\* mempool_alloc between lock and unlock: the first free block is unlinked.
Unlink(t, head, links) ==
  /\ free_list' = links[head]
  /\ taken' = [taken EXCEPT ![t] = head]
  /\ used_blocks' = used_blocks + 1
  /\ alloc_count' = alloc_count + 1
  /\ peak_blocks' = IF used_blocks + 1 > peak_blocks THEN used_blocks + 1 ELSE peak_blocks
  /\ UNCHANGED <<created, free_count, alloc_failures, owned>>

CanAlloc(t) == created /\ taken[t] = Null /\ alloc_count < MaxAllocs

Alloc(t) ==
  /\ CanAlloc(t) /\ free_list # Null
  /\ Unlink(t, free_list, mem)
  /\ UNCHANGED <<slabs, mem, total_blocks>>

AllocGrow(t) ==
  /\ CanAlloc(t) /\ free_list = Null
  /\ \E s \in Slabs \ slabs : GrowPool(s) /\ Unlink(t, Top(s), mem')

\* The list is empty and there is no memory for a slab.
AllocFails(t) ==
  /\ CanAlloc(t) /\ free_list = Null
  /\ alloc_failures < MaxFailures
  /\ alloc_failures' = alloc_failures + 1
  /\ UNCHANGED <<created, list, used_blocks, peak_blocks, alloc_count, free_count, taken, owned>>

\* Slip: the block is handed out as it was found.
ZeroSkipped(t) ==
  /\ taken[t] # Null
  /\ owned' = owned \cup {taken[t]}
  /\ taken' = [taken EXCEPT ![t] = Null]
  /\ UNCHANGED <<created, list, counters>>

\* The memset after the unlock, and the return to the caller.
Zero(t) ==
  /\ taken[t] # Null
  /\ mem' = [mem EXCEPT ![taken[t]] = Null]
  /\ owned' = owned \cup {taken[t]}
  /\ taken' = [taken EXCEPT ![t] = Null]
  /\ UNCHANGED <<created, slabs, free_list, total_blocks, counters>>

\* The caller writes its record into the block.
Use(b) ==
  /\ b \in owned
  /\ mem' = [mem EXCEPT ![b] = Data]
  /\ UNCHANGED <<created, slabs, free_list, total_blocks, counters, taken, owned>>

\* Slip: the head moves before the link is set, so the block links to itself.
FreeLinksItself(b) ==
  /\ b \in owned
  /\ owned' = owned \ {b}
  /\ mem' = [mem EXCEPT ![b] = b]
  /\ free_list' = b
  /\ used_blocks' = IF used_blocks > 0 THEN used_blocks - 1 ELSE 0
  /\ free_count' = free_count + 1
  /\ UNCHANGED <<created, slabs, total_blocks, peak_blocks, alloc_count, alloc_failures, taken>>

\* mempool_free: poisoned, linked in front of the list, counted.
Free(b) ==
  /\ b \in owned
  /\ owned' = owned \ {b}
  /\ mem' = [mem EXCEPT ![b] = free_list]
  /\ free_list' = b
  /\ used_blocks' = IF used_blocks > 0 THEN used_blocks - 1 ELSE 0
  /\ free_count' = free_count + 1
  /\ UNCHANGED <<created, slabs, total_blocks, peak_blocks, alloc_count, alloc_failures, taken>>

PoolNext ==
  \/ CreatePool \/ DestroyPool
  \/ \E t \in Users : Alloc(t) \/ AllocGrow(t) \/ AllocFails(t) \/ Zero(t)
  \/ \E b \in Blocks : Use(b) \/ Free(b)

PoolSpec == PoolInit /\ [][PoolNext]_poolVars

-------------------------------------------------------------------------------
\* Every variable keeps its type; used and free blocks are blocks of slabs the
\* pool has (the layout mempool_create and grow_pool build).
PoolTypeOK ==
  /\ created \in BOOLEAN
  /\ slabs \subseteq Slabs
  /\ free_list \in Blocks \cup {Null}
  /\ mem \in [Blocks -> Blocks \cup {Null, Data}]
  /\ used_blocks \in Nat /\ peak_blocks \in Nat /\ total_blocks \in Nat
  /\ alloc_count \in Nat /\ free_count \in Nat /\ alloc_failures \in Nat
  /\ taken \in [Users -> Blocks \cup {Null}]
  /\ owned \subseteq Blocks

\* The blocks of the pool's slabs.
PoolBlocks == slabs \X (1..BlocksPerSlab)

\* The n-th block of the chain from the head, Null past its end.
FreeChain == LET b[n \in 0..Cardinality(PoolBlocks)] ==
               IF n = 0 THEN free_list
               ELSE IF b[n-1] \in Blocks THEN mem[b[n-1]] ELSE b[n-1]
         IN  b

\* Following the links from the head visits every block that nobody holds,
\* once, and ends: no block is lost, handed to two callers, or both free and in
\* use, although the free blocks' memory was written by its former owners and
\* is zeroed by its next ones outside the mutex.
FreeListIntact ==
  LET unheld == PoolBlocks \ (owned \cup Taken)
      n == Cardinality(unheld)
  IN  /\ {FreeChain[k] : k \in 0..(n-1)} = unheld
      /\ FreeChain[n] = Null
      /\ owned \cap Taken = {}
      /\ \A t, u \in Users : t # u /\ taken[t] # Null => taken[t] # taken[u]

\* What mempool_get_stats reports agrees with itself and with the blocks that
\* are out: those in use, those ever handed out less those returned, the peak,
\* and the size of the slabs.
CountersAddUp ==
  /\ used_blocks = Cardinality(owned \cup Taken)
  /\ alloc_count = free_count + used_blocks
  /\ used_blocks <= peak_blocks /\ peak_blocks <= total_blocks
  /\ total_blocks = BlocksPerSlab * Cardinality(slabs)

\* A block reaches its caller zeroed ("prevent info leak from reused memory",
\* memory_pool.c:118), and from then on until it is freed only the caller
\* writes to it.
OwnedIsPrivate ==
  [][\A b \in Blocks :
       /\ b \in owned' \ owned => mem'[b] = Null
       /\ b \in owned \cap owned' => mem'[b] \in {mem[b], Data}]_poolVars
===============================================================================
