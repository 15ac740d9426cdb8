----------------------------- MODULE MemoryPools -----------------------------
(***************************************************************************)
(* The fixed size pools of sys/kern/memory/memory_pool.c on top of the     *)
(* kernel heap: every pool lives in three heap blocks, its descriptor, its *)
(* memory and its array of free blocks.  smart_alloc chooses among three   *)
(* predefined pools and kmalloc.                                           *)
(*                                                                         *)
(* kmalloc and kfree are functions of the heap here, made of the operators *)
(* of module HeapBlocks as the actions of module Heap are, because one     *)
(* call of this file makes several of them.  heap_used is left to module   *)
(* Heap: nothing here reads it.  Sizes are in granules.                    *)
(***************************************************************************)
EXTENDS HeapBlocks, Sequences, Functions

CONSTANTS
  POOL_T,        \* sizeof(memory_pool_t): 5 granules in the build
  SMALL, MEDIUM, LARGE,  \* block sizes of the predefined pools: 2, 8, 32
  PoolCounts,    \* their numbers of blocks: <<1024, 512, 128>> in the build
  Shapes,        \* <<block_size, num_blocks>> callers ask pool_create for
  Sizes,         \* sizes callers ask smart_alloc for
  MaxPools       \* bound on the pools callers create

VARIABLES
  hdr, held,     \* as in module Heap
  pools,         \* the live pools: address of the descriptor -> memory_pool_t
  predefined,    \* small_pool, medium_pool, large_pool; <<>> before they are made
  loans          \* what callers hold: address -> the size they may use

vars == <<hdr, held, pools, predefined, loans>>

(* A size kmalloc can add a header to without wrapping.                    *)
Asked(n) == n \in Nat /\ n + HDR < WORDS

ShapeAsked(block_size, num_blocks) ==
  /\ block_size \in Nat /\ num_blocks \in Nat
  /\ Asked(num_blocks * block_size) /\ Asked(num_blocks)

ASSUME PoolAssumption ==
  /\ {POOL_T, SMALL, MEDIUM, LARGE} \subseteq Nat \ {0}
  /\ SMALL <= MEDIUM /\ MEDIUM <= LARGE
  /\ Asked(POOL_T)
  /\ \A counts \in PoolCounts : /\ ShapeAsked(SMALL, counts[1])
                                /\ ShapeAsked(MEDIUM, counts[2])
                                /\ ShapeAsked(LARGE, counts[3])
  /\ \A shape \in Shapes : ShapeAsked(shape[1], shape[2])
  /\ \A size \in Sizes : Asked(size)
  /\ MaxPools \in Nat

(* The memory of the kernel: the heap and the pools in it; ptr is what the *)
(* last call returned.                                                     *)
Memory == [hdr |-> hdr, held |-> held, pools |-> pools, ptr |-> NULL]

Nothing(m) == [hdr |-> m.hdr, held |-> m.held, pools |-> m.pools, ptr |-> NULL]

(* kmalloc: m.ptr becomes the block, or null.                              *)
Malloc(m, n) ==
  LET fit == {c \in DOMAIN m.hdr : FirstFit(m.hdr, Total(n), c)}
      b   == CHOOSE c \in fit : TRUE
  IN  IF n = 0 \/ fit = {}
      THEN Nothing(m)
      ELSE [hdr |-> Take(m.hdr, b, Total(n)),
            held |-> [c \in DOMAIN m.held \cup {b} |-> IF c = b THEN n ELSE m.held[c]],
            pools |-> m.pools, ptr |-> b]

Free(m, b) ==
  IF b = NULL \/ m.hdr[b].is_free THEN m
  ELSE [hdr |-> Release(m.hdr, b), held |-> Without(m.held, b),
        pools |-> m.pools, ptr |-> m.ptr]

Payload(b) == b + HDR

(* Faulty variant: blocks one granule apart, whatever their size.          *)
BlockUnscaled(pool, i) == pool.pool_start + i

(* The i-th block of a pool, from 0, and all of them.                      *)
Block(pool, i) == pool.pool_start + i * pool.block_size

Blocks(pool) == {Block(pool, i) : i \in 0..(pool.total_blocks - 1)}

(* free_blocks is the length of free_list: the array beyond it is unused.  *)
NewPool(start, list, size, num) ==
  [pool_start |-> start, free_array |-> list, block_size |-> size,
   total_blocks |-> num,
   free_list |-> [i \in 1..num |->
                    Block([pool_start |-> start, block_size |-> size], i - 1)]]

(* Made(m, ...) is m with the pool in the three blocks just allocated.     *)
Made(m, desc, mem, list, block_size, num_blocks) ==
  [hdr |-> m.hdr, held |-> m.held,
   pools |-> [p \in DOMAIN m.pools \cup {desc} |->
                IF p = desc
                THEN NewPool(Payload(mem), Payload(list), block_size, num_blocks)
                ELSE m.pools[p]],
   ptr |-> desc]

(* Faulty variant: the descriptor is not given back when the array cannot  *)
(* be had.                                                                 *)
pool_create_leaks(m, block_size, num_blocks) ==
  LET desc == Malloc(m, POOL_T)
      mem  == Malloc(desc, (num_blocks * block_size) % WORDS)
      list == Malloc(mem, num_blocks)
  IN  IF block_size = 0 \/ num_blocks = 0 \/ desc.ptr = NULL THEN Nothing(m)
      ELSE IF mem.ptr = NULL THEN Nothing(Free(mem, desc.ptr))
      ELSE IF list.ptr = NULL THEN Nothing(Free(list, mem.ptr))
      ELSE Made(list, desc.ptr, mem.ptr, list.ptr, block_size, num_blocks)

pool_create(m, block_size, num_blocks) ==
  LET desc == Malloc(m, POOL_T)
      mem  == Malloc(desc, (num_blocks * block_size) % WORDS)
      list == Malloc(mem, num_blocks)
  IN  IF block_size = 0 \/ num_blocks = 0 \/ desc.ptr = NULL THEN Nothing(m)
      ELSE IF mem.ptr = NULL THEN Nothing(Free(mem, desc.ptr))
      ELSE IF list.ptr = NULL THEN Nothing(Free(Free(list, mem.ptr), desc.ptr))
      ELSE Made(list, desc.ptr, mem.ptr, list.ptr, block_size, num_blocks)

Becomes(m) == hdr' = m.hdr /\ held' = m.held /\ pools' = m.pools

Init ==
  /\ hdr = EmptyHeap
  /\ held = [b \in {} |-> 0]
  /\ pools = [p \in {} |-> 0]
  /\ predefined = <<>>
  /\ loans = [a \in {} |-> 0]

(* A pool that cannot be had is left null, with a warning.                 *)
init_memory_pools(counts) ==
  LET small  == pool_create(Memory, SMALL, counts[1])
      medium == pool_create(small, MEDIUM, counts[2])
      large  == pool_create(medium, LARGE, counts[3])
  IN  /\ predefined = <<>>
      /\ Becomes(large)
      /\ predefined' = <<small.ptr, medium.ptr, large.ptr>>
      /\ UNCHANGED loans

Lend(a, size) == loans' = [c \in DOMAIN loans \cup {a} |->
                             IF c = a THEN size ELSE loans[c]]

Retract(as) == loans' = [c \in DOMAIN loans \ as |-> loans[c]]

(* The last free block, for a caller that will use `size` of it.           *)
pool_alloc(p, size) ==
  IF p = NULL \/ pools[p].free_list = <<>> THEN UNCHANGED vars
  ELSE LET free == pools[p].free_list
       IN  /\ pools' = [pools EXCEPT ![p].free_list = SubSeq(free, 1, Len(free) - 1)]
           /\ Lend(free[Len(free)], size)
           /\ UNCHANGED <<hdr, held, predefined>>

(* Faulty variant: the scan of the free list is left out.                  *)
AcceptedTwice(pool, a) ==
  /\ a >= pool.pool_start
  /\ a < pool.pool_start + pool.total_blocks * pool.block_size
  /\ (a - pool.pool_start) % pool.block_size = 0
  /\ Len(pool.free_list) < pool.total_blocks

(* The tests pool_free makes on an address, in their order.                *)
Accepted(pool, a) ==
  /\ a >= pool.pool_start
  /\ a < pool.pool_start + pool.total_blocks * pool.block_size
  /\ (a - pool.pool_start) % pool.block_size = 0
  /\ a \notin Range(pool.free_list)
  /\ Len(pool.free_list) < pool.total_blocks

pool_free(p, a) ==
  IF p = NULL \/ a = NULL \/ ~Accepted(pools[p], a) THEN UNCHANGED vars
  ELSE /\ pools' = [pools EXCEPT ![p].free_list = Append(@, a)]
       /\ Retract({a})
       /\ UNCHANGED <<hdr, held, predefined>>

(* The three blocks of a pool go back to the heap, whoever still holds     *)
(* some of its memory.                                                     *)
pool_destroy(p) ==
  LET m == Free(Free(Free(Memory, pools[p].pool_start - HDR),
                     pools[p].free_array - HDR), p)
  IN  /\ hdr' = m.hdr
      /\ held' = m.held
      /\ pools' = Without(pools, p)
      /\ Retract(Blocks(pools[p]))
      /\ UNCHANGED predefined

(* Faulty variant: the tests are shifted by one pool.                      *)
PoolForShifted(size) ==
  IF size <= MEDIUM THEN 1 ELSE IF size <= LARGE THEN 2 ELSE 0

(* Which predefined pool serves a size; 0 when kmalloc does.               *)
PoolFor(size) ==
  IF size <= SMALL THEN 1 ELSE IF size <= MEDIUM THEN 2
  ELSE IF size <= LARGE THEN 3 ELSE 0

smart_alloc(size) ==
  \/ /\ PoolFor(size) # 0
     /\ pool_alloc(predefined[PoolFor(size)], size)
  \/ /\ PoolFor(size) = 0
     /\ LET m == Malloc(Memory, size)
        IN  /\ Becomes(m)
            /\ IF m.ptr = NULL THEN UNCHANGED loans ELSE Lend(Payload(m.ptr), size)
     /\ UNCHANGED predefined

(* Callers pass smart_free the size they asked for.                        *)
smart_free(a, size) ==
  \/ /\ PoolFor(size) # 0
     /\ pool_free(predefined[PoolFor(size)], a)
  \/ /\ PoolFor(size) = 0
     /\ Becomes(Free(Memory, IF a = NULL THEN NULL ELSE a - HDR))
     /\ Retract({a})
     /\ UNCHANGED predefined

Ready == predefined # <<>>

Created == DOMAIN pools \ Range(predefined)

CreatePool(shape) ==
  /\ Cardinality(Created) < MaxPools
  /\ Becomes(pool_create(Memory, shape[1], shape[2]))
  /\ UNCHANGED <<predefined, loans>>

(* Addresses pool_free is tried with: every granule of the heap, and null. *)
Addresses == HEAP_BASE..(HEAP_BASE + HEAP_SIZE) \cup {NULL}

(* A smart loan: one that smart_free takes back with this size.            *)
Smart(a) ==
  IF PoolFor(loans[a]) = 0 THEN \A p \in DOMAIN pools : a \notin Blocks(pools[p])
  ELSE LET p == predefined[PoolFor(loans[a])]
       IN  p # NULL /\ a \in Blocks(pools[p])

Next ==
  \/ \E counts \in PoolCounts : init_memory_pools(counts)
  \/ /\ Ready
     /\ \/ \E shape \in Shapes : CreatePool(shape)
        \/ \E p \in Created : pool_destroy(p)
        \/ \E p \in Created : pool_alloc(p, pools[p].block_size)
        \/ \E p \in DOMAIN pools \cup {NULL}, a \in Addresses : pool_free(p, a)
        \/ \E size \in Sizes : smart_alloc(size)
        \/ \E a \in DOMAIN loans : Smart(a) /\ smart_free(a, loans[a])

Spec == Init /\ [][Next]_vars

-----------------------------------------------------------------------------
(* Properties.                                                             *)

(* The three blocks of the heap a pool lives in.                           *)
Parts(p) == {p, pools[p].pool_start - HDR, pools[p].free_array - HDR}

(* Every block of every pool is either on its free list, once, or lent to  *)
(* a caller, never both and never neither, whatever is released twice,     *)
(* misaligned or into the wrong pool.                                      *)
PoolConserved ==
  \A p \in DOMAIN pools :
    LET free == pools[p].free_list
    IN  /\ Cardinality(Range(free)) = Len(free)
        /\ Range(free) \cup (DOMAIN loans \cap Blocks(pools[p])) = Blocks(pools[p])
        /\ Range(free) \cap DOMAIN loans = {}

(* No two callers share memory: what they hold, from pools or from the     *)
(* heap, does not overlap.                                                 *)
LoansApart ==
  \A a, c \in DOMAIN loans : a < c => a + loans[a] <= c

PoolMemory == UNION {Blocks(pools[p]) : p \in DOMAIN pools}

(* The allocated blocks of the heap are the three of each live pool and    *)
(* those callers hold directly: a pool_create that fails halfway gives     *)
(* back all it got, and pool_destroy gives back the whole pool. Under all  *)
(* of it the heap keeps its order.                                         *)
NoHeapLeak ==
  /\ WellFormed(hdr) /\ HeldMatches(hdr, held)
  /\ DOMAIN held = (UNION {Parts(p) : p \in DOMAIN pools})
                     \cup {a - HDR : a \in DOMAIN loans \ PoolMemory}

(* A loan fits the memory behind it: the block of the pool it came from is *)
(* at least as long as the caller asked, and so is its block of the heap.  *)
LoansFit ==
  \A a \in DOMAIN loans :
    \/ \E p \in DOMAIN pools :
         a \in Blocks(pools[p]) /\ loans[a] <= pools[p].block_size
    \/ a - HDR \in DOMAIN held /\ loans[a] <= hdr[a - HDR].size
=============================================================================
