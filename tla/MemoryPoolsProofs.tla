-------------------------- MODULE MemoryPoolsProofs --------------------------
(***************************************************************************)
(* Proofs about the pools of memory_pool.c, for every heap, every header,  *)
(* every number and size of blocks and every caller within PoolAssumption. *)
(*                                                                         *)
(* The invariant PoolInv says where everything lies: the heap is in order  *)
(* (HeapOK), every pool owns its three blocks of it and they are large     *)
(* enough (Owned), the free list of a pool and the loans divide its blocks *)
(* (Conserved), every loan is inside a pool or is a block of the heap of   *)
(* its own (LoansOK), every allocated block belongs to a pool or a caller  *)
(* (Accounted) and small_pool, medium_pool and large_pool have the sizes   *)
(* smart_alloc relies on (PredefinedOK).                                   *)
(*                                                                         *)
(* A call works on a memory m (the heap and the pools) and yields a memory *)
(* r; each is first shown to keep PoolsInv as a function of memories, and  *)
(* the actions are put together from these functions.                      *)
(***************************************************************************)
EXTENDS MemoryPools, HeapBlocksProofs, FiniteSetTheorems

(* The heap under the pools keeps its order.                               *)
HeapOK(m) ==
  /\ WellFormed(m.hdr) /\ Coalesced(m.hdr)
  /\ HeldMatches(m.hdr, m.held)

(* The blocks in S keep their sizes.                                       *)
Kept(m, r, S) == \A b \in S : r.hdr[b].size = m.hdr[b].size

(* kmalloc returned null and changed nothing.                              *)
MallocFails(m, r) == r.ptr = NULL /\ r.hdr = m.hdr /\ r.held = m.held

(* kmalloc returned a block nobody held, large enough for n.               *)
MallocGives(m, n, r) ==
  /\ n # 0
  /\ r.ptr \in Nat \ {NULL}
  /\ r.ptr \notin DOMAIN m.held
  /\ DOMAIN r.held = DOMAIN m.held \cup {r.ptr}
  /\ r.hdr[r.ptr].size >= n
  /\ Kept(m, r, DOMAIN m.held)

(* kmalloc keeps the heap in order; it fails without a change or gives a   *)
(* new block.                                                              *)
LEMMA MallocFacts ==
  ASSUME NEW m, HeapOK(m), NEW n, Asked(n), NEW r, r = Malloc(m, n)
  PROVE  /\ HeapOK(r)
         /\ r.pools = m.pools
         /\ MallocFails(m, r) \/ MallocGives(m, n, r)
<1> DEFINE fit == {c \in DOMAIN m.hdr : FirstFit(m.hdr, Total(n), c)}
<1>1. CASE n = 0 \/ fit = {}
  <2>1. Malloc(m, n) = Nothing(m)
    <3>1. PICK nothing : nothing = Nothing(m)
      OBVIOUS
    <3>2. Malloc(m, n) = nothing
      BY ONLY <1>1, <3>1 DEF Malloc
    <3>3. QED
      BY ONLY <3>1, <3>2
  <2>2. r = [hdr |-> m.hdr, held |-> m.held, pools |-> m.pools, ptr |-> NULL]
    BY <2>1 DEF Nothing
  <2>3. QED
    BY <2>2 DEF HeapOK, MallocFails
<1>2. CASE ~(n = 0 \/ fit = {})
  <2>1. PICK b \in fit : b = CHOOSE c \in fit : TRUE
    BY <1>2
  <2>2. r = [hdr |-> Take(m.hdr, b, Total(n)),
             held |-> [c \in DOMAIN m.held \cup {b} |-> IF c = b THEN n ELSE m.held[c]],
             pools |-> m.pools, ptr |-> b]
    BY <1>2, <2>1 DEF Malloc
  <2>3. b \in DOMAIN m.hdr /\ m.hdr[b].is_free /\ m.hdr[b].size >= Total(n)
    BY <2>1 DEF FirstFit, Fits
  <2>4. Total(n) \in Nat /\ Total(n) >= n
    BY LayoutAssumption DEF Total, Asked
  <2>5. TakeResult(m.hdr, b, Total(n), r.hdr)
    BY <2>2, <2>3, <2>4, TakeKeeps DEF HeapOK
  <2>6. /\ r.pools = m.pools /\ r.ptr = b
        /\ DOMAIN r.held = DOMAIN m.held \cup {b}
        /\ r.held[b] = n
        /\ \A c \in DOMAIN m.held : c # b => r.held[c] = m.held[c]
    BY <2>2
  <2>7. b \in Nat \ {NULL} /\ b \notin DOMAIN m.held
    BY <2>3 DEF HeapOK, WellFormed, BlockType, HeldMatches, Used
  <2>8. r.hdr[b].size >= n /\ n \in Nat
    <3>1. r.hdr[b].size \in Nat /\ r.hdr[b].size >= Total(n)
      <4>1. m.hdr[b].size \in Nat
        BY <2>3 DEF HeapOK, WellFormed, BlockType, heap_block_t
      <4>2. QED
        BY <2>4, <2>5, <4>1 DEF TakeResult
    <3>2. QED
      BY <2>4, <3>1 DEF Asked
  <2>9. HeapOK(r)
    BY <2>5, <2>6, <2>7, <2>8 DEF TakeResult, HeapOK, HeldMatches, Used
  <2>10. Kept(m, r, DOMAIN m.held)
    BY <2>5, <2>7 DEF TakeResult, Kept, HeapOK, HeldMatches, Used
  <2>11. QED
    BY <1>2, <2>6, <2>7, <2>8, <2>9, <2>10 DEF MallocGives
<1>3. QED
  BY <1>1, <1>2

(* kfree gave back b, and b alone.                                         *)
Freed(m, b, r) ==
  /\ r.pools = m.pools /\ r.ptr = m.ptr
  /\ DOMAIN r.held = DOMAIN m.held \ {b}
  /\ Kept(m, r, DOMAIN r.held)

(* kfree of an allocated block keeps the heap in order and gives back that *)
(* block alone.                                                            *)
LEMMA FreeFacts ==
  ASSUME NEW m, HeapOK(m), NEW b \in DOMAIN m.held, NEW r, r = Free(m, b)
  PROVE  HeapOK(r) /\ Freed(m, b, r)
<1>1. b \in DOMAIN m.hdr /\ ~m.hdr[b].is_free /\ b # NULL
  BY DEF HeapOK, HeldMatches, Used, WellFormed, BlockType
<1>2. r = [hdr |-> Release(m.hdr, b), held |-> Without(m.held, b),
           pools |-> m.pools, ptr |-> m.ptr]
  BY <1>1 DEF Free
<1>3. WellFormed(r.hdr) /\ Coalesced(r.hdr) /\ Shrunk(m.hdr, b, r.hdr)
  BY <1>1, <1>2, ReleaseKeeps DEF HeapOK
<1>4. DOMAIN r.held = DOMAIN m.held \ {b}
      /\ \A c \in DOMAIN r.held : r.held[c] = m.held[c]
  BY <1>2 DEF Without
<1>5. HeapOK(r)
  BY <1>1, <1>3, <1>4 DEF HeapOK, HeldMatches, Used, Shrunk
<1>6. Kept(m, r, DOMAIN r.held)
  BY <1>3, <1>4 DEF HeapOK, HeldMatches, Used, Shrunk, Kept
<1>7. QED
  BY <1>2, <1>4, <1>5, <1>6 DEF Freed

(* pool_create returned null: no pool was made and the same blocks are     *)
(* allocated.                                                              *)
NotCreated(m, r) ==
  /\ r.pools = m.pools /\ r.ptr = NULL
  /\ DOMAIN r.held = DOMAIN m.held
  /\ Kept(m, r, DOMAIN m.held)

(* pool_create returned a pool whose three blocks nobody held before.      *)
CreatedIn(m, r, mem, list, size, num) ==
  /\ size # 0 /\ num # 0
  /\ {r.ptr, mem, list} \subseteq Nat \ {NULL}
  /\ {r.ptr, mem, list} \cap DOMAIN m.held = {}
  /\ r.ptr # mem /\ r.ptr # list /\ mem # list
  /\ DOMAIN r.held = DOMAIN m.held \cup {r.ptr, mem, list}
  /\ Kept(m, r, DOMAIN m.held)
  /\ r.hdr[mem].size >= num * size
  /\ DOMAIN r.pools = DOMAIN m.pools \cup {r.ptr}
  /\ r.pools = [p \in DOMAIN r.pools |-> r.pools[p]]
  /\ r.pools[r.ptr] = NewPool(mem + HDR, list + HDR, size, num)
  /\ \A p \in DOMAIN m.pools \ {r.ptr} : r.pools[p] = m.pools[p]

(* pool_create either gives back all it got or makes a pool in three new   *)
(* blocks, whichever of its three calls of kmalloc fails.                  *)
LEMMA CreateFacts ==
  ASSUME NEW m, HeapOK(m), NEW size, NEW num, ShapeAsked(size, num),
         NEW r, r = pool_create(m, size, num)
  PROVE  /\ HeapOK(r)
         /\ NotCreated(m, r) \/ \E mem, list : CreatedIn(m, r, mem, list, size, num)
<1>1. PICK desc : desc = Malloc(m, POOL_T)
  OBVIOUS
<1>2. PICK mem : mem = Malloc(desc, (num * size) % WORDS)
  OBVIOUS
<1>3. PICK list : list = Malloc(mem, num)
  OBVIOUS
<1>4. r = IF size = 0 \/ num = 0 \/ desc.ptr = NULL THEN Nothing(m)
          ELSE IF mem.ptr = NULL THEN Nothing(Free(mem, desc.ptr))
          ELSE IF list.ptr = NULL THEN Nothing(Free(Free(list, mem.ptr), desc.ptr))
          ELSE Made(list, desc.ptr, mem.ptr, list.ptr, size, num)
  BY <1>1, <1>2, <1>3 DEF pool_create
<1>5. (num * size) % WORDS = num * size /\ Asked(num * size) /\ Asked(num) /\ Asked(POOL_T)
  <2>1. PICK product : product = num * size
    OBVIOUS
  <2>2. product \in Nat /\ product + HDR < WORDS
    BY <2>1 DEF ShapeAsked, Asked
  <2>3. product % WORDS = product
    BY <2>2, LayoutAssumption
  <2>4. QED
    BY <2>1, <2>3, PoolAssumption DEF ShapeAsked
<1>6. HeapOK(desc) /\ desc.pools = m.pools
      /\ (MallocFails(m, desc) \/ MallocGives(m, POOL_T, desc))
  BY <1>1, <1>5, MallocFacts
<1>7. HeapOK(mem) /\ mem.pools = m.pools
      /\ (MallocFails(desc, mem) \/ MallocGives(desc, num * size, mem))
  BY <1>2, <1>5, <1>6, MallocFacts
<1>8. HeapOK(list) /\ list.pools = m.pools
      /\ (MallocFails(mem, list) \/ MallocGives(mem, num, list))
  BY <1>3, <1>5, <1>7, MallocFacts
<1>9. CASE size = 0 \/ num = 0 \/ desc.ptr = NULL
  <2>1. /\ r.hdr = m.hdr /\ r.held = m.held
        /\ r.pools = m.pools /\ r.ptr = NULL
    BY <1>4, <1>9 DEF Nothing
  <2>2. QED
    BY <2>1 DEF HeapOK, NotCreated, Kept
<1>10. CASE size # 0 /\ num # 0 /\ desc.ptr # NULL /\ mem.ptr = NULL
  <2>1. MallocGives(m, POOL_T, desc) /\ MallocFails(desc, mem)
    BY <1>6, <1>7, <1>10 DEF MallocFails, MallocGives
  <2>2. PICK g : g = Free(mem, desc.ptr)
    OBVIOUS
  <2>3. HeapOK(g) /\ Freed(mem, desc.ptr, g)
    BY <1>7, <2>1, <2>2, FreeFacts DEF MallocGives, MallocFails
  <2>4. /\ r.hdr = g.hdr /\ r.held = g.held
        /\ r.pools = g.pools /\ r.ptr = NULL
    BY <1>4, <1>10, <2>2 DEF Nothing
  <2>5. NotCreated(m, r)
    <3>1. r.pools = m.pools
      BY <1>6, <1>7, <2>3, <2>4 DEF Freed
    <3>2. DOMAIN r.held = DOMAIN m.held
      BY <2>1, <2>3, <2>4 DEF Freed, MallocGives, MallocFails
    <3>3. Kept(m, r, DOMAIN m.held)
      BY <2>1, <2>3, <2>4, <3>2 DEF Freed, MallocGives, MallocFails, Kept
    <3>4. QED
      BY <2>4, <3>1, <3>2, <3>3 DEF NotCreated
  <2>6. QED
    BY <2>3, <2>4, <2>5 DEF HeapOK
<1>11. CASE size # 0 /\ num # 0 /\ desc.ptr # NULL /\ mem.ptr # NULL /\ list.ptr = NULL
  <2>1. /\ MallocGives(m, POOL_T, desc) /\ MallocGives(desc, num * size, mem)
        /\ MallocFails(mem, list)
    BY <1>6, <1>7, <1>8, <1>11 DEF MallocFails, MallocGives
  <2>2. PICK f : f = Free(list, mem.ptr)
    OBVIOUS
  <2>3. HeapOK(f) /\ Freed(list, mem.ptr, f)
    BY <1>8, <2>1, <2>2, FreeFacts DEF MallocGives, MallocFails
  <2>4. PICK g : g = Free(f, desc.ptr)
    OBVIOUS
  <2>5. desc.ptr \in DOMAIN f.held
    BY <2>1, <2>3 DEF MallocGives, MallocFails, Freed
  <2>6. HeapOK(g) /\ Freed(f, desc.ptr, g)
    BY <2>3, <2>4, <2>5, FreeFacts
  <2>7. /\ r.hdr = g.hdr /\ r.held = g.held
        /\ r.pools = g.pools /\ r.ptr = NULL
    BY <1>4, <1>11, <2>2, <2>4 DEF Nothing
  <2>8. DOMAIN r.held = DOMAIN m.held
    BY ONLY <2>1, <2>3, <2>6, <2>7 DEF Freed, MallocGives, MallocFails
  <2>9. Kept(m, r, DOMAIN m.held)
    BY ONLY <2>1, <2>3, <2>6, <2>7, <2>8 DEF Freed, MallocGives, MallocFails, Kept
  <2>10. r.pools = m.pools
    BY <1>6, <1>7, <1>8, <2>3, <2>6, <2>7 DEF Freed
  <2>11. QED
    BY <2>6, <2>7, <2>8, <2>9, <2>10 DEF HeapOK, NotCreated
<1>12. CASE size # 0 /\ num # 0 /\ desc.ptr # NULL /\ mem.ptr # NULL /\ list.ptr # NULL
  <2>1. /\ MallocGives(m, POOL_T, desc) /\ MallocGives(desc, num * size, mem)
        /\ MallocGives(mem, num, list)
    BY <1>6, <1>7, <1>8, <1>12 DEF MallocFails
  <2>2. r = Made(list, desc.ptr, mem.ptr, list.ptr, size, num)
    BY <1>4, <1>12
  <2>3. /\ r.hdr = list.hdr /\ r.held = list.held /\ r.ptr = desc.ptr
        /\ r.pools = [p \in DOMAIN m.pools \cup {desc.ptr} |->
                        IF p = desc.ptr
                        THEN NewPool(mem.ptr + HDR, list.ptr + HDR, size, num)
                        ELSE m.pools[p]]
    BY <1>6, <1>7, <1>8, <2>2 DEF Made, Payload
  <2>4. /\ DOMAIN r.held = DOMAIN m.held \cup {desc.ptr, mem.ptr, list.ptr}
        /\ {desc.ptr, mem.ptr, list.ptr} \subseteq Nat \ {NULL}
        /\ {desc.ptr, mem.ptr, list.ptr} \cap DOMAIN m.held = {}
        /\ desc.ptr # mem.ptr /\ desc.ptr # list.ptr /\ mem.ptr # list.ptr
    BY <2>1, <2>3 DEF MallocGives
  <2>5. Kept(m, r, DOMAIN m.held) /\ r.hdr[mem.ptr].size = mem.hdr[mem.ptr].size
    BY <2>1, <2>3 DEF MallocGives, Kept
  <2>6. r.hdr[mem.ptr].size >= num * size
    BY <2>1, <2>5 DEF MallocGives
  <2>7. CreatedIn(m, r, mem.ptr, list.ptr, size, num)
    BY <1>12, <2>3, <2>4, <2>5, <2>6 DEF CreatedIn
  <2>8. QED
    BY <1>8, <2>3, <2>7 DEF HeapOK
<1>13. QED
  BY <1>9, <1>10, <1>11, <1>12
(* What a product of natural numbers is at least.                          *)
LEMMA Multiples ==
  ASSUME NEW i \in Nat, NEW j \in Nat, NEW s \in Nat, i < j
  PROVE  i * s \in Nat /\ j * s \in Nat /\ i * s + s <= j * s
<1>1. i * s \in Nat /\ j * s \in Nat
  OBVIOUS
<1>2. PICK d \in Nat : j = i + 1 + d
  <2>1. j - i - 1 \in Nat /\ j = i + 1 + (j - i - 1)
    OBVIOUS
  <2> QED BY <2>1
<1>3. j * s = i * s + s + d * s /\ d * s \in Nat
  BY <1>2
<1>4. QED
  BY <1>1, <1>3

(* An address that the tests of pool_free find on a block boundary is one  *)
(* of the blocks.                                                          *)
LEMMA Divided ==
  ASSUME NEW x \in Nat, NEW s \in Nat \ {0}, x % s = 0
  PROVE  \E k \in Nat : x = k * s
<1>1. x = s * (x \div s) + (x % s) /\ x \div s \in Int
  OBVIOUS
<1>2. x \div s >= 0
  OBVIOUS
<1>3. QED
  BY <1>1, <1>2

(* A pool as pool_create fills it in.                                      *)
memory_pool_t ==
  [pool_start : Nat, free_array : Nat, block_size : Nat \ {0},
   total_blocks : Nat \ {0}, free_list : Seq(Nat)]

(* q is a pool.                                                            *)
PoolType(q) == q \in memory_pool_t

(* The blocks of a pool lie one after the other, inside its memory.        *)
BlocksPlaced(q) ==
  /\ \A a \in Blocks(q) : /\ a \in Nat
                          /\ q.pool_start <= a
                          /\ a + q.block_size <= q.pool_start + q.total_blocks * q.block_size
  /\ \A a, c \in Blocks(q) : a < c => a + q.block_size <= c

(* The blocks of a pool lie apart, inside its memory.                      *)
LEMMA BlockFacts ==
  ASSUME NEW q, PoolType(q)
  PROVE  BlocksPlaced(q)
<1>1. PICK start, size, total : /\ start = q.pool_start /\ size = q.block_size
                                /\ total = q.total_blocks
  OBVIOUS
<1>2. start \in Nat /\ size \in Nat /\ total \in Nat
  BY <1>1 DEF PoolType, memory_pool_t
<1>3. \A a \in Blocks(q) : \E i \in 0..(total - 1) : a = start + i * size
  BY <1>1 DEF Blocks, Block
<1>4. ASSUME NEW a \in Blocks(q)
      PROVE  a \in Nat /\ start <= a /\ a + size <= start + total * size
  <2>1. PICK i \in 0..(total - 1) : a = start + i * size
    BY <1>3
  <2>2. i * size \in Nat /\ i * size + size <= total * size /\ total * size \in Nat
    BY <1>2, Multiples
  <2> QED BY <1>2, <2>1, <2>2
<1>5. ASSUME NEW a \in Blocks(q), NEW c \in Blocks(q), a < c
      PROVE  a + size <= c
  <2>1. PICK i \in 0..(total - 1) : a = start + i * size
    BY <1>3
  <2>2. PICK j \in 0..(total - 1) : c = start + j * size
    BY <1>3
  <2>3. i \in Nat /\ j \in Nat /\ i * size \in Nat /\ j * size \in Nat
    BY <1>2
  <2>4. i < j
    <3> SUFFICES ASSUME j <= i PROVE FALSE
      BY <2>3
    <3>1. j = i \/ j < i
      BY <2>3
    <3>2. j < i => j * size + size <= i * size
      BY <1>2, <2>3, Multiples
    <3> QED BY <1>2, <1>5, <2>1, <2>2, <2>3, <3>1, <3>2
  <2>5. i * size + size <= j * size
    BY <1>2, <2>3, <2>4, Multiples
  <2> QED BY <1>2, <2>1, <2>2, <2>3, <2>5
<1>6. QED
  BY <1>1, <1>4, <1>5 DEF BlocksPlaced

(* An address pool_free takes back is a block of that pool that is not     *)
(* free.                                                                   *)
LEMMA AcceptedFacts ==
  ASSUME NEW q, PoolType(q), NEW a \in Nat, Accepted(q, a)
  PROVE  a \in Blocks(q) /\ a \notin Range(q.free_list)
<1>1. PICK start, size, total : /\ start = q.pool_start /\ size = q.block_size
                                /\ total = q.total_blocks
  OBVIOUS
<1>2. start \in Nat /\ size \in Nat \ {0} /\ total \in Nat
  BY <1>1 DEF PoolType, memory_pool_t
<1>3. a >= start /\ a < start + total * size /\ (a - start) % size = 0
  BY <1>1 DEF Accepted
<1>4. a - start \in Nat
  BY <1>2, <1>3
<1>5. PICK k \in Nat : a - start = k * size
  BY <1>2, <1>3, <1>4, Divided
<1>6. k < total
  <2> SUFFICES ASSUME total <= k PROVE FALSE
    BY <1>2
  <2>1. k = total \/ total < k
    BY <1>2
  <2>2. total < k => total * size + size <= k * size
    BY <1>2, Multiples
  <2>3. total * size \in Nat /\ k * size \in Nat
    BY <1>2
  <2> QED BY <1>2, <1>3, <1>4, <1>5, <2>1, <2>2, <2>3
<1>7. k \in 0..(total - 1) /\ a = start + k * size
  <2>1. k * size \in Nat
    BY <1>2
  <2> QED BY <1>2, <1>5, <1>6, <2>1
<1>8. QED
  BY <1>1, <1>7 DEF Accepted, Blocks, Block

(* pool_create puts each block of the pool on its free list, once.         *)
LEMMA NewPoolFacts ==
  ASSUME NEW start \in Nat, NEW list \in Nat, NEW size \in Nat \ {0},
         NEW num \in Nat \ {0}, NEW q, q = NewPool(start, list, size, num)
  PROVE  /\ PoolType(q)
         /\ q.pool_start = start /\ q.free_array = list
         /\ q.block_size = size /\ q.total_blocks = num
         /\ IsInjective(q.free_list)
         /\ Range(q.free_list) = Blocks(q)
<1>1. /\ q.pool_start = start /\ q.free_array = list
      /\ q.block_size = size /\ q.total_blocks = num
      /\ q.free_list = [i \in 1..num |-> start + (i - 1) * size]
  BY DEF NewPool, Block
<1>2. \A i \in 1..num : start + (i - 1) * size \in Nat
  OBVIOUS
<1>3. q.free_list \in Seq(Nat)
  BY <1>1, <1>2
<1>4. PICK f : f = q.free_list
  OBVIOUS
<1>5. DOMAIN f = 1..num /\ \A i \in 1..num : f[i] = start + (i - 1) * size
  BY <1>1, <1>4
<1>6. IsInjective(f)
  <2>1. ASSUME NEW i \in 1..num, NEW j \in 1..num, i < j
        PROVE  f[i] # f[j]
    <3>1. i - 1 \in Nat /\ j - 1 \in Nat /\ i - 1 < j - 1
      BY <2>1
    <3>2. /\ (i - 1) * size \in Nat /\ (j - 1) * size \in Nat
          /\ (i - 1) * size + size <= (j - 1) * size
      BY <3>1, Multiples
    <3>3. QED
      BY <1>5, <3>2
  <2>2. ASSUME NEW i \in 1..num, NEW j \in 1..num, f[i] = f[j]
        PROVE  i = j
    <3>1. i < j \/ i = j \/ j < i
      OBVIOUS
    <3>2. QED
      BY <2>1, <2>2, <3>1
  <2>3. QED
    BY <1>5, <2>2 DEF IsInjective
<1>7. \A a : a \in Blocks(q) <=> \E i \in 0..(num - 1) : a = start + i * size
  BY <1>1 DEF Blocks, Block
<1>8. \A a \in Range(f) : \E i \in 0..(num - 1) : a = start + i * size
  <2>1. \A i \in 1..num : i - 1 \in 0..(num - 1)
    OBVIOUS
  <2>2. QED
    BY <1>5, <2>1 DEF Range
<1>9. ASSUME NEW i \in 0..(num - 1) PROVE start + i * size \in Range(f)
  <2>1. i + 1 \in 1..num /\ (i + 1) - 1 = i
    OBVIOUS
  <2>2. QED
    BY <1>5, <2>1 DEF Range
<1>10. Range(f) = Blocks(q)
  BY <1>7, <1>8, <1>9
<1>11. q = [pool_start |-> start, free_array |-> list, block_size |-> size,
            total_blocks |-> num, free_list |-> f]
  BY <1>4 DEF NewPool
<1>12. PoolType(q)
  BY <1>3, <1>4, <1>11 DEF PoolType, memory_pool_t
<1>13. QED
  BY <1>1, <1>4, <1>6, <1>10, <1>12

(* The list after an address is added at the end.                          *)
LEMMA AppendFacts ==
  ASSUME NEW f \in Seq(Nat), IsInjective(f), NEW a \in Nat, a \notin Range(f),
         NEW g, g = Append(f, a)
  PROVE  g \in Seq(Nat) /\ IsInjective(g) /\ Range(g) = Range(f) \cup {a}
<1>1. /\ g \in Seq(Nat) /\ Len(f) \in Nat
      /\ DOMAIN f = 1..Len(f) /\ DOMAIN g = 1..(Len(f) + 1)
      /\ g[Len(f) + 1] = a /\ \A i \in 1..Len(f) : g[i] = f[i]
  OBVIOUS
<1>2. Len(f) + 1 \in DOMAIN g /\ DOMAIN g = DOMAIN f \cup {Len(f) + 1}
  BY <1>1
<1>3. IsInjective(g)
  BY <1>1, <1>2 DEF IsInjective, Range
<1>4. Range(g) = Range(f) \cup {a}
  BY <1>1, <1>2 DEF Range
<1>5. QED
  BY <1>1, <1>3, <1>4

(* The list after its last address is removed.                             *)
LEMMA LastFacts ==
  ASSUME NEW f \in Seq(Nat), IsInjective(f), f # <<>>, NEW g,
         g = SubSeq(f, 1, Len(f) - 1)
  PROVE  /\ g \in Seq(Nat) /\ IsInjective(g) /\ f[Len(f)] \in Range(f)
         /\ Range(g) = Range(f) \ {f[Len(f)]}
<1>1. Len(f) \in Nat \ {0} /\ DOMAIN f = 1..Len(f)
  OBVIOUS
<1>2. /\ g \in Seq(Nat) /\ DOMAIN g = 1..(Len(f) - 1)
      /\ \A i \in 1..(Len(f) - 1) : g[i] = f[i]
  BY <1>1
<1>3. Len(f) \in DOMAIN f /\ DOMAIN g = DOMAIN f \ {Len(f)}
  BY <1>1, <1>2
<1>4. IsInjective(g)
  BY <1>1, <1>2, <1>3 DEF IsInjective
<1>5. f[Len(f)] \in Range(f)
  BY <1>3 DEF Range
<1>6. Range(g) = Range(f) \ {f[Len(f)]}
  <2>1. ASSUME NEW i \in DOMAIN g PROVE g[i] \in Range(f) /\ g[i] # f[Len(f)]
    BY <1>1, <1>2, <1>3 DEF IsInjective, Range
  <2>2. ASSUME NEW i \in DOMAIN f, f[i] # f[Len(f)] PROVE f[i] \in Range(g)
    <3>1. i \in DOMAIN g /\ g[i] = f[i]
      BY <1>2, <1>3, <2>2
    <3>2. QED
      BY <3>1 DEF Range
  <2>3. QED
    BY <2>1, <2>2 DEF Range
<1>7. QED
  BY <1>2, <1>4, <1>5, <1>6

(* The three blocks of the heap of a pool q at p.                          *)
PartsOf(q, p) == {p, q.pool_start - HDR, q.free_array - HDR}

(* A pool holds three different blocks of the heap, and its memory is long *)
(* enough for its blocks.                                                  *)
PoolPlaced(m, p) ==
  /\ PoolType(m.pools[p])
  /\ PartsOf(m.pools[p], p) \subseteq DOMAIN m.held
  /\ p # m.pools[p].pool_start - HDR
  /\ p # m.pools[p].free_array - HDR
  /\ m.pools[p].pool_start # m.pools[p].free_array
  /\ m.pools[p].total_blocks * m.pools[p].block_size
       <= m.hdr[m.pools[p].pool_start - HDR].size

(* Every pool has its three blocks of the heap to itself.                  *)
Owned(m) ==
  /\ m.pools = [p \in DOMAIN m.pools |-> m.pools[p]]
  /\ \A p \in DOMAIN m.pools : PoolPlaced(m, p)
  /\ \A p, q \in DOMAIN m.pools :
       p # q => PartsOf(m.pools[p], p) \cap PartsOf(m.pools[q], q) = {}

(* The free list of a pool and the loans divide its blocks.                *)
FreeExact(q, l) ==
  /\ IsInjective(q.free_list)
  /\ Range(q.free_list) \cup (DOMAIN l \cap Blocks(q)) = Blocks(q)
  /\ Range(q.free_list) \cap DOMAIN l = {}

(* No block of a pool is lost or on the list while it is lent.             *)
Conserved(m, l) == \A p \in DOMAIN m.pools : FreeExact(m.pools[p], l)

(* b is one of the blocks of some pool.                                    *)
InParts(m, b) == \E p \in DOMAIN m.pools : b \in PartsOf(m.pools[p], p)

(* The loan at a is a block of a pool.                                     *)
FromPool(m, l, a) ==
  \E p \in DOMAIN m.pools : a \in Blocks(m.pools[p]) /\ l[a] <= m.pools[p].block_size

(* The loan at a is a block of the heap that no pool uses.                 *)
FromHeap(m, l, a) ==
  a - HDR \in DOMAIN m.held /\ l[a] <= m.hdr[a - HDR].size /\ ~InParts(m, a - HDR)

(* What callers hold is theirs: a block of a pool or a block of the heap.  *)
LoansOK(m, l) ==
  \A a \in DOMAIN l : a \in Nat /\ l[a] \in Nat /\ (FromPool(m, l, a) \/ FromHeap(m, l, a))

(* Every allocated block of the heap belongs to a pool or to a caller.     *)
Accounted(m, l) ==
  \A b \in DOMAIN m.held : InParts(m, b) \/ b + HDR \in DOMAIN l

(* All that is kept by every call, for a memory m and the loans l.         *)
PoolsInv(m, l) ==
  HeapOK(m) /\ Owned(m) /\ Conserved(m, l) /\ LoansOK(m, l) /\ Accounted(m, l)

(* Where blocks of the heap lie.                                           *)
HeldPlaced(m) ==
  /\ \A b \in DOMAIN m.held : b \in Nat /\ b # NULL /\ m.hdr[b].size \in Nat
  /\ \A b, c \in DOMAIN m.held : b < c => b + HDR + m.hdr[b].size <= c

(* The allocated blocks of a heap in order lie one after the other.        *)
LEMMA HeldFacts ==
  ASSUME NEW m, HeapOK(m)
  PROVE  HeldPlaced(m)
<1>1. \A b \in DOMAIN m.held : b \in DOMAIN m.hdr
  BY DEF HeapOK, HeldMatches, Used
<1>2. \A b \in DOMAIN m.hdr : b \in Nat /\ b # NULL /\ m.hdr[b].size \in Nat
  BY DEF HeapOK, WellFormed, BlockType, heap_block_t
<1>3. \A b, c \in DOMAIN m.hdr : b < c => b + HDR + m.hdr[b].size <= c
  BY DEF HeapOK, WellFormed, Apart, End
<1>4. QED
  BY <1>1, <1>2, <1>3 DEF HeldPlaced

(* The n granules at a lie in the memory of block b.                       *)
Inside(m, b, a, n) ==
  /\ b \in DOMAIN m.held /\ a \in Nat /\ n \in Nat
  /\ b + HDR <= a /\ a + n <= b + HDR + m.hdr[b].size

(* What lies in two different blocks of the heap does not overlap.         *)
LEMMA InsideApart ==
  ASSUME NEW m, HeldPlaced(m), NEW b, NEW c, b # c, NEW a, NEW d, NEW n, NEW k,
         Inside(m, b, a, n), Inside(m, c, d, k)
  PROVE  a # d /\ (a < d => a + n <= d)
<1>1. /\ b \in Nat /\ c \in Nat /\ a \in Nat /\ d \in Nat /\ n \in Nat /\ k \in Nat
      /\ m.hdr[b].size \in Nat /\ m.hdr[c].size \in Nat
      /\ HDR \in Nat \ {0}
  BY LayoutAssumption DEF Inside, HeldPlaced
<1>2. CASE b < c
  BY <1>1, <1>2 DEF Inside, HeldPlaced
<1>3. CASE c < b
  BY <1>1, <1>3 DEF Inside, HeldPlaced
<1>4. QED
  BY <1>1, <1>2, <1>3

(* A block of a pool lies in the block of the heap with the pool's memory. *)
LEMMA BlockInside ==
  ASSUME NEW m, HeldPlaced(m), NEW p \in DOMAIN m.pools, PoolPlaced(m, p),
         NEW a \in Blocks(m.pools[p])
  PROVE  Inside(m, m.pools[p].pool_start - HDR, a, m.pools[p].block_size)
<1>1. PICK q : q = m.pools[p]
  OBVIOUS
<1>2. PoolType(q) /\ BlocksPlaced(q)
  BY <1>1, BlockFacts DEF PoolPlaced
<1>3. PICK room : room = q.total_blocks * q.block_size
  OBVIOUS
<1>4. PICK b : b = q.pool_start - HDR
  OBVIOUS
<1>5. b \in DOMAIN m.held /\ room <= m.hdr[b].size /\ b + HDR = q.pool_start
  BY <1>1, <1>2, <1>3, <1>4, LayoutAssumption DEF PoolPlaced, PartsOf, PoolType, memory_pool_t
<1>6. a \in Nat /\ q.pool_start <= a /\ a + q.block_size <= q.pool_start + room
  BY <1>1, <1>2, <1>3 DEF BlocksPlaced
<1>7. b \in Nat /\ m.hdr[b].size \in Nat /\ room \in Nat /\ q.block_size \in Nat
  BY <1>2, <1>3, <1>5 DEF HeldPlaced, PoolType, memory_pool_t
<1>8. PICK start, size : start = q.pool_start /\ size = m.hdr[b].size
  OBVIOUS
<1>9. start \in Nat /\ HDR \in Nat
  BY <1>2, <1>8, LayoutAssumption DEF PoolType, memory_pool_t
<1>10. b + HDR <= a /\ a + q.block_size <= b + HDR + m.hdr[b].size
  BY <1>5, <1>6, <1>7, <1>8, <1>9
<1>11. Inside(m, b, a, q.block_size)
  BY <1>5, <1>6, <1>7, <1>10 DEF Inside
<1>12. QED
  BY <1>1, <1>4, <1>11

(* Two pools have no block in common.                                      *)
LEMMA BlocksDisjoint ==
  ASSUME NEW m, HeldPlaced(m), Owned(m), NEW p \in DOMAIN m.pools,
         NEW q \in DOMAIN m.pools, p # q, NEW a \in Blocks(m.pools[p])
  PROVE  a \notin Blocks(m.pools[q])
<1> SUFFICES ASSUME a \in Blocks(m.pools[q]) PROVE FALSE
  OBVIOUS
<1>1. PoolPlaced(m, p) /\ PoolPlaced(m, q)
  BY DEF Owned
<1>2. /\ Inside(m, m.pools[p].pool_start - HDR, a, m.pools[p].block_size)
      /\ Inside(m, m.pools[q].pool_start - HDR, a, m.pools[q].block_size)
  BY <1>1, BlockInside
<1>3. m.pools[p].pool_start - HDR # m.pools[q].pool_start - HDR
  BY DEF Owned, PartsOf
<1>4. QED
  BY <1>2, <1>3, InsideApart

(* A block of the heap that is no part of a pool is no pool's memory.      *)
LEMMA HeapBlockOutside ==
  ASSUME NEW m, HeldPlaced(m), Owned(m), NEW b \in DOMAIN m.held, ~InParts(m, b),
         NEW p \in DOMAIN m.pools
  PROVE  b + HDR \notin Blocks(m.pools[p])
<1> SUFFICES ASSUME b + HDR \in Blocks(m.pools[p]) PROVE FALSE
  OBVIOUS
<1>1. PoolPlaced(m, p)
  BY DEF Owned
<1>2. Inside(m, m.pools[p].pool_start - HDR, b + HDR, m.pools[p].block_size)
  BY <1>1, BlockInside
<1>3. Inside(m, b, b + HDR, 0)
  BY LayoutAssumption DEF Inside, HeldPlaced
<1>4. b # m.pools[p].pool_start - HDR
  BY DEF InParts, PartsOf
<1>5. QED
  BY <1>2, <1>3, <1>4, InsideApart

(* No two loans overlap.                                                   *)
LEMMA LoansLieApart ==
  ASSUME NEW m, NEW l, PoolsInv(m, l), NEW a \in DOMAIN l, NEW c \in DOMAIN l, a < c
  PROVE  a + l[a] <= c
<1>1. HeldPlaced(m) /\ Owned(m) /\ LoansOK(m, l)
  BY HeldFacts DEF PoolsInv
<1>2. a \in Nat /\ c \in Nat /\ l[a] \in Nat /\ l[c] \in Nat
  BY <1>1 DEF LoansOK
<1>3. ASSUME FromHeap(m, l, a) PROVE Inside(m, a - HDR, a, l[a])
  BY <1>1, <1>2, <1>3, LayoutAssumption DEF FromHeap, HeldPlaced, Inside
<1>4. ASSUME FromHeap(m, l, c) PROVE Inside(m, c - HDR, c, l[c])
  BY <1>1, <1>2, <1>4, LayoutAssumption DEF FromHeap, HeldPlaced, Inside
<1>5. CASE FromHeap(m, l, a) /\ FromHeap(m, l, c)
  <2>1. a - HDR # c - HDR
    BY <1>2, LayoutAssumption
  <2>2. QED
    BY <1>1, <1>3, <1>4, <1>5, <2>1, InsideApart
<1>6. CASE FromHeap(m, l, a) /\ FromPool(m, l, c)
  <2>1. PICK p \in DOMAIN m.pools : c \in Blocks(m.pools[p])
    BY <1>6 DEF FromPool
  <2>2. Inside(m, m.pools[p].pool_start - HDR, c, m.pools[p].block_size)
    BY <1>1, <2>1, BlockInside DEF Owned
  <2>3. a - HDR # m.pools[p].pool_start - HDR
    BY <1>6 DEF FromHeap, InParts, PartsOf
  <2>4. QED
    BY <1>1, <1>3, <1>6, <2>2, <2>3, InsideApart
<1>7. CASE FromPool(m, l, a)
  <2>1. PICK p \in DOMAIN m.pools : a \in Blocks(m.pools[p]) /\ l[a] <= m.pools[p].block_size
    BY <1>7 DEF FromPool
  <2>2. Inside(m, m.pools[p].pool_start - HDR, a, m.pools[p].block_size)
    BY <1>1, <2>1, BlockInside DEF Owned
  <2>3. PICK size : size = m.pools[p].block_size
    OBVIOUS
  <2>4. size \in Nat
    BY <1>1, <2>3 DEF Owned, PoolPlaced, PoolType, memory_pool_t
  <2>5. a + size <= c
    <3>1. CASE FromHeap(m, l, c)
      <4>1. c - HDR # m.pools[p].pool_start - HDR
        BY <3>1 DEF FromHeap, InParts, PartsOf
      <4>2. QED
        BY <1>1, <1>4, <2>2, <2>3, <3>1, <4>1, InsideApart
    <3>2. CASE FromPool(m, l, c)
      <4>1. PICK q \in DOMAIN m.pools : c \in Blocks(m.pools[q])
        BY <3>2 DEF FromPool
      <4>2. CASE p = q
        <5>1. BlocksPlaced(m.pools[p])
          BY <1>1, BlockFacts DEF Owned, PoolPlaced
        <5>2. QED
          BY <2>1, <2>3, <4>1, <4>2, <5>1 DEF BlocksPlaced
      <4>3. CASE p # q
        <5>1. Inside(m, m.pools[q].pool_start - HDR, c, m.pools[q].block_size)
          BY <1>1, <4>1, BlockInside DEF Owned
        <5>2. m.pools[p].pool_start - HDR # m.pools[q].pool_start - HDR
          BY <1>1, <4>3 DEF Owned, PartsOf
        <5>3. QED
          BY <1>1, <2>2, <2>3, <5>1, <5>2, InsideApart
      <4>4. QED
        BY <4>2, <4>3
    <3>3. QED
      BY <1>1, <3>1, <3>2 DEF LoansOK
  <2>6. QED
    BY <1>2, <2>1, <2>3, <2>4, <2>5
<1>8. QED
  BY <1>1, <1>5, <1>6, <1>7 DEF LoansOK

(* The pools stay as they are while the blocks they live in do.            *)
LEMMA OwnedKept ==
  ASSUME NEW m, Owned(m), NEW r, r.pools = m.pools,
         \A b \in DOMAIN m.held :
           InParts(m, b) => b \in DOMAIN r.held /\ r.hdr[b].size = m.hdr[b].size
  PROVE  Owned(r)
<1>1. ASSUME NEW p \in DOMAIN m.pools PROVE PoolPlaced(r, p)
  <2>1. PoolPlaced(m, p)
    BY DEF Owned
  <2>2. \A b \in PartsOf(m.pools[p], p) :
           b \in DOMAIN r.held /\ r.hdr[b].size = m.hdr[b].size
    BY <2>1 DEF PoolPlaced, InParts
  <2>3. m.pools[p].pool_start - HDR \in PartsOf(m.pools[p], p)
    BY DEF PartsOf
  <2>4. QED
    BY <2>1, <2>2, <2>3 DEF PoolPlaced
<1>2. QED
  BY <1>1 DEF Owned

(* A pool_create that fails keeps all.                                     *)
LEMMA NotCreatedKeeps ==
  ASSUME NEW m, NEW l, PoolsInv(m, l), NEW r, HeapOK(r), NotCreated(m, r)
  PROVE  PoolsInv(r, l)
<1>1. Owned(r)
  BY OwnedKept DEF PoolsInv, NotCreated, Kept
<1>2. Conserved(r, l)
  BY DEF PoolsInv, NotCreated, Conserved
<1>3. \A b : InParts(r, b) <=> InParts(m, b)
  BY DEF NotCreated, InParts
<1>4. LoansOK(r, l)
  <2>1. \A a \in DOMAIN l : FromPool(m, l, a) => FromPool(r, l, a)
    BY DEF NotCreated, FromPool
  <2>2. \A a \in DOMAIN l : FromHeap(m, l, a) => FromHeap(r, l, a)
    BY <1>3 DEF NotCreated, FromHeap, Kept
  <2>3. QED
    BY <2>1, <2>2 DEF PoolsInv, LoansOK
<1>5. Accounted(r, l)
  BY <1>3 DEF PoolsInv, NotCreated, Accounted
<1>6. QED
  BY <1>1, <1>2, <1>4, <1>5 DEF PoolsInv

(* A pool_create that succeeds keeps all: no loan can lie in the new pool, *)
(* whose blocks of the heap were free.                                     *)
LEMMA CreatedKeeps ==
  ASSUME NEW m, NEW l, PoolsInv(m, l), NEW r, HeapOK(r),
         NEW mem, NEW list, NEW size \in Nat, NEW num \in Nat,
         CreatedIn(m, r, mem, list, size, num)
  PROVE  /\ PoolsInv(r, l)
         /\ r.ptr \in DOMAIN r.pools
         /\ r.pools[r.ptr].block_size = size
         /\ \A p \in DOMAIN m.pools : p \in DOMAIN r.pools /\ r.pools[p] = m.pools[p]
<1>1. PICK d : d = r.ptr
  OBVIOUS
<1>2. PICK q : q = NewPool(mem + HDR, list + HDR, size, num)
  OBVIOUS
<1>3. /\ d \in Nat /\ mem \in Nat /\ list \in Nat /\ size \in Nat \ {0} /\ num \in Nat \ {0}
      /\ d # mem /\ d # list /\ mem # list
      /\ d \notin DOMAIN m.held /\ mem \notin DOMAIN m.held /\ list \notin DOMAIN m.held
  BY <1>1 DEF CreatedIn
<1>4. /\ DOMAIN r.held = DOMAIN m.held \cup {d, mem, list}
      /\ DOMAIN r.pools = DOMAIN m.pools \cup {d}
      /\ r.pools[d] = q
      /\ r.hdr[mem].size >= num * size
      /\ r.pools = [p \in DOMAIN r.pools |-> r.pools[p]]
      /\ Kept(m, r, DOMAIN m.held)
  BY <1>1, <1>2 DEF CreatedIn
<1>5. /\ PoolType(q) /\ q.pool_start = mem + HDR /\ q.free_array = list + HDR
      /\ q.block_size = size /\ q.total_blocks = num
      /\ IsInjective(q.free_list) /\ Range(q.free_list) = Blocks(q)
  <2>1. mem + HDR \in Nat /\ list + HDR \in Nat
    BY <1>3, LayoutAssumption
  <2>2. QED
    BY <1>2, <1>3, <2>1, NewPoolFacts
<1>6. ASSUME NEW p \in DOMAIN m.pools
      PROVE  /\ p # d /\ r.pools[p] = m.pools[p]
             /\ PoolPlaced(m, p) /\ PartsOf(m.pools[p], p) \subseteq DOMAIN m.held
  <2>1. PoolPlaced(m, p)
    BY DEF PoolsInv, Owned
  <2>2. PartsOf(m.pools[p], p) \subseteq DOMAIN m.held /\ p \in DOMAIN m.held
    BY <2>1 DEF PoolPlaced, PartsOf
  <2>3. p # d
    BY <1>3, <2>2
  <2>4. QED
    BY <1>1, <2>1, <2>2, <2>3 DEF CreatedIn
<1>7. PartsOf(q, d) = {d, mem, list}
  BY <1>3, <1>5, LayoutAssumption DEF PartsOf
<1>8. Owned(r)
  <2>1. ASSUME NEW p \in DOMAIN m.pools PROVE PoolPlaced(r, p)
    <3>1. m.pools[p].pool_start - HDR \in DOMAIN m.held
      BY <1>6 DEF PartsOf
    <3>2. QED
      BY <1>4, <1>6, <3>1 DEF PoolPlaced, Kept
  <2>2. PoolPlaced(r, d)
    <3>1. q.pool_start - HDR = mem /\ q.free_array - HDR = list
      BY <1>3, <1>5, LayoutAssumption
    <3>2. q.pool_start # q.free_array
      BY <1>3, <3>1
    <3>3. PartsOf(q, d) \subseteq DOMAIN r.held
      BY <1>4, <1>7
    <3>4. QED
      BY <1>3, <1>4, <1>5, <3>1, <3>2, <3>3 DEF PoolPlaced
  <2>3. ASSUME NEW p \in DOMAIN m.pools
        PROVE  PartsOf(r.pools[p], p) \cap PartsOf(r.pools[d], d) = {}
    BY <1>3, <1>4, <1>6, <1>7
  <2>4. ASSUME NEW p \in DOMAIN m.pools, NEW c \in DOMAIN m.pools, p # c
        PROVE  PartsOf(r.pools[p], p) \cap PartsOf(r.pools[c], c) = {}
    BY <1>6, <2>4 DEF PoolsInv, Owned
  <2>5. QED
    BY <1>4, <2>1, <2>2, <2>3, <2>4 DEF Owned
<1>9. HeldPlaced(r)
  BY HeldFacts
<1>10. \A b : InParts(m, b) => InParts(r, b)
  BY <1>4, <1>6 DEF InParts
<1>11. \A b : InParts(r, b) => InParts(m, b) \/ b \in {d, mem, list}
  BY <1>4, <1>6, <1>7 DEF InParts
<1>12. LoansOK(r, l)
  <2>1. \A a \in DOMAIN l : FromPool(m, l, a) => FromPool(r, l, a)
    BY <1>4, <1>6 DEF FromPool
  <2>2. ASSUME NEW a \in DOMAIN l, FromHeap(m, l, a) PROVE FromHeap(r, l, a)
    <3>1. a - HDR \in DOMAIN m.held /\ l[a] <= m.hdr[a - HDR].size /\ ~InParts(m, a - HDR)
      BY <2>2 DEF FromHeap
    <3>2. ~InParts(r, a - HDR)
      BY <1>3, <1>11, <3>1
    <3>3. QED
      BY <1>4, <3>1, <3>2 DEF FromHeap, Kept
  <2>3. QED
    BY <2>1, <2>2 DEF PoolsInv, LoansOK
<1>13. Accounted(r, l)
  <2>1. InParts(r, d) /\ InParts(r, mem) /\ InParts(r, list)
    BY <1>4, <1>7 DEF InParts
  <2>2. QED
    BY <1>4, <1>10, <2>1 DEF PoolsInv, Accounted
<1>14. DOMAIN l \cap Blocks(q) = {}
  <2> SUFFICES ASSUME NEW a \in DOMAIN l, a \in Blocks(q) PROVE FALSE
    OBVIOUS
  <2>1. d \in DOMAIN r.pools /\ PoolPlaced(r, d) /\ a \in Blocks(r.pools[d])
    BY <1>4, <1>8 DEF Owned
  <2>2. Inside(r, r.pools[d].pool_start - HDR, a, r.pools[d].block_size)
    BY <1>9, <2>1, BlockInside
  <2>3. r.pools[d].pool_start - HDR = mem
    BY <1>3, <1>4, <1>5, LayoutAssumption
  <2>4. CASE FromPool(m, l, a)
    <3>1. PICK p \in DOMAIN m.pools : a \in Blocks(m.pools[p])
      BY <2>4 DEF FromPool
    <3>2. p \in DOMAIN r.pools /\ a \in Blocks(r.pools[p]) /\ p # d
      BY <1>4, <1>6, <3>1
    <3>3. QED
      BY <1>8, <1>9, <2>1, <3>2, BlocksDisjoint
  <2>5. CASE FromHeap(m, l, a)
    <3>1. a - HDR \in DOMAIN r.held /\ ~InParts(r, a - HDR) /\ a \in Nat
      <4>1. a - HDR \in DOMAIN m.held /\ ~InParts(m, a - HDR) /\ a \in Nat
        BY <2>5 DEF FromHeap, PoolsInv, LoansOK
      <4>2. QED
        BY <1>3, <1>4, <1>11, <4>1
    <3>2. a - HDR + HDR = a
      BY <3>1, LayoutAssumption
    <3>3. a - HDR + HDR \notin Blocks(r.pools[d])
      BY <1>8, <1>9, <2>1, <3>1, HeapBlockOutside
    <3>4. QED
      BY <2>1, <3>2, <3>3
  <2>6. QED
    BY <2>4, <2>5 DEF PoolsInv, LoansOK
<1>15. Conserved(r, l)
  <2>1. FreeExact(q, l)
    BY <1>5, <1>14 DEF FreeExact
  <2>2. \A p \in DOMAIN m.pools : FreeExact(r.pools[p], l)
    BY <1>6 DEF PoolsInv, Conserved
  <2>3. QED
    BY <1>4, <2>1, <2>2 DEF Conserved
<1>16. QED
  BY <1>1, <1>4, <1>5, <1>6, <1>8, <1>12, <1>13, <1>15 DEF PoolsInv

(* s is the pool q with another free list.                                 *)
Relisted(q, s, g) ==
  /\ PoolType(s)
  /\ s.pool_start = q.pool_start /\ s.free_array = q.free_array
  /\ s.block_size = q.block_size /\ s.total_blocks = q.total_blocks
  /\ s.free_list = g
  /\ Blocks(s) = Blocks(q)

(* Assigning the free list leaves the pool's place, sizes and blocks       *)
(* alone.                                                                  *)
LEMMA RelistedPool ==
  ASSUME NEW q, PoolType(q), NEW g \in Seq(Nat), NEW s, s = [q EXCEPT !.free_list = g]
  PROVE  Relisted(q, s, g)
<1>1. /\ s \in memory_pool_t
      /\ s.pool_start = q.pool_start /\ s.free_array = q.free_array
      /\ s.block_size = q.block_size /\ s.total_blocks = q.total_blocks
      /\ s.free_list = g
  BY DEF PoolType, memory_pool_t
<1>2. Blocks(s) = Blocks(q)
  BY <1>1 DEF Blocks, Block
<1>3. QED
  BY <1>1, <1>2 DEF Relisted, PoolType

(* r is m with another free list in the pool at p.                         *)
RelistedIn(m, r, p, g) ==
  /\ r.hdr = m.hdr /\ r.held = m.held
  /\ r.pools = [c \in DOMAIN r.pools |-> r.pools[c]]
  /\ DOMAIN r.pools = DOMAIN m.pools
  /\ Relisted(m.pools[p], r.pools[p], g)
  /\ \A c \in DOMAIN m.pools \ {p} : r.pools[c] = m.pools[c]

(* The pools of m are still there, with blocks of the same size.           *)
SameSizes(m, r) ==
  \A p \in DOMAIN m.pools :
    p \in DOMAIN r.pools /\ r.pools[p].block_size = m.pools[p].block_size

(* Another free list changes nothing about the heap or where the pools     *)
(* lie.                                                                    *)
LEMMA RelistedKeeps ==
  ASSUME NEW m, HeapOK(m), Owned(m), NEW r, NEW p \in DOMAIN m.pools, NEW g,
         RelistedIn(m, r, p, g)
  PROVE  /\ HeapOK(r) /\ Owned(r) /\ SameSizes(m, r)
         /\ \A b : InParts(r, b) <=> InParts(m, b)
         /\ \A c \in DOMAIN m.pools : Blocks(r.pools[c]) = Blocks(m.pools[c])
<1>1. \A c \in DOMAIN m.pools :
        /\ r.pools[c].pool_start = m.pools[c].pool_start
        /\ r.pools[c].free_array = m.pools[c].free_array
        /\ r.pools[c].block_size = m.pools[c].block_size
        /\ r.pools[c].total_blocks = m.pools[c].total_blocks
        /\ PoolType(m.pools[c]) => PoolType(r.pools[c])
        /\ Blocks(r.pools[c]) = Blocks(m.pools[c])
  BY DEF RelistedIn, Relisted
<1>2. \A c \in DOMAIN m.pools : PartsOf(r.pools[c], c) = PartsOf(m.pools[c], c)
  BY <1>1 DEF PartsOf
<1>3. ASSUME NEW c \in DOMAIN m.pools PROVE PoolPlaced(r, c)
  BY <1>1, <1>2 DEF Owned, PoolPlaced, RelistedIn
<1>4. Owned(r)
  BY <1>2, <1>3 DEF Owned, RelistedIn
<1>5. \A b : InParts(r, b) <=> InParts(m, b)
  BY <1>2 DEF InParts, RelistedIn
<1>6. QED
  BY <1>1, <1>4, <1>5 DEF HeapOK, RelistedIn, SameSizes

(* The loans after a is lent for n.                                        *)
Lent(l, a, n) == [c \in DOMAIN l \cup {a} |-> IF c = a THEN n ELSE l[c]]

(* The loans after those at `as` are taken back.                           *)
Retracted(l, as) == [c \in DOMAIN l \ as |-> l[c]]

(* pool_alloc.                                                             *)
LEMMA AllocKeeps ==
  ASSUME NEW m, NEW l, PoolsInv(m, l), NEW p \in DOMAIN m.pools, NEW f, NEW a, NEW n \in Nat,
         f = m.pools[p].free_list, f # <<>>, a = f[Len(f)],
         n <= m.pools[p].block_size,
         NEW r, RelistedIn(m, r, p, SubSeq(f, 1, Len(f) - 1)),
         NEW k, k = Lent(l, a, n)
  PROVE  PoolsInv(r, k) /\ SameSizes(m, r)
<1>1. PICK g : g = SubSeq(f, 1, Len(f) - 1)
  OBVIOUS
<1>2. PoolPlaced(m, p) /\ FreeExact(m.pools[p], l)
  BY DEF PoolsInv, Owned, Conserved
<1>3. f \in Seq(Nat) /\ IsInjective(f)
  BY <1>2 DEF PoolPlaced, PoolType, memory_pool_t, FreeExact
<1>4. /\ IsInjective(g) /\ a \in Range(f) /\ Range(g) = Range(f) \ {a}
  BY <1>1, <1>3, LastFacts
<1>5. RelistedIn(m, r, p, g)
  BY <1>1
<1>6. /\ HeapOK(r) /\ Owned(r) /\ SameSizes(m, r)
      /\ \A b : InParts(r, b) <=> InParts(m, b)
      /\ \A c \in DOMAIN m.pools : Blocks(r.pools[c]) = Blocks(m.pools[c])
  BY <1>5, RelistedKeeps DEF PoolsInv
<1>7. a \in Blocks(m.pools[p]) /\ a \notin DOMAIN l
  BY <1>2, <1>4 DEF FreeExact
<1>8. /\ DOMAIN k = DOMAIN l \cup {a} /\ k[a] = n
      /\ \A c \in DOMAIN l : k[c] = l[c]
  BY <1>7 DEF Lent
<1>9. HeldPlaced(m)
  BY HeldFacts DEF PoolsInv
<1>10. a \in Nat
  <2>1. BlocksPlaced(m.pools[p])
    BY <1>2, BlockFacts DEF PoolPlaced
  <2>2. QED
    BY <1>7, <2>1 DEF BlocksPlaced
<1>11. Conserved(r, k)
  <2>1. ASSUME NEW c \in DOMAIN m.pools, c # p PROVE FreeExact(r.pools[c], k)
    <3>1. a \notin Blocks(m.pools[c])
      BY <1>7, <1>9, <2>1, BlocksDisjoint DEF PoolsInv
    <3>2. r.pools[c] = m.pools[c] /\ FreeExact(m.pools[c], l)
      BY <1>5, <2>1 DEF RelistedIn, PoolsInv, Conserved
    <3>3. QED
      BY ONLY <1>8, <3>1, <3>2 DEF FreeExact
  <2>2. FreeExact(r.pools[p], k)
    <3>1. r.pools[p].free_list = g /\ Blocks(r.pools[p]) = Blocks(m.pools[p])
      BY <1>5 DEF RelistedIn, Relisted
    <3>2. QED
      BY <1>2, <1>4, <1>7, <1>8, <3>1 DEF FreeExact
  <2>3. QED
    BY <1>5, <2>1, <2>2 DEF RelistedIn, Conserved
<1>12. LoansOK(r, k)
  <2>1. DOMAIN r.pools = DOMAIN m.pools /\ r.held = m.held /\ r.hdr = m.hdr
    BY <1>5 DEF RelistedIn
  <2>2. ASSUME NEW c \in DOMAIN l
        PROVE  c \in Nat /\ k[c] \in Nat /\ (FromPool(r, k, c) \/ FromHeap(r, k, c))
    <3>1. c \in Nat /\ l[c] \in Nat /\ (FromPool(m, l, c) \/ FromHeap(m, l, c)) /\ k[c] = l[c]
      BY <1>8 DEF PoolsInv, LoansOK
    <3>2. FromPool(m, l, c) => FromPool(r, k, c)
      BY <1>6, <2>1, <3>1 DEF FromPool, SameSizes
    <3>3. FromHeap(m, l, c) => FromHeap(r, k, c)
      BY <1>6, <2>1, <3>1 DEF FromHeap
    <3>4. QED
      BY <3>1, <3>2, <3>3
  <2>3. FromPool(r, k, a)
    BY <1>6, <1>7, <1>8 DEF FromPool, SameSizes
  <2>4. a \in Nat /\ k[a] \in Nat
    BY <1>8, <1>10
  <2>5. \A c \in DOMAIN l \cup {a} :
          c \in Nat /\ k[c] \in Nat /\ (FromPool(r, k, c) \/ FromHeap(r, k, c))
    BY ONLY <2>2, <2>3, <2>4
  <2>6. QED
    BY ONLY <1>8, <2>5 DEF LoansOK
<1>13. Accounted(r, k)
  BY <1>5, <1>6, <1>8 DEF PoolsInv, Accounted, RelistedIn
<1>14. QED
  BY <1>6, <1>11, <1>12, <1>13 DEF PoolsInv

(* pool_free.                                                              *)
LEMMA PoolFreeKeeps ==
  ASSUME NEW m, NEW l, PoolsInv(m, l), NEW p \in DOMAIN m.pools, NEW a \in Nat,
         Accepted(m.pools[p], a),
         NEW r, RelistedIn(m, r, p, Append(m.pools[p].free_list, a)),
         NEW k, k = Retracted(l, {a})
  PROVE  PoolsInv(r, k) /\ SameSizes(m, r)
<1>1. PICK g : g = Append(m.pools[p].free_list, a)
  OBVIOUS
<1>2. PoolPlaced(m, p) /\ FreeExact(m.pools[p], l)
  BY DEF PoolsInv, Owned, Conserved
<1>3. a \in Blocks(m.pools[p]) /\ a \notin Range(m.pools[p].free_list)
  BY <1>2, AcceptedFacts DEF PoolPlaced
<1>4. IsInjective(g) /\ Range(g) = Range(m.pools[p].free_list) \cup {a}
  <2>1. m.pools[p].free_list \in Seq(Nat) /\ IsInjective(m.pools[p].free_list)
    BY <1>2 DEF PoolPlaced, PoolType, memory_pool_t, FreeExact
  <2>2. QED
    BY <1>1, <1>3, <2>1, AppendFacts
<1>5. RelistedIn(m, r, p, g)
  BY <1>1
<1>6. /\ HeapOK(r) /\ Owned(r) /\ SameSizes(m, r)
      /\ \A b : InParts(r, b) <=> InParts(m, b)
      /\ \A c \in DOMAIN m.pools : Blocks(r.pools[c]) = Blocks(m.pools[c])
  BY <1>5, RelistedKeeps DEF PoolsInv
<1>7. a \in DOMAIN l
  BY <1>2, <1>3 DEF FreeExact
<1>8. DOMAIN k = DOMAIN l \ {a} /\ \A c \in DOMAIN k : k[c] = l[c]
  BY DEF Retracted
<1>9. HeldPlaced(m)
  BY HeldFacts DEF PoolsInv
<1>10. Conserved(r, k)
  <2>1. ASSUME NEW c \in DOMAIN m.pools, c # p PROVE FreeExact(r.pools[c], k)
    <3>1. a \notin Blocks(m.pools[c])
      BY <1>3, <1>9, <2>1, BlocksDisjoint DEF PoolsInv
    <3>2. r.pools[c] = m.pools[c] /\ FreeExact(m.pools[c], l)
      BY <1>5, <2>1 DEF RelistedIn, PoolsInv, Conserved
    <3>3. QED
      BY ONLY <1>8, <3>1, <3>2 DEF FreeExact
  <2>2. FreeExact(r.pools[p], k)
    <3>1. r.pools[p].free_list = g /\ Blocks(r.pools[p]) = Blocks(m.pools[p])
      BY <1>5 DEF RelistedIn, Relisted
    <3>2. QED
      BY <1>2, <1>3, <1>4, <1>8, <3>1 DEF FreeExact
  <2>3. QED
    BY <1>5, <2>1, <2>2 DEF RelistedIn, Conserved
<1>11. LoansOK(r, k)
  <2>1. DOMAIN r.pools = DOMAIN m.pools /\ r.held = m.held /\ r.hdr = m.hdr
    BY <1>5 DEF RelistedIn
  <2>2. ASSUME NEW c \in DOMAIN k
        PROVE  c \in Nat /\ k[c] \in Nat /\ (FromPool(r, k, c) \/ FromHeap(r, k, c))
    <3>1. c \in Nat /\ l[c] \in Nat /\ (FromPool(m, l, c) \/ FromHeap(m, l, c)) /\ k[c] = l[c]
      BY <1>8 DEF PoolsInv, LoansOK
    <3>2. FromPool(m, l, c) => FromPool(r, k, c)
      BY <1>6, <2>1, <3>1 DEF FromPool, SameSizes
    <3>3. FromHeap(m, l, c) => FromHeap(r, k, c)
      BY <1>6, <2>1, <3>1 DEF FromHeap
    <3>4. QED
      BY <3>1, <3>2, <3>3
  <2>3. QED
    BY <2>2 DEF LoansOK
<1>12. Accounted(r, k)
  <2> SUFFICES ASSUME NEW b \in DOMAIN m.held, ~InParts(m, b) PROVE b + HDR \in DOMAIN k
    BY <1>5, <1>6 DEF RelistedIn, Accounted
  <2>1. b + HDR \in DOMAIN l
    BY DEF PoolsInv, Accounted
  <2>2. b + HDR \notin Blocks(m.pools[p])
    BY <1>9, HeapBlockOutside DEF PoolsInv
  <2>3. QED
    BY <1>3, <1>8, <2>1, <2>2
<1>13. QED
  BY <1>6, <1>10, <1>11, <1>12 DEF PoolsInv

(* pool_destroy.                                                           *)
LEMMA DestroyKeeps ==
  ASSUME NEW m, NEW l, PoolsInv(m, l), NEW p \in DOMAIN m.pools,
         NEW q, q = m.pools[p],
         NEW e, e = Free(m, q.pool_start - HDR),
         NEW f, f = Free(e, q.free_array - HDR),
         NEW g, g = Free(f, p),
         NEW r, r.hdr = g.hdr, r.held = g.held, r.pools = Without(m.pools, p),
         NEW k, k = Retracted(l, Blocks(q))
  PROVE  PoolsInv(r, k) /\ \A c \in DOMAIN m.pools \ {p} :
                              c \in DOMAIN r.pools /\ r.pools[c] = m.pools[c]
<1>1. HeldPlaced(m) /\ PoolPlaced(m, p)
  BY HeldFacts DEF PoolsInv, Owned
<1>2. PICK start, array : start = q.pool_start - HDR /\ array = q.free_array - HDR
  OBVIOUS
<1>3. /\ PartsOf(q, p) = {p, start, array} /\ {p, start, array} \subseteq DOMAIN m.held
      /\ p # start /\ p # array /\ start # array
  <2>1. q.pool_start \in Nat /\ q.free_array \in Nat /\ q.pool_start # q.free_array
    BY <1>1 DEF PoolPlaced, PoolType, memory_pool_t
  <2>2. start # array
    BY <1>2, <2>1, LayoutAssumption
  <2>3. QED
    BY <1>1, <1>2, <2>2 DEF PartsOf, PoolPlaced
<1>4. HeapOK(e) /\ Freed(m, start, e)
  BY <1>2, <1>3, FreeFacts DEF PoolsInv
<1>5. HeapOK(f) /\ Freed(e, array, f)
  <2>1. array \in DOMAIN e.held
    BY <1>3, <1>4 DEF Freed
  <2>2. QED
    BY <1>2, <1>4, <2>1, FreeFacts
<1>6. HeapOK(g) /\ Freed(f, p, g)
  <2>1. p \in DOMAIN f.held
    BY <1>3, <1>4, <1>5 DEF Freed
  <2>2. QED
    BY <1>5, <2>1, FreeFacts
<1>7. DOMAIN r.held = DOMAIN m.held \ PartsOf(q, p)
  <2>1. DOMAIN e.held = DOMAIN m.held \ {start} /\ DOMAIN f.held = DOMAIN e.held \ {array}
        /\ DOMAIN g.held = DOMAIN f.held \ {p}
    BY <1>4, <1>5, <1>6 DEF Freed
  <2>2. DOMAIN g.held = DOMAIN m.held \ {p, start, array}
    BY <2>1
  <2>3. QED
    BY <1>3, <2>2
<1>8. Kept(m, r, DOMAIN r.held)
  <2> SUFFICES ASSUME NEW b \in DOMAIN g.held PROVE g.hdr[b].size = m.hdr[b].size
    BY DEF Kept
  <2>1. b \in DOMAIN f.held /\ g.hdr[b].size = f.hdr[b].size
    BY <1>6 DEF Freed, Kept
  <2>2. b \in DOMAIN e.held /\ f.hdr[b].size = e.hdr[b].size
    BY <1>5, <2>1 DEF Freed, Kept
  <2>3. e.hdr[b].size = m.hdr[b].size
    BY <1>4, <2>2 DEF Freed, Kept
  <2>4. QED
    BY <2>1, <2>2, <2>3
<1>9. HeapOK(r)
  BY <1>6 DEF HeapOK
<1>10. /\ DOMAIN r.pools = DOMAIN m.pools \ {p}
       /\ r.pools = [c \in DOMAIN r.pools |-> r.pools[c]]
       /\ \A c \in DOMAIN r.pools : r.pools[c] = m.pools[c]
  BY DEF Without
<1>11. \A c \in DOMAIN r.pools :
          /\ PoolPlaced(m, c) /\ PartsOf(m.pools[c], c) \subseteq DOMAIN r.held
          /\ PartsOf(m.pools[c], c) \cap PartsOf(q, p) = {}
  <2>1. \A c \in DOMAIN m.pools : PoolPlaced(m, c)
    BY DEF PoolsInv, Owned
  <2>2. \A c \in DOMAIN r.pools : PartsOf(m.pools[c], c) \cap PartsOf(q, p) = {}
    BY <1>10 DEF PoolsInv, Owned
  <2>3. QED
    BY <1>7, <1>10, <2>1, <2>2 DEF PoolPlaced
<1>12. Owned(r)
  <2>1. ASSUME NEW c \in DOMAIN r.pools PROVE PoolPlaced(r, c)
    <3>1. m.pools[c].pool_start - HDR \in DOMAIN r.held
      BY <1>11 DEF PartsOf
    <3>2. /\ r.pools[c] = m.pools[c] /\ PoolPlaced(m, c)
          /\ PartsOf(m.pools[c], c) \subseteq DOMAIN r.held
      BY <1>10, <1>11
    <3>3. r.hdr[m.pools[c].pool_start - HDR].size = m.hdr[m.pools[c].pool_start - HDR].size
      BY <1>8, <3>1 DEF Kept
    <3>4. QED
      BY ONLY <3>2, <3>3 DEF PoolPlaced
  <2>2. QED
    BY <1>10, <2>1 DEF PoolsInv, Owned
<1>13. \A b : InParts(m, b) <=> InParts(r, b) \/ b \in PartsOf(q, p)
  BY <1>10 DEF InParts
<1>14. DOMAIN k = DOMAIN l \ Blocks(q) /\ \A c \in DOMAIN k : k[c] = l[c]
  BY DEF Retracted
<1>15. Conserved(r, k)
  <2> SUFFICES ASSUME NEW c \in DOMAIN r.pools PROVE FreeExact(m.pools[c], k)
    BY <1>10 DEF Conserved
  <2>1. FreeExact(m.pools[c], l) /\ c \in DOMAIN m.pools /\ c # p
    BY <1>10 DEF PoolsInv, Conserved
  <2>2. \A a \in Blocks(m.pools[c]) : a \notin Blocks(q)
    BY <1>1, <2>1, BlocksDisjoint DEF PoolsInv
  <2>3. QED
    BY <1>14, <2>1, <2>2 DEF FreeExact
<1>16. LoansOK(r, k)
  <2> SUFFICES ASSUME NEW a \in DOMAIN k
               PROVE  a \in Nat /\ k[a] \in Nat /\ (FromPool(r, k, a) \/ FromHeap(r, k, a))
    BY DEF LoansOK
  <2>1. /\ a \in Nat /\ l[a] \in Nat /\ k[a] = l[a] /\ a \notin Blocks(q)
        /\ FromPool(m, l, a) \/ FromHeap(m, l, a)
    BY <1>14 DEF PoolsInv, LoansOK
  <2>2. FromPool(m, l, a) => FromPool(r, k, a)
    BY <1>10, <2>1 DEF FromPool
  <2>3. FromHeap(m, l, a) => FromHeap(r, k, a)
    BY <1>7, <1>8, <1>13, <2>1 DEF FromHeap, Kept
  <2>4. QED
    BY <2>1, <2>2, <2>3
<1>17. Accounted(r, k)
  <2> SUFFICES ASSUME NEW b \in DOMAIN r.held, ~InParts(r, b) PROVE b + HDR \in DOMAIN k
    BY DEF Accounted
  <2>1. b \in DOMAIN m.held /\ ~InParts(m, b)
    BY <1>7, <1>13
  <2>2. b + HDR \in DOMAIN l
    BY <2>1 DEF PoolsInv, Accounted
  <2>3. b + HDR \notin Blocks(q)
    BY <1>1, <2>1, HeapBlockOutside DEF PoolsInv
  <2>4. QED
    BY <1>14, <2>2, <2>3
<1>18. QED
  BY <1>9, <1>10, <1>12, <1>15, <1>16, <1>17 DEF PoolsInv

(* smart_alloc of a size no pool serves: kmalloc.                          *)
LEMMA HeapLoanKeeps ==
  ASSUME NEW m, NEW l, PoolsInv(m, l), NEW n \in Nat, NEW r, HeapOK(r), r.pools = m.pools,
         MallocGives(m, n, r), NEW k, k = Lent(l, r.ptr + HDR, n)
  PROVE  PoolsInv(r, k)
<1>1. PICK b : b = r.ptr
  OBVIOUS
<1>2. /\ b \in Nat /\ b \notin DOMAIN m.held /\ DOMAIN r.held = DOMAIN m.held \cup {b}
      /\ r.hdr[b].size >= n /\ Kept(m, r, DOMAIN m.held)
  BY <1>1 DEF MallocGives
<1>3. HeldPlaced(r)
  BY HeldFacts
<1>4. Owned(r)
  BY <1>2, OwnedKept DEF PoolsInv, Kept
<1>5. \A c : InParts(r, c) <=> InParts(m, c)
  BY DEF InParts
<1>6. ~InParts(m, b)
  BY <1>2 DEF PoolsInv, Owned, PoolPlaced, InParts
<1>7. /\ DOMAIN k = DOMAIN l \cup {b + HDR} /\ k[b + HDR] = n
      /\ \A c \in DOMAIN l \ {b + HDR} : k[c] = l[c]
  BY <1>1 DEF Lent
<1>8. \A p \in DOMAIN r.pools : b + HDR \notin Blocks(r.pools[p])
  BY <1>2, <1>3, <1>4, <1>5, <1>6, HeapBlockOutside
<1>9. Conserved(r, k)
  BY <1>7, <1>8 DEF PoolsInv, Conserved, FreeExact
<1>10. LoansOK(r, k)
  <2>1. ASSUME NEW a \in DOMAIN l, a # b + HDR
        PROVE  a \in Nat /\ k[a] \in Nat /\ (FromPool(r, k, a) \/ FromHeap(r, k, a))
    <3>1. a \in Nat /\ l[a] \in Nat /\ k[a] = l[a] /\ (FromPool(m, l, a) \/ FromHeap(m, l, a))
      BY <1>7, <2>1 DEF PoolsInv, LoansOK
    <3>2. FromPool(m, l, a) => FromPool(r, k, a)
      BY <3>1 DEF FromPool
    <3>3. FromHeap(m, l, a) => FromHeap(r, k, a)
      BY <1>2, <1>5, <3>1 DEF FromHeap, Kept
    <3>4. QED
      BY <3>1, <3>2, <3>3
  <2>2. PICK a : a = b + HDR
    OBVIOUS
  <2>3. a \in Nat /\ a - HDR = b
    BY <1>2, <2>2, LayoutAssumption
  <2>4. k[a] = n /\ DOMAIN k = DOMAIN l \cup {a}
    BY <1>7, <2>2
  <2>5. b \in DOMAIN r.held /\ n <= r.hdr[b].size /\ ~InParts(r, b)
    <3>1. r.hdr[b].size \in Nat
      BY <1>2, <1>3 DEF HeldPlaced
    <3>2. QED
      BY <1>2, <1>5, <1>6, <3>1
  <2>6. FromHeap(r, k, a)
    BY <2>3, <2>4, <2>5 DEF FromHeap
  <2>7. QED
    BY <2>1, <2>2, <2>3, <2>4, <2>6 DEF LoansOK
<1>11. Accounted(r, k)
  BY <1>2, <1>5, <1>7 DEF PoolsInv, Accounted
<1>12. QED
  BY <1>4, <1>9, <1>10, <1>11 DEF PoolsInv

(* smart_free of such a size: kfree.                                       *)
LEMMA HeapReturnKeeps ==
  ASSUME NEW m, NEW l, PoolsInv(m, l), NEW a \in DOMAIN l, FromHeap(m, l, a),
         NEW r, r = Free(m, a - HDR), NEW k, k = Retracted(l, {a})
  PROVE  PoolsInv(r, k) /\ r.pools = m.pools
<1>1. PICK b : b = a - HDR
  OBVIOUS
<1>2. b \in DOMAIN m.held /\ ~InParts(m, b)
  BY <1>1 DEF FromHeap
<1>3. HeldPlaced(m)
  BY HeldFacts DEF PoolsInv
<1>4. a \in Nat /\ b \in Nat /\ a = b + HDR
  <2>1. a \in Nat
    BY DEF PoolsInv, LoansOK
  <2>2. QED
    BY <1>1, <1>2, <1>3, <2>1, LayoutAssumption DEF HeldPlaced
<1>5. HeapOK(r) /\ Freed(m, b, r)
  BY <1>1, <1>2, FreeFacts DEF PoolsInv
<1>6. r.pools = m.pools /\ DOMAIN r.held = DOMAIN m.held \ {b} /\ Kept(m, r, DOMAIN r.held)
  BY <1>5 DEF Freed
<1>7. Owned(r)
  BY <1>2, <1>6, OwnedKept DEF PoolsInv, Kept
<1>8. \A c : InParts(r, c) <=> InParts(m, c)
  BY <1>6 DEF InParts
<1>9. DOMAIN k = DOMAIN l \ {a} /\ \A c \in DOMAIN k : k[c] = l[c]
  BY DEF Retracted
<1>10. \A p \in DOMAIN m.pools : a \notin Blocks(m.pools[p])
  BY <1>2, <1>3, <1>4, HeapBlockOutside DEF PoolsInv
<1>11. Conserved(r, k)
  <2> SUFFICES ASSUME NEW p \in DOMAIN m.pools PROVE FreeExact(m.pools[p], k)
    BY <1>6 DEF Conserved
  <2>1. FreeExact(m.pools[p], l)
    BY DEF PoolsInv, Conserved
  <2>2. QED
    BY <1>9, <1>10, <2>1 DEF FreeExact
<1>12. LoansOK(r, k)
  <2> SUFFICES ASSUME NEW c \in DOMAIN k
               PROVE  c \in Nat /\ k[c] \in Nat /\ (FromPool(r, k, c) \/ FromHeap(r, k, c))
    BY DEF LoansOK
  <2>1. /\ c \in Nat /\ l[c] \in Nat /\ k[c] = l[c] /\ c # a
        /\ FromPool(m, l, c) \/ FromHeap(m, l, c)
    BY <1>9 DEF PoolsInv, LoansOK
  <2>2. FromPool(m, l, c) => FromPool(r, k, c)
    BY <1>6, <2>1 DEF FromPool
  <2>3. c - HDR # b
    BY <1>4, <2>1, LayoutAssumption
  <2>4. FromHeap(m, l, c) => FromHeap(r, k, c)
    BY <1>6, <1>8, <2>1, <2>3 DEF FromHeap, Kept
  <2>5. QED
    BY <2>1, <2>2, <2>4
<1>13. Accounted(r, k)
  <2> SUFFICES ASSUME NEW c \in DOMAIN r.held, ~InParts(r, c) PROVE c + HDR \in DOMAIN k
    BY DEF Accounted
  <2>1. c \in DOMAIN m.held /\ c # b /\ c \in Nat
    BY <1>3, <1>6 DEF HeldPlaced
  <2>2. c + HDR \in DOMAIN l
    BY <1>8, <2>1 DEF PoolsInv, Accounted
  <2>3. c + HDR # a
    BY <1>4, <2>1, LayoutAssumption
  <2>4. QED
    BY <1>9, <2>2, <2>3
<1>14. QED
  BY <1>5, <1>6, <1>7, <1>11, <1>12, <1>13 DEF PoolsInv

(* pool_create, whether it succeeds or not.                                *)
LEMMA CreateKeeps ==
  ASSUME NEW m, NEW l, PoolsInv(m, l), NEW size, NEW num, ShapeAsked(size, num),
         NEW r, r = pool_create(m, size, num)
  PROVE  /\ PoolsInv(r, l)
         /\ r.ptr = NULL \/ (r.ptr \in DOMAIN r.pools /\ r.pools[r.ptr].block_size = size)
         /\ SameSizes(m, r)
<1>1. HeapOK(r) /\ (NotCreated(m, r) \/ \E mem, list : CreatedIn(m, r, mem, list, size, num))
  BY CreateFacts DEF PoolsInv
<1>2. CASE NotCreated(m, r)
  BY <1>1, <1>2, NotCreatedKeeps DEF NotCreated, SameSizes
<1>3. CASE \E mem, list : CreatedIn(m, r, mem, list, size, num)
  <2>1. PICK mem, list : CreatedIn(m, r, mem, list, size, num)
    BY <1>3
  <2>2. size \in Nat /\ num \in Nat
    BY DEF ShapeAsked
  <2>3. QED
    BY <1>1, <2>1, <2>2, CreatedKeeps DEF SameSizes
<1>4. QED
  BY <1>1, <1>2, <1>3

-----------------------------------------------------------------------------
(* The block size of the i-th predefined pool.                             *)
SizeOf(i) == IF i = 1 THEN SMALL ELSE IF i = 2 THEN MEDIUM ELSE LARGE

(* A predefined pool that could be had is alive with the size smart_alloc  *)
(* expects: no call destroys it.                                           *)
PredefinedOK(m, pre) ==
  \/ pre = <<>>
  \/ \A i \in 1..3 :
       /\ i \in DOMAIN pre
       /\ \/ pre[i] = NULL
          \/ pre[i] \in DOMAIN m.pools /\ m.pools[pre[i]].block_size = SizeOf(i)

(* The inductive invariant.                                                *)
PoolInv == PoolsInv(Memory, loans) /\ PredefinedOK(Memory, predefined)

(* Only the heap and the pools matter to PoolsInv, not what the last call  *)
(* returned.                                                               *)
LEMMA SameMemory ==
  ASSUME NEW m, NEW l, PoolsInv(m, l), NEW r,
         r.hdr = m.hdr, r.held = m.held, r.pools = m.pools
  PROVE  PoolsInv(r, l)
<1>1. HeapOK(r)
  BY DEF HeapOK, PoolsInv
<1>2. Owned(r)
  BY OwnedKept DEF PoolsInv
<1>3. \A b : InParts(r, b) <=> InParts(m, b)
  BY DEF InParts
<1>4. LoansOK(r, l)
  BY <1>3 DEF PoolsInv, LoansOK, FromPool, FromHeap
<1>5. Conserved(r, l) /\ Accounted(r, l)
  BY <1>3 DEF PoolsInv, Conserved, Accounted
<1>6. QED
  BY <1>1, <1>2, <1>4, <1>5 DEF PoolsInv

(* From memories back to the variables.                                    *)
LEMMA SameInv ==
  ASSUME NEW r, hdr' = r.hdr, held' = r.held, pools' = r.pools, PoolsInv(r, loans'),
         PredefinedOK(r, predefined')
  PROVE  PoolInv'
<1>1. PICK m : m = Memory'
  OBVIOUS
<1>2. m.hdr = r.hdr /\ m.held = r.held /\ m.pools = r.pools
  BY <1>1 DEF Memory
<1>3. PoolsInv(m, loans')
  BY <1>2, SameMemory
<1>4. PredefinedOK(m, predefined')
  BY <1>2 DEF PredefinedOK
<1>5. QED
  BY <1>1, <1>3, <1>4 DEF PoolInv

(* The predefined pools stay right while pools keep their sizes.           *)
LEMMA SizesKeepPredefined ==
  ASSUME NEW m, NEW pre, PredefinedOK(m, pre), NEW r, SameSizes(m, r)
  PROVE  PredefinedOK(r, pre)
BY DEF PredefinedOK, SameSizes

(* The state in terms of Memory.                                           *)
LEMMA MemoryFields ==
  Memory.hdr = hdr /\ Memory.held = held /\ Memory.pools = pools
BY DEF Memory

(* Initially the heap is one free block and there are no pools.            *)
LEMMA PoolInit == Init => PoolInv
<1> SUFFICES ASSUME Init PROVE PoolInv
  OBVIOUS
<1>1. Memory.hdr = EmptyHeap /\ DOMAIN Memory.held = {} /\ DOMAIN Memory.pools = {}
      /\ Memory.pools = [p \in DOMAIN Memory.pools |-> Memory.pools[p]]
      /\ DOMAIN loans = {}
  BY DEF Memory, Init
<1>2. WellFormed(EmptyHeap) /\ Coalesced(EmptyHeap) /\ Used(EmptyHeap) = {}
  BY EmptyHeapFacts
<1>3. HeapOK(Memory)
  BY <1>1, <1>2 DEF HeapOK, HeldMatches
<1>4. Owned(Memory) /\ Conserved(Memory, loans) /\ LoansOK(Memory, loans)
      /\ Accounted(Memory, loans)
  BY <1>1 DEF Owned, Conserved, LoansOK, Accounted
<1>5. PredefinedOK(Memory, predefined)
  BY DEF Init, PredefinedOK
<1>6. QED
  BY <1>3, <1>4, <1>5 DEF PoolInv, PoolsInv

(* A call that changes nothing keeps the invariant.                        *)
LEMMA StutterKeeps == PoolInv /\ UNCHANGED vars => PoolInv'
<1> SUFFICES ASSUME PoolInv, UNCHANGED vars PROVE PoolInv'
  OBVIOUS
<1>1. PICK r : r = Memory
  OBVIOUS
<1>2. hdr' = r.hdr /\ held' = r.held /\ pools' = r.pools
  BY <1>1, MemoryFields DEF vars
<1>3. PoolsInv(r, loans') /\ PredefinedOK(r, predefined')
  BY <1>1 DEF PoolInv, vars
<1>4. QED
  BY <1>2, <1>3, SameInv

(* init_memory_pools: each of the three pools is made or left null.        *)
LEMMA InitPoolsKeeps ==
  ASSUME PoolInv, NEW counts \in PoolCounts, init_memory_pools(counts)
  PROVE  PoolInv'
<1>1. PICK small : small = pool_create(Memory, SMALL, counts[1])
  OBVIOUS
<1>2. PICK medium : medium = pool_create(small, MEDIUM, counts[2])
  OBVIOUS
<1>3. PICK large : large = pool_create(medium, LARGE, counts[3])
  OBVIOUS
<1>4. /\ hdr' = large.hdr /\ held' = large.held /\ pools' = large.pools
      /\ predefined' = <<small.ptr, medium.ptr, large.ptr>>
      /\ loans' = loans
  BY <1>1, <1>2, <1>3 DEF init_memory_pools, Becomes
<1>5. /\ ShapeAsked(SMALL, counts[1]) /\ ShapeAsked(MEDIUM, counts[2])
      /\ ShapeAsked(LARGE, counts[3])
  BY PoolAssumption
<1>6. /\ PoolsInv(small, loans)
      /\ small.ptr = NULL \/ (small.ptr \in DOMAIN small.pools
                              /\ small.pools[small.ptr].block_size = SMALL)
  BY <1>1, <1>5, CreateKeeps DEF PoolInv
<1>7. /\ PoolsInv(medium, loans) /\ SameSizes(small, medium)
      /\ medium.ptr = NULL \/ (medium.ptr \in DOMAIN medium.pools
                               /\ medium.pools[medium.ptr].block_size = MEDIUM)
  BY <1>2, <1>5, <1>6, CreateKeeps
<1>8. /\ PoolsInv(large, loans) /\ SameSizes(medium, large)
      /\ large.ptr = NULL \/ (large.ptr \in DOMAIN large.pools
                              /\ large.pools[large.ptr].block_size = LARGE)
  BY <1>3, <1>5, <1>7, CreateKeeps
<1>9. PICK pre : pre = predefined'
  OBVIOUS
<1>10. /\ pre[1] = small.ptr /\ pre[2] = medium.ptr /\ pre[3] = large.ptr
       /\ 1 \in DOMAIN pre /\ 2 \in DOMAIN pre /\ 3 \in DOMAIN pre
  BY <1>4, <1>9
<1>11. ASSUME NEW i \in 1..3
       PROVE  i \in DOMAIN pre /\ (pre[i] = NULL \/ (pre[i] \in DOMAIN large.pools
                                     /\ large.pools[pre[i]].block_size = SizeOf(i)))
  <2>1. i = 1 \/ i = 2 \/ i = 3
    OBVIOUS
  <2>2. CASE i = 1
    BY <1>6, <1>7, <1>8, <1>10, <2>2 DEF SizeOf, SameSizes
  <2>3. CASE i = 2
    BY <1>7, <1>8, <1>10, <2>3 DEF SizeOf, SameSizes
  <2>4. CASE i = 3
    BY <1>8, <1>10, <2>4 DEF SizeOf, SameSizes
  <2>5. QED
    BY <2>1, <2>2, <2>3, <2>4
<1>12. PredefinedOK(large, predefined')
  BY <1>9, <1>11 DEF PredefinedOK
<1>13. QED
  BY <1>4, <1>8, <1>12, SameInv

(* pool_create called on its own.                                          *)
LEMMA CreatePoolKeeps ==
  ASSUME PoolInv, NEW shape \in Shapes, CreatePool(shape)
  PROVE  PoolInv'
<1>1. PICK r : r = pool_create(Memory, shape[1], shape[2])
  OBVIOUS
<1>2. /\ hdr' = r.hdr /\ held' = r.held /\ pools' = r.pools
      /\ predefined' = predefined /\ loans' = loans
  BY <1>1 DEF CreatePool, Becomes
<1>3. PoolsInv(r, loans) /\ SameSizes(Memory, r)
  BY <1>1, PoolAssumption, CreateKeeps DEF PoolInv
<1>4. PredefinedOK(r, predefined')
  BY <1>2, <1>3, SizesKeepPredefined DEF PoolInv
<1>5. QED
  BY <1>2, <1>3, <1>4, SameInv

(* pool_alloc, or a null pool or an empty list.                            *)
LEMMA PoolAllocKeeps ==
  ASSUME PoolInv, NEW p \in DOMAIN pools \cup {NULL}, NEW n \in Nat,
         p # NULL => n <= pools[p].block_size, pool_alloc(p, n)
  PROVE  PoolInv'
<1>1. CASE p = NULL \/ pools[p].free_list = <<>>
  BY <1>1, StutterKeeps DEF pool_alloc
<1>2. CASE p # NULL /\ pools[p].free_list # <<>>
  <2>1. PICK f, a, m : f = pools[p].free_list /\ a = f[Len(f)] /\ m = Memory
    OBVIOUS
  <2>2. PICK g : g = SubSeq(f, 1, Len(f) - 1)
    OBVIOUS
  <2>3. /\ pools' = [pools EXCEPT ![p].free_list = g]
        /\ loans' = Lent(loans, a, n)
        /\ hdr' = hdr /\ held' = held /\ predefined' = predefined
    BY <1>2, <2>1, <2>2 DEF pool_alloc, Lend, Lent
  <2>4. PoolsInv(m, loans) /\ PredefinedOK(m, predefined) /\ p \in DOMAIN m.pools
        /\ m.pools = pools /\ m.hdr = hdr /\ m.held = held
    BY <1>2, <2>1, MemoryFields DEF PoolInv
  <2>5. PICK r : r = [hdr |-> hdr, held |-> held, pools |-> pools']
    OBVIOUS
  <2>6. hdr' = r.hdr /\ held' = r.held /\ pools' = r.pools
    BY <2>3, <2>5
  <2>7. RelistedIn(m, r, p, g)
    <3>1. f \in Seq(Nat) /\ PoolType(m.pools[p])
      BY <2>1, <2>4 DEF PoolsInv, Owned, PoolPlaced, PoolType, memory_pool_t
    <3>2. g \in Seq(Nat)
      BY <1>2, <2>1, <2>2, <3>1
    <3>3. Relisted(m.pools[p], r.pools[p], g)
      <4>1. r.pools[p] = [m.pools[p] EXCEPT !.free_list = g]
        BY <2>3, <2>4, <2>6
      <4>2. QED
        BY <3>1, <3>2, <4>1, RelistedPool
    <3>4. r.hdr = m.hdr /\ r.held = m.held
      BY <2>3, <2>4, <2>6
    <3>5. /\ r.pools = [m.pools EXCEPT ![p].free_list = g]
          /\ m.pools = [c \in DOMAIN m.pools |-> m.pools[c]]
      BY <2>3, <2>4, <2>6 DEF PoolsInv, Owned
    <3>6. /\ r.pools = [c \in DOMAIN r.pools |-> r.pools[c]]
          /\ DOMAIN r.pools = DOMAIN m.pools
          /\ \A c \in DOMAIN m.pools \ {p} : r.pools[c] = m.pools[c]
      BY ONLY <3>5
    <3>7. QED
      BY <3>3, <3>4, <3>6 DEF RelistedIn
  <2>8. PoolsInv(r, loans') /\ SameSizes(m, r)
    <3>1. f = m.pools[p].free_list /\ f # <<>> /\ n <= m.pools[p].block_size
      BY <1>2, <2>1, <2>4
    <3>2. RelistedIn(m, r, p, SubSeq(f, 1, Len(f) - 1)) /\ a = f[Len(f)]
      BY <2>1, <2>2, <2>7
    <3>3. PICK k : k = loans' /\ k = Lent(loans, a, n)
      BY <2>3
    <3>4. PoolsInv(r, k) /\ SameSizes(m, r)
      <4>1. p \in DOMAIN m.pools /\ n \in Nat
        BY <2>4
      <4>2. PoolsInv(m, loans)
        BY <2>4
      <4>3. QED
        BY ONLY <3>1, <3>2, <3>3, <4>1, <4>2, AllocKeeps, ZenonT(60)
    <3>5. QED
      BY <3>3, <3>4
  <2>9. PredefinedOK(r, predefined')
    BY <2>3, <2>4, <2>8, SizesKeepPredefined
  <2>10. QED
    BY <2>6, <2>8, <2>9, SameInv
<1>3. QED
  BY <1>1, <1>2

(* pool_free with any address: those that fail its tests change nothing.   *)
LEMMA ReturnKeeps ==
  ASSUME PoolInv, NEW p \in DOMAIN pools \cup {NULL}, NEW a \in Nat, pool_free(p, a)
  PROVE  PoolInv'
<1>1. CASE p = NULL \/ a = NULL \/ ~Accepted(pools[p], a)
  BY <1>1, StutterKeeps DEF pool_free
<1>2. CASE p # NULL /\ a # NULL /\ Accepted(pools[p], a)
  <2>1. PICK g, m : g = Append(pools[p].free_list, a) /\ m = Memory
    OBVIOUS
  <2>2. /\ pools' = [pools EXCEPT ![p].free_list = g]
        /\ loans' = Retracted(loans, {a})
        /\ hdr' = hdr /\ held' = held /\ predefined' = predefined
    BY <1>2, <2>1 DEF pool_free, Retract, Retracted
  <2>3. PoolsInv(m, loans) /\ PredefinedOK(m, predefined) /\ p \in DOMAIN m.pools
        /\ m.pools = pools /\ m.hdr = hdr /\ m.held = held
    BY <1>2, <2>1, MemoryFields DEF PoolInv
  <2>4. PICK r : r = [hdr |-> hdr, held |-> held, pools |-> pools']
    OBVIOUS
  <2>5. hdr' = r.hdr /\ held' = r.held /\ pools' = r.pools
    BY <2>2, <2>4
  <2>6. RelistedIn(m, r, p, g)
    <3>1. pools[p].free_list \in Seq(Nat) /\ PoolType(m.pools[p])
      BY <2>3 DEF PoolsInv, Owned, PoolPlaced, PoolType, memory_pool_t
    <3>2. g \in Seq(Nat)
      BY <2>1, <3>1
    <3>3. Relisted(m.pools[p], r.pools[p], g)
      <4>1. r.pools[p] = [m.pools[p] EXCEPT !.free_list = g]
        BY <2>2, <2>3, <2>5
      <4>2. QED
        BY <3>1, <3>2, <4>1, RelistedPool
    <3>4. QED
      BY <2>2, <2>3, <2>4, <2>5, <3>3 DEF RelistedIn
  <2>7. PoolsInv(r, loans') /\ SameSizes(m, r)
    <3>1. /\ Accepted(m.pools[p], a)
          /\ RelistedIn(m, r, p, Append(m.pools[p].free_list, a))
      BY <1>2, <2>1, <2>3, <2>6
    <3>2. PICK k : k = loans' /\ k = Retracted(loans, {a})
      BY <2>2
    <3>3. PoolsInv(r, k) /\ SameSizes(m, r)
      <4> HIDE DEF Accepted
      <4>1. QED
        BY <2>3, <3>1, <3>2, PoolFreeKeeps
    <3>4. QED
      BY <3>2, <3>3
  <2>8. PredefinedOK(r, predefined')
    BY <2>2, <2>3, <2>7, SizesKeepPredefined
  <2>9. QED
    BY <2>5, <2>7, <2>8, SameInv
<1>3. QED
  BY <1>1, <1>2

(* pool_destroy of a pool a caller made.                                   *)
LEMMA PoolDestroyKeeps ==
  ASSUME PoolInv, Ready, NEW p \in Created, pool_destroy(p)
  PROVE  PoolInv'
<1>1. PICK m, q : m = Memory /\ q = pools[p]
  OBVIOUS
<1>2. PICK e : e = Free(m, q.pool_start - HDR)
  OBVIOUS
<1>3. PICK f : f = Free(e, q.free_array - HDR)
  OBVIOUS
<1>4. PICK g : g = Free(f, p)
  OBVIOUS
<1>5. PICK r : r = [hdr |-> g.hdr, held |-> g.held, pools |-> Without(pools, p)]
  OBVIOUS
<1>6. /\ hdr' = r.hdr /\ held' = r.held /\ pools' = r.pools
      /\ loans' = Retracted(loans, Blocks(q)) /\ predefined' = predefined
  BY <1>1, <1>2, <1>3, <1>4, <1>5 DEF pool_destroy, Retract, Retracted
<1>7. /\ PoolsInv(m, loans) /\ PredefinedOK(m, predefined) /\ p \in DOMAIN m.pools
      /\ m.pools = pools
  BY <1>1, MemoryFields DEF PoolInv, Created
<1>8. /\ PoolsInv(r, loans')
      /\ \A c \in DOMAIN m.pools \ {p} : c \in DOMAIN r.pools /\ r.pools[c] = m.pools[c]
  BY <1>1, <1>2, <1>3, <1>4, <1>5, <1>6, <1>7, DestroyKeeps
<1>9. \A i \in DOMAIN predefined : predefined[i] # p
  BY DEF Created, Range
<1>10. PredefinedOK(r, predefined')
  BY <1>6, <1>7, <1>8, <1>9 DEF PredefinedOK
<1>11. QED
  BY <1>6, <1>8, <1>10, SameInv

(* The pool smart_alloc chooses has blocks of at least the size asked for. *)
LEMMA PoolForFacts ==
  ASSUME NEW n \in Nat, PoolFor(n) # 0
  PROVE  PoolFor(n) \in 1..3 /\ n <= SizeOf(PoolFor(n))
BY PoolAssumption DEF PoolFor, SizeOf

(* The predefined pool for a size has blocks as long.                      *)
LEMMA ServedBy ==
  ASSUME PoolInv, Ready, NEW n \in Nat, PoolFor(n) # 0, NEW p, p = predefined[PoolFor(n)]
  PROVE  p \in DOMAIN pools \cup {NULL} /\ (p # NULL => n <= pools[p].block_size)
<1>1. PoolFor(n) \in 1..3 /\ n <= SizeOf(PoolFor(n))
  BY PoolForFacts
<1>2. p = NULL \/ (p \in DOMAIN pools /\ pools[p].block_size = SizeOf(PoolFor(n)))
  BY <1>1, MemoryFields DEF PoolInv, PredefinedOK, Ready
<1>3. QED
  BY <1>1, <1>2

(* smart_alloc, from a pool or from kmalloc.                               *)
LEMMA SmartAllocKeeps ==
  ASSUME PoolInv, Ready, NEW n \in Sizes, smart_alloc(n)
  PROVE  PoolInv'
<1>1. n \in Nat /\ Asked(n)
  BY PoolAssumption DEF Asked
<1>2. CASE PoolFor(n) # 0
  <2>1. PICK p : p = predefined[PoolFor(n)]
    OBVIOUS
  <2>2. pool_alloc(p, n)
    BY <1>2, <2>1 DEF smart_alloc
  <2>3. QED
    BY <1>1, <1>2, <2>1, <2>2, ServedBy, PoolAllocKeeps
<1>3. CASE PoolFor(n) = 0
  <2>1. PICK m, r : m = Memory /\ r = Malloc(m, n)
    OBVIOUS
  <2>2. /\ hdr' = r.hdr /\ held' = r.held /\ pools' = r.pools /\ predefined' = predefined
        /\ IF r.ptr = NULL THEN loans' = loans ELSE loans' = Lent(loans, r.ptr + HDR, n)
    BY <1>3, <2>1 DEF smart_alloc, Becomes, Lend, Lent, Payload
  <2>3. /\ HeapOK(r) /\ r.pools = m.pools
        /\ MallocFails(m, r) \/ MallocGives(m, n, r)
    BY <1>1, <2>1, MallocFacts DEF PoolInv, PoolsInv
  <2>4. PoolsInv(m, loans) /\ PredefinedOK(m, predefined)
    BY <2>1 DEF PoolInv
  <2>5. PoolsInv(r, loans')
    <3>1. CASE MallocFails(m, r)
      BY <2>2, <2>3, <2>4, <3>1, SameMemory DEF MallocFails
    <3>2. CASE MallocGives(m, n, r)
      <4>1. loans' = Lent(loans, r.ptr + HDR, n)
        BY <2>2, <3>2 DEF MallocGives
      <4>2. QED
        BY <1>1, <2>3, <2>4, <3>2, <4>1, HeapLoanKeeps
    <3>3. QED
      BY <2>3, <3>1, <3>2
  <2>6. PredefinedOK(r, predefined')
    BY <2>2, <2>3, <2>4 DEF PredefinedOK
  <2>7. QED
    BY <2>2, <2>5, <2>6, SameInv
<1>4. QED
  BY <1>2, <1>3

(* No loan is at address null.                                             *)
LEMMA LoansNotNull ==
  ASSUME NEW m, NEW l, PoolsInv(m, l), NEW a \in DOMAIN l
  PROVE  a # NULL
<1>1. HeldPlaced(m) /\ Owned(m) /\ a \in Nat /\ (FromPool(m, l, a) \/ FromHeap(m, l, a))
  BY HeldFacts DEF PoolsInv, LoansOK
<1>2. CASE FromPool(m, l, a)
  <2>1. PICK p \in DOMAIN m.pools : a \in Blocks(m.pools[p])
    BY <1>2 DEF FromPool
  <2>2. PICK b : Inside(m, b, a, m.pools[p].block_size)
    BY <1>1, <2>1, BlockInside DEF Owned
  <2>3. QED
    BY <1>1, <2>2, LayoutAssumption DEF Inside, HeldPlaced, NULL
<1>3. CASE FromHeap(m, l, a)
  BY <1>1, <1>3, LayoutAssumption DEF FromHeap, HeldPlaced, NULL
<1>4. QED
  BY <1>1, <1>2, <1>3

(* smart_free with the size asked for, to the pool or to kfree.            *)
LEMMA SmartFreeKeeps ==
  ASSUME PoolInv, Ready, NEW a \in DOMAIN loans, Smart(a), smart_free(a, loans[a])
  PROVE  PoolInv'
<1>1. PICK n, m : n = loans[a] /\ m = Memory
  OBVIOUS
<1>2. /\ a \in Nat /\ n \in Nat /\ a # NULL
      /\ FromPool(m, loans, a) \/ FromHeap(m, loans, a)
      /\ PoolsInv(m, loans) /\ PredefinedOK(m, predefined) /\ m.pools = pools
  <2>1. PoolsInv(m, loans) /\ PredefinedOK(m, predefined) /\ m.pools = pools
    BY <1>1, MemoryFields DEF PoolInv
  <2>2. a \in Nat /\ n \in Nat /\ (FromPool(m, loans, a) \/ FromHeap(m, loans, a))
    BY <1>1, <2>1 DEF PoolsInv, LoansOK
  <2>3. a # NULL
    BY <2>1, LoansNotNull
  <2>4. QED
    BY <2>1, <2>2, <2>3
<1>3. CASE PoolFor(n) # 0
  <2>1. PICK p : p = predefined[PoolFor(n)]
    OBVIOUS
  <2>2. pool_free(p, a)
    BY <1>1, <1>3, <2>1 DEF smart_free
  <2>3. QED
    BY <1>2, <1>3, <2>1, <2>2, ServedBy, ReturnKeeps
<1>4. CASE PoolFor(n) = 0
  <2>1. FromHeap(m, loans, a)
    BY <1>1, <1>2, <1>4 DEF Smart, FromPool
  <2>2. PICK r : r = Free(m, a - HDR)
    OBVIOUS
  <2>3. /\ hdr' = r.hdr /\ held' = r.held /\ pools' = r.pools /\ predefined' = predefined
        /\ loans' = Retracted(loans, {a})
    BY <1>1, <1>2, <1>4, <2>2 DEF smart_free, Becomes, Retract, Retracted
  <2>4. PoolsInv(r, loans') /\ r.pools = m.pools
    BY <1>2, <2>1, <2>2, <2>3, HeapReturnKeeps
  <2>5. PredefinedOK(r, predefined')
    BY <1>2, <2>3, <2>4 DEF PredefinedOK
  <2>6. QED
    BY <2>3, <2>4, <2>5, SameInv
<1>5. QED
  BY <1>3, <1>4

(* Every step keeps the invariant.                                         *)
LEMMA PoolStep == PoolInv /\ [Next]_vars => PoolInv'
<1> SUFFICES ASSUME PoolInv, [Next]_vars PROVE PoolInv'
  OBVIOUS
<1>1. ASSUME NEW counts \in PoolCounts, init_memory_pools(counts) PROVE PoolInv'
  BY <1>1, InitPoolsKeeps
<1>2. ASSUME NEW shape \in Shapes, CreatePool(shape) PROVE PoolInv'
  BY <1>2, CreatePoolKeeps
<1>3. ASSUME Ready, NEW p \in Created, pool_destroy(p) PROVE PoolInv'
  BY <1>3, PoolDestroyKeeps
<1>4. ASSUME NEW p \in Created, pool_alloc(p, pools[p].block_size) PROVE PoolInv'
  <2>1. p \in DOMAIN pools
    BY DEF Created
  <2>2. pools[p].block_size \in Nat
    BY <2>1, MemoryFields DEF PoolInv, PoolsInv, Owned, PoolPlaced, PoolType, memory_pool_t
  <2>3. QED
    BY <1>4, <2>1, <2>2, PoolAllocKeeps
<1>5. ASSUME NEW p \in DOMAIN pools \cup {NULL}, NEW a \in Addresses, pool_free(p, a)
      PROVE  PoolInv'
  <2>1. a \in Nat
    BY LayoutAssumption DEF Addresses, NULL
  <2>2. QED
    BY <1>5, <2>1, ReturnKeeps
<1>6. ASSUME Ready, NEW n \in Sizes, smart_alloc(n) PROVE PoolInv'
  BY <1>6, SmartAllocKeeps
<1>7. ASSUME Ready, NEW a \in DOMAIN loans, Smart(a), smart_free(a, loans[a]) PROVE PoolInv'
  BY <1>7, SmartFreeKeeps
<1>8. CASE UNCHANGED vars
  BY <1>8, StutterKeeps
<1>9. QED
  BY <1>1, <1>2, <1>3, <1>4, <1>5, <1>6, <1>7, <1>8 DEF Next

(* The invariant holds in every state, whatever callers create, destroy,   *)
(* allocate and release in whatever order.                                 *)
THEOREM PoolInvariance == Spec => []PoolInv
BY PoolInit, PoolStep, PTL DEF Spec

(* A list without repetition has as many members as entries.               *)
LEMMA ListCardinality ==
  ASSUME NEW f \in Seq(Nat), IsInjective(f)
  PROVE  Cardinality(Range(f)) = Len(f)
<1>1. Len(f) \in Nat /\ DOMAIN f = 1..Len(f)
  OBVIOUS
<1>2. f \in [1..Len(f) -> Range(f)]
  BY <1>1 DEF Range
<1>3. \A a, b \in 1..Len(f) : f[a] = f[b] => a = b
  BY <1>1 DEF IsInjective
<1>4. \A y \in Range(f) : \E x \in 1..Len(f) : f[x] = y
  BY <1>1 DEF Range
<1>5. f \in Bijection(1..Len(f), Range(f))
  BY <1>2, <1>3, <1>4 DEF Bijection, Injection, Surjection, IsInjective
<1>6. ExistsBijection(1..Len(f), Range(f))
  BY <1>5 DEF ExistsBijection
<1>7. QED
  BY <1>1, <1>6, FS_CountingElements

(* In every state each block of each pool is on the free list once or      *)
(* lent, never both and never neither.                                     *)
THEOREM PoolsConserved == Spec => []PoolConserved
<1>1. PoolInv => PoolConserved
  <2> SUFFICES ASSUME PoolInv, NEW p \in DOMAIN pools
               PROVE  LET free == pools[p].free_list
                      IN  /\ Cardinality(Range(free)) = Len(free)
                          /\ Range(free) \cup (DOMAIN loans \cap Blocks(pools[p]))
                               = Blocks(pools[p])
                          /\ Range(free) \cap DOMAIN loans = {}
    BY DEF PoolConserved
  <2>1. FreeExact(pools[p], loans) /\ pools[p].free_list \in Seq(Nat)
    BY MemoryFields
       DEF PoolInv, PoolsInv, Conserved, Owned, PoolPlaced, PoolType, memory_pool_t
  <2>2. QED
    BY <2>1, ListCardinality DEF FreeExact
<1>2. QED
  BY <1>1, PoolInvariance, PTL

(* In every state no two callers hold memory that overlaps, from whichever *)
(* pools or the heap it came.                                              *)
THEOREM LoansAlwaysApart == Spec => []LoansApart
<1>1. PoolInv => LoansApart
  BY LoansLieApart DEF PoolInv, LoansApart
<1>2. QED
  BY <1>1, PoolInvariance, PTL

(* In every state the memory behind a loan is as long as its caller asked  *)
(* for.                                                                    *)
THEOREM LoansAlwaysFit == Spec => []LoansFit
<1>1. PoolInv => LoansFit
  BY MemoryFields DEF PoolInv, PoolsInv, LoansOK, FromPool, FromHeap, LoansFit
<1>2. QED
  BY <1>1, PoolInvariance, PTL

(* In every state the allocated blocks of the heap are exactly those of    *)
(* the live pools and those lent from the heap, and the heap is in order.  *)
THEOREM NoHeapIsLeaked == Spec => []NoHeapLeak
<1>1. PoolInv => NoHeapLeak
  <2> SUFFICES ASSUME PoolInv PROVE NoHeapLeak
    OBVIOUS
  <2>1. PICK m : m = Memory
    OBVIOUS
  <2>2. PoolsInv(m, loans) /\ m.hdr = hdr /\ m.held = held /\ m.pools = pools
    BY <2>1, MemoryFields DEF PoolInv
  <2>3. HeldPlaced(m)
    BY <2>2, HeldFacts DEF PoolsInv
  <2>4. \A b : InParts(m, b) <=> b \in UNION {Parts(p) : p \in DOMAIN pools}
    BY <2>2 DEF InParts, PartsOf, Parts
  <2>5. ASSUME NEW b, InParts(m, b) PROVE b \in DOMAIN held
    BY <2>2, <2>5 DEF InParts, PoolsInv, Owned, PoolPlaced
  <2>6. ASSUME NEW b \in DOMAIN held, ~InParts(m, b)
        PROVE  \E a \in DOMAIN loans \ PoolMemory : b = a - HDR
    <3>1. b + HDR \in DOMAIN loans
      BY <2>2, <2>6 DEF PoolsInv, Accounted
    <3>2. \A p \in DOMAIN pools : b + HDR \notin Blocks(pools[p])
      BY <2>2, <2>3, <2>6, HeapBlockOutside DEF PoolsInv
    <3>3. b = (b + HDR) - HDR
      BY <2>2, <2>3, LayoutAssumption DEF HeldPlaced
    <3>4. QED
      BY <3>1, <3>2, <3>3 DEF PoolMemory
  <2>7. ASSUME NEW a \in DOMAIN loans \ PoolMemory PROVE a - HDR \in DOMAIN held
    BY <2>2 DEF PoolsInv, LoansOK, FromPool, FromHeap, PoolMemory
  <2>8. WellFormed(hdr) /\ HeldMatches(hdr, held)
    BY <2>2 DEF PoolsInv, HeapOK
  <2>9. DOMAIN held = (UNION {Parts(p) : p \in DOMAIN pools})
                        \cup {a - HDR : a \in DOMAIN loans \ PoolMemory}
    BY <2>4, <2>5, <2>6, <2>7
  <2>10. QED
    BY <2>8, <2>9 DEF NoHeapLeak
<1>2. QED
  BY <1>1, PoolInvariance, PTL
=============================================================================
