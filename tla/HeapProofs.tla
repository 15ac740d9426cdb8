----------------------------- MODULE HeapProofs -----------------------------
(***************************************************************************)
(* Proofs about the kernel heap, for every heap size, header size, split   *)
(* threshold and set of requests.                                          *)
(***************************************************************************)
EXTENDS Heap, HeapBlocksProofs

-----------------------------------------------------------------------------
(***************************************************************************)
(* The inductive invariant: the conjunction of the type invariant and the  *)
(* three state invariants.  None of them is inductive alone: kfree merges  *)
(* along links, so sizes stay right only while links lead to the adjacent  *)
(* block, and it adds up sizes of free blocks only, so what callers hold   *)
(* stays as it was only while the list agrees on what is held.             *)
(***************************************************************************)
HeapInv == TypeOK /\ HeapWellFormed /\ HeapCoalesced /\ HeldIsAllocated

LEMMA HeapInit == Init => HeapInv
<1> SUFFICES ASSUME Init PROVE HeapInv
  OBVIOUS
<1>1. WellFormed(hdr) /\ Coalesced(hdr) /\ Used(hdr) = {}
  BY EmptyHeapFacts DEF Init
<1>2. held \in [DOMAIN held -> Nat] /\ DOMAIN held = {} /\ heap_used \in Int
  BY DEF Init
<1>3. HeldMatches(hdr, held)
  BY <1>1, <1>2 DEF HeldMatches
<1>4. QED
  BY <1>1, <1>2, <1>3
     DEF HeapInv, TypeOK, HeapWellFormed, WellFormed, HeapCoalesced, HeldIsAllocated

(* kmalloc and kcalloc.                                                    *)
LEMMA AllocateKeeps ==
  ASSUME HeapInv, NEW n \in Nat, NEW asked \in Nat, asked <= n, n + HDR < WORDS,
         Allocate(n, asked)
  PROVE  HeapInv'
<1> USE LayoutAssumption, RequestAssumption
<1>1. CASE UNCHANGED vars
  BY <1>1 DEF vars, HeapInv, TypeOK, HeapWellFormed, HeapCoalesced, HeldIsAllocated
<1>2. CASE ~UNCHANGED vars
  <2>1. PICK b \in DOMAIN hdr :
          /\ FirstFit(hdr, Total(n), b)
          /\ hdr' = Take(hdr, b, Total(n))
          /\ heap_used' = heap_used + Take(hdr, b, Total(n))[b].size
          /\ held' = [c \in DOMAIN held \cup {b} |->
                        IF c = b THEN asked ELSE held[c]]
    BY <1>2 DEF Allocate
  <2>2. Total(n) \in Nat /\ Total(n) >= n
    BY DEF Total
  <2>3. hdr[b].is_free /\ hdr[b].size >= Total(n)
    BY <2>1 DEF FirstFit, Fits
  <2>4. TakeResult(hdr, b, Total(n), hdr')
    BY <2>1, <2>2, <2>3, TakeKeeps DEF HeapInv, HeapWellFormed, HeapCoalesced
  <2>5. HeldMatches(hdr', held')
    BY <2>1, <2>2, <2>3, <2>4
       DEF TakeResult, HeapInv, TypeOK, HeldIsAllocated, HeldMatches, Used
  <2>6. held' \in [DOMAIN held' -> Nat]
    BY <2>1 DEF HeapInv, TypeOK
  <2>7. heap_used' \in Int
    BY <2>1, <2>2, <2>4 DEF HeapInv, TypeOK, TakeResult
  <2>8. QED
    BY <2>4, <2>5, <2>6, <2>7
       DEF TakeResult, HeapInv, TypeOK, HeapWellFormed, WellFormed, HeapCoalesced, HeldIsAllocated
<1>3. QED
  BY <1>1, <1>2

(* kfree of a block in use.                                                *)
LEMMA FreeKeeps ==
  ASSUME HeapInv, NEW b \in DOMAIN hdr \cup {NULL}, kfree(b)
  PROVE  HeapInv'
<1>1. CASE UNCHANGED vars
  BY <1>1 DEF vars, HeapInv, TypeOK, HeapWellFormed, HeapCoalesced, HeldIsAllocated
<1>2. CASE ~UNCHANGED vars
  <2>1. /\ b \in DOMAIN hdr
        /\ ~hdr[b].is_free
        /\ hdr' = Release(hdr, b)
        /\ heap_used' = heap_used - hdr[b].size
        /\ held' = Without(held, b)
    BY <1>2 DEF kfree
  <2>2. WellFormed(hdr') /\ Coalesced(hdr') /\ Shrunk(hdr, b, hdr')
    BY <2>1, ReleaseKeeps DEF HeapInv, HeapWellFormed, HeapCoalesced
  <2>3. HeldMatches(hdr', held')
    BY <2>1, <2>2 DEF HeapInv, HeldIsAllocated, HeldMatches, Used, Shrunk, Without
  <2>4. held' \in [DOMAIN held' -> Nat]
    BY <2>1 DEF HeapInv, TypeOK, Without
  <2>5. heap_used' \in Int
    BY <2>1 DEF HeapInv, TypeOK, BlockType, heap_block_t
  <2>6. QED
    BY <2>2, <2>3, <2>4, <2>5
       DEF HeapInv, TypeOK, HeapWellFormed, WellFormed, HeapCoalesced, HeldIsAllocated
<1>3. QED
  BY <1>1, <1>2

(* krealloc moves a block: kmalloc, then kfree of the old one.             *)
LEMMA ReallocKeeps ==
  ASSUME HeapInv, NEW b \in DOMAIN held \cup {NULL}, NEW n \in Requests,
         krealloc(b, n)
  PROVE  HeapInv'
<1> USE LayoutAssumption, RequestAssumption
<1>1. CASE b = NULL /\ kmalloc(n)
  BY <1>1, AllocateKeeps DEF kmalloc
<1>2. CASE b # NULL /\ n = 0 /\ kfree(b)
  <2>1. b \in DOMAIN hdr
    BY <1>2 DEF HeapInv, HeldIsAllocated, HeldMatches, Used
  <2>2. QED
    BY <1>2, <2>1, FreeKeeps
<1>3. CASE UNCHANGED vars
  BY <1>3 DEF vars, HeapInv, TypeOK, HeapWellFormed, HeapCoalesced, HeldIsAllocated
<1>4. CASE b # NULL /\ hdr[b].size >= n /\ held' = [held EXCEPT ![b] = n]
           /\ UNCHANGED <<hdr, heap_used>>
  <2>1. DOMAIN held' = DOMAIN held /\ held' \in [DOMAIN held' -> Nat]
        /\ held'[b] = n /\ \A c \in DOMAIN held \ {b} : held'[c] = held[c]
    BY <1>4 DEF HeapInv, TypeOK
  <2>2. HeldMatches(hdr, held')
    BY <1>4, <2>1 DEF HeapInv, HeldIsAllocated, HeldMatches, Used
  <2>3. QED
    BY <1>4, <2>1, <2>2
       DEF HeapInv, TypeOK, HeapWellFormed, HeapCoalesced, HeldIsAllocated
<1>5. CASE \E c \in DOMAIN hdr :
             /\ b # NULL
             /\ FirstFit(hdr, Total(n), c)
             /\ hdr' = Release(Take(hdr, c, Total(n)), b)
             /\ heap_used' = heap_used + Take(hdr, c, Total(n))[c].size
                                       - hdr[b].size
             /\ held' = [d \in (DOMAIN held \cup {c}) \ {b} |->
                           IF d = c THEN n ELSE held[d]]
  <2>1. PICK c \in DOMAIN hdr :
          /\ b # NULL
          /\ FirstFit(hdr, Total(n), c)
          /\ hdr' = Release(Take(hdr, c, Total(n)), b)
          /\ heap_used' = heap_used + Take(hdr, c, Total(n))[c].size
                                    - hdr[b].size
          /\ held' = [d \in (DOMAIN held \cup {c}) \ {b} |->
                        IF d = c THEN n ELSE held[d]]
    BY <1>5
  <2> DEFINE g == Take(hdr, c, Total(n))
  <2>2. Total(n) \in Nat /\ Total(n) >= n
    BY DEF Total
  <2>3. hdr[c].is_free /\ hdr[c].size >= Total(n)
    BY <2>1 DEF FirstFit, Fits
  <2>4. TakeResult(hdr, c, Total(n), g)
    BY <2>2, <2>3, TakeKeeps DEF HeapInv, HeapWellFormed, HeapCoalesced
  <2> HIDE DEF g
  <2>5. b \in DOMAIN hdr /\ ~hdr[b].is_free /\ b # c
    BY <2>1, <2>3 DEF HeapInv, HeldIsAllocated, HeldMatches, Used
  <2>6. WellFormed(hdr') /\ Coalesced(hdr') /\ Shrunk(g, b, hdr')
    BY <2>1, <2>4, <2>5, ReleaseKeeps DEF g, TakeResult
  <2>7. DOMAIN held' = {d \in DOMAIN hdr' : ~hdr'[d].is_free}
    <3>1. DOMAIN held = {d \in DOMAIN hdr : ~hdr[d].is_free}
      BY DEF HeapInv, HeldIsAllocated, HeldMatches, Used
    <3>2. DOMAIN held' = (DOMAIN held \cup {c}) \ {b}
      BY <2>1
    <3>3. QED
      BY <2>4, <2>5, <2>6, <3>1, <3>2 DEF Shrunk, TakeResult, Used
  <2>8. \A d \in DOMAIN held' : held'[d] <= hdr'[d].size
    <3>1. SUFFICES ASSUME NEW d \in DOMAIN held' PROVE held'[d] <= hdr'[d].size
      OBVIOUS
    <3>2. d \in (DOMAIN held \cup {c}) \ {b} /\ held'[d] = IF d = c THEN n ELSE held[d]
      BY <2>1
    <3>3. CASE d = c
      BY <2>2, <2>4, <2>5, <2>6, <3>2, <3>3 DEF Shrunk, TakeResult
    <3>4. CASE d # c
      <4>1. d \in DOMAIN hdr /\ ~hdr[d].is_free /\ held[d] <= hdr[d].size
        BY <3>2, <3>4 DEF HeapInv, HeldIsAllocated, HeldMatches, Used
      <4>2. d \in DOMAIN g /\ ~g[d].is_free /\ g[d].size = hdr[d].size
        BY <2>4, <3>4, <4>1 DEF TakeResult
      <4>3. hdr'[d].size = g[d].size
        BY <2>6, <3>2, <4>2 DEF Shrunk
      <4>4. QED
        BY <3>2, <3>4, <4>1, <4>2, <4>3
    <3>5. QED
      BY <3>3, <3>4
  <2>9. held' \in [DOMAIN held' -> Nat]
    BY <2>1 DEF HeapInv, TypeOK
  <2>10. heap_used' \in Int
    <3>1. hdr[b].size \in Nat
      BY <2>5 DEF HeapInv, TypeOK, BlockType, heap_block_t
    <3>2. QED
      BY <2>1, <2>2, <2>4, <3>1 DEF HeapInv, TypeOK, TakeResult, g
  <2>11. QED
    BY <2>6, <2>7, <2>8, <2>9, <2>10
       DEF HeapInv, TypeOK, HeapWellFormed, WellFormed, HeapCoalesced,
           HeldIsAllocated, HeldMatches, Used
<1>6. QED
  BY <1>1, <1>2, <1>3, <1>4, <1>5 DEF krealloc

LEMMA HeapStep == HeapInv /\ [Next]_vars => HeapInv'
<1> SUFFICES ASSUME HeapInv, [Next]_vars PROVE HeapInv'
  OBVIOUS
<1>1. ASSUME NEW n \in Requests, kmalloc(n) PROVE HeapInv'
  BY <1>1, RequestAssumption, AllocateKeeps DEF kmalloc
<1>2. ASSUME NEW a \in Arrays, kcalloc(a[1], a[2]) PROVE HeapInv'
  <2> DEFINE total == a[1] * a[2]
  <2>1. total \in Nat /\ total + HDR < WORDS /\ WORDS \in Nat /\ HDR \in Nat
    BY LayoutAssumption, RequestAssumption
  <2>2. total % WORDS = total
    <3> HIDE DEF total
    <3>1. QED
      BY <2>1
  <2>3. Allocate(total, total)
    BY <1>2, <2>2 DEF kcalloc
  <2> HIDE DEF total
  <2>4. QED
    BY <2>1, <2>3, AllocateKeeps
<1>3. ASSUME NEW b \in DOMAIN held \cup {NULL}, NEW n \in Requests, krealloc(b, n)
      PROVE  HeapInv'
  BY <1>3, ReallocKeeps
<1>4. ASSUME NEW b \in DOMAIN hdr \cup {NULL}, kfree(b) PROVE HeapInv'
  BY <1>4, FreeKeeps
<1>5. CASE UNCHANGED vars
  BY <1>5 DEF vars, HeapInv, TypeOK, HeapWellFormed, HeapCoalesced, HeldIsAllocated
<1>6. QED
  BY <1>1, <1>2, <1>3, <1>4, <1>5 DEF Next

(* Every state of the heap satisfies the inductive invariant.              *)
THEOREM HeapInvariance == Spec => []HeapInv
BY HeapInit, HeapStep, PTL DEF Spec

(* Headers and links of the heap keep their types: no link of the list ever *)
(* leads to a header that a merge has removed.                             *)
THEOREM HeapTypeCorrect == Spec => []TypeOK
<1>1. HeapInv => TypeOK
  BY DEF HeapInv
<1>2. QED
  BY <1>1, HeapInvariance, PTL

(* The blocks always tile the heap, linked both ways, without overlap.     *)
THEOREM HeapAlwaysWellFormed == Spec => []HeapWellFormed
<1>1. HeapInv => HeapWellFormed
  BY DEF HeapInv
<1>2. QED
  BY <1>1, HeapInvariance, PTL

(* kfree's coalescing is complete: two neighbours are never both free.     *)
THEOREM HeapAlwaysCoalesced == Spec => []HeapCoalesced
<1>1. HeapInv => HeapCoalesced
  BY DEF HeapInv
<1>2. QED
  BY <1>1, HeapInvariance, PTL

(* What callers hold is what is allocated, and long enough.                *)
THEOREM HeapHeldIsAllocated == Spec => []HeldIsAllocated
<1>1. HeapInv => HeldIsAllocated
  BY DEF HeapInv
<1>2. QED
  BY <1>1, HeapInvariance, PTL

(* When callers hold nothing the heap is again the single block of         *)
(* heap_init: every free block was merged back.                            *)
THEOREM HeapAllFreedIsInitial == Spec => []AllFreedIsInitial
<1>1. HeapInv => AllFreedIsInitial
  <2> SUFFICES ASSUME HeapInv, DOMAIN held = {} PROVE hdr = EmptyHeap
    BY DEF AllFreedIsInitial
  <2> USE LayoutAssumption
  <2>1. \A c \in DOMAIN hdr : hdr[c].is_free
    BY DEF HeapInv, HeldIsAllocated, HeldMatches, Used
  <2>2. /\ BlockType(hdr) /\ Tiled(hdr) /\ Linked(hdr) /\ Apart(hdr)
        /\ Coalesced(hdr)
    BY DEF HeapInv, HeapWellFormed, WellFormed, HeapCoalesced
  <2>3. \A c \in DOMAIN hdr : /\ c \in Nat /\ hdr[c] \in heap_block_t
                              /\ hdr[c].next = NULL
    BY <2>1, <2>2 DEF BlockType, Coalesced
  <2>4. DOMAIN hdr = {HEAP_BASE}
    <3>1. ASSUME NEW c \in DOMAIN hdr PROVE c = HEAP_BASE
      <4>1. End(hdr, c) = HEAP_END /\ End(hdr, HEAP_BASE) = HEAP_END
            /\ c >= HEAP_BASE /\ HEAP_BASE \in DOMAIN hdr
        BY <2>2, <2>3 DEF Tiled
      <4>2. hdr[c].size \in Nat
        BY <2>3 DEF heap_block_t
      <4>3. QED
        BY <2>2, <2>3, <4>1, <4>2 DEF Apart, End, HEAP_END
    <3>2. QED
      BY <2>2, <3>1 DEF Tiled
  <2>5. hdr[HEAP_BASE].size = HEAP_SIZE - HDR
    <3>1. End(hdr, HEAP_BASE) = HEAP_END /\ hdr[HEAP_BASE].size \in Nat
      BY <2>2, <2>3, <2>4 DEF Tiled, heap_block_t
    <3>2. QED
      BY <3>1 DEF End, HEAP_END
  <2>6. hdr[HEAP_BASE] = [size |-> HEAP_SIZE - HDR, is_free |-> TRUE,
                          next |-> NULL, prev |-> NULL]
    <3>1. hdr[HEAP_BASE].prev = NULL
      BY <2>2, <2>4 DEF Linked
    <3>2. hdr[HEAP_BASE].is_free = TRUE
      BY <2>1, <2>3, <2>4 DEF heap_block_t
    <3>3. QED
      BY <2>3, <2>4, <2>5, <3>1, <3>2, BlockEta
  <2>7. hdr = [c \in DOMAIN hdr |-> hdr[c]]
    BY <2>2 DEF BlockType
  <2>8. QED
    BY <2>4, <2>6, <2>7 DEF EmptyHeap
<1>2. QED
  BY <1>1, HeapInvariance, PTL

(* kmalloc refuses a request only when no free block is long enough, and    *)
(* serves the others from the lowest one that is.                          *)
RefusedOnlyWhenFull ==
  \A t \in Nat :
    /\ NoFit(hdr, t) <=> \A b \in DOMAIN hdr : hdr[b].is_free => ~(hdr[b].size >= t)
    /\ \A b \in DOMAIN hdr : FirstFit(hdr, t, b) <=>
         /\ Fits(hdr, b, t)
         /\ \A c \in DOMAIN hdr : c < b => ~Fits(hdr, c, t)

(* In every state the walk of kmalloc reaches every block of the heap: no   *)
(* request is refused while a free block would serve it.                   *)
THEOREM HeapRefusesOnlyWhenFull == Spec => []RefusedOnlyWhenFull
<1>1. HeapInv => RefusedOnlyWhenFull
  <2> SUFFICES ASSUME HeapInv, NEW t \in Nat
               PROVE  /\ NoFit(hdr, t) <=> \A c \in DOMAIN hdr : ~Fits(hdr, c, t)
                      /\ \A b : FirstFit(hdr, t, b) <=>
                            Fits(hdr, b, t) /\ \A c \in DOMAIN hdr : c < b => ~Fits(hdr, c, t)
    BY DEF RefusedOnlyWhenFull, Fits
  <2>1. WellFormed(hdr)
    BY DEF HeapInv, HeapWellFormed
  <2>2. QED
    BY <2>1, FirstFitIsLowest
<1>2. QED
  BY <1>1, HeapInvariance, PTL

-----------------------------------------------------------------------------
(* heap_used is the sum of the payloads in use.                            *)

(* The fold that adds up the payloads: which member of a set it takes      *)
(* first, and what it adds up to.                                          *)
Pick(s) == CHOOSE x \in s : TRUE

UsedSum(h, S) == MapThenSumSet(LAMBDA b : h[b].size, S)

SumBody(f, h, s) == IF s = {} THEN 0 ELSE h[Pick(s)].size + f[s \ {Pick(s)}]

Iterates(f, h, Z) == f = [s \in Z |-> SumBody(f, h, s)]

(* UsedSum is the value at S of a function on the subsets of S that takes  *)
(* away a member at a time, if there is one.                               *)
LEMMA SumUnfolds ==
  ASSUME NEW h, NEW S, \E f : Iterates(f, h, SUBSET S)
  PROVE  \E f : Iterates(f, h, SUBSET S) /\ UsedSum(h, S) = f[S]
<1>1. UsedSum(h, S) = (CHOOSE f : Iterates(f, h, SUBSET S))[S]
  BY DEF UsedSum, Iterates, SumBody, Pick, MapThenSumSet, MapThenFoldSet
<1>2. QED
  BY <1>1

(* The subsets of S with at most n members.                                *)
UpTo(S, n) == {s \in SUBSET S : Cardinality(s) <= n}

(* A finite set with a member removed.                                     *)
LEMMA RemoveOne ==
  ASSUME NEW S, IsFiniteSet(S), NEW s \in SUBSET S, s # {}, NEW x \in s
  PROVE  /\ IsFiniteSet(s) /\ s \ {x} \in SUBSET S
         /\ Cardinality(s) \in Nat /\ Cardinality(s) # 0
         /\ Cardinality(s \ {x}) = Cardinality(s) - 1
<1>1. IsFiniteSet(s)
  BY FS_Subset
<1>2. QED
  BY <1>1, FS_RemoveElement, FS_CardinalityType, FS_EmptySet

(* What is picked from a set is in it.                                     *)
LEMMA PickIn ==
  ASSUME NEW s, s # {}
  PROVE  Pick(s) \in s
BY DEF Pick

(* There is such a function, by induction on the number of members.        *)
LEMMA IterateExists ==
  ASSUME NEW S, IsFiniteSet(S), NEW h
  PROVE  \E f : Iterates(f, h, SUBSET S)
<1> DEFINE T == {n \in Nat : \E f : Iterates(f, h, UpTo(S, n))}
<1>1. 0 \in T
  <2> DEFINE f == [s \in UpTo(S, 0) |-> 0]
  <2>1. ASSUME NEW s \in UpTo(S, 0) PROVE s = {}
    BY FS_Subset, FS_EmptySet, FS_CardinalityType DEF UpTo
  <2>2. Iterates(f, h, UpTo(S, 0))
    BY <2>1 DEF Iterates, SumBody
  <2>3. QED
    BY <2>2
<1>2. ASSUME NEW n \in Nat, n \in T PROVE n + 1 \in T
  <2>1. PICK f : Iterates(f, h, UpTo(S, n))
    BY <1>2
  <2> DEFINE g == [s \in UpTo(S, n + 1) |-> SumBody(f, h, s)]
  <2>2. ASSUME NEW s \in UpTo(S, n) PROVE s \in UpTo(S, n + 1) /\ g[s] = f[s]
    <3>1. s \in UpTo(S, n + 1)
      BY FS_Subset, FS_CardinalityType DEF UpTo
    <3>2. f[s] = SumBody(f, h, s)
      BY <2>1 DEF Iterates
    <3>3. QED
      BY <3>1, <3>2
  <2>3. ASSUME NEW s \in UpTo(S, n + 1), s # {} PROVE s \ {Pick(s)} \in UpTo(S, n)
    <3>1. s \in SUBSET S /\ Cardinality(s) <= n + 1 /\ Pick(s) \in s
      BY <2>3, PickIn DEF UpTo
    <3>2. QED
      BY <2>3, <3>1, RemoveOne DEF UpTo
  <2>4. ASSUME NEW s \in UpTo(S, n + 1) PROVE SumBody(g, h, s) = SumBody(f, h, s)
    <3> HIDE DEF g
    <3>1. QED
      BY <2>2, <2>3 DEF SumBody
  <2>5. Iterates(g, h, UpTo(S, n + 1))
    BY <2>4 DEF Iterates
  <2>6. QED
    BY <2>5
<1> HIDE DEF T
<1>3. Nat \subseteq T
  BY <1>1, <1>2, Induction
<1>4. Cardinality(S) \in Nat
  BY FS_CardinalityType
<1>5. UpTo(S, Cardinality(S)) = SUBSET S
  BY FS_Subset DEF UpTo
<1>6. QED
  BY <1>3, <1>4, <1>5 DEF T

(* f adds up sizes over s, whichever member is taken away first.           *)
Adds(f, h, s) == f[s] \in Nat /\ \A x \in s : f[s] = h[x].size + f[s \ {x}]

(* The order in which members are taken away does not matter.              *)
LEMMA AnyOrder ==
  ASSUME NEW S, IsFiniteSet(S), NEW h, \A b \in S : h[b].size \in Nat,
         NEW f, Iterates(f, h, SUBSET S)
  PROVE  \A s \in SUBSET S : Adds(f, h, s)
<1> DEFINE T == {n \in Nat : \A s \in UpTo(S, n) : Adds(f, h, s)}
<1>1. ASSUME NEW s \in SUBSET S PROVE f[s] = SumBody(f, h, s)
  BY DEF Iterates
<1>2. 0 \in T
  <2>1. ASSUME NEW s \in UpTo(S, 0) PROVE s = {} /\ s \in SUBSET S
    BY FS_Subset, FS_EmptySet, FS_CardinalityType DEF UpTo
  <2>2. ASSUME NEW s \in UpTo(S, 0) PROVE Adds(f, h, s)
    <3>1. f[s] = 0
      BY ONLY <1>1, <2>1, s \in UpTo(S, 0) DEF SumBody
    <3>2. QED
      BY ONLY <2>1, <3>1, s \in UpTo(S, 0) DEF Adds
  <2>3. QED
    BY <2>2
<1>3. ASSUME NEW n \in Nat, n \in T PROVE n + 1 \in T
  <2>1. ASSUME NEW s \in UpTo(S, n + 1) PROVE Adds(f, h, s)
    <3>1. s \in SUBSET S /\ Cardinality(s) <= n + 1
      BY DEF UpTo
    <3>2. CASE s = {}
      <4>1. f[s] = 0
        BY ONLY <1>1, <3>1, <3>2 DEF SumBody
      <4>2. QED
        BY ONLY <3>2, <4>1 DEF Adds
    <3>3. CASE s # {}
      <4>1. PICK c \in s : f[s] = h[c].size + f[s \ {c}]
        BY <1>1, <3>1, <3>3, PickIn DEF SumBody
      <4>2. ASSUME NEW x \in s PROVE s \ {x} \in UpTo(S, n) /\ Adds(f, h, s \ {x})
        BY <1>3, <3>1, <3>3, RemoveOne DEF UpTo
      <4>3. f[s] \in Nat
        <5>1. f[s \ {c}] \in Nat
          BY <4>2 DEF Adds
        <5>2. h[c].size \in Nat
          BY <3>1
        <5>3. QED
          BY <4>1, <5>1, <5>2
      <4>4. ASSUME NEW x \in s, x # c PROVE f[s] = h[x].size + f[s \ {x}]
        <5>1. f[s \ {c}] = h[x].size + f[(s \ {c}) \ {x}]
          BY <4>2, <4>4 DEF Adds
        <5>2. f[s \ {x}] = h[c].size + f[(s \ {x}) \ {c}]
          BY <4>2, <4>4 DEF Adds
        <5>3. (s \ {c}) \ {x} = (s \ {x}) \ {c}
          OBVIOUS
        <5>4. PICK k : k = f[(s \ {x}) \ {c}]
          OBVIOUS
        <5>5. k \in Nat
          <6>1. (s \ {x}) \ {c} \in UpTo(S, n)
            <7>1. s \ {x} \in SUBSET S /\ Cardinality(s \ {x}) <= n /\ c \in s \ {x}
              BY <4>2, <4>4 DEF UpTo
            <7>2. s \ {x} # {} /\ n \in Nat
              BY <7>1
            <7>3. /\ (s \ {x}) \ {c} \in SUBSET S
                  /\ Cardinality(s \ {x}) \in Nat
                  /\ Cardinality((s \ {x}) \ {c}) = Cardinality(s \ {x}) - 1
              <8>1. PICK u : u = s \ {x}
                OBVIOUS
              <8>2. u \in SUBSET S /\ u # {} /\ c \in u
                BY ONLY <7>1, <7>2, <8>1
              <8>3. /\ u \ {c} \in SUBSET S /\ Cardinality(u) \in Nat
                    /\ Cardinality(u \ {c}) = Cardinality(u) - 1
                BY <8>2, RemoveOne
              <8>4. QED
                BY ONLY <8>1, <8>3
            <7>4. QED
              BY <7>1, <7>2, <7>3 DEF UpTo
          <6>2. QED
            BY <1>3, <5>4, <6>1 DEF Adds
        <5>6. h[x].size \in Nat /\ h[c].size \in Nat
          BY <3>1
        <5>7. f[s] = h[c].size + (h[x].size + k) /\ f[s \ {x}] = h[c].size + k
          BY <4>1, <5>1, <5>2, <5>3, <5>4
        <5>8. PICK y, z : y = h[x].size /\ z = h[c].size
          OBVIOUS
        <5>9. z + (y + k) = y + (z + k)
          BY <5>5, <5>6, <5>8
        <5>10. QED
          BY <5>7, <5>8, <5>9
      <4>5. QED
        BY <4>1, <4>3, <4>4 DEF Adds
    <3>4. QED
      BY <3>2, <3>3
  <2>2. QED
    BY <2>1
<1> HIDE DEF T
<1>4. Nat \subseteq T
  BY <1>2, <1>3, Induction
<1>5. Cardinality(S) \in Nat /\ UpTo(S, Cardinality(S)) = SUBSET S
  BY FS_Subset, FS_CardinalityType DEF UpTo
<1>6. QED
  BY <1>4, <1>5 DEF T

(* The blocks of S have the same sizes in h and k.                         *)
SameOn(h, k, S) == \A b \in S : h[b].size = k[b].size

(* Two such functions agree wherever the sizes do.                         *)
LEMMA SumsAgree ==
  ASSUME NEW S, IsFiniteSet(S), NEW h, NEW k, SameOn(h, k, S),
         NEW f, NEW g, \A s \in SUBSET S : Adds(f, h, s) /\ Adds(g, k, s), f[{}] = g[{}]
  PROVE  \A s \in SUBSET S : f[s] = g[s]
<1> DEFINE T == {n \in Nat : \A s \in UpTo(S, n) : f[s] = g[s]}
<1>1. 0 \in T
  BY FS_Subset, FS_EmptySet, FS_CardinalityType DEF UpTo
<1>2. ASSUME NEW n \in Nat, n \in T PROVE n + 1 \in T
  <2>1. ASSUME NEW s \in UpTo(S, n + 1), s # {} PROVE f[s] = g[s]
    <3>1. s \in SUBSET S /\ Cardinality(s) <= n + 1
      BY DEF UpTo
    <3>2. PICK x \in s : TRUE
      BY <2>1
    <3>3. s \ {x} \in UpTo(S, n)
      BY <2>1, <3>1, RemoveOne DEF UpTo
    <3>4. f[s \ {x}] = g[s \ {x}]
      BY <1>2, <3>3
    <3>5. f[s] = h[x].size + f[s \ {x}] /\ g[s] = k[x].size + g[s \ {x}]
      BY <3>1 DEF Adds
    <3>6. h[x].size = k[x].size
      BY <3>1 DEF SameOn
    <3>7. QED
      BY <3>4, <3>5, <3>6
  <2>2. QED
    BY <2>1
<1> HIDE DEF T
<1>3. Nat \subseteq T
  BY <1>1, <1>2, Induction
<1>4. Cardinality(S) \in Nat /\ UpTo(S, Cardinality(S)) = SUBSET S
  BY FS_Subset, FS_CardinalityType DEF UpTo
<1>5. QED
  BY <1>3, <1>4 DEF T

(* S is finite and its blocks have sizes.                                  *)
Sized(h, S) == IsFiniteSet(S) /\ \A b \in S : h[b].size \in Nat

(* UsedSum adds up, in any order.                                          *)
LEMMA SumFacts ==
  ASSUME NEW h, NEW S, Sized(h, S)
  PROVE  \E f : /\ UsedSum(h, S) = f[S] /\ f[{}] = 0
                /\ \A s \in SUBSET S : Adds(f, h, s)
<1>1. PICK f : Iterates(f, h, SUBSET S) /\ UsedSum(h, S) = f[S]
  BY IterateExists, SumUnfolds DEF Sized
<1>2. \A s \in SUBSET S : Adds(f, h, s)
  BY <1>1, AnyOrder DEF Sized
<1>3. f[{}] = 0
  BY <1>1 DEF Iterates, SumBody
<1>4. QED
  BY <1>1, <1>2, <1>3

(* Nothing adds up to 0.                                                   *)
LEMMA SumEmpty == ASSUME NEW h PROVE UsedSum(h, {}) = 0
<1>1. Sized(h, {})
  BY FS_EmptySet DEF Sized
<1>2. QED
  BY <1>1, SumFacts

(* The sum depends on the sizes only.                                      *)
LEMMA SumSame ==
  ASSUME NEW h, NEW k, NEW S, Sized(h, S), SameOn(h, k, S)
  PROVE  UsedSum(k, S) = UsedSum(h, S)
<1>1. Sized(k, S)
  BY DEF Sized, SameOn
<1>2. PICK f : /\ UsedSum(h, S) = f[S] /\ f[{}] = 0
               /\ \A s \in SUBSET S : Adds(f, h, s)
  BY SumFacts
<1>3. PICK g : /\ UsedSum(k, S) = g[S] /\ g[{}] = 0
               /\ \A s \in SUBSET S : Adds(g, k, s)
  BY <1>1, SumFacts
<1>4. f[S] = g[S]
  BY <1>2, <1>3, SumsAgree DEF Sized
<1>5. QED
  BY <1>2, <1>3, <1>4

(* A member can be taken out of the sum.                                   *)
LEMMA SumWith ==
  ASSUME NEW h, NEW S, NEW x \in S, Sized(h, S)
  PROVE  /\ UsedSum(h, S) = h[x].size + UsedSum(h, S \ {x})
         /\ UsedSum(h, S \ {x}) \in Nat
<1> DEFINE R == S \ {x}
<1>1. Sized(h, R)
  BY FS_Subset DEF Sized
<1>2. PICK f : /\ UsedSum(h, S) = f[S] /\ f[{}] = 0
               /\ \A s \in SUBSET S : Adds(f, h, s)
  BY SumFacts
<1>3. PICK g : /\ UsedSum(h, R) = g[R] /\ g[{}] = 0
               /\ \A s \in SUBSET R : Adds(g, h, s)
  BY <1>1, SumFacts
<1>4. IsFiniteSet(R) /\ SameOn(h, h, R)
  BY <1>1 DEF Sized, SameOn
<1>5. \A s \in SUBSET R : Adds(f, h, s) /\ Adds(g, h, s)
  BY <1>2, <1>3
<1>6. f[R] = g[R]
  <2> HIDE DEF R
  <2>1. QED
    BY <1>2, <1>3, <1>4, <1>5, SumsAgree
<1>7. f[S] = h[x].size + f[R] /\ f[R] \in Nat
  BY <1>2 DEF Adds
<1>8. QED
  BY <1>2, <1>3, <1>6, <1>7

(* The blocks in use are finite in number and their sizes are numbers.     *)
LEMMA UsedSized ==
  ASSUME NEW h, WellFormed(h)
  PROVE  Sized(h, Used(h))
<1>1. DOMAIN h \subseteq HEAP_BASE..HEAP_END /\ \A b \in DOMAIN h : h[b].size \in Nat
  BY LayoutAssumption, UsedFacts DEF Placed, HEAP_END
<1>2. IsFiniteSet(HEAP_BASE..HEAP_END)
  BY LayoutAssumption, FS_Interval DEF HEAP_END
<1>3. QED
  BY <1>1, <1>2, FS_Subset DEF Sized, Used

(* kmalloc adds the size of the block it gives out to the sum: the one it  *)
(* splits off is free.                                                     *)
LEMMA TakeSums ==
  ASSUME NEW h, WellFormed(h), NEW b \in DOMAIN h, h[b].is_free,
         NEW t \in Nat, NEW g, TakeResult(h, b, t, g)
  PROVE  /\ UsedSum(g, Used(h) \cup {b}) = g[b].size + UsedSum(h, Used(h))
         /\ Used(g) = Used(h) \cup {b}
<1> DEFINE S == Used(h)
<1>1. Sized(h, S) /\ b \notin S
  BY UsedSized DEF Used
<1>2. SameOn(h, g, S)
  BY DEF Used, TakeResult, SameOn
<1>3. Used(g) = S \cup {b}
  BY DEF Used, TakeResult
<1>4. Sized(g, S \cup {b})
  BY <1>3, UsedSized DEF TakeResult
<1>5. (S \cup {b}) \ {b} = S
  BY <1>1
<1> HIDE DEF S
<1>6. UsedSum(g, S \cup {b}) = g[b].size + UsedSum(g, S)
  <2>1. PICK R : R = S \cup {b}
    OBVIOUS
  <2>2. b \in R /\ Sized(g, R) /\ R \ {b} = S
    BY <1>4, <1>5, <2>1
  <2>3. /\ UsedSum(g, R) = g[b].size + UsedSum(g, R \ {b})
        /\ UsedSum(g, R \ {b}) \in Nat
    BY <2>2, SumWith
  <2>4. QED
    BY <2>1, <2>2, <2>3
<1>7. UsedSum(g, S) = UsedSum(h, S)
  BY <1>1, <1>2, SumSame
<1>8. QED
  BY <1>3, <1>6, <1>7 DEF S

(* kfree takes the size of the block away from the sum: what it merges     *)
(* with is free.                                                           *)
LEMMA ReleaseSums ==
  ASSUME NEW h, WellFormed(h), NEW b \in DOMAIN h, ~h[b].is_free,
         NEW g, Shrunk(h, b, g)
  PROVE  /\ UsedSum(h, Used(h)) = h[b].size + UsedSum(g, Used(h) \ {b})
         /\ UsedSum(g, Used(h) \ {b}) \in Nat
<1> DEFINE S == Used(h)
           R == S \ {b}
<1>1. Sized(h, S) /\ b \in S
  BY UsedSized DEF Used
<1>2. SameOn(h, g, R) /\ Sized(h, R)
  BY <1>1, FS_Subset DEF Used, Shrunk, SameOn, Sized
<1>3. /\ UsedSum(h, S) = h[b].size + UsedSum(h, R)
      /\ UsedSum(h, R) \in Nat
  <2> HIDE DEF S
  <2>1. QED
    BY <1>1, SumWith
<1>4. UsedSum(g, R) = UsedSum(h, R)
  <2> HIDE DEF R
  <2>1. QED
    BY <1>2, SumSame
<1>5. QED
  BY <1>3, <1>4

(* UsedIsSum in terms of the list, before and after a step.                *)
LEMMA SumOfHeld == HeapInv => (UsedIsSum <=> heap_used = UsedSum(hdr, Used(hdr)))
BY DEF UsedIsSum, UsedSum, HeapInv, HeldIsAllocated, HeldMatches

LEMMA SumOfHeldNext == HeapInv' => (UsedIsSum' <=> heap_used' = UsedSum(hdr', Used(hdr')))
<1>1. UsedIsSum' <=> heap_used' = UsedSum(hdr', DOMAIN held')
  BY DEF UsedIsSum, UsedSum, MapThenSumSet, MapThenFoldSet
<1>2. HeapInv' => DOMAIN held' = Used(hdr')
  BY DEF HeapInv, HeldIsAllocated, HeldMatches
<1>3. QED
  BY <1>1, <1>2

(* Steps that leave the list and heap_used alone.                          *)
LEMMA SameSums == UsedIsSum /\ HeapInv /\ HeapInv' /\ UNCHANGED <<hdr, heap_used>> => UsedIsSum'
BY SumOfHeld, SumOfHeldNext

(* kmalloc and kcalloc add the block they give.                            *)
LEMMA AllocateSums ==
  ASSUME HeapInv, UsedIsSum, NEW n \in Nat, n + HDR < WORDS, HeapInv',
         NEW asked, Allocate(n, asked)
  PROVE  UsedIsSum'
<1> USE LayoutAssumption
<1>1. CASE UNCHANGED vars
  BY <1>1, SameSums DEF vars
<1>2. CASE ~UNCHANGED vars
  <2>1. PICK b \in DOMAIN hdr :
          /\ FirstFit(hdr, Total(n), b)
          /\ hdr' = Take(hdr, b, Total(n))
          /\ heap_used' = heap_used + Take(hdr, b, Total(n))[b].size
    BY <1>2 DEF Allocate
  <2>2. Total(n) \in Nat /\ hdr[b].is_free /\ hdr[b].size >= Total(n)
    BY <2>1 DEF Total, FirstFit, Fits
  <2>3. TakeResult(hdr, b, Total(n), hdr')
    BY <2>1, <2>2, TakeKeeps DEF HeapInv, HeapWellFormed, HeapCoalesced
  <2>4. UsedSum(hdr', Used(hdr')) = hdr'[b].size + UsedSum(hdr, Used(hdr))
    BY <2>2, <2>3, TakeSums DEF HeapInv, HeapWellFormed
  <2>5. hdr'[b].size \in Int /\ heap_used \in Int
    BY <2>2, <2>3 DEF TakeResult, HeapInv, TypeOK
  <2>6. heap_used = UsedSum(hdr, Used(hdr))
    BY SumOfHeld
  <2>7. heap_used' = UsedSum(hdr', Used(hdr'))
    BY <2>1, <2>4, <2>5, <2>6
  <2>8. QED
    BY <2>7, SumOfHeldNext
<1>3. QED
  BY <1>1, <1>2

(* kfree takes the size of the block away, whatever it is merged with.     *)
LEMMA FreeSums ==
  ASSUME HeapInv, UsedIsSum, HeapInv', NEW b \in DOMAIN hdr \cup {NULL}, kfree(b)
  PROVE  UsedIsSum'
<1>1. CASE UNCHANGED vars
  BY <1>1, SameSums DEF vars
<1>2. CASE ~UNCHANGED vars
  <2>1. /\ b \in DOMAIN hdr
        /\ ~hdr[b].is_free
        /\ hdr' = Release(hdr, b)
        /\ heap_used' = heap_used - hdr[b].size
        /\ DOMAIN held' = DOMAIN held \ {b}
    BY <1>2 DEF kfree, Without
  <2>2. Shrunk(hdr, b, hdr') /\ WellFormed(hdr)
    BY <2>1, ReleaseKeeps DEF HeapInv, HeapWellFormed, HeapCoalesced
  <2>3. Used(hdr') = Used(hdr) \ {b}
    BY <2>1 DEF HeapInv, HeldIsAllocated, HeldMatches
  <2>4. /\ UsedSum(hdr, Used(hdr)) = hdr[b].size + UsedSum(hdr', Used(hdr'))
        /\ UsedSum(hdr', Used(hdr')) \in Nat
    BY <2>1, <2>2, <2>3, ReleaseSums
  <2>5. hdr[b].size \in Nat /\ heap_used = UsedSum(hdr, Used(hdr))
    BY <2>1, <2>2, UsedFacts, SumOfHeld DEF Placed
  <2>6. heap_used' = UsedSum(hdr', Used(hdr'))
    BY <2>1, <2>4, <2>5
  <2>7. QED
    BY <2>6, SumOfHeldNext
<1>3. QED
  BY <1>1, <1>2

(* krealloc that moves a block does both.                                  *)
LEMMA ReallocSums ==
  ASSUME HeapInv, UsedIsSum, HeapInv', NEW b \in DOMAIN held \cup {NULL},
         NEW n \in Requests, krealloc(b, n)
  PROVE  UsedIsSum'
<1> USE LayoutAssumption, RequestAssumption
<1>1. CASE b = NULL /\ kmalloc(n)
  BY <1>1, AllocateSums DEF kmalloc
<1>2. CASE b # NULL /\ n = 0 /\ kfree(b)
  <2>1. b \in DOMAIN hdr
    BY <1>2 DEF HeapInv, HeldIsAllocated, HeldMatches, Used
  <2>2. QED
    BY <1>2, <2>1, FreeSums
<1>3. CASE UNCHANGED vars
  BY <1>3, SameSums DEF vars
<1>4. CASE UNCHANGED <<hdr, heap_used>>
  BY <1>4, SameSums
<1>5. CASE \E c \in DOMAIN hdr :
             /\ b # NULL
             /\ FirstFit(hdr, Total(n), c)
             /\ hdr' = Release(Take(hdr, c, Total(n)), b)
             /\ heap_used' = heap_used + Take(hdr, c, Total(n))[c].size
                                       - hdr[b].size
             /\ DOMAIN held' = (DOMAIN held \cup {c}) \ {b}
  <2>1. PICK c \in DOMAIN hdr :
          /\ b # NULL
          /\ FirstFit(hdr, Total(n), c)
          /\ hdr' = Release(Take(hdr, c, Total(n)), b)
          /\ heap_used' = heap_used + Take(hdr, c, Total(n))[c].size
                                    - hdr[b].size
          /\ DOMAIN held' = (DOMAIN held \cup {c}) \ {b}
    BY <1>5
  <2>2. PICK g : g = Take(hdr, c, Total(n))
    OBVIOUS
  <2>3. Total(n) \in Nat /\ hdr[c].is_free /\ hdr[c].size >= Total(n)
    BY <2>1 DEF Total, FirstFit, Fits
  <2>4. TakeResult(hdr, c, Total(n), g)
    BY <2>2, <2>3, TakeKeeps DEF HeapInv, HeapWellFormed, HeapCoalesced
  <2>5. b \in DOMAIN hdr /\ ~hdr[b].is_free /\ b # c
    BY <2>1, <2>3 DEF HeapInv, HeldIsAllocated, HeldMatches, Used
  <2>6. b \in DOMAIN g /\ ~g[b].is_free /\ g[b].size = hdr[b].size
    BY <2>4, <2>5 DEF TakeResult
  <2>7. Shrunk(g, b, hdr')
    BY <2>1, <2>2, <2>4, <2>6, ReleaseKeeps DEF TakeResult
  <2>8. UsedSum(g, Used(g)) = g[c].size + UsedSum(hdr, Used(hdr))
        /\ Used(g) = Used(hdr) \cup {c}
    BY <2>3, <2>4, TakeSums DEF HeapInv, HeapWellFormed
  <2>9. Used(hdr') = Used(g) \ {b}
    BY <2>1, <2>8 DEF HeapInv, HeldIsAllocated, HeldMatches
  <2>10. /\ UsedSum(g, Used(g)) = g[b].size + UsedSum(hdr', Used(hdr'))
         /\ UsedSum(hdr', Used(hdr')) \in Nat
    BY <2>4, <2>6, <2>7, <2>9, ReleaseSums DEF TakeResult
  <2>11. g[c].size \in Nat /\ g[b].size \in Nat
    BY <2>3, <2>4, <2>6, UsedFacts DEF TakeResult, Placed
  <2>12. heap_used = UsedSum(hdr, Used(hdr)) /\ heap_used \in Int
    BY SumOfHeld DEF HeapInv, TypeOK
  <2>13. heap_used' = (heap_used + g[c].size) - g[b].size
    <3>1. heap_used' = heap_used + (g[c].size - g[b].size)
      BY <2>1, <2>2, <2>6
    <3>2. QED
      BY <2>11, <2>12, <3>1
  <2>14. heap_used' = UsedSum(hdr', Used(hdr'))
    BY <2>8, <2>10, <2>11, <2>12, <2>13
  <2>15. QED
    BY <2>14, SumOfHeldNext
<1>6. QED
  BY <1>1, <1>2, <1>3, <1>4, <1>5 DEF krealloc

(* Initially nothing is in use.                                            *)
LEMMA UsedInit == Init => UsedIsSum
<1> SUFFICES ASSUME Init PROVE UsedIsSum
  OBVIOUS
<1>1. heap_used = 0 /\ Used(hdr) = {}
  BY EmptyHeapFacts DEF Init
<1>2. HeapInv
  BY HeapInit
<1>3. QED
  BY <1>1, <1>2, SumEmpty, SumOfHeld

(* Every step of the heap keeps heap_used exact.                           *)
LEMMA UsedStep == HeapInv /\ UsedIsSum /\ [Next]_vars /\ HeapInv' => UsedIsSum'
<1> SUFFICES ASSUME HeapInv, UsedIsSum, [Next]_vars, HeapInv' PROVE UsedIsSum'
  OBVIOUS
<1>1. ASSUME NEW n \in Requests, kmalloc(n) PROVE UsedIsSum'
  BY <1>1, RequestAssumption, AllocateSums DEF kmalloc
<1>2. ASSUME NEW a \in Arrays, kcalloc(a[1], a[2]) PROVE UsedIsSum'
  <2> DEFINE total == a[1] * a[2]
  <2>1. total \in Nat /\ total + HDR < WORDS /\ WORDS \in Nat /\ HDR \in Nat
    BY LayoutAssumption, RequestAssumption
  <2>2. total % WORDS = total
    <3> HIDE DEF total
    <3>1. QED
      BY <2>1
  <2>3. Allocate(total, total)
    BY <1>2, <2>2 DEF kcalloc
  <2> HIDE DEF total
  <2>4. QED
    BY <2>1, <2>3, AllocateSums
<1>3. ASSUME NEW b \in DOMAIN held \cup {NULL}, NEW n \in Requests, krealloc(b, n)
      PROVE  UsedIsSum'
  BY <1>3, ReallocSums
<1>4. ASSUME NEW b \in DOMAIN hdr \cup {NULL}, kfree(b) PROVE UsedIsSum'
  BY <1>4, FreeSums
<1>5. CASE UNCHANGED vars
  BY <1>5, SameSums DEF vars
<1>6. QED
  BY <1>1, <1>2, <1>3, <1>4, <1>5 DEF Next

(* In every state heap_used, which memory_get_stats reports, is the sum of  *)
(* the payloads in use, after every split, merge and move.                 *)
THEOREM HeapUsedIsSum == Spec => []UsedIsSum
<1>1. Init => HeapInv /\ UsedIsSum
  BY HeapInit, UsedInit
<1>2. HeapInv /\ UsedIsSum /\ [Next]_vars => (HeapInv /\ UsedIsSum)'
  BY HeapStep, UsedStep
<1>3. QED
  BY <1>1, <1>2, PTL DEF Spec

-----------------------------------------------------------------------------
(* The heap implements the abstract allocator.                             *)

PayloadsAre(h) ==
  /\ DOMAIN Payloads(h) = {c + HDR : c \in Used(h)}
  /\ \A c \in Used(h) : Payloads(h)[c + HDR] = h[c].size
  /\ Payloads(h) = [p \in DOMAIN Payloads(h) |-> Payloads(h)[p]]

LEMMA PayloadFacts ==
  ASSUME NEW h, Placed(h)
  PROVE  PayloadsAre(h)
<1> USE LayoutAssumption
<1>1. \A c \in Used(h) : c \in Nat /\ c + HDR - HDR = c
  BY DEF Used, Placed
<1>2. QED
  BY <1>1 DEF Payloads, PayloadsAre

(* The payload of a free block, or a part of it, is disjoint from every    *)
(* payload in use and lies in the heap.                                    *)
LEMMA PayloadApart ==
  ASSUME NEW h, Placed(h), NEW b \in DOMAIN h, h[b].is_free,
         NEW len \in Nat, len <= h[b].size
  PROVE  /\ \A s \in DOMAIN Payloads(h) :
              s + Payloads(h)[s] <= b + HDR \/ b + HDR + len <= s
         /\ b + HDR \in HEAP_BASE..HEAP_END
         /\ b + HDR + len <= HEAP_END
         /\ len <= HEAP_END - HEAP_BASE
<1> USE LayoutAssumption
<1>1. \A c \in Used(h) : c \in DOMAIN h /\ c # b
  BY DEF Used
<1>2. ASSUME NEW s \in DOMAIN Payloads(h)
      PROVE  s + Payloads(h)[s] <= b + HDR \/ b + HDR + len <= s
  <2>1. PICK c \in Used(h) : s = c + HDR /\ Payloads(h)[s] = h[c].size
    <3>1. PayloadsAre(h)
      BY PayloadFacts
    <3>2. QED
      BY <3>1 DEF PayloadsAre
  <2>2. c < b \/ b < c
    <3>1. c \in Nat /\ b \in Nat /\ c # b
      BY <1>1, <2>1 DEF Placed
    <3>2. QED
      BY <3>1
  <2>3. c \in DOMAIN h /\ c \in Nat /\ b \in Nat /\ h[c].size \in Nat /\ h[b].size \in Nat
    BY <1>1 DEF Placed
  <2>4. CASE c < b
    BY <2>1, <2>3, <2>4 DEF Placed
  <2>5. CASE b < c
    BY <2>1, <2>3, <2>5 DEF Placed
  <2>6. QED
    BY <2>2, <2>4, <2>5
<1>3. QED
  BY <1>2 DEF Placed, HEAP_END

(* Used blocks added or removed, payload by payload.                       *)
LEMMA PayloadAdd ==
  ASSUME NEW h, Placed(h), NEW g, Placed(g), NEW b \in DOMAIN g,
         Used(g) = Used(h) \cup {b},
         \A c \in Used(h) \ {b} : g[c].size = h[c].size
  PROVE  Payloads(g) = Abstract!Add(Payloads(h), b + HDR, g[b].size)
<1> USE LayoutAssumption
<1>1. PayloadsAre(h) /\ PayloadsAre(g)
  BY PayloadFacts
<1>2. b \in Nat /\ \A c \in Used(g) : c \in Nat
  BY DEF Used, Placed
<1>3. DOMAIN Payloads(g) = DOMAIN Payloads(h) \cup {b + HDR}
  BY <1>1 DEF PayloadsAre
<1>4. ASSUME NEW s \in DOMAIN Payloads(g)
      PROVE  Payloads(g)[s] = IF s = b + HDR THEN g[b].size ELSE Payloads(h)[s]
  <2>1. PICK c \in Used(g) : s = c + HDR /\ Payloads(g)[s] = g[c].size
    BY <1>1 DEF PayloadsAre
  <2>2. CASE c = b
    BY <2>1, <2>2
  <2>3. CASE c # b
    <3>1. c \in Used(h) /\ s # b + HDR
      BY <1>2, <2>1, <2>3
    <3>2. Payloads(h)[c + HDR] = h[c].size /\ g[c].size = h[c].size
      BY <1>1, <2>3, <3>1 DEF PayloadsAre
    <3>3. QED
      BY <2>1, <3>1, <3>2
  <2>4. QED
    BY <2>2, <2>3
<1>5. Payloads(g) = [p \in DOMAIN Payloads(g) |-> Payloads(g)[p]]
  BY <1>1 DEF PayloadsAre
<1>6. QED
  BY <1>3, <1>4, <1>5 DEF Abstract!Add

LEMMA PayloadDrop ==
  ASSUME NEW h, Placed(h), NEW g, Placed(g), NEW b \in DOMAIN h,
         Used(g) = Used(h) \ {b},
         \A c \in Used(g) : g[c].size = h[c].size
  PROVE  Payloads(g) = Abstract!Drop(Payloads(h), b + HDR)
<1> USE LayoutAssumption
<1>1. PayloadsAre(h) /\ PayloadsAre(g)
  BY PayloadFacts
<1>2. b \in Nat /\ \A c \in Used(h) : c \in Nat
  BY DEF Used, Placed
<1>3. DOMAIN Payloads(g) = DOMAIN Payloads(h) \ {b + HDR}
  <2>1. \A c \in Used(h) : c + HDR = b + HDR => c = b
    BY <1>2
  <2>2. QED
    BY <1>1, <2>1 DEF PayloadsAre
<1>4. ASSUME NEW s \in DOMAIN Payloads(g) PROVE Payloads(g)[s] = Payloads(h)[s]
  <2>1. PICK c \in Used(g) : s = c + HDR /\ Payloads(g)[s] = g[c].size
    BY <1>1 DEF PayloadsAre
  <2>2. Payloads(h)[c + HDR] = h[c].size
    BY <1>1, <2>1 DEF PayloadsAre
  <2>3. QED
    BY <2>1, <2>2
<1>5. Payloads(g) = [p \in DOMAIN Payloads(g) |-> Payloads(g)[p]]
  BY <1>1 DEF PayloadsAre
<1>6. QED
  BY <1>3, <1>4, <1>5 DEF Abstract!Drop

LEMMA RefineInit == Init => Abstract!Init
<1> SUFFICES ASSUME Init PROVE Abstract!Init
  OBVIOUS
<1>1. Used(hdr) = {}
  <2>1. DOMAIN hdr = {HEAP_BASE} /\ hdr[HEAP_BASE].is_free
    BY DEF Init, EmptyHeap
  <2>2. QED
    BY <2>1 DEF Used
<1>2. Payloads(hdr) = [s \in {} |-> hdr[s - HDR].size]
  BY <1>1 DEF Payloads
<1>3. QED
  BY <1>2 DEF Abstract!Init

(* A block taken is a region granted.                                      *)
IsGrant(r, lo, len, q) ==
  /\ lo \in HEAP_BASE..HEAP_END
  /\ len \in 1..(HEAP_END - HEAP_BASE)
  /\ lo + len <= HEAP_END
  /\ Abstract!Disjoint(r, lo, len)
  /\ q = Abstract!Add(r, lo, len)

LEMMA TakeIsGrant ==
  ASSUME NEW h, WellFormed(h), NEW b \in DOMAIN h, h[b].is_free,
         NEW t \in Nat, t > 0, NEW g, TakeResult(h, b, t, g)
  PROVE  IsGrant(Payloads(h), b + HDR, g[b].size, Payloads(g))
<1>1. Placed(h) /\ Placed(g)
  BY UsedFacts DEF TakeResult
<1>2. h[b].size \in Nat
  BY <1>1 DEF Placed
<1>3. g[b].size \in Nat /\ g[b].size >= 1 /\ g[b].size <= h[b].size
  BY <1>2 DEF TakeResult
<1>4. /\ \A s \in DOMAIN Payloads(h) :
           s + Payloads(h)[s] <= b + HDR \/ b + HDR + g[b].size <= s
      /\ b + HDR \in HEAP_BASE..HEAP_END
      /\ b + HDR + g[b].size <= HEAP_END
      /\ g[b].size <= HEAP_END - HEAP_BASE
  BY <1>1, <1>3, PayloadApart
<1>5. Payloads(g) = Abstract!Add(Payloads(h), b + HDR, g[b].size)
  <2>1. Used(g) = Used(h) \cup {b} /\ b \in DOMAIN g
    BY DEF TakeResult, Used
  <2>2. \A c \in Used(h) \ {b} : g[c].size = h[c].size
    BY DEF TakeResult, Used
  <2>3. QED
    BY <1>1, <2>1, <2>2, PayloadAdd
<1>6. HEAP_END - HEAP_BASE \in Nat
  BY LayoutAssumption DEF HEAP_END
<1>7. QED
  BY <1>3, <1>4, <1>5, <1>6 DEF IsGrant, Abstract!Disjoint

(* A step of kmalloc or kcalloc is a grant; one that returns null, no step. *)
LEMMA AllocateRefines ==
  ASSUME HeapInv, NEW n \in Nat, n + HDR < WORDS, NEW asked, Allocate(n, asked)
  PROVE  [Abstract!Next]_(Payloads(hdr))
<1> USE LayoutAssumption, RequestAssumption
<1>1. CASE UNCHANGED vars
  BY <1>1 DEF vars, Payloads, Used
<1>2. CASE ~UNCHANGED vars
  <2>1. PICK b \in DOMAIN hdr : FirstFit(hdr, Total(n), b)
                                /\ hdr' = Take(hdr, b, Total(n))
    BY <1>2 DEF Allocate
  <2>2. Total(n) \in Nat /\ Total(n) > 0
    BY DEF Total
  <2>3. hdr[b].is_free /\ hdr[b].size >= Total(n)
    BY <2>1 DEF FirstFit, Fits
  <2>4. TakeResult(hdr, b, Total(n), hdr')
    BY <2>1, <2>2, <2>3, TakeKeeps DEF HeapInv, HeapWellFormed, HeapCoalesced
  <2>5. IsGrant(Payloads(hdr), b + HDR, hdr'[b].size, Payloads(hdr'))
    BY <2>2, <2>3, <2>4, TakeIsGrant DEF HeapInv, HeapWellFormed
  <2>6. Abstract!Grant(b + HDR, hdr'[b].size)
    BY <2>5 DEF IsGrant, Abstract!Grant, Payloads, Used
  <2>7. QED
    BY <2>5, <2>6 DEF IsGrant, Abstract!Next
<1>3. QED
  BY <1>1, <1>2

(* A step of kfree is a return.                                            *)
LEMMA FreeRefines ==
  ASSUME HeapInv, NEW b \in DOMAIN hdr \cup {NULL}, kfree(b)
  PROVE  [Abstract!Next]_(Payloads(hdr))
<1>1. CASE UNCHANGED vars
  BY <1>1 DEF vars, Payloads, Used
<1>2. CASE ~UNCHANGED vars
  <2>1. b \in DOMAIN hdr /\ ~hdr[b].is_free /\ hdr' = Release(hdr, b)
    BY <1>2 DEF kfree
  <2>2. WellFormed(hdr') /\ Shrunk(hdr, b, hdr')
    BY <2>1, ReleaseKeeps DEF HeapInv, HeapWellFormed, HeapCoalesced
  <2>3. Placed(hdr) /\ Placed(hdr')
    BY <2>2, UsedFacts DEF HeapInv, HeapWellFormed
  <2>4. Used(hdr') = Used(hdr) \ {b}
        /\ \A c \in Used(hdr') : hdr'[c].size = hdr[c].size
    BY <2>2 DEF Shrunk, Used
  <2>5. Payloads(hdr') = Abstract!Drop(Payloads(hdr), b + HDR)
    BY <2>1, <2>3, <2>4, PayloadDrop
  <2>6. b + HDR \in DOMAIN Payloads(hdr)
    BY <2>1 DEF Payloads, Used
  <2>7. Abstract!Return(b + HDR)
    BY <2>5 DEF Abstract!Return, Payloads, Used
  <2>8. QED
    BY <2>6, <2>7 DEF Abstract!Next
<1>3. QED
  BY <1>1, <1>2

(* A krealloc that moves the block is a move: the new region is disjoint   *)
(* from every region, the old one included, and longer.                    *)
LEMMA ReallocRefines ==
  ASSUME HeapInv, NEW b \in DOMAIN held \cup {NULL}, NEW n \in Requests,
         krealloc(b, n)
  PROVE  [Abstract!Next]_(Payloads(hdr))
<1> USE LayoutAssumption, RequestAssumption
<1>1. CASE b = NULL /\ kmalloc(n)
  BY <1>1, AllocateRefines DEF kmalloc
<1>2. CASE b # NULL /\ n = 0 /\ kfree(b)
  <2>1. b \in DOMAIN hdr
    BY <1>2 DEF HeapInv, HeldIsAllocated, HeldMatches, Used
  <2>2. QED
    BY <1>2, <2>1, FreeRefines
<1>3. CASE UNCHANGED hdr
  BY <1>3 DEF Payloads, Used
<1>4. CASE \E c \in DOMAIN hdr :
             /\ b # NULL /\ hdr[b].size < n
             /\ FirstFit(hdr, Total(n), c)
             /\ hdr' = Release(Take(hdr, c, Total(n)), b)
  <2>1. PICK c \in DOMAIN hdr :
          /\ b # NULL /\ hdr[b].size < n
          /\ FirstFit(hdr, Total(n), c)
          /\ hdr' = Release(Take(hdr, c, Total(n)), b)
    BY <1>4
  <2> DEFINE g == Take(hdr, c, Total(n))
  <2>2. Total(n) \in Nat /\ Total(n) > n /\ n \in Nat
    BY DEF Total
  <2>3. hdr[c].is_free /\ hdr[c].size >= Total(n)
    BY <2>1 DEF FirstFit, Fits
  <2>4. TakeResult(hdr, c, Total(n), g)
    BY <2>2, <2>3, TakeKeeps DEF HeapInv, HeapWellFormed, HeapCoalesced
  <2>5. hdr' = Release(g, b)
    BY <2>1
  <2> HIDE DEF g
  <2>6. IsGrant(Payloads(hdr), c + HDR, g[c].size, Payloads(g))
    BY <2>2, <2>3, <2>4, TakeIsGrant DEF HeapInv, HeapWellFormed
  <2>7. b \in Used(hdr) /\ b # c /\ b \in DOMAIN g
    BY <2>1, <2>3, <2>4 DEF HeapInv, HeldIsAllocated, HeldMatches, Used, TakeResult
  <2>8. WellFormed(hdr') /\ Shrunk(g, b, hdr')
    BY <2>4, <2>5, <2>7, ReleaseKeeps DEF TakeResult
  <2>9. Placed(hdr) /\ Placed(g) /\ Placed(hdr')
    BY <2>4, <2>8, UsedFacts DEF HeapInv, HeapWellFormed, TakeResult
  <2>10. Payloads(hdr') = Abstract!Drop(Payloads(g), b + HDR)
    <3>1. Used(hdr') = Used(g) \ {b}
          /\ \A d \in Used(hdr') : hdr'[d].size = g[d].size
      BY <2>8 DEF Shrunk, Used
    <3>2. QED
      BY <2>7, <2>9, <3>1, PayloadDrop
  <2>11. b + HDR \in DOMAIN Payloads(hdr) /\ Payloads(hdr)[b + HDR] = hdr[b].size
    <3>1. PayloadsAre(hdr)
      BY <2>9, PayloadFacts
    <3>2. QED
      BY <2>7, <3>1 DEF PayloadsAre
  <2>12. g[c].size > Payloads(hdr)[b + HDR]
    <3>1. hdr[b].size \in Nat /\ g[c].size \in Nat
      BY <2>4, <2>7, <2>9 DEF Placed, Used, TakeResult
    <3>2. QED
      BY <2>1, <2>2, <2>4, <2>11, <3>1 DEF TakeResult
  <2>13. Abstract!Move(b + HDR, c + HDR, g[c].size)
    <3>1. Payloads(hdr)' = Payloads(hdr')
      BY DEF Payloads, Used
    <3>2. QED
      BY <2>6, <2>10, <2>12, <3>1 DEF IsGrant, Abstract!Move
  <2>14. QED
    BY <2>6, <2>11, <2>13 DEF IsGrant, Abstract!Next
<1>5. QED
  BY <1>1, <1>2, <1>3, <1>4 DEF krealloc, vars

(* The heap implements the abstract allocator: what callers are given is   *)
(* disjoint from everything they hold and stays theirs, in place and whole, *)
(* until they return it.                                                   *)
THEOREM HeapRefinesAllocator == Spec => ImplementsAllocator
<1>1. HeapInv /\ [Next]_vars => [Abstract!Next]_(Payloads(hdr))
  <2> SUFFICES ASSUME HeapInv, [Next]_vars
               PROVE  [Abstract!Next]_(Payloads(hdr))
    OBVIOUS
  <2>1. ASSUME NEW n \in Requests, kmalloc(n) PROVE [Abstract!Next]_(Payloads(hdr))
    BY <2>1, RequestAssumption, AllocateRefines DEF kmalloc
  <2>2. ASSUME NEW a \in Arrays, kcalloc(a[1], a[2])
        PROVE  [Abstract!Next]_(Payloads(hdr))
    <3> DEFINE total == a[1] * a[2]
    <3>1. total \in Nat /\ total + HDR < WORDS /\ WORDS \in Nat /\ HDR \in Nat
      BY LayoutAssumption, RequestAssumption
    <3> HIDE DEF total
    <3>2. total % WORDS = total
      BY <3>1
    <3>3. Allocate(total, total)
      BY <2>2, <3>2 DEF kcalloc, total
    <3>4. QED
      BY <3>1, <3>3, AllocateRefines
  <2>3. ASSUME NEW b \in DOMAIN held \cup {NULL}, NEW n \in Requests, krealloc(b, n)
        PROVE  [Abstract!Next]_(Payloads(hdr))
    BY <2>3, ReallocRefines
  <2>4. ASSUME NEW b \in DOMAIN hdr \cup {NULL}, kfree(b)
        PROVE  [Abstract!Next]_(Payloads(hdr))
    BY <2>4, FreeRefines
  <2>5. CASE UNCHANGED vars
    BY <2>5 DEF vars, Payloads, Used
  <2>6. QED
    BY <2>1, <2>2, <2>3, <2>4, <2>5 DEF Next
<1>2. QED
  BY <1>1, HeapInvariance, RefineInit, PTL
     DEF Spec, ImplementsAllocator, Abstract!Spec
=============================================================================
