-------------------------------- MODULE Heap --------------------------------
(***************************************************************************)
(* The kernel heap of sys/kern/memory/memory.c, first fit: the calls       *)
(* callers make on the list of module HeapBlocks.  One action is one call: *)
(* the kernel is single tasking and no interrupt handler allocates.        *)
(***************************************************************************)
EXTENDS HeapBlocks, FiniteSetsExt

CONSTANTS
  Requests,    \* sizes callers ask kmalloc and krealloc for, 0 included
  Arrays       \* <<count, size>> pairs callers ask kcalloc for

ASSUME RequestAssumption ==
  /\ Requests \subseteq Nat
  /\ Arrays \subseteq Nat \X Nat
  /\ \A n \in Requests : n + HDR < WORDS
  /\ \A a \in Arrays : a[1] * a[2] \in Nat /\ a[1] * a[2] + HDR < WORDS

VARIABLES
  hdr,         \* the headers on the list, by address: a heap_block_t each
  heap_used,   \* the running total of the allocated payloads
  held         \* what callers hold: block address -> the size they asked for

vars == <<hdr, heap_used, held>>

Init ==
  /\ hdr = EmptyHeap
  /\ heap_used = 0
  /\ held = [b \in {} |-> 0]

-----------------------------------------------------------------------------
(* A request of n granules, for which the caller records `asked`.          *)
Allocate(n, asked) ==
  \/ /\ n = 0 \/ NoFit(hdr, Total(n))
     /\ UNCHANGED vars
  \/ /\ n # 0
     /\ \E b \in DOMAIN hdr :
          /\ FirstFit(hdr, Total(n), b)
          /\ hdr' = Take(hdr, b, Total(n))
          /\ heap_used' = heap_used + Take(hdr, b, Total(n))[b].size
          /\ held' = [c \in DOMAIN held \cup {b} |->
                        IF c = b THEN asked ELSE held[c]]

kmalloc(n) == Allocate(n, n)

kcalloc(count, size) == Allocate((count * size) % WORDS, count * size)

-----------------------------------------------------------------------------
(* kfree.                                                                  *)

(* Faulty variant: heap_used is reduced after the merges, by the size the  *)
(* block has grown to.                                                     *)
kfreeLateUsed(b) ==
  /\ b # NULL
  /\ ~hdr[b].is_free
  /\ hdr' = Release(hdr, b)
  /\ heap_used' = heap_used - MergeNext(MarkFree(hdr, b), b)[b].size
  /\ held' = Without(held, b)

(* Callers free what they hold; a second kfree of a block whose header is  *)
(* still on the list is the early return of line 472.                      *)
kfree(b) ==
  \/ /\ b # NULL => hdr[b].is_free
     /\ UNCHANGED vars
  \/ /\ b # NULL
     /\ ~hdr[b].is_free
     /\ hdr' = Release(hdr, b)
     /\ heap_used' = heap_used - hdr[b].size
     /\ held' = Without(held, b)

-----------------------------------------------------------------------------
(* krealloc: in place when the block is long enough, else a move.          *)
krealloc(b, n) ==
  \/ b = NULL /\ kmalloc(n)
  \/ b # NULL /\ n = 0 /\ kfree(b)
  \/ /\ b # NULL /\ n # 0
     /\ \/ /\ hdr[b].size >= n
           /\ held' = [held EXCEPT ![b] = n]
           /\ UNCHANGED <<hdr, heap_used>>
        \/ /\ hdr[b].size < n
           /\ NoFit(hdr, Total(n))
           /\ UNCHANGED vars
        \/ /\ hdr[b].size < n
           /\ \E c \in DOMAIN hdr :
                /\ FirstFit(hdr, Total(n), c)
                /\ hdr' = Release(Take(hdr, c, Total(n)), b)
                /\ heap_used' = heap_used + Take(hdr, c, Total(n))[c].size
                                          - hdr[b].size
                /\ held' = [d \in (DOMAIN held \cup {c}) \ {b} |->
                              IF d = c THEN n ELSE held[d]]

Next ==
  \/ \E n \in Requests : kmalloc(n)
  \/ \E a \in Arrays : kcalloc(a[1], a[2])
  \/ \E b \in DOMAIN held \cup {NULL}, n \in Requests : krealloc(b, n)
  \/ \E b \in DOMAIN hdr \cup {NULL} : kfree(b)

Spec == Init /\ [][Next]_vars

-----------------------------------------------------------------------------
(* Properties.                                                             *)

(* The variables keep their types: in particular no merge leaves a link to *)
(* a header that has left the list.                                        *)
TypeOK ==
  /\ BlockType(hdr)
  /\ heap_used \in Int
  /\ held \in [DOMAIN held -> Nat]

(* The blocks of the list tile the heap, linked both ways and apart, after *)
(* every split of kmalloc and every merge of kfree.                        *)
HeapWellFormed == WellFormed(hdr)

(* kfree's coalescing is complete, on both sides of the block it frees.    *)
HeapCoalesced == Coalesced(hdr)

(* kmalloc, krealloc and kfree leave the list agreeing with what callers   *)
(* hold, and no block they hold is shorter than they asked.                *)
HeldIsAllocated == HeldMatches(hdr, held)

(* heap_used is the sum of the allocated payloads: every path of kmalloc,   *)
(* krealloc and kfree changes it by what it changes, merges included.      *)
UsedIsSum ==
  heap_used = MapThenSumSet(LAMBDA b : hdr[b].size, DOMAIN held)

(* When every block has been given back the list is again the one block of *)
(* heap_init: no sequence of calls leaks or fragments memory for good.     *)
AllFreedIsInitial == DOMAIN held = {} => hdr = EmptyHeap

(* The heap implements the abstract allocator on the payloads of the blocks *)
(* that are not free.                                                      *)
Abstract == INSTANCE Allocator
  WITH Low <- HEAP_BASE, High <- HEAP_END, regions <- Payloads(hdr)

ImplementsAllocator == Abstract!Spec
=============================================================================
