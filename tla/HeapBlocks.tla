----------------------------- MODULE HeapBlocks -----------------------------
(***************************************************************************)
(* The list of blocks in the kernel heap of sys/kern/memory/memory.c: each *)
(* block is a header followed by its payload.  What kmalloc and kfree do   *)
(* to the list, as functions of it, and what makes a list well formed.     *)
(*                                                                         *)
(* Addresses and sizes are counted in granules of 8 bytes, the alignment   *)
(* kmalloc rounds to, so the rounding of line 399 is exact here.           *)
(***************************************************************************)
EXTENDS Integers, FiniteSets

CONSTANTS
  HEAP_BASE,   \* KERNEL_HEAP_BASE, in granules
  HEAP_SIZE,   \* KERNEL_HEAP_SIZE, in granules
  HDR,         \* sizeof(heap_block_t): 4 granules in the build
  MIN_SPLIT,   \* least payload of the block a split leaves: 8 granules
  WORDS        \* number of granules ksize_t can count (2^61 in the build)

NULL == 0

ASSUME LayoutAssumption ==
  /\ HEAP_BASE \in Nat \ {NULL}
  /\ HDR \in Nat \ {0}
  /\ MIN_SPLIT \in Nat \ {0}
  /\ HEAP_SIZE \in Nat
  /\ HEAP_SIZE > HDR
  /\ WORDS \in Nat

heap_block_t == [size : Nat, is_free : BOOLEAN, next : Nat, prev : Nat]

HEAP_END == HEAP_BASE + HEAP_SIZE

EmptyHeap ==
  [b \in {HEAP_BASE} |->
     [size |-> HEAP_SIZE - HDR, is_free |-> TRUE, next |-> NULL, prev |-> NULL]]

-----------------------------------------------------------------------------
(* kmalloc and krealloc: where they look and what they write.              *)

Total(n) == (n + HDR) % WORDS

(* Faulty variant: a block in use is given out again.                      *)
FitsInUse(h, b, t) == b \in DOMAIN h /\ h[b].size >= t

Fits(h, b, t) == b \in DOMAIN h /\ h[b].is_free /\ h[b].size >= t

(* The k-th value of `current` in the walk from heap_start.                *)
Walk(h) ==
  LET at[k \in 0..Cardinality(DOMAIN h)] ==
        IF k = 0 THEN HEAP_BASE
        ELSE IF at[k-1] = NULL THEN NULL ELSE h[at[k-1]].next
  IN  at

FirstFit(h, t, b) ==
  /\ Fits(h, b, t)
  /\ \E k \in DOMAIN Walk(h) :
       /\ Walk(h)[k] = b
       /\ \A j \in 0..(k-1) : ~Fits(h, Walk(h)[j], t)

NoFit(h, t) == \A k \in DOMAIN Walk(h) : ~Fits(h, Walk(h)[k], t)

Splits(h, b, t) == h[b].size >= t + HDR + MIN_SPLIT

(* `if (c) c->prev = p`                                                    *)
SetPrev(h, c, p) == IF c = NULL THEN h ELSE [h EXCEPT ![c].prev = p]

(* Faulty variant: the tail's own header is forgotten.                     *)
TailForgetsHeader(h, b, t) == h[b].size - t

TailSize(h, b, t) == h[b].size - t - HDR

(* The block b given out for t granules, its tail cut off when it is long. *)
Take(h, b, t) ==
  IF Splits(h, b, t)
  THEN LET new  == b + HDR + t
           tail == [size |-> TailSize(h, b, t), is_free |-> TRUE,
                    next |-> h[b].next, prev |-> b]
           cut  == [size |-> t, is_free |-> FALSE,
                    next |-> new, prev |-> h[b].prev]
       IN  SetPrev([c \in DOMAIN h \cup {new} |->
                      IF c = new THEN tail ELSE IF c = b THEN cut ELSE h[c]],
                   h[b].next, new)
  ELSE [h EXCEPT ![b].is_free = FALSE]

-----------------------------------------------------------------------------
(* kfree.                                                                  *)

(* Block p swallows block n: n's header leaves the list and becomes payload. *)
Absorb(h, p, n) ==
  LET grown == [h[p] EXCEPT !.size = @ + HDR + h[n].size, !.next = h[n].next]
  IN  SetPrev([c \in DOMAIN h \ {n} |-> IF c = p THEN grown ELSE h[c]],
              h[n].next, p)

(* Faulty variants of the two merges: without the test of is_free, and not *)
(* done at all.                                                            *)
MergeNextUnchecked(h, b) ==
  IF h[b].next # NULL THEN Absorb(h, b, h[b].next) ELSE h

MergeSkipped(h, b) == h

MergeNext(h, b) ==
  IF h[b].next # NULL /\ h[h[b].next].is_free
  THEN Absorb(h, b, h[b].next) ELSE h

MergePrev(h, b) ==
  IF h[b].prev # NULL /\ h[h[b].prev].is_free
  THEN Absorb(h, h[b].prev, b) ELSE h

MarkFree(h, b) == [h EXCEPT ![b].is_free = TRUE]

Release(h, b) == MergePrev(MergeNext(MarkFree(h, b), b), b)

Without(f, b) == [c \in DOMAIN f \ {b} |-> f[c]]

-----------------------------------------------------------------------------
(* What makes a list of blocks a heap.                                     *)

End(h, b) == b + HDR + h[b].size

Used(h) == {b \in DOMAIN h : ~h[b].is_free}

(* Links lead to a header on the list or are null.                         *)
BlockType(h) ==
  /\ h \in [DOMAIN h -> heap_block_t]
  /\ DOMAIN h \subseteq Nat \ {NULL}
  /\ \A b \in DOMAIN h : /\ h[b].next \in DOMAIN h \cup {NULL}
                         /\ h[b].prev \in DOMAIN h \cup {NULL}

(* The blocks tile the heap: each ends where its list successor starts, and *)
(* the last one at the end of the heap.  kmalloc's split and kfree's two    *)
(* merges rewrite sizes and links separately.                               *)
Tiled(h) ==
  /\ HEAP_BASE \in DOMAIN h
  /\ \A b \in DOMAIN h :
       /\ b >= HEAP_BASE
       /\ End(h, b) <= HEAP_END
       /\ End(h, b) = IF h[b].next = NULL THEN HEAP_END ELSE h[b].next

(* next and prev are inverse to each other, and heap_start heads the list.  *)
Linked(h) ==
  \A b \in DOMAIN h :
    /\ h[b].next # NULL => h[h[b].next].prev = b
    /\ h[b].prev # NULL => h[h[b].prev].next = b
    /\ h[b].prev = NULL <=> b = HEAP_BASE

(* No two blocks overlap, headers included.                                *)
Apart(h) ==
  \A b, c \in DOMAIN h : b < c => End(h, b) <= c

WellFormed(h) == BlockType(h) /\ Tiled(h) /\ Linked(h) /\ Apart(h)

(* No two neighbours are both free: kfree's coalescing is complete, so the *)
(* heap never refuses a request that a merge of neighbours would serve.    *)
Coalesced(h) ==
  \A b \in DOMAIN h :
    h[b].next # NULL => ~(h[b].is_free /\ h[h[b].next].is_free)

(* What callers hold is exactly what the list says is allocated, and each  *)
(* block they hold is as long as they asked.                               *)
HeldMatches(h, hs) ==
  /\ DOMAIN hs = Used(h)
  /\ \A b \in DOMAIN hs : hs[b] <= h[b].size

Payloads(h) == [p \in {b + HDR : b \in Used(h)} |-> h[p - HDR].size]
=============================================================================
