-------------------------- MODULE HeapBlocksProofs --------------------------
(***************************************************************************)
(* Lemmas about the list of blocks: kmalloc's split and kfree's merges     *)
(* keep it well formed and coalesced, and change no other allocated block. *)
(***************************************************************************)
EXTENDS HeapBlocks, FiniteSetTheorems, WellFoundedInduction, TLAPS

(* A block is the record of its four fields.                               *)
LEMMA BlockEta ==
  ASSUME NEW r \in heap_block_t
  PROVE  r = [size |-> r.size, is_free |-> r.is_free,
              next |-> r.next, prev |-> r.prev]
BY DEF heap_block_t

(* `if (c) c->prev = p` changes one field of one header.                   *)
LEMMA SetPrevFields ==
  ASSUME NEW D, NEW f \in [D -> heap_block_t], NEW c, c = NULL \/ c \in D,
         NULL \notin D, NEW p \in Nat
  PROVE  /\ SetPrev(f, c, p) \in [D -> heap_block_t]
         /\ \A d \in D :
              /\ SetPrev(f, c, p)[d].size = f[d].size
              /\ SetPrev(f, c, p)[d].is_free = f[d].is_free
              /\ SetPrev(f, c, p)[d].next = f[d].next
              /\ SetPrev(f, c, p)[d].prev = IF d = c THEN p ELSE f[d].prev
<1>1. CASE c = NULL
  BY <1>1 DEF SetPrev, heap_block_t
<1>2. CASE c \in D
  <2>1. SetPrev(f, c, p) = [f EXCEPT ![c].prev = p]
    BY <1>2 DEF SetPrev
  <2>2. [f[c] EXCEPT !.prev = p] \in heap_block_t
    BY <1>2 DEF heap_block_t
  <2>3. SetPrev(f, c, p) \in [D -> heap_block_t]
    BY <1>2, <2>1, <2>2
  <2>4. ASSUME NEW d \in D
        PROVE  /\ SetPrev(f, c, p)[d].size = f[d].size
               /\ SetPrev(f, c, p)[d].is_free = f[d].is_free
               /\ SetPrev(f, c, p)[d].next = f[d].next
               /\ SetPrev(f, c, p)[d].prev = IF d = c THEN p ELSE f[d].prev
    <3>1. SetPrev(f, c, p)[d] = IF d = c THEN [f[c] EXCEPT !.prev = p] ELSE f[d]
      BY <1>2, <2>1
    <3>2. f[d] \in heap_block_t
      OBVIOUS
    <3>3. QED
      BY <3>1, <3>2 DEF heap_block_t
  <2>5. QED
    BY <2>3, <2>4
<1>3. QED
  BY <1>1, <1>2

(* What kmalloc's split writes, field by field.                            *)
SplitResult(h, b, t, new, g) ==
  /\ new \notin DOMAIN h
  /\ new \in Nat
  /\ g \in [DOMAIN h \cup {new} -> heap_block_t]
  /\ g[new].size = h[b].size - t - HDR
  /\ g[new].is_free = TRUE
  /\ g[new].next = h[b].next
  /\ g[new].prev = b
  /\ g[b].size = t
  /\ g[b].is_free = FALSE
  /\ g[b].next = new
  /\ g[b].prev = h[b].prev
  /\ \A c \in DOMAIN h \ {b} :
       /\ g[c].size = h[c].size
       /\ g[c].is_free = h[c].is_free
       /\ g[c].next = h[c].next
       /\ g[c].prev = IF c = h[b].next THEN new ELSE h[c].prev

LEMMA SplitFields ==
  ASSUME NEW h, WellFormed(h), NEW b \in DOMAIN h, NEW t \in Nat, Splits(h, b, t)
  PROVE  SplitResult(h, b, t, b + HDR + t, Take(h, b, t))
<1> DEFINE new == b + HDR + t
           g == Take(h, b, t)
           D == DOMAIN h \cup {new}
           tail == [size |-> h[b].size - t - HDR, is_free |-> TRUE,
                    next |-> h[b].next, prev |-> b]
           cut == [size |-> t, is_free |-> FALSE,
                   next |-> new, prev |-> h[b].prev]
           f == [c \in D |-> IF c = new THEN tail ELSE IF c = b THEN cut ELSE h[c]]
<1> USE LayoutAssumption
<1>1. /\ \A c \in DOMAIN h : c \in Nat /\ c # NULL /\ h[c] \in heap_block_t
      /\ h[b].next \in DOMAIN h \cup {NULL}
      /\ h[b].prev \in DOMAIN h \cup {NULL}
  BY DEF WellFormed, BlockType
<1>2. h[b].size \in Nat /\ new \in Nat /\ new > b /\ new # NULL
  <2>1. h[b] \in heap_block_t /\ b \in Nat
    BY <1>1
  <2>2. QED
    BY <2>1 DEF heap_block_t, NULL
<1>3. new \notin DOMAIN h
  BY <1>1, <1>2 DEF WellFormed, Apart, Splits, End
<1>4. b # h[b].next
  BY <1>1, <1>2 DEF WellFormed, Tiled, End
<1>5. tail \in heap_block_t /\ cut \in heap_block_t
  BY <1>1, <1>2 DEF heap_block_t, Splits
<1>6. f \in [D -> heap_block_t]
  BY <1>1, <1>5
<1>7. g = SetPrev(f, h[b].next, new)
  BY DEF Take, TailSize
<1>8. f[new] = tail /\ f[b] = cut /\ \A c \in DOMAIN h \ {b} : f[c] = h[c]
  BY <1>2, <1>3
<1>9. NULL \notin D /\ (h[b].next = NULL \/ h[b].next \in D)
  BY <1>1, <1>2
<1>10. b \in D /\ new \in D /\ DOMAIN h \ {b} \subseteq D /\ h[b].next # new
  BY <1>1, <1>2, <1>3
<1> HIDE DEF f, D, g, new
<1>11. /\ g \in [D -> heap_block_t]
       /\ \A d \in D :
            /\ g[d].size = f[d].size
            /\ g[d].is_free = f[d].is_free
            /\ g[d].next = f[d].next
            /\ g[d].prev = IF d = h[b].next THEN new ELSE f[d].prev
  BY <1>2, <1>6, <1>7, <1>9, SetPrevFields
<1>12. g \in [DOMAIN h \cup {new} -> heap_block_t]
  BY <1>11 DEF D
<1>13. SplitResult(h, b, t, new, g)
  BY <1>2, <1>3, <1>4, <1>8, <1>10, <1>11, <1>12 DEF SplitResult
<1>14. QED
  BY <1>13 DEF g, new

(* A free block given out keeps the heap well formed and coalesced, and no *)
(* other block changes its size or whether it is free.                     *)
TakeResult(h, b, t, g) ==
  /\ WellFormed(g)
  /\ Coalesced(g)
  /\ DOMAIN h \subseteq DOMAIN g
  /\ ~g[b].is_free
  /\ g[b].size \in t..h[b].size
  /\ \A c \in DOMAIN h \ {b} : g[c].size = h[c].size /\ g[c].is_free = h[c].is_free
  /\ \A c \in DOMAIN g \ DOMAIN h : g[c].is_free

LEMMA TakeKeeps ==
  ASSUME NEW h, WellFormed(h), Coalesced(h), NEW b \in DOMAIN h,
         h[b].is_free, NEW t \in Nat, h[b].size >= t
  PROVE  TakeResult(h, b, t, Take(h, b, t))
<1> DEFINE g == Take(h, b, t)
<1>0. g = Take(h, b, t)
  OBVIOUS
<1> HIDE DEF g
<1> SUFFICES TakeResult(h, b, t, g)
  BY <1>0
<1> USE LayoutAssumption
<1>1. /\ \A c \in DOMAIN h : c \in Nat /\ c # NULL /\ h[c] \in heap_block_t
                             /\ h[c].next \in DOMAIN h \cup {NULL}
                             /\ h[c].prev \in DOMAIN h \cup {NULL}
                             /\ h[c].size \in Nat
  BY DEF WellFormed, BlockType, heap_block_t
<1>2. CASE Splits(h, b, t)
  <2>0. PICK new : new = b + HDR + t
    OBVIOUS
  <2>1. SplitResult(h, b, t, new, g)
    BY <1>0, <1>2, <2>0, SplitFields
  <2>2. new > b /\ new # NULL /\ new = b + HDR + t
        /\ new + HDR + g[new].size = b + HDR + h[b].size
    BY <1>1, <2>0, <2>1 DEF SplitResult, NULL
  <2>3. DOMAIN g = DOMAIN h \cup {new}
    BY <2>1 DEF SplitResult
  <2>4. BlockType(g)
    <3>1. g \in [DOMAIN g -> heap_block_t]
      BY <2>1, <2>3 DEF SplitResult
    <3>2. DOMAIN g \subseteq Nat \ {NULL}
      BY <1>1, <2>1, <2>2, <2>3 DEF SplitResult
    <3>3. ASSUME NEW c \in DOMAIN g
          PROVE  /\ g[c].next \in DOMAIN g \cup {NULL}
                 /\ g[c].prev \in DOMAIN g \cup {NULL}
      BY <1>1, <2>1, <2>2, <2>3 DEF SplitResult
    <3>4. QED
      BY <3>1, <3>2, <3>3 DEF BlockType
  <2>5. Tiled(g)
    <3>1. ASSUME NEW c \in DOMAIN g
          PROVE  /\ c >= HEAP_BASE
                 /\ End(g, c) <= HEAP_END
                 /\ End(g, c) = IF g[c].next = NULL THEN HEAP_END ELSE g[c].next
      <4>1. CASE c = new
        BY <1>1, <2>1, <2>2, <4>1 DEF SplitResult, WellFormed, Tiled, End
      <4>2. CASE c = b
        BY <1>1, <2>1, <2>2, <4>2 DEF SplitResult, Splits, WellFormed, Tiled, End, HEAP_END
      <4>3. CASE c \in DOMAIN h \ {b}
        BY <1>1, <2>1, <4>3 DEF SplitResult, WellFormed, Tiled, End
      <4>4. QED
        BY <2>3, <4>1, <4>2, <4>3
    <3>2. QED
      BY <2>3, <3>1 DEF WellFormed, Tiled
  <2>6. Linked(g)
    <3>1. ASSUME NEW c \in DOMAIN g
          PROVE  /\ g[c].next # NULL => g[g[c].next].prev = c
                 /\ g[c].prev # NULL => g[g[c].prev].next = c
                 /\ g[c].prev = NULL <=> c = HEAP_BASE
      <4>1. CASE c = new
        BY <1>1, <2>1, <2>2, <2>3, <4>1 DEF SplitResult, WellFormed, Linked, Tiled, End
      <4>2. CASE c = b
        BY <1>1, <2>1, <2>2, <2>3, <4>2 DEF SplitResult, WellFormed, Linked, Tiled, End
      <4>3. CASE c \in DOMAIN h \ {b}
        BY <1>1, <2>1, <2>2, <2>3, <4>3 DEF SplitResult, WellFormed, Linked, Tiled, End
      <4>4. QED
        BY <2>3, <4>1, <4>2, <4>3
    <3>2. QED
      BY <3>1 DEF Linked
  <2>7. Apart(g)
    BY <1>1, <2>1, <2>2, <2>3 DEF SplitResult, WellFormed, Apart, End
  <2>8. Coalesced(g)
    BY <1>1, <2>1, <2>2, <2>3 DEF SplitResult, WellFormed, Linked, Coalesced
  <2>9. QED
    BY <1>1, <2>1, <2>2, <2>3, <2>4, <2>5, <2>6, <2>7, <2>8
       DEF SplitResult, WellFormed, TakeResult, Splits
<1>3. CASE ~Splits(h, b, t)
  <2>1. g = [h EXCEPT ![b].is_free = FALSE]
    BY <1>0, <1>3 DEF Take
  <2>2. /\ DOMAIN g = DOMAIN h
        /\ g \in [DOMAIN h -> heap_block_t]
        /\ g[b].size = h[b].size
        /\ g[b].is_free = FALSE
        /\ g[b].next = h[b].next
        /\ g[b].prev = h[b].prev
        /\ \A c \in DOMAIN h \ {b} : g[c] = h[c]
    <3>1. h \in [DOMAIN h -> heap_block_t]
      BY DEF WellFormed, BlockType
    <3>2. /\ DOMAIN g = DOMAIN h
          /\ g[b] = [h[b] EXCEPT !.is_free = FALSE]
          /\ \A c \in DOMAIN h \ {b} : g[c] = h[c]
      BY <2>1
    <3>3. /\ g[b] \in heap_block_t
          /\ g[b].size = h[b].size
          /\ g[b].is_free = FALSE
          /\ g[b].next = h[b].next
          /\ g[b].prev = h[b].prev
      <4>1. h[b] \in heap_block_t
        BY <1>1
      <4>2. QED
        BY <3>2, <4>1 DEF heap_block_t
    <3>4. g \in [DOMAIN h -> heap_block_t]
      <4>1. \A c \in DOMAIN h : g[c] \in heap_block_t
        BY <3>1, <3>2, <3>3
      <4>2. g = [c \in DOMAIN h |-> g[c]]
        BY <2>1
      <4>3. QED
        BY <4>1, <4>2
    <3>5. QED
      BY <3>2, <3>3, <3>4
  <2>3. BlockType(g)
    BY <1>1, <2>2 DEF BlockType
  <2>4. Tiled(g) /\ Apart(g)
    BY <1>1, <2>2 DEF WellFormed, Tiled, Apart, End
  <2>5. Linked(g) /\ Coalesced(g)
    BY <1>1, <2>2 DEF WellFormed, Linked, Coalesced
  <2>6. QED
    BY <1>1, <2>2, <2>3, <2>4, <2>5 DEF WellFormed, TakeResult
<1>4. QED
  BY <1>2, <1>3

(* What one merge writes, field by field.                                  *)
AbsorbResult(h, p, n, g) ==
  /\ g \in [DOMAIN h \ {n} -> heap_block_t]
  /\ g[p].size = h[p].size + HDR + h[n].size
  /\ g[p].is_free = h[p].is_free
  /\ g[p].next = h[n].next
  /\ g[p].prev = h[p].prev
  /\ \A c \in DOMAIN h \ {p, n} :
       /\ g[c].size = h[c].size
       /\ g[c].is_free = h[c].is_free
       /\ g[c].next = h[c].next
       /\ g[c].prev = IF c = h[n].next THEN p ELSE h[c].prev

(* Basic facts of a well-formed heap about a block and its successor.      *)
LEMMA Neighbours ==
  ASSUME NEW h, WellFormed(h), NEW p \in DOMAIN h, NEW n, n = h[p].next, n # NULL
  PROVE  /\ n \in DOMAIN h /\ n > p /\ h[n].next # n /\ h[n].next # p
         /\ n = p + HDR + h[p].size
         /\ n # HEAP_BASE
<1> USE LayoutAssumption
<1>1. /\ \A c \in DOMAIN h : c \in Nat /\ c # NULL /\ h[c].size \in Nat
      /\ n \in DOMAIN h
  BY DEF WellFormed, BlockType, heap_block_t
<1>2. /\ n = p + HDR + h[p].size
      /\ h[n].next # NULL => h[n].next = n + HDR + h[n].size
  BY <1>1 DEF WellFormed, Tiled, End
<1>3. p >= HEAP_BASE
  BY DEF WellFormed, Tiled
<1>4. QED
  BY <1>1, <1>2, <1>3 DEF NULL

LEMMA AbsorbFields ==
  ASSUME NEW h, WellFormed(h), NEW p \in DOMAIN h, NEW n, n = h[p].next, n # NULL
  PROVE  AbsorbResult(h, p, n, Absorb(h, p, n))
<1> DEFINE g == Absorb(h, p, n)
           D == DOMAIN h \ {n}
           grown == [h[p] EXCEPT !.size = @ + HDR + h[n].size, !.next = h[n].next]
           f == [c \in D |-> IF c = p THEN grown ELSE h[c]]
<1> USE LayoutAssumption
<1>1. /\ n \in DOMAIN h /\ n # p /\ h[n].next # n /\ h[n].next # p
      /\ p \in Nat
  <2>1. n > p /\ n \in DOMAIN h /\ h[n].next # n /\ h[n].next # p
    BY Neighbours
  <2>2. DOMAIN h \subseteq Nat
    BY DEF WellFormed, BlockType
  <2>3. QED
    BY <2>1, <2>2
<1>2. /\ \A c \in DOMAIN h : c # NULL /\ h[c] \in heap_block_t
      /\ h[n].next \in DOMAIN h \cup {NULL}
  BY <1>1 DEF WellFormed, BlockType
<1>3. h[p] \in heap_block_t /\ h[n] \in heap_block_t
  BY <1>1, <1>2
<1>4. /\ grown \in heap_block_t
      /\ grown.size = h[p].size + HDR + h[n].size
      /\ grown.is_free = h[p].is_free
      /\ grown.next = h[n].next
      /\ grown.prev = h[p].prev
  <2>1. /\ h[p].size + HDR + h[n].size \in Nat
        /\ h[n].next \in Nat
    BY <1>3 DEF heap_block_t
  <2>2. QED
    BY <1>3, <2>1 DEF heap_block_t
<1> HIDE DEF grown
<1>5. f \in [D -> heap_block_t]
  BY <1>2, <1>4
<1>6. g = SetPrev(f, h[n].next, p)
  BY DEF Absorb, grown
<1>7. f[p] = grown /\ \A c \in DOMAIN h \ {p, n} : f[c] = h[c]
  BY <1>1
<1>8. /\ NULL \notin D /\ (h[n].next = NULL \/ h[n].next \in D)
      /\ p \in D /\ DOMAIN h \ {p, n} \subseteq D
  BY <1>1, <1>2
<1> HIDE DEF f, D, g
<1>9. /\ g \in [D -> heap_block_t]
      /\ \A d \in D :
           /\ g[d].size = f[d].size
           /\ g[d].is_free = f[d].is_free
           /\ g[d].next = f[d].next
           /\ g[d].prev = IF d = h[n].next THEN p ELSE f[d].prev
  <2>1. f \in [D -> heap_block_t] /\ NULL \notin D /\ p \in Nat
    BY <1>1, <1>5, <1>8
  <2>2. /\ SetPrev(f, h[n].next, p) \in [D -> heap_block_t]
        /\ \A d \in D :
             /\ SetPrev(f, h[n].next, p)[d].size = f[d].size
             /\ SetPrev(f, h[n].next, p)[d].is_free = f[d].is_free
             /\ SetPrev(f, h[n].next, p)[d].next = f[d].next
             /\ SetPrev(f, h[n].next, p)[d].prev = IF d = h[n].next THEN p ELSE f[d].prev
    BY <1>8, <2>1, SetPrevFields
  <2>3. QED
    BY <1>6, <2>2
<1>10. g \in [DOMAIN h \ {n} -> heap_block_t]
  BY <1>9 DEF D
<1>11. AbsorbResult(h, p, n, g)
  BY <1>1, <1>4, <1>7, <1>8, <1>9, <1>10 DEF AbsorbResult
<1>12. QED
  BY <1>11 DEF g

(* A block that swallows its list successor leaves the heap well formed.   *)
LEMMA AbsorbKeeps ==
  ASSUME NEW h, WellFormed(h), NEW p \in DOMAIN h, NEW n, n = h[p].next, n # NULL,
         NEW g, g = Absorb(h, p, n)
  PROVE  WellFormed(g) /\ AbsorbResult(h, p, n, g) /\ DOMAIN g = DOMAIN h \ {n}
<1> USE LayoutAssumption
<1>1. AbsorbResult(h, p, n, g)
  BY AbsorbFields
<1>2. DOMAIN g = DOMAIN h \ {n}
  BY <1>1 DEF AbsorbResult
<1>3. /\ n \in DOMAIN h /\ n > p /\ h[n].next # n /\ h[n].next # p
      /\ n = p + HDR + h[p].size /\ n # HEAP_BASE
  BY Neighbours
<1>4. /\ \A c \in DOMAIN h : c \in Nat /\ c # NULL /\ h[c].size \in Nat
                             /\ h[c].next \in DOMAIN h \cup {NULL}
                             /\ h[c].prev \in DOMAIN h \cup {NULL}
  BY DEF WellFormed, BlockType, heap_block_t
<1>5. \A c \in DOMAIN h : h[c].next = n => c = p
  <2>1. \A c \in DOMAIN h : h[c].next # NULL => h[h[c].next].prev = c
    BY DEF WellFormed, Linked
  <2>2. QED
    BY <2>1
<1>6. \A c \in DOMAIN h : h[c].prev = n => c = h[n].next
  BY <1>3, <1>4 DEF WellFormed, Linked
<1>7. BlockType(g)
  <2>1. g \in [DOMAIN g -> heap_block_t]
    BY <1>1, <1>2 DEF AbsorbResult
  <2>2. ASSUME NEW c \in DOMAIN g
        PROVE  /\ g[c].next \in DOMAIN g \cup {NULL}
               /\ g[c].prev \in DOMAIN g \cup {NULL}
    BY <1>1, <1>2, <1>3, <1>4, <1>5, <1>6 DEF AbsorbResult
  <2>3. QED
    BY <1>2, <1>4, <2>1, <2>2 DEF BlockType
<1>8. Tiled(g)
  BY <1>1, <1>2, <1>3, <1>4 DEF AbsorbResult, WellFormed, Tiled, End
<1>9. Linked(g)
  <2>1. ASSUME NEW c \in DOMAIN g
        PROVE  /\ g[c].next # NULL => g[g[c].next].prev = c
               /\ g[c].prev # NULL => g[g[c].prev].next = c
               /\ g[c].prev = NULL <=> c = HEAP_BASE
    <3>0. Linked(h) /\ c \in DOMAIN h /\ c # n
      BY <1>2 DEF WellFormed
    <3>1. CASE c = p
      BY ONLY <1>1, <1>2, <1>3, <1>4, <1>5, <1>6, <3>0, <3>1, p \in DOMAIN h, n = h[p].next
         DEF AbsorbResult, Linked
    <3>2. CASE c # p
      BY ONLY <1>1, <1>2, <1>3, <1>4, <1>5, <1>6, <3>0, <3>2, c \in DOMAIN g, p \in DOMAIN h,
              n = h[p].next
         DEF AbsorbResult, Linked
    <3>3. QED
      BY <3>1, <3>2
  <2>2. QED
    BY <2>1 DEF Linked
<1>10. Apart(g)
  <2>1. ASSUME NEW c \in DOMAIN g, NEW d \in DOMAIN g, c < d
        PROVE  End(g, c) <= d
    <3>1. CASE c = p
      BY <1>1, <1>2, <1>3, <1>4, <2>1, <3>1 DEF AbsorbResult, WellFormed, Apart, End
    <3>2. CASE c # p
      BY <1>1, <1>2, <1>3, <1>4, <2>1, <3>2 DEF AbsorbResult, WellFormed, Apart, End
    <3>3. QED
      BY <3>1, <3>2
  <2>2. QED
    BY <2>1 DEF Apart
<1>11. QED
  BY <1>1, <1>2, <1>7, <1>8, <1>9, <1>10 DEF WellFormed

(* Setting is_free changes nothing else.                                   *)
LEMMA MarkFreeKeeps ==
  ASSUME NEW h, WellFormed(h), NEW b \in DOMAIN h, NEW g, g = MarkFree(h, b)
  PROVE  /\ WellFormed(g)
         /\ DOMAIN g = DOMAIN h
         /\ g[b].is_free
         /\ \A c \in DOMAIN h : /\ g[c].size = h[c].size
                                /\ g[c].next = h[c].next
                                /\ g[c].prev = h[c].prev
                                /\ c # b => g[c].is_free = h[c].is_free
<1>1. h \in [DOMAIN h -> heap_block_t]
  BY DEF WellFormed, BlockType
<1>2. /\ DOMAIN g = DOMAIN h
      /\ g = [c \in DOMAIN h |-> g[c]]
      /\ g[b] = [h[b] EXCEPT !.is_free = TRUE]
      /\ \A c \in DOMAIN h \ {b} : g[c] = h[c]
  BY <1>1 DEF MarkFree
<1>3. h[b] \in heap_block_t
  BY <1>1
<1>4. /\ g[b] \in heap_block_t
      /\ g[b].is_free = TRUE
      /\ g[b].size = h[b].size /\ g[b].next = h[b].next /\ g[b].prev = h[b].prev
  BY <1>2, <1>3 DEF heap_block_t
<1>5. g \in [DOMAIN h -> heap_block_t]
  <2>1. \A c \in DOMAIN h : g[c] \in heap_block_t
    BY <1>1, <1>2, <1>4
  <2>2. QED
    BY <1>2, <2>1
<1>6. \A c \in DOMAIN h : /\ g[c].size = h[c].size
                          /\ g[c].next = h[c].next
                          /\ g[c].prev = h[c].prev
                          /\ c # b => g[c].is_free = h[c].is_free
  BY <1>2, <1>4
<1>7. BlockType(g)
  BY <1>2, <1>5, <1>6 DEF WellFormed, BlockType
<1>8. Tiled(g) /\ Apart(g)
  BY <1>2, <1>6 DEF WellFormed, Tiled, Apart, End
<1>9. Linked(g)
  BY <1>2, <1>6, <1>7 DEF WellFormed, Linked, BlockType
<1>10. QED
  BY <1>2, <1>4, <1>6, <1>7, <1>8, <1>9 DEF WellFormed

(* Coalesced but for the pairs block b is part of.                         *)
CoalescedBut(h, b) ==
  \A c \in DOMAIN h :
    c # b /\ h[c].next \notin {NULL, b} =>
      ~(h[c].is_free /\ h[h[c].next].is_free)

(* What a step of kfree leaves of the heap h it started from.              *)
Shrunk(h, b, g) ==
  /\ DOMAIN g \subseteq DOMAIN h
  /\ \A c \in DOMAIN h \ {b} : ~h[c].is_free =>
       c \in DOMAIN g /\ ~g[c].is_free /\ g[c].size = h[c].size
  /\ \A c \in DOMAIN g : ~g[c].is_free => c # b /\ ~h[c].is_free

(* kfree restores a well-formed and coalesced heap in which every other    *)
(* allocated block is as it was.                                           *)
LEMMA ReleaseKeeps ==
  ASSUME NEW h, WellFormed(h), Coalesced(h), NEW b \in DOMAIN h
  PROVE  /\ WellFormed(Release(h, b))
         /\ Coalesced(Release(h, b))
         /\ Shrunk(h, b, Release(h, b))
<1> DEFINE h1 == MarkFree(h, b)
           h2 == MergeNext(h1, b)
           h3 == MergePrev(h2, b)
<1>1. /\ WellFormed(h1)
      /\ DOMAIN h1 = DOMAIN h
      /\ h1[b].is_free
      /\ \A c \in DOMAIN h : /\ h1[c].size = h[c].size
                             /\ h1[c].next = h[c].next
                             /\ h1[c].prev = h[c].prev
                             /\ c # b => h1[c].is_free = h[c].is_free
  BY MarkFreeKeeps
<1>2. CoalescedBut(h1, b) /\ Shrunk(h, b, h1)
  <2>1. \A c \in DOMAIN h : h[c].next \in DOMAIN h \cup {NULL}
    BY DEF WellFormed, BlockType
  <2>2. QED
    BY <1>1, <2>1 DEF Coalesced, CoalescedBut, Shrunk
<1> HIDE DEF h1
<1>3. /\ WellFormed(h2)
      /\ b \in DOMAIN h2
      /\ h2[b].is_free
      /\ CoalescedBut(h2, b)
      /\ Shrunk(h, b, h2)
      /\ h2[b].next # NULL => ~h2[h2[b].next].is_free
  <2> DEFINE n == h1[b].next
  <2>1. CASE n # NULL /\ h1[n].is_free
    <3>1. h2 = Absorb(h1, b, n)
      BY <2>1 DEF MergeNext
    <3>0. n = h1[b].next
      OBVIOUS
    <3> HIDE DEF h2, n
    <3>2. WellFormed(h2) /\ AbsorbResult(h1, b, n, h2) /\ DOMAIN h2 = DOMAIN h1 \ {n}
      BY <1>1, <2>1, <3>0, <3>1, AbsorbKeeps
    <3>3. n \in DOMAIN h1 /\ n # b /\ h1[n].next # n /\ h1[n].next # b
      <4>1. n \in DOMAIN h1 /\ n > b /\ h1[n].next # n /\ h1[n].next # b
        BY <1>1, <2>1, <3>0, Neighbours
      <4>2. b \in Nat
        BY <1>1 DEF WellFormed, BlockType
      <4>3. QED
        BY <4>1, <4>2
    <3>4. \A c \in DOMAIN h1 : h1[c].next \in DOMAIN h1 \cup {NULL}
      BY <1>1 DEF WellFormed, BlockType
    <3>5. \A c \in DOMAIN h1 : h1[c].next = n => c = b
      <4>1. \A c \in DOMAIN h1 : h1[c].next # NULL => h1[h1[c].next].prev = c
        BY <1>1 DEF WellFormed, Linked
      <4>2. QED
        BY <1>1, <2>1, <3>0, <4>1
    <3>6. CoalescedBut(h2, b)
      BY <1>1, <3>0, <1>2, <3>2, <3>3, <3>4, <3>5 DEF AbsorbResult, CoalescedBut
    <3>7. Shrunk(h, b, h2)
      <4>1. \A c \in DOMAIN h1 \ {b, n} : h2[c].size = h1[c].size
                                         /\ h2[c].is_free = h1[c].is_free
        BY <3>2 DEF AbsorbResult
      <4>2. h2[b].is_free = h1[b].is_free
        BY <3>2 DEF AbsorbResult
      <4>3. QED
        BY <1>1, <1>2, <2>1, <3>2, <4>1, <4>2 DEF Shrunk
    <3>8. h2[b].next # NULL => ~h2[h2[b].next].is_free
      BY <1>1, <1>2, <2>1, <3>0, <3>2, <3>3, <3>4 DEF AbsorbResult, CoalescedBut
    <3>9. QED
      BY <1>1, <3>2, <3>3, <3>6, <3>7, <3>8 DEF AbsorbResult
  <2>2. CASE ~(n # NULL /\ h1[n].is_free)
    BY <1>1, <1>2, <2>2 DEF MergeNext
  <2>3. QED
    BY <2>1, <2>2
<1> HIDE DEF h2
<1>4. WellFormed(h3) /\ Coalesced(h3) /\ Shrunk(h, b, h3)
  <2> DEFINE p == h2[b].prev
  <2>1. \A c \in DOMAIN h2 : /\ h2[c].next \in DOMAIN h2 \cup {NULL}
                             /\ h2[c].prev \in DOMAIN h2 \cup {NULL}
                             /\ h2[c].next # NULL => h2[h2[c].next].prev = c
                             /\ h2[c].prev # NULL => h2[h2[c].prev].next = c
    BY <1>3 DEF WellFormed, BlockType, Linked
  <2>2. CASE p # NULL /\ h2[p].is_free
    <3>1. h3 = Absorb(h2, p, b)
      BY <2>2 DEF MergePrev
    <3> HIDE DEF h3
    <3>2. p \in DOMAIN h2 /\ b = h2[p].next /\ b # NULL
      <4>1. b # NULL
        BY <1>3 DEF WellFormed, BlockType
      <4>2. QED
        BY <1>3, <2>1, <2>2, <4>1
    <3>3. WellFormed(h3) /\ AbsorbResult(h2, p, b, h3) /\ DOMAIN h3 = DOMAIN h2 \ {b}
      BY <1>3, <3>1, <3>2, AbsorbKeeps
    <3>4. h2[b].next # b /\ h2[b].next # p /\ p # b
      <4>1. b > p /\ h2[b].next # b /\ h2[b].next # p
        BY <1>3, <3>2, Neighbours
      <4>2. b \in Nat
        BY <1>3 DEF WellFormed, BlockType
      <4>3. QED
        BY <4>1, <4>2
    <3>5. Coalesced(h3)
      <4>1. ASSUME NEW c \in DOMAIN h3, h3[c].next # NULL
            PROVE  ~(h3[c].is_free /\ h3[h3[c].next].is_free)
        <5>1. CASE c = p
          BY <1>3, <2>1, <3>3, <3>4, <4>1, <5>1 DEF AbsorbResult
        <5>2. CASE c # p
          BY <1>3, <2>1, <3>2, <3>3, <3>4, <4>1, <5>2 DEF AbsorbResult, CoalescedBut
        <5>3. QED
          BY <5>1, <5>2
      <4>2. QED
        BY <4>1 DEF Coalesced
    <3>6. Shrunk(h, b, h3)
      <4>1. \A c \in DOMAIN h2 \ {p, b} : h3[c].size = h2[c].size
                                         /\ h3[c].is_free = h2[c].is_free
        BY <3>3 DEF AbsorbResult
      <4>2. h3[p].is_free = h2[p].is_free
        BY <3>3 DEF AbsorbResult
      <4>3. QED
        BY <1>3, <2>2, <3>3, <4>1, <4>2 DEF Shrunk
    <3>7. QED
      BY <3>3, <3>5, <3>6
  <2>3. CASE ~(p # NULL /\ h2[p].is_free)
    <3>1. h3 = h2
      BY <2>3 DEF MergePrev
    <3> HIDE DEF h3
    <3>2. Coalesced(h2)
      <4>1. ASSUME NEW c \in DOMAIN h2, h2[c].next # NULL
            PROVE  ~(h2[c].is_free /\ h2[h2[c].next].is_free)
        <5>1. CASE c = b
          BY <1>3, <4>1, <5>1
        <5>2. CASE h2[c].next = b
          <6>1. h2[b].prev = c
            BY <2>1, <4>1, <5>2
          <6>2. c # NULL
            BY <1>3 DEF WellFormed, BlockType
          <6>3. QED
            BY <2>3, <6>1, <6>2
        <5>3. CASE c # b /\ h2[c].next # b
          BY <1>3, <4>1, <5>3 DEF CoalescedBut
        <5>4. QED
          BY <5>1, <5>2, <5>3
      <4>2. QED
        BY <4>1 DEF Coalesced
    <3>3. QED
      BY <1>3, <3>1, <3>2
  <2>4. QED
    BY <2>2, <2>3
<1>5. QED
  BY <1>4 DEF h2, h1, Release

(* Where the blocks of a well-formed heap lie.                             *)
Placed(h) ==
  /\ \A c \in DOMAIN h : /\ c \in Nat /\ h[c].size \in Nat
                         /\ HEAP_BASE <= c
                         /\ c + HDR + h[c].size <= HEAP_END
  /\ \A c, d \in DOMAIN h : c < d => c + HDR + h[c].size <= d

LEMMA UsedFacts ==
  ASSUME NEW h, WellFormed(h)
  PROVE  Placed(h)
BY DEF Placed, WellFormed, BlockType, heap_block_t, Tiled, Apart, End

(* heap_init: one free block.                                              *)
LEMMA EmptyHeapFacts ==
  WellFormed(EmptyHeap) /\ Coalesced(EmptyHeap) /\ Used(EmptyHeap) = {}
<1> USE LayoutAssumption
<1>1. PICK h : h = EmptyHeap
  OBVIOUS
<1>2. /\ DOMAIN h = {HEAP_BASE}
      /\ h[HEAP_BASE] = [size |-> HEAP_SIZE - HDR, is_free |-> TRUE,
                         next |-> NULL, prev |-> NULL]
      /\ h = [b \in DOMAIN h |-> h[b]]
  BY <1>1 DEF EmptyHeap
<1>3. h \in [DOMAIN h -> heap_block_t]
  <2>1. HEAP_SIZE - HDR \in Nat
    OBVIOUS
  <2>2. h[HEAP_BASE] \in heap_block_t
    BY <1>2, <2>1 DEF heap_block_t, NULL
  <2>3. QED
    BY <1>2, <2>2
<1>4. BlockType(h)
  BY <1>2, <1>3 DEF BlockType, NULL
<1>5. Tiled(h) /\ Linked(h) /\ Apart(h) /\ Coalesced(h)
  BY <1>2 DEF Tiled, Linked, Apart, Coalesced, End, HEAP_END, NULL
<1>6. Used(h) = {}
  BY <1>2 DEF Used
<1>7. QED
  BY <1>1, <1>4, <1>5, <1>6 DEF WellFormed

-----------------------------------------------------------------------------
(* The walk from heap_start, which kmalloc makes to find a block.          *)

(* The order of the natural numbers, as a relation.                        *)
LessThan == {p \in Nat \X Nat : p[1] < p[2]}

(* A set of natural numbers with a member has a least one.                 *)
LEMMA LeastOf ==
  ASSUME NEW T, T \subseteq Nat, T # {}
  PROVE  \E x \in T : \A y \in T : x <= y
<1>1. IsWellFoundedOn(LessThan, Nat)
  <2>1. OpToRel(<, Nat) = LessThan
    BY DEF OpToRel, LessThan
  <2>2. QED
    BY <2>1, NatLessThanWellFounded
<1>2. PICK x \in T : \A y \in T : <<y, x>> \notin LessThan
  BY <1>1, WFMin
<1>3. ASSUME NEW y \in T PROVE x <= y
  <2>1. <<y, x>> \notin LessThan /\ x \in Nat /\ y \in Nat
    BY <1>2
  <2>2. QED
    BY <2>1 DEF LessThan
<1>4. QED
  BY <1>3

(* A set with 0 that has the successor of each of its members has all      *)
(* natural numbers.                                                        *)
LEMMA Induction ==
  ASSUME NEW T, 0 \in T, \A n \in Nat : n \in T => n + 1 \in T
  PROVE  Nat \subseteq T
<1>1. SUFFICES ASSUME Nat \ T # {} PROVE FALSE
  OBVIOUS
<1>2. PICK x \in Nat \ T : \A y \in Nat \ T : x <= y
  BY <1>1, LeastOf
<1>3. x # 0 /\ x - 1 \in Nat /\ x - 1 \notin Nat \ T
  BY <1>2
<1>4. QED
  BY <1>2, <1>3

(* What the k-th step of the walk reads.                                   *)
WalkStep(at, h, k) ==
  IF k = 0 THEN HEAP_BASE
  ELSE IF at[k-1] = NULL THEN NULL ELSE h[at[k-1]].next

(* at is a walk of n steps from heap_start.                                *)
Walks(at, h, n) == at = [k \in 0..n |-> WalkStep(at, h, k)]

(* There is a walk of any length: each step reads what the one before it   *)
(* left.                                                                   *)
LEMMA WalkExists ==
  ASSUME NEW h, NEW n \in Nat
  PROVE  \E at : Walks(at, h, n)
<1> DEFINE T == {m \in Nat : \E at : Walks(at, h, m)}
<1>1. 0 \in T
  <2> DEFINE at == [k \in 0..0 |-> HEAP_BASE]
  <2>1. Walks(at, h, 0)
    BY DEF Walks, WalkStep
  <2>2. QED
    BY <2>1
<1>2. ASSUME NEW m \in Nat, m \in T PROVE m + 1 \in T
  <2>1. PICK at : Walks(at, h, m)
    BY <1>2
  <2> DEFINE new == [k \in 0..(m+1) |-> WalkStep(at, h, k)]
  <2>2. \A k \in 0..m : new[k] = at[k]
    BY <2>1 DEF Walks
  <2>3. ASSUME NEW k \in 0..(m+1) PROVE WalkStep(new, h, k) = WalkStep(at, h, k)
    <3>1. CASE k = 0
      BY <3>1 DEF WalkStep
    <3>2. CASE k # 0
      <4>1. k - 1 \in 0..m
        BY <3>2
      <4>2. new[k-1] = at[k-1]
        BY <2>2, <4>1
      <4> HIDE DEF new
      <4>3. QED
        BY <3>2, <4>2 DEF WalkStep
    <3>3. QED
      BY <3>1, <3>2
  <2>4. Walks(new, h, m + 1)
    BY <2>3 DEF Walks
  <2>5. QED
    BY <2>4
<1> HIDE DEF T
<1>3. n \in T
  BY <1>1, <1>2, Induction
<1>4. QED
  BY <1>3 DEF T

(* Walk is such a walk.                                                    *)
LEMMA WalkFacts ==
  ASSUME NEW h, IsFiniteSet(DOMAIN h)
  PROVE  \A k \in 0..Cardinality(DOMAIN h) : Walk(h)[k] = WalkStep(Walk(h), h, k)
<1>1. PICK n : n = Cardinality(DOMAIN h)
  OBVIOUS
<1>2. n \in Nat
  BY <1>1, FS_CardinalityType
<1>3. Walk(h) = CHOOSE at : Walks(at, h, n)
  BY <1>1 DEF Walk, Walks, WalkStep
<1>4. Walks(Walk(h), h, n)
  BY <1>2, <1>3, WalkExists
<1>5. QED
  BY <1>1, <1>4 DEF Walks

(* The blocks below b, and how many they are.                              *)
Before(h, b) == {c \in DOMAIN h : c < b}

Rank(h, b) == Cardinality(Before(h, b))

(* The next block on the list is the next in the order of the addresses:   *)
(* no block lies between the two.                                          *)
LEMMA Ranks ==
  ASSUME NEW h, WellFormed(h)
  PROVE  /\ IsFiniteSet(DOMAIN h)
         /\ Rank(h, HEAP_BASE) = 0
         /\ \A b \in DOMAIN h :
              /\ Rank(h, b) \in Nat /\ Rank(h, b) < Cardinality(DOMAIN h)
              /\ h[b].next # NULL => /\ h[b].next \in DOMAIN h
                                     /\ Rank(h, h[b].next) = Rank(h, b) + 1
              /\ h[b].next = NULL => Cardinality(DOMAIN h) = Rank(h, b) + 1
<1>1. IsFiniteSet(DOMAIN h)
  <2>1. DOMAIN h \subseteq HEAP_BASE..HEAP_END
    BY LayoutAssumption, UsedFacts DEF Placed, HEAP_END
  <2>2. IsFiniteSet(HEAP_BASE..HEAP_END)
    BY LayoutAssumption, FS_Interval DEF HEAP_END
  <2>3. QED
    BY <2>1, <2>2, FS_Subset
<1>2. Placed(h)
  BY UsedFacts
<1>3. Rank(h, HEAP_BASE) = 0
  <2>1. Before(h, HEAP_BASE) = {}
    BY <1>2, LayoutAssumption DEF Placed, Before
  <2>2. QED
    BY <2>1, FS_EmptySet DEF Rank
<1>4. ASSUME NEW b \in DOMAIN h
      PROVE  /\ IsFiniteSet(Before(h, b)) /\ b \notin Before(h, b)
             /\ Cardinality(Before(h, b) \cup {b}) = Rank(h, b) + 1
             /\ Rank(h, b) \in Nat
  <2>1. IsFiniteSet(Before(h, b))
    BY <1>1, FS_Subset DEF Before
  <2>2. b \notin Before(h, b)
    BY <1>2 DEF Before, Placed
  <2>3. QED
    BY <2>1, <2>2, FS_AddElement, FS_CardinalityType DEF Rank
<1>5. ASSUME NEW b \in DOMAIN h
      PROVE  Rank(h, b) < Cardinality(DOMAIN h)
  <2>1. Before(h, b) \cup {b} \subseteq DOMAIN h
    BY DEF Before
  <2>2. Cardinality(Before(h, b) \cup {b}) <= Cardinality(DOMAIN h)
    BY <1>1, <2>1, FS_Subset
  <2>3. QED
    BY <1>1, <1>4, <2>2, FS_CardinalityType
<1>6. ASSUME NEW b \in DOMAIN h, h[b].next # NULL
      PROVE  h[b].next \in DOMAIN h /\ Rank(h, h[b].next) = Rank(h, b) + 1
  <2>1. PICK n : n = h[b].next
    OBVIOUS
  <2>2. n \in DOMAIN h /\ End(h, b) = n
    BY <1>6, <2>1 DEF WellFormed, BlockType, Tiled
  <2>3. b < n /\ \A c \in DOMAIN h : c < n <=> c <= b
    <3>1. b + HDR + h[b].size = n
      BY <2>2 DEF End
    <3>2. b < n
      BY <1>2, <2>2, <3>1, LayoutAssumption DEF Placed
    <3>3. ASSUME NEW c \in DOMAIN h PROVE c < n <=> c <= b
      BY <1>2, <2>2, <3>1, <3>2, LayoutAssumption DEF Placed
    <3>4. QED
      BY <3>2, <3>3
  <2>4. Before(h, n) = Before(h, b) \cup {b}
    BY <1>2, <2>2, <2>3 DEF Before, Placed
  <2>5. QED
    BY <1>4, <2>1, <2>2, <2>4 DEF Rank
<1>7. ASSUME NEW b \in DOMAIN h, h[b].next = NULL
      PROVE  Cardinality(DOMAIN h) = Rank(h, b) + 1
  <2>1. b + HDR + h[b].size = HEAP_END
    BY <1>7 DEF WellFormed, Tiled, End
  <2>2. ASSUME NEW c \in DOMAIN h PROVE c <= b
    BY <1>2, <2>1, LayoutAssumption DEF Placed
  <2>3. DOMAIN h = Before(h, b) \cup {b}
    BY <1>2, <2>2 DEF Before, Placed
  <2>4. QED
    BY <1>4, <2>3
<1>8. QED
  BY <1>1, <1>3, <1>4, <1>5, <1>6, <1>7

(* Ranks order blocks as addresses do.                                     *)
LEMMA RankOrders ==
  ASSUME NEW h, WellFormed(h), NEW b \in DOMAIN h, NEW c \in DOMAIN h
  PROVE  b < c <=> Rank(h, b) < Rank(h, c)
<1>1. IsFiniteSet(DOMAIN h) /\ Placed(h)
  BY Ranks, UsedFacts
<1>2. ASSUME NEW x \in DOMAIN h, NEW y \in DOMAIN h, x < y
      PROVE  Rank(h, x) < Rank(h, y)
  <2>1. Before(h, x) \cup {x} \subseteq Before(h, y) /\ x \notin Before(h, x)
    BY <1>1, <1>2 DEF Before, Placed
  <2>2. IsFiniteSet(Before(h, x)) /\ IsFiniteSet(Before(h, y))
    BY <1>1, FS_Subset DEF Before
  <2>3. Cardinality(Before(h, x) \cup {x}) = Rank(h, x) + 1
    BY <2>1, <2>2, FS_AddElement DEF Rank
  <2>4. Cardinality(Before(h, x) \cup {x}) <= Rank(h, y)
    BY <2>1, <2>2, FS_Subset DEF Rank
  <2>5. QED
    BY <2>3, <2>4, Ranks
<1>3. b \in Nat /\ c \in Nat /\ Rank(h, b) \in Nat /\ Rank(h, c) \in Nat
  BY <1>1, Ranks DEF Placed
<1>4. QED
  BY <1>2, <1>3

(* The k-th step of the walk is at the k-th block by address, and the last *)
(* step is at null.                                                        *)
LEMMA WalkIsOrder ==
  ASSUME NEW h, WellFormed(h), NEW k \in Nat
  PROVE  /\ k < Cardinality(DOMAIN h) =>
              Walk(h)[k] \in DOMAIN h /\ Rank(h, Walk(h)[k]) = k
         /\ k = Cardinality(DOMAIN h) => Walk(h)[k] = NULL
<1>1. PICK n, at : n = Cardinality(DOMAIN h) /\ at = Walk(h)
  OBVIOUS
<1>2. n \in Nat /\ \A j \in 0..n : at[j] = WalkStep(at, h, j)
  BY <1>1, Ranks, WalkFacts, FS_CardinalityType
<1>3. \A b \in DOMAIN h : b # NULL
  BY DEF WellFormed, BlockType
<1> DEFINE T == {j \in Nat : /\ j < n => at[j] \in DOMAIN h /\ Rank(h, at[j]) = j
                             /\ j = n => at[j] = NULL}
<1>4. 0 \in T
  <2>1. at[0] = HEAP_BASE /\ HEAP_BASE \in DOMAIN h
    BY <1>2 DEF WalkStep, WellFormed, Tiled
  <2>2. Rank(h, HEAP_BASE) = 0 /\ Rank(h, HEAP_BASE) < n
    BY <1>1, <2>1, Ranks
  <2>3. QED
    BY <1>2, <2>1, <2>2
<1>5. ASSUME NEW j \in Nat, j \in T PROVE j + 1 \in T
  <2>1. CASE j < n
    <3>1. PICK b \in DOMAIN h : b = at[j] /\ Rank(h, b) = j
      BY <1>5, <2>1
    <3>2. at[j+1] = h[b].next
      <4>1. j + 1 \in 0..n /\ j + 1 # 0 /\ (j + 1) - 1 = j
        BY <1>2, <2>1
      <4>2. QED
        BY <1>2, <1>3, <3>1, <4>1 DEF WalkStep
    <3>3. CASE h[b].next = NULL
      <4>1. n = j + 1
        BY <1>1, <3>1, <3>3, Ranks
      <4>2. QED
        BY <3>2, <3>3, <4>1
    <3>4. CASE h[b].next # NULL
      <4>1. /\ at[j+1] \in DOMAIN h /\ Rank(h, at[j+1]) = j + 1
            /\ Rank(h, at[j+1]) < n
        BY <1>1, <3>1, <3>2, <3>4, Ranks
      <4>2. QED
        BY <4>1
    <3>5. QED
      BY <3>3, <3>4
  <2>2. CASE ~(j < n)
    BY <1>2, <2>2
  <2>3. QED
    BY <2>1, <2>2
<1> HIDE DEF T
<1>6. k \in T
  BY <1>4, <1>5, Induction
<1>7. QED
  BY <1>1, <1>6 DEF T

(* kmalloc's walk from heap_start meets every block, in the order of the   *)
(* addresses: it takes the lowest block that fits and gives up only when   *)
(* no block does.                                                          *)
LEMMA FirstFitIsLowest ==
  ASSUME NEW h, WellFormed(h), NEW t
  PROVE  /\ NoFit(h, t) <=> \A c \in DOMAIN h : ~Fits(h, c, t)
         /\ \A b : FirstFit(h, t, b) <=>
                     Fits(h, b, t) /\ \A c \in DOMAIN h : c < b => ~Fits(h, c, t)
<1>1. PICK n, at : n = Cardinality(DOMAIN h) /\ at = Walk(h)
  OBVIOUS
<1>2. DOMAIN at = 0..n /\ n \in Nat
  <2>1. n \in Nat
    BY <1>1, Ranks, FS_CardinalityType
  <2>2. at = CHOOSE f : Walks(f, h, n)
    BY <1>1 DEF Walk, Walks, WalkStep
  <2>3. Walks(at, h, n)
    BY <2>1, <2>2, WalkExists
  <2>4. QED
    BY <2>1, <2>3 DEF Walks
<1>3. ASSUME NEW c \in DOMAIN h PROVE Rank(h, c) \in 0..(n-1) /\ at[Rank(h, c)] = c
  <2>1. Rank(h, c) \in Nat /\ Rank(h, c) < n
    BY <1>1, Ranks
  <2>2. PICK d : d = at[Rank(h, c)]
    OBVIOUS
  <2>3. d \in DOMAIN h /\ Rank(h, d) = Rank(h, c)
    BY <1>1, <2>1, <2>2, WalkIsOrder
  <2>4. ~(d < c) /\ ~(c < d)
    BY <2>1, <2>3, RankOrders
  <2>5. d \in Nat /\ c \in Nat
    BY <2>3, UsedFacts DEF Placed
  <2>6. QED
    BY <1>2, <2>1, <2>2, <2>4, <2>5
<1>4. ASSUME NEW k \in 0..n PROVE \/ k < n /\ at[k] \in DOMAIN h /\ Rank(h, at[k]) = k
                                  \/ at[k] = NULL
  BY <1>1, <1>2, WalkIsOrder
<1>5. ASSUME NEW c, Fits(h, c, t) PROVE c \in DOMAIN h /\ c # NULL
  BY <1>5 DEF Fits, WellFormed, BlockType
<1>6. NoFit(h, t) <=> \A c \in DOMAIN h : ~Fits(h, c, t)
  <2>1. NoFit(h, t) <=> \A k \in 0..n : ~Fits(h, at[k], t)
    BY <1>1, <1>2 DEF NoFit
  <2>2. ASSUME NEW c \in DOMAIN h PROVE \E k \in 0..n : at[k] = c
    BY <1>2, <1>3
  <2>3. QED
    BY <1>5, <2>1, <2>2
<1>7. ASSUME NEW b, FirstFit(h, t, b), NEW c \in DOMAIN h, c < b PROVE ~Fits(h, c, t)
  <2>1. PICK k \in 0..n : at[k] = b /\ \A j \in 0..(k-1) : ~Fits(h, at[j], t)
    BY <1>1, <1>2, <1>7 DEF FirstFit
  <2>2. b \in DOMAIN h /\ b # NULL
    BY <1>5, <1>7 DEF FirstFit
  <2>3. Rank(h, b) = k
    BY <1>4, <2>1, <2>2
  <2>4. Rank(h, c) < k /\ Rank(h, c) \in Nat
    BY <1>3, <1>7, <2>2, <2>3, RankOrders
  <2>5. Rank(h, c) \in 0..(k-1)
    BY <2>1, <2>4
  <2>6. QED
    BY <1>3, <2>1, <2>5
<1>8. ASSUME NEW b, Fits(h, b, t), \A c \in DOMAIN h : c < b => ~Fits(h, c, t)
      PROVE  FirstFit(h, t, b)
  <2>1. b \in DOMAIN h
    BY <1>5, <1>8
  <2>2. PICK k : k = Rank(h, b)
    OBVIOUS
  <2>3. k \in 0..n /\ k < n /\ at[k] = b
    BY <1>2, <1>3, <2>1, <2>2
  <2>4. ASSUME NEW j \in 0..(k-1) PROVE ~Fits(h, at[j], t)
    <3>1. j < k /\ j \in 0..n
      BY <1>2, <2>3
    <3>2. CASE at[j] = NULL
      BY <1>5, <3>2
    <3>3. CASE at[j] \in DOMAIN h /\ Rank(h, at[j]) = j
      <4>1. at[j] < b
        BY <2>1, <2>2, <3>1, <3>3, RankOrders
      <4>2. QED
        BY <1>8, <3>3, <4>1
    <3>4. QED
      BY <1>4, <3>1, <3>2, <3>3
  <2>5. QED
    BY <1>1, <1>2, <1>8, <2>3, <2>4 DEF FirstFit
<1>9. QED
  BY <1>6, <1>7, <1>8 DEF FirstFit
=============================================================================
