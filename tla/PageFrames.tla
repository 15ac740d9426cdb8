----------------------------- MODULE PageFrames -----------------------------
(***************************************************************************)
(* The physical page frames of sys/kern/memory/memory.c: an array of       *)
(* frames with a count of references each, and a free list threaded        *)
(* through the array, used as a stack.                                     *)
(*                                                                         *)
(* The list is the sequence of its frames, head first; a frame is its      *)
(* index in page_frames, which is also its physical address in pages.      *)
(***************************************************************************)
EXTENDS Integers, Sequences

CONSTANTS
  total_pages,       \* usable pages the memory map adds up to
  KERNEL_PAGES,      \* pages below KERNEL_HEAP_BASE
  REF_WRAP,          \* ref_count is a kuint32_t: 2^32 in the build
  MaxReleases        \* bound: releases of one frame that nobody allocated

ASSUME FrameAssumption ==
  /\ total_pages \in Nat
  /\ KERNEL_PAGES \in Nat
  /\ MaxReleases \in Nat
  /\ REF_WRAP \in Nat
  /\ REF_WRAP > MaxReleases + 2

VARIABLES
  ref_count,         \* page_frames[i].ref_count
  is_free,           \* page_frames[i].is_free
  free_page_list,    \* the list, from its head
  free_pages, used_pages,
  owned              \* the frames callers have got and not given back

vars == <<ref_count, is_free, free_page_list, free_pages, used_pages, owned>>

Frames == 0..(total_pages - 1)

(* The frames the free list skips: those below KERNEL_HEAP_BASE.           *)
Skipped == IF KERNEL_PAGES < total_pages THEN KERNEL_PAGES ELSE total_pages

KernelFrames == 0..(Skipped - 1)

(* kmemory_init pushes the other frames in ascending order.                *)
Init ==
  /\ ref_count = [f \in Frames |-> 0]
  /\ is_free = [f \in Frames |-> f >= Skipped]
  /\ free_page_list = [i \in 1..(total_pages - Skipped) |-> total_pages - i]
  /\ free_pages = total_pages - Skipped
  /\ used_pages = Skipped
  /\ owned = {}

(* Faulty variant: the frame keeps the mark of a free one.                 *)
allocate_page_frame_marked_free ==
  /\ free_page_list # <<>>
  /\ LET frame == Head(free_page_list)
     IN  /\ ref_count' = [ref_count EXCEPT ![frame] = 1]
         /\ owned' = owned \cup {frame}
  /\ free_page_list' = Tail(free_page_list)
  /\ free_pages' = free_pages - 1
  /\ used_pages' = used_pages + 1
  /\ UNCHANGED is_free

allocate_page_frame ==
  \/ free_page_list = <<>> /\ UNCHANGED vars
  \/ /\ free_page_list # <<>>
     /\ LET frame == Head(free_page_list)
        IN  /\ ref_count' = [ref_count EXCEPT ![frame] = 1]
            /\ is_free' = [is_free EXCEPT ![frame] = FALSE]
            /\ owned' = owned \cup {frame}
     /\ free_page_list' = Tail(free_page_list)
     /\ free_pages' = free_pages - 1
     /\ used_pages' = used_pages + 1

(* Faulty variant: a counter that stops at zero.                           *)
DecrementSaturating(n) == IF n = 0 THEN 0 ELSE n - 1

(* frame->ref_count-- on an unsigned counter.                              *)
Decrement(n) == (n + REF_WRAP - 1) % REF_WRAP

(* Faulty variant: the counters are moved before the test for references.  *)
CountReleaseAlways(f) ==
  /\ free_pages' = free_pages + 1
  /\ used_pages' = used_pages - 1

CountRelease(f) ==
  IF Decrement(ref_count[f]) > 0 THEN UNCHANGED <<free_pages, used_pages>>
  ELSE /\ free_pages' = free_pages + 1
       /\ used_pages' = used_pages - 1

(* Callers free frames they own and, through vm_unmap_page, whatever frame *)
(* a page was mapped to: frames that are free already and frames that      *)
(* kmemory_init skipped, which nobody allocated and whose count is zero.   *)
free_page_frame(f) ==
  \/ is_free[f] /\ UNCHANGED vars
  \/ /\ ~is_free[f]
     /\ ref_count' = [ref_count EXCEPT ![f] = Decrement(@)]
     /\ owned' = owned \ {f}
     /\ CountRelease(f)
     /\ IF Decrement(ref_count[f]) > 0
        THEN UNCHANGED <<is_free, free_page_list>>
        ELSE /\ is_free' = [is_free EXCEPT ![f] = TRUE]
             /\ free_page_list' = <<f>> \o free_page_list

(* Bound: a frame nobody allocated is released at most MaxReleases times.  *)
Unspent(f) == f \in owned \/ is_free[f] \/ ref_count[f] \notin 1..(REF_WRAP - MaxReleases)

Next ==
  \/ allocate_page_frame
  \/ \E f \in Frames : Unspent(f) /\ free_page_frame(f)

Spec == Init /\ [][Next]_vars

-----------------------------------------------------------------------------
(* Properties.                                                             *)

TypeOK ==
  /\ ref_count \in [Frames -> 0..(REF_WRAP - 1)]
  /\ is_free \in [Frames -> BOOLEAN]
  /\ free_page_list \in Seq(Frames)
  /\ {free_pages, used_pages} \subseteq Int
  /\ owned \subseteq Frames

(* The list holds every frame marked free, once, and no other: a frame is  *)
(* never handed to two callers, nor lost.                                  *)
FreeListExact ==
  /\ \A i, j \in DOMAIN free_page_list :
       free_page_list[i] = free_page_list[j] => i = j
  /\ \A f \in Frames : is_free[f] <=> \E i \in DOMAIN free_page_list :
                                        free_page_list[i] = f

(* The two counters memory_get_stats reports say how many frames are on    *)
(* the list and how many are not.                                          *)
CountersExact ==
  /\ free_pages = Len(free_page_list)
  /\ free_pages + used_pages = total_pages

(* A frame in use is not on the list: the frames callers own have one      *)
(* reference, and the frames kmemory_init skipped never get on the list,   *)
(* since releasing one takes its count below zero and not to it.           *)
InUseStays ==
  /\ \A f \in owned : ~is_free[f] /\ ref_count[f] = 1
  /\ \A f \in KernelFrames : ~is_free[f] /\ f \notin owned
=============================================================================
