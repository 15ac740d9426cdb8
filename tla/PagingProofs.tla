---------------------------- MODULE PagingProofs ----------------------------
(***************************************************************************)
(* Proofs about the page frames and the page tables, for every number of   *)
(* frames, indexes, pages, devices and roots.  First the frames under      *)
(* their own calls, then under the calls of the page tables, then the tree *)
(* the tables form, then what follows from it for translations and for     *)
(* what the processor has cached.                                          *)
(***************************************************************************)
EXTENDS Paging, TLAPS

-----------------------------------------------------------------------------
(* The frames under their own calls.                                       *)

(* The inductive invariant of the frames.                                  *)
FrameInv == TypeOK /\ FreeListExact /\ CountersExact /\ InUseStays

LEMMA FramesInit == Init => FrameInv
<1> SUFFICES ASSUME Init PROVE FrameInv
  OBVIOUS
<1> USE FrameAssumption
<1>1. Skipped \in Nat /\ Skipped <= total_pages /\ total_pages - Skipped \in Nat
  BY DEF Skipped
<1>2. /\ free_page_list \in Seq(Frames)
      /\ Len(free_page_list) = total_pages - Skipped
      /\ DOMAIN free_page_list = 1..(total_pages - Skipped)
  BY <1>1 DEF Init, Frames
<1>3. TypeOK
  BY <1>1, <1>2 DEF Init, TypeOK, Frames
<1>4. FreeListExact
  <2>1. \A i, j \in DOMAIN free_page_list :
          free_page_list[i] = free_page_list[j] => i = j
    BY <1>1, <1>2 DEF Init
  <2>2. ASSUME NEW f \in Frames
        PROVE  is_free[f] <=> \E i \in DOMAIN free_page_list : free_page_list[i] = f
    <3>1. CASE f >= Skipped
      <4>1. total_pages - f \in DOMAIN free_page_list
            /\ free_page_list[total_pages - f] = f
        BY <1>1, <1>2, <3>1 DEF Init, Frames
      <4>2. QED
        BY <3>1, <4>1 DEF Init
    <3>2. CASE f < Skipped
      <4>1. \A i \in DOMAIN free_page_list : free_page_list[i] # f
        BY <1>1, <1>2, <3>2 DEF Init, Frames
      <4>2. ~is_free[f]
        <5>1. is_free[f] = (f >= Skipped)
          BY DEF Init
        <5>2. f \in Nat
          BY DEF Frames
        <5>3. ~(f >= Skipped)
          BY <1>1, <3>2, <5>2
        <5>4. QED
          BY <5>1, <5>3
      <4>3. QED
        BY <4>1, <4>2
    <3>3. QED
      BY <1>1, <3>1, <3>2 DEF Frames
  <2>3. QED
    BY <2>1, <2>2 DEF FreeListExact
<1>5. CountersExact
  BY <1>1, <1>2 DEF Init, CountersExact
<1>6. InUseStays
  <2>1. ASSUME NEW f \in KernelFrames PROVE ~is_free[f]
    <3>1. f \in Frames /\ ~(f >= Skipped)
      BY <1>1 DEF KernelFrames, Frames
    <3>2. is_free[f] = (f >= Skipped)
      BY <3>1 DEF Init
    <3>3. QED
      BY <3>1, <3>2
  <2>2. QED
    BY <2>1 DEF Init, InUseStays
<1>7. QED
  BY <1>3, <1>4, <1>5, <1>6 DEF FrameInv

(* What is left of a sequence without its head.                            *)
LEMMA TailFacts ==
  ASSUME NEW S, NEW s \in Seq(S), s # <<>>
  PROVE  /\ Head(s) = s[1] /\ s[1] \in S /\ 1 \in DOMAIN s
         /\ Tail(s) \in Seq(S) /\ Len(Tail(s)) = Len(s) - 1
         /\ \A i \in DOMAIN Tail(s) : i + 1 \in DOMAIN s /\ Tail(s)[i] = s[i + 1]
         /\ \A i \in DOMAIN s : i \in Nat /\ (i # 1 => i - 1 \in DOMAIN Tail(s))
<1>1. PICK n : n = Len(s)
  OBVIOUS
<1>2. n \in Nat \ {0} /\ DOMAIN s = 1..n /\ Head(s) = s[1]
  BY <1>1
<1>3. \A i \in 1..n : s[i] \in S
  BY <1>1, <1>2
<1>4. PICK t : t = Tail(s)
  OBVIOUS
<1>5. t \in Seq(S) /\ Len(t) = n - 1 /\ \A i \in 1..(n - 1) : t[i] = s[i + 1]
  BY <1>1, <1>2, <1>4
<1>6. DOMAIN t = 1..(n - 1)
  BY <1>2, <1>5
<1>7. /\ \A i \in 1..(n - 1) : i + 1 \in 1..n
      /\ \A i \in 1..n : i \in Nat /\ (i # 1 => i - 1 \in 1..(n - 1))
      /\ 1 \in 1..n
  BY ONLY <1>2
<1>8. QED
  BY ONLY <1>1, <1>2, <1>3, <1>4, <1>5, <1>6, <1>7

LEMMA FramesAllocate == FrameInv /\ allocate_page_frame => FrameInv'
<1> SUFFICES ASSUME FrameInv, allocate_page_frame PROVE FrameInv'
  OBVIOUS
<1> USE FrameAssumption
<1>1. CASE UNCHANGED vars
  BY <1>1 DEF vars, FrameInv, TypeOK, FreeListExact, CountersExact, InUseStays
<1>2. CASE free_page_list # <<>> /\ ~UNCHANGED vars
  <2> DEFINE frame == Head(free_page_list)
  <2>1. /\ ref_count' = [ref_count EXCEPT ![frame] = 1]
        /\ is_free' = [is_free EXCEPT ![frame] = FALSE]
        /\ owned' = owned \cup {frame}
        /\ free_page_list' = Tail(free_page_list)
        /\ free_pages' = free_pages - 1
        /\ used_pages' = used_pages + 1
    BY <1>2 DEF allocate_page_frame
  <2>2. TypeOK /\ FreeListExact /\ CountersExact /\ InUseStays
    BY DEF FrameInv
  <2>3. /\ frame = free_page_list[1] /\ frame \in Frames
        /\ 1 \in DOMAIN free_page_list
        /\ free_page_list' \in Seq(Frames)
        /\ Len(free_page_list') = Len(free_page_list) - 1
        /\ \A i \in DOMAIN free_page_list' :
             i + 1 \in DOMAIN free_page_list
             /\ free_page_list'[i] = free_page_list[i + 1]
        /\ \A i \in DOMAIN free_page_list : i # 1 => i - 1 \in DOMAIN free_page_list'
        /\ \A i \in DOMAIN free_page_list : i \in Nat
    <3>1. free_page_list \in Seq(Frames) /\ free_page_list # <<>>
      BY <1>2, <2>2 DEF TypeOK
    <3>2. PICK rest : rest = Tail(free_page_list) /\ free_page_list' = rest
      BY <2>1
    <3>3. QED
      BY <3>1, <3>2, TailFacts
  <2> HIDE DEF frame
  <2>4. TypeOK'
    BY <2>1, <2>2, <2>3 DEF TypeOK, CountersExact
  <2>5. FreeListExact'
    <3>1. ASSUME NEW i \in DOMAIN free_page_list', NEW j \in DOMAIN free_page_list',
                 free_page_list'[i] = free_page_list'[j]
          PROVE  i = j
      <4>1. i + 1 = j + 1
        BY <2>2, <2>3, <3>1 DEF FreeListExact
      <4>2. QED
        BY <2>3, <4>1
    <3>2. ASSUME NEW f \in Frames
          PROVE  is_free'[f] <=> \E i \in DOMAIN free_page_list' : free_page_list'[i] = f
      <4>1. CASE f = frame
        <5>1. ~is_free'[f]
          BY <2>1, <2>2, <4>1 DEF TypeOK
        <5>2. \A i \in DOMAIN free_page_list' : free_page_list'[i] # f
          BY <2>2, <2>3, <4>1 DEF FreeListExact
        <5>3. QED
          BY <5>1, <5>2
      <4>2. CASE f # frame
        <5>1. is_free'[f] <=> is_free[f]
          BY <2>1, <2>2, <4>2 DEF TypeOK
        <5>2. is_free[f] => \E i \in DOMAIN free_page_list' : free_page_list'[i] = f
          BY <2>2, <2>3, <4>2 DEF FreeListExact
        <5>3. (\E i \in DOMAIN free_page_list' : free_page_list'[i] = f) => is_free[f]
          BY <2>2, <2>3 DEF FreeListExact
        <5>4. QED
          BY <5>1, <5>2, <5>3
      <4>3. QED
        BY <4>1, <4>2
    <3>3. QED
      BY <3>1, <3>2 DEF FreeListExact
  <2>6. CountersExact'
    BY <2>1, <2>2, <2>3 DEF TypeOK, CountersExact
  <2>7. InUseStays'
    <3>1. is_free[frame]
      BY <2>2, <2>3 DEF FreeListExact
    <3>2. \A f \in owned' : ~is_free'[f] /\ ref_count'[f] = 1
      BY <2>1, <2>2, <2>3 DEF TypeOK, InUseStays
    <3>3. \A f \in KernelFrames : f \in Frames /\ f # frame
      BY <2>2, <3>1 DEF InUseStays, KernelFrames, Skipped, Frames
    <3>4. \A f \in KernelFrames : ~is_free'[f] /\ f \notin owned'
      BY <2>1, <2>2, <3>3 DEF TypeOK, InUseStays
    <3>5. QED
      BY <3>2, <3>4 DEF InUseStays
  <2>8. QED
    BY <2>4, <2>5, <2>6, <2>7 DEF FrameInv
<1>3. QED
  BY <1>1, <1>2 DEF allocate_page_frame

(* t is s with x put in front of it.                                       *)
PushedOn(S, s, x, t) ==
  /\ t \in Seq(S)
  /\ Len(t) = Len(s) + 1
  /\ 1 \in DOMAIN t
  /\ t[1] = x
  /\ \A i \in DOMAIN t :
       i \in Nat /\ (i # 1 => i - 1 \in DOMAIN s /\ t[i] = s[i - 1])
  /\ \A i \in DOMAIN s : i \in Nat /\ i + 1 \in DOMAIN t /\ t[i + 1] = s[i]

LEMMA Pushed ==
  ASSUME NEW S, NEW s \in Seq(S), NEW x \in S
  PROVE  PushedOn(S, s, x, <<x>> \o s)
<1> DEFINE t == <<x>> \o s
<1>1. <<x>> \in Seq(S) /\ Len(<<x>>) = 1 /\ <<x>>[1] = x
  OBVIOUS
<1>2. t \in Seq(S) /\ Len(t) = Len(s) + 1
  BY <1>1
<1>3. DOMAIN t = 1..(Len(s) + 1) /\ DOMAIN s = 1..Len(s) /\ Len(s) \in Nat
  BY <1>2
<1>4. \A i \in 1..(Len(s) + 1) : t[i] = IF i <= 1 THEN <<x>>[i] ELSE s[i - 1]
  BY <1>1, <1>2, <1>3
<1>5. QED
  BY <1>1, <1>2, <1>3, <1>4 DEF PushedOn

LEMMA FramesFree ==
  ASSUME FrameInv, NEW f \in Frames, Unspent(f), free_page_frame(f)
  PROVE  FrameInv'
<1> USE FrameAssumption
<1>1. CASE UNCHANGED vars
  BY <1>1 DEF vars, FrameInv, TypeOK, FreeListExact, CountersExact, InUseStays
<1>2. CASE ~is_free[f] /\ ~UNCHANGED vars
  <2>1. /\ ref_count' = [ref_count EXCEPT ![f] = Decrement(@)]
        /\ owned' = owned \ {f}
        /\ CountRelease(f)
        /\ IF Decrement(ref_count[f]) > 0
           THEN UNCHANGED <<is_free, free_page_list>>
           ELSE /\ is_free' = [is_free EXCEPT ![f] = TRUE]
                /\ free_page_list' = <<f>> \o free_page_list
    BY <1>2 DEF free_page_frame
  <2>2. TypeOK /\ FreeListExact /\ CountersExact /\ InUseStays
    BY DEF FrameInv
  <2>3. ref_count[f] \in 0..(REF_WRAP - 1) /\ f \in Nat
    BY <2>2 DEF TypeOK, Frames
  <2>4. Decrement(ref_count[f]) = IF ref_count[f] = 0 THEN REF_WRAP - 1
                                  ELSE ref_count[f] - 1
    BY <2>3 DEF Decrement
  <2>5. \A g \in Frames : ref_count'[g] = IF g = f THEN Decrement(ref_count[f])
                                          ELSE ref_count[g]
    BY <2>1, <2>2 DEF TypeOK
  <2>6. ref_count' \in [Frames -> 0..(REF_WRAP - 1)]
    <3>1. Decrement(ref_count[f]) \in 0..(REF_WRAP - 1)
      BY <2>3, <2>4
    <3>2. QED
      BY <2>1, <2>2, <3>1 DEF TypeOK
  <2>7. CASE f \notin owned
    <3>1. Decrement(ref_count[f]) > 0
      BY <1>2, <2>3, <2>4, <2>7 DEF Unspent
    <3>2. UNCHANGED <<is_free, free_page_list, free_pages, used_pages, owned>>
      BY <2>1, <2>7, <3>1 DEF CountRelease
    <3>3. QED
      BY <2>2, <2>5, <2>6, <2>7, <3>2
         DEF FrameInv, TypeOK, FreeListExact, CountersExact, InUseStays
  <2>8. CASE f \in owned
    <3>1. Decrement(ref_count[f]) = 0
      BY <2>2, <2>3, <2>4, <2>8 DEF InUseStays
    <3>2. /\ is_free' = [is_free EXCEPT ![f] = TRUE]
          /\ free_page_list' = <<f>> \o free_page_list
          /\ free_pages' = free_pages + 1
          /\ used_pages' = used_pages - 1
      BY <2>1, <3>1 DEF CountRelease
    <3>3. PushedOn(Frames, free_page_list, f, free_page_list')
      <4>1. free_page_list \in Seq(Frames)
        BY <2>2 DEF TypeOK
      <4>2. PushedOn(Frames, free_page_list, f, <<f>> \o free_page_list)
        BY <4>1, Pushed
      <4>3. QED
        BY <3>2, <4>2
    <3>4. \A g \in Frames : is_free'[g] = IF g = f THEN TRUE ELSE is_free[g]
      BY <2>2, <3>2 DEF TypeOK
    <3>5. \A i \in DOMAIN free_page_list : free_page_list[i] # f
      BY <1>2, <2>2 DEF FreeListExact
    <3>6. FreeListExact'
      <4>1. ASSUME NEW i \in DOMAIN free_page_list', NEW j \in DOMAIN free_page_list',
                   free_page_list'[i] = free_page_list'[j]
            PROVE  i = j
        <5>1. CASE i = 1 \/ j = 1
          BY <3>3, <3>5, <4>1, <5>1 DEF PushedOn
        <5>2. CASE i # 1 /\ j # 1
          <6>1. i - 1 = j - 1
            BY <2>2, <3>3, <4>1, <5>2 DEF FreeListExact, PushedOn
          <6>2. QED
            BY <3>3, <4>1, <6>1 DEF PushedOn
        <5>3. QED
          BY <5>1, <5>2
      <4>2. ASSUME NEW g \in Frames
            PROVE  is_free'[g] <=> \E i \in DOMAIN free_page_list' : free_page_list'[i] = g
        <5>1. CASE g = f
          BY <3>3, <3>4, <5>1 DEF PushedOn
        <5>2. CASE g # f
          <6>1. is_free'[g] <=> is_free[g]
            BY <3>4, <5>2
          <6>2. is_free[g] => \E i \in DOMAIN free_page_list' : free_page_list'[i] = g
            BY <2>2, <3>3 DEF FreeListExact, PushedOn
          <6>3. (\E i \in DOMAIN free_page_list' : free_page_list'[i] = g) => is_free[g]
            BY <2>2, <3>3, <5>2 DEF FreeListExact, PushedOn
          <6>4. QED
            BY <6>1, <6>2, <6>3
        <5>3. QED
          BY <5>1, <5>2
      <4>3. QED
        BY <4>1, <4>2 DEF FreeListExact
    <3>7. CountersExact'
      BY <2>2, <3>2, <3>3 DEF TypeOK, CountersExact, PushedOn
    <3>8. free_pages' \in Int /\ used_pages' \in Int
      BY <2>2, <3>2 DEF TypeOK
    <3>9. InUseStays'
      <4>1. \A g \in owned' : g \in Frames /\ g # f /\ g \in owned
        BY <2>1, <2>2 DEF TypeOK
      <4>2. \A g \in owned' : ~is_free'[g] /\ ref_count'[g] = 1
        <5>1. \A g \in owned' : is_free'[g] = is_free[g]
          BY <3>4, <4>1
        <5>2. \A g \in owned' : ref_count'[g] = ref_count[g]
          BY <2>5, <4>1
        <5>3. \A g \in owned' : ~is_free[g] /\ ref_count[g] = 1
          BY <2>2, <4>1 DEF InUseStays
        <5>4. QED
          BY <5>1, <5>2, <5>3
      <4>3. \A g \in KernelFrames : g \in Frames /\ g # f
        BY <2>2, <2>8 DEF InUseStays, KernelFrames, Skipped, Frames
      <4>4. \A g \in KernelFrames : ~is_free'[g] /\ g \notin owned'
        BY <2>1, <2>2, <3>4, <4>3 DEF InUseStays
      <4>5. QED
        BY <4>2, <4>4 DEF InUseStays
    <3>10. QED
      BY <2>1, <2>2, <2>6, <3>2, <3>3, <3>6, <3>7, <3>8, <3>9 DEF FrameInv, TypeOK, PushedOn
  <2>9. QED
    BY <2>7, <2>8
<1>3. QED
  BY <1>1, <1>2 DEF free_page_frame

LEMMA FramesStep == FrameInv /\ [Next]_vars => FrameInv'
<1> SUFFICES ASSUME FrameInv, [Next]_vars PROVE FrameInv'
  OBVIOUS
<1>1. CASE allocate_page_frame
  BY <1>1, FramesAllocate
<1>2. ASSUME NEW f \in Frames, Unspent(f), free_page_frame(f) PROVE FrameInv'
  BY <1>2, FramesFree
<1>3. CASE UNCHANGED vars
  BY <1>3 DEF vars, FrameInv, TypeOK, FreeListExact, CountersExact, InUseStays
<1>4. QED
  BY <1>1, <1>2, <1>3 DEF Next

(* The conjunction is inductive: FreeListExact needs the reference counts   *)
(* of the owned frames, and they need that the frame on top of the list is *)
(* not owned.                                                              *)
THEOREM FramesInvariance == Spec => []FrameInv
<1>1. QED
  BY FramesInit, FramesStep, PTL DEF Spec

(* The variables of the page frames keep their types, whatever frames are  *)
(* allocated and released.                                                 *)
THEOREM FramesTypeCorrect == Spec => []TypeOK
<1>1. FrameInv => TypeOK
  BY DEF FrameInv
<1>2. QED
  BY <1>1, FramesInvariance, PTL

(* The free list holds exactly the frames marked free, each once.          *)
THEOREM FreeListAlwaysExact == Spec => []FreeListExact
<1>1. FrameInv => FreeListExact
  BY DEF FrameInv
<1>2. QED
  BY <1>1, FramesInvariance, PTL

(* The counters of memory_get_stats are exact.                             *)
THEOREM CountersAlwaysExact == Spec => []CountersExact
<1>1. FrameInv => CountersExact
  BY DEF FrameInv
<1>2. QED
  BY <1>1, FramesInvariance, PTL

(* A frame somebody owns, or that kmemory_init skipped, is not on the free *)
(* list.                                                                   *)
THEOREM InUseAlwaysStays == Spec => []InUseStays
<1>1. FrameInv => InUseStays
  BY DEF FrameInv
<1>2. QED
  BY <1>1, FramesInvariance, PTL

-----------------------------------------------------------------------------
(* The frames under the calls of the page tables.                          *)

(* A frame off the list that kmemory_init did not skip has an owner.       *)
NotLost == \A f \in Frames \ KernelFrames : is_free[f] \/ f \in owned

VmFrameInv == FrameInv /\ NotLost

LEMMA VmFramesInit == VmInit => VmFrameInv
<1> SUFFICES ASSUME VmInit PROVE VmFrameInv
  OBVIOUS
<1>1. FrameInv
  BY FramesInit DEF VmInit
<1>2. ASSUME NEW f \in Frames \ KernelFrames PROVE is_free[f]
  <2>1. f \in Nat /\ Skipped \in Int /\ f >= Skipped
    BY FrameAssumption DEF Frames, KernelFrames, Skipped
  <2>2. is_free[f] = (f >= Skipped)
    BY DEF VmInit, Init
  <2>3. QED
    BY <2>1, <2>2
<1>3. QED
  BY <1>1, <1>2 DEF VmFrameInv, NotLost

LEMMA VmFramesAllocate == VmFrameInv /\ allocate_page_frame => VmFrameInv'
<1> SUFFICES ASSUME VmFrameInv, allocate_page_frame PROVE VmFrameInv'
  OBVIOUS
<1>1. FrameInv'
  BY FramesAllocate DEF VmFrameInv
<1>2. CASE UNCHANGED vars
  BY <1>1, <1>2 DEF VmFrameInv, NotLost, vars
<1>3. CASE /\ is_free' = [is_free EXCEPT ![Head(free_page_list)] = FALSE]
           /\ owned' = owned \cup {Head(free_page_list)}
  BY <1>1, <1>3 DEF VmFrameInv, NotLost, FrameInv, TypeOK
<1>4. QED
  BY <1>2, <1>3 DEF allocate_page_frame

LEMMA VmFramesFree ==
  ASSUME VmFrameInv, NEW f \in Frames, Unspent(f), free_page_frame(f)
  PROVE  VmFrameInv'
<1>1. FrameInv'
  BY FramesFree DEF VmFrameInv
<1>2. CASE UNCHANGED vars
  BY <1>1, <1>2 DEF VmFrameInv, NotLost, vars
<1>3. CASE /\ ~is_free[f]
           /\ owned' = owned \ {f}
           /\ IF Decrement(ref_count[f]) > 0
              THEN UNCHANGED is_free
              ELSE is_free' = [is_free EXCEPT ![f] = TRUE]
  <2>1. f \in owned => Decrement(ref_count[f]) = 0
    BY FrameAssumption DEF VmFrameInv, FrameInv, InUseStays, Decrement
  <2>2. f \notin owned => f \in KernelFrames
    BY <1>3 DEF VmFrameInv, NotLost
  <2>3. f \in owned => NotLost'
    <3>1. f \in owned => is_free' = [is_free EXCEPT ![f] = TRUE]
      BY <1>3, <2>1
    <3>2. QED
      BY <1>3, <3>1 DEF VmFrameInv, NotLost, FrameInv, TypeOK
  <2>4. f \in KernelFrames => NotLost'
    <3>1. \A g \in Frames : g # f => is_free'[g] = is_free[g]
      BY <1>3 DEF VmFrameInv, FrameInv, TypeOK
    <3>2. QED
      BY <1>3, <3>1 DEF VmFrameInv, NotLost
  <2>5. QED
    BY <1>1, <2>2, <2>3, <2>4 DEF VmFrameInv
<1>4. QED
  BY <1>2, <1>3 DEF free_page_frame

(* Of the frames, a step of the page tables sees only these three moves.   *)
FrameMove ==
  \/ UNCHANGED vars
  \/ allocate_page_frame
  \/ \E f \in Frames : Unspent(f) /\ free_page_frame(f)

LEMMA VmStepMoves ==
  ASSUME VmFrameInv, [VmNext]_<<vars, vmvars>>
  PROVE  FrameMove
<1>1. CASE Calls
  BY <1>1 DEF Calls, vm_map_page, vm_unmap_page, memory_map_physical,
              memory_unmap_physical, Begin, FrameMove
<1>2. CASE Levels
  BY <1>2 DEF Levels, descend, add_table, map_fails, map_page, nothing_to_unmap,
              unmap_page, release_page, walk_large_page, access_faults, FrameMove
<1>3. CASE vm_switch_pagetable
  BY <1>3 DEF vm_switch_pagetable, FrameMove
<1>4. CASE AllocateFrame
  BY <1>4 DEF AllocateFrame, FrameMove
<1>5. CASE FreeFrame
  BY <1>5 DEF FreeFrame, FrameMove, VmFrameInv, NotLost, Unspent
<1>6. CASE \E page \in Pages : Cache(page)
  BY <1>6 DEF Cache, FrameMove
<1>7. CASE UNCHANGED <<vars, vmvars>> \/ Ended
  BY <1>7 DEF FrameMove, Ended
<1>8. QED
  BY <1>1, <1>2, <1>3, <1>4, <1>5, <1>6, <1>7 DEF VmNext

LEMMA VmFramesStep == VmFrameInv /\ [VmNext]_<<vars, vmvars>> => VmFrameInv'
<1> SUFFICES ASSUME VmFrameInv, [VmNext]_<<vars, vmvars>> PROVE VmFrameInv'
  OBVIOUS
<1>1. CASE UNCHANGED vars
  BY <1>1 DEF vars, VmFrameInv, NotLost, FrameInv, TypeOK, FreeListExact,
              CountersExact, InUseStays
<1>2. CASE allocate_page_frame
  BY <1>2, VmFramesAllocate
<1>3. ASSUME NEW f \in Frames, Unspent(f), free_page_frame(f) PROVE VmFrameInv'
  BY <1>3, VmFramesFree
<1>4. QED
  BY <1>1, <1>2, <1>3, VmStepMoves DEF FrameMove

THEOREM VmFramesInvariance == VmSpec => []VmFrameInv
<1>1. QED
  BY VmFramesInit, VmFramesStep, PTL DEF VmSpec

(* The free list stays exact while page tables are made from its frames.   *)
THEOREM VmFreeListAlwaysExact == VmSpec => []FreeListExact
<1>1. VmFrameInv => FreeListExact
  BY DEF VmFrameInv, FrameInv
<1>2. QED
  BY <1>1, VmFramesInvariance, PTL

(* The counters of memory_get_stats stay exact.                            *)
THEOREM VmCountersAlwaysExact == VmSpec => []CountersExact
<1>1. VmFrameInv => CountersExact
  BY DEF VmFrameInv, FrameInv
<1>2. QED
  BY <1>1, VmFramesInvariance, PTL

(* vm_unmap_page puts no frame in use on the free list.                    *)
THEOREM VmInUseAlwaysStays == VmSpec => []InUseStays
<1>1. VmFrameInv => InUseStays
  BY DEF VmFrameInv, FrameInv
<1>2. QED
  BY <1>1, VmFramesInvariance, PTL

-----------------------------------------------------------------------------
(* The tree of the tables T, level by level.                               *)

Entries(T, ts) == {T[t][i] : t \in ts, i \in Indexes} \ NoTable

Third(T) == Entries(T, Roots)
Second(T) == Entries(T, Third(T))
First(T) == Entries(T, Second(T))

Typed(T) == T \in [DOMAIN T -> [Indexes -> Int]]

Tree(T) ==
  /\ Typed(T)
  /\ NoTable \cap DOMAIN T = {}
  /\ Roots \cap Third(T) = {} /\ Roots \cap Second(T) = {} /\ Roots \cap First(T) = {}
  /\ Third(T) \cap Second(T) = {} /\ Third(T) \cap First(T) = {}
  /\ Second(T) \cap First(T) = {}
  /\ Roots \cup Third(T) \cup Second(T) \cup First(T) = DOMAIN T

BothDoubled(a, b, i, j) == {a, b} \subseteq Roots /\ {i, j} \subseteq Doubled

(* No table hangs on two entries, but for the one PML3 of boot.asm.        *)
OneParent(T) ==
  \A a, b \in DOMAIN T \ First(T), i, j \in Indexes :
    T[a][i] = T[b][j] /\ T[a][i] \notin NoTable =>
      (a = b /\ i = j) \/ BothDoubled(a, b, i, j)

(* The large pages are those of the PML2 tables of boot.asm.               *)
LargeKept(T) ==
  /\ Pml2Tables \subseteq Second(T)
  /\ \A t \in DOMAIN T, i \in Indexes : T[t][i] = Large <=> t \in Pml2Tables

SameLevels(T, U) == Third(U) = Third(T) /\ Second(U) = Second(T) /\ First(U) = First(T)

(* U has at entry i of the table at a new, empty table below it.           *)
Grown(T, U, at, i, frame) ==
  U = [t \in DOMAIN T \cup {frame} |->
         IF t = frame THEN Zeroed
         ELSE IF t = at THEN [T[t] EXCEPT ![i] = frame]
         ELSE T[t]]

(* What the entries of U are, by the tables they are taken of.             *)
GrownReads(T, U, at, i, frame) ==
  /\ Typed(U)
  /\ DOMAIN U = DOMAIN T \cup {frame}
  /\ \A t \in DOMAIN T, j \in Indexes :
       U[t][j] = IF t = at /\ j = i THEN frame ELSE T[t][j]
  /\ \A j \in Indexes : U[frame][j] = NotPresent

GrownBelow(T, U, at, frame, ts) ==
  /\ at \notin ts => Entries(U, ts) = Entries(T, ts)
  /\ at \notin ts => Entries(U, ts \cup {frame}) = Entries(T, ts)
  /\ at \in ts => Entries(U, ts) = Entries(T, ts) \cup {frame}

LEMMA NoTableIs == NoTable = {NotPresent, Large} /\ NoTable \subseteq Int /\ NotPresent # Large
BY DEF NoTable, NotPresent, Large

LEMMA ZeroedIsEmpty == Zeroed \in [Indexes -> Int] /\ \A i \in Indexes : Zeroed[i] = NotPresent
BY DEF Zeroed, NotPresent

LEMMA GrownEntries ==
  ASSUME NEW T, NEW U, NEW at \in DOMAIN T, NEW i \in Indexes, NEW frame \in Int,
         Typed(T), frame \notin DOMAIN T, Grown(T, U, at, i, frame)
  PROVE  GrownReads(T, U, at, i, frame)
<1> USE DEF Typed
<1>1. DOMAIN U = DOMAIN T \cup {frame}
  BY DEF Grown
<1>2. ASSUME NEW t \in DOMAIN T, NEW j \in Indexes
      PROVE  U[t] \in [Indexes -> Int] /\ U[t][j] = IF t = at /\ j = i THEN frame ELSE T[t][j]
  <2>1. U[t] = IF t = at THEN [T[t] EXCEPT ![i] = frame] ELSE T[t]
    BY DEF Grown
  <2>2. QED
    BY <2>1
<1>3. U[frame] = Zeroed
  BY DEF Grown
<1>4. ASSUME NEW t \in DOMAIN U PROVE U[t] \in [Indexes -> Int]
  <2>1. CASE t = frame
    BY <1>3, <2>1, ZeroedIsEmpty
  <2>2. CASE t \in DOMAIN T
    <3>1. U[t] = IF t = at THEN [T[t] EXCEPT ![i] = frame] ELSE T[t]
      BY <2>2 DEF Grown
    <3>2. T[t] \in [Indexes -> Int]
      BY <2>2
    <3>3. QED
      BY <3>1, <3>2
  <2>3. QED
    BY <1>1, <2>1, <2>2
<1>5. U \in [DOMAIN U -> [Indexes -> Int]]
  <2>1. U = [t \in DOMAIN U |-> U[t]]
    BY DEF Grown
  <2>2. QED
    BY <1>4, <2>1
<1>6. QED
  BY <1>1, <1>2, <1>3, <1>5, ZeroedIsEmpty DEF GrownReads

LEMMA BelowGrown ==
  ASSUME NEW T, NEW U, NEW at, NEW i \in Indexes, NEW frame \in Int, NEW ts,
         at \in DOMAIN T, ts \subseteq DOMAIN T, T[at][i] = NotPresent, frame \notin NoTable,
         GrownReads(T, U, at, i, frame)
  PROVE  GrownBelow(T, U, at, frame, ts)
<1>1. /\ \A t \in DOMAIN T, j \in Indexes :
           U[t][j] = IF t = at /\ j = i THEN frame ELSE T[t][j]
      /\ \A j \in Indexes : U[frame][j] = NotPresent
  BY DEF GrownReads
<1>2. ASSUME at \notin ts PROVE Entries(U, ts) = Entries(T, ts)
  <2>1. \A t \in ts, j \in Indexes : U[t][j] = T[t][j]
    BY <1>1, <1>2
  <2>2. QED
    BY <2>1 DEF Entries
<1>3. ASSUME at \notin ts PROVE Entries(U, ts \cup {frame}) = Entries(T, ts)
  <2>1. Entries(U, ts \cup {frame}) = Entries(U, ts)
    BY <1>1, NoTableIs DEF Entries
  <2>2. QED
    BY <1>2, <1>3, <2>1
<1>4. ASSUME at \in ts PROVE Entries(U, ts) = Entries(T, ts) \cup {frame}
  <2>1. \A t \in ts, j \in Indexes : (t # at \/ j # i) => U[t][j] = T[t][j]
    BY <1>1
  <2>2. U[at][i] = frame
    BY <1>1
  <2>3. ASSUME NEW e \in Entries(U, ts) PROVE e \in Entries(T, ts) \cup {frame}
    BY <2>1, <2>2 DEF Entries
  <2>4. ASSUME NEW e \in Entries(T, ts) PROVE e \in Entries(U, ts)
    <3>1. PICK t \in ts, j \in Indexes : e = T[t][j] /\ e \notin NoTable
      BY DEF Entries
    <3>2. U[t][j] = T[t][j]
      BY <2>1, <3>1, NoTableIs
    <3>3. QED
      BY <3>1, <3>2 DEF Entries
  <2>5. frame \in Entries(U, ts)
    BY <1>4, <2>2 DEF Entries
  <2>6. QED
    BY <2>3, <2>4, <2>5
<1>5. QED
  BY <1>2, <1>3, <1>4 DEF GrownBelow

(* The new table is on the level below the one it hangs on, and nothing    *)
(* else moves.                                                             *)
LEMMA GrownLevels ==
  ASSUME NEW T, NEW U, NEW at, NEW i \in Indexes, NEW frame \in Int,
         Tree(T), at \in DOMAIN T, at \notin First(T),
         T[at][i] = NotPresent, frame \notin NoTable, GrownReads(T, U, at, i, frame)
  PROVE  /\ Third(U) = IF at \in Roots THEN Third(T) \cup {frame} ELSE Third(T)
         /\ Second(U) = IF at \in Third(T) THEN Second(T) \cup {frame} ELSE Second(T)
         /\ First(U) = IF at \in Second(T) THEN First(T) \cup {frame} ELSE First(T)
<1>1. /\ Roots \subseteq DOMAIN T /\ Third(T) \subseteq DOMAIN T /\ Second(T) \subseteq DOMAIN T
      /\ Roots \cap Third(T) = {} /\ Roots \cap Second(T) = {} /\ Third(T) \cap Second(T) = {}
      /\ at \in Roots \cup Third(T) \cup Second(T)
  BY DEF Tree
<1>2. GrownBelow(T, U, at, frame, Roots)
  BY <1>1, BelowGrown
<1>3. GrownBelow(T, U, at, frame, Third(T))
  BY <1>1, BelowGrown
<1>4. GrownBelow(T, U, at, frame, Second(T))
  BY <1>1, BelowGrown
<1>5. Third(U) = IF at \in Roots THEN Third(T) \cup {frame} ELSE Third(T)
  BY <1>2 DEF GrownBelow, Third
<1>6. Second(U) = IF at \in Third(T) THEN Second(T) \cup {frame} ELSE Second(T)
  <2>1. Second(U) = Entries(U, Third(U)) /\ Second(T) = Entries(T, Third(T))
    BY DEF Second
  <2>2. QED
    BY <1>1, <1>3, <1>5, <2>1 DEF GrownBelow
<1>7. First(U) = IF at \in Second(T) THEN First(T) \cup {frame} ELSE First(T)
  <2>1. First(U) = Entries(U, Second(U)) /\ First(T) = Entries(T, Second(T))
    BY DEF First
  <2>2. QED
    BY <1>1, <1>4, <1>6, <2>1 DEF GrownBelow
<1>8. QED
  BY <1>5, <1>6, <1>7

LEMMA GrownTree ==
  ASSUME NEW T, NEW U, NEW at, NEW i \in Indexes, NEW frame \in Int,
         Tree(T), OneParent(T), at \in DOMAIN T, frame \notin DOMAIN T, at \notin First(T),
         T[at][i] = NotPresent, frame \notin NoTable, GrownReads(T, U, at, i, frame)
  PROVE  Tree(U) /\ OneParent(U)
<1>2. /\ Typed(U)
      /\ DOMAIN U = DOMAIN T \cup {frame}
      /\ \A t \in DOMAIN T, j \in Indexes :
           U[t][j] = IF t = at /\ j = i THEN frame ELSE T[t][j]
      /\ \A j \in Indexes : U[frame][j] = NotPresent
  BY DEF GrownReads
<1>3. /\ Third(U) = IF at \in Roots THEN Third(T) \cup {frame} ELSE Third(T)
      /\ Second(U) = IF at \in Third(T) THEN Second(T) \cup {frame} ELSE Second(T)
      /\ First(U) = IF at \in Second(T) THEN First(T) \cup {frame} ELSE First(T)
  BY GrownLevels
<1>4. Tree(U)
  BY <1>2, <1>3 DEF Tree
<1>5. OneParent(U)
  <2> SUFFICES ASSUME NEW a \in DOMAIN U \ First(U), NEW b \in DOMAIN U \ First(U),
                      NEW k \in Indexes, NEW l \in Indexes,
                      U[a][k] = U[b][l], U[a][k] \notin NoTable
               PROVE  (a = b /\ k = l) \/ BothDoubled(a, b, k, l)
    BY DEF OneParent
  <2>1. a \in DOMAIN T \ First(T) /\ b \in DOMAIN T \ First(T)
    BY <1>2, <1>3, NoTableIs
  <2>2. ASSUME NEW c \in DOMAIN T \ First(T), NEW m \in Indexes
        PROVE  T[c][m] # frame
    <3>1. CASE T[c][m] \in NoTable
      BY <3>1
    <3>2. CASE T[c][m] \notin NoTable
      <4>1. c \in Roots \cup Third(T) \cup Second(T)
        BY DEF Tree
      <4>2. T[c][m] \in Third(T) \cup Second(T) \cup First(T)
        BY <3>2, <4>1 DEF Third, Second, First, Entries
      <4>3. QED
        BY <4>2 DEF Tree
    <3>3. QED
      BY <3>1, <3>2
  <2>3. /\ U[a][k] = IF a = at /\ k = i THEN frame ELSE T[a][k]
        /\ U[b][l] = IF b = at /\ l = i THEN frame ELSE T[b][l]
    BY <1>2, <2>1
  <2>4. T[a][k] # frame /\ T[b][l] # frame
    BY <2>1, <2>2
  <2>5. CASE (a = at /\ k = i) \/ (b = at /\ l = i)
    BY <2>3, <2>4, <2>5
  <2>6. CASE ~(a = at /\ k = i) /\ ~(b = at /\ l = i)
    <3>1. T[a][k] = T[b][l] /\ T[a][k] \notin NoTable
      BY <2>3, <2>6
    <3>2. QED
      BY <2>1, <3>1 DEF OneParent
  <2>7. QED
    BY <2>5, <2>6
<1>6. QED
  BY <1>4, <1>5

(* Changing an entry that maps a page leaves the tree alone.               *)
LeafReads(T, U, at, i, v) ==
  /\ Tree(U) /\ OneParent(U) /\ SameLevels(T, U) /\ DOMAIN U = DOMAIN T
  /\ \A t \in DOMAIN T, j \in Indexes :
       U[t][j] = IF t = at /\ j = i THEN v ELSE T[t][j]

LEMMA LeafChange ==
  ASSUME NEW T, NEW U, NEW at \in First(T), NEW i \in Indexes, NEW v \in Int,
         Tree(T), OneParent(T), U = [T EXCEPT ![at][i] = v]
  PROVE  LeafReads(T, U, at, i, v)
<1>1. at \in DOMAIN T /\ T \in [DOMAIN T -> [Indexes -> Int]]
  BY DEF Tree, Typed
<1>2. /\ U \in [DOMAIN U -> [Indexes -> Int]]
      /\ DOMAIN U = DOMAIN T
      /\ \A t \in DOMAIN T, j \in Indexes :
           U[t][j] = IF t = at /\ j = i THEN v ELSE T[t][j]
  BY <1>1
<1>3. \A t \in DOMAIN T \ First(T), j \in Indexes : U[t][j] = T[t][j]
  BY <1>2
<1>4. Third(U) = Third(T)
  <2>1. Roots \subseteq DOMAIN T \ First(T)
    BY DEF Tree
  <2>2. QED
    BY <1>3, <2>1 DEF Third, Entries
<1>5. Second(U) = Second(T)
  <2>1. Third(T) \subseteq DOMAIN T \ First(T)
    BY DEF Tree
  <2>2. Entries(U, Third(T)) = Entries(T, Third(T))
    BY <1>3, <2>1 DEF Entries
  <2>3. QED
    BY <1>4, <2>2 DEF Second
<1>6. First(U) = First(T)
  <2>1. Second(T) \subseteq DOMAIN T \ First(T)
    BY DEF Tree
  <2>2. Entries(U, Second(T)) = Entries(T, Second(T))
    BY <1>3, <2>1 DEF Entries
  <2>3. QED
    BY <1>5, <2>2 DEF First
<1>7. Tree(U)
  BY <1>2, <1>4, <1>5, <1>6 DEF Tree, Typed
<1>8. OneParent(U)
  BY <1>2, <1>3, <1>6 DEF OneParent
<1>9. QED
  BY <1>2, <1>4, <1>5, <1>6, <1>7, <1>8 DEF SameLevels, LeafReads

(* No step makes a large page or takes one away.                           *)
LEMMA GrownLarge ==
  ASSUME NEW T, NEW U, NEW at, NEW i \in Indexes, NEW frame \in Int,
         Tree(T), LargeKept(T), at \in DOMAIN T, at \notin First(T), frame \notin DOMAIN T,
         T[at][i] = NotPresent, frame \notin NoTable, GrownReads(T, U, at, i, frame)
  PROVE  LargeKept(U)
<1>1. /\ DOMAIN U = DOMAIN T \cup {frame}
      /\ \A t \in DOMAIN T, j \in Indexes :
           U[t][j] = IF t = at /\ j = i THEN frame ELSE T[t][j]
      /\ \A j \in Indexes : U[frame][j] = NotPresent
  BY DEF GrownReads
<1>2. Second(T) \subseteq Second(U) /\ Second(T) \subseteq DOMAIN T
  <2>1. Second(U) = IF at \in Third(T) THEN Second(T) \cup {frame} ELSE Second(T)
    BY GrownLevels
  <2>2. QED
    BY <2>1 DEF Tree
<1>3. ASSUME NEW t \in DOMAIN T, NEW j \in Indexes
      PROVE  U[t][j] = Large <=> t \in Pml2Tables
  <2>1. T[t][j] = Large <=> t \in Pml2Tables
    BY DEF LargeKept
  <2>2. CASE t = at /\ j = i
    BY <1>1, <2>1, <2>2, NoTableIs
  <2>3. CASE ~(t = at /\ j = i)
    BY <1>1, <2>1, <2>3
  <2>4. QED
    BY <2>2, <2>3
<1>4. frame \notin Pml2Tables
  BY <1>2 DEF LargeKept
<1>5. QED
  BY <1>1, <1>2, <1>3, <1>4, NoTableIs DEF LargeKept

LEMMA LeafLarge ==
  ASSUME NEW T, NEW U, NEW at \in First(T), NEW i \in Indexes, NEW v \in Int,
         Tree(T), LargeKept(T), v # Large, LeafReads(T, U, at, i, v)
  PROVE  LargeKept(U)
<1>1. /\ SameLevels(T, U) /\ DOMAIN U = DOMAIN T
      /\ \A t \in DOMAIN T, j \in Indexes :
           U[t][j] = IF t = at /\ j = i THEN v ELSE T[t][j]
  BY DEF LeafReads
<1>2. at \notin Pml2Tables
  BY DEF LargeKept, Tree
<1>3. QED
  BY <1>1, <1>2 DEF LargeKept, SameLevels

-----------------------------------------------------------------------------
(* Walks down the tables T, as the processor and vm_map_page take them.    *)

Paths == [1..4 -> Indexes]

Step(T, t, i) == IF t \in NoTable THEN t ELSE T[t][i]

WalkTo(T, r, p, l) ==
  IF l = 4 THEN r
  ELSE IF l = 3 THEN Step(T, r, p[1])
  ELSE IF l = 2 THEN Step(T, Step(T, r, p[1]), p[2])
  ELSE Step(T, Step(T, Step(T, r, p[1]), p[2]), p[3])

Reached(T, r, p) == Step(T, WalkTo(T, r, p, 1), p[4])

Level(T, l) ==
  IF l = 4 THEN Roots ELSE IF l = 3 THEN Third(T) ELSE IF l = 2 THEN Second(T) ELSE First(T)

LEMMA WalkNext ==
  ASSUME NEW T, NEW r, NEW p, NEW l \in 2..4
  PROVE  WalkTo(T, r, p, l - 1) = Step(T, WalkTo(T, r, p, l), p[5 - l])
<1>1. CASE l = 4
  BY <1>1 DEF WalkTo
<1>2. CASE l = 3
  BY <1>2 DEF WalkTo
<1>3. CASE l = 2
  BY <1>3 DEF WalkTo
<1>4. QED
  BY <1>1, <1>2, <1>3

LEMMA StepDown ==
  ASSUME NEW T, NEW ts, NEW t \in ts \cup NoTable, NEW i \in Indexes
  PROVE  Step(T, t, i) \in Entries(T, ts) \cup NoTable
BY DEF Step, Entries

(* A walk is at each level on a table of that level, or has ended.         *)
LEMMA WalkLevel ==
  ASSUME NEW T, NEW r \in Roots, NEW p \in Paths, NEW l \in 1..4
  PROVE  WalkTo(T, r, p, l) \in Level(T, l) \cup NoTable
<1>1. p[1] \in Indexes /\ p[2] \in Indexes /\ p[3] \in Indexes
  BY DEF Paths
<1>2. Step(T, r, p[1]) \in Third(T) \cup NoTable
  BY <1>1, StepDown DEF Third
<1>3. Step(T, Step(T, r, p[1]), p[2]) \in Second(T) \cup NoTable
  BY <1>1, <1>2, StepDown DEF Second
<1>4. Step(T, Step(T, Step(T, r, p[1]), p[2]), p[3]) \in First(T) \cup NoTable
  BY <1>1, <1>3, StepDown DEF First
<1>5. QED
  BY <1>2, <1>3, <1>4 DEF WalkTo, Level

LEMMA LevelsApart ==
  ASSUME NEW T, Tree(T), NEW l \in 1..4
  PROVE  /\ Level(T, l) \subseteq DOMAIN T
         /\ l > 1 => Level(T, l) \cap First(T) = {}
         /\ l \in 2..3 => Level(T, l) \cap Roots = {}
         /\ NoTable \cap Level(T, l) = {}
BY DEF Level, Tree

(* Two walks that meet have come the same way, or through two entries for  *)
(* the one PML3 of boot.asm.                                               *)
LEMMA StepUnique ==
  ASSUME NEW T, OneParent(T), NEW a, NEW b, NEW i \in Indexes, NEW j \in Indexes,
         a \in (DOMAIN T \ First(T)) \cup NoTable,
         b \in (DOMAIN T \ First(T)) \cup NoTable,
         Step(T, a, i) = Step(T, b, j), Step(T, a, i) \notin NoTable
  PROVE  a \notin NoTable /\ b \notin NoTable /\ ((a = b /\ i = j) \/ BothDoubled(a, b, i, j))
<1>1. a \notin NoTable /\ b \notin NoTable /\ T[a][i] = T[b][j] /\ T[a][i] \notin NoTable
  BY DEF Step
<1>2. QED
  BY <1>1 DEF OneParent

SameWalk(r, p, s, q) ==
  /\ p[2] = q[2] /\ p[3] = q[3]
  /\ (r = s /\ p[1] = q[1]) \/ {p[1], q[1]} \subseteq Doubled

LEMMA WalkUnique ==
  ASSUME NEW T, Tree(T), OneParent(T), NEW r \in Roots, NEW s \in Roots,
         NEW p \in Paths, NEW q \in Paths,
         WalkTo(T, r, p, 1) = WalkTo(T, s, q, 1), WalkTo(T, r, p, 1) \notin NoTable
  PROVE  SameWalk(r, p, s, q)
<1> DEFINE Upper == (DOMAIN T \ First(T)) \cup NoTable
<1>1. ASSUME NEW x \in Roots, NEW y \in Paths, NEW l \in 2..4
      PROVE  /\ WalkTo(T, x, y, l) \in Upper
             /\ l \in 2..3 /\ WalkTo(T, x, y, l) \notin NoTable =>
                  WalkTo(T, x, y, l) \notin Roots
  BY WalkLevel, LevelsApart
<1>2. ASSUME NEW l \in 2..4,
             WalkTo(T, r, p, l - 1) = WalkTo(T, s, q, l - 1),
             WalkTo(T, r, p, l - 1) \notin NoTable
      PROVE  /\ WalkTo(T, r, p, l) \notin NoTable
             /\ \/ WalkTo(T, r, p, l) = WalkTo(T, s, q, l) /\ p[5 - l] = q[5 - l]
                \/ BothDoubled(WalkTo(T, r, p, l), WalkTo(T, s, q, l), p[5 - l], q[5 - l])
  <2>1. p[5 - l] \in Indexes /\ q[5 - l] \in Indexes
    BY DEF Paths
  <2>2. /\ WalkTo(T, r, p, l - 1) = Step(T, WalkTo(T, r, p, l), p[5 - l])
        /\ WalkTo(T, s, q, l - 1) = Step(T, WalkTo(T, s, q, l), q[5 - l])
    BY WalkNext
  <2>3. WalkTo(T, r, p, l) \in Upper /\ WalkTo(T, s, q, l) \in Upper
    BY <1>1
  <2>4. ASSUME NEW a \in Upper, NEW b \in Upper, NEW i \in Indexes, NEW j \in Indexes,
               Step(T, a, i) = Step(T, b, j), Step(T, a, i) \notin NoTable
        PROVE  a \notin NoTable /\ ((a = b /\ i = j) \/ BothDoubled(a, b, i, j))
    BY <2>4, StepUnique
  <2> HIDE DEF Upper
  <2>5. QED
    BY <1>2, <2>1, <2>2, <2>3, <2>4
<1>3. /\ WalkTo(T, r, p, 2) = WalkTo(T, s, q, 2) /\ p[3] = q[3]
      /\ WalkTo(T, r, p, 2) \notin NoTable
  <2>1. 2 \in 2..4 /\ 2 \in 2..3 /\ 2 - 1 = 1 /\ 5 - 2 = 3
    OBVIOUS
  <2>2. QED
    BY <1>1, <1>2, <2>1 DEF BothDoubled
<1>4. /\ WalkTo(T, r, p, 3) = WalkTo(T, s, q, 3) /\ p[2] = q[2]
      /\ WalkTo(T, r, p, 3) \notin NoTable
  <2>1. 3 \in 2..4 /\ 3 \in 2..3 /\ 3 - 1 = 2 /\ 5 - 3 = 2
    OBVIOUS
  <2>2. QED
    BY <1>1, <1>2, <1>3, <2>1 DEF BothDoubled
<1>5. (r = s /\ p[1] = q[1]) \/ {p[1], q[1]} \subseteq Doubled
  <2>1. 4 \in 2..4 /\ 4 - 1 = 3 /\ 5 - 4 = 1
    OBVIOUS
  <2>2. \/ WalkTo(T, r, p, 4) = WalkTo(T, s, q, 4) /\ p[1] = q[1]
        \/ BothDoubled(WalkTo(T, r, p, 4), WalkTo(T, s, q, 4), p[1], q[1])
    BY <1>2, <1>4, <2>1
  <2>3. QED
    BY <2>2 DEF WalkTo, BothDoubled
<1>6. QED
  BY <1>3, <1>4, <1>5 DEF SameWalk

(* A walk over the tables with the new one goes as before, but for the     *)
(* step onto it, where the walk ended.                                     *)
Follows(x, y, frame) == x = y \/ (x = frame /\ y = NotPresent)

LEMMA GrownStep ==
  ASSUME NEW T, NEW U, NEW at, NEW i \in Indexes, NEW frame \in Int,
         GrownReads(T, U, at, i, frame), T[at][i] = NotPresent, frame \notin NoTable,
         NEW x, NEW y \in DOMAIN T \cup NoTable, Follows(x, y, frame), NEW j \in Indexes
  PROVE  Follows(Step(U, x, j), Step(T, y, j), frame)
<1>1. /\ \A t \in DOMAIN T, k \in Indexes :
           U[t][k] = IF t = at /\ k = i THEN frame ELSE T[t][k]
      /\ \A k \in Indexes : U[frame][k] = NotPresent
  BY DEF GrownReads
<1>2. CASE y \in NoTable
  BY <1>1, <1>2, NoTableIs DEF Follows, Step
<1>3. CASE y \notin NoTable
  BY <1>1, <1>3, NoTableIs DEF Follows, Step
<1>4. QED
  BY <1>2, <1>3

LEMMA GrownWalk ==
  ASSUME NEW T, NEW U, NEW at, NEW i \in Indexes, NEW frame \in Int,
         Tree(T), GrownReads(T, U, at, i, frame), T[at][i] = NotPresent,
         frame \notin NoTable, at \notin First(T), at \notin NoTable,
         NEW r \in Roots, NEW p \in Paths
  PROVE  /\ \A l \in 1..4 : Follows(WalkTo(U, r, p, l), WalkTo(T, r, p, l), frame)
         /\ Reached(U, r, p) = Reached(T, r, p)
<1> DEFINE F(l) == Follows(WalkTo(U, r, p, l), WalkTo(T, r, p, l), frame)
<1>1. \A n \in 1..4 : p[n] \in Indexes
  BY DEF Paths
<1>2. \A l \in 1..4 : WalkTo(T, r, p, l) \in DOMAIN T \cup NoTable
  BY WalkLevel, LevelsApart
<1>3. ASSUME NEW l \in 2..4, F(l) PROVE F(l - 1)
  <2>1. p[5 - l] \in Indexes
    BY <1>1
  <2>2. /\ WalkTo(U, r, p, l - 1) = Step(U, WalkTo(U, r, p, l), p[5 - l])
        /\ WalkTo(T, r, p, l - 1) = Step(T, WalkTo(T, r, p, l), p[5 - l])
    BY WalkNext
  <2>3. WalkTo(T, r, p, l) \in DOMAIN T \cup NoTable
    BY <1>2
  <2>4. QED
    BY <1>3, <2>1, <2>2, <2>3, GrownStep
<1>4. F(4)
  BY DEF WalkTo, Follows
<1> HIDE DEF F
<1>5. F(3) /\ F(2) /\ F(1)
  <2>1. F(4 - 1)
    BY <1>3, <1>4
  <2>2. F(3 - 1)
    BY <1>3, <2>1
  <2>3. F(2 - 1)
    BY <1>3, <2>2
  <2>4. QED
    BY <2>1, <2>2, <2>3
<1>6. \A l \in 1..4 : F(l)
  BY <1>4, <1>5
<1>7. Reached(U, r, p) = Reached(T, r, p)
  <2>1. WalkTo(T, r, p, 1) # at
    <3>1. WalkTo(T, r, p, 1) \in Level(T, 1) \cup NoTable
      BY WalkLevel
    <3>2. QED
      BY <3>1 DEF Level
  <2>2. WalkTo(T, r, p, 1) \in DOMAIN T \cup NoTable /\ p[4] \in Indexes
    BY <1>1, <1>2
  <2>3. Follows(WalkTo(U, r, p, 1), WalkTo(T, r, p, 1), frame)
    BY <1>5 DEF F
  <2>4. CASE WalkTo(T, r, p, 1) \in NoTable
    BY <2>2, <2>3, <2>4, NoTableIs DEF Reached, Step, Follows, GrownReads
  <2>5. CASE WalkTo(T, r, p, 1) \notin NoTable
    BY <2>1, <2>2, <2>3, <2>5, NoTableIs DEF Reached, Step, Follows, GrownReads
  <2>6. QED
    BY <2>4, <2>5
<1>8. QED
  BY <1>6, <1>7 DEF F

(* Changing the entry of a page changes what walks to that entry reach.    *)
LEMMA LeafWalk ==
  ASSUME NEW T, NEW U, NEW at \in First(T), NEW i \in Indexes, NEW v \in Int,
         Tree(T), LeafReads(T, U, at, i, v), NEW r \in Roots, NEW p \in Paths
  PROVE  /\ \A l \in 1..4 : WalkTo(U, r, p, l) = WalkTo(T, r, p, l)
         /\ Reached(U, r, p) = IF WalkTo(T, r, p, 1) = at /\ p[4] = i THEN v
                               ELSE Reached(T, r, p)
<1>1. \A t \in DOMAIN T, j \in Indexes :
        U[t][j] = IF t = at /\ j = i THEN v ELSE T[t][j]
  BY DEF LeafReads
<1>2. \A n \in 1..4 : p[n] \in Indexes
  BY DEF Paths
<1>3. \A l \in 1..4 : WalkTo(T, r, p, l) \in Level(T, l) \cup NoTable
  BY WalkLevel
<1>4. at \notin NoTable
  BY DEF Tree
<1>5. ASSUME NEW l \in 2..4, WalkTo(U, r, p, l) = WalkTo(T, r, p, l)
      PROVE  WalkTo(U, r, p, l - 1) = WalkTo(T, r, p, l - 1)
  <2>1. /\ WalkTo(U, r, p, l - 1) = Step(U, WalkTo(U, r, p, l), p[5 - l])
        /\ WalkTo(T, r, p, l - 1) = Step(T, WalkTo(T, r, p, l), p[5 - l])
    BY WalkNext
  <2>2. WalkTo(T, r, p, l) # at /\ WalkTo(T, r, p, l) \in DOMAIN T \cup NoTable
    BY <1>3, <1>4, LevelsApart
  <2>3. p[5 - l] \in Indexes
    BY <1>2
  <2>4. QED
    BY <1>1, <1>5, <2>1, <2>2, <2>3 DEF Step
<1>6. WalkTo(U, r, p, 4) = WalkTo(T, r, p, 4)
  BY DEF WalkTo
<1>7. WalkTo(U, r, p, 3) = WalkTo(T, r, p, 3)
  BY <1>5, <1>6, 4 - 1 = 3, 4 \in 2..4
<1>8. WalkTo(U, r, p, 2) = WalkTo(T, r, p, 2)
  BY <1>5, <1>7, 3 - 1 = 2, 3 \in 2..4
<1>9. WalkTo(U, r, p, 1) = WalkTo(T, r, p, 1)
  BY <1>5, <1>8, 2 - 1 = 1, 2 \in 2..4
<1>10. Reached(U, r, p) = IF WalkTo(T, r, p, 1) = at /\ p[4] = i THEN v
                          ELSE Reached(T, r, p)
  <2>1. WalkTo(T, r, p, 1) \in DOMAIN T \cup NoTable /\ p[4] \in Indexes
    BY <1>2, <1>3, LevelsApart
  <2>2. QED
    BY <1>1, <1>4, <1>9, <2>1 DEF Reached, Step
<1>11. QED
  BY <1>6, <1>7, <1>8, <1>9, <1>10

-----------------------------------------------------------------------------
(* Tables, pages and free frames are apart: of the frames, used are those  *)
(* in use.                                                                 *)

Leaves(T) == Entries(T, First(T))

LeavesOnce(T) ==
  \A a, b \in First(T), i, j \in Indexes :
    T[a][i] = T[b][j] /\ T[a][i] \in Frames => a = b /\ i = j

Apart(T, used) ==
  /\ DOMAIN T \subseteq used
  /\ \A e \in Leaves(T) : e \notin DOMAIN T /\ (e \in Frames => e \in used)
  /\ LeavesOnce(T)

LEMMA ApartMove ==
  ASSUME NEW T, NEW used, NEW now, Apart(T, used), DOMAIN T \subseteq Frames,
         \A e \in Frames : e \in DOMAIN T \cup Leaves(T) /\ e \in used => e \in now
  PROVE  Apart(T, now)
BY DEF Apart

LEMMA GrownApart ==
  ASSUME NEW T, NEW U, NEW at, NEW i \in Indexes, NEW frame \in Int, NEW used,
         Tree(T), Apart(T, used), at \in DOMAIN T, at \notin First(T), frame \in Frames,
         frame \notin used, T[at][i] = NotPresent, frame \notin NoTable,
         GrownReads(T, U, at, i, frame)
  PROVE  Apart(U, used \cup {frame}) /\ Leaves(U) = Leaves(T)
<1>1. First(U) = First(T) \/ First(U) = First(T) \cup {frame}
  <2>1. First(U) = IF at \in Second(T) THEN First(T) \cup {frame} ELSE First(T)
    BY GrownLevels
  <2>2. QED
    BY ONLY <2>1
<1>2. First(T) \subseteq DOMAIN T /\ frame \notin DOMAIN T
  BY DEF Tree, Apart
<1>3. GrownBelow(T, U, at, frame, First(T))
  BY <1>2, BelowGrown
<1>4. Leaves(U) = Leaves(T)
  BY <1>1, <1>3 DEF Leaves, GrownBelow
<1>5. /\ DOMAIN U = DOMAIN T \cup {frame}
      /\ \A t \in First(T), j \in Indexes : U[t][j] = T[t][j]
      /\ \A j \in Indexes : U[frame][j] = NotPresent
  BY <1>2 DEF GrownReads
<1>6. NotPresent \notin Frames
  BY DEF NotPresent, Frames
<1>7. \A e \in Leaves(U) : e \notin DOMAIN U /\ (e \in Frames => e \in used \cup {frame})
  BY <1>4, <1>5 DEF Apart
<1>8. ASSUME NEW a \in First(U), NEW b \in First(U), NEW k \in Indexes, NEW l \in Indexes,
             U[a][k] = U[b][l], U[a][k] \in Frames
      PROVE  a = b /\ k = l
  <2>1. a \in First(T) /\ b \in First(T)
    BY <1>1, <1>5, <1>6, <1>8
  <2>2. T[a][k] = T[b][l] /\ T[a][k] \in Frames
    BY <1>5, <1>8, <2>1
  <2>3. QED
    BY <2>1, <2>2 DEF Apart, LeavesOnce
<1>9. DOMAIN U \subseteq used \cup {frame}
  BY <1>5 DEF Apart
<1>10. QED
  BY <1>4, <1>7, <1>8, <1>9 DEF Apart, LeavesOnce

(* An entry may be set to a page without a frame, or to a frame in use     *)
(* that nothing maps.                                                      *)
LEMMA LeafApart ==
  ASSUME NEW T, NEW U, NEW at \in First(T), NEW i \in Indexes, NEW v \in Int, NEW used,
         Tree(T), Apart(T, used), LeafReads(T, U, at, i, v),
         v \notin NoTable => v \notin DOMAIN T,
         v \in Frames => v \in used /\ v \notin Leaves(T)
  PROVE  /\ Apart(U, used)
         /\ T[at][i] \in Frames /\ v = NotPresent => Apart(U, used \ {T[at][i]})
<1>1. /\ SameLevels(T, U) /\ DOMAIN U = DOMAIN T
      /\ \A t \in DOMAIN T, j \in Indexes :
           U[t][j] = IF t = at /\ j = i THEN v ELSE T[t][j]
  BY DEF LeafReads
<1>2. First(U) = First(T) /\ First(T) \subseteq DOMAIN T
  BY <1>1 DEF SameLevels, Tree
<1>3. ASSUME NEW e \in Leaves(U) PROVE e = v \/ e \in Leaves(T)
  BY <1>1, <1>2 DEF Leaves, Entries
<1>4. \A e \in Leaves(U) : e \notin DOMAIN U /\ (e \in Frames => e \in used)
  <2>1. ASSUME NEW e \in Leaves(U) PROVE e \notin NoTable
    BY DEF Leaves, Entries
  <2>2. QED
    BY <1>1, <1>3, <2>1 DEF Apart
<1>5. NoTable \cap Frames = {} /\ NotPresent \in NoTable
  BY NoTableIs DEF NoTable, NotPresent, Large, Frames
<1>6. ASSUME NEW a \in First(U), NEW b \in First(U), NEW k \in Indexes, NEW l \in Indexes,
             U[a][k] = U[b][l], U[a][k] \in Frames
      PROVE  a = b /\ k = l
  <2>1. /\ a \in First(T) /\ b \in First(T)
        /\ U[a][k] = IF a = at /\ k = i THEN v ELSE T[a][k]
        /\ U[b][l] = IF b = at /\ l = i THEN v ELSE T[b][l]
    BY <1>1, <1>2
  <2>2. ASSUME NEW c \in First(T), NEW m \in Indexes, T[c][m] \in Frames
        PROVE  T[c][m] \in Leaves(T)
    BY <1>5, <2>2 DEF Leaves, Entries
  <2>3. CASE (a = at /\ k = i) /\ ~(b = at /\ l = i)
    BY <1>6, <2>1, <2>2, <2>3
  <2>4. CASE (b = at /\ l = i) /\ ~(a = at /\ k = i)
    BY <1>6, <2>1, <2>2, <2>4
  <2>5. CASE ~(a = at /\ k = i) /\ ~(b = at /\ l = i)
    <3>1. T[a][k] = T[b][l] /\ T[a][k] \in Frames
      BY <1>6, <2>1, <2>5
    <3>2. QED
      BY <2>1, <3>1 DEF Apart, LeavesOnce
  <2>6. QED
    BY <2>3, <2>4, <2>5
<1>7. Apart(U, used)
  <2>1. DOMAIN U \subseteq used
    BY <1>1 DEF Apart
  <2>2. LeavesOnce(U)
    BY <1>6 DEF LeavesOnce
  <2>3. QED
    BY <1>4, <2>1, <2>2 DEF Apart
<1>8. ASSUME T[at][i] \in Frames, v = NotPresent
      PROVE  Apart(U, used \ {T[at][i]})
  <2>1. T[at][i] \in Leaves(T) /\ T[at][i] \notin DOMAIN T
    BY <1>5, <1>8 DEF Leaves, Entries, Apart
  <2>2. ASSUME NEW e \in Leaves(U) PROVE e # T[at][i]
    <3>1. PICK a \in First(U), k \in Indexes : e = U[a][k] /\ e \notin NoTable
      BY DEF Leaves, Entries
    <3>2. ~(a = at /\ k = i) /\ a \in First(T) /\ e = T[a][k]
      BY <1>1, <1>2, <1>5, <1>8, <3>1
    <3>3. QED
      BY <1>8, <3>2 DEF Apart, LeavesOnce
  <2>3. DOMAIN U \subseteq used \ {T[at][i]}
    BY <1>1, <2>1 DEF Apart
  <2>4. LeavesOnce(U)
    BY <1>6 DEF LeavesOnce
  <2>5. QED
    BY <1>4, <2>2, <2>3, <2>4 DEF Apart
<1>9. QED
  BY <1>7, <1>8

-----------------------------------------------------------------------------
(* The call in progress, over tables T with root as PML4.                  *)

Requests == [page : Pages, physical : Int]

CallSet ==
  [fn : {"vm_map_page", "vm_unmap_page"}, todo : Seq(Requests), present : BOOLEAN,
   level : 1..4, at : Int]

MayMap(T, used, len, physical) ==
  \/ physical \in Devices
  \/ len = 1 /\ physical \in used /\ physical \notin DOMAIN T \cup Leaves(T)

CallOK(c, T, root, used) ==
  \/ c \in {Idle, Lost}
  \/ /\ c \in CallSet /\ c.todo # <<>>
     /\ c.at = WalkTo(T, root, Head(c.todo).page, c.level)
     /\ c.at \notin NoTable
     /\ c.fn = "vm_map_page" =>
          \A n \in DOMAIN c.todo : MayMap(T, used, Len(c.todo), c.todo[n].physical)

InUse == owned \cup KernelFrames

VmInv ==
  /\ VmFrameInv
  /\ Tree(table) /\ OneParent(table) /\ LargeKept(table) /\ Apart(table, InUse)
  /\ current_pml4 \in Roots
  /\ CallOK(call, table, current_pml4, InUse)
  /\ tlb \subseteq Requests

LEMMA FramesAreNat ==
  Frames \subseteq Nat /\ KernelFrames \subseteq Frames /\ NoTable \cap Frames = {}
BY FrameAssumption DEF Frames, KernelFrames, Skipped, NoTable, NotPresent, Large

(* What the tables of boot.asm hold, level by level.                       *)
BootReads(T) ==
  /\ DOMAIN T = Roots \cup {pml3_table} \cup Pml2Tables
  /\ T \in [DOMAIN T -> [Indexes -> Int]]
  /\ \A t \in Roots, i \in Indexes :
       T[t][i] = IF i \in Doubled THEN pml3_table ELSE NotPresent
  /\ \A i \in Indexes : T[pml3_table][i] =
       IF i + 1 \in DOMAIN pml2_table THEN pml2_table[i + 1] ELSE NotPresent
  /\ \A t \in Pml2Tables, i \in Indexes : T[t][i] = Large

BootFrames ==
  /\ Roots \subseteq KernelFrames /\ pml3_table \in KernelFrames /\ Pml2Tables \subseteq KernelFrames
  /\ pml3_table \notin Roots /\ Pml2Tables \cap Roots = {} /\ pml3_table \notin Pml2Tables

LEMMA BootFramesApart == BootFrames
BY PagingAssumption DEF BootFrames, Pml2Tables

LEMMA BootTables == vm_init => BootReads(table)
<1> SUFFICES ASSUME vm_init PROVE BootReads(table)
  OBVIOUS
<1> DEFINE D == Roots \cup {pml3_table} \cup Pml2Tables
<1>1. table = [t \in D |-> [i \in Indexes |-> BootEntry(t, i)]] /\ DOMAIN table = D
  BY DEF vm_init
<1>2. BootFrames /\ KernelFrames \subseteq Int /\ NotPresent \in Int /\ Large \in Int
  BY BootFramesApart, FramesAreNat DEF NotPresent, Large
<1>3. ASSUME NEW t \in Roots, NEW i \in Indexes
      PROVE  BootEntry(t, i) = IF i \in Doubled THEN pml3_table ELSE NotPresent
  BY <1>2 DEF BootEntry, BootFrames
<1>4. ASSUME NEW i \in Indexes
      PROVE  BootEntry(pml3_table, i) =
               IF i + 1 \in DOMAIN pml2_table THEN pml2_table[i + 1] ELSE NotPresent
  BY <1>2 DEF BootEntry, BootFrames
<1>5. ASSUME NEW t \in Pml2Tables, NEW i \in Indexes PROVE BootEntry(t, i) = Large
  BY <1>2 DEF BootEntry, BootFrames
<1>6. ASSUME NEW t \in D, NEW i \in Indexes PROVE BootEntry(t, i) \in Int
  <2>1. CASE t \in Roots
    BY <1>2, <1>3, <2>1 DEF BootFrames
  <2>2. CASE t = pml3_table
    <3>1. i + 1 \in DOMAIN pml2_table => pml2_table[i + 1] \in Pml2Tables
      BY DEF Pml2Tables
    <3>2. QED
      BY <1>2, <1>4, <2>2, <3>1 DEF BootFrames
  <2>3. CASE t \in Pml2Tables
    BY <1>2, <1>5, <2>3
  <2>4. QED
    BY <2>1, <2>2, <2>3
<1>7. table \in [D -> [Indexes -> Int]]
  BY <1>1, <1>6
<1>8. QED
  BY <1>1, <1>3, <1>4, <1>5, <1>7 DEF BootReads

LEMMA BootLevels ==
  ASSUME NEW T, BootReads(T)
  PROVE  Third(T) = {pml3_table} /\ Second(T) = Pml2Tables /\ First(T) = {} /\ Leaves(T) = {}
<1>1. BootFrames /\ KernelFrames \cap NoTable = {}
  BY BootFramesApart, FramesAreNat
<1>2. Third(T) = {pml3_table}
  <2>1. boot_pml4 \in Roots /\ 0 \in Indexes /\ 0 \in Doubled
    BY PagingAssumption DEF Doubled
  <2>2. T[boot_pml4][0] = pml3_table
    BY <2>1 DEF BootReads
  <2>3. pml3_table \in Third(T)
    BY <1>1, <2>1, <2>2 DEF Third, Entries, BootFrames
  <2>4. \A t \in Roots, i \in Indexes : T[t][i] \in {pml3_table} \cup NoTable
    BY NoTableIs DEF BootReads
  <2>5. QED
    BY <2>3, <2>4 DEF Third, Entries
<1>3. Second(T) = Pml2Tables
  <2>1. Second(T) = {T[pml3_table][i] : i \in Indexes} \ NoTable
    BY <1>2 DEF Second, Entries
  <2>2. ASSUME NEW e \in Second(T) PROVE e \in Pml2Tables
    <3>1. PICK i \in Indexes : e = T[pml3_table][i] /\ e \notin NoTable
      BY <2>1
    <3>2. i + 1 \in DOMAIN pml2_table /\ e = pml2_table[i + 1]
      BY <3>1, NoTableIs DEF BootReads
    <3>3. QED
      BY <3>2 DEF Pml2Tables
  <2>3. ASSUME NEW e \in Pml2Tables PROVE e \in Second(T)
    <3>1. PICK n \in DOMAIN pml2_table : e = pml2_table[n]
      BY DEF Pml2Tables
    <3>2. n - 1 \in Indexes /\ (n - 1) + 1 = n
      BY PagingAssumption
    <3>3. e = T[pml3_table][n - 1]
      BY <3>1, <3>2 DEF BootReads
    <3>4. e \notin NoTable
      BY <1>1 DEF BootFrames
    <3>5. QED
      BY <2>1, <3>2, <3>3, <3>4
  <2>4. QED
    BY <2>2, <2>3
<1>4. First(T) = {}
  BY <1>3, NoTableIs DEF First, Entries, BootReads
<1>5. QED
  BY <1>2, <1>3, <1>4 DEF Leaves, Entries

LEMMA BootOneParent ==
  ASSUME NEW T, BootReads(T)
  PROVE  OneParent(T)
<1> SUFFICES ASSUME NEW a \in DOMAIN T, NEW b \in DOMAIN T, NEW i \in Indexes, NEW j \in Indexes,
                    T[a][i] = T[b][j], T[a][i] \notin NoTable
             PROVE  (a = b /\ i = j) \/ BothDoubled(a, b, i, j)
  BY DEF OneParent
<1>1. BootFrames
  BY BootFramesApart
<1>2. ASSUME NEW t \in DOMAIN T, NEW k \in Indexes, T[t][k] \notin NoTable
      PROVE  \/ t \in Roots /\ k \in Doubled /\ T[t][k] = pml3_table
             \/ /\ t = pml3_table /\ k + 1 \in DOMAIN pml2_table
                /\ T[t][k] = pml2_table[k + 1] /\ T[t][k] \in Pml2Tables
  <2>1. CASE t \in Roots
    BY <1>2, <2>1, NoTableIs DEF BootReads
  <2>2. CASE t = pml3_table
    BY <1>2, <2>2, NoTableIs DEF BootReads, Pml2Tables
  <2>3. CASE t \in Pml2Tables
    BY <1>2, <2>3, NoTableIs DEF BootReads
  <2>4. QED
    BY <2>1, <2>2, <2>3 DEF BootReads
<1>3. CASE T[a][i] = pml3_table
  <2>1. T[a][i] \notin Pml2Tables /\ T[b][j] \notin Pml2Tables
    BY <1>1, <1>3 DEF BootFrames
  <2>2. a \in Roots /\ i \in Doubled
    BY <1>2, <2>1
  <2>3. b \in Roots /\ j \in Doubled
    BY <1>2, <2>1
  <2>4. QED
    BY ONLY <2>2, <2>3 DEF BothDoubled
<1>4. CASE T[a][i] # pml3_table
  <2>1. /\ a = pml3_table /\ b = pml3_table
        /\ i + 1 \in DOMAIN pml2_table /\ j + 1 \in DOMAIN pml2_table
        /\ pml2_table[i + 1] = pml2_table[j + 1]
    BY <1>2, <1>4
  <2>2. i + 1 = j + 1
    BY <2>1, PagingAssumption
  <2>3. i \in Nat /\ j \in Nat
    BY PagingAssumption
  <2>4. QED
    BY <2>1, <2>2, <2>3
<1>5. QED
  BY <1>3, <1>4

LEMMA VmInit_VmInv == VmInit => VmInv
<1> SUFFICES ASSUME VmInit PROVE VmInv
  OBVIOUS
<1>1. VmFrameInv
  BY VmFramesInit
<1>2. PICK T : T = table
  OBVIOUS
<1>3. BootReads(T) /\ BootFrames
  BY <1>2, BootTables, BootFramesApart DEF VmInit
<1>4. Third(T) = {pml3_table} /\ Second(T) = Pml2Tables /\ First(T) = {} /\ Leaves(T) = {}
  BY <1>3, BootLevels
<1>5. Tree(T)
  <2>1. NoTable \cap DOMAIN T = {}
    BY <1>3, FramesAreNat DEF BootReads, BootFrames
  <2>2. QED
    BY <1>3, <1>4, <2>1 DEF Tree, Typed, BootReads, BootFrames
<1>6. OneParent(T)
  BY <1>3, BootOneParent
<1>7. LargeKept(T)
  <2>1. ASSUME NEW t \in DOMAIN T, NEW i \in Indexes
        PROVE  T[t][i] = Large <=> t \in Pml2Tables
    <3>1. CASE t \in Roots
      BY <1>3, <3>1, FramesAreNat, NoTableIs DEF BootReads, BootFrames
    <3>2. CASE t = pml3_table
      <4>1. i + 1 \in DOMAIN pml2_table => pml2_table[i + 1] \in Pml2Tables
        BY DEF Pml2Tables
      <4>2. T[t][i] # Large
        BY <1>3, <3>2, <4>1, FramesAreNat, NoTableIs DEF BootReads, BootFrames
      <4>3. QED
        BY <1>3, <3>2, <4>2 DEF BootFrames
    <3>3. CASE t \in Pml2Tables
      BY <1>3, <3>3 DEF BootReads
    <3>4. QED
      BY <1>3, <3>1, <3>2, <3>3 DEF BootReads
  <2>2. QED
    BY <1>4, <2>1 DEF LargeKept
<1>8. Apart(T, InUse)
  BY <1>3, <1>4 DEF Apart, LeavesOnce, InUse, BootReads, BootFrames
<1>9. /\ current_pml4 \in Roots
      /\ CallOK(call, table, current_pml4, InUse)
      /\ tlb \subseteq Requests
  BY PagingAssumption DEF VmInit, vm_init, CallOK
<1>10. QED
  BY <1>1, <1>2, <1>5, <1>6, <1>7, <1>8, <1>9 DEF VmInv

-----------------------------------------------------------------------------
(* How a call begins, goes down a level, and goes on to its next page.     *)

LEMMA CallBegins ==
  ASSUME NEW fn \in {"vm_map_page", "vm_unmap_page"}, NEW todo \in Seq(Requests),
         NEW present \in BOOLEAN, NEW root \in Int, NEW T, NEW used,
         todo # <<>>, root \notin NoTable,
         fn = "vm_map_page" =>
           \A n \in DOMAIN todo : MayMap(T, used, Len(todo), todo[n].physical)
  PROVE  CallOK([fn |-> fn, todo |-> todo, present |-> present, level |-> 4, at |-> root],
                T, root, used)
<1> DEFINE c == [fn |-> fn, todo |-> todo, present |-> present, level |-> 4, at |-> root]
<1>1. c \in CallSet
  BY DEF CallSet
<1>2. c.fn = fn /\ c.todo = todo /\ c.level = 4 /\ c.at = root
  OBVIOUS
<1> HIDE DEF c
<1>3. CallOK(c, T, root, used)
  BY <1>1, <1>2 DEF CallOK, WalkTo
<1>4. QED
  BY <1>3 DEF c

LEMMA TailOfRequests ==
  ASSUME NEW S, NEW s \in Seq(S), s # <<>>
  PROVE  /\ Tail(s) \in Seq(S) /\ Head(s) \in S /\ Head(s) = s[1] /\ 1 \in DOMAIN s
         /\ Len(s) # 1 => Tail(s) # <<>>
         /\ \A n \in DOMAIN Tail(s) : n + 1 \in DOMAIN s /\ Tail(s)[n] = s[n + 1]
<1>1. Len(s) \in Nat /\ Len(s) # 0 /\ DOMAIN s = 1..Len(s)
  OBVIOUS
<1>2. Tail(s) \in Seq(S) /\ Len(Tail(s)) = Len(s) - 1
  OBVIOUS
<1>3. Head(s) \in S /\ Head(s) = s[1] /\ 1 \in DOMAIN s
  BY <1>1
<1>4. ASSUME Len(s) # 1 PROVE Tail(s) # <<>>
  <2>1. PICK t \in Seq(S) : t = Tail(s) /\ Len(t) = Len(s) - 1
    BY <1>2
  <2>2. Len(t) # 0
    BY <1>1, <1>4, <2>1
  <2>3. QED
    BY <2>1, <2>2
<1>5. ASSUME NEW n \in DOMAIN Tail(s) PROVE n + 1 \in DOMAIN s /\ Tail(s)[n] = s[n + 1]
  BY <1>1, <1>2
<1>6. QED
  BY <1>2, <1>3, <1>4, <1>5

LEMMA CallGoesOn ==
  ASSUME NEW c, NEW T, NEW U, NEW root \in Int, NEW used, NEW now, root \notin NoTable,
         CallOK(c, T, root, used), c \notin {Idle, Lost}, root = current_pml4
  PROVE  CallOK(IF Len(c.todo) = 1 THEN Idle ELSE Call(c.fn, Tail(c.todo), c.present),
                U, root, now)
<1>1. /\ c \in CallSet /\ c.todo # <<>>
      /\ c.fn = "vm_map_page" =>
           \A n \in DOMAIN c.todo : MayMap(T, used, Len(c.todo), c.todo[n].physical)
  BY DEF CallOK
<1>2. c.fn \in {"vm_map_page", "vm_unmap_page"} /\ c.todo \in Seq(Requests)
      /\ c.present \in BOOLEAN
  BY <1>1 DEF CallSet
<1>3. CASE Len(c.todo) = 1
  BY <1>3 DEF CallOK
<1>4. CASE Len(c.todo) # 1
  <2>1. /\ Tail(c.todo) \in Seq(Requests) /\ Tail(c.todo) # <<>>
        /\ \A n \in DOMAIN Tail(c.todo) :
             n + 1 \in DOMAIN c.todo /\ Tail(c.todo)[n] = c.todo[n + 1]
    BY <1>1, <1>2, <1>4, TailOfRequests
  <2>2. ASSUME c.fn = "vm_map_page", NEW n \in DOMAIN Tail(c.todo)
        PROVE  MayMap(U, now, Len(Tail(c.todo)), Tail(c.todo)[n].physical)
    <3>1. MayMap(T, used, Len(c.todo), c.todo[n + 1].physical)
      BY <1>1, <2>1, <2>2
    <3>2. c.todo[n + 1].physical \in Devices
      BY <1>4, <3>1 DEF MayMap
    <3>3. QED
      BY <2>1, <3>2 DEF MayMap
  <2>3. CallOK([fn |-> c.fn, todo |-> Tail(c.todo), present |-> c.present, level |-> 4,
                at |-> root], U, root, now)
    BY <1>2, <2>1, <2>2, CallBegins
  <2>4. QED
    BY <1>4, <2>3 DEF Call
<1>5. QED
  BY <1>3, <1>4

LEMMA CallDescends ==
  ASSUME NEW c, NEW T, NEW U, NEW root \in Int, NEW used, NEW now, NEW e \in Int,
         CallOK(c, T, root, used), c \notin {Idle, Lost}, c.level > 1, e \notin NoTable,
         e = WalkTo(U, root, Head(c.todo).page, c.level - 1),
         \A n, f : MayMap(T, used, n, f) => MayMap(U, now, n, f)
  PROVE  CallOK([fn |-> c.fn, todo |-> c.todo, present |-> c.present,
                 level |-> c.level - 1, at |-> e], U, root, now)
<1> DEFINE d == [fn |-> c.fn, todo |-> c.todo, present |-> c.present,
                 level |-> c.level - 1, at |-> e]
<1>1. /\ c \in CallSet /\ c.todo # <<>>
      /\ c.fn = "vm_map_page" =>
           \A n \in DOMAIN c.todo : MayMap(T, used, Len(c.todo), c.todo[n].physical)
  BY DEF CallOK
<1>2. c.level - 1 \in 1..4
  BY <1>1 DEF CallSet
<1>3. d \in CallSet
  BY <1>1, <1>2 DEF CallSet
<1>4. d.fn = c.fn /\ d.todo = c.todo /\ d.level = c.level - 1 /\ d.at = e
  OBVIOUS
<1> HIDE DEF d
<1>5. CallOK(d, U, root, now)
  BY <1>1, <1>3, <1>4 DEF CallOK
<1>6. QED
  BY <1>5 DEF d

-----------------------------------------------------------------------------
(* What is known of a call at a level.                                     *)

CallFacts ==
  /\ call \in CallSet
  /\ Page \in Pages /\ Page \in Paths /\ Index = Page[5 - call.level] /\ Index \in Indexes
  /\ call.level \in 1..4
  /\ call.at \in Level(table, call.level) /\ call.at \in DOMAIN table /\ call.at \notin NoTable
  /\ call.at = WalkTo(table, current_pml4, Page, call.level)
  /\ call.level > 1 => call.at \notin First(table)
  /\ call.level = 1 => call.at \in First(table)
  /\ Entry \in Int
  /\ Head(call.todo).physical \in Int
  /\ Mapping => MayMap(table, InUse, Len(call.todo), Head(call.todo).physical)

LEMMA CallKnown ==
  ASSUME VmInv, InProgress
  PROVE  CallFacts
<1>1. /\ call \in CallSet /\ call.todo # <<>>
      /\ call.at = WalkTo(table, current_pml4, Page, call.level) /\ call.at \notin NoTable
      /\ Mapping => \A n \in DOMAIN call.todo :
                      MayMap(table, InUse, Len(call.todo), call.todo[n].physical)
  BY DEF VmInv, CallOK, Page, Mapping, InProgress
<1>2. call.todo \in Seq(Requests) /\ call.level \in 1..4
  BY <1>1 DEF CallSet
<1>3. Head(call.todo) \in Requests /\ Head(call.todo) = call.todo[1] /\ 1 \in DOMAIN call.todo
  BY <1>1, <1>2, TailOfRequests
<1>4. Page \in Pages /\ Page \in Paths /\ Head(call.todo).physical \in Int
  BY <1>3, PagingAssumption DEF Page, Requests, Paths
<1>5. Index = Page[5 - call.level] /\ Index \in Indexes
  BY <1>2, <1>4 DEF Index, Paths
<1>6. call.at \in Level(table, call.level)
  BY <1>1, <1>2, <1>4, WalkLevel DEF VmInv
<1>7. /\ call.at \in DOMAIN table
      /\ call.level > 1 => call.at \notin First(table)
  BY <1>2, <1>6, LevelsApart DEF VmInv
<1>8. call.level = 1 => call.at \in First(table)
  BY <1>6 DEF Level
<1>9. Entry \in Int
  BY <1>5, <1>7 DEF Entry, VmInv, Tree, Typed
<1>10. Mapping => MayMap(table, InUse, Len(call.todo), Head(call.todo).physical)
  BY <1>1, <1>3
<1>11. QED
  BY <1>1, <1>2, <1>4, <1>5, <1>6, <1>7, <1>8, <1>9, <1>10 DEF CallFacts

LEMMA RootKnown == VmInv => current_pml4 \in Int /\ current_pml4 \notin NoTable
BY PagingAssumption, FramesAreNat DEF VmInv

(* Steps that change neither tables nor frames.                            *)
LEMMA SameTables ==
  ASSUME VmInv, VmFrameInv', UNCHANGED <<vars, table>>, current_pml4' \in Roots,
         CallOK(call', table, current_pml4', InUse), tlb' \subseteq Requests
  PROVE  VmInv'
<1>1. InUse' = InUse
  BY DEF vars, InUse
<1>2. QED
  BY <1>1 DEF VmInv

LEMMA StepBegins == VmInv /\ VmFrameInv' /\ Calls => VmInv'
<1> SUFFICES ASSUME VmInv, VmFrameInv', Calls PROVE VmInv'
  OBVIOUS
<1>1. ASSUME NEW fn \in {"vm_map_page", "vm_unmap_page"}, NEW todo \in Seq(Requests),
             NEW present \in BOOLEAN, todo # <<>>, Begin(fn, todo, present),
             fn = "vm_map_page" =>
               \A n \in DOMAIN todo : MayMap(table, InUse, Len(todo), todo[n].physical)
      PROVE  VmInv'
  <2>1. CallOK(Call(fn, todo, present), table, current_pml4, InUse)
    BY <1>1, CallBegins, RootKnown DEF Call
  <2>2. QED
    BY <1>1, <2>1, SameTables DEF Begin, VmInv
<1>2. ASSUME NEW page \in Pages, NEW physical \in Int
      PROVE  LET todo == <<[page |-> page, physical |-> physical]>>
             IN  todo \in Seq(Requests) /\ todo # <<>> /\ Len(todo) = 1
                 /\ \A n \in DOMAIN todo : todo[n].physical = physical
  BY DEF Requests
<1>3. NotPresent \in Int /\ Frames \subseteq Int /\ Devices \subseteq Int
  BY PagingAssumption, FramesAreNat DEF NotPresent
<1>4. CASE vm_map_page
  <2>1. PICK page \in Pages, physical \in Mappable, present \in BOOLEAN :
          Begin("vm_map_page", <<[page |-> page, physical |-> physical]>>, present)
    BY <1>4 DEF vm_map_page
  <2>2. physical \in Int /\ MayMap(table, InUse, 1, physical)
    <3>1. Mapped = Leaves(table)
      BY DEF Mapped, TablesAt, Below, Leaves, First, Second, Third, Entries
    <3>2. owned \subseteq Frames
      BY DEF VmInv, VmFrameInv, FrameInv, TypeOK
    <3>3. QED
      BY <1>3, <3>1, <3>2, FramesAreNat DEF Mappable, MayMap, InUse, Tables
  <2>3. QED
    BY <1>1, <1>2, <2>1, <2>2
<1>5. CASE vm_unmap_page
  BY <1>1, <1>2, <1>3, <1>5 DEF vm_unmap_page
<1>6. ASSUME NEW pages \in 1..Len(Area), NEW physical \in [1..pages -> Int], NEW todo,
             todo = [n \in 1..pages |-> [page |-> Area[n], physical |-> physical[n]]]
      PROVE  todo \in Seq(Requests) /\ todo # <<>> /\ DOMAIN todo = 1..pages
             /\ \A n \in DOMAIN todo : todo[n].physical = physical[n]
  <2>1. \A n \in 1..pages : Area[n] \in Pages
    BY PagingAssumption
  <2>2. \A n \in 1..pages : [page |-> Area[n], physical |-> physical[n]] \in Requests
    BY <2>1 DEF Requests
  <2>3. pages \in Nat /\ pages > 0
    BY PagingAssumption
  <2>4. todo \in Seq(Requests) /\ DOMAIN todo = 1..pages
    BY <1>6, <2>2, <2>3
  <2>5. todo # <<>>
    BY <2>3, <2>4
  <2>6. \A n \in DOMAIN todo : todo[n].physical = physical[n]
    BY <1>6, <2>4
  <2>7. QED
    BY <2>4, <2>5, <2>6
<1>7. CASE memory_map_physical
  <2>1. PICK physical \in Devices, pages \in 1..Len(Area) :
          /\ physical..(physical + pages - 1) \subseteq Devices
          /\ Begin("vm_map_page",
               [n \in 1..pages |-> [page |-> Area[n], physical |-> physical + n - 1]], TRUE)
    BY <1>7 DEF memory_map_physical
  <2>2. \A n \in 1..pages : physical + n - 1 \in Devices
    BY <1>3, <2>1, PagingAssumption
  <2> DEFINE todo == [n \in 1..pages |-> [page |-> Area[n], physical |-> physical + n - 1]]
  <2>3. todo \in Seq(Requests) /\ todo # <<>>
        /\ \A n \in DOMAIN todo : todo[n].physical \in Devices
    <3> DEFINE ph == [n \in 1..pages |-> physical + n - 1]
    <3>1. ph \in [1..pages -> Int] /\ \A n \in 1..pages : ph[n] = physical + n - 1
      BY <1>3, <2>2
    <3> HIDE DEF ph
    <3>2. todo = [n \in 1..pages |-> [page |-> Area[n], physical |-> ph[n]]]
      BY <3>1
    <3> HIDE DEF todo
    <3>3. todo \in Seq(Requests) /\ todo # <<>> /\ DOMAIN todo = 1..pages
          /\ \A n \in DOMAIN todo : todo[n].physical = ph[n]
      BY <1>6, <3>1, <3>2
    <3>4. \A n \in 1..pages : ph[n] \in Devices
      BY <2>2, <3>1
    <3>5. QED
      BY <3>3, <3>4
  <2> HIDE DEF todo
  <2>4. Begin("vm_map_page", todo, TRUE)
    BY <2>1 DEF todo
  <2>5. QED
    BY <1>1, <2>3, <2>4 DEF MayMap
<1>8. CASE memory_unmap_physical
  <2>1. PICK pages \in 1..Len(Area) :
          Begin("vm_unmap_page",
                [n \in 1..pages |-> [page |-> Area[n], physical |-> NotPresent]], TRUE)
    BY <1>8 DEF memory_unmap_physical
  <2> DEFINE todo == [n \in 1..pages |-> [page |-> Area[n], physical |-> NotPresent]]
  <2>2. todo \in Seq(Requests) /\ todo # <<>>
    <3> DEFINE ph == [n \in 1..pages |-> NotPresent]
    <3>1. ph \in [1..pages -> Int] /\ \A n \in 1..pages : ph[n] = NotPresent
      BY <1>3
    <3> HIDE DEF ph
    <3>2. todo = [n \in 1..pages |-> [page |-> Area[n], physical |-> ph[n]]]
      BY <3>1
    <3> HIDE DEF todo
    <3>3. QED
      BY <1>6, <3>1, <3>2
  <2> HIDE DEF todo
  <2>3. Begin("vm_unmap_page", todo, TRUE)
    BY <2>1 DEF todo
  <2>4. QED
    BY <1>1, <2>2, <2>3
<1>9. QED
  BY <1>4, <1>5, <1>7, <1>8 DEF Calls

LEMMA EntryIsNext ==
  ASSUME CallFacts, call.level > 1
  PROVE  Entry = WalkTo(table, current_pml4, Page, call.level - 1)
<1>1. call.level \in 2..4
  BY DEF CallFacts
<1>2. WalkTo(table, current_pml4, Page, call.level - 1)
      = Step(table, WalkTo(table, current_pml4, Page, call.level), Page[5 - call.level])
  BY <1>1, WalkNext
<1>3. QED
  BY <1>2 DEF CallFacts, Step, Entry

LEMMA EntryIsReached ==
  ASSUME CallFacts, call.level = 1
  PROVE  Entry = Reached(table, current_pml4, Page)
BY DEF CallFacts, Reached, Step, Entry

LEMMA StepDescends == VmInv /\ VmFrameInv' /\ descend => VmInv'
<1> SUFFICES ASSUME VmInv, VmFrameInv', descend PROVE VmInv'
  OBVIOUS
<1>1. /\ InProgress /\ call.level > 1 /\ Entry \notin NoTable /\ call' = Enter(Entry)
      /\ UNCHANGED <<vars, table, current_pml4, tlb>>
  BY DEF descend, AtTable
<1>2. CallFacts
  BY <1>1, CallKnown
<1>3. Entry = WalkTo(table, current_pml4, Head(call.todo).page, call.level - 1)
  BY <1>1, <1>2, EntryIsNext DEF Page
<1>4. Entry \in Int /\ CallOK(call, table, current_pml4, InUse)
  BY <1>2 DEF CallFacts, VmInv
<1>5. CallOK(Enter(Entry), table, current_pml4, InUse)
  BY <1>1, <1>3, <1>4, CallDescends, RootKnown DEF Enter, InProgress
<1>6. QED
  BY <1>1, <1>5, SameTables DEF VmInv

LEMMA StepGoesOn ==
  VmInv /\ VmFrameInv' /\ (nothing_to_unmap \/ map_fails) => VmInv'
<1> SUFFICES ASSUME VmInv, VmFrameInv', nothing_to_unmap \/ map_fails PROVE VmInv'
  OBVIOUS
<1>1. CASE nothing_to_unmap
  <2>1. CallOK(call', table, current_pml4, InUse)
    BY <1>1, CallGoesOn, RootKnown DEF nothing_to_unmap, NextPage, VmInv, InProgress
  <2>2. QED
    BY <1>1, <2>1, SameTables DEF nothing_to_unmap, VmInv
<1>2. CASE map_fails
  <2>1. UNCHANGED vars
    BY <1>2 DEF map_fails, allocate_page_frame
  <2>2. CallOK(call', table, current_pml4, InUse)
    BY <1>2 DEF map_fails, CallOK
  <2>3. QED
    BY <1>2, <2>1, <2>2, SameTables DEF map_fails, VmInv
<1>3. QED
  BY <1>1, <1>2

(* The frame a new table gets is in no use before.                         *)
LEMMA AllocateUnused ==
  ASSUME VmFrameInv, allocate_page_frame, free_page_list # <<>>
  PROVE  /\ Head(free_page_list) \in Frames /\ Head(free_page_list) \notin InUse
         /\ InUse' = InUse \cup {Head(free_page_list)}
<1>1. free_page_list \in Seq(Frames) /\ FreeListExact /\ InUseStays
  BY DEF VmFrameInv, FrameInv, TypeOK
<1>2. Head(free_page_list) \in Frames /\ is_free[Head(free_page_list)]
  <2>1. /\ Head(free_page_list) \in Frames /\ Head(free_page_list) = free_page_list[1]
        /\ 1 \in DOMAIN free_page_list
    BY <1>1, TailOfRequests
  <2>2. QED
    BY <1>1, <2>1 DEF FreeListExact
<1>3. Head(free_page_list) \notin InUse
  BY <1>1, <1>2 DEF InUseStays, InUse
<1>4. InUse' = InUse \cup {Head(free_page_list)}
  BY DEF allocate_page_frame, InUse
<1>5. QED
  BY <1>2, <1>3, <1>4

(* A call that is lost leaves the tables alone, but may have got a frame.  *)
LEMMA StepLoses ==
  VmInv /\ VmFrameInv' /\ (walk_large_page \/ access_faults) => VmInv'
<1> SUFFICES ASSUME VmInv, VmFrameInv', walk_large_page \/ access_faults PROVE VmInv'
  OBVIOUS
<1>1. call' = Lost /\ UNCHANGED <<table, current_pml4, tlb>>
  BY DEF walk_large_page, access_faults
<1>2. InUse \subseteq InUse'
  BY DEF walk_large_page, access_faults, allocate_page_frame, vars, InUse
<1>3. Apart(table, InUse')
  <2>1. PICK T, used, now : T = table /\ used = InUse /\ now = InUse'
    OBVIOUS
  <2>2. QED
    BY <1>2, <2>1 DEF VmInv, Apart
<1>4. QED
  BY <1>1, <1>3 DEF VmInv, CallOK

LEMMA StepAddsTable == VmInv /\ VmFrameInv' /\ add_table => VmInv'
<1> SUFFICES ASSUME VmInv, VmFrameInv', add_table PROVE VmInv'
  OBVIOUS
<1>1. PICK frame : frame = Head(free_page_list)
  OBVIOUS
<1>2. /\ InProgress /\ call.level > 1 /\ Entry = NotPresent
      /\ free_page_list # <<>> /\ allocate_page_frame
      /\ AddTable(frame) /\ call' = Enter(frame)
      /\ UNCHANGED <<current_pml4, tlb>>
  BY <1>1 DEF add_table, AtTable
<1>3. CallFacts
  BY <1>2, CallKnown
<1>4. frame \in Frames /\ frame \notin InUse /\ InUse' = InUse \cup {frame}
      /\ frame \in Int /\ frame \notin NoTable
  <2>1. /\ Head(free_page_list) \in Frames /\ Head(free_page_list) \notin InUse
        /\ InUse' = InUse \cup {Head(free_page_list)}
    BY <1>2, AllocateUnused DEF VmInv
  <2>2. frame \in Frames /\ frame \notin InUse /\ InUse' = InUse \cup {frame}
    BY <1>1, <2>1
  <2>3. QED
    BY <2>2, FramesAreNat
<1>5. PICK T : T = table
  OBVIOUS
<1>6. PICK U : U = table'
  OBVIOUS
<1>7. PICK at, i : at = call.at /\ i = Index
  OBVIOUS
<1>8. PICK used : used = InUse
  OBVIOUS
<1>9. PICK root, page : root = current_pml4 /\ page = Page
  OBVIOUS
<1>10. /\ Tree(T) /\ OneParent(T) /\ LargeKept(T) /\ Apart(T, used) /\ frame \notin used
       /\ at \in DOMAIN T /\ at \notin First(T) /\ at \notin NoTable
       /\ i \in Indexes /\ T[at][i] = NotPresent
       /\ root \in Roots /\ root \in Int /\ root \notin NoTable /\ page \in Paths
       /\ CallOK(call, T, root, used) /\ tlb \subseteq Requests
  BY <1>2, <1>3, <1>4, <1>5, <1>7, <1>8, <1>9, RootKnown DEF VmInv, CallFacts, Entry
<1>11. frame \notin DOMAIN T
  BY <1>10 DEF Apart
<1>12. GrownReads(T, U, at, i, frame)
  <2>1. Grown(T, U, at, i, frame)
    BY <1>2, <1>5, <1>6, <1>7 DEF AddTable, Tables, Grown
  <2>2. Typed(T)
    BY <1>10 DEF Tree
  <2>3. QED
    BY <1>4, <1>10, <1>11, <2>1, <2>2, GrownEntries
<1>13. Tree(U) /\ OneParent(U)
  BY <1>4, <1>10, <1>11, <1>12, GrownTree
<1>14. Apart(U, used \cup {frame}) /\ Leaves(U) = Leaves(T)
  BY <1>4, <1>10, <1>12, GrownApart
<1>15. LargeKept(U)
  BY <1>4, <1>10, <1>11, <1>12, GrownLarge
<1>16. CallOK(Enter(frame), U, root, used \cup {frame})
  <2>1. call.level \in 2..4 /\ at = WalkTo(T, root, page, call.level) /\ i = page[5 - call.level]
    BY <1>2, <1>3, <1>5, <1>7, <1>9 DEF CallFacts
  <2>2. Follows(WalkTo(U, root, page, call.level), WalkTo(T, root, page, call.level), frame)
    <3>1. \A l \in 1..4 : Follows(WalkTo(U, root, page, l), WalkTo(T, root, page, l), frame)
      BY <1>4, <1>10, <1>12, GrownWalk
    <3>2. QED
      BY <2>1, <3>1
  <2>3. WalkTo(U, root, page, call.level) = at
    BY <1>10, <2>1, <2>2, NoTableIs DEF Follows
  <2>4. WalkTo(U, root, page, call.level - 1) = frame
    <3>1. WalkTo(U, root, page, call.level - 1) = Step(U, at, i)
      BY <2>1, <2>3, WalkNext
    <3>2. U[at][i] = frame
      BY <1>10, <1>12 DEF GrownReads
    <3>3. QED
      BY <1>10, <3>1, <3>2 DEF Step
  <2>5. ASSUME NEW n, NEW f, MayMap(T, used, n, f)
        PROVE  MayMap(U, used \cup {frame}, n, f)
    <3>1. DOMAIN U = DOMAIN T \cup {frame}
      BY <1>12 DEF GrownReads
    <3>2. QED
      BY <1>10, <1>14, <2>5, <3>1 DEF MayMap
  <2>6. frame = WalkTo(U, root, Head(call.todo).page, call.level - 1)
    BY <1>9, <2>4 DEF Page
  <2>7. QED
    BY <1>2, <1>4, <1>10, <2>5, <2>6, CallDescends DEF Enter, InProgress
<1>17. QED
  BY <1>2, <1>4, <1>6, <1>8, <1>9, <1>10, <1>13, <1>14, <1>15, <1>16 DEF VmInv

(* Walks that meet at an entry are those to one page and, in the doubled   *)
(* halves, to its twin, from any PML4.                                     *)
Place(r, p, root, page) ==
  \/ r = root /\ p = page
  \/ page[1] \in Doubled /\ p \in {page, Twin(page)}

LEMMA SamePlaces ==
  ASSUME NEW r, NEW root, NEW p \in Paths, NEW page \in Paths,
         SameWalk(r, p, root, page), p[4] = page[4]
  PROVE  Place(r, p, root, page)
<1>1. p[2] = page[2] /\ p[3] = page[3]
  BY DEF SameWalk
<1>2. ASSUME p[1] = page[1] PROVE p = page
  <2>1. \A n \in 1..4 : p[n] = page[n]
    BY <1>1, <1>2
  <2>2. QED
    BY <2>1 DEF Paths
<1>3. ASSUME p[1] # page[1] PROVE page[1] \in Doubled /\ p = Twin(page)
  <2>1. p[1] \in {0, HIGH} /\ page[1] \in {0, HIGH}
    BY <1>3 DEF SameWalk, Doubled
  <2>2. PICK q : q = Twin(page)
    OBVIOUS
  <2>3. /\ q \in Paths /\ q[1] = (IF page[1] = 0 THEN HIGH ELSE 0)
        /\ q[2] = page[2] /\ q[3] = page[3] /\ q[4] = page[4]
    BY <2>2, PagingAssumption DEF Twin, Paths
  <2>4. \A n \in 1..4 : p[n] = q[n]
    BY <1>1, <1>3, <2>1, <2>3
  <2>5. p = q
    BY <2>3, <2>4 DEF Paths
  <2>6. QED
    BY <2>1, <2>2, <2>5 DEF Doubled
<1>4. QED
  BY <1>2, <1>3 DEF SameWalk, Place

(* An entry changed at the end of a walk changes the walks to that place,  *)
(* to the new value, and no other.                                         *)
LEMMA LeafReached ==
  ASSUME NEW T, NEW U, NEW at \in First(T), NEW i \in Indexes, NEW v \in Int,
         Tree(T), OneParent(T), LeafReads(T, U, at, i, v),
         NEW root \in Roots, NEW page \in Paths,
         at = WalkTo(T, root, page, 1), i = page[4],
         NEW r \in Roots, NEW p \in Paths, Reached(U, r, p) # Reached(T, r, p)
  PROVE  Reached(U, r, p) = v /\ Place(r, p, root, page)
<1>1. Reached(U, r, p) = IF WalkTo(T, r, p, 1) = at /\ p[4] = i THEN v
                         ELSE Reached(T, r, p)
  BY LeafWalk
<1>2. at \notin NoTable
  BY DEF Tree
<1>3. WalkTo(T, r, p, 1) = at /\ p[4] = i /\ Reached(U, r, p) = v
  BY <1>1
<1>4. SameWalk(r, p, root, page)
  BY <1>2, <1>3, WalkUnique
<1>5. QED
  BY <1>3, <1>4, SamePlaces

(* What map_page and unmap_page have in common.                            *)
LeafFacts(T, U, at, i, v, root, page) ==
  /\ at \in First(T) /\ i \in Indexes /\ v \in Int
  /\ Tree(T) /\ OneParent(T) /\ LeafReads(T, U, at, i, v)
  /\ root \in Roots /\ page \in Paths
  /\ at = WalkTo(T, root, page, 1) /\ i = page[4]

LEMMA LeafKnown ==
  ASSUME VmInv, AtPage, NEW v \in Int, table' = [table EXCEPT ![call.at][Index] = v]
  PROVE  LeafFacts(table, table', call.at, Index, v, current_pml4, Page)
<1>1. CallFacts /\ call.level = 1
  BY CallKnown DEF AtPage
<1>2. PICK T, U, at, i : T = table /\ U = table' /\ at = call.at /\ i = Index
  OBVIOUS
<1>3. /\ at \in First(T) /\ i \in Indexes /\ Tree(T) /\ OneParent(T)
      /\ U = [T EXCEPT ![at][i] = v]
  BY <1>1, <1>2 DEF CallFacts, VmInv
<1>4. LeafReads(T, U, at, i, v)
  BY <1>3, LeafChange
<1>5. current_pml4 \in Roots /\ Page \in Paths /\ Index = Page[4]
      /\ call.at = WalkTo(table, current_pml4, Page, 1)
  BY <1>1 DEF CallFacts, VmInv
<1>6. QED
  BY <1>2, <1>3, <1>4, <1>5 DEF LeafFacts

MapEntry == IF call.present THEN Head(call.todo).physical ELSE NotPresent

LEMMA MapKnown ==
  ASSUME VmInv, map_page
  PROVE  /\ LeafFacts(table, table', call.at, Index, MapEntry, current_pml4, Page)
         /\ MapEntry # Large
         /\ MapEntry \notin NoTable => MapEntry \notin DOMAIN table
         /\ MapEntry \in Frames => MapEntry \in InUse /\ MapEntry \notin Leaves(table)
<1>1. CallFacts /\ Mapping /\ AtPage
  BY CallKnown DEF map_page, AtPage
<1>2. MapEntry \in Int
  BY <1>1 DEF CallFacts, MapEntry, NotPresent
<1>3. table' = [table EXCEPT ![call.at][Index] = MapEntry]
  BY DEF map_page, MapEntry
<1>4. LeafFacts(table, table', call.at, Index, MapEntry, current_pml4, Page)
  BY <1>1, <1>2, <1>3, LeafKnown
<1>5. DOMAIN table \subseteq Frames
  <2>1. owned \subseteq Frames
    BY DEF VmInv, VmFrameInv, FrameInv, TypeOK
  <2>2. QED
    BY <2>1, FramesAreNat DEF VmInv, Apart, InUse
<1>6. MayMap(table, InUse, Len(call.todo), Head(call.todo).physical)
  BY <1>1 DEF CallFacts
<1>7. MapEntry \in Devices \cup InUse \cup {NotPresent}
  BY <1>6 DEF MayMap, MapEntry
<1>8. MapEntry # Large
  <2>1. Devices \cup InUse \subseteq Nat
    <3>1. owned \subseteq Frames
      BY DEF VmInv, VmFrameInv, FrameInv, TypeOK
    <3>2. QED
      BY <3>1, PagingAssumption, FramesAreNat DEF InUse
  <2>2. QED
    BY <1>7, <2>1 DEF Large, NotPresent
<1>9. QED
  BY <1>4, <1>5, <1>6, <1>8, PagingAssumption, FramesAreNat, NoTableIs DEF MayMap, MapEntry

LEMMA StepMaps == VmInv /\ VmFrameInv' /\ map_page => VmInv'
<1> SUFFICES ASSUME VmInv, VmFrameInv', map_page PROVE VmInv'
  OBVIOUS
<1>1. PICK T, U, at, i, v, root, page, used :
        T = table /\ U = table' /\ at = call.at /\ i = Index /\ v = MapEntry
        /\ root = current_pml4 /\ page = Page /\ used = InUse
  OBVIOUS
<1>2. /\ LeafFacts(T, U, at, i, v, root, page)
      /\ v # Large /\ (v \notin NoTable => v \notin DOMAIN T)
      /\ v \in Frames => v \in used /\ v \notin Leaves(T)
  BY <1>1, MapKnown
<1>3. Apart(T, used) /\ LargeKept(T) /\ tlb \subseteq Requests
  BY <1>1 DEF VmInv
<1>4. InUse' = InUse /\ tlb' = {c \in tlb : c.page # page} /\ current_pml4' = root /\ NextPage
      /\ InProgress
  BY <1>1 DEF map_page, vm_invalidate_page, vars, InUse, AtPage
<1>5. Tree(U) /\ OneParent(U)
  BY <1>2 DEF LeafFacts, LeafReads
<1>6. Apart(U, used)
  BY <1>2, <1>3, LeafApart DEF LeafFacts
<1>7. LargeKept(U)
  BY <1>2, <1>3, LeafLarge DEF LeafFacts
<1>8. CallOK(call', U, root, used)
  BY <1>1, <1>4, CallGoesOn, RootKnown DEF NextPage, VmInv, InProgress
<1>9. root \in Roots
  BY <1>2 DEF LeafFacts
<1>10. QED
  BY <1>1, <1>3, <1>4, <1>5, <1>6, <1>7, <1>8, <1>9 DEF VmInv

LEMMA UnmapKnown ==
  ASSUME VmInv, unmap_page
  PROVE  LeafFacts(table, table', call.at, Index, NotPresent, current_pml4, Page)
<1>1. AtPage /\ table' = [table EXCEPT ![call.at][Index] = NotPresent]
  BY DEF unmap_page
<1>2. PICK v \in Int : v = NotPresent
  BY DEF NotPresent
<1>3. LeafFacts(table, table', call.at, Index, v, current_pml4, Page)
  BY <1>1, <1>2, LeafKnown
<1>4. QED
  BY <1>2, <1>3

LEMMA StepUnmaps == VmInv /\ VmFrameInv' /\ unmap_page => VmInv'
<1> SUFFICES ASSUME VmInv, VmFrameInv', unmap_page PROVE VmInv'
  OBVIOUS
<1>1. PICK T, U, at, i, root, page, used :
        T = table /\ U = table' /\ at = call.at /\ i = Index
        /\ root = current_pml4 /\ page = Page /\ used = InUse
  OBVIOUS
<1>2. LeafFacts(T, U, at, i, NotPresent, root, page) /\ Entry = T[at][i]
  BY <1>1, UnmapKnown DEF Entry
<1>3. Apart(T, used) /\ LargeKept(T) /\ tlb \subseteq Requests /\ NotPresent \notin Frames
      /\ NotPresent \in NoTable
  BY <1>1, FramesAreNat, NoTableIs DEF VmInv
<1>4. tlb' = {c \in tlb : c.page # page} /\ current_pml4' = root /\ NextPage
      /\ InProgress
  BY <1>1 DEF unmap_page, vm_invalidate_page, AtPage
<1>5. Tree(U) /\ OneParent(U)
  BY <1>2 DEF LeafFacts, LeafReads
<1>6. Apart(U, used) /\ (T[at][i] \in Frames => Apart(U, used \ {T[at][i]}))
  BY <1>2, <1>3, LeafApart DEF LeafFacts
<1>7. Apart(U, InUse')
  <2>1. CASE Entry \notin Frames
    <3>1. InUse' = InUse
      BY <2>1 DEF unmap_page, release_page, vars, InUse
    <3>2. QED
      BY <1>1, <1>6, <3>1
  <2>2. CASE Entry \in Frames
    <3>1. used \ {Entry} \subseteq InUse'
      BY <1>1, <2>2 DEF unmap_page, release_page, free_page_frame, vars, InUse
    <3>2. Apart(U, used \ {Entry})
      BY <1>2, <1>6, <2>2
    <3>3. QED
      BY <3>1, <3>2 DEF Apart
  <2>3. QED
    BY <2>1, <2>2
<1>8. LargeKept(U)
  BY <1>2, <1>3, NoTableIs, LeafLarge DEF LeafFacts
<1>9. CallOK(call', U, root, InUse')
  BY <1>1, <1>4, CallGoesOn, RootKnown DEF NextPage, VmInv, InProgress
<1>10. root \in Roots
  BY <1>2 DEF LeafFacts
<1>11. QED
  BY <1>1, <1>3, <1>4, <1>5, <1>7, <1>8, <1>9, <1>10 DEF VmInv

LEMMA WalkIsTranslation ==
  ASSUME NEW r, NEW p
  PROVE  Translation(r, p) = Reached(table, r, p)
<1>1. \A t, i : Down(t, i) = Step(table, t, i)
  BY DEF Down, Step
<1>2. TableOf(r, p, 1) = Down(Down(Down(r, p[1]), p[2]), p[3])
  BY DEF TableOf
<1>3. WalkTo(table, r, p, 1) = Step(table, Step(table, Step(table, r, p[1]), p[2]), p[3])
  BY DEF WalkTo
<1>4. TableOf(r, p, 1) = WalkTo(table, r, p, 1)
  BY ONLY <1>1, <1>2, <1>3
<1>5. QED
  BY <1>1, <1>4 DEF Translation, Reached

LEMMA StepOthers ==
  ASSUME VmInv, VmFrameInv',
         \/ vm_switch_pagetable \/ AllocateFrame \/ FreeFrame \/ Ended
         \/ \E page \in Pages : Cache(page)
  PROVE  VmInv'
<1>1. CASE vm_switch_pagetable
  <2>1. current_pml4' \in Roots /\ UNCHANGED <<vars, table, call>>
        /\ CallOK(call', table, current_pml4', InUse) /\ tlb' \subseteq Requests
    BY <1>1 DEF vm_switch_pagetable, CallOK
  <2>2. QED
    BY <2>1, SameTables
<1>2. ASSUME NEW page \in Pages, Cache(page) PROVE VmInv'
  <2>1. /\ Reached(table, current_pml4, page) # NotPresent
        /\ tlb' = {[page |-> page, physical |-> Reached(table, current_pml4, page)]}
        /\ UNCHANGED <<vars, table, current_pml4, call>>
    BY <1>2, WalkIsTranslation DEF Cache
  <2>2. Reached(table, current_pml4, page) \in Int
    <3>1. page \in Paths /\ page[4] \in Indexes
      BY PagingAssumption DEF Paths
    <3>2. WalkTo(table, current_pml4, page, 1) \in DOMAIN table \cup NoTable
      BY <3>1, WalkLevel, LevelsApart DEF VmInv
    <3>3. QED
      BY <2>1, <3>1, <3>2, NoTableIs DEF VmInv, Tree, Typed, Reached, Step
  <2>3. tlb' \subseteq Requests
    BY <2>1, <2>2 DEF Requests
  <2>4. QED
    BY <2>1, <2>3, SameTables DEF VmInv
<1>3. ASSUME call = Idle, UNCHANGED vmvars,
             \A e \in Frames : e \in DOMAIN table \cup Leaves(table) /\ e \in InUse => e \in InUse'
      PROVE  VmInv'
  <2>1. DOMAIN table \subseteq Frames
    <3>1. owned \subseteq Frames
      BY DEF VmInv, VmFrameInv, FrameInv, TypeOK
    <3>2. QED
      BY <3>1, FramesAreNat DEF VmInv, Apart, InUse
  <2>2. PICK T, now : T = table /\ now = InUse'
    OBVIOUS
  <2>3. Apart(T, now)
    BY <1>3, <2>1, <2>2, ApartMove DEF VmInv
  <2>4. QED
    BY <1>3, <2>2, <2>3 DEF VmInv, vmvars, CallOK
<1>4. CASE AllocateFrame
  BY <1>3, <1>4 DEF AllocateFrame, allocate_page_frame, vars, InUse
<1>5. CASE FreeFrame
  <2>1. Mapped = Leaves(table)
    BY DEF Mapped, TablesAt, Below, Leaves, First, Second, Third, Entries
  <2>2. PICK f \in Frames \ (Tables \cup Mapped) : free_page_frame(f)
    BY <1>5 DEF FreeFrame
  <2>3. QED
    BY <1>3, <1>5, <2>1, <2>2 DEF FreeFrame, free_page_frame, vars, InUse, Tables
<1>6. CASE Ended
  BY <1>6, SameTables DEF Ended, vmvars, VmInv
<1>7. QED
  BY <1>1, <1>2, <1>4, <1>5, <1>6

LEMMA VmStep == VmInv /\ [VmNext]_<<vars, vmvars>> => VmInv'
<1> SUFFICES ASSUME VmInv, [VmNext]_<<vars, vmvars>> PROVE VmInv'
  OBVIOUS
<1>1. VmFrameInv'
  BY VmFramesStep DEF VmInv
<1>2. CASE Calls
  BY <1>1, <1>2, StepBegins
<1>3. CASE Levels
  BY <1>1, <1>3, StepDescends, StepLoses, StepGoesOn, StepAddsTable, StepMaps, StepUnmaps
     DEF Levels
<1>4. CASE \/ vm_switch_pagetable \/ AllocateFrame \/ FreeFrame \/ Ended
           \/ \E page \in Pages : Cache(page)
  BY <1>1, <1>4, StepOthers
<1>5. CASE UNCHANGED <<vars, vmvars>>
  BY <1>1, <1>5, SameTables DEF vmvars, VmInv
<1>6. QED
  BY <1>2, <1>3, <1>4, <1>5 DEF VmNext

(* The conjunction is inductive: that no two walks meet but those to one   *)
(* place needs that a frame a caller maps or frees, or a table is made of, *)
(* is in no use as a table or a page.                                      *)
THEOREM VmInvariance == VmSpec => []VmInv
<1>1. QED
  BY VmInit_VmInv, VmStep, PTL DEF VmSpec

(* From the tables of boot.asm on, the tables are trees on four levels but *)
(* for the PML3 that boot.asm links twice, of frames no caller and no free *)
(* list has, with the large pages of boot.asm and no others, whatever is   *)
(* mapped and unmapped and whenever frames run out.                        *)
THEOREM TablesAlwaysApart == VmSpec => []TablesApart
<1>1. ASSUME VmInv PROVE TablesApart
  <2>1. /\ TablesAt[1] = First(table) /\ TablesAt[2] = Second(table)
        /\ TablesAt[3] = Third(table) /\ TablesAt[4] = Roots
    BY DEF TablesAt, Below, First, Second, Third, Entries
  <2>2. /\ Tree(table) /\ OneParent(table) /\ LargeKept(table) /\ Apart(table, InUse)
        /\ InUseStays
    BY <1>1 DEF VmInv, VmFrameInv, FrameInv
  <2>3. \A l, m \in 1..4 : l # m => TablesAt[l] \cap TablesAt[m] = {}
    BY <2>1, <2>2 DEF Tree
  <2>4. ASSUME NEW a \in Links, NEW b \in Links,
               table[a[1]][a[2]] = table[b[1]][b[2]]
        PROVE  a = b \/ {a, b} \subseteq Roots \X Doubled
    <3>1. /\ a \in (DOMAIN table \ First(table)) \X Indexes
          /\ b \in (DOMAIN table \ First(table)) \X Indexes
          /\ table[a[1]][a[2]] \notin NoTable
      BY <2>1 DEF Links, Tables
    <3>2. (a[1] = b[1] /\ a[2] = b[2]) \/ BothDoubled(a[1], b[1], a[2], b[2])
      BY <2>2, <2>4, <3>1 DEF OneParent
    <3>3. QED
      BY <3>1, <3>2 DEF BothDoubled
  <2>5. UNION {TablesAt[l] : l \in 1..4} = Tables
    <3>1. UNION {TablesAt[l] : l \in 1..4}
          = TablesAt[1] \cup TablesAt[2] \cup TablesAt[3] \cup TablesAt[4]
      OBVIOUS
    <3>2. QED
      BY <2>1, <2>2, <3>1 DEF Tree, Tables
  <2>6. ASSUME NEW t \in Tables PROVE ~is_free[t] /\ t \notin Mapped
    <3>1. t \in owned \cup KernelFrames
      BY <2>2 DEF Apart, InUse, Tables
    <3>2. Mapped = Leaves(table)
      BY DEF Mapped, TablesAt, Below, Leaves, First, Second, Third, Entries
    <3>3. QED
      BY <2>2, <3>1, <3>2 DEF InUseStays, Apart, Tables
  <2>7. \A t \in Tables, i \in Indexes : table[t][i] = Large <=> t \in Pml2Tables
    BY <2>2 DEF LargeKept, Tables
  <2>8. QED
    BY <2>3, <2>4, <2>5, <2>6, <2>7 DEF TablesApart
<1>2. QED
  BY <1>1, VmInvariance, PTL

-----------------------------------------------------------------------------
(* What a step does to the walks.                                          *)

LEMMA ReachedNext ==
  ASSUME NEW r, NEW p
  PROVE  Translation(r, p)' = Reached(table', r, p)
<1>1. \A t, i : Down(t, i)' = Step(table', t, i)
  BY DEF Down, Step
<1>2. Translation(r, p)' = Down(Down(Down(Down(r, p[1]), p[2]), p[3]), p[4])'
  BY DEF Translation, TableOf
<1>3. Down(Down(Down(Down(r, p[1]), p[2]), p[3]), p[4])'
      = Step(table', Step(table', Step(table', Step(table', r, p[1]), p[2]), p[3]), p[4])
  BY DEF Down, Step
<1>4. WalkTo(table', r, p, 1) = Step(table', Step(table', Step(table', r, p[1]), p[2]), p[3])
  BY DEF WalkTo
<1>5. QED
  BY <1>2, <1>3, <1>4 DEF Reached

Asked == IF Mapping /\ call.present THEN Head(call.todo).physical ELSE NotPresent

(* Only the last step of a call for a page changes what walks reach, and   *)
(* it changes the walks to that place, to what was asked.                  *)
AskedWalk(root, page) ==
  /\ map_page \/ unmap_page
  /\ InProgress /\ SamePlace(root, page)
  /\ Reached(table', root, page) = Asked

LEMMA AddTableWalks ==
  ASSUME VmInv, add_table, NEW root \in Roots, NEW page \in Paths
  PROVE  Reached(table', root, page) = Reached(table, root, page)
<1>1. PICK frame : frame = Head(free_page_list)
  OBVIOUS
<1>2. /\ InProgress /\ call.level > 1 /\ Entry = NotPresent
      /\ free_page_list # <<>> /\ allocate_page_frame /\ AddTable(frame)
  BY <1>1 DEF add_table, AtTable
<1>3. CallFacts
  BY <1>2, CallKnown
<1>4. frame \in Frames /\ frame \notin InUse /\ frame \in Int /\ frame \notin NoTable
  <2>1. Head(free_page_list) \in Frames /\ Head(free_page_list) \notin InUse
    BY <1>2, AllocateUnused DEF VmInv
  <2>2. frame \in Frames /\ frame \notin InUse
    BY <1>1, <2>1
  <2>3. QED
    BY <2>2, FramesAreNat
<1>5. PICK T, U, at, i : T = table /\ U = table' /\ at = call.at /\ i = Index
  OBVIOUS
<1>6. /\ Tree(T) /\ at \in DOMAIN T /\ at \notin First(T) /\ at \notin NoTable
      /\ i \in Indexes /\ T[at][i] = NotPresent /\ frame \notin DOMAIN T
  BY <1>2, <1>3, <1>4, <1>5 DEF VmInv, Apart, CallFacts, Entry
<1>7. GrownReads(T, U, at, i, frame)
  <2>1. Grown(T, U, at, i, frame)
    BY <1>2, <1>5 DEF AddTable, Tables, Grown
  <2>2. Typed(T)
    BY <1>6 DEF Tree
  <2>3. QED
    BY <1>4, <1>6, <2>1, <2>2, GrownEntries
<1>8. Reached(U, root, page) = Reached(T, root, page)
  BY <1>4, <1>6, <1>7, GrownWalk
<1>9. QED
  BY <1>5, <1>8

LEMMA WalksChange ==
  ASSUME VmInv, VmNext, NEW root \in Roots, NEW page \in Paths,
         Reached(table', root, page) # Reached(table, root, page)
  PROVE  AskedWalk(root, page)
<1>1. CASE add_table
  BY <1>1, AddTableWalks
<1>2. ASSUME NEW v, LeafFacts(table, table', call.at, Index, v, current_pml4, Page)
      PROVE  Reached(table', root, page) = v /\ SamePlace(root, page)
  <2>1. PICK T, U, at, i, cr3, pg :
          T = table /\ U = table' /\ at = call.at /\ i = Index
          /\ cr3 = current_pml4 /\ pg = Page
    OBVIOUS
  <2>2. Reached(U, root, page) = v /\ Place(root, page, cr3, pg)
    BY <1>2, <2>1, LeafReached DEF LeafFacts
  <2>3. QED
    BY <2>1, <2>2 DEF Place, SamePlace
<1>3. CASE map_page
  <2>1. LeafFacts(table, table', call.at, Index, MapEntry, current_pml4, Page)
    BY <1>3, MapKnown
  <2>2. MapEntry = Asked /\ InProgress
    BY <1>3 DEF map_page, AtPage, MapEntry, Asked
  <2>3. QED
    BY <1>2, <1>3, <2>1, <2>2 DEF AskedWalk
<1>4. CASE unmap_page
  <2>1. LeafFacts(table, table', call.at, Index, NotPresent, current_pml4, Page)
    BY <1>4, UnmapKnown
  <2>2. NotPresent = Asked /\ InProgress
    BY <1>4 DEF unmap_page, AtPage, Mapping, Unmapping, Asked
  <2>3. QED
    BY <1>2, <1>4, <2>1, <2>2 DEF AskedWalk
<1>5. CASE ~add_table /\ ~map_page /\ ~unmap_page
  <2>1. UNCHANGED table
    BY <1>5 DEF VmNext, Calls, vm_map_page, vm_unmap_page, memory_map_physical,
                memory_unmap_physical, Begin, Levels, descend, walk_large_page, access_faults,
                map_fails, nothing_to_unmap, vm_switch_pagetable, AllocateFrame, FreeFrame,
                Ended, Cache, vmvars
  <2>2. QED
    BY <2>1
<1>6. QED
  BY <1>1, <1>3, <1>4, <1>5

LEMMA AskedOnly ==
  ASSUME VmInv, VmNext
  PROVE  AskedChange
<1> SUFFICES ASSUME NEW root \in Roots, NEW page \in Pages,
                    Translation(root, page)' # Translation(root, page)
             PROVE  /\ InProgress /\ SamePlace(root, page)
                    /\ Translation(root, page)' = Asked
  BY DEF AskedChange, Asked
<1>1. /\ page \in Paths
      /\ Translation(root, page) = Reached(table, root, page)
      /\ Translation(root, page)' = Reached(table', root, page)
  BY PagingAssumption, WalkIsTranslation, ReachedNext DEF Paths
<1>2. QED
  BY <1>1, WalksChange DEF AskedWalk

(* No page changes its mapping but the one of the call in progress and, in *)
(* the halves boot.asm doubles, its twin; and they get what was asked.     *)
THEOREM OnlyAskedEverChanges == VmSpec => OnlyAskedChanges
<1>1. VmInv /\ [VmNext]_<<vars, vmvars>> => [AskedChange]_<<vars, vmvars>>
  BY AskedOnly
<1>2. QED
  BY <1>1, VmInvariance, PTL DEF VmSpec, OnlyAskedChanges

LEMMA CacheSteps ==
  ASSUME VmNext
  PROVE  \/ tlb' = {}
         \/ \E page \in Pages : Cache(page)
         \/ /\ current_pml4' = current_pml4 /\ tlb' \subseteq tlb
            /\ (map_page \/ unmap_page) => \A c \in tlb' : c.page # Page
BY DEF VmNext, Calls, vm_map_page, vm_unmap_page, memory_map_physical, memory_unmap_physical,
       Begin, Levels, descend, walk_large_page, access_faults, add_table, map_fails,
       nothing_to_unmap, map_page, unmap_page, vm_invalidate_page, vm_switch_pagetable,
       AllocateFrame, FreeFrame, Ended, vmvars

LEMMA StaleOnlyByTwin ==
  ASSUME VmInv, VmNext
  PROVE  StaleByTwin
<1> SUFFICES ASSUME NEW c \in tlb', OutOfDate(c)'
             PROVE  /\ c \in tlb
                    /\ \/ OutOfDate(c)
                       \/ InProgress /\ Page[1] \in Doubled /\ c.page = Twin(Page)
  BY DEF StaleByTwin
<1>1. PICK root : root = current_pml4
  OBVIOUS
<1>2. \A p : Translation(root, p)' = Reached(table', root, p)
  BY ReachedNext
<1>3. ASSUME NEW page \in Pages, Cache(page) PROVE FALSE
  <2>1. /\ c.page = page /\ c.physical = Reached(table, root, page)
        /\ table' = table /\ current_pml4' = root
    BY <1>1, <1>3, WalkIsTranslation DEF Cache
  <2>2. Translation(root, page)' # c.physical
    BY <2>1 DEF OutOfDate
  <2>3. QED
    BY <1>2, <2>1, <2>2
<1>4. ASSUME current_pml4' = current_pml4, tlb' \subseteq tlb,
             (map_page \/ unmap_page) => \A d \in tlb' : d.page # Page
      PROVE  /\ c \in tlb
             /\ \/ OutOfDate(c)
                \/ InProgress /\ Page[1] \in Doubled /\ c.page = Twin(Page)
  <2>1. c \in tlb /\ c.page \in Paths /\ root \in Roots
    BY <1>1, <1>4, PagingAssumption DEF VmInv, Requests, Paths
  <2>2. Reached(table', root, c.page) # c.physical
    BY <1>1, <1>2, <1>4 DEF OutOfDate
  <2>3. OutOfDate(c) <=> Reached(table, root, c.page) # c.physical
    BY <1>1, WalkIsTranslation DEF OutOfDate
  <2>4. CASE Reached(table', root, c.page) = Reached(table, root, c.page)
    BY <2>1, <2>2, <2>3, <2>4
  <2>5. CASE Reached(table', root, c.page) # Reached(table, root, c.page)
    <3>1. AskedWalk(root, c.page)
      BY <2>1, <2>5, WalksChange
    <3>2. c.page # Page
      BY <1>4, <3>1 DEF AskedWalk
    <3>3. QED
      BY <2>1, <3>1, <3>2 DEF AskedWalk, SamePlace
  <2>6. QED
    BY <2>4, <2>5
<1>5. QED
  BY <1>3, <1>4, CacheSteps

(* What the processor has cached goes out of date only for the twin, in    *)
(* the halves boot.asm doubles, of a page that is mapped or unmapped.      *)
THEOREM CacheAlwaysFresh == VmSpec => CacheStaysFresh
<1>1. VmInv /\ [VmNext]_<<vars, vmvars>> => [StaleByTwin]_<<vars, vmvars>>
  BY StaleOnlyByTwin
<1>2. QED
  BY <1>1, VmInvariance, PTL DEF VmSpec, CacheStaysFresh
=============================================================================
