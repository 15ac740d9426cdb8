------------------------------ MODULE Allocator ------------------------------
(***************************************************************************)
(* What the kernel heap promises its callers, with no list and no headers: *)
(* a set of regions inside a range of addresses, pairwise disjoint, each   *)
(* given out, returned or exchanged for another as a whole and otherwise   *)
(* left alone.                                                             *)
(***************************************************************************)
EXTENDS Integers

CONSTANTS Low, High      \* the range the regions lie in: Low .. High - 1

VARIABLE regions         \* first granule of a region -> its length

Disjoint(r, lo, len) ==
  \A s \in DOMAIN r : s + r[s] <= lo \/ lo + len <= s

Add(r, lo, len) == [s \in DOMAIN r \cup {lo} |-> IF s = lo THEN len ELSE r[s]]

Drop(r, lo) == [s \in DOMAIN r \ {lo} |-> r[s]]

Init == regions = [s \in {} |-> 0]

(* A fresh region, disjoint from every region already given out.           *)
Grant(lo, len) ==
  /\ lo + len <= High
  /\ Disjoint(regions, lo, len)
  /\ regions' = Add(regions, lo, len)

Return(lo) == regions' = Drop(regions, lo)

(* A region exchanged for a longer one that overlaps no region, the old    *)
(* one included, so that its contents can be copied before it is returned. *)
Move(old, lo, len) ==
  /\ lo + len <= High
  /\ Disjoint(regions, lo, len)
  /\ len > regions[old]
  /\ regions' = Drop(Add(regions, lo, len), old)

Next ==
  \/ \E lo \in Low..High, len \in 1..(High - Low) : Grant(lo, len)
  \/ \E lo \in DOMAIN regions : Return(lo)
  \/ \E old \in DOMAIN regions, lo \in Low..High, len \in 1..(High - Low) :
       Move(old, lo, len)

Spec == Init /\ [][Next]_regions
=============================================================================
