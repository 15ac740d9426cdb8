--------------------------- MODULE Ext2FileProofs ---------------------------
(***************************************************************************)
(* Proofs about reading files, for every size of a block, number of direct *)
(* pointers, file, length asked for, set of null pointers and fault.       *)
(***************************************************************************)
EXTENDS Ext2File, FiniteSetTheorems, SequenceTheorems, FunctionTheorems,
        WellFoundedInduction, TLAPS

-----------------------------------------------------------------------------
(* Numbers and their digits.                                               *)

(* A quotient times the divisor grows by the divisor at least.             *)
LEMMA Steps ==
  ASSUME NEW s \in Nat, NEW q \in Nat, NEW p \in Nat, q < p
  PROVE  q * s \in Nat /\ p * s \in Nat /\ q * s + s <= p * s
<1>1. PICK d \in Nat : p = q + 1 + d
  <2>1. p - q - 1 \in Nat /\ p = q + 1 + (p - q - 1)
    OBVIOUS
  <2>2. QED
    BY <2>1
<1>2. p * s = q * s + s + d * s
  BY <1>1
<1>3. d * s \in Nat /\ q * s \in Nat /\ p * s \in Nat
  OBVIOUS
<1>4. QED
  BY <1>2, <1>3

(* Division with a rest.                                                   *)
LEMMA Division ==
  ASSUME NEW s \in Nat \ {0}, NEW x \in Nat
  PROVE  /\ x \div s \in Nat
         /\ x % s \in 0..(s - 1)
         /\ (x \div s) * s \in Nat
         /\ x = (x \div s) * s + (x % s)
OBVIOUS

(* There is only one.                                                      *)
LEMMA DivisionUnique ==
  ASSUME NEW s \in Nat \ {0}, NEW q \in Nat, NEW r \in 0..(s - 1),
         NEW x \in Nat, x = q * s + r
  PROVE  x \div s = q /\ x % s = r
<1>1. PICK p, t : p = x \div s /\ t = x % s
  OBVIOUS
<1>2. p \in Nat /\ t \in 0..(s - 1) /\ p * s \in Nat /\ q * s \in Nat /\ x = p * s + t
  BY <1>1, Division
<1>3. ~(q < p)
  <2>1. ASSUME q < p PROVE q * s + s <= p * s
    BY <1>2, <2>1, Steps
  <2>2. QED
    BY <1>2, <2>1
<1>4. ~(p < q)
  <2>1. ASSUME p < q PROVE p * s + s <= q * s
    BY <1>2, <2>1, Steps
  <2>2. QED
    BY <1>2, <2>1
<1>5. p = q
  BY <1>2, <1>3, <1>4
<1>6. t = r
  BY <1>2, <1>5
<1>7. QED
  BY <1>1, <1>5, <1>6

(* Numbers are in the order of their quotients, then of their rests.       *)
LEMMA DigitOrder ==
  ASSUME NEW s \in Nat \ {0}, NEW q \in Nat, NEW p \in Nat,
         NEW r \in 0..(s - 1), NEW t \in 0..(s - 1), q * s + r < p * s + t
  PROVE  q < p \/ (q = p /\ r < t)
<1>1. q * s \in Nat /\ p * s \in Nat
  OBVIOUS
<1>2. ~(p < q)
  <2>1. ASSUME p < q PROVE p * s + s <= q * s
    BY <2>1, Steps
  <2>2. QED
    BY <1>1, <2>1
<1>3. q = p => r < t
  BY <1>1
<1>4. QED
  BY <1>2, <1>3

(* What is less than so many times s has a quotient less than that.        *)
LEMMA QuotientBound ==
  ASSUME NEW s \in Nat \ {0}, NEW m \in Nat, NEW x \in Nat, x < m * s
  PROVE  x \div s \in 0..(m - 1)
<1>1. PICK p, t : p = x \div s /\ t = x % s
  OBVIOUS
<1>2. p \in Nat /\ t \in 0..(s - 1) /\ p * s \in Nat /\ x = p * s + t
  BY <1>1, Division
<1>3. ASSUME m < p PROVE FALSE
  <2>1. m * s + s <= p * s
    BY <1>2, <1>3, Steps
  <2>2. QED
    BY <1>2, <2>1
<1>4. p # m
  <2>1. ASSUME p = m PROVE FALSE
    BY <1>2, <2>1
  <2>2. QED
    BY <2>1
<1>5. QED
  BY <1>1, <1>2, <1>3, <1>4

(* A number of quotient and rest below their bounds is below the product.  *)
LEMMA ProductBound ==
  ASSUME NEW s \in Nat \ {0}, NEW m \in Nat, NEW q \in 0..(m - 1), NEW r \in 0..(s - 1)
  PROVE  q * s + r \in Nat /\ q * s + r < m * s
<1>1. q * s + s <= m * s /\ q * s \in Nat /\ m * s \in Nat
  BY Steps
<1>2. QED
  BY <1>1

-----------------------------------------------------------------------------
(* The leaf at each place.                                                 *)

LeafOf(n) ==
  IF n < NDIRECT THEN <<n>>
  ELSE IF n < single_indirect_end THEN <<NDIRECT, n - NDIRECT>>
  ELSE IF n < double_indirect_end
  THEN LET offset == n - single_indirect_end
       IN  <<NDIRECT + 1, offset \div g_block_size, offset % g_block_size>>
  ELSE LET offset == n - double_indirect_end
           square == g_block_size * g_block_size
       IN  <<NDIRECT + 2, offset \div square,
             (offset % square) \div g_block_size, offset % g_block_size>>

(* Where the levels begin and end.                                         *)
LEMMA Levels ==
  /\ g_block_size \in Nat \ {0} /\ NDIRECT \in Nat
  /\ g_block_size * g_block_size \in Nat \ {0}
  /\ single_indirect_end = NDIRECT + g_block_size
  /\ double_indirect_end = single_indirect_end + g_block_size * g_block_size
  /\ max_blocks = double_indirect_end + g_block_size * (g_block_size * g_block_size)
  /\ single_indirect_end \in Nat /\ double_indirect_end \in Nat /\ max_blocks \in Nat
  /\ NDIRECT < single_indirect_end
  /\ single_indirect_end < double_indirect_end
  /\ double_indirect_end < max_blocks
<1>1. g_block_size \in Nat \ {0} /\ NDIRECT \in Nat
  BY Ext2Assumption
<1>2. PICK square : square = g_block_size * g_block_size
  OBVIOUS
<1>3. square \in Nat \ {0}
  BY <1>1, <1>2
<1>4. PICK cube : cube = g_block_size * square
  OBVIOUS
<1>5. cube \in Nat \ {0}
  BY <1>1, <1>3, <1>4
<1>6. cube = g_block_size * g_block_size * g_block_size
  BY <1>1, <1>2, <1>4
<1>7. QED
  BY <1>1, <1>2, <1>3, <1>4, <1>5, <1>6
  DEF single_indirect_end, double_indirect_end, max_blocks, blocks_per_indirect

(* The indexes of a place behind a double indirect pointer.                *)
TwoDigits(x, a, b) ==
  a \in Slots /\ b \in Slots /\ x = a * g_block_size + b

LEMMA DoubleDigits ==
  ASSUME NEW x \in Nat, x < g_block_size * g_block_size
  PROVE  TwoDigits(x, x \div g_block_size, x % g_block_size)
BY Levels, Division, QuotientBound DEF TwoDigits, Slots

LEMMA DoubleUnique ==
  ASSUME NEW a \in Slots, NEW b \in Slots
  PROVE  LET x == a * g_block_size + b
         IN  /\ x \in Nat /\ x < g_block_size * g_block_size
             /\ x \div g_block_size = a /\ x % g_block_size = b
<1>1. PICK x : x = a * g_block_size + b
  OBVIOUS
<1>2. a \in Nat /\ a \in 0..(g_block_size - 1) /\ b \in 0..(g_block_size - 1)
      /\ g_block_size \in Nat \ {0}
  BY Levels DEF Slots
<1>3. x \in Nat /\ x < g_block_size * g_block_size
  BY <1>1, <1>2, ProductBound
<1>4. x \div g_block_size = a /\ x % g_block_size = b
  BY <1>1, <1>2, <1>3, DivisionUnique
<1>5. QED
  BY <1>1, <1>3, <1>4

(* The indexes of a place behind a triple indirect pointer.                *)
ThreeDigits(x, a, b, c) ==
  /\ a \in Slots /\ b \in Slots /\ c \in Slots
  /\ x = a * (g_block_size * g_block_size) + (b * g_block_size + c)

LEMMA TripleDigits ==
  ASSUME NEW x \in Nat, x < g_block_size * (g_block_size * g_block_size)
  PROVE  LET square == g_block_size * g_block_size
         IN  /\ ThreeDigits(x, x \div square, (x % square) \div g_block_size,
                            x % g_block_size)
             /\ x % g_block_size = (x % square) % g_block_size
<1>1. PICK size_, square : size_ = g_block_size /\ square = g_block_size * g_block_size
  OBVIOUS
<1>2. size_ \in Nat \ {0} /\ square \in Nat \ {0} /\ square = size_ * size_
  BY <1>1, Levels
<1>3. PICK a, r : a = x \div square /\ r = x % square
  OBVIOUS
<1>4. /\ a \in 0..(size_ - 1) /\ r \in 0..(square - 1)
      /\ a * square \in Nat /\ x = a * square + r
  BY <1>1, <1>2, <1>3, Division, QuotientBound
<1>5. PICK b, c : b = r \div size_ /\ c = r % size_
  OBVIOUS
<1>6. /\ b \in 0..(size_ - 1) /\ c \in 0..(size_ - 1)
      /\ b * size_ \in Nat /\ r = b * size_ + c
  <2>1. r \in Nat /\ r < size_ * size_
    BY <1>2, <1>4
  <2>2. b \in 0..(size_ - 1)
    BY <1>2, <1>5, <2>1, QuotientBound
  <2>3. QED
    BY <1>2, <1>5, <2>1, <2>2, Division
<1>7. x % size_ = c
  <2>1. PICK q : q = a * size_ + b
    OBVIOUS
  <2>2. q \in Nat /\ q * size_ = a * (size_ * size_) + b * size_
    BY <1>2, <1>4, <1>6, <2>1
  <2>3. x = q * size_ + c
    BY <1>2, <1>4, <1>6, <2>2
  <2>4. QED
    <3>1. q \in Nat /\ c \in 0..(size_ - 1) /\ size_ \in Nat \ {0}
      BY <1>2, <1>6, <2>2
    <3>2. QED
      BY ONLY <2>3, <3>1, x \in Nat, DivisionUnique
<1>8. QED
  <2>1. a \in Slots /\ b \in Slots /\ c \in Slots
    BY ONLY <1>1, <1>4, <1>6 DEF Slots
  <2>2. x = a * square + (b * size_ + c)
    BY ONLY <1>4, <1>6
  <2>3. ThreeDigits(x, a, b, c)
    BY ONLY <1>1, <2>1, <2>2 DEF ThreeDigits
  <2>4. QED
    BY ONLY <1>1, <1>3, <1>5, <1>7, <2>3

LEMMA TripleUnique ==
  ASSUME NEW a \in Slots, NEW b \in Slots, NEW c \in Slots
  PROVE  \E x \in Nat : /\ x < g_block_size * (g_block_size * g_block_size)
                        /\ x \div (g_block_size * g_block_size) = a
                        /\ (x % (g_block_size * g_block_size)) \div g_block_size = b
                        /\ x % g_block_size = c
<1>1. PICK size_, square : size_ = g_block_size /\ square = g_block_size * g_block_size
  OBVIOUS
<1>2. size_ \in Nat \ {0} /\ square \in Nat \ {0} /\ square = size_ * size_
  BY <1>1, Levels
<1>3. a \in 0..(size_ - 1) /\ b \in 0..(size_ - 1) /\ c \in 0..(size_ - 1)
  BY <1>1 DEF Slots
<1>4. PICK r : r = b * size_ + c
  OBVIOUS
<1>5. r \in 0..(square - 1) /\ r \div size_ = b /\ r % size_ = c
  BY <1>1, <1>2, <1>4, DoubleUnique
<1>6. PICK x : x = a * square + r
  OBVIOUS
<1>7. x \in Nat /\ x < size_ * square
  BY <1>2, <1>3, <1>5, <1>6, ProductBound
<1>8. x \div square = a /\ x % square = r
  BY <1>2, <1>3, <1>5, <1>6, <1>7, DivisionUnique
<1>9. x % size_ = c
  BY <1>1, <1>5, <1>7, <1>8, TripleDigits
<1>10. QED
  BY <1>1, <1>5, <1>7, <1>8, <1>9

(* The path p of the leaf at place n, by the level it is on.               *)
DirectLeaf(n, p) == n \in 0..(NDIRECT - 1) /\ p = <<n>>

SingleLeaf(n, p) ==
  /\ NDIRECT <= n /\ n < single_indirect_end
  /\ \E a \in Slots : n = NDIRECT + a /\ p = <<NDIRECT, a>>

DoubleLeaf(n, p) ==
  /\ single_indirect_end <= n /\ n < double_indirect_end
  /\ \E a \in Slots, b \in Slots :
       n = single_indirect_end + (a * g_block_size + b) /\ p = <<NDIRECT + 1, a, b>>

TripleLeaf(n, p) ==
  /\ double_indirect_end <= n
  /\ \E a \in Slots, b \in Slots, c \in Slots :
       /\ n = double_indirect_end
                + (a * (g_block_size * g_block_size) + (b * g_block_size + c))
       /\ p = <<NDIRECT + 2, a, b, c>>

LeafKind(n, p) ==
  DirectLeaf(n, p) \/ SingleLeaf(n, p) \/ DoubleLeaf(n, p) \/ TripleLeaf(n, p)

(* The place of a leaf in the file.                                        *)
Places == 0..(max_blocks - 1)

LEMMA LeafIs == ASSUME NEW n \in Places PROVE LeafKind(n, LeafOf(n))
<1>1. n \in Nat /\ n < max_blocks
  BY Levels DEF Places
<1>2. CASE n < NDIRECT
  BY <1>1, <1>2, Levels DEF LeafOf, LeafKind, DirectLeaf
<1>3. CASE ~(n < NDIRECT) /\ n < single_indirect_end
  <2>1. n - NDIRECT \in Slots /\ n = NDIRECT + (n - NDIRECT)
    BY <1>1, <1>3, Levels DEF Slots
  <2>2. LeafOf(n) = <<NDIRECT, n - NDIRECT>>
    BY <1>3 DEF LeafOf
  <2>3. QED
    BY <1>1, <1>3, <2>1, <2>2, Levels DEF LeafKind, SingleLeaf
<1>4. CASE ~(n < single_indirect_end) /\ n < double_indirect_end
  <2>1. PICK x : x = n - single_indirect_end
    OBVIOUS
  <2>2. x \in Nat /\ x < g_block_size * g_block_size /\ n = single_indirect_end + x
        /\ ~(n < NDIRECT)
    BY <1>1, <1>4, <2>1, Levels
  <2>3. PICK a, b : a = x \div g_block_size /\ b = x % g_block_size
    OBVIOUS
  <2>4. a \in Slots /\ b \in Slots /\ x = a * g_block_size + b
    BY <2>2, <2>3, DoubleDigits DEF TwoDigits
  <2>5. LeafOf(n) = <<NDIRECT + 1, a, b>>
    BY <1>4, <2>1, <2>2, <2>3 DEF LeafOf
  <2>6. n = single_indirect_end + (a * g_block_size + b)
    BY <2>2, <2>4
  <2>7. single_indirect_end <= n /\ n < double_indirect_end
    BY <1>1, <1>4, Levels
  <2>8. QED
    BY <2>4, <2>5, <2>6, <2>7 DEF LeafKind, DoubleLeaf
<1>5. CASE ~(n < double_indirect_end)
  <2>1. PICK x : x = n - double_indirect_end
    OBVIOUS
  <2>2. x \in Nat /\ x < g_block_size * (g_block_size * g_block_size)
        /\ n = double_indirect_end + x /\ ~(n < NDIRECT) /\ ~(n < single_indirect_end)
    BY <1>1, <1>5, <2>1, Levels
  <2>3. PICK square : square = g_block_size * g_block_size
    OBVIOUS
  <2>4. PICK a, b, c : /\ a = x \div square /\ b = (x % square) \div g_block_size
                       /\ c = x % g_block_size
    OBVIOUS
  <2>5. ThreeDigits(x, a, b, c)
    BY <2>2, <2>3, <2>4, TripleDigits
  <2>6. LeafOf(n) = <<NDIRECT + 2, a, b, c>>
    BY <1>5, <2>1, <2>2, <2>3, <2>4 DEF LeafOf
  <2>7. double_indirect_end <= n
    BY <1>1, <1>5, Levels
  <2>8. QED
    BY <2>2, <2>5, <2>6, <2>7 DEF LeafKind, TripleLeaf, ThreeDigits
<1>6. QED
  BY <1>2, <1>3, <1>4, <1>5

(* The level says where the leaf is.                                       *)
LEMMA LeafCases ==
  ASSUME NEW n \in Places, NEW p, LeafKind(n, p)
  PROVE  /\ n < NDIRECT => DirectLeaf(n, p)
         /\ NDIRECT <= n /\ n < single_indirect_end => SingleLeaf(n, p)
         /\ single_indirect_end <= n /\ n < double_indirect_end => DoubleLeaf(n, p)
         /\ double_indirect_end <= n => TripleLeaf(n, p)
<1>1. n \in Nat
  BY DEF Places
<1>2. CASE DirectLeaf(n, p)
  BY <1>1, <1>2, Levels DEF DirectLeaf
<1>3. CASE SingleLeaf(n, p)
  BY <1>1, <1>3, Levels DEF SingleLeaf
<1>4. CASE DoubleLeaf(n, p)
  BY <1>1, <1>4, Levels DEF DoubleLeaf
<1>5. CASE TripleLeaf(n, p)
  BY <1>1, <1>5, Levels DEF TripleLeaf
<1>6. QED
  BY <1>2, <1>3, <1>4, <1>5 DEF LeafKind

LEMMA LeafInTree == ASSUME NEW n \in Places PROVE LeafOf(n) \in Leaves
BY LeafIs
DEF Leaves, LeafKind, DirectLeaf, SingleLeaf, DoubleLeaf, TripleLeaf

(* Every leaf is at some place.                                            *)
LEMMA LeafPlace ==
  ASSUME NEW p \in Leaves
  PROVE  \E n \in Places : p = LeafOf(n)
<1>1. CASE p \in {<<i>> : i \in 0..(NDIRECT - 1)}
  <2>1. PICK i \in 0..(NDIRECT - 1) : p = <<i>>
    BY <1>1
  <2>2. i \in Places /\ i < NDIRECT
    BY Levels DEF Places
  <2>3. QED
    BY <2>1, <2>2 DEF LeafOf
<1>2. CASE p \in {<<NDIRECT, a>> : a \in Slots}
  <2>1. PICK a \in Slots : p = <<NDIRECT, a>>
    BY <1>2
  <2>2. PICK n : n = NDIRECT + a
    OBVIOUS
  <2>3. n \in Places /\ ~(n < NDIRECT) /\ n < single_indirect_end /\ n - NDIRECT = a
    BY <2>2, Levels DEF Places, Slots
  <2>4. QED
    BY <2>1, <2>3 DEF LeafOf
<1>3. CASE p \in {<<NDIRECT + 1, a, b>> : a, b \in Slots}
  <2>1. PICK a \in Slots, b \in Slots : p = <<NDIRECT + 1, a, b>>
    BY <1>3
  <2>2. PICK x : x = a * g_block_size + b
    OBVIOUS
  <2>3. /\ x \in Nat /\ x < g_block_size * g_block_size
        /\ x \div g_block_size = a /\ x % g_block_size = b
    BY <2>2, DoubleUnique
  <2>4. PICK n : n = single_indirect_end + x
    OBVIOUS
  <2>5. /\ n \in Places /\ ~(n < NDIRECT) /\ ~(n < single_indirect_end)
        /\ n < double_indirect_end /\ n - single_indirect_end = x
    BY <2>3, <2>4, Levels DEF Places
  <2>6. LeafOf(n) = <<NDIRECT + 1, a, b>>
    BY <2>3, <2>5 DEF LeafOf
  <2>7. QED
    BY <2>1, <2>5, <2>6
<1>4. CASE p \in {<<NDIRECT + 2, a, b, c>> : a, b, c \in Slots}
  <2>1. PICK a \in Slots, b \in Slots, c \in Slots : p = <<NDIRECT + 2, a, b, c>>
    BY <1>4
  <2>2. PICK square : square = g_block_size * g_block_size
    OBVIOUS
  <2>3. PICK x \in Nat : /\ x < g_block_size * square /\ x \div square = a
                         /\ (x % square) \div g_block_size = b /\ x % g_block_size = c
    BY <2>2, TripleUnique
  <2>4. PICK n : n = double_indirect_end + x
    OBVIOUS
  <2>5. /\ n \in Places /\ ~(n < NDIRECT) /\ ~(n < single_indirect_end)
        /\ ~(n < double_indirect_end) /\ n - double_indirect_end = x
    BY <2>2, <2>3, <2>4, Levels DEF Places
  <2>6. LeafOf(n) = <<NDIRECT + 2, a, b, c>>
    BY <2>2, <2>3, <2>5 DEF LeafOf
  <2>7. QED
    BY <2>1, <2>5, <2>6
<1>5. QED
  BY <1>1, <1>2, <1>3, <1>4 DEF Leaves

(* Paths are sequences of numbers, and never empty.                        *)
LEMMA LeafType ==
  ASSUME NEW p \in Leaves
  PROVE  p \in Seq(Nat) /\ p # Null /\ Len(p) \in Nat \ {0}
<1>1. Slots \subseteq Nat /\ NDIRECT \in Nat
  BY Levels DEF Slots
<1>2. CASE \E i \in Nat : p = <<i>>
  BY <1>2 DEF Null
<1>3. CASE \E x, a \in Nat : p = <<x, a>>
  BY <1>3 DEF Null
<1>4. CASE \E x, a, b \in Nat : p = <<x, a, b>>
  BY <1>4 DEF Null
<1>5. CASE \E x, a, b, c \in Nat : p = <<x, a, b, c>>
  BY <1>5 DEF Null
<1>6. QED
  <2>1. \/ \E i \in Nat : p = <<i>>
        \/ \E x, a \in Nat : p = <<x, a>>
        \/ \E x, a, b \in Nat : p = <<x, a, b>>
        \/ \E x, a, b, c \in Nat : p = <<x, a, b, c>>
    <3>1. NDIRECT + 1 \in Nat /\ NDIRECT + 2 \in Nat
      BY <1>1
    <3>2. PICK n \in Places : LeafKind(n, p)
      BY LeafPlace, LeafIs
    <3>3. 0..(NDIRECT - 1) \subseteq Nat
      BY <1>1
    <3>4. QED
      BY <1>1, <3>1, <3>2, <3>3
      DEF LeafKind, DirectLeaf, SingleLeaf, DoubleLeaf, TripleLeaf
  <2>2. QED
    BY <1>2, <1>3, <1>4, <1>5, <2>1

-----------------------------------------------------------------------------
(* The order of the leaves.                                                *)

(* The least and the greatest of two numbers.                              *)
LEMMA MinTwo ==
  ASSUME NEW l \in Int, NEW m \in Int
  PROVE  Min({l, m}) = IF l <= m THEN l ELSE m
BY DEF Min

LEMMA MaxTwo ==
  ASSUME NEW l \in Int, NEW m \in Int
  PROVE  Max({l, m}) = IF l >= m THEN l ELSE m
BY DEF Max

(* The first m members of a sequence.                                      *)
LEMMA FirstOnes ==
  ASSUME NEW p \in Seq(Nat), NEW m \in Nat, m <= Len(p), NEW s, s = SubSeq(p, 1, m)
  PROVE  s \in Seq(Nat) /\ Len(s) = m /\ \A i \in 1..m : s[i] = p[i]
<1>1. Len(p) \in Nat
  BY LenProperties
<1>2. s \in Seq(Nat) /\ Len(s) = m
  BY <1>1
<1>3. ASSUME NEW i \in 1..m PROVE s[i] = p[i]
  BY <1>1
<1>4. QED
  BY <1>2, <1>3

(* Paths that agree before index k and differ there are in its order.      *)
LEMMA BeforeAt ==
  ASSUME NEW p \in Seq(Nat), NEW q \in Seq(Nat), NEW k \in Nat \ {0},
         k <= Len(p), k <= Len(q), \A i \in 1..(k - 1) : p[i] = q[i], p[k] < q[k]
  PROVE  Before(p, q)
<1>1. Len(p) \in Nat /\ Len(q) \in Nat
  BY LenProperties
<1>2. k \in 1..Min({Len(p), Len(q)})
  <2>1. PICK l, m : l = Len(p) /\ m = Len(q)
    OBVIOUS
  <2>2. Min({l, m}) = IF l <= m THEN l ELSE m
    <3>1. l \in Int /\ m \in Int
      BY <1>1, <2>1
    <3>2. QED
      BY <3>1, MinTwo
  <2>3. QED
    BY <1>1, <2>1, <2>2
<1>3. SubSeq(p, 1, k - 1) = SubSeq(q, 1, k - 1)
  <2>1. PICK m : m = k - 1
    OBVIOUS
  <2>2. PICK s, t : s = SubSeq(p, 1, m) /\ t = SubSeq(q, 1, m)
    OBVIOUS
  <2>3. /\ s \in Seq(Nat) /\ Len(s) = m /\ \A i \in 1..m : s[i] = p[i]
        /\ t \in Seq(Nat) /\ Len(t) = m /\ \A i \in 1..m : t[i] = q[i]
        /\ \A i \in 1..m : p[i] = q[i]
    <3>1. m \in Nat /\ m <= Len(p) /\ m <= Len(q)
      BY <1>1, <2>1
    <3>2. s \in Seq(Nat) /\ Len(s) = m /\ \A i \in 1..m : s[i] = p[i]
      BY ONLY p \in Seq(Nat), <2>2, <3>1, FirstOnes
    <3>3. t \in Seq(Nat) /\ Len(t) = m /\ \A i \in 1..m : t[i] = q[i]
      BY ONLY q \in Seq(Nat), <2>2, <3>1, FirstOnes
    <3>4. \A i \in 1..m : p[i] = q[i]
      BY <2>1
    <3>5. QED
      BY ONLY <3>2, <3>3, <3>4
  <2>4. s = t
    BY <2>1, <2>3, SeqEqual
  <2>5. QED
    BY <2>1, <2>2, <2>4
<1>4. QED
  BY <1>2, <1>3 DEF Before

(* Where two paths in order differ.                                        *)
LEMMA BeforeWhere ==
  ASSUME NEW p \in Seq(Nat), NEW q \in Seq(Nat), Before(p, q)
  PROVE  \E k : /\ k \in 1..Len(p) /\ k \in 1..Len(q)
                /\ SubSeq(p, 1, k - 1) = SubSeq(q, 1, k - 1) /\ p[k] < q[k]
<1>1. PICK l, m : l = Len(p) /\ m = Len(q)
  OBVIOUS
<1>2. l \in Nat /\ m \in Nat /\ l \in Int /\ m \in Int
  BY <1>1, LenProperties
<1>3. PICK k \in 1..Min({l, m}) :
        SubSeq(p, 1, k - 1) = SubSeq(q, 1, k - 1) /\ p[k] < q[k]
  BY <1>1 DEF Before
<1>4. k \in 1..l /\ k \in 1..m
  <2>1. PICK c : c = Min({l, m})
    OBVIOUS
  <2>2. c = IF l <= m THEN l ELSE m
    BY ONLY <1>2, <2>1, MinTwo
  <2>3. k \in 1..c
    BY <2>1
  <2>4. QED
    BY ONLY <1>2, <2>2, <2>3
<1>5. QED
  BY <1>1, <1>3, <1>4

(* The order is strict.                                                    *)
LEMMA BeforeStrict ==
  ASSUME NEW p \in Seq(Nat), NEW q \in Seq(Nat), Before(p, q), Before(q, p)
  PROVE  FALSE
<1>1. Len(p) \in Nat /\ Len(q) \in Nat
      /\ (\A i \in 1..Len(p) : p[i] \in Nat) /\ (\A i \in 1..Len(q) : q[i] \in Nat)
  BY LenProperties, ElementOfSeq
<1>3. PICK k : k \in 1..Len(p) /\ k \in 1..Len(q)
               /\ SubSeq(p, 1, k - 1) = SubSeq(q, 1, k - 1) /\ p[k] < q[k]
  BY BeforeWhere
<1>4. PICK j : j \in 1..Len(p) /\ j \in 1..Len(q)
               /\ SubSeq(q, 1, j - 1) = SubSeq(p, 1, j - 1) /\ q[j] < p[j]
  BY BeforeWhere
<1>5. ASSUME NEW n \in 1..Len(p), n \in 1..Len(q),
             SubSeq(p, 1, n - 1) = SubSeq(q, 1, n - 1), NEW i \in 1..(n - 1)
      PROVE  p[i] = q[i]
  <2>1. PICK m, s, t : m = n - 1 /\ s = SubSeq(p, 1, m) /\ t = SubSeq(q, 1, m)
    OBVIOUS
  <2>2. m \in Nat /\ m <= Len(p) /\ m <= Len(q) /\ i \in 1..m
    BY <1>1, <1>5, <2>1
  <2>3. s[i] = p[i] /\ t[i] = q[i]
    BY <1>1, <2>1, <2>2
  <2>4. QED
    BY <1>5, <2>1, <2>3
<1>6. CASE k < j
  <2>1. k \in 1..(j - 1)
    BY <1>3, <1>4, <1>6
  <2>2. p[k] = q[k]
    BY <1>4, <1>5, <2>1
  <2>3. QED
    BY <1>1, <1>3, <2>2
<1>7. CASE j < k
  <2>1. j \in 1..(k - 1)
    BY <1>3, <1>4, <1>7
  <2>2. p[j] = q[j]
    BY <1>3, <1>5, <2>1
  <2>3. QED
    BY <1>1, <1>4, <2>2
<1>8. CASE j = k
  BY <1>1, <1>3, <1>4, <1>8
<1>9. QED
  BY <1>1, <1>3, <1>4, <1>6, <1>7, <1>8

(* The leaves are in the order of their places.                            *)
LEMMA LeafOrder ==
  ASSUME NEW n \in Places, NEW m \in Places, n < m
  PROVE  Before(LeafOf(n), LeafOf(m))
<1>1. PICK p, q : p = LeafOf(n) /\ q = LeafOf(m)
  OBVIOUS
<1>2. /\ LeafKind(n, p) /\ LeafKind(m, q)
      /\ p \in Seq(Nat) /\ q \in Seq(Nat) /\ Len(p) \in Nat \ {0} /\ Len(q) \in Nat \ {0}
  BY <1>1, LeafIs, LeafInTree, LeafType
<1>3. n \in Nat /\ m \in Nat
  BY DEF Places
<1>4. ASSUME p[1] < q[1] PROVE Before(p, q)
  BY <1>2, <1>4, BeforeAt
<1>5. CASE n < NDIRECT
  <2>1. p[1] = n
    BY <1>2, <1>5, LeafCases DEF DirectLeaf
  <2>2. q[1] = m \/ q[1] \in {NDIRECT, NDIRECT + 1, NDIRECT + 2}
    BY <1>2 DEF LeafKind, DirectLeaf, SingleLeaf, DoubleLeaf, TripleLeaf
  <2>3. QED
    BY <1>1, <1>3, <1>4, <1>5, <2>1, <2>2, Levels
<1>6. CASE NDIRECT <= n /\ n < single_indirect_end
  <2>1. PICK a \in Slots : n = NDIRECT + a /\ p = <<NDIRECT, a>>
    BY <1>2, <1>6, LeafCases DEF SingleLeaf
  <2>2. CASE m < single_indirect_end
    <3>1. PICK b \in Slots : m = NDIRECT + b /\ q = <<NDIRECT, b>>
      <4>1. NDIRECT <= m
        BY <1>3, <1>6, Levels
      <4>2. QED
        BY <1>2, <2>2, <4>1, LeafCases DEF SingleLeaf
    <3>2. a < b
      BY <2>1, <3>1, Levels DEF Slots
    <3>3. p[1] = q[1] /\ p[2] < q[2] /\ Len(p) = 2 /\ Len(q) = 2
      BY <2>1, <3>1, <3>2
    <3>4. \A i \in 1..(2 - 1) : p[i] = q[i]
      BY <3>3
    <3>5. Before(p, q)
      BY <1>2, <3>3, <3>4, BeforeAt
    <3>6. QED
      BY <1>1, <3>5
  <2>3. CASE ~(m < single_indirect_end)
    <3>1. q[1] \in {NDIRECT + 1, NDIRECT + 2}
      <4>1. ~DirectLeaf(m, q) /\ ~SingleLeaf(m, q)
        BY <1>3, <2>3, Levels DEF DirectLeaf, SingleLeaf
      <4>2. QED
        BY <1>2, <4>1 DEF LeafKind, DoubleLeaf, TripleLeaf
    <3>2. QED
      BY <1>1, <1>4, <2>1, <3>1, Levels
  <2>4. QED
    BY <2>2, <2>3
<1>7. CASE single_indirect_end <= n /\ n < double_indirect_end
  <2>1. PICK a \in Slots, b \in Slots :
          n = single_indirect_end + (a * g_block_size + b) /\ p = <<NDIRECT + 1, a, b>>
    BY <1>2, <1>7, LeafCases DEF DoubleLeaf
  <2>2. CASE m < double_indirect_end
    <3>1. PICK d \in Slots, e \in Slots :
            m = single_indirect_end + (d * g_block_size + e) /\ q = <<NDIRECT + 1, d, e>>
      <4>1. single_indirect_end <= m
        BY <1>3, <1>7, Levels
      <4>2. QED
        BY <1>2, <2>2, <4>1, LeafCases DEF DoubleLeaf
    <3>2. PICK x, y : x = a * g_block_size + b /\ y = d * g_block_size + e
      OBVIOUS
    <3>3. x \in Nat /\ y \in Nat
      BY <3>2, DoubleUnique
    <3>4. x < y
      BY <2>1, <3>1, <3>2, <3>3, Levels
    <3>5. a < d \/ (a = d /\ b < e)
      BY <3>2, <3>4, Levels, DigitOrder DEF Slots
    <3>6. Len(p) = 3 /\ Len(q) = 3 /\ p[1] = q[1] /\ p[2] = a /\ p[3] = b
          /\ q[2] = d /\ q[3] = e
      BY <2>1, <3>1
    <3>7. Before(p, q)
      <4>1. CASE a < d
        <5>1. PICK k \in Nat \ {0} : k = 2
          OBVIOUS
        <5>2. \A i \in 1..(k - 1) : p[i] = q[i]
          BY <3>6, <5>1
        <5>3. p[k] < q[k] /\ k <= Len(p) /\ k <= Len(q)
          BY <3>6, <4>1, <5>1
        <5>4. QED
          BY <1>2, <5>2, <5>3, BeforeAt
      <4>2. CASE a = d /\ b < e
        <5>1. PICK k \in Nat \ {0} : k = 3
          OBVIOUS
        <5>2. \A i \in 1..(k - 1) : p[i] = q[i]
          BY <3>6, <4>2, <5>1
        <5>3. p[k] < q[k] /\ k <= Len(p) /\ k <= Len(q)
          BY <3>6, <4>2, <5>1
        <5>4. QED
          BY <1>2, <5>2, <5>3, BeforeAt
      <4>3. QED
        BY <3>5, <4>1, <4>2
    <3>8. QED
      BY <1>1, <3>7
  <2>3. CASE ~(m < double_indirect_end)
    <3>1. q[1] = NDIRECT + 2
      <4>1. double_indirect_end <= m
        BY <1>3, <2>3, Levels
      <4>2. QED
        BY <1>2, <4>1, LeafCases DEF TripleLeaf
    <3>2. QED
      BY <1>1, <1>4, <2>1, <3>1, Levels
  <2>4. QED
    BY <2>2, <2>3
<1>8. CASE double_indirect_end <= n
  <2>1. PICK square : square = g_block_size * g_block_size
    OBVIOUS
  <2>2. PICK a \in Slots, b \in Slots, c \in Slots :
          /\ n = double_indirect_end + (a * square + (b * g_block_size + c))
          /\ p = <<NDIRECT + 2, a, b, c>>
    BY <1>2, <1>8, <2>1, LeafCases DEF TripleLeaf
  <2>3. PICK d \in Slots, e \in Slots, f \in Slots :
          /\ m = double_indirect_end + (d * square + (e * g_block_size + f))
          /\ q = <<NDIRECT + 2, d, e, f>>
    <3>1. double_indirect_end <= m
      BY <1>3, <1>8, Levels
    <3>2. QED
      BY <1>2, <2>1, <3>1, LeafCases DEF TripleLeaf
  <2>4. PICK x, y : x = b * g_block_size + c /\ y = e * g_block_size + f
    OBVIOUS
  <2>5. x \in 0..(square - 1) /\ y \in 0..(square - 1) /\ square \in Nat \ {0}
    <3>1. /\ x \in Nat /\ x < g_block_size * g_block_size
          /\ y \in Nat /\ y < g_block_size * g_block_size
      BY <2>4, DoubleUnique
    <3>2. QED
      BY <2>1, <3>1, Levels
  <2>6. a * square \in Nat /\ d * square \in Nat /\ a \in Nat /\ d \in Nat
    BY <2>5, Levels DEF Slots
  <2>7. a * square + x < d * square + y
    BY <2>2, <2>3, <2>4, <2>5, <2>6, Levels
  <2>8. a < d \/ (a = d /\ x < y)
    BY <2>5, <2>6, <2>7, DigitOrder
  <2>9. x < y => b < e \/ (b = e /\ c < f)
    BY <2>4, Levels, DigitOrder DEF Slots
  <2>10. Len(p) = 4 /\ Len(q) = 4 /\ p[1] = q[1] /\ p[2] = a /\ p[3] = b /\ p[4] = c
         /\ q[2] = d /\ q[3] = e /\ q[4] = f
    BY <2>2, <2>3
  <2>11. CASE a < d
    <3>1. PICK k \in Nat \ {0} : k = 2
      OBVIOUS
    <3>2. \A i \in 1..(k - 1) : p[i] = q[i]
      BY <2>10, <3>1
    <3>3. p[k] < q[k] /\ k <= Len(p) /\ k <= Len(q)
      BY <2>10, <2>11, <3>1
    <3>4. QED
      BY <1>1, <1>2, <3>2, <3>3, BeforeAt
  <2>12. CASE a = d /\ b < e
    <3>1. PICK k \in Nat \ {0} : k = 3
      OBVIOUS
    <3>2. \A i \in 1..(k - 1) : p[i] = q[i]
      BY <2>10, <2>12, <3>1
    <3>3. p[k] < q[k] /\ k <= Len(p) /\ k <= Len(q)
      BY <2>10, <2>12, <3>1
    <3>4. QED
      BY <1>1, <1>2, <3>2, <3>3, BeforeAt
  <2>13. CASE a = d /\ b = e /\ c < f
    <3>1. PICK k \in Nat \ {0} : k = 4
      OBVIOUS
    <3>2. \A i \in 1..(k - 1) : p[i] = q[i]
      BY <2>10, <2>13, <3>1
    <3>3. p[k] < q[k] /\ k <= Len(p) /\ k <= Len(q)
      BY <2>10, <2>13, <3>1
    <3>4. QED
      BY <1>1, <1>2, <3>2, <3>3, BeforeAt
  <2>14. QED
    BY <2>8, <2>9, <2>11, <2>12, <2>13
<1>9. QED
  BY <1>3, <1>5, <1>6, <1>7, <1>8, Levels

(* Different places have different leaves.                                 *)
LEMMA LeafUnique ==
  ASSUME NEW n \in Places, NEW m \in Places, LeafOf(n) = LeafOf(m)
  PROVE  n = m
<1>1. n \in Nat /\ m \in Nat
  BY DEF Places
<1>2. LeafOf(n) \in Seq(Nat)
  BY LeafInTree, LeafType
<1>3. ~Before(LeafOf(n), LeafOf(n))
  BY <1>2, BeforeStrict
<1>4. QED
  BY <1>1, <1>3, LeafOrder

(* The leaves before the one at place n are the ones at the places before. *)
LEMMA LeavesBefore ==
  ASSUME NEW n \in Places
  PROVE  {q \in Leaves : Before(q, LeafOf(n))} = {LeafOf(m) : m \in 0..(n - 1)}
<1>1. n \in Nat /\ 0..(n - 1) \subseteq Places
  BY Levels DEF Places
<1>2. ASSUME NEW m \in 0..(n - 1)
      PROVE  LeafOf(m) \in Leaves /\ Before(LeafOf(m), LeafOf(n))
  BY <1>1, LeafInTree, LeafOrder
<1>3. ASSUME NEW q \in Leaves, Before(q, LeafOf(n))
      PROVE  \E m \in 0..(n - 1) : q = LeafOf(m)
  <2>1. PICK m \in Places : q = LeafOf(m)
    BY LeafPlace
  <2>2. q \in Seq(Nat) /\ LeafOf(n) \in Seq(Nat)
    BY LeafInTree, LeafType
  <2>3. ~(n < m) /\ n # m
    BY <1>3, <2>1, <2>2, LeafOrder, BeforeStrict
  <2>4. m \in 0..(n - 1)
    BY <1>1, <2>3 DEF Places
  <2>5. QED
    BY <2>1, <2>4
<1>4. QED
  BY <1>2, <1>3

(* So many leaves are at the first places.                                 *)
LEMMA LeafCount ==
  ASSUME NEW n \in Nat, n <= max_blocks
  PROVE  Cardinality({LeafOf(m) : m \in 0..(n - 1)}) = n
<1>1. PICK S : S = {LeafOf(m) : m \in 0..(n - 1)}
  OBVIOUS
<1>2. 0..(n - 1) \subseteq Places
  BY Levels DEF Places
<1>3. PICK f : f = [i \in 1..n |-> LeafOf(i - 1)]
  OBVIOUS
<1>4. ASSUME NEW i \in 1..n PROVE i - 1 \in 0..(n - 1) /\ i - 1 \in Places
  BY <1>2
<1>5. f \in [1..n -> S]
  BY <1>1, <1>3, <1>4
<1>6. ASSUME NEW i \in 1..n, NEW j \in 1..n, f[i] = f[j] PROVE i = j
  <2>1. LeafOf(i - 1) = LeafOf(j - 1)
    BY <1>3, <1>6
  <2>2. i - 1 = j - 1
    BY <1>4, <2>1, LeafUnique
  <2>3. QED
    BY <2>2
<1>7. ASSUME NEW q \in S PROVE \E i \in 1..n : f[i] = q
  <2>1. PICK m \in 0..(n - 1) : q = LeafOf(m)
    BY <1>1
  <2>2. m + 1 \in 1..n /\ (m + 1) - 1 = m
    OBVIOUS
  <2>3. QED
    BY <1>3, <2>1, <2>2
<1>8. f \in Bijection(1..n, S)
  BY <1>5, <1>6, <1>7, Fun_IsBij
<1>9. Cardinality(S) = n
  BY <1>8, FS_CountingElements DEF ExistsBijection
<1>10. QED
  BY <1>1, <1>9

(* The contents of the file, place by place.                               *)
LEMMA LeafSeqIs ==
  /\ Len(LeafSeq) = max_blocks
  /\ \A n \in Places : LeafSeq[n + 1] = LeafOf(n)
<1>1. Leaves = {LeafOf(m) : m \in 0..(max_blocks - 1)}
  BY LeafInTree, LeafPlace DEF Places
<1>2. Cardinality(Leaves) = max_blocks
  BY <1>1, LeafCount, Levels
<1>3. LeafSeq = [i \in 1..max_blocks |->
        CHOOSE p \in Leaves : Cardinality({q \in Leaves : Before(q, p)}) = i - 1]
  BY <1>2 DEF LeafSeq
<1>4. ASSUME NEW n \in Places
      PROVE  Cardinality({q \in Leaves : Before(q, LeafOf(n))}) = n
  <2>1. n \in Nat /\ n <= max_blocks
    BY Levels DEF Places
  <2>2. QED
    BY <2>1, LeavesBefore, LeafCount
<1>5. ASSUME NEW n \in Places PROVE LeafSeq[n + 1] = LeafOf(n)
  <2>1. PICK p : p = CHOOSE r \in Leaves : Cardinality({q \in Leaves : Before(q, r)}) = n
    OBVIOUS
  <2>2. p \in Leaves /\ Cardinality({q \in Leaves : Before(q, p)}) = n
    BY <1>4, <2>1, LeafInTree
  <2>3. PICK m \in Places : p = LeafOf(m)
    BY <2>2, LeafPlace
  <2>4. m = n
    BY <1>4, <2>2, <2>3
  <2>5. n + 1 \in 1..max_blocks /\ (n + 1) - 1 = n
    BY Levels DEF Places
  <2>6. QED
    BY <1>3, <2>1, <2>3, <2>4, <2>5
<1>6. Len(LeafSeq) = max_blocks
  BY <1>3, Levels
<1>7. QED
  BY <1>5, <1>6

-----------------------------------------------------------------------------
(* The map from the blocks of the file to the blocks of the disk.          *)

(* Null pointers are pointers of the tree.                                 *)
HolesOK == \A h \in holes : h \in Seq(Nat) /\ h # Null

(* What is below a null pointer is below it at one index or another.       *)
LEMMA PrefixStep ==
  ASSUME NEW h \in Seq(Nat), NEW p \in Seq(Nat), NEW c \in Nat
  PROVE  IsPrefix(h, Append(p, c)) <=> IsPrefix(h, p) \/ h = Append(p, c)
<1>1. PICK l, m, q : l = Len(h) /\ m = Len(p) /\ q = Append(p, c)
  OBVIOUS
<1>2. /\ l \in Nat /\ m \in Nat /\ q \in Seq(Nat) /\ Len(q) = m + 1
      /\ q[m + 1] = c /\ \A i \in 1..m : q[i] = p[i]
  BY <1>1, LenProperties, AppendProperties
<1>3. SubSeq(h, 1, l) = h
  BY <1>1, SubSeqFull
<1>4. CASE l <= m
  <2>1. SubSeq(q, 1, l) = SubSeq(p, 1, l)
    BY <1>1, <1>2, <1>4
  <2>2. IsPrefix(h, q) <=> h = SubSeq(q, 1, l)
    BY <1>1, <1>2, <1>3, <1>4 DEF IsPrefix
  <2>3. IsPrefix(h, p) <=> h = SubSeq(p, 1, l)
    BY <1>1, <1>2, <1>3, <1>4 DEF IsPrefix
  <2>4. h # q
    BY <1>1, <1>2, <1>4
  <2>5. QED
    BY <1>1, <2>1, <2>2, <2>3, <2>4
<1>5. CASE l = m + 1
  <2>1. SubSeq(q, 1, l) = q
    BY <1>2, <1>5, SubSeqFull
  <2>2. IsPrefix(h, q) <=> h = q
    <3>1. Len(h) = l /\ Len(q) = l
      BY <1>1, <1>2, <1>5
    <3>2. SubSeq(h, 1, l) = SubSeq(q, 1, l) <=> h = q
      BY <1>3, <2>1
    <3>3. IsPrefix(h, q) <=> SubSeq(h, 1, l) = SubSeq(q, 1, l)
      BY <1>2, <3>1 DEF IsPrefix
    <3>4. QED
      BY <3>2, <3>3
  <2>3. ~IsPrefix(h, p)
    BY <1>1, <1>2, <1>5 DEF IsPrefix
  <2>4. QED
    BY <1>1, <2>2, <2>3
<1>6. CASE l > m + 1
  <2>1. ~IsPrefix(h, p) /\ ~IsPrefix(h, q) /\ h # q
    BY <1>1, <1>2, <1>6 DEF IsPrefix
  <2>2. QED
    BY <1>1, <2>1
<1>7. l <= m \/ l = m + 1 \/ l > m + 1
  BY ONLY <1>2
<1>8. QED
  BY ONLY <1>4, <1>5, <1>6, <1>7

LEMMA HoleStep ==
  ASSUME HolesOK, NEW p \in Seq(Nat), NEW c \in Nat
  PROVE  InHole(Append(p, c)) <=> InHole(p) \/ Append(p, c) \in holes
<1>1. PICK q : q = Append(p, c)
  OBVIOUS
<1>2. ASSUME NEW h \in holes
      PROVE  IsPrefix(h, q) <=> IsPrefix(h, p) \/ h = q
  <2>1. h \in Seq(Nat)
    BY DEF HolesOK
  <2>2. QED
    BY <1>1, <2>1, PrefixStep
<1>3. InHole(q) <=> InHole(p) \/ q \in holes
  BY <1>2 DEF InHole
<1>4. QED
  BY <1>1, <1>3

LEMMA HoleNone == ASSUME HolesOK PROVE ~InHole(Null)
<1>1. ASSUME NEW h \in holes, IsPrefix(h, Null) PROVE FALSE
  <2>1. h \in Seq(Nat) /\ h # <<>> /\ Len(Null) = 0
    BY EmptySeq DEF HolesOK, Null
  <2>2. Len(h) \in Nat \ {0}
    BY <2>1, EmptySeq, LenProperties
  <2>3. QED
    BY <1>1, <2>1, <2>2 DEF IsPrefix
<1>2. QED
  BY <1>1 DEF InHole

(* x is what a look-up finds of path p: p, or null for a reason.           *)
Finds(x, p, fault) ==
  /\ x = Null \/ x = p
  /\ x = p => ~InHole(p)
  /\ fault = NoFault => InHole(p) \/ x = p

(* The pointers of the inode.                                              *)
LEMMA PointerFinds ==
  ASSUME HolesOK, NEW c \in Nat, NEW fault
  PROVE  Finds(Pointer(Null, c), <<c>>, fault)
<1>1. PICK p : p = <<c>>
  OBVIOUS
<1>2. p \in Seq(Nat) /\ p # Null /\ Append(Null, c) = p
  BY <1>1 DEF Null
<1>3. Null \in Seq(Nat)
  BY EmptySeq DEF Null
<1>4. InHole(p) <=> p \in holes
  BY <1>2, <1>3, HoleStep, HoleNone
<1>5. Pointer(Null, c) = IF p \in holes THEN Null ELSE p
  BY <1>2 DEF Pointer
<1>6. QED
  BY <1>1, <1>2, <1>4, <1>5 DEF Finds

(* The pointers of a block of pointers that was found.                     *)
LEMMA FetchFinds ==
  ASSUME HolesOK, NEW p \in Seq(Nat), p # Null, NEW c \in Nat, NEW fault,
         NEW x, Finds(x, p, fault)
  PROVE  Finds(Fetch(x, c, fault), Append(p, c), fault)
<1>1. PICK q : q = Append(p, c)
  OBVIOUS
<1>2. q # Null
  BY <1>1, AppendProperties DEF Null
<1>3. InHole(q) <=> InHole(p) \/ q \in holes
  BY <1>1, HoleStep
<1>4. NoFault.room = 2 /\ NoFault.bad = {}
  BY DEF NoFault
<1>5. CASE x = Null \/ fault.room < 2 \/ x \in fault.bad
  <2>1. Fetch(x, c, fault) = Null
    BY <1>5 DEF Fetch
  <2>2. fault = NoFault => InHole(q)
    BY <1>3, <1>4, <1>5 DEF Finds
  <2>3. QED
    BY <1>1, <1>2, <2>1, <2>2 DEF Finds
<1>6. CASE ~(x = Null \/ fault.room < 2 \/ x \in fault.bad)
  <2>1. x = p /\ ~InHole(p)
    BY <1>6 DEF Finds
  <2>2. Fetch(x, c, fault) = IF q \in holes THEN Null ELSE q
    BY <1>1, <1>6, <2>1 DEF Fetch, Pointer
  <2>3. QED
    BY <1>1, <1>2, <1>3, <2>1, <2>2 DEF Finds
<1>7. QED
  BY <1>5, <1>6

(* kget_file_block finds the leaf at its place.                            *)
LEMMA MapFinds ==
  ASSUME HolesOK, NEW n \in Places, NEW fault
  PROVE  Finds(kget_file_block(n, fault), LeafOf(n), fault)
<1>1. n \in Nat /\ n < max_blocks
  BY Levels DEF Places
<1>2. CASE n < NDIRECT
  <2>1. kget_file_block(n, fault) = Pointer(Null, n)
    BY <1>1, <1>2, Levels DEF kget_file_block
  <2>2. LeafOf(n) = <<n>>
    BY <1>2 DEF LeafOf
  <2>3. QED
    BY <1>1, <2>1, <2>2, PointerFinds
<1>3. CASE ~(n < NDIRECT) /\ n < single_indirect_end
  <2>1. PICK a : a = n - NDIRECT
    OBVIOUS
  <2>2. a \in Nat
    BY <1>1, <1>3, <2>1, Levels
  <2>3. kget_file_block(n, fault) = Fetch(Pointer(Null, NDIRECT), a, fault)
    BY <1>1, <1>3, <2>1, Levels DEF kget_file_block, Single
  <2>4. <<NDIRECT>> \in Seq(Nat) /\ <<NDIRECT>> # Null
        /\ LeafOf(n) = Append(<<NDIRECT>>, a)
    BY <1>3, <2>1, <2>2, Levels DEF LeafOf, Null
  <2>5. Finds(Pointer(Null, NDIRECT), <<NDIRECT>>, fault)
    BY Levels, PointerFinds
  <2>6. QED
    BY <2>2, <2>3, <2>4, <2>5, FetchFinds
<1>4. CASE ~(n < single_indirect_end) /\ n < double_indirect_end
  <2>1. PICK x : x = n - single_indirect_end
    OBVIOUS
  <2>2. PICK a, b : a = x \div g_block_size /\ b = x % g_block_size
    OBVIOUS
  <2>3. PICK p, top : p = <<NDIRECT + 1>> /\ top = Pointer(Null, NDIRECT + 1)
    OBVIOUS
  <2>4. a \in Nat /\ b \in Nat
    <3>1. x \in Nat /\ x < g_block_size * g_block_size
      BY <1>1, <1>4, <2>1, Levels
    <3>2. QED
      BY <2>2, <3>1, Levels, DoubleDigits DEF TwoDigits, Slots
  <2>5. kget_file_block(n, fault) = Fetch(Fetch(top, a, fault), b, fault)
    BY <1>1, <1>4, <2>1, <2>2, <2>3, Levels
    DEF kget_file_block, Double, blocks_per_indirect
  <2>6. p \in Seq(Nat) /\ p # Null /\ LeafOf(n) = Append(Append(p, a), b)
    BY <1>1, <1>4, <2>1, <2>2, <2>3, <2>4, Levels DEF LeafOf, Null
  <2>7. Finds(top, p, fault)
    BY <2>3, Levels, PointerFinds
  <2>8. Finds(Fetch(top, a, fault), Append(p, a), fault)
    BY <2>4, <2>6, <2>7, FetchFinds
  <2>9. Append(p, a) \in Seq(Nat) /\ Append(p, a) # Null
    BY <2>4, <2>6, AppendProperties DEF Null
  <2>10. QED
    BY <2>4, <2>5, <2>6, <2>8, <2>9, FetchFinds
<1>5. CASE ~(n < double_indirect_end)
  <2>1. PICK x : x = n - double_indirect_end
    OBVIOUS
  <2>2. PICK square : square = g_block_size * g_block_size
    OBVIOUS
  <2>3. PICK a, b, c : /\ a = x \div square /\ b = (x % square) \div g_block_size
                       /\ c = x % g_block_size
    OBVIOUS
  <2>4. PICK p, top : p = <<NDIRECT + 2>> /\ top = Pointer(Null, NDIRECT + 2)
    OBVIOUS
  <2>5. a \in Nat /\ b \in Nat /\ c \in Nat
    <3>1. x \in Nat /\ x < g_block_size * square
      BY <1>1, <1>5, <2>1, <2>2, Levels
    <3>2. ThreeDigits(x, a, b, c)
      BY <2>2, <2>3, <3>1, TripleDigits
    <3>3. QED
      BY <3>2, Levels DEF ThreeDigits, Slots
  <2>6. kget_file_block(n, fault) = Fetch(Fetch(Fetch(top, a, fault), b, fault), c, fault)
    BY <1>1, <1>5, <2>1, <2>2, <2>3, <2>4, Levels
    DEF kget_file_block, Triple, blocks_per_indirect
  <2>7. p \in Seq(Nat) /\ p # Null /\ LeafOf(n) = Append(Append(Append(p, a), b), c)
    BY <1>1, <1>5, <2>1, <2>2, <2>3, <2>4, <2>5, Levels DEF LeafOf, Null
  <2>8. Finds(top, p, fault)
    BY <2>4, Levels, PointerFinds
  <2>9. Finds(Fetch(top, a, fault), Append(p, a), fault)
    BY <2>5, <2>7, <2>8, FetchFinds
  <2>10. PICK q, mid : q = Append(p, a) /\ mid = Fetch(top, a, fault)
    OBVIOUS
  <2>11. q \in Seq(Nat) /\ q # Null
    BY <2>5, <2>7, <2>10, AppendProperties DEF Null
  <2>12. Finds(Fetch(mid, b, fault), Append(q, b), fault)
    BY <2>5, <2>9, <2>10, <2>11, FetchFinds
  <2>13. Append(q, b) \in Seq(Nat) /\ Append(q, b) # Null
    BY <2>5, <2>11, AppendProperties DEF Null
  <2>14. QED
    BY <2>5, <2>6, <2>7, <2>10, <2>12, <2>13, FetchFinds
<1>6. QED
  BY <1>2, <1>3, <1>4, <1>5

(* The map of every file is its tree.                                      *)
LEMMA MapHolds == ASSUME HolesOK PROVE MapIsTree
<1>1. ASSUME NEW i \in 1..Len(LeafSeq)
      PROVE  kget_file_block(i - 1, NoFault) =
               (IF InHole(LeafSeq[i]) THEN Null ELSE LeafSeq[i])
  <2>1. PICK n : n = i - 1
    OBVIOUS
  <2>2. n \in Places /\ n + 1 = i
    BY <2>1, LeafSeqIs, Levels DEF Places
  <2>3. LeafSeq[i] = LeafOf(n) /\ LeafOf(n) # Null
    BY <2>2, LeafSeqIs, LeafInTree, LeafType
  <2>4. Finds(kget_file_block(n, NoFault), LeafOf(n), NoFault)
    BY <2>2, MapFinds
  <2>5. QED
    BY <2>1, <2>3, <2>4 DEF Finds
<1>2. QED
  BY <1>1 DEF MapIsTree

-----------------------------------------------------------------------------
(* The rounds of the loop of ext2_read.                                    *)

(* The order of the natural numbers, as a relation.                        *)
LessThan == {p \in Nat \X Nat : p[1] < p[2]}

(* Every set of numbers with a member has a least one.                     *)
LEMMA Least ==
  ASSUME NEW T, T \subseteq Nat, T # {}
  PROVE  \E x \in T : \A y \in T : x <= y
<1>1. IsWellFoundedOn(LessThan, Nat)
  <2>1. OpToRel(<, Nat) = LessThan
    BY DEF OpToRel, LessThan
  <2>2. QED
    BY <2>1, NatLessThanWellFounded
<1>2. PICK x \in T : \A y \in T : <<y, x>> \notin LessThan
  BY <1>1, WFMin
<1>3. ASSUME NEW y \in T PROVE x <= y
  <2>1. <<y, x>> \notin LessThan /\ x \in Nat /\ y \in Nat
    BY <1>2
  <2>2. QED
    BY <2>1 DEF LessThan
<1>4. QED
  BY <1>3

(* A set with 0 that has the successor of each of its members has all      *)
(* natural numbers.                                                        *)
LEMMA Successors ==
  ASSUME NEW T, 0 \in T, \A n \in Nat : n \in T => n + 1 \in T
  PROVE  Nat \subseteq T
<1>1. SUFFICES ASSUME Nat \ T # {} PROVE FALSE
  OBVIOUS
<1>2. PICK x \in Nat \ T : \A y \in Nat \ T : x <= y
  BY <1>1, Least
<1>3. x # 0 /\ x - 1 \in Nat /\ x - 1 \notin Nat \ T
  BY <1>2
<1>4. QED
  BY <1>2, <1>3

(* Some member of a set of numbers up to n is the greatest.                *)
LEMMA Greatest ==
  ASSUME NEW n \in Nat, NEW S \in SUBSET (1..n), S # {}
  PROVE  Max(S) \in S /\ \A y \in S : Max(S) >= y
<1> DEFINE T == {n - x : x \in S}
<1>1. T \subseteq Nat /\ T # {}
  <2>1. \A x \in S : x \in 1..n /\ n - x \in Nat /\ n - x \in T
    OBVIOUS
  <2>2. QED
    BY <2>1
<1>2. PICK t \in T : \A u \in T : t <= u
  <2> HIDE DEF T
  <2>1. QED
    BY <1>1, Least
<1>3. PICK x \in S : t = n - x
  BY <1>2
<1>4. ASSUME NEW y \in S PROVE x >= y
  <2>1. n - y \in T /\ x \in 1..n /\ y \in 1..n
    OBVIOUS
  <2> HIDE DEF T
  <2>2. n - x <= n - y
    BY <1>2, <1>3, <2>1
  <2>3. QED
    BY <2>1, <2>2
<1>5. QED
  BY <1>4 DEF Max

(* One round, of a loop that has ended or not.                             *)
Round(st, fault) ==
  IF st.remaining = 0 \/ st.rc # 0 THEN st ELSE CopyChunk(st, fault)

CopyBody(f, start, fault, s) ==
  IF s = {} THEN start ELSE Round(f[s \ {Max(s)}], fault)

(* f gives, for each set of rounds in D, what they make of the start.      *)
Copies(f, start, fault, D) == f = [s \in D |-> CopyBody(f, start, fault, s)]

Rounds(start) == start.remaining \div g_block_size + 2

LEMMA CopyUnfolds ==
  ASSUME NEW start, NEW fault, NEW n \in Nat, n = Rounds(start)
  PROVE  Copy(start, fault) =
           (CHOOSE f : Copies(f, start, fault, SUBSET (1..n)))[1..n]
<1>1. DOMAIN [k \in 1..n |-> k] = 1..n
  OBVIOUS
<1>2. QED
  BY <1>1 DEF Copy, FoldLeft, MapThenFoldSet, Copies, CopyBody, Round, Rounds

(* The sets of rounds with no more than k members.                         *)
Small(n, k) == {s \in SUBSET (1..n) : Cardinality(s) <= k}

LEMMA CopiesExist ==
  ASSUME NEW start, NEW fault, NEW n \in Nat
  PROVE  \E f : Copies(f, start, fault, SUBSET (1..n))
<1> DEFINE T == {k \in Nat : \E f : Copies(f, start, fault, Small(n, k))}
<1>1. ASSUME NEW s \in SUBSET (1..n) PROVE IsFiniteSet(s) /\ Cardinality(s) \in 0..n
  <2>1. PICK D : D = 1..n
    OBVIOUS
  <2>2. IsFiniteSet(D) /\ Cardinality(D) = n
    BY <2>1, FS_Interval
  <2>3. s \in SUBSET D
    BY <2>1
  <2>4. IsFiniteSet(s) /\ Cardinality(s) <= n
    BY <2>2, <2>3, FS_Subset
  <2>5. QED
    BY <2>4, FS_CardinalityType
<1>2. 0 \in T
  <2> DEFINE f == [s \in Small(n, 0) |-> start]
  <2>1. ASSUME NEW s \in Small(n, 0) PROVE s = {}
    BY <1>1, FS_EmptySet DEF Small
  <2>2. Copies(f, start, fault, Small(n, 0))
    BY <2>1 DEF CopyBody, Copies
  <2>3. QED
    BY <2>2
<1>3. ASSUME NEW k \in Nat, k \in T PROVE k + 1 \in T
  <2>1. PICK f : Copies(f, start, fault, Small(n, k))
    BY <1>3
  <2> DEFINE g == [s \in Small(n, k + 1) |-> CopyBody(f, start, fault, s)]
  <2>2. ASSUME NEW s \in Small(n, k) PROVE s \in Small(n, k + 1) /\ g[s] = f[s]
    <3>1. s \in Small(n, k + 1)
      BY <1>1 DEF Small
    <3>2. f[s] = CopyBody(f, start, fault, s)
      BY <2>1 DEF Copies
    <3>3. QED
      BY <3>1, <3>2
  <2>3. ASSUME NEW s \in Small(n, k + 1), s # {}
        PROVE  s \ {Max(s)} \in Small(n, k)
    <3>1. s \in SUBSET (1..n) /\ Cardinality(s) <= k + 1 /\ IsFiniteSet(s)
      BY <1>1 DEF Small
    <3>2. PICK m : m = Max(s)
      OBVIOUS
    <3>3. m \in s
      BY <2>3, <3>1, <3>2, Greatest
    <3>4. Cardinality(s \ {m}) = Cardinality(s) - 1
      BY <3>1, <3>3, FS_RemoveElement
    <3>5. s \ {m} \in SUBSET (1..n)
      BY DEF Small
    <3>6. Cardinality(s) \in Nat /\ Cardinality(s) - 1 <= k
      BY <3>1, FS_CardinalityType
    <3>7. QED
      BY <3>2, <3>4, <3>5, <3>6 DEF Small
  <2>4. ASSUME NEW s \in Small(n, k + 1)
        PROVE  CopyBody(g, start, fault, s) = CopyBody(f, start, fault, s)
    <3> HIDE DEF g
    <3>1. QED
      BY <2>2, <2>3 DEF CopyBody
  <2>5. Copies(g, start, fault, Small(n, k + 1))
    BY <2>4 DEF Copies
  <2>6. QED
    BY <2>5
<1> HIDE DEF T
<1>4. Nat \subseteq T
  BY <1>2, <1>3, Successors
<1>5. Small(n, n) = SUBSET (1..n)
  BY <1>1 DEF Small
<1>6. QED
  BY <1>4, <1>5 DEF T

(* a[m] is what the first m rounds make of the start.                      *)
Chain(a, start, fault, n) ==
  /\ a[0] = start
  /\ \A m \in 1..n : a[m] = Round(a[m - 1], fault)

LEMMA CopyChain ==
  ASSUME NEW start, NEW fault, NEW n \in Nat, n = Rounds(start)
  PROVE  \E a : Chain(a, start, fault, n) /\ Copy(start, fault) = a[n]
<1>1. PICK f : Copies(f, start, fault, SUBSET (1..n)) /\ Copy(start, fault) = f[1..n]
  <2>1. PICK f : f = CHOOSE g : Copies(g, start, fault, SUBSET (1..n))
    OBVIOUS
  <2>2. Copies(f, start, fault, SUBSET (1..n))
    <3>1. \E g : Copies(g, start, fault, SUBSET (1..n))
      BY CopiesExist
    <3>2. QED
      BY ONLY <2>1, <3>1
  <2>3. Copy(start, fault) = f[1..n]
    BY <2>1, CopyUnfolds
  <2>4. QED
    BY <2>2, <2>3
<1>2. \A s \in SUBSET (1..n) : f[s] = CopyBody(f, start, fault, s)
  BY <1>1 DEF Copies
<1> DEFINE a == [m \in 0..n |-> f[1..m]]
<1>3. a[0] = start
  <2>1. 1..0 = {} /\ {} \in SUBSET (1..n)
    OBVIOUS
  <2>2. f[1..0] = start
    BY <1>2, <2>1 DEF CopyBody
  <2>3. QED
    BY <2>2
<1>4. ASSUME NEW m \in 1..n PROVE a[m] = Round(a[m - 1], fault)
  <2>1. 1..m \in SUBSET (1..n) /\ 1..m # {} /\ m \in 1..m
    OBVIOUS
  <2>2. Max(1..m) = m
    <3>1. PICK x : x = Max(1..m)
      OBVIOUS
    <3>2. x \in 1..m /\ \A y \in 1..m : x >= y
      BY <2>1, <3>1, Greatest
    <3>3. QED
      BY <2>1, <3>1, <3>2
  <2>3. (1..m) \ {m} = 1..(m - 1)
    OBVIOUS
  <2>4. f[1..m] = Round(f[1..(m - 1)], fault)
    BY <1>2, <2>1, <2>2, <2>3 DEF CopyBody
  <2>5. QED
    BY <2>4
<1>5. a[n] = f[1..n]
  OBVIOUS
<1> HIDE DEF a
<1>6. QED
  BY <1>1, <1>3, <1>4, <1>5 DEF Chain

-----------------------------------------------------------------------------
(* What one round stores.                                                  *)

(* Unit r of the leaf at place q.                                          *)
LEMMA FileUnitIs ==
  ASSUME NEW q \in Places, NEW r \in Slots, NEW u, u = q * g_block_size + r
  PROVE  /\ u \in Nat
         /\ FileUnit(u) = IF InHole(LeafOf(q)) THEN Null ELSE Append(LeafOf(q), r)
<1>1. q \in Nat /\ r \in 0..(g_block_size - 1) /\ g_block_size \in Nat \ {0}
  BY Levels DEF Places, Slots
<1>2. u \in Nat
  BY <1>1
<1>3. u \div g_block_size = q /\ u % g_block_size = r
  BY <1>1, <1>2, DivisionUnique
<1>4. LeafAt(u) = LeafOf(q)
  BY <1>3, LeafSeqIs DEF LeafAt
<1>5. QED
  BY <1>2, <1>3, <1>4 DEF FileUnit, Unit

(* d is the unit of the file at u, or a zero for it.                       *)
Right(d, u, fault) ==
  /\ d \in Seq(Nat)
  /\ d = Null \/ d = FileUnit(u)
  /\ fault = NoFault => d = FileUnit(u)

(* The chunk of l units from p on, where so many are left to store.        *)
ChunkOK(chunk, l, p, left, fault) ==
  /\ l \in Nat \ {0}
  /\ chunk \in [1..l -> Seq(Nat)]
  /\ \A k \in 1..l : Right(chunk[k], p + k - 1, fault)
  /\ l <= left
  /\ (p % g_block_size) + l <= g_block_size
  /\ l = left \/ (p % g_block_size) + l = g_block_size

LEMMA ChunkIs ==
  ASSUME HolesOK, NEW st, NEW p \in Nat, NEW left \in Nat \ {0}, NEW fault,
         st.pos = p, st.remaining = left,
         NEW q \in Places, q = p \div g_block_size
  PROVE  \E l : ChunkOK(Chunk(st, kget_file_block(q, fault)), l, p, left, fault)
<1>1. PICK off : off = p % g_block_size
  OBVIOUS
<1>2. /\ g_block_size \in Nat \ {0} /\ q \in Nat /\ q * g_block_size \in Nat
      /\ off \in 0..(g_block_size - 1) /\ p = q * g_block_size + off
  BY <1>1, Levels, Division
<1>3. PICK room : room = g_block_size - off
  OBVIOUS
<1>4. room \in Nat \ {0}
  BY <1>2, <1>3
<1>5. PICK l : l = Min({room, left})
  OBVIOUS
<1>6. l = IF room <= left THEN room ELSE left
  <2>1. room \in Int /\ left \in Int
    BY <1>4
  <2>2. QED
    BY <1>5, <2>1, MinTwo
<1>7. l \in Nat \ {0} /\ l <= left /\ off + l <= g_block_size
      /\ (l = left \/ off + l = g_block_size)
  BY <1>2, <1>3, <1>4, <1>6
<1>8. PICK blk, leaf : blk = kget_file_block(q, fault) /\ leaf = LeafOf(q)
  OBVIOUS
<1>9. Finds(blk, leaf, fault) /\ leaf \in Seq(Nat) /\ leaf # Null
  BY <1>8, MapFinds, LeafInTree, LeafType
<1>10. PICK chunk : chunk = Chunk(st, blk)
  OBVIOUS
<1>11. chunk = [k \in 1..l |-> IF blk = Null THEN Null ELSE Append(blk, off + k - 1)]
  BY <1>1, <1>3, <1>5, <1>10 DEF Chunk, Unit
<1>12. ASSUME NEW k \in 1..l PROVE Right(chunk[k], p + k - 1, fault)
  <2>1. PICK r, u : r = off + k - 1 /\ u = p + k - 1
    OBVIOUS
  <2>2. r \in 0..(g_block_size - 1)
    BY <1>2, <1>7, <2>1
  <2>3. r \in Slots /\ r \in Nat
    BY <2>2 DEF Slots
  <2>4. u = q * g_block_size + r
    BY <1>2, <1>7, <2>1
  <2>5. FileUnit(u) = IF InHole(leaf) THEN Null ELSE Append(leaf, r)
    BY <1>8, <2>3, <2>4, FileUnitIs
  <2>6. chunk[k] = IF blk = Null THEN Null ELSE Append(blk, r)
    BY <1>11, <2>1
  <2>7. Null \in Seq(Nat) /\ Append(leaf, r) \in Seq(Nat)
    BY <1>9, <2>3, EmptySeq, AppendProperties DEF Null
  <2>8. Right(chunk[k], u, fault)
    <3>1. CASE blk = Null
      BY <1>9, <2>5, <2>6, <2>7, <3>1 DEF Finds, Right
    <3>2. CASE blk # Null
      <4>1. blk = leaf /\ ~InHole(leaf)
        BY <1>9, <3>2 DEF Finds
      <4>2. chunk[k] = FileUnit(u) /\ chunk[k] \in Seq(Nat)
        BY <2>5, <2>6, <2>7, <3>2, <4>1
      <4>3. QED
        BY <4>2 DEF Right
    <3>3. QED
      BY <3>1, <3>2
  <2>9. QED
    BY <2>1, <2>8
<1>13. chunk \in [1..l -> Seq(Nat)]
  BY <1>11, <1>12 DEF Right
<1>14. ChunkOK(chunk, l, p, left, fault)
  BY <1>1, <1>7, <1>12, <1>13 DEF ChunkOK
<1>15. QED
  BY <1>8, <1>10, <1>14

(* A record of the loop.                                                   *)
ProgressType ==
  [pos : Nat, data : Seq(Seq(Nat)), remaining : Nat,
   rc : {0, EXT2_ERR_IO, EXT2_ERR_UNSUPPORTED}]

(* What holds after every round: what is stored is what was asked for from *)
(* the start on, as far as the loop has come.                              *)
Stored(st, from, asked, fault) ==
  /\ st.pos = from + Len(st.data)
  /\ st.remaining = asked - Len(st.data)
  /\ \A k \in 1..Len(st.data) : Right(st.data[k], from + k - 1, fault)
  /\ Len(st.data) > 0 => st.pos <= max_blocks * g_block_size

Ended(st, fault) ==
  /\ st.rc # 0 => st.remaining # 0
  /\ st.rc = EXT2_ERR_UNSUPPORTED => st.pos >= max_blocks * g_block_size
  /\ fault = NoFault => st.rc # EXT2_ERR_IO

Progress(st, from, asked, fault) ==
  st \in ProgressType /\ Stored(st, from, asked, fault) /\ Ended(st, fault)

(* After m rounds the loop has ended, or is at the beginning of a block    *)
(* behind m - 1 whole ones.                                                *)
Moved(st, m) ==
  \/ st.remaining = 0 \/ st.rc # 0 \/ m = 0
  \/ st.pos % g_block_size = 0 /\ (m - 1) * g_block_size < Len(st.data)

(* A chunk that is stored behind what is there.                            *)
LEMMA DeliverKeeps ==
  ASSUME HolesOK, NEW from \in Nat, NEW asked \in Nat, NEW fault, NEW m \in Nat,
         NEW st, Progress(st, from, asked, fault), Moved(st, m),
         st.remaining # 0, st.rc = 0,
         NEW q \in Places, q = st.pos \div g_block_size,
         NEW chunk, chunk = Chunk(st, kget_file_block(q, fault))
  PROVE  Progress(Deliver(st, chunk), from, asked, fault) /\ Moved(Deliver(st, chunk), m + 1)
<1>1. PICK p, left, data : p = st.pos /\ left = st.remaining /\ data = st.data
  OBVIOUS
<1>2. p \in Nat /\ left \in Nat \ {0} /\ data \in Seq(Seq(Nat))
  BY <1>1 DEF Progress, ProgressType
<1>3. PICK l : ChunkOK(chunk, l, p, left, fault)
  BY <1>1, <1>2, ChunkIs
<1>4. PICK n : n = Len(data)
  OBVIOUS
<1>5. n \in Nat /\ \A k \in 1..n : data[k] \in Seq(Nat)
  BY <1>2, <1>4, LenProperties, ElementOfSeq
<1>6. l \in Nat \ {0} /\ Len(chunk) = l /\ chunk \in Seq(Seq(Nat))
  BY <1>3 DEF ChunkOK
<1>7. PICK all : all = data \o chunk
  OBVIOUS
<1>8. /\ all \in Seq(Seq(Nat)) /\ Len(all) = n + l
      /\ \A k \in 1..(n + l) : all[k] = IF k <= n THEN data[k] ELSE chunk[k - n]
  <2>1. PICK S : S = Seq(Nat)
    OBVIOUS
  <2>2. data \in Seq(S) /\ chunk \in Seq(S)
    BY <1>2, <1>6, <2>1
  <2>3. /\ data \o chunk \in Seq(S) /\ Len(data \o chunk) = Len(data) + Len(chunk)
        /\ \A k \in 1..(Len(data) + Len(chunk)) :
             (data \o chunk)[k] = IF k <= Len(data) THEN data[k] ELSE chunk[k - Len(data)]
    BY ONLY <2>2, ConcatProperties
  <2>4. QED
    BY <1>4, <1>6, <1>7, <2>1, <2>3
<1>9. PICK new : new = Deliver(st, chunk)
  OBVIOUS
<1>10. new.pos = p + l /\ new.data = all /\ new.remaining = left - l /\ new.rc = 0
       /\ new = [pos |-> p + l, data |-> all, remaining |-> left - l, rc |-> 0]
  BY <1>1, <1>6, <1>7, <1>9 DEF Deliver
<1>11. p = from + n /\ left = asked - n
       /\ \A k \in 1..n : Right(data[k], from + k - 1, fault)
  BY <1>1, <1>4 DEF Progress, Stored
<1>12. left - l \in Nat
  BY <1>2, <1>3, <1>6 DEF ChunkOK
<1>13. new \in ProgressType
  BY <1>2, <1>6, <1>8, <1>10, <1>12 DEF ProgressType
<1>14. PICK off : off = p % g_block_size
  OBVIOUS
<1>15. /\ g_block_size \in Nat \ {0} /\ q \in Nat /\ q * g_block_size \in Nat
       /\ off \in Nat /\ p = q * g_block_size + off
  <2>1. q = p \div g_block_size
    BY <1>1
  <2>2. g_block_size \in Nat \ {0} /\ p \in Nat
    BY <1>2, Levels
  <2>3. /\ p \div g_block_size \in Nat /\ p % g_block_size \in 0..(g_block_size - 1)
        /\ (p \div g_block_size) * g_block_size \in Nat
        /\ p = (p \div g_block_size) * g_block_size + (p % g_block_size)
    BY ONLY <2>2, Division
  <2>4. QED
    BY <1>14, <2>1, <2>2, <2>3
<1>16. off + l <= g_block_size /\ (l = left \/ off + l = g_block_size)
  BY <1>3, <1>14 DEF ChunkOK
<1>17. Stored(new, from, asked, fault)
  <2>1. ASSUME NEW k \in 1..(n + l) PROVE Right(all[k], from + k - 1, fault)
    <3>1. CASE k <= n
      <4>1. k \in 1..n
        BY <1>5, <1>6, <3>1
      <4>2. all[k] = data[k] /\ Right(data[k], from + k - 1, fault)
        BY <1>8, <1>11, <3>1, <4>1
      <4>3. QED
        BY <4>2
    <3>2. CASE ~(k <= n)
      <4>1. PICK j : j = k - n
        OBVIOUS
      <4>2. j \in 1..l /\ from + k - 1 = p + j - 1
        BY <1>5, <1>6, <1>11, <3>2, <4>1
      <4>3. all[k] = chunk[j]
        BY <1>8, <3>2, <4>1
      <4>4. Right(chunk[j], p + j - 1, fault)
        BY <1>3, <4>2 DEF ChunkOK
      <4>5. QED
        BY <4>2, <4>3, <4>4
    <3>3. QED
      BY <3>1, <3>2
  <2>2. p + l <= max_blocks * g_block_size
    <3>1. q < max_blocks /\ max_blocks \in Nat
      BY Levels DEF Places
    <3>2. /\ q * g_block_size + g_block_size <= max_blocks * g_block_size
          /\ max_blocks * g_block_size \in Nat
      BY <1>15, <3>1, Steps
    <3>3. PICK w, z, b : /\ w = q * g_block_size /\ z = max_blocks * g_block_size
                         /\ b = g_block_size
      OBVIOUS
    <3>4. /\ w + b <= z /\ off + l <= b /\ p = w + off
          /\ {w, z, b, off, l, p} \subseteq Int
      BY <1>6, <1>15, <1>16, <3>2, <3>3
    <3>5. p + l <= z
      BY ONLY <3>4
    <3>6. QED
      BY <3>3, <3>5
  <2>3. new.pos = from + (n + l) /\ new.remaining = asked - (n + l)
    BY <1>5, <1>6, <1>10, <1>11
  <2>4. QED
    BY <1>8, <1>10, <2>1, <2>2, <2>3 DEF Stored
<1>18. Ended(new, fault)
  BY <1>10 DEF Ended, EXT2_ERR_IO, EXT2_ERR_UNSUPPORTED
<1>19. Moved(new, m + 1)
  <2>1. CASE l = left
    BY <1>2, <1>10, <2>1 DEF Moved
  <2>2. CASE off + l = g_block_size
    <3>1. PICK next : next = p + l
      OBVIOUS
    <3>2. next % g_block_size = 0
      <4>1. next = (q + 1) * g_block_size + 0 /\ q + 1 \in Nat /\ 0 \in 0..(g_block_size - 1)
        <5>1. (q + 1) * g_block_size = q * g_block_size + g_block_size
          BY <1>15
        <5>2. next = q * g_block_size + g_block_size
          <6>1. PICK w : w = q * g_block_size
            OBVIOUS
          <6>2. /\ w \in Nat /\ off \in Nat /\ l \in Nat /\ p = w + off
                /\ off + l = g_block_size /\ next = p + l
            BY <1>6, <1>15, <2>2, <3>1, <6>1
          <6>3. next = w + g_block_size
            BY <6>2
          <6>4. QED
            BY <6>1, <6>3
        <5>3. QED
          BY <1>15, <5>1, <5>2
      <4>2. next \in Nat
        BY <1>2, <1>6, <3>1
      <4>3. QED
        BY <1>15, <4>1, <4>2, DivisionUnique
    <3>3. m * g_block_size < n + l
      <4>1. CASE m = 0
        BY <1>5, <1>6, <1>15, <4>1
      <4>2. CASE m # 0
        <5>1. off = 0 /\ (m - 1) * g_block_size < n
          BY <1>1, <1>4, <1>14, <4>2 DEF Moved
        <5>2. m * g_block_size = (m - 1) * g_block_size + g_block_size
              /\ (m - 1) * g_block_size \in Int
          BY <1>15
        <5>3. QED
          BY <1>5, <1>6, <1>15, <2>2, <5>1, <5>2
      <4>3. QED
        BY <4>1, <4>2
    <3>4. (m + 1) - 1 = m
      OBVIOUS
    <3>5. QED
      BY <1>8, <1>10, <3>1, <3>2, <3>3, <3>4 DEF Moved
  <2>3. QED
    BY <1>16, <2>1, <2>2
<1>20. QED
  BY <1>9, <1>13, <1>17, <1>18, <1>19 DEF Progress

(* Every round keeps what is stored right, and ends the loop or moves on.  *)
LEMMA RoundKeeps ==
  ASSUME HolesOK, NEW from \in Nat, NEW asked \in Nat, NEW fault, NEW m \in Nat,
         NEW st, Progress(st, from, asked, fault), Moved(st, m)
  PROVE  Progress(Round(st, fault), from, asked, fault) /\ Moved(Round(st, fault), m + 1)
<1>1. CASE st.remaining = 0 \/ st.rc # 0
  BY <1>1 DEF Round, Moved
<1>2. CASE st.remaining # 0 /\ st.rc = 0
  <2>1. PICK q, blk : q = st.pos \div g_block_size /\ blk = kget_file_block(q, fault)
    OBVIOUS
  <2>2. PICK p : p = st.pos
    OBVIOUS
  <2>3. p \in Nat /\ q \in Nat
    BY <2>1, <2>2, Levels, Division DEF Progress, ProgressType
  <2>4. Round(st, fault) =
          IF q >= max_blocks THEN [st EXCEPT !.rc = EXT2_ERR_UNSUPPORTED]
          ELSE IF blk \in fault.bad THEN [st EXCEPT !.rc = EXT2_ERR_IO]
          ELSE Deliver(st, Chunk(st, blk))
    BY <1>2, <2>1 DEF Round, CopyChunk
  <2>5. CASE q >= max_blocks
    <3>1. PICK new : new = [st EXCEPT !.rc = EXT2_ERR_UNSUPPORTED]
      OBVIOUS
    <3>2. /\ new.pos = p /\ new.data = st.data /\ new.remaining = st.remaining
          /\ new.rc = EXT2_ERR_UNSUPPORTED /\ new \in ProgressType
      BY <2>2, <3>1 DEF Progress, ProgressType
    <3>3. p >= max_blocks * g_block_size
      <4>1. ASSUME p < max_blocks * g_block_size PROVE FALSE
        <5>1. q \in 0..(max_blocks - 1)
          BY <2>1, <2>2, <2>3, <4>1, Levels, QuotientBound
        <5>2. QED
          BY <2>3, <2>5, <5>1, Levels
      <4>2. max_blocks * g_block_size \in Nat
        BY Levels
      <4>3. QED
        BY <2>3, <4>1, <4>2
    <3>4. Stored(new, from, asked, fault)
      BY <2>2, <3>2 DEF Progress, Stored
    <3>5. Ended(new, fault) /\ Moved(new, m + 1)
      BY <1>2, <3>2, <3>3 DEF Ended, Moved, EXT2_ERR_IO, EXT2_ERR_UNSUPPORTED
    <3>6. QED
      BY <2>4, <2>5, <3>1, <3>2, <3>4, <3>5 DEF Progress
  <2>6. CASE ~(q >= max_blocks) /\ blk \in fault.bad
    <3>1. PICK new : new = [st EXCEPT !.rc = EXT2_ERR_IO]
      OBVIOUS
    <3>2. /\ new.pos = p /\ new.data = st.data /\ new.remaining = st.remaining
          /\ new.rc = EXT2_ERR_IO /\ new \in ProgressType
      BY <2>2, <3>1 DEF Progress, ProgressType
    <3>3. fault # NoFault
      BY <2>6 DEF NoFault
    <3>4. Stored(new, from, asked, fault)
      BY <2>2, <3>2 DEF Progress, Stored
    <3>5. Ended(new, fault) /\ Moved(new, m + 1)
      BY <1>2, <3>2, <3>3 DEF Ended, Moved, EXT2_ERR_IO, EXT2_ERR_UNSUPPORTED
    <3>6. QED
      BY <2>4, <2>6, <3>1, <3>2, <3>4, <3>5 DEF Progress
  <2>7. CASE ~(q >= max_blocks) /\ blk \notin fault.bad
    <3>1. q \in Places
      BY <2>3, <2>7, Levels DEF Places
    <3>2. Round(st, fault) = Deliver(st, Chunk(st, blk))
      BY <2>4, <2>7
    <3>3. QED
      BY <1>2, <2>1, <3>1, <3>2, DeliverKeeps
  <2>8. QED
    BY <2>5, <2>6, <2>7
<1>3. QED
  BY <1>1, <1>2

(* The loop makes enough rounds to end.                                    *)
LEMMA CopyEnds ==
  ASSUME HolesOK, NEW from \in Nat, NEW asked \in Nat, NEW fault,
         NEW start, Progress(start, from, asked, fault), Len(start.data) = 0
  PROVE  /\ Progress(Copy(start, fault), from, asked, fault)
         /\ Copy(start, fault).remaining = 0 \/ Copy(start, fault).rc # 0
<1>1. start.remaining = asked
  BY DEF Progress, Stored
<1>2. PICK q, r, n : q = asked \div g_block_size /\ r = asked % g_block_size /\ n = q + 2
  OBVIOUS
<1>3. /\ g_block_size \in Nat \ {0} /\ q \in Nat /\ r \in 0..(g_block_size - 1)
      /\ q * g_block_size \in Nat /\ asked = q * g_block_size + r /\ n \in Nat
  <2>1. g_block_size \in Nat \ {0}
    BY Levels
  <2>2. /\ asked \div g_block_size \in Nat /\ asked % g_block_size \in 0..(g_block_size - 1)
        /\ (asked \div g_block_size) * g_block_size \in Nat
        /\ asked = (asked \div g_block_size) * g_block_size + (asked % g_block_size)
    BY ONLY <2>1, asked \in Nat, Division
  <2>3. QED
    BY <1>2, <2>1, <2>2
<1>4. n = Rounds(start)
  BY <1>1, <1>2 DEF Rounds
<1>5. PICK a : Chain(a, start, fault, n) /\ Copy(start, fault) = a[n]
  BY <1>3, <1>4, CopyChain
<1> DEFINE T == {m \in Nat : m <= n => Progress(a[m], from, asked, fault) /\ Moved(a[m], m)}
<1>6. 0 \in T
  BY <1>5 DEF Chain, Moved
<1>7. ASSUME NEW m \in Nat, m \in T PROVE m + 1 \in T
  <2>1. CASE m + 1 <= n
    <3>1. m + 1 \in 1..n /\ m <= n /\ (m + 1) - 1 = m
      BY <1>3, <2>1
    <3>2. PICK st : st = a[m]
      OBVIOUS
    <3>3. Progress(st, from, asked, fault) /\ Moved(st, m)
      BY <1>7, <3>1, <3>2
    <3>4. a[m + 1] = Round(st, fault)
      BY <1>5, <3>1, <3>2 DEF Chain
    <3>5. Progress(Round(st, fault), from, asked, fault) /\ Moved(Round(st, fault), m + 1)
      BY <3>3, RoundKeeps
    <3>6. QED
      BY <3>4, <3>5
  <2>2. CASE ~(m + 1 <= n)
    BY <2>2
  <2>3. QED
    BY <2>1, <2>2
<1> HIDE DEF T
<1>8. n \in T
  BY <1>3, <1>6, <1>7, Successors
<1>9. Progress(a[n], from, asked, fault) /\ Moved(a[n], n)
  BY <1>3, <1>8 DEF T
<1>10. PICK st : st = a[n]
  OBVIOUS
<1>11. st.remaining = 0 \/ st.rc # 0
  <2>1. PICK l : l = Len(st.data)
    OBVIOUS
  <2>2. l \in Nat /\ asked - l \in Nat
    BY <1>9, <1>10, <2>1, LenProperties DEF Progress, ProgressType, Stored
  <2>3. (n - 1) * g_block_size = q * g_block_size + g_block_size
    BY <1>2, <1>3
  <2>4. ~((n - 1) * g_block_size < l)
    BY <1>3, <2>2, <2>3
  <2>5. n # 0
    BY <1>2, <1>3
  <2>6. QED
    BY <1>9, <1>10, <2>1, <2>4, <2>5 DEF Moved
<1>12. QED
  BY <1>5, <1>9, <1>10, <1>11

-----------------------------------------------------------------------------
(* Every call.                                                             *)

(* The types of the variables, and that no file is read behind its end.    *)
FileOK ==
  /\ pos \in Nat /\ size \in Nat /\ pos <= size
  /\ last \in [from : Nat, len : Nat, faulty : BOOLEAN, data : Seq(Seq(Nat)), ret : Int]
  /\ last.from <= size

(* The inductive invariant.                                                *)
Ext2Inv == HolesOK /\ FileOK /\ NoMisplacedData /\ PosIsDelivered /\ ReadsTheFile

(* Where a call ends in which nothing fails.                               *)
Reach(from, asked) == Min({from + asked, Max({from, max_blocks * g_block_size})})

(* What a call has stored, and how it ended, where nothing has failed.     *)
AllRead(from, asked, data, ret) ==
  /\ data = [k \in 1..(Reach(from, asked) - from) |-> FileUnit(from + k - 1)]
  /\ ret = IF Reach(from, asked) < from + asked THEN EXT2_ERR_UNSUPPORTED ELSE asked

(* What a call has stored, and how it ended.                               *)
CallOK(from, asked, data, ret, faulty) ==
  /\ data \in Seq(Seq(Nat)) /\ Len(data) <= asked /\ ret \in Int
  /\ \A k \in 1..Len(data) : data[k] \in {Null, FileUnit(from + k - 1)}
  /\ ret >= 0 => ret = Len(data)
  /\ ~faulty => AllRead(from, asked, data, ret)

(* What ReadsTheFile and FileUnit say, of any null pointers, size and call. *)
UnitOf(nulls, unit) ==
  IF \E h \in nulls : IsPrefix(h, LeafAt(unit)) THEN Null
  ELSE Unit(LeafAt(unit), unit % g_block_size)

ReadOK(nulls, end, call) ==
  LET asked == Min({call.len, end - call.from})
      reach == Min({call.from + asked, Max({call.from, max_blocks * g_block_size})})
  IN  ~call.faulty =>
        /\ call.data = [k \in 1..(reach - call.from) |-> UnitOf(nulls, call.from + k - 1)]
        /\ call.ret = IF reach < call.from + asked THEN EXT2_ERR_UNSUPPORTED ELSE asked

(* The end of the loop is the end of a call.                               *)
LEMMA EndIsCall ==
  ASSUME HolesOK, NEW from \in Nat, NEW asked \in Nat, NEW fault,
         NEW st, Progress(st, from, asked, fault), st.remaining = 0 \/ st.rc # 0
  PROVE  CallOK(from, asked, st.data, IF st.rc # 0 THEN st.rc ELSE asked, fault # NoFault)
<1>1. PICK data, n, rc, ret : /\ data = st.data /\ n = Len(st.data) /\ rc = st.rc
                              /\ ret = IF st.rc # 0 THEN st.rc ELSE asked
  OBVIOUS
<1>2. PICK top : top = max_blocks * g_block_size
  OBVIOUS
<1>3. top \in Nat
  BY <1>2, Levels
<1>4. data \in Seq(Seq(Nat)) /\ n \in Nat /\ n = Len(data) /\ DOMAIN data = 1..n
      /\ rc \in {0, -1, -3}
  BY <1>1, LenProperties
  DEF Progress, ProgressType, EXT2_ERR_IO, EXT2_ERR_UNSUPPORTED
<1>5. /\ st.remaining = asked - n /\ st.remaining \in Nat /\ st.pos = from + n
      /\ \A k \in 1..n : Right(data[k], from + k - 1, fault)
      /\ n > 0 => from + n <= top
  BY <1>1, <1>2 DEF Progress, ProgressType, Stored
<1>6. /\ rc # 0 => n < asked
      /\ rc = 0 => n = asked
      /\ rc = -3 => from + n >= top
      /\ fault = NoFault => rc # -1
      /\ n <= asked
  BY <1>1, <1>2, <1>4, <1>5 DEF Progress, Ended, EXT2_ERR_IO, EXT2_ERR_UNSUPPORTED
<1>7. \A k \in 1..n : data[k] \in {Null, FileUnit(from + k - 1)}
  BY <1>5 DEF Right
<1>8. ret \in Int /\ (ret >= 0 => ret = n)
  BY <1>1, <1>4, <1>6
<1>9. ASSUME fault = NoFault
      PROVE  AllRead(from, asked, data, ret)
  <2>1. PICK high : high = Max({from, top})
    OBVIOUS
  <2>2. high = IF from >= top THEN from ELSE top
    <3>1. from \in Int /\ top \in Int
      BY <1>3
    <3>2. QED
      BY <2>1, <3>1, MaxTwo
  <2>3. PICK to : to = from + asked
    OBVIOUS
  <2>4. PICK reach : reach = Min({to, high})
    OBVIOUS
  <2>5. reach = IF to <= high THEN to ELSE high
    <3>1. to \in Int /\ high \in Int
      BY <1>3, <2>2, <2>3
    <3>2. QED
      BY <2>4, <3>1, MinTwo
  <2>6. reach = from + n /\ (reach < to <=> rc # 0) /\ rc \in {0, -3}
    <3>1. rc \in {0, -3} /\ high \in Nat
      BY <1>3, <1>4, <1>6, <1>9, <2>2
    <3>2. CASE rc = 0
      BY <1>3, <1>4, <1>5, <1>6, <2>2, <2>3, <2>5, <3>2
    <3>3. CASE rc = -3
      <4>1. n < asked /\ from + n >= top /\ (n > 0 => from + n <= top)
        BY <1>5, <1>6, <3>3
      <4>2. from + n < to /\ high = from + n
        BY <1>3, <1>4, <2>2, <2>3, <4>1
      <4>3. QED
        BY <1>4, <2>3, <2>5, <3>1, <3>3, <4>2
    <3>4. QED
      BY <3>1, <3>2, <3>3
  <2>7. reach - from = n
    BY <1>4, <2>6
  <2>8. data = [k \in 1..n |-> FileUnit(from + k - 1)]
    <3>1. \A k \in 1..n : data[k] = FileUnit(from + k - 1)
      BY <1>5, <1>9 DEF Right
    <3>2. data = [k \in 1..n |-> data[k]]
      BY <1>4
    <3>3. QED
      BY <3>1, <3>2
  <2>9. ret = IF reach < to THEN EXT2_ERR_UNSUPPORTED ELSE asked
    BY <1>1, <2>6 DEF EXT2_ERR_UNSUPPORTED
  <2>10. Reach(from, asked) = reach
    BY <1>2, <2>1, <2>3, <2>4 DEF Reach
  <2>11. QED
    BY <2>3, <2>7, <2>8, <2>9, <2>10 DEF AllRead
<1>10. CallOK(from, asked, data, ret, fault # NoFault)
  BY <1>4, <1>6, <1>7, <1>8, <1>9 DEF CallOK
<1>11. QED
  BY <1>1, <1>10

(* Nothing is left to read at the end of the file, and nothing is read     *)
(* when there is no memory.                                                *)
LEMMA NothingIsCall ==
  ASSUME NEW from \in Nat, NEW asked \in Nat, NEW ret \in Int, NEW faulty \in BOOLEAN,
         (ret < 0 /\ faulty) \/ (ret = 0 /\ asked = 0)
  PROVE  CallOK(from, asked, <<>>, ret, faulty)
<1>1. PICK data : data = <<>>
  OBVIOUS
<1>2. data \in Seq(Seq(Nat)) /\ Len(data) = 0 /\ DOMAIN data = {}
  BY <1>1, EmptySeq
<1>3. ASSUME ~faulty
      PROVE  AllRead(from, asked, data, ret)
  <2>1. PICK top : top = max_blocks * g_block_size
    OBVIOUS
  <2>2. top \in Nat
    BY <2>1, Levels
  <2>3. PICK high : high = Max({from, top})
    OBVIOUS
  <2>4. high = IF from >= top THEN from ELSE top
    <3>1. from \in Int /\ top \in Int
      BY <2>2
    <3>2. QED
      BY <2>3, <3>1, MaxTwo
  <2>5. PICK reach : reach = Min({from, high})
    OBVIOUS
  <2>6. reach = from
    <3>1. from \in Int /\ high \in Int /\ from <= high
      BY <2>2, <2>4
    <3>2. QED
      BY <2>5, <3>1, MinTwo
  <2>7. from + asked = from /\ asked = 0 /\ ret = 0
    BY <1>3
  <2>8. reach - from = 0 /\ 1..0 = {}
    BY <2>6
  <2>9. data = [k \in 1..0 |-> FileUnit(from + k - 1)]
    BY <1>1, <2>8
  <2>10. Reach(from, asked) = from
    BY <2>1, <2>3, <2>5, <2>6, <2>7 DEF Reach
  <2>11. QED
    BY <2>7, <2>8, <2>9, <2>10 DEF AllRead
<1>4. CallOK(from, asked, data, ret, faulty)
  <2>1. ret >= 0 => ret = 0
    OBVIOUS
  <2>2. Len(data) <= asked
    BY <1>2
  <2>3. \A k \in 1..Len(data) : data[k] \in {Null, FileUnit(from + k - 1)}
    BY <1>2
  <2>4. QED
    BY <1>2, <1>3, <2>1, <2>2, <2>3 DEF CallOK
<1>5. QED
  BY <1>1, <1>4

(* What is asked for ends in the file.                                     *)
LEMMA ClampedIs ==
  ASSUME FileOK, NEW len \in Nat
  PROVE  /\ Clamped(len) \in Nat
         /\ pos + Clamped(len) <= size
         /\ pos >= size => Clamped(len) = 0
<1>1. PICK left : left = size - pos
  OBVIOUS
<1>2. left \in Nat /\ (pos >= size => left = 0) /\ pos \in Nat /\ size = pos + left
  BY <1>1 DEF FileOK
<1>3. Clamped(len) = IF len <= left THEN len ELSE left
  <2>1. len \in Int /\ left \in Int
    BY <1>2
  <2>2. QED
    BY <1>1, <2>1, MinTwo DEF Clamped
<1>4. QED
  BY <1>2, <1>3

(* The call that was made: what it stored, what it returned, and where it  *)
(* left the position.                                                      *)
Called(len, fault, data, ret) ==
  /\ CallOK(pos, Clamped(len), data, ret, fault # NoFault)
  /\ pos' = pos + Len(data)
  /\ last' = [from |-> pos, len |-> len, faulty |-> fault # NoFault,
              data |-> data, ret |-> ret]
  /\ UNCHANGED <<holes, size>>

LEMMA CallIs ==
  ASSUME HolesOK, FileOK, NEW len \in Nat, NEW fault, ext2_read(len, fault)
  PROVE  \E data, ret : Called(len, fault, data, ret)
<1>1. PICK asked : asked = Clamped(len)
  OBVIOUS
<1>2. asked \in Nat /\ (pos >= size => asked = 0) /\ pos \in Nat /\ size \in Nat
  BY <1>1, ClampedIs DEF FileOK
<1>3. PICK none : none = <<>>
  OBVIOUS
<1>4. none \in Seq(Seq(Nat)) /\ Len(none) = 0
  BY <1>3, EmptySeq
<1>5. PICK start : start = [pos |-> pos, data |-> none, remaining |-> asked, rc |-> 0]
  OBVIOUS
<1>6. start.pos = pos /\ start.data = none /\ start.remaining = asked /\ start.rc = 0
      /\ start \in ProgressType
  BY <1>2, <1>4, <1>5 DEF ProgressType
<1>7. PICK end : end = IF pos >= size THEN [start EXCEPT !.remaining = 0]
                       ELSE IF fault.room = 0 THEN [start EXCEPT !.rc = EXT2_ERR_IO]
                       ELSE Copy(start, fault)
  OBVIOUS
<1>8. PICK ret : ret = IF end.rc # 0 THEN end.rc
                       ELSE IF pos >= size THEN 0 ELSE asked
  OBVIOUS
<1>9. /\ pos' = end.pos
      /\ last' = [from |-> pos, len |-> len, faulty |-> fault # NoFault,
                  data |-> end.data, ret |-> ret]
      /\ UNCHANGED <<holes, size>>
  BY <1>1, <1>3, <1>5, <1>7, <1>8 DEF ext2_read
<1>10. CallOK(pos, asked, end.data, ret, fault # NoFault) /\ end.pos = pos + Len(end.data)
  <2>1. CASE pos >= size
    <3>1. end.pos = pos /\ end.data = none /\ ret = 0 /\ asked = 0
      BY <1>2, <1>5, <1>7, <1>8, <2>1
    <3>2. CallOK(pos, asked, none, ret, fault # NoFault)
      <4>1. (fault # NoFault) \in BOOLEAN /\ ret \in Int
        BY <3>1
      <4>2. QED
        BY <1>2, <1>3, <3>1, <4>1, NothingIsCall
    <3>3. QED
      BY <1>2, <1>4, <3>1, <3>2
  <2>2. CASE ~(pos >= size) /\ fault.room = 0
    <3>1. end.pos = pos /\ end.data = none /\ ret = -1
      BY <1>5, <1>7, <1>8, <2>2 DEF EXT2_ERR_IO
    <3>2. CallOK(pos, asked, none, ret, fault # NoFault)
      <4>1. PICK faulty \in BOOLEAN : faulty = (fault # NoFault)
        OBVIOUS
      <4>2. faulty
        <5>1. fault # NoFault
          BY <2>2 DEF NoFault
        <5>2. QED
          BY ONLY <4>1, <5>1, Zenon
      <4>3. ret \in Int /\ ret < 0 /\ asked \in Nat /\ pos \in Nat
        BY <1>2, <3>1
      <4>4. (ret < 0 /\ faulty) \/ (ret = 0 /\ asked = 0)
        BY <4>2, <4>3
      <4>5. CallOK(pos, asked, <<>>, ret, faulty)
        BY ONLY <4>3, <4>4, faulty \in BOOLEAN, NothingIsCall, ZenonT(60)
      <4>6. QED
        BY <1>3, <4>1, <4>5
    <3>3. QED
      BY <1>2, <1>4, <3>1, <3>2
  <2>3. CASE ~(pos >= size) /\ ~(fault.room = 0)
    <3>1. end = Copy(start, fault)
      BY <1>7, <2>3
    <3>2. Progress(start, pos, asked, fault)
      BY <1>2, <1>4, <1>6
      DEF Progress, Stored, Ended, EXT2_ERR_IO, EXT2_ERR_UNSUPPORTED
    <3>3. Progress(end, pos, asked, fault) /\ (end.remaining = 0 \/ end.rc # 0)
      BY <1>2, <1>4, <1>6, <3>1, <3>2, CopyEnds
    <3>4. ret = IF end.rc # 0 THEN end.rc ELSE asked
      BY <1>8, <2>3
    <3>5. CallOK(pos, asked, end.data, ret, fault # NoFault)
      BY <1>2, <3>3, <3>4, EndIsCall
    <3>6. QED
      BY <3>3, <3>5 DEF Progress, Stored
  <2>4. QED
    BY <2>1, <2>2, <2>3
<1>11. Called(len, fault, end.data, ret)
  BY <1>1, <1>9, <1>10 DEF Called
<1>12. QED
  BY <1>11

LEMMA CallKeeps ==
  ASSUME Ext2Inv, NEW len \in Lengths, NEW fault \in Faults, ext2_read(len, fault)
  PROVE  Ext2Inv'
<1>1. HolesOK /\ FileOK /\ len \in Nat
  BY Ext2Assumption DEF Ext2Inv
<1>2. PICK data, ret : Called(len, fault, data, ret)
  BY <1>1, CallIs
<1>3. PICK asked, faulty : asked = Clamped(len) /\ faulty = (fault # NoFault)
  OBVIOUS
<1>4. asked \in Nat /\ pos + asked <= size /\ pos \in Nat /\ size \in Nat
  BY <1>1, <1>3, ClampedIs DEF FileOK
<1>5. /\ data \in Seq(Seq(Nat)) /\ Len(data) <= asked /\ ret \in Int
      /\ \A k \in 1..Len(data) : data[k] \in {Null, FileUnit(pos + k - 1)}
      /\ ret >= 0 => ret = Len(data)
      /\ ~faulty => AllRead(pos, asked, data, ret)
  BY <1>2, <1>3 DEF Called, CallOK
<1>6. /\ pos' = pos + Len(data)
      /\ last' = [from |-> pos, len |-> len, faulty |-> faulty, data |-> data, ret |-> ret]
      /\ holes' = holes /\ size' = size
  BY <1>2, <1>3 DEF Called
<1>7. /\ last'.from = pos /\ last'.len = len /\ (last'.faulty <=> faulty)
      /\ last'.data = data /\ last'.ret = ret
  BY <1>6
<1>8. HolesOK'
  BY <1>1, <1>6 DEF HolesOK
<1>9. FileOK'
  <2>1. Len(data) \in Nat /\ pos' = pos + Len(data) /\ pos + Len(data) <= size
    BY <1>4, <1>5, <1>6, LenProperties
  <2>2. faulty \in BOOLEAN
    BY <1>3
  <2>3. last' \in [from : Nat, len : Nat, faulty : BOOLEAN, data : Seq(Seq(Nat)), ret : Int]
    BY <1>1, <1>4, <1>5, <1>6, <2>2
  <2>4. pos' \in Nat /\ size' \in Nat /\ pos' <= size' /\ last'.from <= size'
    BY <1>4, <1>6, <1>7, <2>1
  <2>5. QED
    BY <2>3, <2>4 DEF FileOK
<1>10. \A u : FileUnit(u)' = FileUnit(u)
  BY <1>6 DEF FileUnit, InHole, LeafAt, LeafSeq, Leaves, Before
<1>11. NoMisplacedData'
  BY <1>5, <1>7, <1>10 DEF NoMisplacedData
<1>12. PosIsDelivered'
  BY <1>5, <1>6, <1>7 DEF PosIsDelivered
<1>13. ReadsTheFile'
  <2>1. PICK call : call = [from |-> pos, len |-> len, faulty |-> faulty,
                            data |-> data, ret |-> ret]
    OBVIOUS
  <2>2. /\ call.from = pos /\ call.len = len /\ (call.faulty <=> faulty)
        /\ call.data = data /\ call.ret = ret
    BY <2>1
  <2>3. Min({call.len, size - call.from}) = asked
    BY <1>3, <2>2 DEF Clamped
  <2>4. AllRead(pos, asked, data, ret) <=>
          /\ data = [k \in 1..(Reach(pos, asked) - pos) |-> UnitOf(holes, pos + k - 1)]
          /\ ret = IF Reach(pos, asked) < pos + asked THEN EXT2_ERR_UNSUPPORTED ELSE asked
    BY DEF AllRead, FileUnit, InHole, UnitOf
  <2>5. ReadOK(holes, size, call)
    BY <1>5, <2>2, <2>3, <2>4 DEF ReadOK, Reach
  <2>6. ReadOK(holes', size', last')
    BY <1>6, <2>1, <2>5
  <2>7. QED
    BY <2>6 DEF ReadsTheFile, ReadOK, FileUnit, InHole, UnitOf
<1>14. QED
  BY <1>8, <1>9, <1>11, <1>12, <1>13 DEF Ext2Inv

(* The paths of the tree are paths of numbers.                             *)
LEMMA BlockType ==
  ASSUME NEW blk \in Blocks
  PROVE  blk \in Seq(Nat) /\ blk # Null
<1>1. PICK leaf \in Leaves : blk \in Prefixes(leaf)
  BY DEF Blocks
<1>2. PICK l \in 0..Len(leaf) : blk = SubSeq(leaf, 1, l)
  BY <1>1 DEF Prefixes
<1>3. leaf \in Seq(Nat)
  BY <1>1, LeafType
<1>4. l \in Nat /\ \A i \in 1..l : leaf[i] \in Nat
  BY <1>2, <1>3, LenProperties, ElementOfSeq
<1>5. SubSeq(leaf, 1, l) \in Seq(Nat)
  BY <1>3, <1>4
<1>6. blk # Null
  BY DEF Blocks
<1>7. QED
  BY <1>2, <1>5, <1>6

LEMMA Ext2Initial == Init => Ext2Inv
<1>1. SUFFICES ASSUME Init PROVE Ext2Inv
  OBVIOUS
<1>2. HolesOK
  <2>1. holes = {} \/ \E blk \in Blocks : holes = {blk}
    BY <1>1 DEF Init
  <2>2. QED
    BY <2>1, BlockType DEF HolesOK
<1>3. PICK none : none = <<>>
  OBVIOUS
<1>4. none \in Seq(Seq(Nat)) /\ Len(none) = 0
  BY <1>3, EmptySeq
<1>5. /\ last = [from |-> 0, len |-> 0, faulty |-> FALSE, data |-> none, ret |-> 0]
      /\ pos = 0 /\ size \in Nat
  <2>1. last = [from |-> 0, len |-> 0, faulty |-> FALSE, data |-> <<>>, ret |-> 0]
    BY <1>1 DEF Init
  <2>2. pos = 0 /\ size \in Nat
    BY <1>1, Ext2Assumption DEF Init
  <2>3. QED
    BY <1>3, <2>1, <2>2
<1>6. last.from = 0 /\ last.len = 0 /\ last.data = none /\ last.ret = 0
  BY <1>5
<1>7. FileOK
  BY <1>4, <1>5, <1>6 DEF FileOK
<1>8. NoMisplacedData /\ PosIsDelivered
  BY <1>4, <1>5, <1>6 DEF NoMisplacedData, PosIsDelivered
<1>9. ReadsTheFile
  <2>1. Min({last.len, size - last.from}) = 0
    <3>1. 0 \in Int /\ size \in Int /\ 0 <= size /\ size - 0 = size
      BY <1>5
    <3>2. Min({0, size}) = 0
      BY <3>1, MinTwo
    <3>3. QED
      BY <1>6, <3>1, <3>2
  <2>2. CallOK(0, 0, none, 0, FALSE)
    <3>1. PICK z \in Nat, no \in BOOLEAN : z = 0 /\ no = FALSE
      OBVIOUS
    <3>2. z \in Int
      OBVIOUS
    <3>3. CallOK(z, z, <<>>, z, no)
      BY ONLY <3>1, <3>2, z \in Nat, no \in BOOLEAN, NothingIsCall
    <3>4. QED
      BY <1>3, <3>1, <3>3
  <2>3. AllRead(0, 0, none, 0)
    BY <2>2 DEF CallOK
  <2>4. QED
    BY <1>6, <2>1, <2>3 DEF ReadsTheFile, AllRead, Reach
<1>10. QED
  BY <1>2, <1>7, <1>8, <1>9 DEF Ext2Inv

LEMMA Ext2Step == ASSUME Ext2Inv, [Next]_vars PROVE Ext2Inv'
<1>1. CASE Next
  BY <1>1, CallKeeps DEF Next
<1>2. CASE UNCHANGED vars
  <2>1. holes' = holes /\ size' = size /\ pos' = pos /\ last' = last
    BY <1>2 DEF vars
  <2>2. \A u : FileUnit(u)' = FileUnit(u)
    BY <2>1 DEF FileUnit, InHole, LeafAt, LeafSeq, Leaves, Before
  <2>3. HolesOK' /\ FileOK'
    BY <2>1 DEF Ext2Inv, HolesOK, FileOK
  <2>4. NoMisplacedData' /\ PosIsDelivered'
    BY <2>1, <2>2 DEF Ext2Inv, NoMisplacedData, PosIsDelivered
  <2>5. ReadsTheFile'
    BY <2>1, <2>2 DEF Ext2Inv, ReadsTheFile
  <2>6. QED
    BY <2>3, <2>4, <2>5 DEF Ext2Inv
<1>3. QED
  BY <1>1, <1>2

(* After every sequence of calls, whatever failed in them, the files and   *)
(* the last call are as the invariant says.                                *)
THEOREM Ext2Invariance == Spec => []Ext2Inv
<1>1. Init => Ext2Inv
  BY Ext2Initial
<1>2. Ext2Inv /\ [Next]_vars => Ext2Inv'
  BY Ext2Step
<1>3. QED
  BY <1>1, <1>2, PTL DEF Spec

(* The map from the blocks of a file to the blocks of the disk is the tree *)
(* of its pointers, through all three levels (ext2.c, 433-591).            *)
THEOREM MapAlwaysIsTree == Spec => []MapIsTree
<1>1. Ext2Inv => MapIsTree
  BY MapHolds DEF Ext2Inv
<1>2. QED
  BY <1>1, Ext2Invariance, PTL

(* A call of ext2_read in which nothing fails stores exactly the units of  *)
(* the file it was asked for.                                              *)
THEOREM AlwaysReadsTheFile == Spec => []ReadsTheFile
<1>1. Ext2Inv => ReadsTheFile
  BY DEF Ext2Inv
<1>2. QED
  BY <1>1, Ext2Invariance, PTL

(* Whatever fails, no data of another place of the file is stored.         *)
THEOREM NeverMisplaced == Spec => []NoMisplacedData
<1>1. Ext2Inv => NoMisplacedData
  BY DEF Ext2Inv
<1>2. QED
  BY <1>1, Ext2Invariance, PTL

(* The position moves by what is stored, on the error paths too.           *)
THEOREM PosAlwaysDelivered == Spec => []PosIsDelivered
<1>1. Ext2Inv => PosIsDelivered
  BY DEF Ext2Inv
<1>2. QED
  BY <1>1, Ext2Invariance, PTL
=============================================================================
