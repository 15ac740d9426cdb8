----------------------------- MODULE ShellProofs -----------------------------
(***************************************************************************)
(* Proofs about the line editor and the dispatch of commands: however many *)
(* characters are typed, the overflow flag tells whether the buffer is the *)
(* line, and what runs is what was typed.                                  *)
(***************************************************************************)
EXTENDS Terminal, FiniteSetTheorems, SequenceTheorems, WellFoundedInduction, TLAPS

(* The order of the natural numbers, as a relation.                        *)
LessThan == {p \in Nat \X Nat : p[1] < p[2]}

(* Every set of numbers with a member has a least one.                     *)
LEMMA Least ==
  ASSUME NEW T, T \subseteq Nat, T # {}
  PROVE  \E x \in T : \A y \in T : x <= y
<1>1. IsWellFoundedOn(LessThan, Nat)
  <2>1. OpToRel(<, Nat) = LessThan
    BY DEF OpToRel, LessThan
  <2>2. QED
    BY <2>1, NatLessThanWellFounded
<1>2. PICK x \in T : \A y \in T : <<y, x>> \notin LessThan
  BY <1>1, WFMin
<1>3. ASSUME NEW y \in T PROVE x <= y
  <2>1. <<y, x>> \notin LessThan /\ x \in Nat /\ y \in Nat
    BY <1>2
  <2>2. QED
    BY <2>1 DEF LessThan
<1>4. QED
  BY <1>3

(* A set with 0 that has the successor of each of its members has all      *)
(* natural numbers.                                                        *)
LEMMA Successors ==
  ASSUME NEW T, 0 \in T, \A n \in Nat : n \in T => n + 1 \in T
  PROVE  Nat \subseteq T
<1>1. SUFFICES ASSUME Nat \ T # {} PROVE FALSE
  OBVIOUS
<1>2. PICK x \in Nat \ T : \A y \in Nat \ T : x <= y
  BY <1>1, Least
<1>3. x # 0 /\ x - 1 \in Nat /\ x - 1 \notin Nat \ T
  BY <1>2
<1>4. QED
  BY <1>2, <1>3

(* Some member of a set of numbers up to n is the greatest.                *)
LEMMA Greatest ==
  ASSUME NEW n \in Nat, NEW S \in SUBSET (1..n), S # {}
  PROVE  Max(S) \in S /\ \A y \in S : Max(S) >= y
<1> DEFINE T == {n - x : x \in S}
<1>1. T \subseteq Nat /\ T # {}
  <2>1. \A x \in S : x \in 1..n /\ n - x \in Nat /\ n - x \in T
    OBVIOUS
  <2>2. QED
    BY <2>1
<1>2. PICK t \in T : \A u \in T : t <= u
  <2> HIDE DEF T
  <2>1. QED
    BY <1>1, Least
<1>3. PICK x \in S : t = n - x
  BY <1>2
<1>4. ASSUME NEW y \in S PROVE x >= y
  <2>1. n - y \in T /\ x \in 1..n /\ y \in 1..n
    OBVIOUS
  <2> HIDE DEF T
  <2>2. n - x <= n - y
    BY <1>2, <1>3, <2>1
  <2>3. QED
    BY <2>1, <2>2
<1>5. QED
  BY <1>4 DEF Max

-----------------------------------------------------------------------------
(* The line as the characters are typed, one after the other.              *)

(* What one character makes of the line.                                   *)
EditStep(line, ch) ==
  IF ch # BACKSPACE THEN Append(line, ch)
  ELSE IF line = <<>> THEN line ELSE Front(line)

(* The line that the characters at the places s make, given the others.    *)
EditBody(f, chars, s) ==
  IF s = {} THEN <<>> ELSE EditStep(f[s \ {Max(s)}], chars[Max(s)])

(* f gives, for each set of places of the text in D, what the characters   *)
(* there make of the empty line.                                           *)
Edits(f, chars, D) == f = [s \in D |-> EditBody(f, chars, s)]

(* The recursive function of the fold.                                     *)
LEMMA EditedUnfolds ==
  ASSUME NEW chars
  PROVE  Edited(chars) = (CHOOSE f : Edits(f, chars, SUBSET DOMAIN chars))[DOMAIN chars]
BY DEF Edited, FoldLeft, MapThenFoldSet, Edits, EditBody, EditStep

(* The sets of places with no more than n members.                         *)
Small(chars, n) == {s \in SUBSET DOMAIN chars : Cardinality(s) <= n}

(* There is such a function.                                               *)
LEMMA EditsExist ==
  ASSUME NEW chars, NEW n \in Nat, DOMAIN chars = 1..n
  PROVE  \E f : Edits(f, chars, SUBSET DOMAIN chars)
<1> DEFINE T == {k \in Nat : \E f : Edits(f, chars, Small(chars, k))}
<1>1. ASSUME NEW s \in SUBSET DOMAIN chars PROVE IsFiniteSet(s) /\ Cardinality(s) \in 0..n
  <2>1. IsFiniteSet(1..n) /\ Cardinality(1..n) = n
    BY FS_Interval
  <2>2. QED
    BY <2>1, FS_Subset, FS_CardinalityType
<1>2. 0 \in T
  <2> DEFINE f == [s \in Small(chars, 0) |-> <<>>]
  <2>1. ASSUME NEW s \in Small(chars, 0) PROVE s = {}
    BY <1>1, FS_EmptySet DEF Small
  <2>2. Edits(f, chars, Small(chars, 0))
    BY <2>1 DEF EditBody, Edits
  <2>3. QED
    BY <2>2
<1>3. ASSUME NEW k \in Nat, k \in T PROVE k + 1 \in T
  <2>1. PICK f : Edits(f, chars, Small(chars, k))
    BY <1>3
  <2> DEFINE g == [s \in Small(chars, k + 1) |-> EditBody(f, chars, s)]
  <2>2. ASSUME NEW s \in Small(chars, k) PROVE s \in Small(chars, k + 1) /\ g[s] = f[s]
    <3>1. s \in Small(chars, k + 1)
      BY <1>1 DEF Small
    <3>2. f[s] = EditBody(f, chars, s)
      BY <2>1 DEF Edits
    <3>3. QED
      BY <3>1, <3>2
  <2>3. ASSUME NEW s \in Small(chars, k + 1), s # {}
        PROVE  s \ {Max(s)} \in Small(chars, k)
    <3>1. s \in SUBSET (1..n) /\ Cardinality(s) <= k + 1 /\ IsFiniteSet(s)
      BY <1>1 DEF Small
    <3>2. PICK m : m = Max(s)
      OBVIOUS
    <3>3. m \in s
      BY <2>3, <3>1, <3>2, Greatest
    <3>4. Cardinality(s \ {m}) = Cardinality(s) - 1
      BY <3>1, <3>3, FS_RemoveElement
    <3>5. s \ {m} \in SUBSET DOMAIN chars
      BY DEF Small
    <3>6. Cardinality(s) \in Nat /\ Cardinality(s) - 1 <= k
      BY <3>1, FS_CardinalityType
    <3>7. QED
      BY <3>2, <3>4, <3>5, <3>6 DEF Small
  <2>4. ASSUME NEW s \in Small(chars, k + 1) PROVE EditBody(g, chars, s) = EditBody(f, chars, s)
    <3> HIDE DEF g
    <3>1. QED
      BY <2>2, <2>3 DEF EditBody
  <2>5. Edits(g, chars, Small(chars, k + 1))
    BY <2>4 DEF Edits
  <2>6. QED
    BY <2>5
<1> HIDE DEF T
<1>4. Nat \subseteq T
  BY <1>2, <1>3, Successors
<1>5. Small(chars, n) = SUBSET DOMAIN chars
  BY <1>1 DEF Small
<1>6. QED
  BY <1>4, <1>5 DEF T

(* The line that the characters at the first m places make.                *)
Chain(chars, a) ==
  /\ a[0] = <<>>
  /\ \A m \in 1..Len(chars) : a[m] = EditStep(a[m - 1], chars[m])

(* One character is edited after the other.                                *)
LEMMA EditedChain ==
  ASSUME NEW C, NEW chars \in Seq(C)
  PROVE  \E a : Chain(chars, a) /\ Edited(chars) = a[Len(chars)]
<1>1. PICK n : n = Len(chars)
  OBVIOUS
<1>2. n \in Nat /\ DOMAIN chars = 1..n
  BY <1>1
<1>3. PICK f : Edits(f, chars, SUBSET DOMAIN chars) /\ Edited(chars) = f[DOMAIN chars]
  BY <1>2, EditsExist, EditedUnfolds
<1>4. \A s \in SUBSET (1..n) : f[s] = EditBody(f, chars, s)
  BY <1>2, <1>3 DEF Edits
<1> DEFINE a == [m \in 0..n |-> f[1..m]]
<1>5. a[0] = <<>>
  <2>1. 1..0 = {} /\ {} \in SUBSET (1..n)
    OBVIOUS
  <2>2. f[1..0] = <<>>
    BY <1>4, <2>1 DEF EditBody
  <2>3. QED
    BY <1>2, <2>2
<1>6. ASSUME NEW m \in 1..n PROVE a[m] = EditStep(a[m - 1], chars[m])
  <2>1. 1..m \in SUBSET (1..n) /\ 1..m # {} /\ m \in 1..m
    BY <1>2
  <2>2. Max(1..m) = m
    <3>1. PICK x : x = Max(1..m)
      OBVIOUS
    <3>2. x \in 1..m /\ \A y \in 1..m : x >= y
      BY <1>2, <2>1, <3>1, Greatest
    <3>3. QED
      BY <2>1, <3>1, <3>2
  <2>3. (1..m) \ {m} = 1..(m - 1)
    OBVIOUS
  <2>4. f[1..m] = EditStep(f[1..(m - 1)], chars[m])
    BY <1>4, <2>1, <2>2, <2>3 DEF EditBody
  <2>5. QED
    BY <1>2, <2>4
<1>7. a[n] = f[1..n]
  BY <1>2
<1> HIDE DEF a
<1>8. QED
  BY <1>1, <1>2, <1>3, <1>5, <1>6, <1>7 DEF Chain

(* Before the first character the line is empty, and each character edits  *)
(* the line that the ones before it have left.                             *)
LEMMA EditedAppend ==
  ASSUME NEW C, NEW chars \in Seq(C), NEW c \in C
  PROVE  Edited(Append(chars, c)) = EditStep(Edited(chars), c)
<1>1. PICK more : more = Append(chars, c)
  OBVIOUS
<1>2. PICK n : n = Len(chars)
  OBVIOUS
<1>3. /\ more \in Seq(C) /\ n \in Nat /\ Len(more) = n + 1 /\ more[n + 1] = c
      /\ \A m \in 1..n : more[m] = chars[m]
  BY <1>1, <1>2
<1>4. PICK a : Chain(chars, a) /\ Edited(chars) = a[n]
  BY <1>2, EditedChain
<1>5. PICK b : Chain(more, b) /\ Edited(more) = b[n + 1]
  BY <1>3, EditedChain
<1> DEFINE T == {m \in Nat : m <= n => a[m] = b[m]}
<1>6. 0 \in T
  BY <1>4, <1>5 DEF Chain
<1>7. ASSUME NEW m \in Nat, m \in T PROVE m + 1 \in T
  <2>1. CASE m + 1 <= n
    <3>1. m + 1 \in 1..n /\ m + 1 \in 1..(n + 1) /\ m <= n /\ (m + 1) - 1 = m
      BY <1>3, <2>1
    <3>2. a[m + 1] = EditStep(a[m], chars[m + 1])
      BY <1>2, <1>4, <3>1 DEF Chain
    <3>3. b[m + 1] = EditStep(b[m], more[m + 1])
      BY <1>3, <1>5, <3>1 DEF Chain
    <3>4. a[m] = b[m] /\ chars[m + 1] = more[m + 1]
      BY <1>3, <1>7, <3>1
    <3>5. QED
      BY <3>2, <3>3, <3>4
  <2>2. CASE ~(m + 1 <= n)
    BY <2>2
  <2>3. QED
    BY <2>1, <2>2
<1> HIDE DEF T
<1>8. n \in T
  <2>1. Nat \subseteq T
    BY ONLY <1>6, <1>7, Successors
  <2>2. QED
    BY <1>3, <2>1
<1>9. a[n] = b[n]
  BY <1>3, <1>8 DEF T
<1>10. b[n + 1] = EditStep(b[n], c)
  <2>1. n + 1 \in 1..(n + 1) /\ (n + 1) - 1 = n
    BY <1>3
  <2>2. QED
    BY <1>3, <1>5, <2>1 DEF Chain
<1>11. QED
  BY <1>1, <1>4, <1>5, <1>9, <1>10

(* The characters of a line, and the ones that are typed.                  *)
Shown == Letters \cup {SPACE}

Typed == Shown \cup {BACKSPACE}

(* One character makes the line one character longer, or none.             *)
LEMMA EditStepType ==
  ASSUME NEW line \in Seq(Shown), NEW c \in Typed
  PROVE  EditStep(line, c) \in Seq(Shown) /\ Len(EditStep(line, c)) <= Len(line) + 1
<1>1. CASE c = BACKSPACE /\ line = <<>>
  BY <1>1 DEF EditStep
<1>2. CASE c = BACKSPACE /\ line # <<>>
  <2>1. EditStep(line, c) = SubSeq(line, 1, Len(line) - 1)
    BY <1>2 DEF EditStep, Front
  <2>2. Len(line) \in Nat \ {0} /\ \A i \in 1..Len(line) : line[i] \in Shown
    BY <1>2, EmptySeq, LenProperties, ElementOfSeq
  <2>3. PICK k : k = Len(line) - 1
    OBVIOUS
  <2>4. k \in Nat /\ \A i \in 1..k : line[i] \in Shown
    BY <2>2, <2>3
  <2>5. SubSeq(line, 1, k) \in Seq(Shown) /\ Len(SubSeq(line, 1, k)) <= k
    BY <2>4, SubSeqProperties
  <2>6. QED
    BY <2>1, <2>2, <2>3, <2>5
<1>3. CASE c # BACKSPACE
  <2>1. c \in Shown /\ EditStep(line, c) = Append(line, c)
    BY <1>3 DEF EditStep, Typed
  <2>2. QED
    BY <2>1, AppendProperties
<1>4. QED
  BY <1>1, <1>2, <1>3

(* A line has no more characters than were typed for it.                   *)
LEMMA EditedType ==
  ASSUME NEW chars \in Seq(Typed)
  PROVE  /\ Edited(chars) \in Seq(Shown)
         /\ Len(Edited(chars)) <= Len(chars)
         /\ chars = <<>> => Edited(chars) = <<>>
<1>1. PICK n : n = Len(chars)
  OBVIOUS
<1>2. n \in Nat /\ \A m \in 1..n : chars[m] \in Typed
  BY <1>1
<1>3. PICK a : Chain(chars, a) /\ Edited(chars) = a[n]
  BY <1>1, EditedChain
<1> DEFINE T == {m \in Nat : m <= n => a[m] \in Seq(Shown) /\ Len(a[m]) <= m}
<1>4. 0 \in T
  <2>1. PICK none : none = <<>>
    OBVIOUS
  <2>2. none \in Seq(Shown) /\ Len(none) = 0
    BY <2>1, EmptySeq
  <2>3. a[0] = none
    BY <1>3, <2>1 DEF Chain
  <2>4. a[0] \in Seq(Shown) /\ Len(a[0]) <= 0
    BY <2>2, <2>3
  <2>5. QED
    BY <2>4
<1>5. ASSUME NEW m \in Nat, m \in T PROVE m + 1 \in T
  <2>1. CASE m + 1 <= n
    <3>1. PICK line, c : line = a[m] /\ c = chars[m + 1]
      OBVIOUS
    <3>2. m + 1 \in 1..n /\ m <= n /\ (m + 1) - 1 = m
      BY <1>2, <2>1
    <3>3. line \in Seq(Shown) /\ Len(line) <= m /\ c \in Typed
      BY <1>2, <1>5, <3>1, <3>2
    <3>4. a[m + 1] = EditStep(line, c)
      BY <1>1, <1>3, <3>1, <3>2 DEF Chain
    <3>5. EditStep(line, c) \in Seq(Shown) /\ Len(EditStep(line, c)) <= Len(line) + 1
      BY <3>3, EditStepType
    <3>6. Len(line) \in Nat /\ Len(EditStep(line, c)) \in Nat
      BY <3>3, <3>5, LenProperties
    <3>7. a[m + 1] \in Seq(Shown) /\ Len(a[m + 1]) <= m + 1
      BY <3>3, <3>4, <3>5, <3>6
    <3>8. QED
      BY <3>7
  <2>2. CASE ~(m + 1 <= n)
    BY <2>2
  <2>3. QED
    BY <2>1, <2>2
<1> HIDE DEF T
<1>6. n \in T
  <2>1. Nat \subseteq T
    BY ONLY <1>4, <1>5, Successors
  <2>2. QED
    BY <1>2, <2>1
<1>7. a[n] \in Seq(Shown) /\ Len(a[n]) <= n
  BY <1>2, <1>6 DEF T
<1>8. chars = <<>> => a[n] = <<>>
  BY <1>1, <1>3 DEF Chain
<1>9. QED
  BY <1>1, <1>3, <1>7, <1>8

(* The buffer has had room for all of the line so far exactly if it had    *)
(* before the last character and has now.                                  *)
LEMMA FitsAppend ==
  ASSUME NEW chars \in Seq(Typed), NEW c \in Typed
  PROVE  Fits(Append(chars, c)) <=>
           Fits(chars) /\ Len(Edited(Append(chars, c))) < CMD_BUFFER_SIZE
<1>1. PICK more, n : more = Append(chars, c) /\ n = Len(chars)
  OBVIOUS
<1>2. n \in Nat /\ Len(more) = n + 1 /\ more \in Seq(Typed)
  BY <1>1
<1>3. \A m \in 0..n : SubSeq(more, 1, m) = SubSeq(chars, 1, m)
  BY <1>1
<1>4. SubSeq(more, 1, n + 1) = more
  BY <1>2
<1>5. \A m : m \in 0..(n + 1) <=> m \in 0..n \/ m = n + 1
  BY <1>2
<1>6. Fits(chars) <=> \A m \in 0..n : Len(Edited(SubSeq(chars, 1, m))) < CMD_BUFFER_SIZE
  BY <1>1 DEF Fits
<1>7. Fits(more) <=>
        \A m \in 0..(n + 1) : Len(Edited(SubSeq(more, 1, m))) < CMD_BUFFER_SIZE
  BY <1>2 DEF Fits
<1>8. QED
  BY <1>1, <1>3, <1>4, <1>5, <1>6, <1>7

(* What is typed so far fits, the line in particular.                      *)
LEMMA FitsNow ==
  ASSUME NEW chars \in Seq(Typed), Fits(chars)
  PROVE  Len(Edited(chars)) < CMD_BUFFER_SIZE
<1>1. SubSeq(chars, 1, Len(chars)) = chars /\ Len(chars) \in 0..Len(chars)
  OBVIOUS
<1>2. QED
  BY <1>1 DEF Fits

(* Nothing typed fits.                                                     *)
LEMMA FitsNothing == Fits(<<>>)
<1>1. PICK none : none = <<>>
  OBVIOUS
<1>2. none \in Seq(Typed) /\ Len(none) = 0
  BY <1>1, EmptySeq
<1>3. SubSeq(none, 1, 0) = none
  BY <1>1, SubSeqEmpty
<1>4. Edited(none) \in Seq(Shown) /\ Len(Edited(none)) <= 0
  BY <1>2, EditedType
<1>5. Len(Edited(none)) < CMD_BUFFER_SIZE
  BY <1>4, LenProperties, ShellAssumption
<1>6. ASSUME NEW n \in 0..Len(none)
      PROVE  Len(Edited(SubSeq(none, 1, n))) < CMD_BUFFER_SIZE
  <2>1. n = 0
    BY <1>2
  <2>2. QED
    BY <1>3, <1>5, <2>1
<1>7. Fits(none)
  BY <1>6 DEF Fits
<1>8. QED
  BY <1>1, <1>7

-----------------------------------------------------------------------------
(* The two words of a line.                                                *)

(* Where the loops of handle_command stop: at the first place p, counted   *)
(* from 0, that is the end of s or is in Stops.                            *)
LEMMA FirstStop ==
  ASSUME NEW n \in Nat, NEW Stops \in SUBSET (1..n)
  PROVE  \E p \in 0..n : /\ \A i \in 1..p : i \notin Stops
                         /\ p = n \/ p + 1 \in Stops
<1> DEFINE T == {p \in Nat : p = n \/ p + 1 \in Stops}
<1>1. n \in T /\ T \subseteq Nat
  OBVIOUS
<1>2. PICK p \in T : \A q \in T : p <= q
  <2> HIDE DEF T
  <2>1. QED
    BY <1>1, Least
<1>3. p <= n /\ p \in Nat
  BY <1>1, <1>2
<1>4. ASSUME NEW i \in 1..p PROVE i \notin Stops
  <2>1. i - 1 \in Nat /\ (i - 1) + 1 = i /\ ~(p <= i - 1)
    BY <1>3
  <2>2. i - 1 \notin T
    BY <1>2, <2>1
  <2>3. QED
    BY <2>1, <2>2
<1>5. p \in 0..n
  BY <1>3
<1>6. QED
  BY <1>2, <1>4, <1>5

(* The name has no space in it and goes as far as it can.                  *)
LEMMA NameEnds ==
  ASSUME NEW line \in Seq(Shown)
  PROVE  /\ NameLength(line) \in 0..Len(line)
         /\ \A i \in 1..NameLength(line) : line[i] # SPACE
         /\ NameLength(line) = Len(line) \/ line[NameLength(line) + 1] = SPACE
<1>1. PICK n : n = Len(line)
  OBVIOUS
<1>2. n \in Nat
  BY <1>1, LenProperties
<1>3. PICK Stops \in SUBSET (1..n) : \A i \in 1..n : i \in Stops <=> line[i] = SPACE
  <2>1. {i \in 1..n : line[i] = SPACE} \in SUBSET (1..n)
    OBVIOUS
  <2>2. QED
    BY <2>1
<1>4. PICK p \in 0..n : /\ \A i \in 1..p : i \notin Stops
                        /\ p = n \/ p + 1 \in Stops
  BY <1>2, FirstStop
<1>5. /\ \A i \in 1..p : line[i] # SPACE
      /\ p = n \/ line[p + 1] = SPACE
  <2>1. \A i \in 1..p : i \in 1..n
    BY <1>2
  <2>2. p = n \/ p + 1 \in 1..n
    BY <1>2
  <2>3. QED
    BY <1>3, <1>4, <2>1, <2>2
<1>6. QED
  BY <1>1, <1>5 DEF NameLength

(* What SkipSpaces leaves out is spaces, all that s begins with.           *)
LEMMA SpacesEnd ==
  ASSUME NEW s \in Seq(Shown)
  PROVE  \E k \in 0..Len(s) : /\ SkipSpaces(s) = SubSeq(s, k + 1, Len(s))
                              /\ \A i \in 1..k : s[i] = SPACE
                              /\ k = Len(s) \/ s[k + 1] # SPACE
<1>1. PICK n : n = Len(s)
  OBVIOUS
<1>2. n \in Nat
  BY <1>1, LenProperties
<1>3. PICK Stops \in SUBSET (1..n) : \A i \in 1..n : i \in Stops <=> s[i] # SPACE
  <2>1. {i \in 1..n : s[i] # SPACE} \in SUBSET (1..n)
    OBVIOUS
  <2>2. QED
    BY <2>1
<1>4. PICK p \in 0..n : /\ \A i \in 1..p : i \notin Stops
                        /\ p = n \/ p + 1 \in Stops
  BY <1>2, FirstStop
<1>5. /\ \A i \in 1..p : s[i] = SPACE
      /\ p = n \/ s[p + 1] # SPACE
  <2>1. \A i \in 1..p : i \in 1..n
    BY <1>2
  <2>2. p = n \/ p + 1 \in 1..n
    BY <1>2
  <2>3. QED
    BY <1>3, <1>4, <2>1, <2>2
<1>6. PICK k : k = CHOOSE q \in 0..Len(s) :
                     /\ \A i \in 1..q : s[i] = SPACE
                     /\ q = Len(s) \/ s[q + 1] # SPACE
  OBVIOUS
<1>7. /\ k \in 0..Len(s)
      /\ \A i \in 1..k : s[i] = SPACE
      /\ k = Len(s) \/ s[k + 1] # SPACE
  BY <1>1, <1>5, <1>6
<1>8. SkipSpaces(s) = SubSeq(s, k + 1, Len(s))
  BY <1>6 DEF SkipSpaces
<1>9. QED
  BY <1>7, <1>8

(* line is name, n spaces and args, and neither word begins or ends        *)
(* anywhere else.                                                          *)
Words(line, name, n, args) ==
  LET spaces == [i \in 1..n |-> SPACE]
  IN  /\ line = name \o spaces \o args
      /\ \A i \in DOMAIN name : name[i] # SPACE
      /\ args # <<>> => n > 0 /\ Head(args) # SPACE

(* The members of s behind a, up to b.                                     *)
LEMMA PartOf ==
  ASSUME NEW s \in Seq(Shown), NEW b \in 0..Len(s), NEW a \in 0..b,
         NEW t, t = SubSeq(s, a + 1, b)
  PROVE  /\ t \in Seq(Shown) /\ Len(t) = b - a
         /\ \A i \in 1..(b - a) : t[i] = s[a + i]
<1>1. PICK S, c : S = Shown /\ c = a + 1
  OBVIOUS
<1>2. /\ a \in Int /\ b \in Int /\ c \in Int /\ c = a + 1 /\ a <= b
      /\ \A i \in c..b : s[i] \in S
  BY <1>1, LenProperties, ElementOfSeq
<1>3. /\ SubSeq(s, c, b) \in Seq(S)
      /\ Len(SubSeq(s, c, b)) = IF c <= b THEN b - c + 1 ELSE 0
      /\ \A i \in 1..(b - c + 1) : SubSeq(s, c, b)[i] = s[c + i - 1]
  BY ONLY <1>2, SubSeqProperties
<1>4. t = SubSeq(s, c, b)
  BY <1>1
<1>5. \A i \in 1..(b - a) : i \in 1..(b - c + 1) /\ c + i - 1 = a + i
  BY ONLY <1>2
<1>6. (IF c <= b THEN b - c + 1 ELSE 0) = b - a
  BY ONLY <1>2
<1>7. QED
  BY ONLY <1>1, <1>3, <1>4, <1>5, <1>6

(* handle_command splits the line into its words and loses none of it.     *)
LEMMA LineSplits ==
  ASSUME NEW line \in Seq(Shown)
  PROVE  /\ NameOf(line) \in Seq(Shown)
         /\ ArgsOf(line) \in Seq(Shown)
         /\ \E n \in 0..Len(line) : Words(line, NameOf(line), n, ArgsOf(line))
<1>1. PICK l, m : l = Len(line) /\ m = NameLength(line)
  OBVIOUS
<1>2. /\ l \in Nat /\ m \in 0..l
      /\ \A i \in 1..m : line[i] # SPACE
      /\ m = l \/ line[m + 1] = SPACE
      /\ \A i \in 1..l : line[i] \in Shown
  BY <1>1, LenProperties, NameEnds, ElementOfSeq
<1>3. PICK name, rest : name = SubSeq(line, 1, m) /\ rest = SubSeq(line, m + 1, l)
  OBVIOUS
<1>4. /\ name \in Seq(Shown) /\ Len(name) = m
      /\ \A i \in 1..m : name[i] = line[i]
  <2>1. name = SubSeq(line, 0 + 1, m) /\ 0 \in 0..m /\ m \in 0..Len(line)
    BY <1>1, <1>2, <1>3
  <2>2. /\ name \in Seq(Shown) /\ Len(name) = m - 0
        /\ \A i \in 1..(m - 0) : name[i] = line[0 + i]
    BY ONLY line \in Seq(Shown), <2>1, PartOf
  <2>3. QED
    BY ONLY <1>2, <2>2
<1>5. /\ rest \in Seq(Shown) /\ Len(rest) = l - m
      /\ \A i \in 1..(l - m) : rest[i] = line[m + i]
  <2>1. m \in 0..l /\ l \in 0..Len(line)
    BY <1>1, <1>2
  <2>2. QED
    BY ONLY line \in Seq(Shown), <1>3, <2>1, PartOf
<1>6. PICK k \in 0..Len(rest) : /\ SkipSpaces(rest) = SubSeq(rest, k + 1, Len(rest))
                                /\ \A i \in 1..k : rest[i] = SPACE
                                /\ k = Len(rest) \/ rest[k + 1] # SPACE
  BY <1>5, SpacesEnd
<1>7. PICK args : args = SubSeq(rest, k + 1, l - m)
  OBVIOUS
<1>8. k \in 0..(l - m)
  BY <1>5, <1>6
<1>9. /\ args \in Seq(Shown) /\ Len(args) = l - m - k
      /\ \A i \in 1..(l - m - k) : args[i] = rest[k + i]
  <2>1. PICK d : d = l - m
    OBVIOUS
  <2>2. /\ rest \in Seq(Shown) /\ k \in 0..d /\ d \in 0..Len(rest)
        /\ args = SubSeq(rest, k + 1, d)
    BY <1>2, <1>5, <1>7, <1>8, <2>1
  <2>3. /\ args \in Seq(Shown) /\ Len(args) = d - k
        /\ \A i \in 1..(d - k) : args[i] = rest[k + i]
    BY ONLY <2>2, PartOf
  <2>4. QED
    BY ONLY <2>1, <2>3
<1>10. NameOf(line) = name /\ ArgsOf(line) = args
  BY <1>1, <1>3, <1>5, <1>6, <1>7 DEF NameOf, ArgsOf
<1>11. PICK spaces : spaces = [i \in 1..k |-> SPACE]
  OBVIOUS
<1>12. /\ spaces \in Seq(Shown) /\ Len(spaces) = k
       /\ \A i \in 1..k : spaces[i] = SPACE
  BY <1>2, <1>8, <1>11 DEF Shown
<1>13. line = (name \o spaces) \o args
  <2>1. PICK front : front = name \o spaces
    OBVIOUS
  <2>2. /\ front \in Seq(Shown) /\ Len(front) = m + k
        /\ \A i \in 1..(m + k) : front[i] = IF i <= m THEN name[i] ELSE spaces[i - m]
    <3>1. /\ front \in Seq(Shown) /\ Len(front) = Len(name) + Len(spaces)
          /\ \A i \in 1..(Len(name) + Len(spaces)) :
               front[i] = IF i <= Len(name) THEN name[i] ELSE spaces[i - Len(name)]
      BY <1>4, <1>12, <2>1, ConcatProperties
    <3>2. QED
      BY <1>4, <1>12, <3>1
  <2>3. PICK all : all = front \o args
    OBVIOUS
  <2>4. /\ all \in Seq(Shown) /\ Len(all) = l
        /\ \A i \in 1..l : all[i] = IF i <= m + k THEN front[i] ELSE args[i - (m + k)]
    <3>1. /\ all \in Seq(Shown) /\ Len(all) = Len(front) + Len(args)
          /\ \A i \in 1..(Len(front) + Len(args)) :
               all[i] = IF i <= Len(front) THEN front[i] ELSE args[i - Len(front)]
      BY <1>9, <2>2, <2>3, ConcatProperties
    <3>2. Len(front) = m + k /\ Len(front) + Len(args) = l
      BY <1>2, <1>8, <1>9, <2>2
    <3>3. QED
      BY <3>1, <3>2
  <2>5. ASSUME NEW i \in 1..l PROVE all[i] = line[i]
    <3>1. CASE i <= m
      BY <1>2, <1>4, <1>8, <2>2, <2>4, <3>1
    <3>2. CASE i > m /\ i <= m + k
      <4>1. i - m \in 1..k /\ i \in 1..(m + k) /\ ~(i <= m) /\ m + (i - m) = i
        BY <1>2, <1>8, <3>2
      <4>2. i - m \in 1..(l - m)
        BY <1>2, <1>8, <4>1
      <4>3. all[i] = SPACE /\ rest[i - m] = SPACE
        BY <1>6, <1>12, <2>2, <2>4, <3>2, <4>1
      <4>4. rest[i - m] = line[i]
        BY <1>5, <4>1, <4>2
      <4>5. QED
        BY <4>3, <4>4
    <3>3. CASE i > m + k
      <4>1. PICK j : j = i - (m + k)
        OBVIOUS
      <4>2. j \in 1..(l - m - k) /\ k + j \in 1..(l - m) /\ m + (k + j) = i
        BY <1>2, <1>8, <3>3, <4>1
      <4>3. all[i] = args[j]
        BY <1>2, <1>8, <2>4, <3>3, <4>1
      <4>4. args[j] = rest[k + j] /\ rest[k + j] = line[i]
        BY <1>5, <1>9, <4>2
      <4>5. QED
        BY <4>3, <4>4
    <3>4. QED
      BY <1>2, <1>8, <3>1, <3>2, <3>3
  <2>6. all = line
    BY <1>1, <2>4, <2>5, SeqEqual
  <2>7. QED
    BY <2>1, <2>3, <2>6
<1>14. ASSUME args # <<>> PROVE k > 0 /\ Head(args) # SPACE
  <2>1. Len(args) \in Nat \ {0} /\ Head(args) = args[1]
    BY <1>9, <1>14, EmptySeq, HeadTailProperties
  <2>2. l - m - k > 0 /\ 1 \in 1..(l - m - k)
    BY <1>2, <1>8, <1>9, <2>1
  <2>3. args[1] = rest[k + 1] /\ rest[k + 1] # SPACE
    <3>1. k # Len(rest)
      BY <1>2, <1>5, <1>8, <2>2
    <3>2. QED
      BY <1>6, <1>9, <2>2, <3>1
  <2>4. CASE k = 0
    <3>1. 1 \in 1..(l - m) /\ m # l
      BY <1>2, <2>2, <2>4
    <3>2. rest[1] = SPACE
      BY <1>2, <1>5, <3>1
    <3>3. QED
      BY <2>3, <2>4, <3>2
  <2>5. QED
    BY <1>8, <2>1, <2>3, <2>4
<1>15. \A i \in DOMAIN name : name[i] # SPACE
  BY <1>2, <1>4
<1>16. k \in 0..l
  BY <1>2, <1>8
<1>17. Words(line, name, k, args)
  BY <1>11, <1>13, <1>14, <1>15 DEF Words
<1>18. QED
  BY <1>1, <1>4, <1>9, <1>10, <1>16, <1>17

-----------------------------------------------------------------------------
(* The line, the history and what ran.                                     *)

ShellTypeOK ==
  /\ cmd_buffer \in Seq(Shown)
  /\ input_overflow \in BOOLEAN
  /\ command_history \in Seq(Seq(Shown))
  /\ ran \in [name : Seq(Shown), args : Seq(Shown), known : BOOLEAN]
  /\ typed \in Seq(Typed)

(* What every step keeps: the flag and the buffer tell about each other    *)
(* and what was typed all that the next character needs.                   *)
ShellInv == ShellTypeOK /\ LineIsTyped

(* The shell starts with an empty line and an empty history.               *)
LEMMA ShellInitial == Init => ShellInv
<1> SUFFICES ASSUME Init PROVE ShellInv
  OBVIOUS
<1>1. PICK none : none = <<>>
  OBVIOUS
<1>2. \A S : none \in Seq(S)
  BY <1>1, EmptySeq
<1>3. Len(none) = 0
  BY <1>1, EmptySeq
<1>4. /\ cmd_buffer = none /\ command_history = none /\ typed = none
      /\ input_overflow = FALSE
      /\ ran = [name |-> none, args |-> none, known |-> FALSE]
  BY <1>1 DEF Init
<1>5. ShellTypeOK
  BY <1>2, <1>4 DEF ShellTypeOK
<1>6. Fits(none)
  BY <1>1, FitsNothing
<1>7. Edited(none) = none
  BY <1>1, <1>2, EditedType
<1>8. LineIsTyped
  BY <1>3, <1>4, <1>6, <1>7, ShellAssumption DEF LineIsTyped
<1>9. QED
  BY <1>5, <1>8 DEF ShellInv

(* A backspace never makes a line that fits too long.                      *)
LEMMA EraseKeeps == ASSUME ShellInv, Erase PROVE ShellInv'
<1> USE DEF ShellInv
<1>1. /\ cmd_buffer \in Seq(Shown) /\ typed \in Seq(Typed)
      /\ Len(cmd_buffer) \in Nat /\ Len(cmd_buffer) < CMD_BUFFER_SIZE
  BY LenProperties DEF ShellTypeOK, LineIsTyped
<1>2. BACKSPACE \in Typed /\ BACKSPACE \notin Shown
  BY ShellAssumption DEF Typed, Shown, BACKSPACE, SPACE
<1>3. cmd_buffer' = EditStep(cmd_buffer, BACKSPACE) /\ typed' = Append(typed, BACKSPACE)
  BY DEF Erase, EditStep
<1>4. cmd_buffer' \in Seq(Shown) /\ Len(cmd_buffer') <= Len(cmd_buffer)
  <2>1. CASE cmd_buffer = <<>>
    BY <1>1, <2>1 DEF Erase
  <2>2. CASE cmd_buffer # <<>>
    <3>1. Len(cmd_buffer) # 0
      BY <1>1, <2>2, EmptySeq
    <3>2. cmd_buffer' = SubSeq(cmd_buffer, 1, Len(cmd_buffer) - 1)
      BY <2>2 DEF Erase, Front
    <3>3. QED
      BY <1>1, <3>1, <3>2
  <2>3. QED
    BY <2>1, <2>2
<1>5. typed' \in Seq(Typed)
  BY <1>1, <1>2, <1>3, AppendProperties
<1>6. Edited(typed') = EditStep(Edited(typed), BACKSPACE)
  BY <1>1, <1>2, <1>3, EditedAppend
<1>7. Fits(typed') <=> Fits(typed) /\ Len(Edited(typed')) < CMD_BUFFER_SIZE
  BY <1>1, <1>2, <1>3, FitsAppend
<1>8. /\ input_overflow' = input_overflow /\ command_history' = command_history
      /\ ran' = ran
  BY DEF Erase
<1>9. Len(cmd_buffer') < CMD_BUFFER_SIZE
  BY <1>1, <1>4, LenProperties, ShellAssumption
<1>10. ShellTypeOK'
  BY <1>4, <1>5, <1>8 DEF ShellTypeOK
<1>11. ~input_overflow => cmd_buffer' = Edited(typed') /\ Fits(typed')
  BY <1>3, <1>6, <1>7, <1>9 DEF LineIsTyped
<1>12. LineIsTyped'
  BY <1>7, <1>8, <1>9, <1>11 DEF LineIsTyped
<1>13. QED
  BY <1>10, <1>12

(* A character that finds no room makes a line that does not fit, and      *)
(* raises the flag; one that finds room keeps a line that fits.            *)
LEMMA InsertKeeps ==
  ASSUME ShellInv, NEW ch \in Letters \cup {SPACE}, Insert(ch) PROVE ShellInv'
<1> USE DEF ShellInv
<1>1. /\ cmd_buffer \in Seq(Shown) /\ typed \in Seq(Typed)
      /\ Len(cmd_buffer) \in Nat /\ Len(cmd_buffer) < CMD_BUFFER_SIZE
  BY LenProperties DEF ShellTypeOK, LineIsTyped
<1>2. ch \in Shown /\ ch \in Typed /\ ch # BACKSPACE
  BY ShellAssumption DEF Typed, Shown, BACKSPACE, SPACE
<1>3. typed' = Append(typed, ch)
  BY DEF Insert
<1>4. PICK longer : longer = Append(cmd_buffer, ch)
  OBVIOUS
<1>5. longer \in Seq(Shown) /\ Len(longer) = Len(cmd_buffer) + 1
  BY <1>1, <1>2, <1>4, AppendProperties
<1>6. typed' \in Seq(Typed)
  BY <1>1, <1>2, <1>3, AppendProperties
<1>7. ~input_overflow => Edited(typed') = longer
  <2>1. Edited(typed') = EditStep(Edited(typed), ch)
    BY <1>1, <1>2, <1>3, EditedAppend
  <2>2. QED
    BY <1>2, <1>4, <2>1 DEF EditStep, LineIsTyped
<1>8. Fits(typed') <=> Fits(typed) /\ Len(Edited(typed')) < CMD_BUFFER_SIZE
  BY <1>1, <1>2, <1>3, FitsAppend
<1>9. command_history' = command_history /\ ran' = ran
  BY DEF Insert
<1>10. CMD_BUFFER_SIZE \in Nat /\ input_overflow \in BOOLEAN
  BY ShellAssumption DEF ShellTypeOK
<1>11. CASE HasRoom
  <2>1. cmd_buffer' = longer /\ input_overflow' = input_overflow
    BY <1>4, <1>11 DEF Insert
  <2>2. Len(longer) < CMD_BUFFER_SIZE
    BY <1>1, <1>5, <1>10, <1>11 DEF HasRoom
  <2>3. ShellTypeOK'
    BY <1>5, <1>6, <1>9, <1>10, <2>1 DEF ShellTypeOK
  <2>4. LineIsTyped'
    BY <1>7, <1>8, <1>9, <2>1, <2>2 DEF LineIsTyped
  <2>5. QED
    BY <2>3, <2>4
<1>12. CASE ~HasRoom
  <2>1. cmd_buffer' = cmd_buffer /\ input_overflow' = TRUE
    BY <1>12 DEF Insert
  <2>2. ~(Len(longer) < CMD_BUFFER_SIZE)
    BY <1>1, <1>5, <1>10, <1>12 DEF HasRoom
  <2>3. ~Fits(typed')
    BY <1>7, <1>8, <2>2 DEF LineIsTyped
  <2>4. ShellTypeOK'
    BY <1>1, <1>6, <1>9, <2>1 DEF ShellTypeOK
  <2>5. LineIsTyped'
    BY <1>1, <1>9, <2>1, <2>3 DEF LineIsTyped
  <2>6. QED
    BY <2>4, <2>5
<1>13. QED
  BY <1>11, <1>12

(* A newline starts an empty line, and the history stops growing at its    *)
(* limit.                                                                  *)
LEMMA EnterKeeps == ASSUME ShellInv, Enter PROVE ShellInv'
<1> USE DEF ShellInv
<1>1. PICK none : none = <<>>
  OBVIOUS
<1>2. /\ none \in Seq(Shown) /\ none \in Seq(Typed) /\ Len(none) = 0
  BY <1>1, EmptySeq
<1>3. typed' = none /\ cmd_buffer' = none /\ input_overflow' = FALSE
  BY <1>1 DEF Enter, handle_command
<1>4. Fits(typed') /\ Edited(typed') = none
  BY <1>1, <1>2, <1>3, FitsNothing, EditedType
<1>5. /\ command_history' \in Seq(Seq(Shown))
      /\ Len(command_history') <= MAX_HISTORY
      /\ ran' \in [name : Seq(Shown), args : Seq(Shown), known : BOOLEAN]
  <2>1. CASE input_overflow
    BY <2>1 DEF Enter, ShellTypeOK, LineIsTyped
  <2>2. CASE ~input_overflow
    <3>1. PICK name, args : name = NameOf(cmd_buffer) /\ args = ArgsOf(cmd_buffer)
      OBVIOUS
    <3>2. name \in Seq(Shown) /\ args \in Seq(Shown)
      BY <3>1, LineSplits DEF ShellTypeOK
    <3>3. /\ ran' = [name |-> name, args |-> args, known |-> name \in Names]
          /\ command_history' = IF Len(command_history) < MAX_HISTORY
                                THEN Append(command_history, name)
                                ELSE command_history
      BY <2>2, <3>1 DEF Enter, handle_command, Record
    <3>4. /\ command_history \in Seq(Seq(Shown)) /\ Len(command_history) \in Nat
          /\ Len(command_history) <= MAX_HISTORY /\ MAX_HISTORY \in Nat
      BY LenProperties, ShellAssumption DEF ShellTypeOK, LineIsTyped
    <3>5. /\ Append(command_history, name) \in Seq(Seq(Shown))
          /\ Len(Append(command_history, name)) = Len(command_history) + 1
      BY <3>2, <3>4, AppendProperties
    <3>6. command_history' \in Seq(Seq(Shown)) /\ Len(command_history') <= MAX_HISTORY
      BY <3>3, <3>4, <3>5
    <3>7. (name \in Names) \in BOOLEAN
      OBVIOUS
    <3>8. ran' \in [name : Seq(Shown), args : Seq(Shown), known : BOOLEAN]
      BY <3>2, <3>3, <3>7
    <3>9. QED
      BY <3>6, <3>8
  <2>3. QED
    BY <2>1, <2>2
<1>6. ShellTypeOK'
  BY <1>2, <1>3, <1>5 DEF ShellTypeOK
<1>7. LineIsTyped'
  BY <1>2, <1>3, <1>4, <1>5, ShellAssumption DEF LineIsTyped
<1>8. QED
  BY <1>6, <1>7

(* Every step of the shell keeps the invariant.                            *)
LEMMA ShellStep == ASSUME ShellInv, [Next]_vars PROVE ShellInv'
<1>1. CASE Next
  BY <1>1, EnterKeeps, EraseKeeps, InsertKeeps DEF Next
<1>2. CASE UNCHANGED vars
  BY <1>2 DEF vars, ShellInv, ShellTypeOK, LineIsTyped
<1>3. QED
  BY <1>1, <1>2

(* The buffer is what was typed, or the shell knows that it is not, for    *)
(* every size of the buffer and the history and however much is typed.     *)
THEOREM ShellInvariance == Spec => []ShellInv
<1>1. QED
  BY ShellInitial, ShellStep, PTL DEF Spec

(* What a step of the shell runs.                                          *)
RunsTyped ==
  /\ Enter /\ Fits(typed) =>
       \E n \in 0..Len(typed) : Words(Edited(typed), ran'.name, n, ran'.args)
  /\ ran' # ran => Enter /\ Fits(typed)

(* Every step of the shell runs what was typed, or nothing.                *)
LEMMA StepRuns == ASSUME ShellInv, [Next]_vars PROVE RunsTyped
<1> USE DEF ShellInv
<1>1. /\ cmd_buffer \in Seq(Shown) /\ typed \in Seq(Typed)
      /\ input_overflow <=> ~Fits(typed)
  BY DEF ShellTypeOK, LineIsTyped
<1>2. ASSUME Enter, Fits(typed)
      PROVE  \E n \in 0..Len(typed) : Words(Edited(typed), ran'.name, n, ran'.args)
  <2>1. ~input_overflow /\ cmd_buffer = Edited(typed)
    BY <1>1, <1>2 DEF LineIsTyped
  <2>2. ran'.name = NameOf(cmd_buffer) /\ ran'.args = ArgsOf(cmd_buffer)
    BY <1>2, <2>1 DEF Enter, handle_command
  <2>3. PICK n \in 0..Len(cmd_buffer) :
          Words(cmd_buffer, NameOf(cmd_buffer), n, ArgsOf(cmd_buffer))
    BY <1>1, LineSplits
  <2>4. n \in 0..Len(typed)
    <3>1. /\ Len(cmd_buffer) <= Len(typed)
          /\ Len(cmd_buffer) \in Nat /\ Len(typed) \in Nat
      BY <1>1, <2>1, EditedType, LenProperties
    <3>2. QED
      BY <3>1
  <2>5. QED
    BY <2>1, <2>2, <2>3, <2>4
<1>3. ASSUME ran' # ran PROVE Enter /\ Fits(typed)
  <2>1. Enter
    BY <1>3 DEF Next, vars, Erase, Insert
  <2>2. ~input_overflow
    BY <1>3, <2>1 DEF Enter
  <2>3. QED
    BY <1>1, <2>1, <2>2
<1>4. QED
  BY <1>2, <1>3 DEF RunsTyped

(* The screen only watches: what the shell does at its screen, it does.    *)
LEMMA ScreenWatches == TSpec => Spec
<1>1. TInit => Init
  BY DEF TInit
<1>2. [TNext]_tvars => [Next]_vars
  BY DEF TNext, Next, TEnter, TErase, TInsert, tvars
<1>3. QED
  BY <1>1, <1>2, PTL DEF TSpec, Spec

(* The shell knows when its line is not what was typed.                    *)
THEOREM LineAlwaysTyped == TSpec => []LineIsTyped
<1>1. ShellInv => LineIsTyped
  BY DEF ShellInv
<1>2. QED
  BY <1>1, ScreenWatches, ShellInvariance, PTL

(* What runs is what was typed, and nothing else ever runs.                *)
THEOREM OnlyTypedRuns == TSpec => RunsWhatWasTyped
<1>1. ASSUME ShellInv, [Next]_vars
      PROVE  /\ Enter /\ Fits(typed) =>
                  \E n \in 0..Len(typed) :
                    LET spaces == [i \in 1..n |-> SPACE]
                    IN  /\ Edited(typed) = ran'.name \o spaces \o ran'.args
                        /\ \A i \in DOMAIN ran'.name : ran'.name[i] # SPACE
                        /\ ran'.args # <<>> => n > 0 /\ Head(ran'.args) # SPACE
             /\ ran' # ran => Enter /\ Fits(typed)
  BY <1>1, StepRuns DEF RunsTyped, Words
<1>2. QED
  BY <1>1, ScreenWatches, ShellInvariance, PTL DEF RunsWhatWasTyped, Spec
-----------------------------------------------------------------------------
(* Texts put together.                                                     *)

(* f[i] is the first i texts of s put together.                            *)
Gathers(f, s, n) == f = [i \in 1..n |-> IF i = 1 THEN s[i] ELSE f[i - 1] \o s[i]]

(* The recursive function of FlattenSeq.                                   *)
LEMMA FlattenUnfolds ==
  ASSUME NEW s, Len(s) # 0
  PROVE  FlattenSeq(s) = (CHOOSE f : Gathers(f, s, Len(s)))[Len(s)]
BY DEF FlattenSeq, Gathers

(* There is such a function.                                               *)
LEMMA GathersExists ==
  ASSUME NEW C, NEW s \in Seq(Seq(C)), NEW n \in Nat, n = Len(s), n # 0
  PROVE  \E f : Gathers(f, s, n)
<1> DEFINE T == {k \in Nat : k + 1 <= n => \E f : Gathers(f, s, k + 1)}
<1>1. 0 \in T
  <2> DEFINE f == [i \in 1..1 |-> s[i]]
  <2>1. Gathers(f, s, 1)
    BY DEF Gathers
  <2>2. QED
    BY <2>1
<1>2. ASSUME NEW k \in Nat, k \in T PROVE k + 1 \in T
  <2>1. CASE (k + 1) + 1 <= n
    <3>1. PICK f : Gathers(f, s, k + 1)
      BY <1>2, <2>1
    <3> DEFINE g == [i \in 1..((k + 1) + 1) |-> IF i = 1 THEN s[i] ELSE f[i - 1] \o s[i]]
    <3>2. ASSUME NEW i \in 1..(k + 1) PROVE g[i] = f[i]
      <4>1. f[i] = IF i = 1 THEN s[i] ELSE f[i - 1] \o s[i]
        BY <3>1 DEF Gathers
      <4>2. g[i] = IF i = 1 THEN s[i] ELSE f[i - 1] \o s[i]
        OBVIOUS
      <4>3. QED
        BY <4>1, <4>2
    <3>3. ASSUME NEW i \in 1..((k + 1) + 1), i # 1 PROVE g[i - 1] = f[i - 1]
      <4>1. i - 1 \in 1..(k + 1)
        BY <3>3
      <4> HIDE DEF g
      <4>2. QED
        BY <3>2, <4>1
    <3>4. Gathers(g, s, (k + 1) + 1)
      <4>1. \A i \in 1..((k + 1) + 1) :
              (IF i = 1 THEN s[i] ELSE f[i - 1] \o s[i])
                = (IF i = 1 THEN s[i] ELSE g[i - 1] \o s[i])
        <5> HIDE DEF g
        <5>1. QED
          BY <3>3
      <4>2. QED
        BY <4>1 DEF Gathers
    <3>5. QED
      BY <3>4
  <2>2. CASE ~((k + 1) + 1 <= n)
    BY <2>2
  <2>3. QED
    BY <2>1, <2>2
<1> HIDE DEF T
<1>3. n - 1 \in T
  <2>1. Nat \subseteq T
    BY <1>1, <1>2, Successors
  <2>2. QED
    BY <2>1
<1>4. (n - 1) + 1 = n
  OBVIOUS
<1>5. QED
  BY <1>3, <1>4 DEF T

(* What is gathered, one text after the other.                             *)
LEMMA FlattenChain ==
  ASSUME NEW C, NEW s \in Seq(Seq(C)), Len(s) # 0
  PROVE  \E f : /\ f[1] = s[1]
                /\ \A i \in 2..Len(s) : f[i] = f[i - 1] \o s[i]
                /\ FlattenSeq(s) = f[Len(s)]
<1>1. PICK n : n = Len(s)
  OBVIOUS
<1>2. n \in Nat /\ n # 0
  BY <1>1, LenProperties
<1>3. PICK f : Gathers(f, s, n) /\ FlattenSeq(s) = f[n]
  BY <1>1, <1>2, GathersExists, FlattenUnfolds
<1>4. \A i \in 1..n : f[i] = IF i = 1 THEN s[i] ELSE f[i - 1] \o s[i]
  BY <1>3 DEF Gathers
<1>5. f[1] = s[1]
  BY <1>2, <1>4
<1>6. ASSUME NEW i \in 2..n PROVE f[i] = f[i - 1] \o s[i]
  <2>1. i \in 1..n /\ i # 1
    BY <1>2
  <2>2. QED
    BY <1>4, <2>1
<1>7. QED
  BY <1>1, <1>3, <1>5, <1>6

(* Texts put together are a text.                                          *)
LEMMA FlattenType ==
  ASSUME NEW C, NEW s \in Seq(Seq(C))
  PROVE  FlattenSeq(s) \in Seq(C)
<1>1. CASE Len(s) = 0
  <2>1. s = <<>> /\ FlattenSeq(s) = s
    BY <1>1, EmptySeq DEF FlattenSeq
  <2>2. QED
    BY <2>1, EmptySeq
<1>2. CASE Len(s) # 0
  <2>1. PICK n : n = Len(s)
    OBVIOUS
  <2>2. n \in Nat /\ n # 0 /\ \A i \in 1..n : s[i] \in Seq(C)
    BY <1>2, <2>1, LenProperties, ElementOfSeq
  <2>3. PICK f : f[1] = s[1] /\ (\A i \in 2..n : f[i] = f[i - 1] \o s[i]) /\ FlattenSeq(s) = f[n]
    BY <1>2, <2>1, FlattenChain
  <2> DEFINE T == {k \in Nat : k + 1 <= n => f[k + 1] \in Seq(C)}
  <2>4. 0 \in T
    BY <2>2, <2>3
  <2>5. ASSUME NEW k \in Nat, k \in T PROVE k + 1 \in T
    <3>1. CASE (k + 1) + 1 <= n
      <4>1. PICK x, y : x = f[k + 1] /\ y = s[(k + 1) + 1]
        OBVIOUS
      <4>2. x \in Seq(C) /\ y \in Seq(C)
        BY <2>2, <2>5, <3>1, <4>1
      <4>3. f[(k + 1) + 1] = x \o y
        <5>1. (k + 1) + 1 \in 2..n /\ ((k + 1) + 1) - 1 = k + 1
          BY <2>2, <3>1
        <5>2. QED
          BY <2>3, <4>1, <5>1
      <4>4. x \o y \in Seq(C)
        BY <4>2, ConcatProperties
      <4>5. f[(k + 1) + 1] \in Seq(C)
        BY <4>3, <4>4
      <4>6. QED
        BY <4>5
    <3>2. CASE ~((k + 1) + 1 <= n)
      BY <3>2
    <3>3. QED
      BY <3>1, <3>2
  <2> HIDE DEF T
  <2>6. n - 1 \in Nat /\ (n - 1) + 1 = n
    BY <2>2
  <2>7. n - 1 \in T
    <3>1. Nat \subseteq T
      BY ONLY <2>4, <2>5, Successors
    <3>2. QED
      BY <2>6, <3>1
  <2>8. QED
    BY <2>3, <2>6, <2>7 DEF T
<1>3. QED
  BY <1>1, <1>2

(* Texts of one character each are the text of these characters.           *)
LEMMA FlattenOnes ==
  ASSUME NEW C, NEW text \in Seq(C), NEW ones, ones = [i \in DOMAIN text |-> <<text[i]>>]
  PROVE  FlattenSeq(ones) = text
<1>1. PICK n : n = Len(text)
  OBVIOUS
<1>2. n \in Nat /\ DOMAIN text = 1..n /\ \A i \in 1..n : text[i] \in C
  BY <1>1, LenProperties, ElementOfSeq
<1>3. \A i \in 1..n : ones[i] = <<text[i]>> /\ ones[i] \in Seq(C)
  BY <1>2
<1>4. ones \in Seq(Seq(C)) /\ Len(ones) = n
  <2>1. ones \in [1..n -> Seq(C)]
    BY <1>2, <1>3
  <2>2. QED
    BY <1>2, <2>1
<1>5. CASE n = 0
  <2>1. ones = <<>> /\ text = <<>> /\ Len(ones) = 0
    BY <1>1, <1>4, <1>5, EmptySeq
  <2>2. QED
    BY <2>1 DEF FlattenSeq
<1>6. CASE n # 0
  <2>1. PICK f : /\ f[1] = ones[1]
                 /\ \A i \in 2..n : f[i] = f[i - 1] \o ones[i]
                 /\ FlattenSeq(ones) = f[n]
    BY <1>4, <1>6, FlattenChain
  <2> DEFINE Start(k) == SubSeq(text, 1, k)
  <2> DEFINE T == {k \in Nat : k + 1 <= n => f[k + 1] = Start(k + 1)}
  <2>2. 0 \in T
    <3>1. Start(1) = <<text[1]>>
      <4>1. 1 \in 1..Len(text) /\ 1 \in 1..1
        BY <1>1, <1>2, <1>6
      <4>2. Start(1) = SubSeq(text, 1, 1 - 1) \o <<text[1]>>
        BY <1>1, <4>1, SubSeqRecursiveSecond
      <4>3. SubSeq(text, 1, 1 - 1) = <<>>
        BY SubSeqEmpty
      <4>4. <<>> \o <<text[1]>> = <<text[1]>>
        BY <1>2, <4>1
      <4>5. QED
        BY <4>2, <4>3, <4>4
    <3>2. QED
      BY <1>2, <1>3, <1>6, <2>1, <3>1
  <2>3. ASSUME NEW k \in Nat, k \in T PROVE k + 1 \in T
    <3>1. CASE (k + 1) + 1 <= n
      <4>1. (k + 1) + 1 \in 2..n /\ ((k + 1) + 1) - 1 = k + 1 /\ k + 1 <= n
        BY <1>2, <3>1
      <4>2. PICK m : m = (k + 1) + 1
        OBVIOUS
      <4>3. m \in 2..n /\ m - 1 = k + 1 /\ m \in 1..n /\ m \in 1..Len(text) /\ 1 \in 1..Len(text)
        BY <1>1, <4>1, <4>2
      <4>4. f[m - 1] = Start(k + 1)
        BY <2>3, <4>1, <4>3
      <4>5. f[m] = f[m - 1] \o ones[m] /\ ones[m] = <<text[m]>>
        BY <1>3, <2>1, <4>3
      <4>6. Start(m) = Start(m - 1) \o <<text[m]>>
        BY <4>3, SubSeqRecursiveSecond
      <4>7. f[(k + 1) + 1] = Start((k + 1) + 1)
        BY <4>2, <4>4, <4>5, <4>6, <4>3
      <4>8. QED
        BY <4>7
    <3>2. CASE ~((k + 1) + 1 <= n)
      BY <3>2
    <3>3. QED
      BY <3>1, <3>2
  <2> HIDE DEF T
  <2>4. n - 1 \in Nat /\ (n - 1) + 1 = n
    BY <1>2, <1>6
  <2>5. n - 1 \in T
    <3>1. Nat \subseteq T
      BY ONLY <2>2, <2>3, Successors
    <3>2. QED
      BY <2>4, <3>1
  <2>6. f[n] = Start(n)
    BY <2>4, <2>5 DEF T
  <2>7. Start(n) = text
    BY <1>1
  <2>8. QED
    BY <2>1, <2>6, <2>7
<1>7. QED
  BY <1>5, <1>6

-----------------------------------------------------------------------------
(* Formats.                                                                *)

(* A text without directives, as the pieces of a format from i on.         *)
RestOf(text, i) == [j \in 1..(Len(text) + 1 - i) |-> Literal(text[i + j - 1])]

(* What the text from i on is, given f of the places behind i.             *)
PieceAt(f, format, i) ==
  IF i > Len(format) THEN <<>>
  ELSE IF format[i] # PERCENT THEN <<Literal(format[i])>> \o f[i + 1]
  ELSE <<Directive(format, i + 1)>> \o f[Directive(format, i + 1).next]

(* f[i] is the pieces of the format from i on.                             *)
PiecesFrom(f, format) == f = [i \in 1..(Len(format) + 1) |-> PieceAt(f, format, i)]

(* The recursive function of Pieces.                                       *)
LEMMA PiecesUnfold ==
  ASSUME NEW format
  PROVE  Pieces(format, FALSE) = (CHOOSE f : PiecesFrom(f, format))[1]
BY DEF Pieces, PiecesFrom, PieceAt

(* The pieces of a text without directives are its characters.             *)
LEMMA PlainPieces ==
  ASSUME NEW format \in Seq(Nat), \A i \in 1..Len(format) : format[i] # PERCENT
  PROVE  Pieces(format, FALSE) = [i \in 1..Len(format) |-> Literal(format[i])]
<1>1. PICK n : n = Len(format)
  OBVIOUS
<1>2. n \in Nat
  BY <1>1, LenProperties
<1>3. PICK S : S = {Literal(format[i]) : i \in 1..n}
  OBVIOUS
<1>4. ASSUME NEW i \in 1..(n + 1)
      PROVE  RestOf(format, i) \in Seq(S) /\ Len(RestOf(format, i)) = n + 1 - i
  <2>1. n + 1 - i \in Nat
    BY <1>2
  <2>2. \A j \in 1..(n + 1 - i) : i + j - 1 \in 1..n
    BY <1>2
  <2>3. RestOf(format, i) \in [1..(n + 1 - i) -> S]
    BY <1>1, <1>3, <2>2 DEF RestOf
  <2>4. QED
    BY <2>1, <2>3
<1>5. RestOf(format, n + 1) = <<>>
  <2>1. RestOf(format, n + 1) \in Seq(S) /\ Len(RestOf(format, n + 1)) = 0
    BY <1>2, <1>4
  <2>2. QED
    BY <2>1, EmptySeq
<1>6. ASSUME NEW i \in 1..n
      PROVE  RestOf(format, i) = <<Literal(format[i])>> \o RestOf(format, i + 1)
  <2>1. PICK here, rest, one :
          /\ here = RestOf(format, i) /\ rest = RestOf(format, i + 1)
          /\ one = <<Literal(format[i])>>
    OBVIOUS
  <2>2. /\ here \in Seq(S) /\ Len(here) = n + 1 - i
        /\ rest \in Seq(S) /\ Len(rest) = n - i
    <3>1. i \in 1..(n + 1) /\ i + 1 \in 1..(n + 1) /\ n + 1 - (i + 1) = n - i
      BY <1>2
    <3>2. here \in Seq(S) /\ Len(here) = n + 1 - i
      BY <1>4, <2>1, <3>1
    <3>3. rest \in Seq(S) /\ Len(rest) = n + 1 - (i + 1)
      BY <1>4, <2>1, <3>1
    <3>4. QED
      BY <3>1, <3>2, <3>3
  <2>3. one \in Seq(S) /\ Len(one) = 1 /\ one[1] = Literal(format[i])
    BY <1>3, <2>1
  <2>4. PICK both : both = one \o rest
    OBVIOUS
  <2>5. /\ both \in Seq(S) /\ Len(both) = n + 1 - i
        /\ \A j \in 1..(n + 1 - i) : both[j] = IF j <= 1 THEN one[j] ELSE rest[j - 1]
    <3>1. /\ both \in Seq(S) /\ Len(both) = Len(one) + Len(rest)
          /\ \A j \in 1..(Len(one) + Len(rest)) :
               both[j] = IF j <= Len(one) THEN one[j] ELSE rest[j - Len(one)]
      BY ONLY <2>2, <2>3, <2>4, ConcatProperties
    <3>2. Len(one) + Len(rest) = n + 1 - i
      BY <1>2, <2>2, <2>3
    <3>3. QED
      BY <2>3, <3>1, <3>2
  <2>6. ASSUME NEW j \in 1..(n + 1 - i) PROVE here[j] = both[j]
    <3>1. here[j] = Literal(format[i + j - 1])
      BY <1>1, <2>1 DEF RestOf
    <3>2. CASE j = 1
      BY <2>3, <2>5, <3>1, <3>2
    <3>3. CASE j # 1
      <4>1. j - 1 \in 1..(Len(format) + 1 - (i + 1)) /\ (i + 1) + (j - 1) - 1 = i + j - 1
        BY <1>1, <1>2, <3>3
      <4>2. rest[j - 1] = Literal(format[i + j - 1])
        BY <2>1, <4>1 DEF RestOf
      <4>3. both[j] = rest[j - 1]
        BY <2>5, <3>3
      <4>4. QED
        BY <3>1, <4>2, <4>3
    <3>4. QED
      BY <3>2, <3>3
  <2>7. here = both
    BY ONLY <2>2, <2>5, <2>6, SeqEqual
  <2>8. QED
    BY <2>1, <2>4, <2>7
<1> DEFINE g == [i \in 1..(n + 1) |-> RestOf(format, i)]
<1>7. PiecesFrom(g, format)
  <2>1. ASSUME NEW i \in 1..(n + 1) PROVE g[i] = PieceAt(g, format, i)
    <3>1. CASE i > n
      <4>1. i = n + 1
        BY <1>2, <3>1
      <4>2. QED
        BY <1>1, <1>5, <3>1, <4>1 DEF PieceAt
    <3>2. CASE ~(i > n)
      <4>1. i \in 1..n /\ i + 1 \in 1..(n + 1)
        BY <1>2, <3>2
      <4>2. g[i] = RestOf(format, i) /\ g[i + 1] = RestOf(format, i + 1)
        BY <4>1
      <4>3. format[i] # PERCENT
        BY <1>1, <4>1
      <4> HIDE DEF g
      <4>4. PieceAt(g, format, i) = <<Literal(format[i])>> \o g[i + 1]
        BY <1>1, <3>2, <4>3 DEF PieceAt
      <4>5. QED
        BY <1>6, <4>1, <4>2, <4>4
    <3>3. QED
      BY <3>1, <3>2
  <2>2. g = [i \in 1..(n + 1) |-> g[i]]
    OBVIOUS
  <2> HIDE DEF g
  <2>3. QED
    BY <1>1, <2>1, <2>2 DEF PiecesFrom
<1>8. PICK f : PiecesFrom(f, format) /\ Pieces(format, FALSE) = f[1]
  <2> HIDE DEF g
  <2>1. QED
    BY <1>7, PiecesUnfold
<1>9. \A i \in 1..(n + 1) : f[i] = PieceAt(f, format, i)
  BY <1>1, <1>8 DEF PiecesFrom
<1> HIDE DEF g
<1> DEFINE T == {k \in Nat : k <= n => f[n + 1 - k] = RestOf(format, n + 1 - k)}
<1>10. 0 \in T
  <2>1. n + 1 \in 1..(n + 1) /\ n + 1 > n
    BY <1>2
  <2>2. f[n + 1] = <<>>
    BY <1>1, <1>9, <2>1 DEF PieceAt
  <2>3. n + 1 - 0 = n + 1
    BY <1>2
  <2>4. QED
    BY <1>5, <2>2, <2>3
<1>11. ASSUME NEW k \in Nat, k \in T PROVE k + 1 \in T
  <2>1. CASE k + 1 <= n
    <3>1. PICK i : i = n - k
      OBVIOUS
    <3>2. /\ i \in 1..n /\ i \in 1..(n + 1) /\ ~(i > n)
          /\ i + 1 = n + 1 - k /\ i = n + 1 - (k + 1)
      BY <1>2, <2>1, <3>1
    <3>3. f[i + 1] = RestOf(format, i + 1)
      BY <1>2, <1>11, <2>1, <3>2
    <3>4. f[i] = <<Literal(format[i])>> \o f[i + 1]
      BY <1>1, <1>9, <3>2 DEF PieceAt
    <3>5. f[i] = RestOf(format, i)
      BY <1>6, <3>2, <3>3, <3>4
    <3>6. QED
      BY <3>2, <3>5
  <2>2. CASE ~(k + 1 <= n)
    BY <2>2
  <2>3. QED
    BY <2>1, <2>2
<1> HIDE DEF T
<1>12. n \in T /\ n + 1 - n = 1
  <2>1. Nat \subseteq T
    BY ONLY <1>10, <1>11, Successors
  <2>2. QED
    BY <1>2, <2>1
<1>13. f[1] = RestOf(format, 1)
  BY <1>2, <1>12 DEF T
<1>14. RestOf(format, 1) = [i \in 1..n |-> Literal(format[i])]
  <2>1. n + 1 - 1 = n /\ \A j \in 1..n : 1 + j - 1 = j
    BY <1>2
  <2>2. QED
    BY <1>1, <2>1 DEF RestOf
<1>15. QED
  BY <1>1, <1>8, <1>13, <1>14

(* What a piece is printed as.                                             *)
LEMMA Fields ==
  ASSUME NEW d, NEW arg
  PROVE  /\ d.conv = NUL => PrintField(d, arg) = d.text
         /\ d.conv = letter.s => PrintField(d, arg) = Padded(arg, d.width, d.left)
         /\ d.conv = letter.d => PrintField(d, arg) = PrintDecimal(d, Signed(arg, Bits(d)))
<1>1. /\ letter.s = 115 /\ letter.d = 100 /\ NUL = 0 /\ PERCENT = 37
      /\ letter.u = 117 /\ letter.x = 120 /\ letter.c = 99
  BY DEF letter, NUL, PERCENT
<1>4. CASE d.conv = 0
  BY <1>1, <1>4 DEF PrintField
<1>5. CASE d.conv = 115
  BY <1>1, <1>5 DEF PrintField
<1>6. CASE d.conv = 100
  BY <1>1, <1>6 DEF PrintField
<1>7. QED
  BY <1>1, <1>4, <1>5, <1>6

(* A text without directives is printed as it is.                          *)
LEMMA PlainPrints ==
  ASSUME NEW format \in Seq(Nat), \A i \in 1..Len(format) : format[i] # PERCENT
  PROVE  kprintf(format, <<>>) = format
<1>1. PICK n, pieces : n = Len(format) /\ pieces = Pieces(format, FALSE)
  OBVIOUS
<1>2. n \in Nat /\ DOMAIN format = 1..n
  BY <1>1, LenProperties
<1>3. pieces = [i \in 1..n |-> Literal(format[i])]
  BY <1>1, PlainPieces
<1>4. ASSUME NEW i \in 1..n
      PROVE  pieces[i].conv = NUL /\ pieces[i].text = <<format[i]>>
  BY <1>3 DEF Literal
<1>5. NUL \notin Conversions
  BY DEF NUL, Conversions, letter
<1>6. PICK all : all = WithArguments(pieces, <<>>, Conversions)
  OBVIOUS
<1>7. DOMAIN all = 1..n /\ \A i \in 1..n : all[i].piece = pieces[i]
  <2>1. DOMAIN pieces = 1..n
    BY <1>3
  <2>2. DOMAIN all = 1..n
    BY <1>6, <2>1 DEF WithArguments
  <2>3. \A i \in 1..n : all[i].piece = pieces[i]
    BY <1>6, <2>1 DEF WithArguments
  <2>4. QED
    BY <2>2, <2>3
<1>8. PrintFields(all) = [i \in DOMAIN format |-> <<format[i]>>]
  <2>1. ASSUME NEW i \in 1..n PROVE PrintField(all[i].piece, all[i].arg) = <<format[i]>>
    BY <1>4, <1>7, Fields
  <2>2. QED
    BY <1>2, <1>7, <2>1 DEF PrintFields
<1>9. FlattenSeq(PrintFields(all)) = format
  BY <1>8, FlattenOnes
<1>10. QED
  BY <1>1, <1>6, <1>9 DEF kprintf, Joining

(* A field of some width has the text and spaces.                          *)
LEMMA PaddedType ==
  ASSUME NEW C, SPACE \in C, NEW text \in Seq(C), NEW w \in Nat, NEW left
  PROVE  Padded(text, w, left) \in Seq(C)
<1>1. PICK n : n = Max({0, w - Len(text)})
  OBVIOUS
<1>2. n \in Nat
  <2>1. Len(text) \in Nat
    BY LenProperties
  <2>2. PICK d : d = w - Len(text)
    OBVIOUS
  <2>3. \E m \in {0, d} : \A y \in {0, d} : m >= y
    BY <2>1, <2>2
  <2>4. n \in {0, d} /\ n >= 0
    BY <1>1, <2>2, <2>3 DEF Max
  <2>5. QED
    BY <2>1, <2>2, <2>4
<1>3. Spaces(n) \in Seq(C)
  <2>1. Spaces(n) \in [1..n -> C]
    BY DEF Spaces
  <2>2. QED
    BY <1>2, <2>1
<1>4. PICK pad : pad = Spaces(n)
  OBVIOUS
<1>5. text \o pad \in Seq(C) /\ pad \o text \in Seq(C)
  BY <1>3, <1>4, ConcatProperties
<1>6. QED
  BY <1>1, <1>4, <1>5 DEF Padded

(* What a directive may be given: a text, or a number that is an int and   *)
(* that has digits.                                                        *)
Suits(kind, arg) ==
  \/ kind = letter.s /\ arg \in Seq(Printable)
  \/ /\ kind = letter.d /\ arg \in Nat /\ kputdec(arg) \in Seq(Printable)
     /\ Signed(arg, INT_BITS) = arg /\ Signed(arg, LONG_BITS) = arg

(* A directive that is given what it may be given prints a text.           *)
LEMMA FieldType ==
  ASSUME NEW d, NEW arg, Suits(d.conv, arg), d.width \in Nat
  PROVE  PrintField(d, arg) \in Seq(Printable)
<1>1. letter.s = 115 /\ letter.d = 100 /\ NUL = 0
  BY DEF letter, NUL
<1>0. SPACE \in Printable
  BY DEF Printable, SPACE, RETURN
<1>2. CASE d.conv = letter.s /\ arg \in Seq(Printable)
  <2>1. PrintField(d, arg) = Padded(arg, d.width, d.left)
    BY <1>2, Fields
  <2>2. QED
    BY <1>0, <1>2, <2>1, PaddedType
<1>3. CASE d.conv = letter.d /\ arg \in Nat /\ kputdec(arg) \in Seq(Printable)
  <2>1. Signed(arg, Bits(d)) = arg
    BY <1>1, <1>3 DEF Suits, Bits
  <2>2. PrintField(d, arg) = PrintDecimal(d, arg)
    <3>1. PrintField(d, arg) = PrintDecimal(d, Signed(arg, Bits(d)))
      BY <1>3, Fields
    <3>2. QED
      BY <2>1, <3>1
  <2>3. PICK body : body = IF d.ll THEN Padded(kputdec(arg), d.width, d.left) ELSE kputdec(arg)
    OBVIOUS
  <2>4. body \in Seq(Printable)
    BY <1>0, <1>3, <2>3, PaddedType
  <2>5. PrintDecimal(d, arg) = <<>> \o body
    <3>1. ~(arg < 0)
      BY <1>3
    <3>2. QED
      BY <2>3, <3>1 DEF PrintDecimal, Minus
  <2>6. <<>> \o body = body
    BY <2>4, ConcatEmptySeq
  <2>7. QED
    BY <2>2, <2>4, <2>5, <2>6
<1>4. QED
  BY <1>2, <1>3 DEF Suits

(* A format that is given the arguments it asks for gives a text.          *)
LEMMA PrintsText ==
  ASSUME NEW format, NEW kinds, NEW args, AsksFor(format, kinds),
         \A n \in DOMAIN kinds : Suits(kinds[n], args[n])
  PROVE  kprintf(format, args) \in Seq(Printable)
<1>1. PICK pieces : pieces = Pieces(format, FALSE)
  OBVIOUS
<1>2. PICK L : L = Len(pieces)
  OBVIOUS
<1> DEFINE taken(n) == Cardinality({i \in 1..n : pieces[i].conv \in Conversions})
<1>3. /\ L \in Nat /\ DOMAIN pieces = 1..L
      /\ \A n \in 1..L :
           IF pieces[n].conv = NUL THEN pieces[n].text \in Seq(Printable)
           ELSE /\ pieces[n].conv \in Conversions /\ pieces[n].width \in Nat
                /\ taken(n) \in DOMAIN kinds /\ kinds[taken(n)] = pieces[n].conv
  BY <1>1, <1>2 DEF AsksFor
<1>4. PICK all : all = WithArguments(pieces, args, Conversions)
  OBVIOUS
<1>5. all = [n \in 1..L |-> [piece |-> pieces[n],
                             arg |-> IF pieces[n].conv \in Conversions
                                     THEN args[taken(n)] ELSE 0]]
  BY <1>3, <1>4 DEF WithArguments
<1>6. ASSUME NEW n \in 1..L PROVE PrintField(all[n].piece, all[n].arg) \in Seq(Printable)
  <2>1. all[n].piece = pieces[n]
    BY <1>5
  <2>2. CASE pieces[n].conv = NUL
    <3>1. PrintField(all[n].piece, all[n].arg) = pieces[n].text
      BY <2>1, <2>2, Fields
    <3>2. QED
      BY <1>3, <2>2, <3>1
  <2>3. CASE pieces[n].conv # NUL
    <3>1. PICK t : t = taken(n)
      OBVIOUS
    <3>2. /\ pieces[n].conv \in Conversions /\ pieces[n].width \in Nat
          /\ t \in DOMAIN kinds /\ kinds[t] = pieces[n].conv
      BY <1>3, <2>3, <3>1
    <3>3. all[n].arg = args[t]
      BY <1>5, <3>1, <3>2
    <3>4. Suits(pieces[n].conv, args[t])
      BY <3>2
    <3>5. PrintField(pieces[n], args[t]) \in Seq(Printable)
      BY <3>2, <3>4, FieldType
    <3>6. QED
      BY <2>1, <3>3, <3>5
  <2>4. QED
    BY <2>2, <2>3
<1>7. PrintFields(all) \in Seq(Seq(Printable))
  <2>1. DOMAIN all = 1..L
    BY <1>5
  <2> HIDE DEF taken
  <2>2. PrintFields(all) \in [1..L -> Seq(Printable)]
    BY <1>6, <2>1 DEF PrintFields
  <2>3. QED
    BY <1>3, <2>2
<1>8. FlattenSeq(PrintFields(all)) \in Seq(Printable)
  BY <1>7, FlattenType
<1>9. QED
  BY <1>1, <1>4, <1>8 DEF kprintf, Joining
-----------------------------------------------------------------------------
(* The screen as a grid of places, one for each glyph.                     *)

(* The columns and the rows.                                               *)
Columns == width \div FONT_WIDTH
Rows == height \div FONT_HEIGHT

(* Multiples of k: they are in the order of their factors.                 *)
LEMMA Multiples ==
  ASSUME NEW k \in Nat \ {0}, NEW a \in Int, NEW b \in Int
  PROVE  /\ a < b => a * k + k <= b * k
         /\ a <= b <=> a * k <= b * k
         /\ a = b <=> a * k = b * k
         /\ a < b <=> a * k < b * k
         /\ (a + 1) * k = a * k + k
         /\ (a - 1) * k = a * k - k
         /\ a * k \in Int
<1>1. \A n \in Nat : n * k \in Nat
  OBVIOUS
<1>2. ASSUME NEW x \in Int, NEW y \in Int, x < y PROVE x * k + k <= y * k
  <2>1. PICK n \in Nat : y = x + 1 + n
    <3>1. y - x - 1 \in Nat /\ y = x + 1 + (y - x - 1)
      BY <1>2
    <3>2. QED
      BY <3>1
  <2>2. y * k = x * k + k + n * k
    BY <2>1
  <2>3. QED
    BY <1>1, <2>2
<1>3. a * k \in Int /\ b * k \in Int
  OBVIOUS
<1>4. (a + 1) * k = a * k + k /\ (a - 1) * k = a * k - k
  OBVIOUS
<1>5. a < b => a * k + k <= b * k
  BY <1>2
<1>6. b < a => b * k + k <= a * k
  BY <1>2
<1>7. QED
  BY <1>3, <1>4, <1>5, <1>6

(* A multiple of k and a rest are one number only.                         *)
LEMMA OnePlace ==
  ASSUME NEW k \in Nat \ {0}, NEW a \in 0..(k - 1), NEW b \in Int,
         NEW c \in 0..(k - 1), NEW d \in Int, b * k + a = d * k + c
  PROVE  a = c /\ b = d
<1>1. b < d => b * k + k <= d * k
  BY Multiples
<1>2. d < b => d * k + k <= b * k
  BY Multiples
<1>3. b * k \in Int /\ d * k \in Int
  OBVIOUS
<1>4. b = d
  BY <1>1, <1>2, <1>3
<1>5. QED
  BY <1>3, <1>4

(* Division with a rest.                                                   *)
LEMMA Quotients ==
  ASSUME NEW k \in Nat \ {0}, NEW n \in Int
  PROVE  /\ n \div k \in Int /\ n % k \in 0..(k - 1)
         /\ n = (n \div k) * k + (n % k)
OBVIOUS

(* The quotient and the rest are what a number is made of.                 *)
LEMMA QuotientIs ==
  ASSUME NEW k \in Nat \ {0}, NEW a \in 0..(k - 1), NEW b \in Int
  PROVE  (b * k + a) \div k = b /\ (b * k + a) % k = a
<1>1. PICK n : n = b * k + a
  OBVIOUS
<1>2. n \in Int
  BY <1>1
<1>3. /\ n \div k \in Int /\ n % k \in 0..(k - 1)
      /\ n = (n \div k) * k + (n % k)
  BY <1>2, Quotients
<1>4. PICK q, r : q = n \div k /\ r = n % k
  OBVIOUS
<1>5. q \in Int /\ r \in 0..(k - 1) /\ b * k + a = q * k + r
  BY <1>1, <1>3, <1>4
<1>6. a = r /\ b = q
  BY ONLY <1>5, OnePlace, k \in Nat \ {0}, a \in 0..(k - 1), b \in Int
<1>7. QED
  BY <1>1, <1>4, <1>6

(* The framebuffer is whole glyphs, at least one.                          *)
LEMMA Whole ==
  /\ Columns \in Nat \ {0} /\ Rows \in Nat \ {0}
  /\ FONT_WIDTH \in Nat \ {0} /\ FONT_HEIGHT \in Nat \ {0}
  /\ width = Columns * FONT_WIDTH /\ height = Rows * FONT_HEIGHT
<1>1. /\ width \in Nat \ {0} /\ height \in Nat \ {0}
      /\ FONT_WIDTH \in Nat \ {0} /\ FONT_HEIGHT \in Nat \ {0}
      /\ width % FONT_WIDTH = 0 /\ height % FONT_HEIGHT = 0
  BY ScreenAssumption
<1>2. ASSUME NEW n \in Nat \ {0}, NEW k \in Nat \ {0}, n % k = 0
      PROVE  n \div k \in Nat \ {0} /\ n = (n \div k) * k
  <2>1. PICK q : q = n \div k
    OBVIOUS
  <2>2. q \in Int /\ n = q * k
    BY <1>2, <2>1, Quotients
  <2>3. 0 * k < q * k
    BY <2>2
  <2>4. 0 < q
    BY <2>2, <2>3, Multiples
  <2>5. QED
    BY <2>1, <2>2, <2>4
<1>3. QED
  BY <1>1, <1>2 DEF Columns, Rows

(* The numbers of the columns and of the rows.                             *)
Across == 0..(Columns - 1)
Down == 0..(Rows - 1)

(* The number of a place in reading order.                                 *)
PlaceNumber(a, b) == b * Columns + a

(* The place in pixels.                                                    *)
Spot(a, b) == <<a * FONT_WIDTH, b * FONT_HEIGHT>>

(* Two places have different pixels.                                       *)
LEMMA SpotsDiffer ==
  ASSUME NEW a \in Int, NEW b \in Int, NEW c \in Int, NEW d \in Int
  PROVE  Spot(a, b) = Spot(c, d) <=> a = c /\ b = d
<1>1. a * FONT_WIDTH = c * FONT_WIDTH <=> a = c
  BY Whole, Multiples
<1>2. b * FONT_HEIGHT = d * FONT_HEIGHT <=> b = d
  BY Whole, Multiples
<1>3. QED
  BY <1>1, <1>2 DEF Spot

(* Two places have different numbers.                                      *)
LEMMA NumbersDiffer ==
  ASSUME NEW a \in Across, NEW b \in Down, NEW c \in Across, NEW d \in Down
  PROVE  /\ PlaceNumber(a, b) \in Nat
         /\ PlaceNumber(a, b) = PlaceNumber(c, d) => a = c /\ b = d
<1>1. a \in 0..(Columns - 1) /\ c \in 0..(Columns - 1) /\ b \in Nat /\ d \in Nat
  BY Whole DEF Across, Down
<1>2. b * Columns \in Nat
  BY <1>1, Whole
<1>3. b * Columns + a = d * Columns + c => a = c /\ b = d
  BY <1>1, Whole, OnePlace
<1>4. QED
  BY <1>1, <1>2, <1>3 DEF PlaceNumber

-----------------------------------------------------------------------------
(* What there is on a screen.                                              *)

(* Each glyph is in a place of the grid, alone, and before the place with  *)
(* the number n.                                                           *)
Tidy(glyphs, n) ==
  \A p \in DOMAIN glyphs :
    \E a \in Across, b \in Down :
      /\ p = Spot(a, b)
      /\ glyphs[p] = {} \/ (PlaceNumber(a, b) < n /\ \E c : glyphs[p] = {c})

(* The cursor is at a place of the grid, and what is drawn is before it.   *)
OnGrid(s, a, b) ==
  /\ a \in Across /\ b \in Down
  /\ s = [cursor_x |-> a * FONT_WIDTH, cursor_y |-> b * FONT_HEIGHT,
          color |-> s.color, glyphs |-> s.glyphs]
  /\ Tidy(s.glyphs, PlaceNumber(a, b))

(* What is drawn in a place.                                               *)
DrawnAt(glyphs, p) == IF p \in DOMAIN glyphs THEN glyphs[p] ELSE {}

(* The places before the one with the number n show the end of the line.   *)
EndsAt(glyphs, n, line) ==
  \A a \in Across, b \in Down, i \in Nat :
    i < Len(line) /\ PlaceNumber(a, b) + i + 1 = n =>
      DrawnAt(glyphs, Spot(a, b)) = {line[Len(line) - i]}

(* The screen is in order and shows the line, or its end, before the       *)
(* cursor.                                                                 *)
Shows(s, line) ==
  \E a \in Across, b \in Down : OnGrid(s, a, b) /\ EndsAt(s.glyphs, PlaceNumber(a, b), line)

(* A screen that was just cleared.                                         *)
LEMMA ClearShows ==
  ASSUME NEW color, NEW line
  PROVE  Shows(v_clear(color), line)
<1>1. PICK s : s = v_clear(color)
  OBVIOUS
<1>2. s = [cursor_x |-> 0, cursor_y |-> 0, color |-> color, glyphs |-> <<>>]
  BY <1>1 DEF v_clear
<1>3. 0 \in Across /\ 0 \in Down /\ PlaceNumber(0, 0) = 0
  BY Whole DEF Across, Down, PlaceNumber
<1>4. 0 * FONT_WIDTH = 0 /\ 0 * FONT_HEIGHT = 0
  BY Whole
<1>5. s.glyphs = <<>> /\ s.color = color
  BY <1>2
<1>6. Tidy(s.glyphs, 0)
  BY <1>5 DEF Tidy
<1>7. OnGrid(s, 0, 0)
  BY <1>2, <1>3, <1>4, <1>5, <1>6 DEF OnGrid
<1>8. EndsAt(s.glyphs, 0, line)
  <2>1. ASSUME NEW a \in Across, NEW b \in Down, NEW i \in Nat PROVE PlaceNumber(a, b) + i + 1 # 0
    BY NumbersDiffer
  <2>2. QED
    BY <2>1 DEF EndsAt
<1>9. QED
  BY <1>1, <1>3, <1>7, <1>8 DEF Shows

(* Any line shows nothing more than what an empty one does, and there the  *)
(* line does not matter.                                                   *)
LEMMA ShowsNothing ==
  ASSUME NEW s, NEW line, Shows(s, line)
  PROVE  Shows(s, <<>>)
<1>1. Len(<<>>) = 0
  OBVIOUS
<1>2. \A n : EndsAt(s.glyphs, n, <<>>)
  BY <1>1 DEF EndsAt
<1>3. QED
  BY <1>2 DEF Shows

(* The cursor after a character, before the wrap, is beyond the last       *)
(* column, or below the last row, by one at most.                          *)
LEMMA Settles ==
  ASSUME NEW t, NEW a \in 0..Columns, NEW b \in Down, NEW line, NEW color, NEW glyphs,
         t = [cursor_x |-> a * FONT_WIDTH, cursor_y |-> b * FONT_HEIGHT,
              color |-> color, glyphs |-> glyphs],
         Tidy(glyphs, PlaceNumber(a, b)), EndsAt(glyphs, PlaceNumber(a, b), line)
  PROVE  Shows(Restart(Wrap(t)), line)
<1>1. /\ t.cursor_x = a * FONT_WIDTH /\ t.cursor_y = b * FONT_HEIGHT
      /\ t.color = color /\ t.glyphs = glyphs
      /\ a * FONT_WIDTH \in Int /\ b * FONT_HEIGHT \in Int
  <2>1. a \in Int /\ b \in Int
    BY Whole DEF Down
  <2>2. a * FONT_WIDTH \in Int /\ b * FONT_HEIGHT \in Int
    BY <2>1, Whole
  <2>3. QED
    BY <2>2
<1>2. CASE a \in Across
  <2>1. ~(t.cursor_x + FONT_WIDTH > width)
    <3>1. a * FONT_WIDTH + FONT_WIDTH <= Columns * FONT_WIDTH
      BY <1>2, Whole, Multiples DEF Across
    <3>2. QED
      BY <1>1, <3>1, Whole
  <2>2. ~(t.cursor_y + FONT_HEIGHT > height)
    <3>1. b * FONT_HEIGHT + FONT_HEIGHT <= Rows * FONT_HEIGHT
      BY Whole, Multiples DEF Down
    <3>2. QED
      BY <1>1, <3>1, Whole
  <2>3. Restart(Wrap(t)) = t
    BY <2>1, <2>2 DEF Restart, Wrap
  <2>4. OnGrid(t, a, b)
    BY <1>1, <1>2 DEF OnGrid
  <2>5. QED
    BY <1>1, <1>2, <2>3, <2>4 DEF Shows
<1>3. CASE a = Columns
  <2>1. t.cursor_x + FONT_WIDTH > width
    BY <1>1, <1>3, Whole
  <2>2. PICK u : u = NextRow(t)
    OBVIOUS
  <2>3. Wrap(t) = u
    BY <2>1, <2>2 DEF Wrap
  <2>4. /\ u = [cursor_x |-> 0, cursor_y |-> (b + 1) * FONT_HEIGHT,
                color |-> color, glyphs |-> glyphs]
        /\ (b + 1) * FONT_HEIGHT \in Int
    <3>1. (b + 1) * FONT_HEIGHT = b * FONT_HEIGHT + FONT_HEIGHT
      BY Whole, Multiples DEF Down
    <3>2. (b + 1) * FONT_HEIGHT \in Int
      BY <1>1, <3>1, Whole
    <3>3. u = [cursor_x |-> 0, cursor_y |-> t.cursor_y + FONT_HEIGHT,
               color |-> t.color, glyphs |-> t.glyphs]
      BY <2>2 DEF NextRow, MovedTo
    <3>4. QED
      BY <1>1, <3>1, <3>2, <3>3
  <2>5. PlaceNumber(a, b) = PlaceNumber(0, b + 1)
    <3>1. (b + 1) * Columns = b * Columns + Columns
      BY Whole, Multiples DEF Down
    <3>2. QED
      BY <1>3, <3>1, Whole DEF PlaceNumber, Down
  <2>6. CASE b + 1 \in Down
    <3>1. ~(u.cursor_y + FONT_HEIGHT > height)
      <4>1. (b + 1) * FONT_HEIGHT + FONT_HEIGHT <= Rows * FONT_HEIGHT
        BY <2>6, Whole, Multiples DEF Down
      <4>2. QED
        BY <2>4, <4>1, Whole
    <3>2. Restart(u) = u
      BY <3>1 DEF Restart
    <3>3. 0 \in Across /\ 0 * FONT_WIDTH = 0
      BY Whole DEF Across
    <3>4. OnGrid(u, 0, b + 1) /\ u.glyphs = glyphs
      BY <2>4, <2>5, <2>6, <3>3 DEF OnGrid
    <3>5. QED
      BY <2>3, <2>5, <2>6, <3>2, <3>3, <3>4 DEF Shows
  <2>7. CASE b + 1 \notin Down
    <3>1. b + 1 = Rows
      BY <2>7, Whole DEF Down
    <3>2. u.cursor_y + FONT_HEIGHT > height
      BY <2>4, <3>1, Whole
    <3>3. Restart(u) = v_clear(BLACK)
      BY <3>2 DEF Restart
    <3>4. QED
      BY <2>3, <3>3, ClearShows
  <2>8. QED
    BY <2>6, <2>7
<1>4. QED
  BY <1>2, <1>3, Whole DEF Across

(* The screen with its parts named.                                        *)
LEMMA PartsOf ==
  ASSUME NEW s, NEW a, NEW b, OnGrid(s, a, b)
  PROVE  /\ a \in Across /\ b \in Down /\ a \in Int /\ b \in Int
         /\ a * FONT_WIDTH \in Int /\ b * FONT_HEIGHT \in Int
         /\ \E color, glyphs :
              /\ s = [cursor_x |-> a * FONT_WIDTH, cursor_y |-> b * FONT_HEIGHT,
                      color |-> color, glyphs |-> glyphs]
              /\ Tidy(glyphs, PlaceNumber(a, b))
<1>1. a \in Across /\ b \in Down /\ a \in Int /\ b \in Int
  BY Whole DEF OnGrid, Across, Down
<1>2. a * FONT_WIDTH \in Int /\ b * FONT_HEIGHT \in Int
  BY <1>1, Whole
<1>3. QED
  BY <1>1, <1>2 DEF OnGrid

(* A newline leaves what is drawn and starts a line.                       *)
LEMMA NewlineShows ==
  ASSUME NEW s, NEW line, Shows(s, line)
  PROVE  Shows(v_putchar(s, NEWLINE), <<>>)
<1>1. PICK a \in Across, b \in Down : OnGrid(s, a, b)
  BY DEF Shows
<1>2. /\ a \in Int /\ b \in Int
      /\ a * FONT_WIDTH \in Int /\ b * FONT_HEIGHT \in Int
  BY <1>1, PartsOf
<1>3. PICK color, glyphs :
        /\ s = [cursor_x |-> a * FONT_WIDTH, cursor_y |-> b * FONT_HEIGHT,
                color |-> color, glyphs |-> glyphs]
        /\ Tidy(glyphs, PlaceNumber(a, b))
  BY <1>1, PartsOf
<1>4. PICK t : t = [cursor_x |-> 0, cursor_y |-> (b + 1) * FONT_HEIGHT,
                    color |-> color, glyphs |-> glyphs]
  OBVIOUS
<1>5. v_putchar(s, NEWLINE) = Restart(Wrap(t))
  <2>1. NextRow(s) = [cursor_x |-> 0, cursor_y |-> s.cursor_y + FONT_HEIGHT,
                      color |-> s.color, glyphs |-> s.glyphs]
    BY DEF NextRow, MovedTo
  <2>2. /\ s.cursor_y = b * FONT_HEIGHT /\ s.color = color /\ s.glyphs = glyphs
        /\ (b + 1) * FONT_HEIGHT = b * FONT_HEIGHT + FONT_HEIGHT
    BY <1>2, <1>3, Whole, Multiples
  <2>3. NextRow(s) = t
    BY <1>4, <2>1, <2>2
  <2>4. NEWLINE # BACKSPACE
    BY DEF NEWLINE, BACKSPACE
  <2>5. QED
    BY <2>3, <2>4 DEF v_putchar
<1>6. /\ PlaceNumber(a, b) < PlaceNumber(0, b + 1)
      /\ PlaceNumber(a, b) \in Int /\ PlaceNumber(0, b + 1) \in Int
  <2>1. (b + 1) * Columns = b * Columns + Columns /\ b * Columns \in Int
    BY <1>2, Whole, Multiples
  <2>2. QED
    BY <1>2, <2>1, Whole DEF PlaceNumber, Across
<1>7. Tidy(glyphs, PlaceNumber(0, b + 1))
  <2>1. ASSUME NEW c \in Across, NEW d \in Down, PlaceNumber(c, d) < PlaceNumber(a, b)
        PROVE  PlaceNumber(c, d) < PlaceNumber(0, b + 1)
    BY <1>6, <2>1, NumbersDiffer
  <2>2. QED
    BY <1>3, <2>1 DEF Tidy
<1>8. \A n : EndsAt(glyphs, n, <<>>)
  BY DEF EndsAt
<1>9. CASE b + 1 \in Down
  <2>1. 0 \in 0..Columns /\ 0 * FONT_WIDTH = 0
    BY Whole
  <2>2. t = [cursor_x |-> 0 * FONT_WIDTH, cursor_y |-> (b + 1) * FONT_HEIGHT,
             color |-> color, glyphs |-> glyphs]
    BY <1>4, <2>1
  <2>3. Shows(Restart(Wrap(t)), <<>>)
    BY <1>7, <1>8, <1>9, <2>1, <2>2, Settles
  <2>4. QED
    BY <1>5, <2>3
<1>10. CASE b + 1 \notin Down
  <2>1. b + 1 = Rows
    BY <1>2, <1>10, Whole DEF Down
  <2>2. /\ t.cursor_x = 0 /\ t.cursor_y = (b + 1) * FONT_HEIGHT
        /\ t.cursor_y + FONT_HEIGHT > height
    <3>1. (b + 1) * FONT_HEIGHT = height
      BY <2>1, Whole
    <3>2. QED
      BY <1>4, <3>1, Whole
  <2>3. ~(t.cursor_x + FONT_WIDTH > width)
    <3>1. 1 <= Columns /\ 1 * FONT_WIDTH = FONT_WIDTH
      BY Whole
    <3>2. 1 * FONT_WIDTH <= Columns * FONT_WIDTH
      BY <3>1, Whole, Multiples
    <3>3. QED
      BY <2>2, <3>1, <3>2, Whole
  <2>4. Restart(Wrap(t)) = v_clear(BLACK)
    BY <2>2, <2>3 DEF Restart, Wrap
  <2>5. QED
    BY <1>5, <2>4, ClearShows
<1>11. QED
  BY <1>9, <1>10

(* A character that is drawn ends the line.                                *)
LEMMA DrawShows ==
  ASSUME NEW C, NEW s, NEW line \in Seq(C), NEW ch \in C, Shows(s, line),
         ch \notin {NEWLINE, RETURN, BACKSPACE}
  PROVE  Shows(v_putchar(s, ch), Append(line, ch))
<1>1. PICK a \in Across, b \in Down : OnGrid(s, a, b) /\ EndsAt(s.glyphs, PlaceNumber(a, b), line)
  BY DEF Shows
<1>2. /\ a \in Int /\ b \in Int
      /\ a * FONT_WIDTH \in Int /\ b * FONT_HEIGHT \in Int
  BY <1>1, PartsOf
<1>3. PICK color, glyphs :
        /\ s = [cursor_x |-> a * FONT_WIDTH, cursor_y |-> b * FONT_HEIGHT,
                color |-> color, glyphs |-> glyphs]
        /\ Tidy(glyphs, PlaceNumber(a, b))
  BY <1>1, PartsOf
<1>4. PICK at : at = Spot(a, b)
  OBVIOUS
<1>5. PICK drawn : drawn = [p \in DOMAIN glyphs \cup {at} |-> IF p = at THEN {ch} ELSE glyphs[p]]
  OBVIOUS
<1>6. PICK t : t = [cursor_x |-> (a + 1) * FONT_WIDTH, cursor_y |-> b * FONT_HEIGHT,
                    color |-> color, glyphs |-> drawn]
  OBVIOUS
<1>7. DrawnAt(glyphs, at) = {}
  <2>1. ASSUME at \in DOMAIN glyphs, glyphs[at] # {} PROVE FALSE
    <3>1. PICK c \in Across, d \in Down : at = Spot(c, d) /\ PlaceNumber(c, d) < PlaceNumber(a, b)
      BY <1>3, <2>1 DEF Tidy
    <3>2. c \in Int /\ d \in Int
      BY Whole DEF Across, Down
    <3>3. a = c /\ b = d
      <4>1. Spot(a, b) = Spot(c, d)
        BY <1>4, <3>1
      <4>2. QED
        BY <1>2, <3>2, <4>1, SpotsDiffer
    <3>4. QED
      BY <3>1, <3>3, NumbersDiffer
  <2>2. QED
    BY <2>1 DEF DrawnAt
<1>8. v_putchar(s, ch) = Restart(Wrap(t))
  <2>1. /\ s.cursor_x = a * FONT_WIDTH /\ s.cursor_y = b * FONT_HEIGHT
        /\ s.color = color /\ s.glyphs = glyphs
        /\ (a + 1) * FONT_WIDTH = a * FONT_WIDTH + FONT_WIDTH
    BY <1>2, <1>3, Whole, Multiples
  <2>2. Glyph(s, s.cursor_x, s.cursor_y) \cup {ch} = {ch}
    BY <1>4, <1>7, <2>1 DEF Glyph, DrawnAt, Spot
  <2>3. Painted(s, {ch}) = [cursor_x |-> a * FONT_WIDTH, cursor_y |-> b * FONT_HEIGHT,
                            color |-> color, glyphs |-> drawn]
    <3>1. Painted(s, {ch}) = [s EXCEPT !.glyphs = drawn]
      BY <1>4, <1>5, <2>1 DEF Painted, Spot
    <3>2. QED
      BY <1>3, <3>1
  <2>4. Draw(s, ch) = t
    <3>1. Draw(s, ch) = [Painted(s, {ch}) EXCEPT !.cursor_x = @ + FONT_WIDTH]
      BY <2>2 DEF Draw
    <3>2. PICK x, y : x = a * FONT_WIDTH /\ y = (a + 1) * FONT_WIDTH
      OBVIOUS
    <3>3. PICK u : u = Painted(s, {ch})
      OBVIOUS
    <3>4. u = [cursor_x |-> x, cursor_y |-> b * FONT_HEIGHT, color |-> color, glyphs |-> drawn]
      BY <2>3, <3>2, <3>3
    <3>5. Draw(s, ch) = [u EXCEPT !.cursor_x = u.cursor_x + FONT_WIDTH]
      BY <3>1, <3>3
    <3>6. u.cursor_x + FONT_WIDTH = y
      BY <2>1, <3>2, <3>4
    <3>7. Draw(s, ch) = [u EXCEPT !.cursor_x = y]
      BY <3>5, <3>6
    <3>8. QED
      BY <1>6, <3>2, <3>4, <3>7
  <2>5. QED
    BY <2>4 DEF v_putchar
<1>9. PlaceNumber(a + 1, b) = PlaceNumber(a, b) + 1 /\ PlaceNumber(a, b) \in Nat
  <2>1. b * Columns \in Int
    BY <1>2, Whole
  <2>2. QED
    BY <1>2, <2>1, NumbersDiffer DEF PlaceNumber
<1>10. Tidy(drawn, PlaceNumber(a + 1, b))
  <2>1. ASSUME NEW p \in DOMAIN drawn
        PROVE  \E c \in Across, d \in Down :
                 /\ p = Spot(c, d)
                 /\ \/ drawn[p] = {}
                    \/ PlaceNumber(c, d) < PlaceNumber(a + 1, b) /\ \E x : drawn[p] = {x}
    <3>1. CASE p = at
      <4>1. drawn[p] = {ch} /\ PlaceNumber(a, b) < PlaceNumber(a + 1, b)
        BY <1>5, <1>9, <3>1
      <4>2. QED
        BY <1>4, <3>1, <4>1
    <3>2. CASE p # at
      <4>1. p \in DOMAIN glyphs /\ drawn[p] = glyphs[p]
        BY <1>5, <3>2
      <4>2. PICK c \in Across, d \in Down :
              /\ p = Spot(c, d)
              /\ \/ glyphs[p] = {}
                 \/ PlaceNumber(c, d) < PlaceNumber(a, b) /\ \E x : glyphs[p] = {x}
        BY <1>3, <4>1 DEF Tidy
      <4>3. PlaceNumber(c, d) < PlaceNumber(a, b) => PlaceNumber(c, d) < PlaceNumber(a + 1, b)
        BY <1>9, NumbersDiffer
      <4>4. QED
        BY <4>1, <4>2, <4>3
    <3>3. QED
      BY <3>1, <3>2
  <2>2. QED
    BY <2>1 DEF Tidy
<1>11. EndsAt(drawn, PlaceNumber(a + 1, b), Append(line, ch))
  <2>1. PICK more, n : more = Append(line, ch) /\ n = Len(line)
    OBVIOUS
  <2>2. /\ n \in Nat /\ Len(more) = n + 1 /\ more[n + 1] = ch
        /\ \A i \in 1..n : more[i] = line[i]
    BY <2>1, AppendProperties
  <2>3. ASSUME NEW c \in Across, NEW d \in Down, NEW i \in Nat,
               i < n + 1, PlaceNumber(c, d) + i + 1 = PlaceNumber(a, b) + 1
        PROVE  DrawnAt(drawn, Spot(c, d)) = {more[n + 1 - i]}
    <3>1. c \in Int /\ d \in Int /\ PlaceNumber(c, d) \in Nat
      BY NumbersDiffer, Whole DEF Across, Down
    <3>2. CASE i = 0
      <4>1. c = a /\ d = b
        BY <1>9, <2>3, <3>1, <3>2, NumbersDiffer
      <4>2. DrawnAt(drawn, at) = {ch}
        BY <1>5 DEF DrawnAt
      <4>3. QED
        BY <1>4, <2>2, <3>2, <4>1, <4>2
    <3>3. CASE i # 0
      <4>1. /\ i - 1 \in Nat /\ i - 1 < n /\ PlaceNumber(c, d) + (i - 1) + 1 = PlaceNumber(a, b)
            /\ PlaceNumber(c, d) # PlaceNumber(a, b)
        BY <1>9, <2>2, <2>3, <3>1, <3>3
      <4>2. DrawnAt(glyphs, Spot(c, d)) = {line[n - (i - 1)]}
        BY <1>1, <1>3, <2>1, <4>1 DEF EndsAt
      <4>3. Spot(c, d) # at
        BY <1>2, <1>4, <3>1, <4>1, SpotsDiffer
      <4>4. DrawnAt(drawn, Spot(c, d)) = DrawnAt(glyphs, Spot(c, d))
        BY <1>5, <4>3 DEF DrawnAt
      <4>5. n - (i - 1) = n + 1 - i /\ n - (i - 1) \in 1..n
        BY <2>2, <4>1
      <4>6. QED
        BY <2>2, <4>2, <4>4, <4>5
    <3>4. QED
      BY <3>2, <3>3
  <2>4. QED
    BY <1>9, <2>1, <2>2, <2>3 DEF EndsAt
<1>12. a + 1 \in 0..Columns
  BY <1>2, Whole DEF Across
<1>13. Shows(Restart(Wrap(t)), Append(line, ch))
  BY <1>6, <1>10, <1>11, <1>12, Settles
<1>14. QED
  BY <1>8, <1>13

(* What a line ends with when its last character is taken away.            *)
Shortened(rest, line) ==
  \A i \in Nat : i < Len(rest) =>
    i + 1 < Len(line) /\ rest[Len(rest) - i] = line[Len(line) - (i + 1)]

(* The place before is erased, and with it the last character of the line. *)
LEMMA ErasedShows ==
  ASSUME NEW color, NEW glyphs, NEW line, NEW rest, NEW u, NEW n \in Nat,
         NEW a \in Across, NEW b \in Down, n = PlaceNumber(a, b) + 1,
         u = [cursor_x |-> a * FONT_WIDTH, cursor_y |-> b * FONT_HEIGHT,
              color |-> color, glyphs |-> glyphs],
         Tidy(glyphs, n), EndsAt(glyphs, n, line), Shortened(rest, line),
         Len(line) \in Nat, Len(rest) \in Nat
  PROVE  Shows(EraseAtCursor(u), rest)
<1>1. PICK at : at = Spot(a, b)
  OBVIOUS
<1>2. PICK left : left = [p \in DOMAIN glyphs \cup {at} |-> IF p = at THEN {} ELSE glyphs[p]]
  OBVIOUS
<1>3. a \in Int /\ b \in Int /\ PlaceNumber(a, b) \in Nat
  BY NumbersDiffer, Whole DEF Across, Down
<1>4. EraseAtCursor(u) = [cursor_x |-> a * FONT_WIDTH, cursor_y |-> b * FONT_HEIGHT,
                          color |-> color, glyphs |-> left]
  <2>1. /\ u.cursor_x = a * FONT_WIDTH /\ u.cursor_y = b * FONT_HEIGHT
        /\ u.color = color /\ u.glyphs = glyphs
    OBVIOUS
  <2>2. EraseAtCursor(u) = [u EXCEPT !.glyphs = left]
    BY <1>1, <1>2, <2>1 DEF EraseAtCursor, Painted, Spot
  <2>3. QED
    BY <2>2
<1>5. Tidy(left, PlaceNumber(a, b))
  <2>1. ASSUME NEW p \in DOMAIN left
        PROVE  \E c \in Across, d \in Down :
                 /\ p = Spot(c, d)
                 /\ left[p] = {} \/ (PlaceNumber(c, d) < PlaceNumber(a, b) /\ \E x : left[p] = {x})
    <3>1. CASE p = at
      BY <1>1, <1>2, <3>1
    <3>2. CASE p # at
      <4>1. p \in DOMAIN glyphs /\ left[p] = glyphs[p]
        BY <1>2, <3>2
      <4>2. PICK c \in Across, d \in Down :
              /\ p = Spot(c, d)
              /\ glyphs[p] = {} \/ (PlaceNumber(c, d) < n /\ \E x : glyphs[p] = {x})
        BY <4>1 DEF Tidy
      <4>3. c # a \/ d # b
        BY <1>1, <3>2, <4>2
      <4>4. PlaceNumber(c, d) # PlaceNumber(a, b) /\ PlaceNumber(c, d) \in Nat
        BY <4>3, NumbersDiffer
      <4>5. PlaceNumber(c, d) < n => PlaceNumber(c, d) < PlaceNumber(a, b)
        BY <1>3, <4>4
      <4>6. QED
        BY <4>1, <4>2, <4>5
    <3>3. QED
      BY <3>1, <3>2
  <2>2. QED
    BY <2>1 DEF Tidy
<1>6. EndsAt(left, PlaceNumber(a, b), rest)
  <2>1. ASSUME NEW c \in Across, NEW d \in Down, NEW i \in Nat,
               i < Len(rest), PlaceNumber(c, d) + i + 1 = PlaceNumber(a, b)
        PROVE  DrawnAt(left, Spot(c, d)) = {rest[Len(rest) - i]}
    <3>1. /\ c \in Int /\ d \in Int
          /\ PlaceNumber(c, d) \in Nat /\ PlaceNumber(c, d) # PlaceNumber(a, b)
          /\ PlaceNumber(c, d) + (i + 1) + 1 = n /\ i + 1 \in Nat
      <4>1. c \in Int /\ d \in Int
        BY Whole DEF Across, Down
      <4>2. PICK m, k : m = PlaceNumber(c, d) /\ k = PlaceNumber(a, b)
        OBVIOUS
      <4>3. m \in Nat /\ k \in Nat /\ m + i + 1 = k /\ n = k + 1
        BY <2>1, <4>2, NumbersDiffer
      <4>4. m # k /\ m + (i + 1) + 1 = n /\ i + 1 \in Nat
        BY <4>3
      <4>5. QED
        BY <4>1, <4>2, <4>3, <4>4
    <3>2. i + 1 < Len(line) /\ rest[Len(rest) - i] = line[Len(line) - (i + 1)]
      BY <2>1 DEF Shortened
    <3>3. DrawnAt(glyphs, Spot(c, d)) = {line[Len(line) - (i + 1)]}
      BY <3>1, <3>2 DEF EndsAt
    <3>4. Spot(c, d) # at
      <4>1. ~(a = c /\ b = d)
        BY <3>1
      <4>2. Spot(a, b) # Spot(c, d)
        BY <1>3, <3>1, <4>1, SpotsDiffer
      <4>3. QED
        BY <1>1, <4>2
    <3>5. DrawnAt(left, Spot(c, d)) = DrawnAt(glyphs, Spot(c, d))
      BY <1>2, <3>4 DEF DrawnAt
    <3>6. QED
      BY <3>2, <3>3, <3>5
  <2>2. QED
    BY <2>1 DEF EndsAt
<1>7. PICK v : v = EraseAtCursor(u)
  OBVIOUS
<1>8. v.glyphs = left /\ v.color = color
  BY <1>4, <1>7
<1>9. OnGrid(v, a, b)
  BY <1>4, <1>5, <1>7, <1>8 DEF OnGrid
<1>10. QED
  BY <1>6, <1>7, <1>8, <1>9 DEF Shows

(* A backspace erases the last character of the line.                      *)
LEMMA BackspaceShows ==
  ASSUME NEW s, NEW line, NEW rest, Shows(s, line), Shortened(rest, line),
         Len(line) \in Nat, Len(rest) \in Nat
  PROVE  Shows(v_putchar(s, BACKSPACE), rest)
<1>1. PICK a \in Across, b \in Down : OnGrid(s, a, b) /\ EndsAt(s.glyphs, PlaceNumber(a, b), line)
  BY DEF Shows
<1>2. /\ a \in Int /\ b \in Int
      /\ a * FONT_WIDTH \in Int /\ b * FONT_HEIGHT \in Int
  BY <1>1, PartsOf
<1>3. PICK color, glyphs :
        /\ s = [cursor_x |-> a * FONT_WIDTH, cursor_y |-> b * FONT_HEIGHT,
                color |-> color, glyphs |-> glyphs]
        /\ Tidy(glyphs, PlaceNumber(a, b))
  BY <1>1, PartsOf
<1>4. PICK n : n = PlaceNumber(a, b)
  OBVIOUS
<1>5. n \in Nat /\ Tidy(glyphs, n) /\ EndsAt(glyphs, n, line)
  BY <1>1, <1>3, <1>4, NumbersDiffer
<1>6. /\ s.cursor_x = a * FONT_WIDTH /\ s.cursor_y = b * FONT_HEIGHT
      /\ s.color = color /\ s.glyphs = glyphs
  BY <1>3
<1>7. s.cursor_x < FONT_WIDTH <=> a = 0
  <2>1. a < 1 <=> a * FONT_WIDTH < 1 * FONT_WIDTH
    BY <1>2, Whole, Multiples
  <2>2. 1 * FONT_WIDTH = FONT_WIDTH
    BY Whole
  <2>3. a < 1 <=> a = 0
    BY <1>2 DEF Across
  <2>4. QED
    BY <1>6, <2>1, <2>2, <2>3
<1>8. s.cursor_y < FONT_HEIGHT <=> b = 0
  <2>1. b < 1 <=> b * FONT_HEIGHT < 1 * FONT_HEIGHT
    BY <1>2, Whole, Multiples
  <2>2. 1 * FONT_HEIGHT = FONT_HEIGHT
    BY Whole
  <2>3. b < 1 <=> b = 0
    BY <1>2 DEF Down
  <2>4. QED
    BY <1>6, <2>1, <2>2, <2>3
<1>9. CASE a = 0 /\ b = 0
  <2>1. v_putchar(s, BACKSPACE) = s
    BY <1>7, <1>8, <1>9 DEF v_putchar, AtOrigin
  <2>2. PlaceNumber(a, b) = 0
    BY <1>9, Whole DEF PlaceNumber
  <2>3. ASSUME NEW c \in Across, NEW d \in Down, NEW i \in Nat PROVE PlaceNumber(c, d) + i + 1 # 0
    BY NumbersDiffer
  <2>4. EndsAt(s.glyphs, PlaceNumber(a, b), rest)
    BY <2>2, <2>3 DEF EndsAt
  <2>5. QED
    BY <1>1, <2>1, <2>4 DEF Shows
<1>10. CASE a # 0
  <2>1. PICK c : c = a - 1
    OBVIOUS
  <2>2. c \in Across /\ c * FONT_WIDTH = a * FONT_WIDTH - FONT_WIDTH
    BY <1>2, <1>10, <2>1, Whole, Multiples DEF Across
  <2>3. n = PlaceNumber(c, b) + 1
    <3>1. b * Columns \in Int
      BY <1>2, Whole
    <3>2. QED
      BY <1>2, <1>4, <2>1, <3>1 DEF PlaceNumber
  <2>4. PICK u : u = [cursor_x |-> c * FONT_WIDTH, cursor_y |-> b * FONT_HEIGHT,
                      color |-> color, glyphs |-> glyphs]
    OBVIOUS
  <2>5. StepBack(s) = u
    <3>1. s.cursor_x >= FONT_WIDTH
      BY <1>2, <1>6, <1>7, <1>10, Whole
    <3>2. PICK x : x = c * FONT_WIDTH
      OBVIOUS
    <3>3. StepBack(s) = [s EXCEPT !.cursor_x = s.cursor_x - FONT_WIDTH]
      BY <3>1 DEF StepBack
    <3>4. s.cursor_x - FONT_WIDTH = x
      BY <1>6, <2>2, <3>2
    <3>5. StepBack(s) = [s EXCEPT !.cursor_x = x]
      BY <3>3, <3>4
    <3>6. QED
      BY <1>3, <2>4, <3>2, <3>5
  <2>6. v_putchar(s, BACKSPACE) = EraseAtCursor(u)
    BY <1>7, <1>10, <2>5 DEF v_putchar, AtOrigin
  <2>7. Shows(EraseAtCursor(u), rest)
    BY <1>5, <2>2, <2>3, <2>4, ErasedShows
  <2>8. QED
    BY <2>6, <2>7
<1>11. CASE a = 0 /\ b # 0
  <2>1. PICK c, d : c = Columns - 1 /\ d = b - 1
    OBVIOUS
  <2>2. /\ c \in Across /\ c * FONT_WIDTH = width - FONT_WIDTH
        /\ d \in Down /\ d * FONT_HEIGHT = b * FONT_HEIGHT - FONT_HEIGHT
    BY <1>2, <1>11, <2>1, Whole, Multiples DEF Across, Down
  <2>3. n = PlaceNumber(c, d) + 1
    <3>1. b * Columns \in Int /\ (b - 1) * Columns = b * Columns - Columns
      BY <1>2, Whole, Multiples
    <3>2. QED
      BY <1>2, <1>4, <1>11, <2>1, <3>1, Whole DEF PlaceNumber
  <2>4. PICK u : u = [cursor_x |-> c * FONT_WIDTH, cursor_y |-> d * FONT_HEIGHT,
                      color |-> color, glyphs |-> glyphs]
    OBVIOUS
  <2>5. StepBack(s) = u
    <3>1. ~(s.cursor_x >= FONT_WIDTH)
      BY <1>2, <1>6, <1>7, <1>11, Whole
    <3>2. StepBack(s) = [cursor_x |-> width - FONT_WIDTH, cursor_y |-> s.cursor_y - FONT_HEIGHT,
                         color |-> s.color, glyphs |-> s.glyphs]
      BY <3>1 DEF StepBack, MovedTo
    <3>3. s.cursor_y - FONT_HEIGHT = d * FONT_HEIGHT
      BY <1>6, <2>2
    <3>4. QED
      BY <1>6, <2>2, <2>4, <3>2, <3>3
  <2>6. v_putchar(s, BACKSPACE) = EraseAtCursor(u)
    BY <1>8, <1>11, <2>5 DEF v_putchar, AtOrigin
  <2>7. Shows(EraseAtCursor(u), rest)
    BY <1>5, <2>2, <2>3, <2>4, ErasedShows
  <2>8. QED
    BY <2>6, <2>7
<1>12. QED
  BY <1>9, <1>10, <1>11

-----------------------------------------------------------------------------
(* Texts on the screen.                                                    *)

(* Any character but a return leaves a screen in order.                    *)
LEMMA CharShows ==
  ASSUME NEW s, NEW ch \in Printable, Shows(s, <<>>)
  PROVE  Shows(v_putchar(s, ch), <<>>)
<1>1. PICK none : none = <<>>
  OBVIOUS
<1>2. none \in Seq(Printable) /\ Len(none) = 0
  BY <1>1, EmptySeq
<1>3. CASE ch = NEWLINE
  BY <1>3, NewlineShows
<1>4. CASE ch = BACKSPACE
  <2>1. Shortened(none, none)
    BY <1>2 DEF Shortened
  <2>2. Shows(v_putchar(s, BACKSPACE), none)
    BY <1>1, <1>2, <2>1, BackspaceShows
  <2>3. QED
    BY <1>1, <1>4, <2>2
<1>5. CASE ch \notin {NEWLINE, BACKSPACE}
  <2>1. ch \notin {NEWLINE, RETURN, BACKSPACE}
    BY <1>5 DEF Printable
  <2>2. Shows(v_putchar(s, ch), Append(none, ch))
    BY <1>1, <1>2, <2>1, DrawShows
  <2>3. QED
    BY <2>2, ShowsNothing
<1>6. QED
  BY <1>3, <1>4, <1>5

(* f[i] is the screen after the first i characters of the text.            *)
Puts(f, s, text, n) ==
  f = [i \in 0..n |-> IF i = 0 THEN s ELSE v_putchar(f[i - 1], text[i])]

(* The recursive function of v_puts.                                       *)
LEMMA PutsUnfolds ==
  ASSUME NEW s, NEW text
  PROVE  v_puts(s, text) = (CHOOSE f : Puts(f, s, text, Len(text)))[Len(text)]
BY DEF v_puts, Puts

(* There is such a function.                                               *)
LEMMA PutsExists ==
  ASSUME NEW s, NEW text, NEW n \in Nat
  PROVE  \E f : Puts(f, s, text, n)
<1> DEFINE T == {k \in Nat : \E f : Puts(f, s, text, k)}
<1>1. 0 \in T
  <2> DEFINE f == [i \in 0..0 |-> s]
  <2>1. Puts(f, s, text, 0)
    BY DEF Puts
  <2>2. QED
    BY <2>1
<1>2. ASSUME NEW k \in Nat, k \in T PROVE k + 1 \in T
  <2>1. PICK f : Puts(f, s, text, k)
    BY <1>2
  <2> DEFINE g == [i \in 0..(k + 1) |-> IF i = 0 THEN s ELSE v_putchar(f[i - 1], text[i])]
  <2>2. ASSUME NEW i \in 0..k PROVE g[i] = f[i]
    <3>1. f[i] = IF i = 0 THEN s ELSE v_putchar(f[i - 1], text[i])
      BY <2>1 DEF Puts
    <3>2. g[i] = IF i = 0 THEN s ELSE v_putchar(f[i - 1], text[i])
      OBVIOUS
    <3>3. QED
      BY <3>1, <3>2
  <2>3. ASSUME NEW i \in 0..(k + 1), i # 0 PROVE g[i - 1] = f[i - 1]
    <3>1. i - 1 \in 0..k
      BY <2>3
    <3> HIDE DEF g
    <3>2. QED
      BY <2>2, <3>1
  <2>4. Puts(g, s, text, k + 1)
    <3>1. \A i \in 0..(k + 1) :
            (IF i = 0 THEN s ELSE v_putchar(f[i - 1], text[i]))
              = (IF i = 0 THEN s ELSE v_putchar(g[i - 1], text[i]))
      <4> HIDE DEF g
      <4>1. QED
        BY <2>3
    <3>2. QED
      BY <3>1 DEF Puts
  <2>5. QED
    BY <2>4
<1> HIDE DEF T
<1>3. n \in T
  <2>1. Nat \subseteq T
    BY ONLY <1>1, <1>2, Successors
  <2>2. QED
    BY <2>1
<1>4. QED
  BY <1>3 DEF T

(* One character is put after the other.                                   *)
LEMMA PutsChain ==
  ASSUME NEW C, NEW text \in Seq(C), NEW s
  PROVE  \E f : /\ f[0] = s
                /\ \A i \in 1..Len(text) : f[i] = v_putchar(f[i - 1], text[i])
                /\ v_puts(s, text) = f[Len(text)]
<1>1. PICK n : n = Len(text)
  OBVIOUS
<1>2. n \in Nat
  BY <1>1, LenProperties
<1>3. PICK f : Puts(f, s, text, n) /\ v_puts(s, text) = f[n]
  BY <1>1, <1>2, PutsExists, PutsUnfolds
<1>4. \A i \in 0..n : f[i] = IF i = 0 THEN s ELSE v_putchar(f[i - 1], text[i])
  BY <1>3 DEF Puts
<1>5. f[0] = s
  BY <1>2, <1>4
<1>6. ASSUME NEW i \in 1..n PROVE f[i] = v_putchar(f[i - 1], text[i])
  <2>1. i \in 0..n /\ i # 0
    BY <1>2
  <2>2. QED
    BY <1>4, <2>1
<1>7. QED
  BY <1>1, <1>3, <1>5, <1>6

(* The characters that are drawn.                                          *)
Inked == Printable \ {NEWLINE, BACKSPACE}

(* Whatever is printed before it, a line that is printed on a row of its   *)
(* own is what the screen shows.                                           *)
LEMMA LineShows ==
  ASSUME NEW s, NEW text \in Seq(Printable), NEW line \in Seq(Inked), Shows(s, <<>>)
  PROVE  Shows(v_puts(s, text \o (<<NEWLINE>> \o line)), line)
<1>1. PICK n, m, own, all :
        n = Len(text) /\ m = Len(line) /\ own = <<NEWLINE>> \o line /\ all = text \o own
  OBVIOUS
<1>2. n \in Nat /\ m \in Nat
  BY <1>1, LenProperties
<1>3. /\ own \in Seq(Printable) /\ Len(own) = m + 1 /\ own[1] = NEWLINE
      /\ \A i \in 1..m : own[i + 1] = line[i]
  <2>1. PICK one : one = <<NEWLINE>>
    OBVIOUS
  <2>2. one \in Seq(Printable) /\ Len(one) = 1 /\ one[1] = NEWLINE
    BY <2>1 DEF Printable, NEWLINE, RETURN
  <2>3. line \in Seq(Printable)
    <3>1. Inked \subseteq Printable
      BY DEF Inked
    <3>2. QED
      BY <3>1, SeqMonotonic
  <2>4. /\ one \o line \in Seq(Printable) /\ Len(one \o line) = Len(one) + Len(line)
        /\ \A i \in 1..(Len(one) + Len(line)) : (one \o line)[i] =
             IF i <= Len(one) THEN one[i] ELSE line[i - Len(one)]
    BY ONLY <2>2, <2>3, ConcatProperties
  <2>5. own = one \o line
    BY <1>1, <2>1
  <2>6. own \in Seq(Printable) /\ Len(own) = m + 1
    BY <1>1, <1>2, <2>2, <2>4, <2>5
  <2>7. own[1] = NEWLINE
    BY <1>1, <1>2, <2>2, <2>4, <2>5
  <2>8. ASSUME NEW i \in 1..m PROVE own[i + 1] = line[i]
    <3>1. i + 1 \in 1..(1 + m) /\ ~(i + 1 <= 1) /\ (i + 1) - 1 = i
      BY <1>2
    <3>2. QED
      BY <1>1, <2>2, <2>4, <2>5, <3>1
  <2>9. QED
    BY <2>6, <2>7, <2>8
<1>4. /\ all \in Seq(Printable) /\ Len(all) = n + (m + 1)
      /\ \A i \in 1..n : all[i] \in Printable
      /\ \A i \in 1..(m + 1) : all[n + i] = own[i]
  <2>1. /\ text \o own \in Seq(Printable) /\ Len(text \o own) = Len(text) + Len(own)
        /\ \A i \in 1..(Len(text) + Len(own)) : (text \o own)[i] =
             IF i <= Len(text) THEN text[i] ELSE own[i - Len(text)]
    BY ONLY <1>3, text \in Seq(Printable), ConcatProperties
  <2>2. all \in Seq(Printable) /\ Len(all) = n + (m + 1)
    BY <1>1, <1>3, <2>1
  <2>3. ASSUME NEW i \in 1..n PROVE all[i] \in Printable
    <3>1. i \in 1..Len(all)
      BY <1>2, <2>2
    <3>2. QED
      BY <2>2, <3>1, ElementOfSeq
  <2>4. ASSUME NEW i \in 1..(m + 1) PROVE all[n + i] = own[i]
    <3>1. n + i \in 1..(n + (m + 1)) /\ ~(n + i <= n) /\ (n + i) - n = i
      BY <1>2
    <3>2. QED
      BY <1>1, <1>3, <2>1, <3>1
  <2>5. QED
    BY <2>2, <2>3, <2>4
<1>5. PICK f : /\ f[0] = s
               /\ \A i \in 1..(n + (m + 1)) : f[i] = v_putchar(f[i - 1], all[i])
               /\ v_puts(s, all) = f[n + (m + 1)]
  <2>1. PICK f : /\ f[0] = s
                 /\ \A i \in 1..Len(all) : f[i] = v_putchar(f[i - 1], all[i])
                 /\ v_puts(s, all) = f[Len(all)]
    BY <1>4, PutsChain
  <2>2. QED
    BY <1>4, <2>1
<1> DEFINE T == {k \in Nat : k <= n => Shows(f[k], <<>>)}
<1>6. 0 \in T
  BY <1>5
<1>7. ASSUME NEW k \in Nat, k \in T PROVE k + 1 \in T
  <2>1. CASE k + 1 <= n
    <3>1. /\ k + 1 \in 1..n /\ k + 1 \in 1..(n + (m + 1)) /\ (k + 1) - 1 = k /\ k <= n
      BY <1>2, <2>1
    <3>2. f[k + 1] = v_putchar(f[k], all[k + 1]) /\ all[k + 1] \in Printable
      BY <1>4, <1>5, <3>1
    <3>3. Shows(f[k + 1], <<>>)
      BY <1>7, <3>1, <3>2, CharShows
    <3>4. QED
      BY <3>3
  <2>2. CASE ~(k + 1 <= n)
    BY <2>2
  <2>3. QED
    BY <2>1, <2>2
<1> HIDE DEF T
<1>8. Shows(f[n], <<>>)
  <2>1. n \in T
    <3>1. Nat \subseteq T
      BY ONLY <1>6, <1>7, Successors
    <3>2. QED
      BY <1>2, <3>1
  <2>2. QED
    BY <1>2, <2>1 DEF T
<1>9. Shows(f[n + 1], <<>>)
  <2>1. n + 1 \in 1..(n + (m + 1)) /\ (n + 1) - 1 = n /\ 1 \in 1..(m + 1)
    BY <1>2
  <2>2. f[n + 1] = v_putchar(f[n], all[n + 1]) /\ all[n + 1] = own[1]
    BY <1>4, <1>5, <2>1
  <2>3. f[n + 1] = v_putchar(f[n], NEWLINE)
    BY <1>3, <2>2
  <2>4. QED
    BY <1>8, <2>3, NewlineShows
<1> DEFINE Start(k) == SubSeq(line, 1, k)
<1> DEFINE U == {k \in Nat : k <= m => Shows(f[n + (k + 1)], Start(k))}
<1>10. 0 \in U
  <2>1. Start(0) = <<>> /\ n + (0 + 1) = n + 1
    BY <1>2, SubSeqEmpty
  <2>2. QED
    BY <1>9, <2>1
<1>11. ASSUME NEW k \in Nat, k \in U PROVE k + 1 \in U
  <2>1. CASE k + 1 <= m
    <3>1. PICK p : p = n + ((k + 1) + 1)
      OBVIOUS
    <3>2. /\ p \in 1..(n + (m + 1)) /\ p - 1 = n + (k + 1) /\ k <= m
          /\ (k + 1) + 1 \in 1..(m + 1) /\ k + 1 \in 1..m
      BY <1>2, <2>1, <3>1
    <3>3. f[p] = v_putchar(f[n + (k + 1)], all[p])
      BY <1>5, <3>2
    <3>4. all[p] = line[k + 1]
      BY <1>3, <1>4, <3>1, <3>2
    <3>5. Shows(f[n + (k + 1)], Start(k))
      BY <1>11, <3>2
    <3>6. PICK ch, begun : ch = line[k + 1] /\ begun = Start(k)
      OBVIOUS
    <3>7. ch \in Inked
      BY <1>1, <3>2, <3>6, ElementOfSeq
    <3>8. begun \in Seq(Inked)
      <4>1. \A i \in 1..k : line[i] \in Inked
        <5>1. \A i \in 1..k : i \in 1..Len(line)
          BY <1>1, <1>2, <3>2
        <5>2. QED
          BY <5>1, ElementOfSeq
      <4>2. QED
        BY <3>6, <4>1, SubSeqProperties
    <3>9. ch \notin {NEWLINE, RETURN, BACKSPACE}
      BY <3>7 DEF Inked, Printable
    <3>10. Shows(v_putchar(f[n + (k + 1)], ch), Append(begun, ch))
      BY <3>5, <3>6, <3>7, <3>8, <3>9, DrawShows
    <3>11. Append(begun, ch) = Start(k + 1)
      <4>1. k + 1 \in 1..Len(line) /\ 1 \in 1..Len(line) /\ (k + 1) - 1 = k
        BY <1>1, <1>2, <3>2
      <4>2. SubSeq(line, 1, k + 1) = SubSeq(line, 1, (k + 1) - 1) \o <<line[k + 1]>>
        BY <4>1, SubSeqRecursiveSecond
      <4>3. Append(begun, ch) = begun \o <<ch>>
        BY <3>7, <3>8, AppendIsConcat
      <4>4. QED
        BY <3>6, <4>1, <4>2, <4>3
    <3>12. Shows(f[p], Start(k + 1))
      BY <3>3, <3>4, <3>6, <3>10, <3>11
    <3>13. QED
      BY <3>1, <3>12
  <2>2. CASE ~(k + 1 <= m)
    BY <2>2
  <2>3. QED
    BY <2>1, <2>2
<1> HIDE DEF U
<1>12. m \in U
  <2>1. Nat \subseteq U
    BY ONLY <1>10, <1>11, Successors
  <2>2. QED
    BY <1>2, <2>1
<1>13. Shows(f[n + (m + 1)], Start(m))
  BY <1>2, <1>12 DEF U
<1>14. Start(m) = line
  BY <1>1, SubSeqFull
<1>15. QED
  BY <1>1, <1>5, <1>13, <1>14

-----------------------------------------------------------------------------
(* What the commands print are texts.                                      *)

(* What is typed can be printed and is drawn.                              *)
LEMMA ShownPrints == Shown \subseteq Printable /\ Shown \subseteq Inked
<1>1. SPACE \in Inked /\ SPACE \in Printable
  BY DEF SPACE, Inked, Printable, NEWLINE, BACKSPACE, RETURN
<1>2. Letters \subseteq Printable /\ Letters \cap {NEWLINE, BACKSPACE} = {}
  BY TextAssumption, ShellAssumption
<1>3. QED
  BY <1>1, <1>2 DEF Shown, Inked

(* A text that is typed can be printed.                                    *)
LEMMA ShownText == Seq(Shown) \subseteq Seq(Printable)
BY ShownPrints, SeqMonotonic

(* kputs adds a newline.                                                   *)
LEMMA PutsText ==
  ASSUME NEW text \in Seq(Printable)
  PROVE  kputs(text) \in Seq(Printable)
<1>1. NEWLINE \in Printable
  BY DEF NEWLINE, Printable, RETURN
<1>2. QED
  BY <1>1, AppendProperties DEF kputs

(* A format with a string in it.                                           *)
LEMMA OneString ==
  ASSUME NEW format, AsksFor(format, <<letter.s>>), NEW arg \in Seq(Printable)
  PROVE  kprintf(format, <<arg>>) \in Seq(Printable)
<1>1. PICK kinds, args : kinds = <<letter.s>> /\ args = <<arg>>
  OBVIOUS
<1>2. \A n \in DOMAIN kinds : Suits(kinds[n], args[n])
  <2>1. DOMAIN kinds = {1} /\ kinds[1] = letter.s /\ args[1] = arg
    BY <1>1
  <2>2. QED
    BY <2>1 DEF Suits
<1>3. QED
  BY <1>1, <1>2, PrintsText

(* A format with two arguments.                                            *)
LEMMA TwoFields ==
  ASSUME NEW format, NEW k1, NEW k2, AsksFor(format, <<k1, k2>>), NEW a1, NEW a2,
         Suits(k1, a1), Suits(k2, a2)
  PROVE  kprintf(format, <<a1, a2>>) \in Seq(Printable)
<1>1. PICK kinds, args : kinds = <<k1, k2>> /\ args = <<a1, a2>>
  OBVIOUS
<1>2. \A n \in DOMAIN kinds : Suits(kinds[n], args[n])
  <2>1. /\ DOMAIN kinds = {1, 2} /\ kinds[1] = k1 /\ args[1] = a1
        /\ kinds[2] = k2 /\ args[2] = a2
    BY <1>1
  <2>2. QED
    BY <2>1
<1>3. QED
  BY <1>1, <1>2, PrintsText

(* What history prints.                                                    *)
LEMMA HistoryText ==
  ASSUME NEW history \in Seq(Seq(Shown)), Len(history) <= MAX_HISTORY
  PROVE  cmd_history(history) \in Seq(Printable)
<1>1. PICK n : n = Len(history)
  OBVIOUS
<1>2. n \in Nat /\ DOMAIN history = 1..n /\ n <= MAX_HISTORY /\ MAX_HISTORY \in Nat
  BY <1>1, LenProperties, ShellAssumption
<1>3. ASSUME NEW i \in 1..n PROVE kprintf(HISTORY_LINE, <<i, history[i]>>) \in Seq(Printable)
  <2>1. history[i] \in Seq(Printable)
    BY <1>1, ElementOfSeq, ShownText
  <2>2. i \in 1..MAX_HISTORY /\ i \in Nat
    BY <1>2
  <2>3. Suits(letter.d, i) /\ Suits(letter.s, history[i])
    BY <2>1, <2>2, TextAssumption DEF Suits
  <2>4. AsksFor(HISTORY_LINE, <<letter.d, letter.s>>)
    BY TextAssumption
  <2>5. QED
    BY <2>3, <2>4, TwoFields
<1>4. PICK lines : lines = [i \in DOMAIN history |-> kprintf(HISTORY_LINE, <<i, history[i]>>)]
  OBVIOUS
<1>5. lines \in Seq(Seq(Printable))
  <2>1. lines \in [1..n -> Seq(Printable)]
    BY <1>2, <1>3, <1>4
  <2>2. QED
    BY <1>2, <2>1
<1>6. FlattenSeq(lines) \in Seq(Printable)
  BY <1>5, FlattenType
<1>7. kputs(NO_HISTORY) \in Seq(Printable)
  BY PutsText, TextAssumption
<1>8. QED
  BY <1>4, <1>6, <1>7 DEF cmd_history

(* f[n] has the categories of the first n commands.                        *)
Collects(f, n) ==
  f = [i \in 0..n |->
         IF i = 0 THEN <<>>
         ELSE IF \E k \in DOMAIN f[i - 1] : f[i - 1][k] = commands[i].category THEN f[i - 1]
         ELSE Append(f[i - 1], commands[i].category)]

(* What is collected with one more command.                                *)
Collected(found, i) ==
  IF \E k \in DOMAIN found : found[k] = commands[i].category THEN found
  ELSE Append(found, commands[i].category)

(* The loop of cmd_help over the commands.                                 *)
LEMMA CategoriesUnfold ==
  Categories = (CHOOSE f : Collects(f, Len(commands)))[Len(commands)]
BY DEF Categories, Collects

(* There is such a function.                                               *)
LEMMA CollectsExists == ASSUME NEW n \in Nat PROVE \E f : Collects(f, n)
<1> DEFINE T == {k \in Nat : \E f : Collects(f, k)}
<1>1. 0 \in T
  <2> DEFINE f == [i \in 0..0 |-> <<>>]
  <2>1. Collects(f, 0)
    BY DEF Collects
  <2>2. QED
    BY <2>1
<1>2. ASSUME NEW k \in Nat, k \in T PROVE k + 1 \in T
  <2>1. PICK f : Collects(f, k)
    BY <1>2
  <2>2. \A i \in 0..k : f[i] = IF i = 0 THEN <<>> ELSE Collected(f[i - 1], i)
    BY <2>1 DEF Collects, Collected
  <2> DEFINE g == [i \in 0..(k + 1) |-> IF i = 0 THEN <<>> ELSE Collected(f[i - 1], i)]
  <2>3. ASSUME NEW i \in 0..k PROVE g[i] = f[i]
    <3>1. g[i] = IF i = 0 THEN <<>> ELSE Collected(f[i - 1], i)
      OBVIOUS
    <3>2. QED
      BY <2>2, <3>1
  <2>4. ASSUME NEW i \in 0..(k + 1), i # 0 PROVE g[i - 1] = f[i - 1]
    <3>1. i - 1 \in 0..k
      BY <2>4
    <3> HIDE DEF g
    <3>2. QED
      BY <2>3, <3>1
  <2>5. \A i \in 0..(k + 1) :
          (IF i = 0 THEN <<>> ELSE Collected(f[i - 1], i))
            = (IF i = 0 THEN <<>> ELSE Collected(g[i - 1], i))
    <3> HIDE DEF g
    <3>1. QED
      BY <2>4
  <2>6. g = [i \in 0..(k + 1) |-> IF i = 0 THEN <<>> ELSE Collected(g[i - 1], i)]
    BY <2>5
  <2>7. Collects(g, k + 1)
    <3> HIDE DEF g
    <3>1. QED
      BY <2>6 DEF Collects, Collected
  <2>8. QED
    BY <2>7
<1> HIDE DEF T
<1>3. n \in T
  <2>1. Nat \subseteq T
    BY ONLY <1>1, <1>2, Successors
  <2>2. QED
    BY <2>1
<1>4. QED
  BY <1>3 DEF T

(* The categories are texts.                                               *)
LEMMA CategoriesType == Categories \in Seq(Seq(Printable))
<1>1. PICK n : n = Len(commands)
  OBVIOUS
<1>2. n \in Nat /\ \A i \in 1..n : commands[i].category \in Seq(Printable)
  <2>1. commands \in Seq([name : Seq(Printable), description : Seq(Printable),
                          category : Seq(Printable)])
    BY TextAssumption
  <2>2. n \in Nat
    BY <1>1, <2>1, LenProperties
  <2>3. \A i \in 1..n : commands[i] \in [name : Seq(Printable), description : Seq(Printable),
                                         category : Seq(Printable)]
    BY <1>1, <2>1, ElementOfSeq
  <2>4. QED
    BY <2>2, <2>3
<1>3. PICK f : Collects(f, n) /\ Categories = f[n]
  BY <1>1, <1>2, CollectsExists, CategoriesUnfold
<1>4. \A i \in 0..n : f[i] = IF i = 0 THEN <<>> ELSE Collected(f[i - 1], i)
  BY <1>3 DEF Collects, Collected
<1> DEFINE T == {k \in Nat : k <= n => f[k] \in Seq(Seq(Printable))}
<1>5. 0 \in T
  <2>1. f[0] = <<>>
    BY <1>2, <1>4
  <2>2. f[0] \in Seq(Seq(Printable))
    BY <2>1, EmptySeq
  <2>3. QED
    BY <2>2
<1>6. ASSUME NEW k \in Nat, k \in T PROVE k + 1 \in T
  <2>1. CASE k + 1 <= n
    <3>1. /\ k + 1 \in 0..n /\ k + 1 \in 1..n /\ k + 1 # 0 /\ (k + 1) - 1 = k /\ k <= n
      BY <1>2, <2>1
    <3>2. PICK found, new : found = f[k] /\ new = commands[k + 1].category
      OBVIOUS
    <3>3. found \in Seq(Seq(Printable)) /\ new \in Seq(Printable)
      BY <1>2, <1>6, <3>1, <3>2
    <3>4. f[k + 1] = Collected(found, k + 1)
      BY <1>4, <3>1, <3>2
    <3>5. Append(found, new) \in Seq(Seq(Printable))
      BY <3>3, AppendProperties
    <3>6. f[k + 1] \in Seq(Seq(Printable))
      BY <3>2, <3>3, <3>4, <3>5 DEF Collected
    <3>7. QED
      BY <3>6
  <2>2. CASE ~(k + 1 <= n)
    BY <2>2
  <2>3. QED
    BY <2>1, <2>2
<1> HIDE DEF T
<1>7. n \in T
  <2>1. Nat \subseteq T
    BY ONLY <1>5, <1>6, Successors
  <2>2. QED
    BY <1>2, <2>1
<1>8. QED
  BY <1>2, <1>3, <1>7 DEF T

(* The lines of help with the commands of a category.                      *)
HelpSection(category) ==
  kprintf(CATEGORY_LINE, <<category>>)
    \o FlattenSeq([n \in DOMAIN commands |->
         IF commands[n].category = category
         THEN kprintf(COMMAND_LINE, <<commands[n].name, commands[n].description>>)
         ELSE <<>>])

(* What help prints of a category.                                         *)
LEMMA SectionText ==
  ASSUME NEW category \in Seq(Printable)
  PROVE  HelpSection(category) \in Seq(Printable)
<1>1. PICK n, Entry :
        /\ n = Len(commands)
        /\ Entry = [name : Seq(Printable), description : Seq(Printable),
                    category : Seq(Printable)]
  OBVIOUS
<1>2. commands \in Seq(Entry)
  BY <1>1, TextAssumption
<1>3. n \in Nat /\ DOMAIN commands = 1..n /\ \A i \in 1..n : commands[i] \in Entry
  BY <1>1, <1>2, LenProperties, ElementOfSeq
<1>4. ASSUME NEW i \in 1..n
      PROVE  kprintf(COMMAND_LINE, <<commands[i].name, commands[i].description>>)
               \in Seq(Printable)
  <2>1. PICK name, description :
          name = commands[i].name /\ description = commands[i].description
    OBVIOUS
  <2>2. name \in Seq(Printable) /\ description \in Seq(Printable)
    BY <1>1, <1>3, <2>1
  <2>3. Suits(letter.s, name) /\ Suits(letter.s, description)
    BY <2>2 DEF Suits
  <2>4. AsksFor(COMMAND_LINE, <<letter.s, letter.s>>)
    BY TextAssumption
  <2>5. QED
    BY <2>1, <2>3, <2>4, TwoFields
<1>5. PICK lines :
        lines = [i \in DOMAIN commands |->
                   IF commands[i].category = category
                   THEN kprintf(COMMAND_LINE, <<commands[i].name, commands[i].description>>)
                   ELSE <<>>]
  OBVIOUS
<1>6. lines \in Seq(Seq(Printable))
  <2>1. <<>> \in Seq(Printable)
    BY EmptySeq
  <2>2. lines \in [1..n -> Seq(Printable)]
    BY <1>3, <1>4, <1>5, <2>1
  <2>3. QED
    BY <1>3, <2>2
<1>7. PICK title, body : title = kprintf(CATEGORY_LINE, <<category>>) /\ body = FlattenSeq(lines)
  OBVIOUS
<1>8. title \in Seq(Printable) /\ body \in Seq(Printable)
  BY <1>6, <1>7, FlattenType, OneString, TextAssumption
<1>9. title \o body \in Seq(Printable)
  BY <1>8, ConcatProperties
<1>10. QED
  BY <1>5, <1>7, <1>9 DEF HelpSection

(* What help prints.                                                       *)
LEMMA HelpText == cmd_help \in Seq(Printable)
<1>1. PICK names : names = Categories
  OBVIOUS
<1>2. PICK n : n = Len(names)
  OBVIOUS
<1>3. n \in Nat /\ DOMAIN names = 1..n /\ \A i \in 1..n : names[i] \in Seq(Printable)
  BY <1>1, <1>2, CategoriesType, LenProperties, ElementOfSeq
<1>4. PICK sections : sections = [i \in DOMAIN names |-> HelpSection(names[i])]
  OBVIOUS
<1>5. sections \in Seq(Seq(Printable))
  <2>1. sections \in [1..n -> Seq(Printable)]
    BY <1>3, <1>4, SectionText
  <2>2. QED
    BY <1>3, <2>1
<1>6. PICK title, body : title = kputs(HELP_TITLE) /\ body = FlattenSeq(sections)
  OBVIOUS
<1>7. title \in Seq(Printable) /\ body \in Seq(Printable)
  BY <1>5, <1>6, FlattenType, PutsText, TextAssumption
<1>8. title \o body \in Seq(Printable)
  BY <1>7, ConcatProperties
<1>9. cmd_help = title \o body
  BY <1>1, <1>4, <1>6 DEF cmd_help, HelpSection
<1>10. QED
  BY <1>8, <1>9

(* What a command prints.                                                  *)
LEMMA OutputText ==
  ASSUME NEW name \in Seq(Shown), NEW args \in Seq(Shown),
         NEW history \in Seq(Seq(Shown)), Len(history) <= MAX_HISTORY
  PROVE  Output(name, args, history) \in Seq(Printable)
<1>1. name \in Seq(Printable) /\ args \in Seq(Printable)
  BY ShownText
<1>2. cmd_echo(args) \in Seq(Printable)
  BY <1>1, PutsText, TextAssumption DEF cmd_echo
<1>3. cmd_history(history) \in Seq(Printable) /\ cmd_help \in Seq(Printable)
  BY HistoryText, HelpText
<1>4. kprintf(UNKNOWN_LINE, <<name>>) \in Seq(Printable)
  BY <1>1, OneString, TextAssumption
<1>5. <<>> \in Seq(Printable)
  BY EmptySeq
<1>6. PICK e, h, u, p :
        /\ e = cmd_echo(args) /\ h = cmd_history(history)
        /\ u = kprintf(UNKNOWN_LINE, <<name>>) /\ p = cmd_help
  OBVIOUS
<1>7. Output(name, args, history) \in {<<>>, e, h, u, p}
  BY <1>6 DEF Output
<1>8. QED
  BY <1>2, <1>3, <1>4, <1>5, <1>6, <1>7

-----------------------------------------------------------------------------
(* The prompt and the line.                                                *)

(* The prompt is printed as it is, on a row of its own.                    *)
LEMMA PromptText ==
  /\ PROMPT \in Seq(Inked) /\ PROMPT \in Seq(Printable)
  /\ Prompt = <<NEWLINE>> \o PROMPT
<1>1. PROMPT \in Seq(Printable \ {NEWLINE, BACKSPACE, PERCENT})
  BY TextAssumption
<1>2. PROMPT \in Seq(Inked) /\ PROMPT \in Seq(Nat) /\ PROMPT \in Seq(Printable)
  <2>1. /\ Printable \ {NEWLINE, BACKSPACE, PERCENT} \subseteq Inked
        /\ Printable \ {NEWLINE, BACKSPACE, PERCENT} \subseteq Nat
        /\ Printable \ {NEWLINE, BACKSPACE, PERCENT} \subseteq Printable
    BY DEF Inked, Printable
  <2>2. QED
    BY <1>1, <2>1, SeqMonotonic
<1>3. PICK n, one, all : n = Len(PROMPT) /\ one = <<NEWLINE>> /\ all = one \o PROMPT
  OBVIOUS
<1>4. one \in Seq(Nat) /\ Len(one) = 1 /\ one[1] = NEWLINE
  BY <1>3 DEF NEWLINE
<1>5. /\ one \o PROMPT \in Seq(Nat) /\ Len(one \o PROMPT) = Len(one) + Len(PROMPT)
      /\ \A i \in 1..(Len(one) + Len(PROMPT)) : (one \o PROMPT)[i] =
           IF i <= Len(one) THEN one[i] ELSE PROMPT[i - Len(one)]
  BY ONLY <1>2, <1>4, ConcatProperties
<1>6. n \in Nat /\ Len(all) = 1 + n /\ all \in Seq(Nat)
  BY <1>2, <1>3, <1>4, <1>5, LenProperties
<1>7. ASSUME NEW i \in 1..Len(all) PROVE all[i] # PERCENT
  <2>1. i \in 1..(1 + n)
    BY <1>6
  <2>2. CASE i <= 1
    <3>1. all[i] = NEWLINE
      BY <1>3, <1>4, <1>5, <2>1, <2>2
    <3>2. QED
      BY <3>1 DEF NEWLINE, PERCENT
  <2>3. CASE ~(i <= 1)
    <3>1. i - 1 \in 1..n /\ all[i] = PROMPT[i - 1]
      BY <1>3, <1>4, <1>5, <1>6, <2>1, <2>3
    <3>2. PROMPT[i - 1] \in Printable \ {NEWLINE, BACKSPACE, PERCENT}
      BY <1>1, <1>3, <3>1, ElementOfSeq
    <3>3. QED
      BY <3>1, <3>2
  <2>4. QED
    BY <2>2, <2>3
<1>8. kprintf(all, <<>>) = all
  BY <1>6, <1>7, PlainPrints
<1>9. QED
  BY <1>2, <1>3, <1>8 DEF Prompt

(* After a command the screen shows the prompt.                            *)
LEMMA PromptShows ==
  ASSUME NEW s, NEW text \in Seq(Printable), Shows(s, <<>>)
  PROVE  Shows(v_puts(s, text \o Prompt), PROMPT)
BY PromptText, LineShows

(* The screen shows a line that is not too long behind the prompt, and is  *)
(* in order if it is.                                                      *)
ScreenInv ==
  /\ Shows(screen, <<>>)
  /\ ~input_overflow => Shows(screen, PROMPT \o cmd_buffer)

(* The invariant of the shell and of its screen.                           *)
TerminalInv == ShellInv /\ ScreenInv

(* The empty line behind the prompt.                                       *)
LEMMA NoLine == PROMPT \o <<>> = PROMPT
BY PromptText, ConcatEmptySeq

(* The banner and the first prompt.                                        *)
LEMMA ScreenInitial == TInit => ScreenInv
<1> SUFFICES ASSUME TInit PROVE ScreenInv
  OBVIOUS
<1>1. Shows(v_clear(BLACK), <<>>)
  BY ClearShows
<1>2. kputs(BANNER) \in Seq(Printable)
  BY PutsText, TextAssumption
<1>3. Shows(screen, PROMPT)
  BY <1>1, <1>2, PromptShows DEF TInit
<1>4. cmd_buffer = <<>>
  BY DEF TInit, Init
<1>5. QED
  BY <1>3, <1>4, NoLine, ShowsNothing DEF ScreenInv

(* A command and the next prompt.                                          *)
LEMMA TEnterShows == ASSUME TerminalInv, TEnter PROVE ScreenInv'
<1>1. PICK name, args : name = NameOf(cmd_buffer) /\ args = ArgsOf(cmd_buffer)
  OBVIOUS
<1>2. PICK text : text = IF input_overflow THEN kputs(TOO_LONG)
                         ELSE Output(name, args, command_history)
  OBVIOUS
<1>3. text \in Seq(Printable)
  <2>1. /\ cmd_buffer \in Seq(Shown) /\ command_history \in Seq(Seq(Shown))
        /\ Len(command_history) <= MAX_HISTORY
    BY DEF TerminalInv, ShellInv, ShellTypeOK, LineIsTyped
  <2>2. name \in Seq(Shown) /\ args \in Seq(Shown)
    BY <1>1, <2>1, LineSplits
  <2>3. Output(name, args, command_history) \in Seq(Printable)
    BY <2>1, <2>2, OutputText
  <2>4. kputs(TOO_LONG) \in Seq(Printable)
    BY PutsText, TextAssumption
  <2>5. QED
    BY <1>2, <2>3, <2>4
<1>4. PICK entered : entered = v_putchar(screen, NEWLINE)
  OBVIOUS
<1>5. Shows(entered, <<>>) /\ Shows(cmd_clear(args), <<>>)
  BY <1>4, NewlineShows, ClearShows DEF TerminalInv, ScreenInv, cmd_clear
<1>6. PICK from : from = IF ~input_overflow /\ name = CLEAR THEN cmd_clear(args) ELSE entered
  OBVIOUS
<1>7. Shows(from, <<>>)
  BY <1>5, <1>6
<1>8. screen' = v_puts(from, text \o Prompt)
  BY <1>1, <1>2, <1>4, <1>6 DEF TEnter
<1>9. Shows(screen', PROMPT)
  BY <1>3, <1>7, <1>8, PromptShows
<1>10. cmd_buffer' = <<>>
  BY DEF TEnter, Enter, handle_command
<1>11. Shows(screen', <<>>)
  BY <1>9, ShowsNothing
<1>12. Shows(screen', PROMPT \o cmd_buffer')
  BY <1>9, <1>10, NoLine
<1>13. QED
  BY <1>11, <1>12 DEF ScreenInv

(* The echo of a backspace, and none if the line is empty.                 *)
LEMMA TEraseShows == ASSUME TerminalInv, TErase PROVE ScreenInv'
<1>1. /\ cmd_buffer \in Seq(Shown) /\ Shows(screen, <<>>)
      /\ ~input_overflow => Shows(screen, PROMPT \o cmd_buffer)
      /\ input_overflow' = input_overflow
  BY DEF TerminalInv, ShellInv, ShellTypeOK, ScreenInv, TErase, Erase
<1>2. CASE cmd_buffer = <<>>
  <2>1. screen' = screen /\ cmd_buffer' = cmd_buffer
    BY <1>2 DEF TErase, Erase, EchoErase
  <2>2. QED
    BY <1>1, <2>1 DEF ScreenInv
<1>3. CASE cmd_buffer # <<>>
  <2>1. screen' = v_putchar(screen, BACKSPACE) /\ cmd_buffer' = Front(cmd_buffer)
    BY <1>3 DEF TErase, Erase, EchoErase
  <2>2. PICK n, m, rest : n = Len(cmd_buffer) /\ m = Len(PROMPT) /\ rest = Front(cmd_buffer)
    OBVIOUS
  <2>3. n \in Nat \ {0} /\ m \in Nat
    BY <1>1, <1>3, <2>2, EmptySeq, LenProperties, PromptText
  <2>4. /\ rest \in Seq(Shown) /\ Len(rest) = n - 1
        /\ \A i \in 1..(n - 1) : rest[i] = cmd_buffer[i]
    <3>1. rest = SubSeq(cmd_buffer, 1, n - 1)
      BY <2>2 DEF Front
    <3>2. PICK k : k = n - 1
      OBVIOUS
    <3>3. k \in Nat /\ \A i \in 1..k : cmd_buffer[i] \in Shown
      <4>1. \A i \in 1..k : i \in 1..Len(cmd_buffer)
        BY <2>2, <2>3, <3>2
      <4>2. QED
        BY <1>1, <2>3, <3>2, <4>1, ElementOfSeq
    <3>4. /\ SubSeq(cmd_buffer, 1, k) \in Seq(Shown)
          /\ Len(SubSeq(cmd_buffer, 1, k)) = IF 1 <= k THEN k - 1 + 1 ELSE 0
          /\ \A i \in 1..(k - 1 + 1) : SubSeq(cmd_buffer, 1, k)[i] = cmd_buffer[1 + i - 1]
      BY <3>3, SubSeqProperties
    <3>5. Len(rest) = k
      BY <3>1, <3>2, <3>3, <3>4
    <3>6. ASSUME NEW i \in 1..k PROVE rest[i] = cmd_buffer[i]
      <4>1. i \in 1..(k - 1 + 1) /\ 1 + i - 1 = i
        BY <3>3
      <4>2. QED
        BY <3>1, <3>2, <3>4, <4>1
    <3>7. QED
      BY <3>1, <3>2, <3>4, <3>5, <3>6
  <2>5. PICK line, left : line = PROMPT \o cmd_buffer /\ left = PROMPT \o rest
    OBVIOUS
  <2>6. PROMPT \in Seq(Inked) /\ cmd_buffer \in Seq(Inked) /\ rest \in Seq(Inked)
    BY <1>1, <2>4, PromptText, ShownPrints, SeqMonotonic
  <2>7. /\ Len(line) = m + n
        /\ \A i \in 1..(m + n) : line[i] = IF i <= m THEN PROMPT[i] ELSE cmd_buffer[i - m]
    BY <2>2, <2>5, <2>6, ConcatProperties
  <2>8. /\ Len(left) = m + (n - 1)
        /\ \A i \in 1..(m + (n - 1)) : left[i] = IF i <= m THEN PROMPT[i] ELSE rest[i - m]
    <3>1. /\ Len(PROMPT \o rest) = Len(PROMPT) + Len(rest)
          /\ \A i \in 1..(Len(PROMPT) + Len(rest)) : (PROMPT \o rest)[i] =
               IF i <= Len(PROMPT) THEN PROMPT[i] ELSE rest[i - Len(PROMPT)]
      BY ONLY <2>6, ConcatProperties
    <3>2. Len(PROMPT) = m /\ Len(rest) = n - 1
      BY <2>2, <2>4
    <3>3. QED
      BY <2>5, <3>1, <3>2
  <2>9. ASSUME NEW i \in Nat, i < Len(left)
        PROVE  i + 1 < Len(line) /\ left[Len(left) - i] = line[Len(line) - (i + 1)]
    <3>1. PICK k : k = (m + n) - (i + 1)
      OBVIOUS
    <3>2. /\ k \in 1..(m + (n - 1)) /\ k \in 1..(m + n) /\ i + 1 < m + n
          /\ (m + (n - 1)) - i = k
      BY <2>3, <2>8, <2>9, <3>1
    <3>3. k - m \in 1..(n - 1) \/ k <= m
      BY <2>3, <3>2
    <3>4. left[k] = line[k]
      BY <2>4, <2>7, <2>8, <3>2, <3>3
    <3>5. QED
      BY <2>7, <2>8, <3>1, <3>2, <3>4
  <2>10. Shortened(left, line)
    BY <2>9 DEF Shortened
  <2>11. Len(line) \in Nat /\ Len(left) \in Nat
    BY <2>3, <2>7, <2>8
  <2>12. ~input_overflow' => Shows(screen', PROMPT \o cmd_buffer')
    <3>1. ASSUME ~input_overflow PROVE Shows(screen', left)
      BY <1>1, <2>1, <2>5, <2>10, <2>11, <3>1, BackspaceShows
    <3>2. QED
      BY <1>1, <2>1, <2>2, <2>5, <3>1
  <2>13. Shows(screen', <<>>)
    <3>1. PICK none : none = <<>>
      OBVIOUS
    <3>2. Len(none) = 0 /\ Shortened(none, none)
      BY <3>1 DEF Shortened
    <3>3. Shows(v_putchar(screen, BACKSPACE), none)
      BY <1>1, <3>1, <3>2, BackspaceShows
    <3>4. QED
      BY <2>1, <3>1, <3>3
  <2>14. QED
    BY <2>12, <2>13 DEF ScreenInv
<1>4. QED
  BY <1>2, <1>3

(* The echo of a character, or the bell if there is no room for it.        *)
LEMMA TInsertShows ==
  ASSUME TerminalInv, NEW ch \in Shown, TInsert(ch)
  PROVE  ScreenInv'
<1>1. /\ cmd_buffer \in Seq(Shown) /\ Shows(screen, <<>>)
      /\ ~input_overflow => Shows(screen, PROMPT \o cmd_buffer)
  BY DEF TerminalInv, ShellInv, ShellTypeOK, ScreenInv
<1>2. ch \in Inked /\ ch \in Printable /\ BELL \in Printable
  BY ShownPrints DEF BELL, Printable, RETURN
<1>3. Shows(screen', <<>>)
  <2>1. screen' = v_putchar(screen, IF HasRoom THEN ch ELSE BELL)
    BY DEF TInsert
  <2>2. QED
    BY <1>1, <1>2, <2>1, CharShows
<1>4. ASSUME ~input_overflow' PROVE Shows(screen', PROMPT \o cmd_buffer')
  <2>1. HasRoom
    BY <1>4 DEF TInsert, Insert
  <2>2. /\ screen' = v_putchar(screen, ch) /\ cmd_buffer' = Append(cmd_buffer, ch)
        /\ ~input_overflow
    BY <1>4, <2>1 DEF TInsert, Insert
  <2>3. PICK line : line = PROMPT \o cmd_buffer
    OBVIOUS
  <2>4. PROMPT \in Seq(Inked) /\ cmd_buffer \in Seq(Inked)
    BY <1>1, PromptText, ShownPrints, SeqMonotonic
  <2>5. line \in Seq(Inked)
    BY <2>3, <2>4, ConcatProperties
  <2>6. ch \notin {NEWLINE, RETURN, BACKSPACE}
    BY <1>2 DEF Inked, Printable
  <2>7. Shows(screen', Append(line, ch))
    BY <1>1, <1>2, <2>2, <2>3, <2>5, <2>6, DrawShows
  <2>8. Append(line, ch) = PROMPT \o cmd_buffer'
    <3>1. PICK one : one = <<ch>>
      OBVIOUS
    <3>2. one \in Seq(Inked)
      BY <1>2, <3>1
    <3>3. Append(line, ch) = line \o one /\ Append(cmd_buffer, ch) = cmd_buffer \o one
      BY <1>2, <2>4, <2>5, <3>1, AppendIsConcat
    <3>4. (PROMPT \o cmd_buffer) \o one = PROMPT \o (cmd_buffer \o one)
      BY <2>4, <3>2, ConcatAssociative
    <3>5. QED
      BY <2>2, <2>3, <3>3, <3>4
  <2>9. QED
    BY <2>7, <2>8
<1>5. QED
  BY <1>3, <1>4 DEF ScreenInv

(* Every step leaves the screen with the line.                             *)
LEMMA ScreenStep == ASSUME TerminalInv, [TNext]_tvars PROVE ScreenInv'
<1>1. CASE TNext
  <2>1. CASE TEnter
    BY <2>1, TEnterShows
  <2>2. CASE TErase
    BY <2>2, TEraseShows
  <2>3. CASE \E ch \in Letters \cup {SPACE} : TInsert(ch)
    BY <2>3, TInsertShows DEF Shown
  <2>4. QED
    BY <1>1, <2>1, <2>2, <2>3 DEF TNext
<1>2. CASE UNCHANGED tvars
  BY <1>2 DEF tvars, vars, TerminalInv, ScreenInv
<1>3. QED
  BY <1>1, <1>2

(* The screen shows the line, for every size of the screen and the font,   *)
(* every prompt and every text the commands print.                         *)
THEOREM TerminalInvariance == TSpec => []TerminalInv
<1>1. TInit => TerminalInv
  BY ScreenInitial, ShellInitial DEF TerminalInv, TInit
<1>2. TerminalInv /\ [TNext]_tvars => TerminalInv'
  <2>1. [TNext]_tvars => [Next]_vars
    BY DEF TNext, Next, TEnter, TErase, TInsert, tvars
  <2>2. QED
    BY <2>1, ScreenStep, ShellStep DEF TerminalInv
<1>3. QED
  BY <1>1, <1>2, PTL DEF TSpec

(* A place of the grid has its number.                                     *)
LEMMA PlaceOf ==
  ASSUME NEW a \in Across, NEW b \in Down
  PROVE  /\ Place(a * FONT_WIDTH, b * FONT_HEIGHT) = PlaceNumber(a, b)
         /\ a * FONT_WIDTH \in Nat /\ a * FONT_WIDTH + FONT_WIDTH <= width
         /\ b * FONT_HEIGHT \in Nat /\ b * FONT_HEIGHT + FONT_HEIGHT <= height
<1>1. a \in Nat /\ b \in Nat /\ a < Columns /\ b < Rows
  BY Whole DEF Across, Down
<1>2. PICK x, y : x = a * FONT_WIDTH /\ y = b * FONT_HEIGHT
  OBVIOUS
<1>3. x \in Nat /\ y \in Nat
  BY <1>1, <1>2, Whole
<1>4. x \div FONT_WIDTH = a /\ y \div FONT_HEIGHT = b
  <2>1. (a * FONT_WIDTH + 0) \div FONT_WIDTH = a /\ (b * FONT_HEIGHT + 0) \div FONT_HEIGHT = b
    <3>1. 0 \in 0..(FONT_WIDTH - 1) /\ 0 \in 0..(FONT_HEIGHT - 1)
      BY Whole
    <3>2. QED
      BY <1>1, <3>1, Whole, QuotientIs
  <2>2. x + 0 = x /\ y + 0 = y
    BY <1>3
  <2>3. QED
    BY <1>2, <2>1, <2>2
<1>5. x + FONT_WIDTH <= width /\ y + FONT_HEIGHT <= height
  BY <1>1, <1>2, Whole, Multiples
<1>6. Place(x, y) = PlaceNumber(a, b)
  BY <1>4 DEF Place, PlaceNumber, Columns
<1>7. QED
  BY <1>2, <1>3, <1>5, <1>6

(* A screen in order is within the framebuffer, its glyphs before the      *)
(* cursor.                                                                 *)
LEMMA ShownStays == ASSUME Shows(screen, <<>>) PROVE StaysOnScreen
<1>1. PICK a \in Across, b \in Down : OnGrid(screen, a, b)
  BY DEF Shows
<1>2. PICK color, glyphs :
        /\ screen = [cursor_x |-> a * FONT_WIDTH, cursor_y |-> b * FONT_HEIGHT,
                     color |-> color, glyphs |-> glyphs]
        /\ Tidy(glyphs, PlaceNumber(a, b))
  BY <1>1, PartsOf
<1>3. /\ screen.cursor_x = a * FONT_WIDTH /\ screen.cursor_y = b * FONT_HEIGHT
      /\ screen.glyphs = glyphs
  BY <1>2
<1>4. Cursor = PlaceNumber(a, b)
  BY <1>3, PlaceOf DEF Cursor
<1>5. /\ {screen.cursor_x, screen.cursor_y} \subseteq Nat
      /\ screen.cursor_x + FONT_WIDTH <= width
      /\ screen.cursor_y + FONT_HEIGHT <= height
  BY <1>3, PlaceOf
<1>6. ASSUME NEW p \in DOMAIN glyphs
      PROVE  /\ p[1] + FONT_WIDTH <= width /\ p[2] + FONT_HEIGHT <= height
             /\ Cardinality(glyphs[p]) <= 1
             /\ glyphs[p] # {} => Place(p[1], p[2]) < Cursor
  <2>1. PICK c \in Across, d \in Down :
          /\ p = Spot(c, d)
          /\ glyphs[p] = {} \/ (PlaceNumber(c, d) < PlaceNumber(a, b) /\ \E x : glyphs[p] = {x})
    BY <1>2 DEF Tidy
  <2>2. p[1] = c * FONT_WIDTH /\ p[2] = d * FONT_HEIGHT
    BY <2>1 DEF Spot
  <2>3. Cardinality(glyphs[p]) <= 1
    <3>1. CASE glyphs[p] = {}
      BY <3>1, FS_EmptySet
    <3>2. CASE \E x : glyphs[p] = {x}
      <4>1. PICK x : glyphs[p] = {x}
        BY <3>2
      <4>2. Cardinality({x}) = 1
        BY FS_Singleton
      <4>3. QED
        BY <4>1, <4>2
    <3>3. QED
      BY <2>1, <3>1, <3>2
  <2>4. Place(p[1], p[2]) = PlaceNumber(c, d)
    BY <2>2, PlaceOf
  <2>5. p[1] + FONT_WIDTH <= width /\ p[2] + FONT_HEIGHT <= height
    BY <2>2, PlaceOf
  <2>6. QED
    BY <1>4, <2>1, <2>3, <2>4, <2>5
<1>7. QED
  BY <1>3, <1>5, <1>6 DEF StaysOnScreen

(* The places right before the cursor show the end of the line.            *)
LEMMA ShownEnds ==
  ASSUME NEW C, NEW line \in Seq(C), Shows(screen, line),
         NEW i \in 0..(Min({Cursor, Len(line)}) - 1)
  PROVE  GlyphAt(Cursor - 1 - i) = {line[Len(line) - i]}
<1>1. PICK a \in Across, b \in Down :
        OnGrid(screen, a, b) /\ EndsAt(screen.glyphs, PlaceNumber(a, b), line)
  BY DEF Shows
<1>2. PICK color, glyphs :
        screen = [cursor_x |-> a * FONT_WIDTH, cursor_y |-> b * FONT_HEIGHT,
                  color |-> color, glyphs |-> glyphs]
  BY <1>1, PartsOf
<1>3. /\ screen.cursor_x = a * FONT_WIDTH /\ screen.cursor_y = b * FONT_HEIGHT
      /\ screen.glyphs = glyphs
  BY <1>2
<1>4. PICK k, m : k = Cursor /\ m = Len(line)
  OBVIOUS
<1>5. k = PlaceNumber(a, b) /\ k \in Nat /\ m \in Nat
  BY <1>3, <1>4, PlaceOf, NumbersDiffer, LenProperties DEF Cursor
<1>6. i \in Nat /\ i < k /\ i < m
  <2>1. \E x \in {k, m} : \A y \in {k, m} : x <= y
    BY <1>5
  <2>2. Min({k, m}) \in {k, m} /\ Min({k, m}) <= k /\ Min({k, m}) <= m
    BY <2>1 DEF Min
  <2>3. i \in 0..(Min({k, m}) - 1)
    BY <1>4
  <2>4. QED
    BY <1>5, <2>2, <2>3
<1>7. PICK n, c, d : n = k - 1 - i /\ c = n % Columns /\ d = n \div Columns
  OBVIOUS
<1>8. n \in Nat /\ c \in 0..(Columns - 1) /\ d \in Int /\ n = d * Columns + c
  <2>1. n \in Int /\ n \in Nat
    BY <1>5, <1>6, <1>7
  <2>2. QED
    BY <1>7, <2>1, Quotients, Whole
<1>9. c \in Across /\ d \in Down
  <2>1. b \in Int /\ b < Rows /\ a \in Int /\ a < Columns /\ Columns \in Nat \ {0}
        /\ Rows \in Nat
    BY Whole DEF Down, Across
  <2>2. PICK x, y, z : x = d * Columns /\ y = b * Columns /\ z = Rows * Columns
    OBVIOUS
  <2>3. x \in Int /\ y \in Int /\ z \in Int /\ y + Columns <= z
    BY <1>8, <2>1, <2>2, Multiples
  <2>4. k = y + a
    BY <1>5, <2>2 DEF PlaceNumber
  <2>5. n = x + c
    BY ONLY <1>8, <2>2
  <2>6. n < k /\ -1 < n
    BY <1>5, <1>6, <1>7, <1>8
  <2>7. x < z /\ 0 - Columns < x
    BY ONLY <1>8, <2>1, <2>3, <2>4, <2>5, <2>6
  <2>8. d < Rows
    BY <1>8, <2>1, <2>2, <2>7, Multiples
  <2>9. -1 < d
    <3>1. (-1) * Columns = 0 - Columns
      BY <2>1
    <3>2. (-1) * Columns < d * Columns
      BY <2>2, <2>7, <3>1
    <3>3. QED
      BY <1>8, <2>1, <3>2, Multiples
  <2>10. QED
    BY <1>8, <2>1, <2>8, <2>9 DEF Across, Down
<1>10. PlaceNumber(c, d) + i + 1 = PlaceNumber(a, b)
  <2>1. PlaceNumber(c, d) = n
    BY <1>8 DEF PlaceNumber
  <2>2. QED
    BY <1>5, <1>6, <1>7, <2>1
<1>11. DrawnAt(glyphs, Spot(c, d)) = {line[m - i]}
  BY <1>1, <1>3, <1>4, <1>6, <1>9, <1>10 DEF EndsAt
<1>12. GlyphAt(n) = DrawnAt(glyphs, Spot(c, d))
  BY <1>3, <1>7 DEF GlyphAt, Glyph, DrawnAt, Spot, Columns
<1>13. QED
  BY <1>4, <1>7, <1>11, <1>12

(* Nothing is drawn off the screen or over something else, and the screen  *)
(* shows the prompt and the line, or the end of them, before the cursor.   *)
THEOREM ScreenAlwaysShowsLine == TSpec => []ScreenShowsLine
<1>1. ASSUME TerminalInv PROVE ScreenShowsLine
  <2>1. /\ Shows(screen, <<>>)
        /\ ~input_overflow => Shows(screen, PROMPT \o cmd_buffer)
        /\ cmd_buffer \in Seq(Shown)
    BY <1>1 DEF TerminalInv, ScreenInv, ShellInv, ShellTypeOK
  <2>2. StaysOnScreen
    BY <2>1, ShownStays
  <2>3. PICK line : line = PROMPT \o cmd_buffer
    OBVIOUS
  <2>4. line \in Seq(Inked)
    <3>1. PROMPT \in Seq(Inked) /\ cmd_buffer \in Seq(Inked)
      BY <2>1, PromptText, ShownPrints, SeqMonotonic
    <3>2. QED
      BY <2>3, <3>1, ConcatProperties
  <2>5. ASSUME ~input_overflow, NEW i \in 0..(Min({Cursor, Len(line)}) - 1)
        PROVE  GlyphAt(Cursor - 1 - i) = {line[Len(line) - i]}
    BY <2>1, <2>3, <2>4, <2>5, ShownEnds
  <2>6. QED
    BY <2>2, <2>3, <2>5 DEF ScreenShowsLine
<1>2. QED
  BY <1>1, TerminalInvariance, PTL
=============================================================================
