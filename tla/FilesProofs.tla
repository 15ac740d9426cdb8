----------------------------- MODULE FilesProofs -----------------------------
(***************************************************************************)
(* Proofs about paths, directories and the file commands: what the string  *)
(* of a path comes to, for paths of every length over every disk.          *)
(***************************************************************************)
EXTENDS Files, ShellProofs

-----------------------------------------------------------------------------
(* Folds, with the operator as a function of pairs.                        *)

(* OP takes members of X and C to members of X.                            *)
Operates(OP, X, C) == \A x \in X : \A c \in C : OP[<<x, c>>] \in X

(* a[m] is what the first m elements of s make of base.                    *)
Folds(a, OP, base, s, n) ==
  a = [m \in 0..n |-> IF m = 0 THEN base ELSE OP[<<a[m - 1], s[m]>>]]

(* What OP makes of base along the whole of s.                             *)
FoldOf(OP, base, s) == (CHOOSE a : Folds(a, OP, base, s, Len(s)))[Len(s)]

(* There is such an a.                                                     *)
LEMMA FoldsExist ==
  ASSUME NEW OP, NEW base, NEW s, NEW n \in Nat
  PROVE  \E a : Folds(a, OP, base, s, n)
<1> DEFINE T == {k \in Nat : \E a : Folds(a, OP, base, s, k)}
<1>1. 0 \in T
  <2> DEFINE a == [m \in 0..0 |-> base]
  <2>1. Folds(a, OP, base, s, 0)
    BY DEF Folds
  <2>2. QED
    BY <2>1
<1>2. ASSUME NEW k \in Nat, k \in T PROVE k + 1 \in T
  <2>1. PICK a : Folds(a, OP, base, s, k)
    BY <1>2
  <2> DEFINE b == [m \in 0..(k + 1) |-> IF m = 0 THEN base ELSE OP[<<a[m - 1], s[m]>>]]
  <2>2. ASSUME NEW m \in 0..k PROVE b[m] = a[m]
    <3>1. a[m] = IF m = 0 THEN base ELSE OP[<<a[m - 1], s[m]>>]
      BY <2>1 DEF Folds
    <3>2. b[m] = IF m = 0 THEN base ELSE OP[<<a[m - 1], s[m]>>]
      OBVIOUS
    <3>3. QED
      BY <3>1, <3>2
  <2>3. \A m \in 0..(k + 1) :
          (IF m = 0 THEN base ELSE OP[<<a[m - 1], s[m]>>])
            = (IF m = 0 THEN base ELSE OP[<<b[m - 1], s[m]>>])
    <3>1. ASSUME NEW m \in 0..(k + 1), m # 0 PROVE b[m - 1] = a[m - 1]
      <4>1. m - 1 \in 0..k
        BY <3>1
      <4> HIDE DEF b
      <4>2. QED
        BY <2>2, <4>1
    <3> HIDE DEF b
    <3>2. QED
      BY <3>1
  <2>4. Folds(b, OP, base, s, k + 1)
    BY <2>3 DEF Folds
  <2>5. QED
    BY <2>4
<1> HIDE DEF T
<1>3. QED
  BY <1>1, <1>2, Successors DEF T

(* One element after the other.                                            *)
Links(a, OP, base, s, n) ==
  a[0] = base /\ \A m \in 1..n : a[m] = OP[<<a[m - 1], s[m]>>]

(* Each value of a fold's chain is OP of the one before and an element.    *)
LEMMA FoldLinks ==
  ASSUME NEW OP, NEW base, NEW s, Len(s) \in Nat
  PROVE  \E a : Links(a, OP, base, s, Len(s)) /\ FoldOf(OP, base, s) = a[Len(s)]
<1>1. PICK n \in Nat : n = Len(s)
  OBVIOUS
<1>2. PICK a : Folds(a, OP, base, s, n) /\ FoldOf(OP, base, s) = a[n]
  BY <1>1, FoldsExist DEF FoldOf
<1>3. \A m \in 0..n : a[m] = IF m = 0 THEN base ELSE OP[<<a[m - 1], s[m]>>]
  BY <1>2 DEF Folds
<1>4. ASSUME NEW m \in 1..n PROVE a[m] = OP[<<a[m - 1], s[m]>>]
  <2>1. m \in 0..n /\ m # 0
    OBVIOUS
  <2>2. QED
    BY <1>3, <2>1
<1>5. a[0] = base
  <2>1. 0 \in 0..n
    OBVIOUS
  <2>2. QED
    BY <1>3, <2>1
<1>6. Links(a, OP, base, s, n)
  BY <1>4, <1>5 DEF Links
<1>7. QED
  BY <1>1, <1>2, <1>6

(* Sequences that start in the same way have the same folds up to there.   *)
LEMMA LinksAgree ==
  ASSUME NEW OP, NEW base, NEW s, NEW t, NEW a, NEW b, NEW n \in Nat,
         Links(a, OP, base, s, n), Links(b, OP, base, t, n),
         \A m \in 1..n : s[m] = t[m]
  PROVE  a[n] = b[n]
<1> DEFINE T == {k \in Nat : k <= n => a[k] = b[k]}
<1>1. 0 \in T
  BY DEF Links
<1>2. ASSUME NEW k \in Nat, k \in T PROVE k + 1 \in T
  <2>1. CASE k + 1 <= n
    <3>1. k + 1 \in 1..n /\ (k + 1) - 1 = k /\ a[k] = b[k]
      BY <1>2, <2>1
    <3>2. /\ a[k + 1] = OP[<<a[(k + 1) - 1], s[k + 1]>>]
          /\ b[k + 1] = OP[<<b[(k + 1) - 1], t[k + 1]>>]
      BY <3>1 DEF Links
    <3>3. s[k + 1] = t[k + 1] /\ (k + 1) - 1 = k /\ a[k] = b[k]
      BY <3>1
    <3>4. a[k + 1] = b[k + 1]
      BY ONLY <3>2, <3>3
    <3>5. QED
      BY <3>4
  <2>2. CASE ~(k + 1 <= n)
    BY <2>2
  <2>3. QED
    BY <2>1, <2>2
<1> HIDE DEF T
<1>3. n \in T
  <2>1. Nat \subseteq T
    BY ONLY <1>1, <1>2, Successors
  <2>2. QED
    BY <2>1
<1>4. QED
  BY <1>3 DEF T

(* A fold over nothing leaves its base.                                    *)
LEMMA FoldEmpty ==
  ASSUME NEW OP, NEW base
  PROVE  FoldOf(OP, base, <<>>) = base
<1>1. Len(<<>>) = 0
  OBVIOUS
<1>2. PICK a : Links(a, OP, base, <<>>, 0) /\ FoldOf(OP, base, <<>>) = a[0]
  BY <1>1, FoldLinks
<1>3. QED
  BY <1>2 DEF Links

(* A fold takes its last element last.                                     *)
LEMMA FoldAppend ==
  ASSUME NEW OP, NEW base, NEW C, NEW s \in Seq(C), NEW c \in C
  PROVE  FoldOf(OP, base, Append(s, c)) = OP[<<FoldOf(OP, base, s), c>>]
<1>1. PICK n \in Nat : n = Len(s)
  OBVIOUS
<1>2. PICK t : t = Append(s, c)
  OBVIOUS
<1>3. Len(t) = n + 1 /\ t[n + 1] = c /\ \A m \in 1..n : s[m] = t[m]
  BY <1>1, <1>2
<1>4. PICK a : Links(a, OP, base, s, n) /\ FoldOf(OP, base, s) = a[n]
  BY <1>1, FoldLinks
<1>5. PICK b : Links(b, OP, base, t, n + 1) /\ FoldOf(OP, base, t) = b[n + 1]
  BY <1>3, FoldLinks
<1>6. Links(b, OP, base, t, n)
  BY <1>5 DEF Links
<1>7. a[n] = b[n]
  BY <1>3, <1>4, <1>6, LinksAgree
<1>8. b[n + 1] = OP[<<b[(n + 1) - 1], t[n + 1]>>] /\ (n + 1) - 1 = n
  BY <1>5 DEF Links
<1>9. QED
  BY <1>2, <1>3, <1>4, <1>5, <1>7, <1>8

(* A fold stays in the set its operator works in.                          *)
LEMMA FoldType ==
  ASSUME NEW X, NEW C, NEW OP, Operates(OP, X, C),
         NEW base \in X, NEW s \in Seq(C)
  PROVE  FoldOf(OP, base, s) \in X
<1>1. PICK n \in Nat : n = Len(s)
  OBVIOUS
<1>2. PICK a : Links(a, OP, base, s, n) /\ FoldOf(OP, base, s) = a[n]
  BY <1>1, FoldLinks
<1> DEFINE T == {k \in Nat : k <= n => a[k] \in X}
<1>3. 0 \in T
  BY <1>2 DEF Links
<1>4. ASSUME NEW k \in Nat, k \in T PROVE k + 1 \in T
  <2>1. CASE k + 1 <= n
    <3>1. k + 1 \in 1..n /\ (k + 1) - 1 = k /\ a[k] \in X /\ s[k + 1] \in C
      BY <1>1, <1>4, <2>1
    <3>2. a[k + 1] = OP[<<a[k], s[k + 1]>>]
      BY <1>2, <3>1 DEF Links
    <3>3. QED
      BY <3>1, <3>2 DEF Operates
  <2>2. CASE ~(k + 1 <= n)
    BY <2>2
  <2>3. QED
    BY <2>1, <2>2
<1> HIDE DEF T
<1>5. n \in T
  <2>1. Nat \subseteq T
    BY ONLY <1>3, <1>4, Successors
  <2>2. QED
    BY <2>1
<1>6. QED
  BY <1>2, <1>5 DEF T

(* The folds of the library take the elements of s in the order of their   *)
(* places: f[t] is what those in t make.                                   *)
Gathered(f, OP, base, s, t) ==
  f[t] = IF t = {} THEN base ELSE OP[<<f[t \ {Max(t)}], s[Max(t)]>>]

(* Places of s, no more than k of them.                                    *)
Few(n, k) == {t \in SUBSET (1..n) : Cardinality(t) <= k}

(* There is such an f.                                                     *)
LEMMA GatheredExists ==
  ASSUME NEW X, NEW C, NEW OP, Operates(OP, X, C), NEW base \in X,
         NEW s \in Seq(C), NEW n \in Nat, n = Len(s)
  PROVE  \E f \in [SUBSET (1..n) -> X] : \A t \in SUBSET (1..n) : Gathered(f, OP, base, s, t)
<1> DEFINE T == {k \in Nat : \E f \in [Few(n, k) -> X] :
                              \A t \in Few(n, k) : Gathered(f, OP, base, s, t)}
<1>1. ASSUME NEW t \in SUBSET (1..n) PROVE IsFiniteSet(t) /\ Cardinality(t) \in 0..n
  <2>1. IsFiniteSet(1..n) /\ Cardinality(1..n) = n
    BY ONLY FS_Interval, n \in Nat
  <2>2. IsFiniteSet(t) /\ Cardinality(t) <= Cardinality(1..n)
    BY <2>1, FS_Subset
  <2>3. Cardinality(t) \in Nat
    BY <2>2, FS_CardinalityType
  <2>4. QED
    BY <2>1, <2>2, <2>3
<1>2. 0 \in T
  <2> DEFINE f == [t \in Few(n, 0) |-> base]
  <2>1. ASSUME NEW t \in Few(n, 0) PROVE t = {}
    BY <1>1, FS_EmptySet DEF Few
  <2>2. \A t \in Few(n, 0) : Gathered(f, OP, base, s, t)
    BY <2>1 DEF Gathered
  <2>3. QED
    BY <2>2
<1>3. ASSUME NEW k \in Nat, k \in T PROVE k + 1 \in T
  <2>1. PICK f \in [Few(n, k) -> X] : \A t \in Few(n, k) : Gathered(f, OP, base, s, t)
    BY <1>3
  <2>2. ASSUME NEW t \in Few(n, k + 1), t # {}
        PROVE  t \ {Max(t)} \in Few(n, k) /\ Max(t) \in 1..n
    <3>1. t \in SUBSET (1..n) /\ Cardinality(t) <= k + 1 /\ IsFiniteSet(t)
      BY <1>1 DEF Few
    <3>2. PICK m : m = Max(t)
      OBVIOUS
    <3>3. m \in t
      BY <2>2, <3>1, <3>2, Greatest
    <3>4. Cardinality(t \ {m}) = Cardinality(t) - 1
      BY <3>1, <3>3, FS_RemoveElement
    <3>5. t \ {m} \in SUBSET (1..n) /\ m \in 1..n
      BY <3>1, <3>3
    <3>6. Cardinality(t) \in Nat /\ Cardinality(t) - 1 <= k
      BY <3>1, FS_CardinalityType
    <3>7. QED
      BY <3>2, <3>4, <3>5, <3>6 DEF Few
  <2> DEFINE body(t) == IF t = {} THEN base ELSE OP[<<f[t \ {Max(t)}], s[Max(t)]>>]
             g == [t \in Few(n, k + 1) |-> body(t)]
  <2>3. ASSUME NEW t \in Few(n, k + 1) PROVE body(t) \in X
    <3>1. ASSUME t # {} PROVE OP[<<f[t \ {Max(t)}], s[Max(t)]>>] \in X
      <4>1. PICK x, c : x = f[t \ {Max(t)}] /\ c = s[Max(t)]
        OBVIOUS
      <4>2. x \in X /\ c \in C
        BY <2>2, <3>1, <4>1
      <4>3. QED
        BY <4>1, <4>2 DEF Operates
    <3>2. QED
      BY <3>1
  <2>4. ASSUME NEW t \in Few(n, k) PROVE t \in Few(n, k + 1) /\ g[t] = f[t]
    <3>1. t \in Few(n, k + 1)
      BY <1>1 DEF Few
    <3>2. f[t] = body(t)
      BY <2>1 DEF Gathered
    <3>3. QED
      BY <3>1, <3>2
  <2>5. g \in [Few(n, k + 1) -> X] /\ \A t \in Few(n, k + 1) : g[t] = body(t)
    BY <2>3
  <2> HIDE DEF g
  <2>6. \A t \in Few(n, k + 1) : Gathered(g, OP, base, s, t)
    BY <2>2, <2>4, <2>5 DEF Gathered
  <2>7. QED
    BY <2>5, <2>6
<1>4. Few(n, n) = SUBSET (1..n)
  BY <1>1 DEF Few
<1> HIDE DEF T
<1>5. n \in T
  <2>1. Nat \subseteq T
    BY ONLY <1>2, <1>3, Successors
  <2>2. QED
    BY <2>1
<1>6. QED
  BY <1>4, <1>5 DEF T

(* The first places of s.                                                  *)
LEMMA FirstPlaces ==
  ASSUME NEW n \in Nat, NEW m \in 1..n
  PROVE  /\ 1..m \in SUBSET (1..n) /\ 1..m # {} /\ Max(1..m) = m
         /\ (1..m) \ {m} = 1..(m - 1)
<1>1. 1..m \in SUBSET (1..n) /\ m \in 1..m
  OBVIOUS
<1>2. PICK x : x = Max(1..m)
  OBVIOUS
<1>3. x \in 1..m /\ \A y \in 1..m : x >= y
  BY <1>1, <1>2, Greatest
<1>4. x = m
  BY <1>1, <1>3
<1>5. (1..m) \ {m} = 1..(m - 1)
  OBVIOUS
<1>6. QED
  BY <1>1, <1>2, <1>4, <1>5

(* A fold of the library is the one of OP when it takes the same steps.    *)
Agrees(g, OP, X, base, s, t) ==
  IF t = {} THEN g[t] = base
  ELSE g[t \ {Max(t)}] \in X => g[t] = OP[<<g[t \ {Max(t)}], s[Max(t)]>>]

(* Two operators that agree along a sequence make the same of it.          *)
LEMMA AgreesFold ==
  ASSUME NEW X, NEW C, NEW OP, Operates(OP, X, C),
         NEW base \in X, NEW s \in Seq(C),
         NEW n \in Nat, n = Len(s), NEW g,
         \A t \in SUBSET (1..n) : Agrees(g, OP, X, base, s, t)
  PROVE  g[1..n] = FoldOf(OP, base, s)
<1>1. PICK a : Links(a, OP, base, s, n) /\ FoldOf(OP, base, s) = a[n]
  BY FoldLinks
<1> DEFINE T == {k \in Nat : k <= n => g[1..k] = a[k] /\ a[k] \in X}
<1>2. 0 \in T
  <2>1. 1..0 = {} /\ {} \in SUBSET (1..n)
    OBVIOUS
  <2>2. g[1..0] = base
    BY <2>1 DEF Agrees
  <2>3. a[0] = base
    BY <1>1 DEF Links
  <2>4. QED
    BY <2>2, <2>3
<1>3. ASSUME NEW k \in Nat, k \in T PROVE k + 1 \in T
  <2>1. CASE k + 1 <= n
    <3>1. /\ k + 1 \in 1..n /\ (k + 1) - 1 = k
          /\ g[1..k] = a[k] /\ a[k] \in X /\ s[k + 1] \in C
      BY <1>3, <2>1
    <3>2. PICK m : m = k + 1
      OBVIOUS
    <3>3. /\ 1..m \in SUBSET (1..n) /\ 1..m # {} /\ Max(1..m) = m
          /\ (1..m) \ {m} = 1..(m - 1)
      BY <3>1, <3>2, FirstPlaces
    <3>4. (1..m) \ {Max(1..m)} = 1..k
      BY <3>1, <3>2, <3>3
    <3>5. g[1..m] = OP[<<a[k], s[m]>>]
      BY <3>1, <3>3, <3>4 DEF Agrees
    <3>6. a[m] = OP[<<a[k], s[m]>>]
      BY <1>1, <3>1, <3>2 DEF Links
    <3>7. OP[<<a[k], s[m]>>] \in X
      BY <3>1, <3>2 DEF Operates
    <3>8. QED
      BY <3>2, <3>5, <3>6, <3>7
  <2>2. CASE ~(k + 1 <= n)
    BY <2>2
  <2>3. QED
    BY <2>1, <2>2
<1> HIDE DEF T
<1>4. n \in T
  <2>1. Nat \subseteq T
    BY ONLY <1>2, <1>3, Successors
  <2>2. QED
    BY <2>1
<1>5. QED
  BY <1>1, <1>4 DEF T

-----------------------------------------------------------------------------
(* Tokens: a path in its components.                                       *)

InName == Nat \ {SLASH}

(* A component of a path: no slash is in it, and it is not empty.          *)
Component == Seq(InName) \ {<<>>}

(* The tokens that have ended, and the characters of the one under way.    *)
CutState == [found : Seq(Component), run : Seq(InName)]

(* No token yet, and none begun.                                           *)
NoTokens == [found |-> <<>>, run |-> <<>>]

(* Cut, as the operator of the fold of Tokens.                             *)
CutStep(t, c) ==
  IF c = SLASH THEN [found |-> Cut(t), run |-> <<>>]
  ELSE [t EXCEPT !.run = Append(@, c)]

(* CutStep as a function of pairs.                                         *)
CutOp == [p \in CutState \X Nat |-> CutStep(p[1], p[2])]

(* CutStep keeps the tokens and the run in their types.                    *)
LEMMA CutType ==
  /\ NoTokens \in CutState
  /\ \A t \in CutState : Cut(t) \in Seq(Component)
  /\ Operates(CutOp, CutState, Nat)
<1>1. NoTokens \in CutState
  BY EmptySeq DEF NoTokens, CutState
<1>2. ASSUME NEW t \in CutState PROVE Cut(t) \in Seq(Component)
  <2>1. t.found \in Seq(Component) /\ t.run \in Seq(InName)
    BY DEF CutState
  <2>2. CASE t.run # <<>>
    <3>1. t.run \in Component
      BY <2>1, <2>2 DEF Component
    <3>2. Append(t.found, t.run) \in Seq(Component)
      BY ONLY <2>1, <3>1, AppendProperties
    <3>3. QED
      BY <2>2, <3>2 DEF Cut
  <2>3. QED
    BY <2>1, <2>2 DEF Cut
<1>3. ASSUME NEW t \in CutState, NEW c \in Nat PROVE CutStep(t, c) \in CutState
  <2>1. CASE c = SLASH
    BY <1>2, <2>1, EmptySeq DEF CutStep, CutState
  <2>2. CASE c # SLASH
    <3>1. PICK run \in Seq(InName) : run = Append(t.run, c)
      <4>1. t.run \in Seq(InName) /\ c \in InName
        BY <2>2 DEF CutState, InName
      <4>2. QED
        BY <4>1, AppendProperties
    <3>2. CutStep(t, c) = [t EXCEPT !.run = run]
      BY <2>2, <3>1 DEF CutStep
    <3>3. QED
      BY <3>2 DEF CutState
  <2>3. QED
    BY <2>1, <2>2
<1>4. QED
  BY <1>1, <1>2, <1>3 DEF CutOp, Operates

(* The recursive function of the fold in Tokens.                           *)
CutsOf(f, s, D) ==
  f = [t \in D |-> IF t = {} THEN NoTokens ELSE CutStep(f[t \ {Max(t)}], s[Max(t)])]

(* What the string s is cut into.                                          *)
Cuts(s) == (CHOOSE f : CutsOf(f, s, SUBSET DOMAIN s))[DOMAIN s]

(* Tokens, from the fold that its definition stands for.                   *)
LEMMA TokensUnfold ==
  ASSUME NEW s
  PROVE  Tokens(s) = Cut(Cuts(s))
BY DEF Tokens, FoldLeft, MapThenFoldSet, Cuts, CutsOf, CutStep, NoTokens

(* The fold of Tokens is the fold of CutOp.                                *)
LEMMA CutsFold ==
  ASSUME NEW s \in Seq(Nat)
  PROVE  Cuts(s) = FoldOf(CutOp, NoTokens, s)
<1>1. PICK n \in Nat : n = Len(s)
  OBVIOUS
<1>2. DOMAIN s = 1..n /\ \A i \in 1..n : s[i] \in Nat
  BY <1>1
<1>0. /\ NoTokens \in CutState
      /\ Operates(CutOp, CutState, Nat)
  BY CutType
<1>3. PICK f \in [SUBSET (1..n) -> CutState] :
        \A t \in SUBSET (1..n) : Gathered(f, CutOp, NoTokens, s, t)
  BY ONLY <1>0, <1>1, GatheredExists, n \in Nat, s \in Seq(Nat)
<1>4. CutsOf(f, s, SUBSET (1..n))
  <2>1. ASSUME NEW t \in SUBSET (1..n)
        PROVE  f[t] = IF t = {} THEN NoTokens ELSE CutStep(f[t \ {Max(t)}], s[Max(t)])
    <3>1. CASE t = {}
      BY <1>3, <3>1 DEF Gathered
    <3>2. CASE t # {}
      <4>1. PICK m : m = Max(t)
        OBVIOUS
      <4>2. m \in 1..n
        BY <3>2, <4>1, Greatest
      <4>3. f[t \ {m}] \in CutState /\ s[m] \in Nat
        BY <1>2, <4>2
      <4>4. f[t] = CutOp[<<f[t \ {m}], s[m]>>]
        BY <1>3, <3>2, <4>1 DEF Gathered
      <4>5. QED
        BY <3>2, <4>1, <4>3, <4>4 DEF CutOp
    <3>3. QED
      BY <3>1, <3>2
  <2>2. QED
    BY <2>1 DEF CutsOf
<1>5. PICK g : CutsOf(g, s, SUBSET (1..n)) /\ Cuts(s) = g[1..n]
  BY <1>2, <1>4 DEF Cuts
<1>6. ASSUME NEW t \in SUBSET (1..n) PROVE Agrees(g, CutOp, CutState, NoTokens, s, t)
  <2>1. g[t] = IF t = {} THEN NoTokens ELSE CutStep(g[t \ {Max(t)}], s[Max(t)])
    BY <1>5 DEF CutsOf
  <2>2. CASE t = {}
    BY <2>1, <2>2 DEF Agrees
  <2>3. CASE t # {}
    <3>1. Max(t) \in 1..n
      BY <2>3, Greatest
    <3>2. s[Max(t)] \in Nat
      BY <1>2, <3>1
    <3>3. QED
      BY <2>1, <2>3, <3>2 DEF Agrees, CutOp
  <2>4. QED
    BY <2>2, <2>3
<1>7. QED
  <2>1. g[1..n] = FoldOf(CutOp, NoTokens, s)
    BY ONLY <1>0, <1>1, <1>6, AgreesFold, s \in Seq(Nat), n \in Nat
  <2>2. QED
    BY <1>5, <2>1

(* A set of sequences with the empty one, and with each of its members all *)
(* that have one more element, has them all.                               *)
LEMMA AllSequences ==
  ASSUME NEW C, NEW T, <<>> \in T, \A s \in Seq(C) : \A c \in C : s \in T => Append(s, c) \in T
  PROVE  Seq(C) \subseteq T
<1> DEFINE U == {n \in Nat : \A s \in Seq(C) : Len(s) = n => s \in T}
<1>1. 0 \in U
  <2>1. ASSUME NEW s \in Seq(C), Len(s) = 0 PROVE s \in T
    BY <2>1, EmptySeq
  <2>2. QED
    BY <2>1
<1>2. ASSUME NEW n \in Nat, n \in U PROVE n + 1 \in U
  <2>1. ASSUME NEW s \in Seq(C), Len(s) = n + 1 PROVE s \in T
    <3>1. s # <<>>
      BY <1>2, <2>1, EmptySeq
    <3>2. PICK r \in Seq(C), c \in C : s = Append(r, c)
      BY <3>1, SequenceEmptyOrAppend
    <3>3. Len(r) \in Nat /\ Len(s) = Len(r) + 1
      BY <3>2, AppendProperties, LenProperties
    <3>4. Len(r) = n
      BY <2>1, <3>3
    <3>5. r \in T
      BY <1>2, <3>4
    <3>6. QED
      BY <3>2, <3>5
  <2>2. QED
    BY <2>1
<1> HIDE DEF U
<1>3. Nat \subseteq U
  BY <1>1, <1>2, Successors
<1>4. ASSUME NEW s \in Seq(C) PROVE s \in T
  <2>1. Len(s) \in U
    BY <1>3, LenProperties
  <2>2. QED
    BY <2>1 DEF U
<1>5. QED
  BY <1>4

(* One more element at the end.                                            *)
LEMMA ConcatAppend ==
  ASSUME NEW C, NEW s \in Seq(C), NEW t \in Seq(C), NEW c \in C
  PROVE  s \o Append(t, c) = Append(s \o t, c)
<1>1. <<c>> \in Seq(C) /\ s \o t \in Seq(C)
  BY ConcatProperties
<1>2. Append(t, c) = t \o <<c>> /\ Append(s \o t, c) = (s \o t) \o <<c>>
  BY <1>1, AppendIsConcat
<1>3. QED
  BY <1>1, <1>2, ConcatAssociative

(* One more character is one more CutStep.                                 *)
LEMMA CutsGrow ==
  /\ Cuts(<<>>) = NoTokens
  /\ \A s \in Seq(Nat) : Cuts(s) \in CutState
  /\ \A s \in Seq(Nat) : \A c \in Nat : Cuts(Append(s, c)) = CutStep(Cuts(s), c)
<1>0. NoTokens \in CutState /\ Operates(CutOp, CutState, Nat)
  BY CutType
<1>1. Cuts(<<>>) = NoTokens
  <2>1. <<>> \in Seq(Nat)
    BY EmptySeq
  <2>2. QED
    BY <2>1, CutsFold, FoldEmpty
<1>2. ASSUME NEW s \in Seq(Nat) PROVE Cuts(s) \in CutState
  <2>1. FoldOf(CutOp, NoTokens, s) \in CutState
    BY ONLY <1>0, FoldType, s \in Seq(Nat)
  <2>2. QED
    BY <2>1, CutsFold
<1>3. ASSUME NEW s \in Seq(Nat), NEW c \in Nat PROVE Cuts(Append(s, c)) = CutStep(Cuts(s), c)
  <2>1. Append(s, c) \in Seq(Nat)
    BY AppendProperties
  <2>2. FoldOf(CutOp, NoTokens, Append(s, c)) = CutOp[<<FoldOf(CutOp, NoTokens, s), c>>]
    BY ONLY FoldAppend, s \in Seq(Nat), c \in Nat
  <2>3. Cuts(Append(s, c)) = CutOp[<<Cuts(s), c>>]
    BY <2>1, <2>2, CutsFold
  <2>4. QED
    BY <1>2, <2>3 DEF CutOp
<1>4. QED
  BY <1>1, <1>2, <1>3

(* The tokens of any string are components.                                *)
LEMMA TokensType == \A s \in Seq(Nat) : Tokens(s) \in Seq(Component)
BY TokensUnfold, CutsGrow, CutType

(* The empty string has no token.                                          *)
LEMMA NoTokensYet == Tokens(<<>>) = <<>>
BY TokensUnfold, CutsGrow DEF Cut, NoTokens

(* A slash ends a token, and a component behind it is one more.            *)
LEMMA TokensJoin ==
  ASSUME NEW s \in Seq(Nat)
  PROVE  /\ Tokens(Append(s, SLASH)) = Tokens(s)
         /\ \A comp \in Component :
              Tokens(Append(s, SLASH) \o comp) = Append(Tokens(s), comp)
<1>1. SLASH \in Nat
  BY DEF SLASH
<1>2. PICK x \in Seq(Nat) : x = Append(s, SLASH)
  BY <1>1, AppendProperties
<1>3. Cuts(x) = [found |-> Tokens(s), run |-> <<>>]
  BY <1>1, <1>2, CutsGrow, TokensUnfold DEF CutStep
<1>4. Tokens(x) = Tokens(s)
  BY <1>3, TokensUnfold DEF Cut
<1> DEFINE T == {r \in Seq(InName) : Cuts(x \o r) = [found |-> Tokens(s), run |-> r]}
<1>5. <<>> \in T
  BY <1>3, EmptySeq, ConcatEmptySeq
<1>6. ASSUME NEW r \in Seq(InName), NEW c \in InName, r \in T PROVE Append(r, c) \in T
  <2>1. c \in Nat /\ c # SLASH /\ InName \subseteq Nat
    BY DEF InName
  <2>2. r \in Seq(Nat)
    BY <2>1, SeqMonotonic
  <2>3. x \o Append(r, c) = Append(x \o r, c) /\ x \o r \in Seq(Nat)
    BY <2>1, <2>2, ConcatAppend, ConcatProperties
  <2>4. Cuts(x \o Append(r, c)) = CutStep(Cuts(x \o r), c)
    BY <2>1, <2>3, CutsGrow
  <2>5. CutStep([found |-> Tokens(s), run |-> r], c) = [found |-> Tokens(s), run |-> Append(r, c)]
    BY <2>1 DEF CutStep
  <2>6. Append(r, c) \in Seq(InName)
    BY AppendProperties
  <2>7. QED
    BY <1>6, <2>4, <2>5, <2>6
<1> HIDE DEF T
<1>7. Seq(InName) \subseteq T
  BY <1>5, <1>6, AllSequences
<1>8. ASSUME NEW comp \in Component PROVE Tokens(x \o comp) = Append(Tokens(s), comp)
  <2>1. Cuts(x \o comp) = [found |-> Tokens(s), run |-> comp] /\ comp # <<>>
    BY <1>7 DEF Component, T
  <2>2. QED
    BY <2>1, TokensUnfold DEF Cut
<1>9. QED
  BY <1>2, <1>4, <1>8

-----------------------------------------------------------------------------
(* Normal forms.                                                           *)

(* The paths that start at the root.                                       *)
Rooted == {s \in Seq(Nat) : Len(s) > 0 /\ s[1] = SLASH}

(* The states of vfs_normalize_path's loop.                                *)
PathState == [tmp : Rooted, full : BOOLEAN]

(* Where the loop starts.                                                  *)
AtRoot == [tmp |-> <<SLASH>>, full |-> FALSE]

(* The root is a path of the loop.                                         *)
LEMMA SlashIsRooted == <<SLASH>> \in Rooted /\ AtRoot \in PathState
BY DEF Rooted, SLASH, AtRoot, PathState

(* What Trim leaves.                                                       *)
LEMMA Trimmed ==
  ASSUME NEW s \in Rooted
  PROVE  /\ EndsInSlash(s) <=> s[Len(s)] = SLASH
         /\ Trim(s) \in Rooted
         /\ ~(EndsInSlash(s) /\ Len(s) > 1) => Trim(s) = s
         /\ EndsInSlash(s) /\ Len(s) > 1 =>
              /\ Trim(s) = SubSeq(s, 1, Len(s) - 1)
              /\ s = Append(Trim(s), SLASH) /\ Len(Trim(s)) = Len(s) - 1
<1>1. PICK n \in Nat : n = Len(s)
  BY DEF Rooted
<1>2. s \in Seq(Nat) /\ n > 0 /\ s[1] = SLASH /\ \A i \in 1..n : s[i] \in Nat
  BY <1>1 DEF Rooted
<1>3. EndsInSlash(s) <=> s[n] = SLASH
  BY <1>1, <1>2 DEF EndsInSlash, Last
<1>4. CASE EndsInSlash(s) /\ n > 1
  <2>1. Trim(s) = SubSeq(s, 1, n - 1)
    BY <1>1, <1>4 DEF Trim, Front
  <2>2. PICK t : t = SubSeq(s, 1, n - 1)
    OBVIOUS
  <2>3. t \in Seq(Nat) /\ Len(t) = n - 1 /\ \A i \in 1..(n - 1) : t[i] = s[i]
    BY <1>2, <1>4, <2>2
  <2>4. t \in Rooted
    BY <1>2, <1>4, <2>3 DEF Rooted
  <2>5. SLASH \in Nat
    BY DEF SLASH
  <2>6. s = Append(t, SLASH)
    <3>1. PICK u : u = Append(t, SLASH)
      OBVIOUS
    <3>2. u \in Seq(Nat) /\ Len(u) = n /\ u[n] = SLASH /\ \A i \in 1..(n - 1) : u[i] = s[i]
      BY <2>3, <2>5, <3>1, <1>4
    <3>3. \A i \in 1..n : u[i] = s[i]
      BY <1>3, <1>4, <3>2
    <3>4. s = u
      BY ONLY <1>1, <1>2, <3>2, <3>3, SeqEqual
    <3>5. QED
      BY <3>1, <3>4
  <2>7. QED
    BY <1>1, <1>3, <1>4, <2>1, <2>2, <2>3, <2>4, <2>6
<1>5. CASE ~(EndsInSlash(s) /\ n > 1)
  <2>1. Trim(s) = s
    BY <1>1, <1>5 DEF Trim
  <2>2. ~(EndsInSlash(s) /\ Len(s) > 1)
    BY <1>1, <1>5
  <2>3. QED
    BY ONLY <1>1, <1>3, <2>1, <2>2, s \in Rooted
<1>6. QED
  BY <1>4, <1>5

(* A piece of a path from its start is one, too.                           *)
LEMMA RootedPart ==
  ASSUME NEW s \in Rooted, NEW m \in 1..Len(s)
  PROVE  /\ SubSeq(s, 1, m) \in Rooted /\ Len(SubSeq(s, 1, m)) = m
         /\ \A i \in 1..m : SubSeq(s, 1, m)[i] = s[i]
         /\ \A i \in 1..m : SubSeq(SubSeq(s, 1, m), 1, i) = SubSeq(s, 1, i)
<1>1. s \in Seq(Nat) /\ s[1] = SLASH /\ Len(s) \in Nat
  BY DEF Rooted
<1>2. PICK t : t = SubSeq(s, 1, m)
  OBVIOUS
<1>3. t \in Seq(Nat) /\ Len(t) = m /\ \A i \in 1..m : t[i] = s[i]
  BY <1>1, <1>2
<1>4. t \in Rooted
  BY <1>1, <1>3 DEF Rooted
<1>5. ASSUME NEW i \in 1..m PROVE SubSeq(t, 1, i) = SubSeq(s, 1, i)
  <2>1. PICK x, y : x = SubSeq(t, 1, i) /\ y = SubSeq(s, 1, i)
    OBVIOUS
  <2>2. x \in Seq(Nat) /\ Len(x) = i /\ \A j \in 1..i : x[j] = t[j]
    BY <1>3, <2>1
  <2>3. y \in Seq(Nat) /\ Len(y) = i /\ \A j \in 1..i : y[j] = s[j]
    BY <1>1, <2>1
  <2>4. \A j \in 1..i : x[j] = y[j]
    BY <1>3, <2>2, <2>3
  <2>5. x = y
    BY ONLY <2>2, <2>3, <2>4, SeqEqual
  <2>6. QED
    BY <2>1, <2>5
<1>6. QED
  BY <1>2, <1>3, <1>4, <1>5

(* Where ".." goes back to.                                                *)
LEMMA Popped ==
  ASSUME NEW s \in Rooted
  PROVE  \E m \in 1..Len(s) : Pop(s) = SubSeq(s, 1, m) /\ s[m] = SLASH /\ m <= Len(Trim(s))
<1>1. PICK t \in Rooted : t = Trim(s)
  BY Trimmed
<1>2. PICK n \in Nat : n = Len(t)
  BY DEF Rooted
<1>3. n > 0 /\ t[1] = SLASH /\ DOMAIN t = 1..n
  BY <1>2 DEF Rooted
<1> DEFINE S == {i \in DOMAIN t : t[i] = SLASH}
<1>4. S \in SUBSET (1..n) /\ S # {}
  BY <1>3
<1>5. PICK m : m = Max(S)
  OBVIOUS
<1>6. m \in S
  BY <1>4, <1>5, Greatest
<1>7. m \in 1..n /\ t[m] = SLASH
  BY <1>3, <1>6
<1>8. Pop(s) = SubSeq(t, 1, m)
  BY <1>1, <1>5 DEF Pop
<1> HIDE DEF S
<1>9. PICK k \in Nat : k = Len(s) /\ k > 0
  BY DEF Rooted
<1>10. n <= k /\ (t = s \/ t = SubSeq(s, 1, n))
  <2>1. CASE EndsInSlash(s) /\ k > 1
    <3>1. t = SubSeq(s, 1, k - 1) /\ n = k - 1
      BY <1>1, <1>2, <1>9, <2>1, Trimmed
    <3>2. QED
      BY <1>9, <3>1
  <2>2. CASE ~(EndsInSlash(s) /\ k > 1)
    <3>1. t = s
      BY <1>1, <1>9, <2>2, Trimmed
    <3>2. QED
      BY <1>2, <1>9, <3>1
  <2>3. QED
    BY <2>1, <2>2
<1>11. n \in 1..Len(s)
  BY <1>3, <1>9, <1>10
<1>12. t[m] = s[m] /\ SubSeq(t, 1, m) = SubSeq(s, 1, m)
  BY <1>7, <1>10, <1>11, RootedPart
<1>13. QED
  BY <1>1, <1>2, <1>7, <1>8, <1>9, <1>11, <1>12

(* With the slash that a component is put behind.                          *)
Slashed(s) == IF Len(s) > 1 /\ ~EndsInSlash(s) THEN Append(s, SLASH) ELSE s

(* A path and the slash that a component is put behind.                    *)
LEMMA SlashedType ==
  ASSUME NEW s \in Rooted
  PROVE  /\ Slashed(s) \in Rooted /\ Len(Slashed(s)) <= Len(s) + 1
         /\ Slashed(s)[Len(Slashed(s))] = SLASH
         /\ Len(s) <= Len(Slashed(s)) /\ \A i \in 1..Len(s) : Slashed(s)[i] = s[i]
<1>1. s \in Seq(Nat) /\ s[1] = SLASH /\ Len(s) > 0 /\ Len(s) \in Nat /\ SLASH \in Nat
  BY DEF Rooted, SLASH
<1>2. CASE Len(s) > 1 /\ ~EndsInSlash(s)
  <2>1. PICK t : t = Append(s, SLASH)
    OBVIOUS
  <2>2. /\ t \in Seq(Nat) /\ Len(t) = Len(s) + 1 /\ t[Len(s) + 1] = SLASH
        /\ \A i \in 1..Len(s) : t[i] = s[i]
    BY <1>1, <2>1
  <2>3. t \in Rooted
    BY <1>1, <2>2 DEF Rooted
  <2>4. Slashed(s) = t
    BY <1>2, <2>1 DEF Slashed
  <2>5. QED
    BY <1>1, <2>2, <2>3, <2>4
<1>3. CASE ~(Len(s) > 1 /\ ~EndsInSlash(s))
  <2>1. Slashed(s) = s
    BY <1>3 DEF Slashed
  <2>2. s[Len(s)] = SLASH
    <3>1. CASE Len(s) > 1
      BY <1>3, <3>1, Trimmed
    <3>2. CASE ~(Len(s) > 1)
      BY <1>1, <3>2
    <3>3. QED
      BY <3>1, <3>2
  <2>3. QED
    BY <1>1, <2>1, <2>2
<1>4. QED
  BY <1>2, <1>3

(* A component behind a path.                                              *)
LEMMA PushedType ==
  ASSUME NEW s \in Rooted, NEW comp \in Component
  PROVE  /\ s \o comp \in Rooted /\ Len(comp) \in Nat \ {0}
         /\ Len(s \o comp) = Len(s) + Len(comp)
         /\ \A i \in 1..Len(s) : (s \o comp)[i] = s[i]
         /\ \A i \in (Len(s) + 1)..(Len(s) + Len(comp)) : (s \o comp)[i] # SLASH
<1>1. s \in Seq(Nat) /\ s[1] = SLASH /\ Len(s) > 0 /\ Len(s) \in Nat
  BY DEF Rooted
<1>2. comp \in Seq(InName) /\ comp # <<>> /\ InName \subseteq Nat
  BY DEF Component, InName
<1>3. comp \in Seq(Nat) /\ Len(comp) \in Nat \ {0} /\ \A i \in 1..Len(comp) : comp[i] \in InName
  BY <1>2, SeqMonotonic, EmptySeq, ElementOfSeq
<1>4. PICK u : u = s \o comp
  OBVIOUS
<1>5. /\ u \in Seq(Nat) /\ Len(u) = Len(s) + Len(comp)
      /\ \A i \in 1..(Len(s) + Len(comp)) : u[i] = IF i <= Len(s) THEN s[i] ELSE comp[i - Len(s)]
  BY ONLY <1>1, <1>3, <1>4, ConcatProperties
<1>6. u \in Rooted
  BY <1>1, <1>3, <1>5 DEF Rooted
<1>7. ASSUME NEW i \in (Len(s) + 1)..(Len(s) + Len(comp)) PROVE u[i] # SLASH
  <2>1. PICK k, l \in Nat : k = Len(s) /\ l = Len(comp)
    BY <1>1, <1>3
  <2>2. i \in 1..(k + l) /\ ~(i <= k) /\ i - k \in 1..l
    BY ONLY <2>1, i \in (Len(s) + 1)..(Len(s) + Len(comp))
  <2>3. u[i] = comp[i - k]
    BY ONLY <1>5, <2>1, <2>2
  <2>4. comp[i - k] \in InName
    BY ONLY <1>3, <2>1, <2>2
  <2>5. QED
    BY <2>3, <2>4 DEF InName
<1>8. ASSUME NEW i \in 1..Len(s) PROVE u[i] = s[i]
  <2>1. i \in 1..(Len(s) + Len(comp)) /\ i <= Len(s)
    BY ONLY <1>1, <1>3, i \in 1..Len(s)
  <2>2. QED
    BY ONLY <1>5, <2>1
<1>9. QED
  BY <1>3, <1>4, <1>5, <1>6, <1>7, <1>8

(* Push, with the slash apart.                                             *)
LEMMA PushIs ==
  ASSUME NEW s, NEW comp
  PROVE  Push(s, comp) = IF Len(Slashed(s)) + Len(comp) >= PATH_SIZE
                         THEN [tmp |-> Slashed(s), full |-> TRUE]
                         ELSE [tmp |-> Slashed(s) \o comp, full |-> FALSE]
BY DEF Push, Slashed

(* Take as a function of pairs.                                            *)
TakeOp == [p \in PathState \X Component |-> Take(p[1], p[2])]

(* Take keeps the state of the loop in its type.                           *)
LEMMA TakeType ==
  /\ \A st \in PathState : \A comp \in Component : Take(st, comp) \in PathState
  /\ Operates(TakeOp, PathState, Component)
<1>1. ASSUME NEW st \in PathState, NEW comp \in Component PROVE Take(st, comp) \in PathState
  <2>1. st.tmp \in Rooted /\ st.full \in BOOLEAN
    BY DEF PathState
  <2>2. CASE st.full \/ comp = <<DOT>>
    BY <2>2 DEF Take
  <2>3. CASE ~(st.full \/ comp = <<DOT>>) /\ comp = <<DOT, DOT>>
    <3>1. PICK m \in 1..Len(st.tmp) : Pop(st.tmp) = SubSeq(st.tmp, 1, m)
      BY <2>1, Popped
    <3>2. PICK s \in Rooted : s = Pop(st.tmp)
      BY <2>1, <3>1, RootedPart
    <3>3. Take(st, comp) = [st EXCEPT !.tmp = s]
      BY <2>3, <3>2 DEF Take
    <3>4. QED
      BY <3>3 DEF PathState
  <2>4. CASE ~(st.full \/ comp = <<DOT>>) /\ comp # <<DOT, DOT>>
    <3>1. Take(st, comp) = Push(st.tmp, comp)
      BY <2>4 DEF Take
    <3>2. Slashed(st.tmp) \in Rooted /\ Slashed(st.tmp) \o comp \in Rooted
      BY <2>1, SlashedType, PushedType
    <3>3. PICK s, w : s = Slashed(st.tmp) /\ w = Slashed(st.tmp) \o comp
      OBVIOUS
    <3>4. [tmp |-> s, full |-> TRUE] \in PathState /\ [tmp |-> w, full |-> FALSE] \in PathState
      BY <3>2, <3>3 DEF PathState
    <3>5. Take(st, comp) \in {[tmp |-> s, full |-> TRUE], [tmp |-> w, full |-> FALSE]}
      BY <3>1, <3>3, PushIs
    <3>6. QED
      BY <3>4, <3>5
  <2>5. QED
    BY <2>2, <2>3, <2>4
<1>2. QED
  BY <1>1 DEF TakeOp, Operates

(* The recursive function of the fold in vfs_normalize_path.               *)
TakenOf(f, s, D) ==
  f = [t \in D |-> IF t = {} THEN AtRoot ELSE Take(f[t \ {Max(t)}], s[Max(t)])]

(* What the loop makes of the components s.                                *)
Taken(s) == (CHOOSE f : TakenOf(f, s, SUBSET DOMAIN s))[DOMAIN s]

(* vfs_normalize_path, from the fold that its definition stands for.       *)
LEMMA NormalUnfolds ==
  ASSUME NEW path, path # <<>>, Head(path) = SLASH
  PROVE  vfs_normalize_path(path) = Trim(Taken(Tokens(path)).tmp)
BY DEF vfs_normalize_path, FoldLeft, MapThenFoldSet, Taken, TakenOf, AtRoot

(* The loop's fold is the fold of TakeOp.                                  *)
LEMMA TakenFold ==
  ASSUME NEW s \in Seq(Component)
  PROVE  Taken(s) = FoldOf(TakeOp, AtRoot, s)
<1>1. PICK n \in Nat : n = Len(s)
  OBVIOUS
<1>2. DOMAIN s = 1..n /\ \A i \in 1..n : s[i] \in Component
  BY <1>1
<1>3. AtRoot \in PathState /\ Operates(TakeOp, PathState, Component)
  BY SlashIsRooted, TakeType
<1>4. PICK f \in [SUBSET (1..n) -> PathState] :
        \A t \in SUBSET (1..n) : Gathered(f, TakeOp, AtRoot, s, t)
  BY ONLY <1>1, <1>3, GatheredExists, n \in Nat, s \in Seq(Component)
<1>5. TakenOf(f, s, SUBSET (1..n))
  <2>1. ASSUME NEW t \in SUBSET (1..n)
        PROVE  f[t] = IF t = {} THEN AtRoot ELSE Take(f[t \ {Max(t)}], s[Max(t)])
    <3>1. CASE t = {}
      BY <1>4, <3>1 DEF Gathered
    <3>2. CASE t # {}
      <4>1. PICK m : m = Max(t)
        OBVIOUS
      <4>2. m \in 1..n
        BY <3>2, <4>1, Greatest
      <4>3. f[t \ {m}] \in PathState /\ s[m] \in Component
        BY <1>2, <4>2
      <4>4. f[t] = TakeOp[<<f[t \ {m}], s[m]>>]
        BY <1>4, <3>2, <4>1 DEF Gathered
      <4>5. QED
        BY <3>2, <4>1, <4>3, <4>4 DEF TakeOp
    <3>3. QED
      BY <3>1, <3>2
  <2>2. QED
    BY <2>1 DEF TakenOf
<1>6. PICK g : TakenOf(g, s, SUBSET (1..n)) /\ Taken(s) = g[1..n]
  BY <1>2, <1>5 DEF Taken
<1>7. ASSUME NEW t \in SUBSET (1..n) PROVE Agrees(g, TakeOp, PathState, AtRoot, s, t)
  <2>1. g[t] = IF t = {} THEN AtRoot ELSE Take(g[t \ {Max(t)}], s[Max(t)])
    BY <1>6 DEF TakenOf
  <2>2. CASE t = {}
    BY <2>1, <2>2 DEF Agrees
  <2>3. CASE t # {}
    <3>1. Max(t) \in 1..n
      BY <2>3, Greatest
    <3>2. s[Max(t)] \in Component
      BY <1>2, <3>1
    <3>3. QED
      BY <2>1, <2>3, <3>2 DEF Agrees, TakeOp
  <2>4. QED
    BY <2>2, <2>3
<1>8. g[1..n] = FoldOf(TakeOp, AtRoot, s)
  BY ONLY <1>1, <1>3, <1>7, AgreesFold, s \in Seq(Component), n \in Nat
<1>9. QED
  BY <1>6, <1>8

(* One more component is one more Take.                                    *)
LEMMA TakenGrow ==
  /\ Taken(<<>>) = AtRoot
  /\ \A s \in Seq(Component) : Taken(s) \in PathState
  /\ \A s \in Seq(Component) : \A c \in Component :
       Taken(Append(s, c)) = Take(Taken(s), c)
<1>0. AtRoot \in PathState /\ Operates(TakeOp, PathState, Component)
  BY SlashIsRooted, TakeType
<1>1. Taken(<<>>) = AtRoot
  <2>1. <<>> \in Seq(Component)
    BY EmptySeq
  <2>2. QED
    BY <2>1, TakenFold, FoldEmpty
<1>2. ASSUME NEW s \in Seq(Component) PROVE Taken(s) \in PathState
  <2>1. FoldOf(TakeOp, AtRoot, s) \in PathState
    BY ONLY <1>0, FoldType, s \in Seq(Component)
  <2>2. QED
    BY <2>1, TakenFold
<1>3. ASSUME NEW s \in Seq(Component), NEW c \in Component
      PROVE  Taken(Append(s, c)) = Take(Taken(s), c)
  <2>1. Append(s, c) \in Seq(Component)
    BY AppendProperties
  <2>2. FoldOf(TakeOp, AtRoot, Append(s, c)) = TakeOp[<<FoldOf(TakeOp, AtRoot, s), c>>]
    BY ONLY FoldAppend, s \in Seq(Component), c \in Component
  <2>3. Taken(Append(s, c)) = TakeOp[<<Taken(s), c>>]
    BY <2>1, <2>2, TakenFold
  <2>4. QED
    BY <1>2, <2>3 DEF TakeOp
<1>4. QED
  BY <1>1, <1>2, <1>3

-----------------------------------------------------------------------------
(* A path in normal form is what its components give back.                 *)
Good(u) == u \in Rooted /\ Trim(u) = u /\ Taken(Tokens(u)) = [tmp |-> u, full |-> FALSE]

(* So is every path the components make, up to each of its slashes.        *)
Orderly(v) ==
  /\ Len(v) > 1 => v[2] # SLASH
  /\ Good(Trim(v))
  /\ \A i \in 1..Len(v) : v[i] = SLASH => Good(Trim(SubSeq(v, 1, i)))

(* What the loop keeps of the path it builds.                              *)
Tidied(st) ==
  /\ st \in PathState /\ Orderly(st.tmp)
  /\ Len(Trim(st.tmp)) < PATH_SIZE
  /\ ~st.full => Len(st.tmp) < PATH_SIZE

(* The root is in normal form.                                             *)
LEMMA RootIsGood == Good(<<SLASH>>) /\ Tidied(AtRoot)
<1>1. <<SLASH>> \in Rooted /\ AtRoot \in PathState /\ Len(<<SLASH>>) = 1
  BY SlashIsRooted
<1>2. Trim(<<SLASH>>) = <<SLASH>>
  BY <1>1, Trimmed
<1>3. Tokens(<<SLASH>>) = <<>>
  <2>1. <<>> \in Seq(Nat) /\ Append(<<>>, SLASH) = <<SLASH>>
    OBVIOUS
  <2>2. QED
    BY <2>1, TokensJoin, NoTokensYet
<1>4. Good(<<SLASH>>)
  BY <1>1, <1>2, <1>3, TakenGrow DEF Good, AtRoot
<1>5. PICK v : v = <<SLASH>>
  OBVIOUS
<1>6. v \in Rooted /\ Len(v) = 1 /\ Trim(v) = v /\ Good(v)
  BY <1>1, <1>2, <1>4, <1>5
<1>7. ASSUME NEW i \in 1..Len(v) PROVE Good(Trim(SubSeq(v, 1, i)))
  <2>1. i = Len(v) /\ v \in Seq(Nat)
    BY <1>6 DEF Rooted
  <2>2. SubSeq(v, 1, i) = v
    BY <2>1, SubSeqFull
  <2>3. QED
    BY <1>6, <2>2
<1>8. Orderly(v)
  <2>1. ~(Len(v) > 1) /\ Good(Trim(v))
    BY <1>6
  <2>2. QED
    BY ONLY <1>7, <2>1 DEF Orderly
<1>9. AtRoot.tmp = v /\ AtRoot.full = FALSE
  BY <1>5 DEF AtRoot
<1>10. Len(v) < PATH_SIZE
  BY <1>6, VfsAssumption
<1>11. QED
  BY <1>1, <1>4, <1>6, <1>8, <1>9, <1>10 DEF Tidied

(* One component more makes another normal form.                           *)
LEMMA GoodJoin ==
  ASSUME NEW u, Good(u), Len(u) > 1, NEW comp \in Component, comp \notin {<<DOT>>, <<DOT, DOT>>},
         Len(u) + 1 + Len(comp) < PATH_SIZE
  PROVE  Good(Append(u, SLASH) \o comp)
<1>1. /\ u \in Rooted /\ Trim(u) = u /\ Taken(Tokens(u)) = [tmp |-> u, full |-> FALSE]
      /\ u \in Seq(Nat) /\ Len(u) \in Nat
  BY DEF Good, Rooted
<1>2. ~EndsInSlash(u)
  <2>1. SUFFICES ASSUME EndsInSlash(u) PROVE FALSE
    OBVIOUS
  <2>2. Len(Trim(u)) = Len(u) - 1
    BY <1>1, <2>1, Trimmed
  <2>3. QED
    BY <1>1, <2>2
<1>3. PICK x : x = Append(u, SLASH)
  OBVIOUS
<1>4. Slashed(u) = x
  BY <1>2, <1>3 DEF Slashed
<1>5. x \in Rooted /\ Len(x) = Len(u) + 1
  <2>1. SLASH \in Nat
    BY DEF SLASH
  <2>2. Len(x) = Len(u) + 1
    BY <1>1, <1>3, <2>1, AppendProperties
  <2>3. x \in Rooted
    BY <1>1, <1>4, SlashedType
  <2>4. QED
    BY <2>2, <2>3
<1>6. Tokens(x \o comp) = Append(Tokens(u), comp)
  BY <1>1, <1>3, TokensJoin
<1>7. Taken(Tokens(x \o comp)) = Take([tmp |-> u, full |-> FALSE], comp)
  BY <1>1, <1>6, TokensType, TakenGrow
<1>8. Take([tmp |-> u, full |-> FALSE], comp) = Push(u, comp)
  BY DEF Take
<1>9. Push(u, comp) = [tmp |-> x \o comp, full |-> FALSE]
  <2>1. Len(comp) \in Nat
    BY <1>1, PushedType
  <2>2. ~(Len(x) + Len(comp) >= PATH_SIZE)
    BY <1>1, <1>5, <2>1, Ext2Assumption
  <2>3. QED
    BY <1>4, <2>2, PushIs
<1>10. PICK w : w = x \o comp
  OBVIOUS
<1>11. w \in Rooted /\ w[Len(w)] # SLASH
  <2>1. /\ w \in Rooted /\ Len(comp) \in Nat \ {0} /\ Len(w) = Len(x) + Len(comp)
        /\ \A i \in (Len(x) + 1)..(Len(x) + Len(comp)) : w[i] # SLASH
    BY <1>5, <1>10, PushedType
  <2>2. Len(x) \in Nat
    BY <1>1, <1>5
  <2>3. QED
    BY <2>1, <2>2
<1>12. Trim(w) = w
  BY <1>11, Trimmed
<1>13. QED
  BY <1>3, <1>7, <1>8, <1>9, <1>10, <1>11, <1>12 DEF Good

(* A path up to one of its slashes is orderly, too.                        *)
LEMMA PopOrderly ==
  ASSUME NEW v \in Rooted, Orderly(v), NEW m \in 1..Len(v), v[m] = SLASH
  PROVE  Orderly(SubSeq(v, 1, m))
<1>1. PICK w : w = SubSeq(v, 1, m)
  OBVIOUS
<1>2. /\ w \in Rooted /\ Len(w) = m /\ Len(v) \in Nat
      /\ \A i \in 1..m : w[i] = v[i]
      /\ \A i \in 1..m : SubSeq(w, 1, i) = SubSeq(v, 1, i)
  BY <1>1, RootedPart DEF Rooted
<1>3. Len(w) > 1 => w[2] # SLASH
  <2>1. ASSUME m > 1 PROVE w[2] # SLASH
    <3>1. 2 \in 1..m /\ Len(v) > 1
      BY <1>2, <2>1
    <3>2. QED
      BY <1>2, <3>1 DEF Orderly
  <2>2. QED
    BY <1>2, <2>1
<1>4. Good(Trim(w))
  BY <1>1 DEF Orderly
<1>5. ASSUME NEW i \in 1..Len(w), w[i] = SLASH PROVE Good(Trim(SubSeq(w, 1, i)))
  <2>1. i \in 1..m /\ i \in 1..Len(v)
    BY <1>2
  <2>2. v[i] = SLASH /\ SubSeq(w, 1, i) = SubSeq(v, 1, i)
    BY <1>2, <1>5, <2>1
  <2>3. Good(Trim(SubSeq(v, 1, i)))
    BY <2>1, <2>2 DEF Orderly
  <2>4. QED
    BY <2>2, <2>3
<1>6. Orderly(w)
  BY <1>3, <1>4, <1>5 DEF Orderly
<1>7. QED
  BY <1>1, <1>6

(* The slash that a component is put behind changes nothing that lasts.    *)
LEMMA SlashedOrderly ==
  ASSUME NEW v \in Rooted, Orderly(v)
  PROVE  Orderly(Slashed(v)) /\ Trim(Slashed(v)) = Trim(v)
<1>1. CASE Len(v) > 1 /\ ~EndsInSlash(v)
  <2>1. PICK t : t = Append(v, SLASH)
    OBVIOUS
  <2>2. Slashed(v) = t
    BY <1>1, <2>1 DEF Slashed
  <2>3. v \in Seq(Nat) /\ SLASH \in Nat /\ Len(v) \in Nat
    BY DEF Rooted, SLASH
  <2>4. Len(t) = Len(v) + 1
    BY <2>1, <2>3, AppendProperties
  <2>5. t \in Rooted /\ t[Len(t)] = SLASH /\ \A i \in 1..Len(v) : t[i] = v[i]
    BY <2>2, SlashedType
  <2>6. EndsInSlash(t) /\ Len(t) > 1
    BY <1>1, <2>3, <2>4, <2>5, Trimmed
  <2>7. t = Append(Trim(t), SLASH) /\ Trim(t) = SubSeq(t, 1, Len(t) - 1) /\ Trim(t) \in Rooted
    BY <2>5, <2>6, Trimmed
  <2>8. Trim(t) = v
    <3>1. Trim(t) \in Seq(Nat)
      BY <2>7 DEF Rooted
    <3>2. Append(v, SLASH) = Append(Trim(t), SLASH)
      BY <2>1, <2>7
    <3>3. QED
      BY ONLY <2>3, <3>1, <3>2, AppendInjective
  <2>9. Trim(v) = v
    BY <1>1, Trimmed
  <2>10. Len(v) \in 1..Len(t) /\ v = SubSeq(t, 1, Len(v))
    BY <1>1, <2>3, <2>4, <2>7, <2>8
  <2>11. \A i \in 1..Len(v) : SubSeq(v, 1, i) = SubSeq(t, 1, i)
    BY <2>5, <2>10, RootedPart
  <2>12. t[2] # SLASH
    <3>1. v[2] # SLASH /\ 2 \in 1..Len(v)
      BY <1>1, <2>3 DEF Orderly
    <3>2. QED
      BY <2>5, <3>1
  <2>13. Good(Trim(t))
    BY <2>8, <2>9 DEF Orderly
  <2>14. ASSUME NEW i \in 1..Len(t), t[i] = SLASH PROVE Good(Trim(SubSeq(t, 1, i)))
    <3>1. CASE i = Len(t)
      <4>1. SubSeq(t, 1, i) = t
        BY <2>5, <3>1, SubSeqFull DEF Rooted
      <4>2. QED
        BY <2>13, <4>1
    <3>2. CASE i # Len(t)
      <4>1. i \in 1..Len(v)
        BY <2>3, <2>4, <3>2
      <4>2. v[i] = SLASH /\ SubSeq(v, 1, i) = SubSeq(t, 1, i)
        BY <2>5, <2>11, <2>14, <4>1
      <4>3. Good(Trim(SubSeq(v, 1, i)))
        BY <4>1, <4>2 DEF Orderly
      <4>4. QED
        BY <4>2, <4>3
    <3>3. QED
      BY <3>1, <3>2
  <2>15. Orderly(t)
    BY <2>12, <2>13, <2>14 DEF Orderly
  <2>16. QED
    BY <2>2, <2>8, <2>9, <2>15
<1>2. CASE ~(Len(v) > 1 /\ ~EndsInSlash(v))
  BY <1>2 DEF Slashed
<1>3. QED
  BY <1>1, <1>2

(* A component behind it makes a path in normal form.                      *)
LEMMA PushOrderly ==
  ASSUME NEW t \in Rooted, Orderly(t), t[Len(t)] = SLASH,
         NEW comp \in Component, comp \notin {<<DOT>>, <<DOT, DOT>>},
         Len(t) + Len(comp) < PATH_SIZE
  PROVE  Orderly(t \o comp) /\ Trim(t \o comp) = t \o comp
<1>1. PICK w : w = t \o comp
  OBVIOUS
<1>2. /\ w \in Rooted /\ Len(comp) \in Nat \ {0} /\ Len(w) = Len(t) + Len(comp)
      /\ \A i \in 1..Len(t) : w[i] = t[i]
      /\ \A i \in (Len(t) + 1)..(Len(t) + Len(comp)) : w[i] # SLASH
  BY <1>1, PushedType
<1>3. t \in Seq(Nat) /\ Len(t) \in Nat /\ Len(t) > 0 /\ t[1] = SLASH
  BY DEF Rooted
<1>4. w[Len(w)] # SLASH
  BY <1>2, <1>3
<1>5. Trim(w) = w
  BY <1>2, <1>4, Trimmed
<1>6. Good(w)
  <2>1. CASE Len(t) = 1
    <3>1. <<>> \in Seq(Nat) /\ Append(<<>>, SLASH) = <<SLASH>>
      OBVIOUS
    <3>2. t = <<SLASH>>
      BY <1>3, <2>1
    <3>3. Tokens(w) = Append(Tokens(<<>>), comp)
      <4>1. Tokens(Append(<<>>, SLASH) \o comp) = Append(Tokens(<<>>), comp)
        BY ONLY <3>1, TokensJoin, comp \in Component
      <4>2. QED
        BY <1>1, <3>1, <3>2, <4>1
    <3>4. <<>> \in Seq(Component)
      BY EmptySeq
    <3>5. Taken(Tokens(w)) = Take(AtRoot, comp)
      BY <3>3, <3>4, NoTokensYet, TakenGrow
    <3>6. Take(AtRoot, comp) = Push(t, comp)
      BY <3>2 DEF Take, AtRoot
    <3>7. Slashed(t) = t
      BY <2>1 DEF Slashed
    <3>8. ~(Len(t) + Len(comp) >= PATH_SIZE)
      BY <1>2, <1>3, Ext2Assumption
    <3>9. Push(t, comp) = [tmp |-> w, full |-> FALSE]
      BY <1>1, <3>7, <3>8, PushIs
    <3>10. QED
      BY <1>2, <1>5, <3>5, <3>6, <3>9 DEF Good
  <2>2. CASE Len(t) # 1
    <3>1. EndsInSlash(t) /\ Len(t) > 1
      <4>1. Len(t) > 1
        <5>1. PICK n \in Nat : n = Len(t)
          BY <1>3
        <5>2. n > 0 /\ n # 1
          BY <1>3, <2>2, <5>1
        <5>3. QED
          BY <5>1, <5>2
      <4>2. EndsInSlash(t)
        BY Trimmed
      <4>3. QED
        BY <4>1, <4>2
    <3>2. PICK u : u = Trim(t)
      OBVIOUS
    <3>3. t = Append(u, SLASH) /\ Len(u) = Len(t) - 1
      BY <3>1, <3>2, Trimmed
    <3>4. Good(u) /\ t[2] # SLASH
      BY <3>1, <3>2 DEF Orderly
    <3>5. Len(t) # 2
      BY <3>4
    <3>6. Len(u) > 1 /\ Len(u) + 1 + Len(comp) < PATH_SIZE
      BY <1>2, <1>3, <3>1, <3>3, <3>5
    <3>7. Good(Append(u, SLASH) \o comp)
      BY <3>4, <3>6, GoodJoin
    <3>8. QED
      BY <1>1, <3>3, <3>7
  <2>3. QED
    BY <2>1, <2>2
<1>7. w[2] # SLASH
  <2>1. CASE Len(t) = 1
    BY <1>2, <2>1
  <2>2. CASE Len(t) # 1
    <3>1. t[2] # SLASH /\ 2 \in 1..Len(t)
      <4>1. Len(t) > 1
        <5>1. PICK n \in Nat : n = Len(t)
          BY <1>3
        <5>2. n > 0 /\ n # 1
          BY <1>3, <2>2, <5>1
        <5>3. QED
          BY <5>1, <5>2
      <4>2. QED
        BY <1>3, <4>1 DEF Orderly
    <3>2. QED
      BY <1>2, <3>1
  <2>3. QED
    BY <2>1, <2>2
<1>8. SubSeq(w, 1, Len(t)) = t
  <2>1. Len(t) \in 1..Len(w)
    BY <1>2, <1>3
  <2>2. PICK x : x = SubSeq(w, 1, Len(t))
    OBVIOUS
  <2>3. x \in Seq(Nat) /\ Len(x) = Len(t) /\ \A i \in 1..Len(t) : x[i] = w[i]
    <3>1. w \in Rooted
      BY <1>2
    <3>2. x \in Rooted /\ Len(x) = Len(t) /\ \A i \in 1..Len(t) : x[i] = w[i]
      BY ONLY <2>1, <2>2, <3>1, RootedPart
    <3>3. QED
      BY <3>2 DEF Rooted
  <2>4. \A i \in 1..Len(t) : x[i] = t[i]
    BY <1>2, <2>3
  <2>5. x = t
    BY ONLY <1>3, <2>3, <2>4, SeqEqual
  <2>6. QED
    BY <2>2, <2>5
<1>9. ASSUME NEW i \in 1..Len(w), w[i] = SLASH PROVE Good(Trim(SubSeq(w, 1, i)))
  <2>1. i \in 1..Len(t)
    BY <1>2, <1>3, <1>9
  <2>2. Len(t) \in 1..Len(w)
    BY <1>2, <1>3
  <2>3. SubSeq(t, 1, i) = SubSeq(w, 1, i)
    BY <1>2, <1>8, <2>1, <2>2, RootedPart
  <2>4. t[i] = SLASH
    BY <1>2, <1>9, <2>1
  <2>5. Good(Trim(SubSeq(t, 1, i)))
    BY <2>1, <2>4 DEF Orderly
  <2>6. QED
    BY <2>3, <2>5
<1>10. Orderly(w)
  BY <1>5, <1>6, <1>7, <1>9 DEF Orderly
<1>11. QED
  BY <1>1, <1>5, <1>10

(* A round of the loop keeps a path tidy.                                  *)
LEMMA TakeTidied ==
  ASSUME NEW st, Tidied(st), NEW comp \in Component
  PROVE  Tidied(Take(st, comp))
<1>1. /\ st \in PathState /\ st.tmp \in Rooted /\ Orderly(st.tmp)
      /\ Len(Trim(st.tmp)) < PATH_SIZE
      /\ ~st.full => Len(st.tmp) < PATH_SIZE
  BY DEF Tidied, PathState
<1>2. PICK v \in Rooted : v = st.tmp
  BY <1>1
<1>3. Len(v) \in Nat /\ Len(v) > 0 /\ PATH_SIZE \in Nat
  BY Ext2Assumption DEF Rooted
<1>4. CASE st.full \/ comp = <<DOT>>
  BY <1>4 DEF Take
<1>5. CASE ~(st.full \/ comp = <<DOT>>) /\ comp = <<DOT, DOT>>
  <2>1. PICK m \in 1..Len(v) : Pop(v) = SubSeq(v, 1, m) /\ v[m] = SLASH /\ m <= Len(Trim(v))
    BY Popped
  <2>2. PICK w : w = Pop(v)
    OBVIOUS
  <2>3. w \in Rooted /\ Len(w) = m /\ Orderly(w)
    BY <1>1, <1>2, <2>1, <2>2, RootedPart, PopOrderly
  <2>4. Take(st, comp) = [st EXCEPT !.tmp = w]
    BY <1>2, <1>5, <2>2 DEF Take
  <2>5. PICK r : r = Take(st, comp)
    OBVIOUS
  <2>6. r \in PathState
    BY <1>1, <2>5, TakeType
  <2>7. r.tmp = w
    BY <1>1, <2>4, <2>5 DEF PathState
  <2>8. Len(w) < PATH_SIZE
    <3>1. Len(Trim(v)) \in Nat
      BY Trimmed DEF Rooted
    <3>2. QED
      BY <1>1, <1>2, <1>3, <2>1, <2>3, <3>1
  <2>9. Len(Trim(w)) <= Len(w)
    <3>1. Len(w) \in Nat
      BY <2>3
    <3>2. CASE EndsInSlash(w) /\ Len(w) > 1
      BY <2>3, <3>1, <3>2, Trimmed
    <3>3. CASE ~(EndsInSlash(w) /\ Len(w) > 1)
      BY <2>3, <3>1, <3>3, Trimmed
    <3>4. QED
      BY <3>2, <3>3
  <2>10. Len(Trim(w)) < PATH_SIZE
    <3>1. Len(Trim(w)) \in Nat /\ Len(w) \in Nat
      BY <2>3, Trimmed DEF Rooted
    <3>2. QED
      BY <1>3, <2>8, <2>9, <3>1
  <2>11. QED
    BY <2>3, <2>5, <2>6, <2>7, <2>8, <2>10 DEF Tidied
<1>6. CASE ~(st.full \/ comp = <<DOT>>) /\ comp # <<DOT, DOT>>
  <2>1. PICK t : t = Slashed(v)
    OBVIOUS
  <2>2. t \in Rooted /\ t[Len(t)] = SLASH /\ Orderly(t) /\ Trim(t) = Trim(v)
    BY <1>1, <1>2, <2>1, SlashedType, SlashedOrderly
  <2>3. Take(st, comp) = Push(v, comp)
    BY <1>2, <1>6 DEF Take
  <2>4. Len(t) \in Nat /\ Len(comp) \in Nat
    BY <2>2, PushedType DEF Rooted
  <2>5. CASE Len(t) + Len(comp) >= PATH_SIZE
    <3>1. PICK r : r = Take(st, comp)
      OBVIOUS
    <3>2. r = [tmp |-> t, full |-> TRUE]
      BY <2>1, <2>3, <2>5, <3>1, PushIs
    <3>3. r \in PathState /\ r.tmp = t /\ r.full = TRUE
      BY <2>2, <3>2 DEF PathState
    <3>4. QED
      BY <1>1, <1>2, <2>2, <3>1, <3>3 DEF Tidied
  <2>6. CASE ~(Len(t) + Len(comp) >= PATH_SIZE)
    <3>1. PICK w : w = t \o comp
      OBVIOUS
    <3>2. Len(t) + Len(comp) < PATH_SIZE
      BY <1>3, <2>4, <2>6
    <3>3. Orderly(w) /\ Trim(w) = w
      BY <1>6, <2>2, <3>1, <3>2, PushOrderly
    <3>4. w \in Rooted /\ Len(w) = Len(t) + Len(comp)
      BY <2>2, <3>1, PushedType
    <3>5. PICK r : r = Take(st, comp)
      OBVIOUS
    <3>6. r = [tmp |-> w, full |-> FALSE]
      BY <2>1, <2>3, <2>6, <3>1, <3>5, PushIs
    <3>7. r \in PathState /\ r.tmp = w
      BY <3>4, <3>6 DEF PathState
    <3>8. Len(w) < PATH_SIZE
      BY <3>2, <3>4
    <3>9. QED
      BY <3>3, <3>5, <3>7, <3>8 DEF Tidied
  <2>7. QED
    BY <2>5, <2>6
<1>7. QED
  BY <1>4, <1>5, <1>6

(* What vfs_normalize_path returns is in normal form, and fits its buffer. *)
LEMMA NormalForm ==
  ASSUME NEW p \in Seq(Nat), Len(p) < PATH_SIZE \/ p = <<>> \/ Head(p) = SLASH
  PROVE  /\ vfs_normalize_path(p) \in Seq(Nat)
         /\ Len(vfs_normalize_path(p)) < PATH_SIZE
         /\ vfs_normalize_path(vfs_normalize_path(p)) = vfs_normalize_path(p)
<1>1. ASSUME NEW u, Good(u), Len(u) < PATH_SIZE
      PROVE  u \in Seq(Nat) /\ vfs_normalize_path(u) = u
  <2>1. /\ u \in Seq(Nat) /\ Len(u) > 0 /\ u[1] = SLASH
        /\ Trim(u) = u /\ Taken(Tokens(u)) = [tmp |-> u, full |-> FALSE]
    BY <1>1 DEF Good, Rooted
  <2>2. u # <<>> /\ Head(u) = SLASH
    BY <2>1
  <2>3. vfs_normalize_path(u) = Trim(Taken(Tokens(u)).tmp)
    BY <2>2, NormalUnfolds
  <2>4. Taken(Tokens(u)).tmp = u
    BY <2>1
  <2>5. QED
    BY <2>1, <2>3, <2>4
<1>2. CASE p = <<>>
  <2>1. vfs_normalize_path(p) = <<SLASH>>
    BY <1>2 DEF vfs_normalize_path
  <2>2. Len(<<SLASH>>) = 1 /\ 1 < PATH_SIZE
    BY VfsAssumption
  <2>3. QED
    BY <1>1, <2>1, <2>2, RootIsGood
<1>3. CASE p # <<>> /\ Head(p) # SLASH
  BY <1>3 DEF vfs_normalize_path
<1>4. CASE p # <<>> /\ Head(p) = SLASH
  <2> DEFINE X == {st \in PathState : Tidied(st)}
  <2>1. AtRoot \in X
    BY RootIsGood DEF Tidied
  <2>2. Operates(TakeOp, X, Component)
    <3>1. ASSUME NEW st \in X, NEW comp \in Component PROVE TakeOp[<<st, comp>>] \in X
      <4>1. TakeOp[<<st, comp>>] = Take(st, comp)
        BY DEF TakeOp
      <4>2. Tidied(Take(st, comp)) /\ Take(st, comp) \in PathState
        BY TakeTidied, TakeType
      <4>3. QED
        BY <4>1, <4>2
    <3>2. QED
      BY <3>1 DEF Operates
  <2> HIDE DEF X
  <2>3. Tokens(p) \in Seq(Component)
    BY TokensType
  <2>4. FoldOf(TakeOp, AtRoot, Tokens(p)) \in X
    BY ONLY <2>1, <2>2, <2>3, FoldType
  <2>5. Tidied(Taken(Tokens(p)))
    BY <2>3, <2>4, TakenFold DEF X
  <2>6. PICK u : u = Trim(Taken(Tokens(p)).tmp)
    OBVIOUS
  <2>7. Good(u) /\ Len(u) < PATH_SIZE
    BY <2>5, <2>6 DEF Tidied, Orderly
  <2>8. vfs_normalize_path(p) = u
    BY <1>4, <2>6, NormalUnfolds
  <2>9. QED
    BY <1>1, <2>7, <2>8
<1>5. QED
  BY <1>2, <1>3, <1>4

-----------------------------------------------------------------------------
(* The two formats of vfs_resolve.                                         *)

LEMMA WorthOfNothing == ASSUME NEW base PROVE Worth(<<>>, base) = 0
<1> DEFINE Goes(f) == f = [t \in SUBSET {} |-> IF t = {} THEN 0
                            ELSE f[t \ {Max(t)}] * base + DigitValue(<<>>[Max(t)])]
<1>1. Worth(<<>>, base) = (CHOOSE f : Goes(f))[{}]
  <2>1. DOMAIN <<>> = {}
    OBVIOUS
  <2>2. QED
    BY <2>1 DEF Worth, FoldLeft, MapThenFoldSet
<1>2. Goes([t \in SUBSET {} |-> 0])
  OBVIOUS
<1>3. \A f : Goes(f) => f[{}] = 0
  OBVIOUS
<1> HIDE DEF Goes
<1>4. Goes(CHOOSE f : Goes(f))
  BY <1>2
<1>5. QED
  BY <1>1, <1>3, <1>4

(* The directive of a "%s", with its s in place i.                         *)
Percent_s(i) ==
  [left |-> FALSE, width |-> 0, ll |-> FALSE, conv |-> letter.s, next |-> i + 1]

(* %s is a directive: it ends at the s.                                    *)
LEMMA StringDirective ==
  ASSUME NEW format \in Seq(Nat), NEW i \in 1..Len(format), format[i] = letter.s
  PROVE  Directive(format, i) = Percent_s(i)
<1>1. PICK n \in Nat : n = Len(format)
  OBVIOUS
<1>2. letter.s = 115 /\ letter.l = 108 /\ MINUS = 45
  BY DEF letter, MINUS
<1>3. At(format, i) = 115
  BY <1>1, <1>2 DEF At
<1>4. After(format, i, kisdigit) = i
  <2> DEFINE S == {j \in i..(n + 1) : j > n \/ ~kisdigit(format[j])}
  <2>1. i \in S
    <3>1. i \in i..(n + 1)
      BY <1>1
    <3>2. ~kisdigit(format[i])
      BY ONLY <1>2, format[i] = letter.s DEF kisdigit
    <3>3. QED
      BY <3>1, <3>2
  <2>2. \A j \in S : i <= j /\ j \in Nat
    BY <1>1
  <2>3. After(format, i, kisdigit) = Min(S)
    BY <1>1 DEF After
  <2> HIDE DEF S
  <2>4. Min(S) \in S /\ \A j \in S : Min(S) <= j
    BY <2>1, <2>2 DEF Min
  <2>5. PICK m : m = Min(S)
    OBVIOUS
  <2>6. m \in Nat /\ i <= m /\ m <= i
    BY <2>1, <2>2, <2>4, <2>5
  <2>7. m = i
    BY <2>6
  <2>8. QED
    BY <2>3, <2>5, <2>7
<1>5. SubSeq(format, i, i - 1) = <<>>
  BY <1>1, SubSeqEmpty
<1>6. (At(format, i) = MINUS) = FALSE /\ ~(At(format, i) = letter.l) /\ At(format, i) = letter.s
  BY <1>2, <1>3
<1>7. Worth(<<>>, 10) = 0
  BY WorthOfNothing
<1>8. (IF At(format, i) = MINUS THEN i + 1 ELSE i) = i
  BY ONLY <1>6
<1>9. Directive(format, i)
        = LET ll_at == After(format, i, kisdigit)
              ll == At(format, ll_at) = letter.l /\ At(format, ll_at + 1) = letter.l
              conv_at == IF ll THEN ll_at + 2 ELSE ll_at
          IN  [left |-> FALSE, width |-> Worth(SubSeq(format, i, ll_at - 1), 10),
               ll |-> ll, conv |-> At(format, conv_at), next |-> conv_at + 1]
  BY ONLY <1>6, <1>8, Zenon DEF Directive
<1>10. QED
  BY ONLY <1>4, <1>5, <1>6, <1>7, <1>9 DEF Percent_s

(* A sequence with one more element in front.                              *)
LEMMA OneMore ==
  ASSUME NEW C, NEW a \in C, NEW t \in Seq(C)
  PROVE  /\ <<a>> \o t \in Seq(C) /\ Len(<<a>> \o t) = Len(t) + 1
         /\ (<<a>> \o t)[1] = a
         /\ \A i \in 1..Len(t) : (<<a>> \o t)[i + 1] = t[i]
<1>1. PICK one : one = <<a>>
  OBVIOUS
<1>2. one \in Seq(C) /\ Len(one) = 1 /\ one[1] = a
  BY <1>1
<1>3. PICK n \in Nat : n = Len(t)
  OBVIOUS
<1>4. /\ one \o t \in Seq(C) /\ Len(one \o t) = Len(one) + Len(t)
      /\ \A i \in 1..(Len(one) + Len(t)) :
           (one \o t)[i] = IF i <= Len(one) THEN one[i] ELSE t[i - Len(one)]
  BY ONLY <1>2, t \in Seq(C), ConcatProperties
<1>5. (one \o t)[1] = a
  BY <1>2, <1>3, <1>4
<1>6. ASSUME NEW i \in 1..n PROVE (one \o t)[i + 1] = t[i]
  <2>1. i + 1 \in 1..(Len(one) + Len(t)) /\ ~(i + 1 <= Len(one)) /\ (i + 1) - Len(one) = i
    BY <1>2, <1>3
  <2>2. QED
    BY <1>4, <2>1
<1>7. QED
  BY <1>1, <1>2, <1>3, <1>4, <1>5, <1>6

(* The percents of a format are those of its "%s".                         *)
OnlyStrings(format) ==
  \A i \in 1..Len(format) :
    format[i] = PERCENT => i < Len(format) /\ format[i + 1] = letter.s

(* What there is from place i on, given f of the places behind.            *)
StringPiece(f, format, i) ==
  IF i > Len(format) THEN <<>>
  ELSE IF format[i] # PERCENT THEN <<Literal(format[i])>> \o f[i + 1]
  ELSE <<Percent_s(i + 1)>> \o f[i + 2]

(* What one step along a format makes of its pieces.                       *)
LEMMA PieceIs ==
  ASSUME NEW format \in Seq(Nat), OnlyStrings(format), NEW f, NEW i \in 1..(Len(format) + 1)
  PROVE  PieceAt(f, format, i) = StringPiece(f, format, i)
<1>1. PICK n \in Nat : n = Len(format)
  OBVIOUS
<1>2. CASE i > n
  BY <1>1, <1>2 DEF PieceAt, StringPiece
<1>3. CASE i <= n /\ format[i] # PERCENT
  BY <1>1, <1>3 DEF PieceAt, StringPiece
<1>4. CASE i <= n /\ format[i] = PERCENT
  <2>1. i < Len(format) /\ format[i + 1] = letter.s
    BY <1>1, <1>4 DEF OnlyStrings
  <2>2. i + 1 \in 1..Len(format) /\ ~(i > Len(format))
    BY <1>1, <2>1
  <2>3. Directive(format, i + 1) = Percent_s(i + 1)
    BY <2>1, <2>2, StringDirective
  <2>4. Percent_s(i + 1).next = (i + 1) + 1
    BY DEF Percent_s
  <2>5. (i + 1) + 1 = i + 2
    OBVIOUS
  <2>6. PieceAt(f, format, i) = <<Directive(format, i + 1)>> \o f[Directive(format, i + 1).next]
    BY <1>4, <2>2 DEF PieceAt
  <2>7. StringPiece(f, format, i) = <<Percent_s(i + 1)>> \o f[i + 2]
    BY <1>4, <2>2 DEF StringPiece
  <2>8. QED
    BY <2>3, <2>4, <2>5, <2>6, <2>7
<1>5. QED
  BY <1>1, <1>2, <1>3, <1>4

(* The recursive function of Pieces exists: it goes on to places behind.   *)
Behind(f, format, k) ==
  \A i \in 1..(Len(format) + 1) :
    i + k > Len(format) => f[i] = StringPiece(f, format, i)

(* There is a chain of pieces for every format.                            *)
LEMMA PiecesExist ==
  ASSUME NEW format \in Seq(Nat), OnlyStrings(format)
  PROVE  \E f : PiecesFrom(f, format)
<1>1. PICK n \in Nat : n = Len(format)
  OBVIOUS
<1> DEFINE T == {k \in Nat : \E f : DOMAIN f = 1..(n + 1) /\ f = [i \in 1..(n + 1) |-> f[i]]
                                    /\ Behind(f, format, k)}
<1>2. 0 \in T
  <2> DEFINE f == [i \in 1..(n + 1) |-> <<>>]
  <2>1. ASSUME NEW i \in 1..(n + 1), i + 0 > n PROVE f[i] = StringPiece(f, format, i)
    BY <1>1, <2>1 DEF StringPiece
  <2>2. Behind(f, format, 0)
    <3> HIDE DEF f
    <3>1. QED
      BY <1>1, <2>1 DEF Behind
  <2>3. DOMAIN f = 1..(n + 1) /\ f = [i \in 1..(n + 1) |-> f[i]]
    OBVIOUS
  <2> HIDE DEF f
  <2>4. QED
    BY <2>2, <2>3
<1>3. ASSUME NEW k \in Nat, k \in T PROVE k + 1 \in T
  <2>1. PICK f : Behind(f, format, k)
    BY <1>3
  <2> DEFINE h == [i \in 1..(n + 1) |-> IF i + k > n THEN f[i] ELSE StringPiece(f, format, i)]
  <2>2. \A i \in 1..(n + 1) : h[i] = IF i + k > n THEN f[i] ELSE StringPiece(f, format, i)
    OBVIOUS
  <2>3. DOMAIN h = 1..(n + 1) /\ h = [i \in 1..(n + 1) |-> h[i]]
    OBVIOUS
  <2> HIDE DEF h
  <2>4. ASSUME NEW i \in 1..(n + 1), i + (k + 1) > n
        PROVE  StringPiece(h, format, i) = StringPiece(f, format, i)
    <3>1. CASE i > n
      BY <1>1, <3>1 DEF StringPiece
    <3>2. CASE i <= n /\ format[i] # PERCENT
      <4>1. i + 1 \in 1..(n + 1) /\ (i + 1) + k > n
        BY <2>4, <3>2
      <4>2. h[i + 1] = f[i + 1]
        BY <2>2, <4>1
      <4>3. QED
        BY <1>1, <3>2, <4>2 DEF StringPiece
    <3>3. CASE i <= n /\ format[i] = PERCENT
      <4>1. i < n
        BY <1>1, <3>3 DEF OnlyStrings
      <4>2. i + 2 \in 1..(n + 1) /\ (i + 2) + k > n
        BY <2>4, <4>1
      <4>3. h[i + 2] = f[i + 2]
        BY <2>2, <4>2
      <4>4. QED
        BY <1>1, <3>3, <4>3 DEF StringPiece
    <3>4. QED
      BY <3>1, <3>2, <3>3
  <2>5. ASSUME NEW i \in 1..(n + 1), i + (k + 1) > n
        PROVE  h[i] = StringPiece(f, format, i)
    <3>1. i + k > n => f[i] = StringPiece(f, format, i)
      BY <1>1, <2>1 DEF Behind
    <3>2. QED
      BY <2>2, <3>1
  <2>6. Behind(h, format, k + 1)
    BY <1>1, <2>4, <2>5 DEF Behind
  <2>7. QED
    BY <2>3, <2>6
<1> HIDE DEF T
<1>4. n \in T
  <2>1. Nat \subseteq T
    BY ONLY <1>2, <1>3, Successors
  <2>2. QED
    BY <2>1
<1>5. PICK f : f = [i \in 1..(n + 1) |-> f[i]] /\ Behind(f, format, n)
  BY <1>4 DEF T
<1>6. ASSUME NEW i \in 1..(n + 1) PROVE f[i] = PieceAt(f, format, i)
  <2>1. f[i] = StringPiece(f, format, i)
    BY <1>1, <1>5 DEF Behind
  <2>2. QED
    BY <1>1, <2>1, PieceIs
<1>7. f = [i \in 1..(n + 1) |-> PieceAt(f, format, i)]
  BY <1>5, <1>6
<1>8. QED
  BY <1>1, <1>7 DEF PiecesFrom

(* The pieces of a format are its fold.                                    *)
LEMMA PiecesAre ==
  ASSUME NEW format \in Seq(Nat), OnlyStrings(format)
  PROVE  \E g : /\ Pieces(format, FALSE) = g[1]
                /\ \A i \in 1..(Len(format) + 1) : g[i] = StringPiece(g, format, i)
<1>1. PICK g : g = CHOOSE h : PiecesFrom(h, format)
  OBVIOUS
<1>2. PiecesFrom(g, format)
  BY <1>1, PiecesExist
<1>3. Pieces(format, FALSE) = g[1]
  BY <1>1, PiecesUnfold
<1>4. \A i \in 1..(Len(format) + 1) : g[i] = StringPiece(g, format, i)
  BY <1>2, PieceIs DEF PiecesFrom
<1>5. QED
  BY <1>3, <1>4

(* The format of a path below the root: /%s.                               *)
RootFormat == <<SLASH>> \o PercentS
(* The format of a path below any other: %s/%s.                            *)
JoinFormat == PercentS \o <<SLASH>> \o PercentS

(* The formats of vfs.c, character by character.                           *)
LEMMA FormatsAre ==
  /\ RootFormat \in Seq(Nat) /\ Len(RootFormat) = 3
  /\ RootFormat[1] = SLASH /\ RootFormat[2] = PERCENT /\ RootFormat[3] = letter.s
  /\ JoinFormat \in Seq(Nat) /\ Len(JoinFormat) = 5
  /\ JoinFormat[1] = PERCENT /\ JoinFormat[2] = letter.s /\ JoinFormat[3] = SLASH
  /\ JoinFormat[4] = PERCENT /\ JoinFormat[5] = letter.s
<1>1. PICK p, s, one : p = PercentS /\ s = letter.s /\ one = <<SLASH>>
  OBVIOUS
<1>2. PERCENT \in Nat /\ s \in Nat /\ SLASH \in Nat
  BY <1>1 DEF PERCENT, letter, SLASH
<1>3. /\ p \in Seq(Nat) /\ Len(p) = 2 /\ p[1] = PERCENT /\ p[2] = s
      /\ one \in Seq(Nat) /\ Len(one) = 1 /\ one[1] = SLASH
  BY <1>1, <1>2 DEF PercentS
<1>4. /\ one \o p \in Seq(Nat) /\ Len(one \o p) = 3
      /\ (one \o p)[1] = SLASH /\ (one \o p)[2] = PERCENT /\ (one \o p)[3] = s
  <2>1. /\ one \o p \in Seq(Nat) /\ Len(one \o p) = Len(one) + Len(p)
        /\ \A i \in 1..(Len(one) + Len(p)) :
             (one \o p)[i] = IF i <= Len(one) THEN one[i] ELSE p[i - Len(one)]
    BY ONLY <1>3, ConcatProperties
  <2>2. QED
    BY <1>3, <2>1
<1>5. PICK q : q = p \o one
  OBVIOUS
<1>6. q \in Seq(Nat) /\ Len(q) = 3 /\ q[1] = PERCENT /\ q[2] = s /\ q[3] = SLASH
  <2>1. /\ q \in Seq(Nat) /\ Len(q) = Len(p) + Len(one)
        /\ \A i \in 1..(Len(p) + Len(one)) :
             q[i] = IF i <= Len(p) THEN p[i] ELSE one[i - Len(p)]
    BY ONLY <1>3, <1>5, ConcatProperties
  <2>2. QED
    BY <1>3, <2>1
<1>7. /\ q \o p \in Seq(Nat) /\ Len(q \o p) = 5
      /\ (q \o p)[1] = PERCENT /\ (q \o p)[2] = s /\ (q \o p)[3] = SLASH
      /\ (q \o p)[4] = PERCENT /\ (q \o p)[5] = s
  <2>1. /\ q \o p \in Seq(Nat) /\ Len(q \o p) = Len(q) + Len(p)
        /\ \A i \in 1..(Len(q) + Len(p)) :
             (q \o p)[i] = IF i <= Len(q) THEN q[i] ELSE p[i - Len(q)]
    BY ONLY <1>3, <1>6, ConcatProperties
  <2>2. Len(q \o p) = 5 /\ \A i \in 1..5 : (q \o p)[i] = IF i <= 3 THEN q[i] ELSE p[i - 3]
    <3>1. Len(q) = 3 /\ Len(p) = 2 /\ 1..(3 + 2) = 1..5
      BY ONLY <1>3, <1>6
    <3>2. QED
      BY ONLY <2>1, <3>1
  <2>3. (q \o p)[1] = q[1] /\ (q \o p)[2] = q[2] /\ (q \o p)[3] = q[3]
    BY ONLY <2>2
  <2>4. (q \o p)[4] = p[1] /\ (q \o p)[5] = p[2]
    BY ONLY <2>2
  <2>5. QED
    BY ONLY <1>3, <1>6, <2>1, <2>2, <2>3, <2>4
<1>8. RootFormat = one \o p /\ JoinFormat = q \o p
  BY <1>1, <1>5 DEF RootFormat, JoinFormat
<1>9. QED
  BY ONLY <1>1, <1>4, <1>7, <1>8

(* The piece of a slash.                                                   *)
Slash == Literal(SLASH)

(* The pieces of /%s: a slash and one argument.                            *)
LEMMA RootPieces ==
  LET pieces == Pieces(RootFormat, FALSE)
  IN  /\ DOMAIN pieces = 1..2
      /\ pieces[1] = Slash /\ pieces[2] = Percent_s(3)
<1>1. PICK format : format = RootFormat
  OBVIOUS
<1>2. /\ format \in Seq(Nat) /\ Len(format) = 3
      /\ format[1] = 47 /\ format[2] = 37 /\ format[3] = 115
      /\ PERCENT = 37 /\ letter.s = 115 /\ SLASH = 47
  BY <1>1, FormatsAre DEF PERCENT, letter, SLASH
<1>3. OnlyStrings(format)
  BY <1>2 DEF OnlyStrings
<1>4. PICK g : /\ Pieces(format, FALSE) = g[1]
               /\ \A i \in 1..(Len(format) + 1) : g[i] = StringPiece(g, format, i)
  BY <1>2, <1>3, PiecesAre
<1>5. g[4] = <<>>
  BY <1>2, <1>4 DEF StringPiece
<1>6. g[2] = <<Percent_s(3)>> \o g[4]
  BY <1>2, <1>4 DEF StringPiece
<1>7. g[1] = <<Literal(format[1])>> \o g[2]
  <2>1. g[1] = StringPiece(g, format, 1) /\ ~(1 > Len(format)) /\ format[1] # PERCENT
    BY <1>2, <1>4
  <2>2. 1 + 1 = 2
    OBVIOUS
  <2>3. QED
    BY ONLY <2>1, <2>2 DEF StringPiece
<1>8. PICK a, b, C : a = Slash /\ b = Percent_s(3) /\ C = {Slash, Percent_s(3)}
  OBVIOUS
<1>9. <<>> \in Seq(C) /\ Len(<<>>) = 0 /\ a \in C /\ b \in C
  BY <1>8
<1>10. /\ <<b>> \o <<>> \in Seq(C) /\ Len(<<b>> \o <<>>) = Len(<<>>) + 1
       /\ (<<b>> \o <<>>)[1] = b
  BY ONLY <1>9, OneMore
<1>11. PICK t : t = <<b>> \o <<>>
  OBVIOUS
<1>12. t \in Seq(C) /\ Len(t) = 1 /\ t[1] = b
  BY ONLY <1>9, <1>10, <1>11
<1>13. /\ <<a>> \o t \in Seq(C) /\ Len(<<a>> \o t) = Len(t) + 1
       /\ (<<a>> \o t)[1] = a /\ \A i \in 1..Len(t) : (<<a>> \o t)[i + 1] = t[i]
  <2>1. a \in C /\ t \in Seq(C)
    BY <1>9, <1>12
  <2>2. QED
    BY ONLY <2>1, OneMore
<1>14. PICK u : u = <<a>> \o t
  OBVIOUS
<1>15. u \in Seq(C) /\ Len(u) = 2 /\ u[1] = a /\ u[2] = b
  <2>1. u[1 + 1] = t[1]
    BY <1>12, <1>13, <1>14
  <2>2. QED
    BY <1>12, <1>13, <1>14, <2>1
<1>16. Pieces(RootFormat, FALSE) = u
  <2>1. Literal(format[1]) = a
    BY <1>2, <1>8 DEF Slash
  <2>2. QED
    BY ONLY <1>1, <1>4, <1>5, <1>6, <1>7, <1>8, <1>11, <1>14, <2>1
<1>17. DOMAIN u = 1..2
  BY <1>15
<1>18. QED
  BY ONLY <1>8, <1>15, <1>16, <1>17

(* The pieces of %s/%s: an argument, a slash, an argument.                 *)
LEMMA JoinPieces ==
  LET pieces == Pieces(JoinFormat, FALSE)
  IN  /\ DOMAIN pieces = 1..3
      /\ pieces[1] = Percent_s(2) /\ pieces[2] = Slash /\ pieces[3] = Percent_s(5)
<1>1. PICK format : format = JoinFormat
  OBVIOUS
<1>2. /\ format \in Seq(Nat) /\ Len(format) = 5
      /\ format[1] = 37 /\ format[2] = 115 /\ format[3] = 47 /\ format[4] = 37
      /\ format[5] = 115
      /\ PERCENT = 37 /\ letter.s = 115 /\ SLASH = 47
  BY <1>1, FormatsAre DEF PERCENT, letter, SLASH
<1>3. OnlyStrings(format)
  BY <1>2 DEF OnlyStrings
<1>4. PICK g : /\ Pieces(format, FALSE) = g[1]
               /\ \A i \in 1..(Len(format) + 1) : g[i] = StringPiece(g, format, i)
  BY <1>2, <1>3, PiecesAre
<1>5. g[6] = <<>>
  BY <1>2, <1>4 DEF StringPiece
<1>6. g[4] = <<Percent_s(5)>> \o g[6]
  BY <1>2, <1>4 DEF StringPiece
<1>7. g[3] = <<Literal(format[3])>> \o g[4]
  <2>1. g[3] = StringPiece(g, format, 3) /\ ~(3 > Len(format)) /\ format[3] # PERCENT
    BY <1>2, <1>4
  <2>2. 3 + 1 = 4
    OBVIOUS
  <2>3. QED
    BY ONLY <2>1, <2>2 DEF StringPiece
<1>8. g[1] = <<Percent_s(2)>> \o g[3]
  BY <1>2, <1>4 DEF StringPiece
<1>9. PICK a, b, c, C : /\ a = Percent_s(2) /\ b = Slash /\ c = Percent_s(5)
                        /\ C = {Percent_s(2), Slash, Percent_s(5)}
  OBVIOUS
<1>10. <<>> \in Seq(C) /\ Len(<<>>) = 0 /\ a \in C /\ b \in C /\ c \in C
  BY <1>9
<1>11. PICK t : t = <<c>> \o <<>>
  OBVIOUS
<1>12. t \in Seq(C) /\ Len(t) = 1 /\ t[1] = c
  <2>1. /\ <<c>> \o <<>> \in Seq(C) /\ Len(<<c>> \o <<>>) = Len(<<>>) + 1
        /\ (<<c>> \o <<>>)[1] = c
    BY ONLY <1>10, OneMore
  <2>2. QED
    BY ONLY <1>10, <1>11, <2>1
<1>13. PICK u : u = <<b>> \o t
  OBVIOUS
<1>14. u \in Seq(C) /\ Len(u) = 2 /\ u[1] = b /\ u[2] = c
  <2>1. /\ u \in Seq(C) /\ Len(u) = Len(t) + 1
        /\ u[1] = b /\ \A i \in 1..Len(t) : u[i + 1] = t[i]
    <3>1. b \in C /\ t \in Seq(C)
      BY <1>10, <1>12
    <3>2. QED
      BY ONLY <1>13, <3>1, OneMore
  <2>2. u[1 + 1] = t[1]
    BY <1>12, <2>1
  <2>3. QED
    BY <1>12, <2>1, <2>2
<1>15. PICK v : v = <<a>> \o u
  OBVIOUS
<1>16. v \in Seq(C) /\ Len(v) = 3 /\ v[1] = a /\ v[2] = b /\ v[3] = c
  <2>1. /\ v \in Seq(C) /\ Len(v) = Len(u) + 1
        /\ v[1] = a /\ \A i \in 1..Len(u) : v[i + 1] = u[i]
    <3>1. a \in C /\ u \in Seq(C)
      BY <1>10, <1>14
    <3>2. QED
      BY ONLY <1>15, <3>1, OneMore
  <2>2. v[1 + 1] = u[1] /\ v[2 + 1] = u[2]
    BY <1>14, <2>1
  <2>3. QED
    BY <1>14, <2>1, <2>2
<1>17. Pieces(JoinFormat, FALSE) = v
  <2>1. Literal(format[3]) = b
    BY <1>2, <1>9 DEF Slash
  <2>2. QED
    BY ONLY <1>1, <1>4, <1>5, <1>6, <1>7, <1>8, <1>9, <1>11, <1>13, <1>15, <2>1
<1>18. DOMAIN v = 1..3
  BY <1>16
<1>19. QED
  BY ONLY <1>9, <1>16, <1>17, <1>18

(* A text in a buffer of PATH_SIZE bytes, with its null.                   *)
LEMMA FirstOfType ==
  ASSUME NEW text \in Seq(Nat), NEW room \in Nat
  PROVE  FirstOf(text, room) \in Seq(Nat) /\ Len(FirstOf(text, room)) <= room
<1>1. PICK n \in Nat : n = Len(text)
  OBVIOUS
<1>2. PICK m : m = Min({room, n})
  OBVIOUS
<1>3. m \in Nat /\ m <= n /\ m <= room
  <2>1. \E k \in {room, n} : \A y \in {room, n} : k <= y
    BY <1>1
  <2>2. m \in {room, n} /\ m <= room /\ m <= n
    BY <1>2, <2>1 DEF Min
  <2>3. QED
    BY <2>2
<1>4. SubSeq(text, 1, m) \in Seq(Nat) /\ Len(SubSeq(text, 1, m)) = m
  BY <1>1, <1>3
<1>5. QED
  BY <1>1, <1>2, <1>3, <1>4 DEF FirstOf

(* What is stored of a piece of these formats.                             *)
LEMMA SnFieldType ==
  ASSUME NEW arg
  PROVE  /\ SnField(Slash, arg) \in Seq(Nat)
         /\ arg \in Seq(Nat) => \A i : SnField(Percent_s(i), arg) \in Seq(Nat)
<1>1. /\ letter.s = 115 /\ NUL = 0 /\ SLASH = 47 /\ SPACE = 32
      /\ letter.c = 99 /\ letter.d = 100 /\ letter.u = 117 /\ letter.x = 120
      /\ letter.X = 88 /\ PERCENT = 37
  BY DEF letter, NUL, SLASH, SPACE, PERCENT
<1>2. Slash.conv = NUL /\ Slash.text = <<SLASH>>
  BY DEF Slash, Literal
<1>3. SnField(Slash, arg) \in Seq(Nat)
  BY <1>1, <1>2 DEF SnField
<1>4. ASSUME arg \in Seq(Nat), NEW i PROVE SnField(Percent_s(i), arg) \in Seq(Nat)
  <2>1. PICK d : d = Percent_s(i)
    OBVIOUS
  <2>2. d.conv = 115 /\ d.width = 0
    BY <1>1, <2>1 DEF Percent_s
  <2>3. TempText(d, arg) = FirstOf(arg, TEMP - 1)
    BY <1>1, <2>2 DEF TempText
  <2>4. FirstOf(arg, TEMP - 1) \in Seq(Nat)
    BY <1>4, FirstOfType, FormatAssumption
  <2>5. Padded(FirstOf(arg, TEMP - 1), 0, d.left) \in Seq(Nat)
    <3>1. SPACE \in Nat
      BY <1>1
    <3>2. QED
      BY <2>4, <3>1, PaddedType
  <2>6. SnField(d, arg) = Padded(TempText(d, arg), d.width, d.left)
    BY <1>1, <2>2 DEF SnField
  <2>7. QED
    BY <2>1, <2>2, <2>3, <2>5, <2>6
<1>5. QED
  BY <1>3, <1>4

(* The letters of a directive that take an argument.                       *)
Taking == Conversions \cup {letter.X}

(* %s takes an argument, and a null takes none.                            *)
LEMMA StringsTake == letter.s \in Taking /\ NUL \notin Taking
BY DEF Taking, Conversions, letter, NUL

(* The pieces that take an argument, up to place n.                        *)
TakenBy(pieces, n) == {i \in 1..n : pieces[i].conv \in Taking}

(* What each piece of a format is stored as, put together.                 *)
LEMMA StoredText ==
  ASSUME NEW format, NEW args, NEW pieces, pieces = Pieces(format, FALSE),
         NEW n \in Nat, DOMAIN pieces = 1..n,
         \A i \in 1..n :
           \/ pieces[i] = Slash
           \/ /\ \E k : pieces[i] = Percent_s(k)
              /\ args[Cardinality(TakenBy(pieces, i))] \in Seq(Nat)
  PROVE  SnText(format, args) \in Seq(Nat)
<1>1. PICK all : all = WithArguments(pieces, args, Taking)
  OBVIOUS
<1>2. all = [i \in 1..n |->
               [piece |-> pieces[i],
                arg |-> IF pieces[i].conv \in Taking
                        THEN args[Cardinality(TakenBy(pieces, i))] ELSE 0]]
  BY <1>1 DEF WithArguments, TakenBy
<1>3. ASSUME NEW i \in 1..n PROVE SnField(all[i].piece, all[i].arg) \in Seq(Nat)
  <2>1. PICK arg : arg = all[i].arg
    OBVIOUS
  <2>2. all[i].piece = pieces[i]
    BY <1>2
  <2>3. CASE pieces[i] = Slash
    BY <2>1, <2>2, <2>3, SnFieldType
  <2>4. CASE /\ \E k : pieces[i] = Percent_s(k)
             /\ args[Cardinality(TakenBy(pieces, i))] \in Seq(Nat)
    <3>1. PICK k : pieces[i] = Percent_s(k)
      BY <2>4
    <3>2. pieces[i].conv \in Taking
      <4>1. Percent_s(k).conv = letter.s
        BY DEF Percent_s
      <4>2. QED
        BY <3>1, <4>1, StringsTake
    <3>3. arg \in Seq(Nat)
      BY <1>2, <2>1, <2>4, <3>2
    <3>4. QED
      BY <2>1, <2>2, <3>1, <3>3, SnFieldType
  <2>5. QED
    BY <2>3, <2>4
<1>4. SnFields(all) \in Seq(Seq(Nat))
  <2>1. DOMAIN all = 1..n
    BY <1>2
  <2>2. SnFields(all) \in [1..n -> Seq(Nat)]
    BY <1>3, <2>1 DEF SnFields
  <2>3. QED
    BY <2>2
<1>5. FlattenSeq(SnFields(all)) \in Seq(Nat)
  BY <1>4, FlattenType
<1>6. SnText(format, args) = FlattenSeq(SnFields(all))
  BY <1>1 DEF SnText, Joining, Taking
<1>7. QED
  BY <1>5, <1>6

(* ksnprintf of /%s and a name is a slash and the name.                    *)
LEMMA RootText ==
  ASSUME NEW arg \in Seq(Nat)
  PROVE  SnText(RootFormat, <<arg>>) \in Seq(Nat)
<1>1. PICK pieces : pieces = Pieces(RootFormat, FALSE)
  OBVIOUS
<1>2. DOMAIN pieces = 1..2 /\ pieces[1] = Slash /\ pieces[2] = Percent_s(3)
  BY <1>1, RootPieces
<1>3. pieces[1].conv \notin Taking /\ pieces[2].conv \in Taking
  BY <1>2, StringsTake DEF Slash, Literal, Percent_s
<1>4. TakenBy(pieces, 2) = {2}
  BY <1>3 DEF TakenBy
<1>5. Cardinality(TakenBy(pieces, 2)) = 1
  BY <1>4, FS_Singleton
<1>6. PICK args : args = <<arg>>
  OBVIOUS
<1>7. \A i \in 1..2 :
        \/ pieces[i] = Slash
        \/ /\ \E k : pieces[i] = Percent_s(k)
           /\ args[Cardinality(TakenBy(pieces, i))] \in Seq(Nat)
  <2>1. args[Cardinality(TakenBy(pieces, 2))] \in Seq(Nat)
    BY <1>5, <1>6
  <2>2. QED
    BY <1>2, <2>1
<1>8. QED
  BY <1>1, <1>2, <1>6, <1>7, StoredText

(* ksnprintf of %s/%s is the two strings with a slash between them.        *)
LEMMA JoinText ==
  ASSUME NEW a \in Seq(Nat), NEW b \in Seq(Nat)
  PROVE  SnText(JoinFormat, <<a, b>>) \in Seq(Nat)
<1>1. PICK pieces : pieces = Pieces(JoinFormat, FALSE)
  OBVIOUS
<1>2. /\ DOMAIN pieces = 1..3 /\ pieces[1] = Percent_s(2)
      /\ pieces[2] = Slash /\ pieces[3] = Percent_s(5)
  BY <1>1, JoinPieces
<1>3. pieces[1].conv \in Taking /\ pieces[2].conv \notin Taking /\ pieces[3].conv \in Taking
  BY <1>2, StringsTake DEF Slash, Literal, Percent_s
<1>4. TakenBy(pieces, 1) = {1} /\ TakenBy(pieces, 3) = {1} \cup {3}
  BY <1>3 DEF TakenBy
<1>5. Cardinality(TakenBy(pieces, 1)) = 1 /\ Cardinality(TakenBy(pieces, 3)) = 2
  <2>1. PICK one : one = {1}
    OBVIOUS
  <2>2. IsFiniteSet(one) /\ Cardinality(one) = 1
    BY <2>1, FS_Singleton
  <2>3. 3 \notin one
    BY <2>1
  <2>4. Cardinality(one \cup {3}) = Cardinality(one) + 1
    BY <2>2, <2>3, FS_AddElement
  <2>5. TakenBy(pieces, 1) = one /\ TakenBy(pieces, 3) = one \cup {3}
    BY <1>4, <2>1
  <2>6. Cardinality(one) + 1 = 2
    BY <2>2
  <2>7. QED
    BY ONLY <2>2, <2>4, <2>5, <2>6
<1>6. PICK args : args = <<a, b>>
  OBVIOUS
<1>7. \A i \in 1..3 :
        \/ pieces[i] = Slash
        \/ /\ \E k : pieces[i] = Percent_s(k)
           /\ args[Cardinality(TakenBy(pieces, i))] \in Seq(Nat)
  <2>1. /\ args[Cardinality(TakenBy(pieces, 1))] \in Seq(Nat)
        /\ args[Cardinality(TakenBy(pieces, 3))] \in Seq(Nat)
    BY <1>5, <1>6
  <2>2. QED
    BY <1>2, <2>1
<1>8. QED
  BY <1>1, <1>2, <1>6, <1>7, StoredText

(* A path in normal form that fits its buffer.                             *)
Normal(p) == p \in Seq(Nat) /\ Len(p) < PATH_SIZE /\ vfs_normalize_path(p) = p

(* Whatever is typed, vfs_resolve gives such a path.                       *)
LEMMA ResolvesNormal ==
  ASSUME cwd_path \in Seq(Nat), Len(cwd_path) < PATH_SIZE, NEW path \in Seq(Nat)
  PROVE  Normal(vfs_resolve(path))
<1>1. PATH_SIZE \in Nat /\ PATH_SIZE - 1 \in Nat
  BY Ext2Assumption, VfsAssumption
<1>2. ASSUME NEW text \in Seq(Nat)
      PROVE  /\ FirstOf(text, PATH_SIZE - 1) \in Seq(Nat)
             /\ Len(FirstOf(text, PATH_SIZE - 1)) < PATH_SIZE
  <2>1. /\ FirstOf(text, PATH_SIZE - 1) \in Seq(Nat)
        /\ Len(FirstOf(text, PATH_SIZE - 1)) <= PATH_SIZE - 1
    BY <1>1, FirstOfType
  <2>2. PICK k \in Nat : k = Len(FirstOf(text, PATH_SIZE - 1))
    BY <2>1, LenProperties
  <2>3. QED
    BY <1>1, <2>1, <2>2
<1>3. PICK p : p = Joined(path)
  OBVIOUS
<1>4. p \in Seq(Nat) /\ (Len(p) < PATH_SIZE \/ p = <<>> \/ Head(p) = SLASH)
  <2>1. CASE path = <<>>
    BY <1>3, <2>1 DEF Joined
  <2>2. CASE path # <<>> /\ Head(path) = SLASH
    BY <1>3, <2>2 DEF Joined
  <2>3. CASE path # <<>> /\ Head(path) # SLASH /\ cwd_path = <<SLASH>>
    <3>1. p = ksnprintf(PATH_SIZE, RootFormat, <<path>>)
      BY <1>3, <2>3 DEF Joined, RootFormat
    <3>2. p = FirstOf(SnText(RootFormat, <<path>>), PATH_SIZE - 1)
      BY <3>1 DEF ksnprintf
    <3>3. QED
      BY <1>2, <3>2, RootText
  <2>4. CASE path # <<>> /\ Head(path) # SLASH /\ cwd_path # <<SLASH>>
    <3>1. p = ksnprintf(PATH_SIZE, JoinFormat, <<cwd_path, path>>)
      BY <1>3, <2>4 DEF Joined, JoinFormat
    <3>2. p = FirstOf(SnText(JoinFormat, <<cwd_path, path>>), PATH_SIZE - 1)
      BY <3>1 DEF ksnprintf
    <3>3. QED
      BY <1>2, <3>2, JoinText
  <2>5. QED
    BY <2>1, <2>2, <2>3, <2>4
<1>5. vfs_resolve(path) = vfs_normalize_path(p)
  BY <1>3 DEF vfs_resolve
<1>6. QED
  BY <1>4, <1>5, NormalForm DEF Normal

-----------------------------------------------------------------------------
(* Inodes.                                                                 *)

(* The units of an inode, and what a read of it gives.                     *)
UnitsOf(n) == [k \in 1..INODE |-> <<n, k - 1>>]
(* A read that succeeds.                                                   *)
FoundInode(n) == [rc |-> EXT2_OK, copy |-> UnitsOf(n)]

(* A unit of a table is one of an inode of its group.                      *)
LEMMA UnitIs ==
  ASSUME NEW group \in Nat, NEW a \in Nat, NEW j \in 0..(inode_size - 1)
  PROVE  TableUnit(group, a * inode_size + j)
           = <<group * inodes_per_group + a + 1, j>>
<1>1. inode_size \in Nat \ {0} /\ inodes_per_group \in Nat \ {0}
  BY Ext2Assumption
<1>2. (a * inode_size + j) \div inode_size = a /\ (a * inode_size + j) % inode_size = j
  BY <1>1, QuotientIs
<1>3. QED
  BY ONLY <1>2 DEF TableUnit

(* The bytes of an inode are in its group where kread_inode looks for them.*)
LEMMA CopyIs ==
  ASSUME NEW n \in DOMAIN Inodes, NEW fault
  PROVE  LET read == CopyInode((n - 1) \div inodes_per_group,
                               ((n - 1) % inodes_per_group) * inode_size, fault)
         IN  /\ read \in {Failed(EXT2_ERR_IO), FoundInode(n)}
             /\ fault.table = {} => read = FoundInode(n)
<1>1. /\ inode_size \in Nat \ {0} /\ inodes_per_group \in Nat \ {0}
      /\ g_block_size \in Nat \ {0} /\ INODE \in Nat \ {0} /\ INODE <= inode_size
  BY Ext2Assumption
<1>2. PICK m : m = n - 1
  OBVIOUS
<1>3. n \in Nat \ {0} /\ m \in Nat
  <2>1. n \in Nat \ {0}
    BY DiskAssumption
  <2>2. QED
    BY ONLY <1>2, <2>1
<1>4. PICK group, a : group = m \div inodes_per_group /\ a = m % inodes_per_group
  OBVIOUS
<1>5. /\ group \in Nat /\ a \in 0..(inodes_per_group - 1)
      /\ m = group * inodes_per_group + a
  <2>1. /\ m \div inodes_per_group \in Int /\ m % inodes_per_group \in 0..(inodes_per_group - 1)
        /\ m = (m \div inodes_per_group) * inodes_per_group + (m % inodes_per_group)
    BY <1>1, <1>3, Quotients
  <2>2. group \in Int /\ a \in 0..(inodes_per_group - 1) /\ m = group * inodes_per_group + a
    BY <1>4, <2>1
  <2>3. group < 0 => group * inodes_per_group + inodes_per_group <= 0 * inodes_per_group
    BY <1>1, <2>2, Multiples
  <2>4. group * inodes_per_group \in Int /\ 0 * inodes_per_group = 0
    BY <1>1, <2>2
  <2>5. ~(group < 0)
    BY <1>1, <1>3, <2>2, <2>3, <2>4
  <2>6. QED
    BY <2>2, <2>5
<1>6. PICK offset : offset = a * inode_size
  OBVIOUS
<1>7. offset \in Nat
  BY <1>1, <1>5, <1>6
<1>8. PICK blk, off : blk = offset \div g_block_size /\ off = offset % g_block_size
  OBVIOUS
<1>9. blk \in Int /\ off \in Int /\ offset = blk * g_block_size + off
  <2>1. /\ offset \div g_block_size \in Int /\ offset % g_block_size \in 0..(g_block_size - 1)
        /\ offset = (offset \div g_block_size) * g_block_size + (offset % g_block_size)
    BY <1>1, <1>7, Quotients
  <2>2. QED
    BY <1>8, <2>1
<1>10. PICK copy : copy = [k \in 1..INODE |-> TableUnit(group, blk * g_block_size + off + k - 1)]
  OBVIOUS
<1>11. ASSUME NEW k \in 1..INODE
       PROVE  TableUnit(group, blk * g_block_size + off + k - 1) = <<n, k - 1>>
  <2>1. k - 1 \in 0..(inode_size - 1)
    BY <1>1
  <2>2. blk * g_block_size + off + k - 1 = a * inode_size + (k - 1)
    <3>1. PICK b : b = blk * g_block_size
      OBVIOUS
    <3>2. b \in Int
      BY <1>1, <1>9, <3>1
    <3>3. b + off + k - 1 = offset + (k - 1)
      BY <1>9, <3>1, <3>2
    <3>4. QED
      BY <1>6, <3>1, <3>3
  <2>3. TableUnit(group, a * inode_size + (k - 1)) = <<group * inodes_per_group + a + 1, k - 1>>
    BY <1>5, <2>1, UnitIs
  <2>4. group * inodes_per_group + a + 1 = n
    <3>1. m + 1 = n
      BY <1>2, <1>3
    <3>2. QED
      BY <1>5, <3>1
  <2>5. QED
    BY ONLY <2>2, <2>3, <2>4
<1>12. copy = UnitsOf(n)
  BY <1>10, <1>11 DEF UnitsOf
<1>13. CopyInode(group, offset, fault)
         = IF \/ <<group, blk>> \in fault.table
              \/ g_block_size - off < INODE /\ <<group, blk + 1>> \in fault.table
           THEN Failed(EXT2_ERR_IO) ELSE [rc |-> EXT2_OK, copy |-> copy]
  BY ONLY <1>8, <1>10 DEF CopyInode
<1>14. PICK read : read = CopyInode(group, offset, fault)
  OBVIOUS
<1>15. read \in {Failed(EXT2_ERR_IO), FoundInode(n)} /\ (fault.table = {} => read = FoundInode(n))
  BY ONLY <1>12, <1>13, <1>14 DEF FoundInode
<1>16. CopyInode((n - 1) \div inodes_per_group,
                 ((n - 1) % inodes_per_group) * inode_size, fault) = read
  BY ONLY <1>2, <1>4, <1>6, <1>14
<1>17. QED
  BY ONLY <1>15, <1>16

(* A read of an inode of the disk gives that inode or fails.               *)
LEMMA KreadIs ==
  ASSUME IsMounted, NEW n \in DOMAIN Inodes, NEW fault
  PROVE  /\ kread_inode(n, fault) \in {Failed(EXT2_ERR_IO), FoundInode(n)}
         /\ kread_inode(n, NoFault) = FoundInode(n)
<1>1. n # 0 /\ g_group_desc # "null"
  BY DiskAssumption DEF IsMounted
<1>2. NoFault.table = {} /\ NoFault.room = TRUE
  BY DEF NoFault
<1> DEFINE read(f) == CopyInode((n - 1) \div inodes_per_group,
                                ((n - 1) % inodes_per_group) * inode_size, f)
<1>3. /\ read(fault) \in {Failed(EXT2_ERR_IO), FoundInode(n)}
      /\ read(NoFault) = FoundInode(n)
  BY <1>2, CopyIs
<1>4. \A f : kread_inode(n, f) = IF ~f.room THEN Failed(EXT2_ERR_IO) ELSE read(f)
  BY <1>1 DEF kread_inode
<1> HIDE DEF read
<1>5. QED
  BY ONLY <1>2, <1>3, <1>4

(* Whatever the sizes of inodes, blocks and groups are, the inode read is  *)
(* the one that was asked for.                                             *)
LEMMA ReadsIt == ReadsTheInode
<1>1. ASSUME IsMounted, NEW n \in DOMAIN Inodes
      PROVE  kread_inode(n, NoFault).copy = [k \in 1..INODE |-> <<n, k - 1>>]
  <2>1. kread_inode(n, NoFault) = FoundInode(n)
    BY <1>1, KreadIs
  <2>2. QED
    BY <2>1 DEF FoundInode, UnitsOf
<1>2. QED
  BY <1>1 DEF ReadsTheInode
(* ext2_read_inode gives the inode asked for, every unit of it from the    *)
(* block and offset where the group's table has it, whatever the size of   *)
(* an inode is.                                                            *)
THEOREM AlwaysReadsTheInode == FileSpec => []ReadsTheInode
BY ReadsIt, PTL

-----------------------------------------------------------------------------
(* Directories.                                                            *)

AllBlocks == DOMAIN DirBlocks
(* The inodes there are.                                                   *)
OnDisk == DOMAIN Inodes
(* The directory entries of the disk.                                      *)
DirEntries == [inode : OnDisk \cup {0}, name : Seq(InName), shape : Shapes]

(* DiskAssumption, part by part.                                           *)
LEMMA DiskIs ==
  /\ OnDisk \subseteq Nat \ {0} /\ EXT2_ROOT_INODE \in OnDisk
  /\ Inodes[EXT2_ROOT_INODE].dir
  /\ \A n \in OnDisk : Inodes[n].block \in Seq(AllBlocks \cup {""})
  /\ \A b \in AllBlocks : DirBlocks[b] \in Seq(DirEntries)
BY DiskAssumption DEF OnDisk, AllBlocks, DirEntries, InName

(* What is in an inode that has been read.                                 *)
LEMMA UnitsAre ==
  ASSUME NEW n \in OnDisk
  PROVE  /\ Pointers(UnitsOf(n)) = Inodes[n].block
         /\ IsDir(UnitsOf(n)) = Inodes[n].dir
<1>1. INODE \in 1..INODE /\ 1 \in 1..INODE
  BY Ext2Assumption
<1>2. UnitsOf(n)[INODE] = <<n, INODE - 1>> /\ UnitsOf(n)[1] = <<n, 1 - 1>>
  BY <1>1 DEF UnitsOf
<1>3. UnitsOf(n)[INODE][1] = n /\ UnitsOf(n)[1][1] = n
  BY <1>2
<1>4. QED
  BY ONLY <1>3 DEF Pointers, IsDir

(* The blocks of an inode.                                                 *)
BlocksOf(n) == {Inodes[n].block[k] : k \in DOMAIN Inodes[n].block} \ {""}

(* What DirectBlocks gives are blocks of the inode.                        *)
LEMMA DirectBlocksOf ==
  ASSUME NEW n \in OnDisk
  PROVE  DirectBlocks(UnitsOf(n)) \in Seq(BlocksOf(n))
<1>1. PICK block : block = Pointers(UnitsOf(n))
  OBVIOUS
<1>2. block = Inodes[n].block /\ block \in Seq(AllBlocks \cup {""})
  BY <1>1, UnitsAre, DiskIs
<1>3. PICK len \in Nat : len = Len(block)
  BY <1>2, LenProperties
<1>4. PICK m : m = Min({NDIRECT, len})
  OBVIOUS
<1>5. m \in Nat /\ m <= len
  <2>1. NDIRECT \in Nat
    BY Ext2Assumption
  <2>2. \E k \in {NDIRECT, len} : \A y \in {NDIRECT, len} : k <= y
    BY <2>1
  <2>3. m \in {NDIRECT, len} /\ m <= len
    BY <1>4, <2>2 DEF Min
  <2>4. QED
    BY <2>1, <2>3
<1>6. PICK ones : ones = [i \in 1..m |-> IF block[i] = "" THEN <<>> ELSE <<block[i]>>]
  OBVIOUS
<1>7. ones \in Seq(Seq(BlocksOf(n)))
  <2>1. ASSUME NEW i \in 1..m
        PROVE  (IF block[i] = "" THEN <<>> ELSE <<block[i]>>) \in Seq(BlocksOf(n))
    <3>1. i \in 1..len
      BY <1>5
    <3>2. block[i] \in BlocksOf(n) \cup {""}
      BY <1>2, <1>3, <3>1, LenProperties DEF BlocksOf
    <3>3. CASE block[i] = ""
      BY <3>3, EmptySeq
    <3>4. CASE block[i] # ""
      <4>1. PICK x \in BlocksOf(n) : x = block[i]
        BY <3>2, <3>4
      <4>2. <<x>> \in Seq(BlocksOf(n))
        OBVIOUS
      <4>3. QED
        BY <3>4, <4>1, <4>2
    <3>5. QED
      BY <3>3, <3>4
  <2>2. ones \in [1..m -> Seq(BlocksOf(n))]
    BY <1>6, <2>1
  <2>3. QED
    BY <1>5, <2>2
<1>8. FlattenSeq(ones) \in Seq(BlocksOf(n))
  BY <1>7, FlattenType
<1>9. DirectBlocks(UnitsOf(n)) = FlattenSeq(ones)
  BY <1>1, <1>3, <1>4, <1>6 DEF DirectBlocks
<1>10. QED
  BY <1>8, <1>9

(* They are blocks of the disk.                                            *)
LEMMA BlocksOnDisk ==
  ASSUME NEW n \in OnDisk
  PROVE  BlocksOf(n) \subseteq AllBlocks
<1>1. PICK block : block = Inodes[n].block
  OBVIOUS
<1>2. block \in Seq(AllBlocks \cup {""})
  BY <1>1, DiskIs
<1>3. \A k \in DOMAIN block : block[k] \in AllBlocks \cup {""}
  BY <1>2, LenProperties, ElementOfSeq
<1>4. QED
  BY <1>1, <1>3 DEF BlocksOf

(* The direct blocks of an inode are blocks of directories.                *)
LEMMA DirectBlocksType ==
  ASSUME NEW n \in OnDisk
  PROVE  DirectBlocks(UnitsOf(n)) \in Seq(AllBlocks)
<1>1. PICK s : s = DirectBlocks(UnitsOf(n))
  OBVIOUS
<1>2. s \in Seq(BlocksOf(n)) /\ BlocksOf(n) \subseteq AllBlocks
  BY <1>1, DirectBlocksOf, BlocksOnDisk
<1>3. QED
  BY <1>1, <1>2

(* Some member of a set of numbers is the least.                           *)
LEMMA LeastIs ==
  ASSUME NEW S, S \subseteq Nat, S # {}
  PROVE  Min(S) \in S /\ \A y \in S : Min(S) <= y
<1>1. \E x \in S : \A y \in S : x <= y
  BY Least
<1>2. QED
  BY <1>1 DEF Min

(* The entries before a place.                                             *)
LEMMA EntriesPart ==
  ASSUME NEW entries \in Seq(DirEntries), NEW stops, stops \subseteq DOMAIN entries
  PROVE  (IF stops = {} THEN entries ELSE SubSeq(entries, 1, Min(stops) - 1)) \in Seq(DirEntries)
<1>1. CASE stops = {}
  BY <1>1
<1>2. CASE stops # {}
  <2>1. PICK n \in Nat : n = Len(entries)
    OBVIOUS
  <2>2. stops \subseteq 1..n
    BY <2>1
  <2>3. PICK m : m = Min(stops)
    OBVIOUS
  <2>4. m \in 1..n
    <3>1. stops \subseteq Nat
      BY <2>2
    <3>2. QED
      BY <1>2, <2>2, <2>3, <3>1, LeastIs
  <2>5. SubSeq(entries, 1, m - 1) \in Seq(DirEntries)
    BY <2>1, <2>4
  <2>6. QED
    BY <1>2, <2>3, <2>5
<1>3. QED
  BY <1>1, <1>2

(* The blocks a search reads are blocks of directories.                    *)
LEMMA SearchedType ==
  ASSUME NEW b \in AllBlocks
  PROVE  Searched(b) \in Seq(DirEntries)
<1>1. PICK entries : entries = DirBlocks[b]
  OBVIOUS
<1>2. PICK stops : stops = {i \in DOMAIN entries : entries[i].shape = "zero"}
  OBVIOUS
<1>3. Searched(b) = IF stops = {} THEN entries ELSE SubSeq(entries, 1, Min(stops) - 1)
  BY <1>1, <1>2 DEF Searched, EntriesBefore
<1>4. entries \in Seq(DirEntries) /\ stops \subseteq DOMAIN entries
  BY <1>1, <1>2, DiskIs
<1>5. QED
  BY <1>3, <1>4, EntriesPart

(* What a name is found to be in one block.                                *)
LEMMA FindInType ==
  ASSUME NEW b \in AllBlocks, NEW tok
  PROVE  FindIn(b, tok) \in OnDisk \cup {0}
<1>1. PICK entries : entries = Searched(b)
  OBVIOUS
<1>2. entries \in Seq(DirEntries)
  BY <1>1, SearchedType
<1>3. PICK hits : hits = {i \in DOMAIN entries : Matches(entries[i], tok)}
  OBVIOUS
<1>4. FindIn(b, tok) = IF hits = {} THEN 0 ELSE entries[Min(hits)].inode
  BY <1>1, <1>3 DEF FindIn
<1>5. ASSUME hits # {} PROVE entries[Min(hits)].inode \in OnDisk
  <2>1. hits \subseteq Nat
    BY <1>2, <1>3
  <2>2. PICK m : m = Min(hits)
    OBVIOUS
  <2>3. m \in DOMAIN entries /\ Matches(entries[m], tok)
    <3>1. m \in hits
      BY <1>5, <2>1, <2>2, LeastIs
    <3>2. QED
      BY <1>3, <3>1
  <2>4. entries[m] \in DirEntries
    BY <1>2, <2>3
  <2>5. entries[m].inode # 0 /\ entries[m].inode \in OnDisk \cup {0}
    BY <2>3, <2>4 DEF Matches, DirEntries
  <2>6. QED
    BY <2>2, <2>5
<1>6. QED
  BY <1>4, <1>5

-----------------------------------------------------------------------------
(* The search of a name.                                                   *)

Hits == OnDisk \cup {0, -1}

(* What ext2_find_inode makes of one more block.                           *)
FindStep(found, b, tok, fault) ==
  IF found # 0 THEN found ELSE IF b \in fault.bad THEN -1 ELSE FindIn(b, tok)

(* FindStep as a function of pairs.                                        *)
FindOp(tok, fault) == [p \in Hits \X AllBlocks |-> FindStep(p[1], p[2], tok, fault)]

(* FindStep stays among the inodes, no inode and the error.                *)
LEMMA FindOpType ==
  ASSUME NEW tok, NEW fault
  PROVE  0 \in Hits /\ Operates(FindOp(tok, fault), Hits, AllBlocks)
<1>1. ASSUME NEW x \in Hits, NEW b \in AllBlocks PROVE FindStep(x, b, tok, fault) \in Hits
  <2>1. FindIn(b, tok) \in OnDisk \cup {0}
    BY FindInType
  <2>2. QED
    BY <2>1 DEF FindStep, Hits
<1>2. QED
  BY <1>1 DEF FindOp, Operates, Hits

(* The recursive function of the fold in Find.                              *)
FoundOf(f, tok, fault, s, D) ==
  f = [t \in D |-> IF t = {} THEN 0 ELSE FindStep(f[t \ {Max(t)}], s[Max(t)], tok, fault)]

(* What the search comes to along the blocks s.                            *)
Found(tok, fault, s) == (CHOOSE f : FoundOf(f, tok, fault, s, SUBSET DOMAIN s))[DOMAIN s]

(* The fold of Find is the fold of FindOp.                                 *)
LEMMA FoundFold ==
  ASSUME NEW tok, NEW fault, NEW s \in Seq(AllBlocks)
  PROVE  Found(tok, fault, s) = FoldOf(FindOp(tok, fault), 0, s)
<1>1. PICK n \in Nat : n = Len(s)
  OBVIOUS
<1>2. DOMAIN s = 1..n /\ \A i \in 1..n : s[i] \in AllBlocks
  BY <1>1
<1>a. PICK OP : OP = FindOp(tok, fault)
  OBVIOUS
<1>b. \A x \in Hits : \A c \in AllBlocks : OP[<<x, c>>] = FindStep(x, c, tok, fault)
  BY <1>a DEF FindOp
<1>3. 0 \in Hits /\ Operates(OP, Hits, AllBlocks)
  BY <1>a, FindOpType
<1>4. PICK f \in [SUBSET (1..n) -> Hits] :
        \A t \in SUBSET (1..n) : Gathered(f, OP, 0, s, t)
  BY ONLY <1>1, <1>3, GatheredExists, n \in Nat, s \in Seq(AllBlocks)
<1>5. FoundOf(f, tok, fault, s, SUBSET (1..n))
  <2>1. ASSUME NEW t \in SUBSET (1..n)
        PROVE  f[t] = IF t = {} THEN 0 ELSE FindStep(f[t \ {Max(t)}], s[Max(t)], tok, fault)
    <3>1. CASE t = {}
      BY <1>4, <3>1 DEF Gathered
    <3>2. CASE t # {}
      <4>1. PICK m : m = Max(t)
        OBVIOUS
      <4>2. m \in 1..n
        BY <3>2, <4>1, Greatest
      <4>3. f[t \ {m}] \in Hits /\ s[m] \in AllBlocks
        BY <1>2, <4>2
      <4>4. f[t] = OP[<<f[t \ {m}], s[m]>>]
        BY <1>4, <3>2, <4>1 DEF Gathered
      <4>5. f[t] = FindStep(f[t \ {m}], s[m], tok, fault)
        BY <1>b, <4>3, <4>4
      <4>6. QED
        BY ONLY <3>2, <4>1, <4>5
    <3>3. QED
      BY <3>1, <3>2
  <2>2. QED
    BY <2>1 DEF FoundOf
<1>6. PICK g : FoundOf(g, tok, fault, s, SUBSET (1..n)) /\ Found(tok, fault, s) = g[1..n]
  BY <1>2, <1>5 DEF Found
<1>7. ASSUME NEW t \in SUBSET (1..n) PROVE Agrees(g, OP, Hits, 0, s, t)
  <2>1. g[t] = IF t = {} THEN 0 ELSE FindStep(g[t \ {Max(t)}], s[Max(t)], tok, fault)
    BY <1>6 DEF FoundOf
  <2>2. CASE t = {}
    BY <2>1, <2>2 DEF Agrees
  <2>3. CASE t # {}
    <3>1. Max(t) \in 1..n
      BY <2>3, Greatest
    <3>2. s[Max(t)] \in AllBlocks
      BY <1>2, <3>1
    <3>3. PICK x, c : x = g[t \ {Max(t)}] /\ c = s[Max(t)]
      OBVIOUS
    <3>4. x \in Hits => g[t] = OP[<<x, c>>]
      BY <1>b, <2>1, <2>3, <3>2, <3>3
    <3>5. QED
      BY ONLY <2>3, <3>3, <3>4 DEF Agrees
  <2>4. QED
    BY <2>2, <2>3
<1>8. g[1..n] = FoldOf(OP, 0, s)
  BY ONLY <1>1, <1>3, <1>7, AgreesFold, s \in Seq(AllBlocks), n \in Nat
<1>9. QED
  BY <1>a, <1>6, <1>8

(* One more block is one more FindStep.                                    *)
LEMMA FoundGrow ==
  ASSUME NEW tok, NEW fault
  PROVE  /\ Found(tok, fault, <<>>) = 0
         /\ \A s \in Seq(AllBlocks) : Found(tok, fault, s) \in Hits
         /\ \A s \in Seq(AllBlocks) : \A c \in AllBlocks :
              Found(tok, fault, Append(s, c)) = FindStep(Found(tok, fault, s), c, tok, fault)
<1>a. PICK OP : OP = FindOp(tok, fault)
  OBVIOUS
<1>b. \A x \in Hits : \A c \in AllBlocks : OP[<<x, c>>] = FindStep(x, c, tok, fault)
  BY <1>a DEF FindOp
<1>0. 0 \in Hits /\ Operates(OP, Hits, AllBlocks)
  BY <1>a, FindOpType
<1>1. Found(tok, fault, <<>>) = 0
  <2>1. <<>> \in Seq(AllBlocks)
    BY EmptySeq
  <2>2. Found(tok, fault, <<>>) = FoldOf(FindOp(tok, fault), 0, <<>>)
    BY ONLY <2>1, FoundFold
  <2>3. FoldOf(FindOp(tok, fault), 0, <<>>) = 0
    BY ONLY FoldEmpty
  <2>4. QED
    BY ONLY <2>2, <2>3
<1>2. ASSUME NEW s \in Seq(AllBlocks) PROVE Found(tok, fault, s) \in Hits
  <2>1. FoldOf(OP, 0, s) \in Hits
    BY ONLY <1>0, FoldType, s \in Seq(AllBlocks)
  <2>2. QED
    BY <1>a, <2>1, FoundFold
<1>3. ASSUME NEW s \in Seq(AllBlocks), NEW c \in AllBlocks
      PROVE  Found(tok, fault, Append(s, c)) = FindStep(Found(tok, fault, s), c, tok, fault)
  <2>1. Append(s, c) \in Seq(AllBlocks)
    BY AppendProperties
  <2>2. FoldOf(OP, 0, Append(s, c)) = OP[<<FoldOf(OP, 0, s), c>>]
    BY ONLY FoldAppend, s \in Seq(AllBlocks), c \in AllBlocks
  <2>3. Found(tok, fault, Append(s, c)) = OP[<<Found(tok, fault, s), c>>]
    BY <1>a, <2>1, <2>2, FoundFold
  <2>4. QED
    BY <1>b, <1>2, <2>3
<1>4. QED
  BY <1>1, <1>2, <1>3

(* Find, from the fold that its definition stands for.                     *)
LEMMA FindUnfolds ==
  ASSUME NEW copy, NEW tok, NEW fault
  PROVE  Find(copy, tok, fault) = Found(tok, fault, DirectBlocks(copy))
BY DEF Find, FoldLeft, MapThenFoldSet, Found, FoundOf, FindStep

(* What a search finds while reads fail: what it finds without, or -1.     *)
LEMMA FoundIs ==
  ASSUME NEW tok, NEW fault, NEW s \in Seq(AllBlocks)
  PROVE  /\ Found(tok, NoFault, s) \in OnDisk \cup {0}
         /\ Found(tok, fault, s) \in {Found(tok, NoFault, s), -1}
<1> DEFINE T == {u \in Seq(AllBlocks) : /\ Found(tok, NoFault, u) \in OnDisk \cup {0}
                                        /\ Found(tok, fault, u) \in {Found(tok, NoFault, u), -1}}
<1>1. <<>> \in T
  <2>1. <<>> \in Seq(AllBlocks)
    BY EmptySeq
  <2>2. Found(tok, NoFault, <<>>) = 0 /\ Found(tok, fault, <<>>) = 0
    BY FoundGrow
  <2>3. QED
    BY <2>1, <2>2
<1>2. ASSUME NEW u \in Seq(AllBlocks), NEW b \in AllBlocks, u \in T PROVE Append(u, b) \in T
  <2>1. PICK x, y : x = Found(tok, NoFault, u) /\ y = Found(tok, fault, u)
    OBVIOUS
  <2>2. x \in OnDisk \cup {0} /\ y \in {x, -1}
    BY <1>2, <2>1
  <2>3. Found(tok, NoFault, Append(u, b)) = FindStep(x, b, tok, NoFault)
    BY <2>1, FoundGrow
  <2>4. Found(tok, fault, Append(u, b)) = FindStep(y, b, tok, fault)
    BY <2>1, FoundGrow
  <2>5. FindIn(b, tok) \in OnDisk \cup {0} /\ NoFault.bad = {}
    BY FindInType DEF NoFault
  <2>6. FindStep(x, b, tok, NoFault) \in OnDisk \cup {0}
    BY <2>2, <2>5 DEF FindStep
  <2>7. FindStep(y, b, tok, fault) \in {FindStep(x, b, tok, NoFault), -1}
    BY <2>2, <2>5 DEF FindStep
  <2>8. Append(u, b) \in Seq(AllBlocks)
    BY AppendProperties
  <2>9. QED
    BY <2>3, <2>4, <2>6, <2>7, <2>8
<1> HIDE DEF T
<1>3. Seq(AllBlocks) \subseteq T
  BY <1>1, <1>2, AllSequences
<1>4. QED
  BY <1>3 DEF T

(* With a fault a search finds what it finds without, or fails.            *)
LEMMA FindIs ==
  ASSUME NEW n \in OnDisk, NEW tok, NEW fault
  PROVE  /\ Find(UnitsOf(n), tok, NoFault) \in OnDisk \cup {0}
         /\ Find(UnitsOf(n), tok, fault) \in {Find(UnitsOf(n), tok, NoFault), -1}
BY DirectBlocksType, FoundIs, FindUnfolds

-----------------------------------------------------------------------------
(* The walk along a path.                                                  *)

IOError == Failed(EXT2_ERR_IO)

(* What a walk comes to: an inode of the disk, or a failure.               *)
Outcomes ==
  {IOError, Failed(EXT2_ERR_PATH_NOT_FOUND), Failed(EXT2_ERR_INVALID)}
  \cup {FoundInode(n) : n \in OnDisk}

(* The result codes differ.                                                *)
LEMMA ResultCodes ==
  /\ EXT2_OK = 0 /\ EXT2_ERR_IO = -1 /\ EXT2_ERR_PATH_NOT_FOUND = -4 /\ EXT2_ERR_INVALID = -5
  /\ \A rc : Failed(rc).rc = rc
  /\ \A n : FoundInode(n).rc = 0 /\ FoundInode(n).copy = UnitsOf(n)
BY DEF EXT2_OK, EXT2_ERR_IO, EXT2_ERR_PATH_NOT_FOUND, EXT2_ERR_INVALID, Failed, FoundInode

(* One that has gone well has found an inode.                              *)
LEMMA OutcomeIs ==
  ASSUME NEW r \in Outcomes
  PROVE  IF r.rc = EXT2_OK THEN \E n \in OnDisk : r = FoundInode(n)
         ELSE r.rc \in {EXT2_ERR_IO, EXT2_ERR_PATH_NOT_FOUND, EXT2_ERR_INVALID}
<1>1. CASE \E n \in OnDisk : r = FoundInode(n)
  BY <1>1, ResultCodes
<1>2. CASE r \in {IOError, Failed(EXT2_ERR_PATH_NOT_FOUND), Failed(EXT2_ERR_INVALID)}
  <2>1. r.rc \in {EXT2_ERR_IO, EXT2_ERR_PATH_NOT_FOUND, EXT2_ERR_INVALID}
    BY <1>2, ResultCodes DEF IOError
  <2>2. r.rc # EXT2_OK
    BY <2>1, ResultCodes
  <2>3. QED
    BY ONLY <2>1, <2>2
<1>3. QED
  BY <1>1, <1>2 DEF Outcomes

(* A read of an inode gives it, or fails when its block does.              *)
LEMMA ReadsOrFails ==
  ASSUME NEW n \in OnDisk, NEW fault
  PROVE  /\ ReadOrFail(n, fault) \in {IOError, FoundInode(n)}
         /\ IsMounted => ReadOrFail(n, NoFault) = FoundInode(n)
<1>1. n \in DOMAIN Inodes
  BY DEF OnDisk
<1>2. ASSUME NEW f
      PROVE  ReadOrFail(n, f) = IF kread_inode(n, f).rc = EXT2_OK THEN kread_inode(n, f)
                                ELSE IOError
  BY DEF ReadOrFail, IOError
<1>3. kread_inode(n, fault) \in {Failed(EXT2_ERR_IO), Failed(EXT2_ERR_INVALID), FoundInode(n)}
  <2>1. PICK read : read = CopyInode((n - 1) \div inodes_per_group,
                                     ((n - 1) % inodes_per_group) * inode_size, fault)
    OBVIOUS
  <2>2. read \in {Failed(EXT2_ERR_IO), FoundInode(n)}
    BY <1>1, <2>1, CopyIs
  <2>3. kread_inode(n, fault)
          = IF n = 0 \/ g_group_desc = "null" THEN Failed(EXT2_ERR_INVALID)
            ELSE IF ~fault.room THEN Failed(EXT2_ERR_IO) ELSE read
    BY ONLY <2>1 DEF kread_inode
  <2>4. QED
    BY ONLY <2>2, <2>3
<1>4. ReadOrFail(n, fault) \in {IOError, FoundInode(n)}
  <2>1. PICK r : r = kread_inode(n, fault)
    OBVIOUS
  <2>2. CASE r = FoundInode(n)
    BY <1>2, <2>1, <2>2
  <2>3. CASE r \in {Failed(EXT2_ERR_IO), Failed(EXT2_ERR_INVALID)}
    <3>1. r.rc # EXT2_OK
      BY <2>3, ResultCodes
    <3>2. QED
      BY <1>2, <2>1, <3>1
  <2>4. QED
    BY <1>3, <2>1, <2>2, <2>3
<1>5. ASSUME IsMounted PROVE ReadOrFail(n, NoFault) = FoundInode(n)
  <2>1. kread_inode(n, NoFault) = FoundInode(n)
    BY <1>1, <1>5, KreadIs
  <2>2. FoundInode(n).rc = EXT2_OK
    BY ResultCodes
  <2>3. QED
    BY <1>2, <2>1, <2>2
<1>6. QED
  BY <1>4, <1>5

(* A look-up in a directory, told from what is found and what is read.     *)
Looked(ino, next, end, fault) ==
  IF ~fault.room \/ ino = -1 THEN IOError
  ELSE IF ino = 0 THEN Failed(EXT2_ERR_PATH_NOT_FOUND)
  ELSE IF next.rc = EXT2_OK /\ ~end /\ ~IsDir(next.copy) THEN Failed(EXT2_ERR_INVALID)
  ELSE next

(* One step of the walk: the search of a name and the read of its inode.   *)
LEMMA DescendLooks ==
  ASSUME NEW n, NEW tok, NEW end, NEW fault
  PROVE  Descend(FoundInode(n), tok, end, fault)
           = Looked(Find(UnitsOf(n), tok, fault),
                    ReadOrFail(Find(UnitsOf(n), tok, fault), fault), end, fault)
<1>1. FoundInode(n).copy = UnitsOf(n)
  BY ResultCodes
<1>2. QED
  BY ONLY <1>1 DEF Descend, Looked, IOError

(* One step of the walk comes to one of its outcomes.                      *)
LEMMA DescendType ==
  ASSUME NEW n \in OnDisk, NEW tok, NEW end, NEW fault
  PROVE  Descend(FoundInode(n), tok, end, fault) \in Outcomes
<1>1. PICK ino, next : ino = Find(UnitsOf(n), tok, fault) /\ next = ReadOrFail(ino, fault)
  OBVIOUS
<1>2. ino \in OnDisk \cup {0, -1}
  BY <1>1, FindIs
<1>3. ino \in OnDisk => next \in {IOError, FoundInode(ino)}
  BY <1>1, ReadsOrFails
<1>4. Looked(ino, next, end, fault) \in Outcomes
  BY <1>2, <1>3 DEF Looked, Outcomes
<1>5. QED
  BY <1>1, <1>4, DescendLooks

(* A fault makes a look-up fail, or not: it finds nothing else.            *)
LEMMA DescendFails ==
  ASSUME IsMounted, NEW n \in OnDisk, NEW tok, NEW end, NEW fault
  PROVE  Descend(FoundInode(n), tok, end, fault)
           \in {IOError, Descend(FoundInode(n), tok, end, NoFault)}
<1>1. PICK ino, next : ino = Find(UnitsOf(n), tok, fault) /\ next = ReadOrFail(ino, fault)
  OBVIOUS
<1>2. PICK ino0, next0 : /\ ino0 = Find(UnitsOf(n), tok, NoFault)
                         /\ next0 = ReadOrFail(ino0, NoFault)
  OBVIOUS
<1>3. ino0 \in OnDisk \cup {0} /\ ino \in {ino0, -1}
  BY <1>1, <1>2, FindIs
<1>4. ino \in OnDisk => next \in {IOError, FoundInode(ino)}
  BY <1>1, ReadsOrFails
<1>5. ino0 \in OnDisk => next0 = FoundInode(ino0)
  BY <1>2, ReadsOrFails
<1>6. -1 \notin OnDisk /\ 0 \notin OnDisk /\ NoFault.room = TRUE
  <2>1. -1 \notin OnDisk /\ 0 \notin OnDisk
    <3>1. OnDisk \subseteq Nat \ {0}
      BY DiskIs
    <3>2. QED
      BY ONLY <3>1
  <2>2. NoFault.room = TRUE
    BY DEF NoFault
  <2>3. QED
    BY <2>1, <2>2
<1>7. IOError.rc # EXT2_OK
  BY ResultCodes DEF IOError
<1>8. Looked(ino, next, end, fault) \in {IOError, Looked(ino0, next0, end, NoFault)}
  <2>1. CASE ~fault.room \/ ino = -1
    BY <2>1 DEF Looked
  <2>2. CASE fault.room /\ ino # -1 /\ ino = 0
    <3>1. ino0 = 0
      BY <1>3, <2>2
    <3>2. QED
      BY <1>6, <2>2, <3>1 DEF Looked
  <2>3. CASE fault.room /\ ino # -1 /\ ino # 0
    <3>1. ino0 = ino /\ ino \in OnDisk
      BY <1>3, <2>3
    <3>2. next0 = FoundInode(ino) /\ next \in {IOError, FoundInode(ino)}
      BY <1>4, <1>5, <3>1
    <3>3. CASE next = IOError
      BY <1>7, <2>3, <3>3 DEF Looked
    <3>4. CASE next = next0
      BY <1>6, <2>3, <3>1, <3>4 DEF Looked
    <3>5. QED
      BY <3>2, <3>3, <3>4
  <2>4. QED
    BY <2>1, <2>2, <2>3
<1>9. QED
  BY <1>1, <1>2, <1>8, DescendLooks

(* A round of the walk, with what it has come to.                          *)
WalkStep(cur, i, toks, fault) ==
  IF cur.rc # EXT2_OK THEN cur ELSE Descend(cur, toks[i], i = Len(toks), fault)

(* The walk's step as a function of pairs.                                 *)
WalkOp(toks, fault) == [p \in Outcomes \X Nat |-> WalkStep(p[1], p[2], toks, fault)]

(* Where the walk starts: the root, read.                                  *)
Start(fault) == ReadOrFail(EXT2_ROOT_INODE, fault)

(* The walk's step stays among its outcomes.                               *)
LEMMA WalkOpType ==
  ASSUME NEW toks, NEW fault
  PROVE  Start(fault) \in Outcomes /\ Operates(WalkOp(toks, fault), Outcomes, Nat)
<1>1. ASSUME NEW x \in Outcomes, NEW i \in Nat PROVE WalkStep(x, i, toks, fault) \in Outcomes
  <2>1. CASE x.rc # EXT2_OK
    BY <2>1 DEF WalkStep
  <2>2. CASE x.rc = EXT2_OK
    <3>1. PICK n \in OnDisk : x = FoundInode(n)
      BY <2>2, OutcomeIs
    <3>2. Descend(FoundInode(n), toks[i], i = Len(toks), fault) \in Outcomes
      BY DescendType
    <3>3. QED
      BY ONLY <2>2, <3>1, <3>2 DEF WalkStep
  <2>3. QED
    BY <2>1, <2>2
<1>2. Start(fault) \in Outcomes
  <2>1. EXT2_ROOT_INODE \in OnDisk
    BY DiskIs
  <2>2. Start(fault) \in {IOError, FoundInode(EXT2_ROOT_INODE)}
    BY <2>1, ReadsOrFails DEF Start
  <2>3. QED
    BY <2>1, <2>2 DEF Outcomes
<1>3. Operates(WalkOp(toks, fault), Outcomes, Nat)
  BY <1>1 DEF WalkOp, Operates
<1>4. QED
  BY <1>2, <1>3

(* The recursive function of the fold in Walk.                              *)
WalkedOf(f, toks, fault, s, D) ==
  f = [t \in D |-> IF t = {} THEN Start(fault)
                   ELSE WalkStep(f[t \ {Max(t)}], s[Max(t)], toks, fault)]

(* What the walk comes to along the places s of toks.                      *)
Walked(toks, fault, s) == (CHOOSE f : WalkedOf(f, toks, fault, s, SUBSET DOMAIN s))[DOMAIN s]

(* The fold of the walk is the fold of WalkOp.                             *)
LEMMA WalkedFold ==
  ASSUME NEW toks, NEW fault, NEW s \in Seq(Nat)
  PROVE  Walked(toks, fault, s) = FoldOf(WalkOp(toks, fault), Start(fault), s)
<1>1. PICK n \in Nat : n = Len(s)
  OBVIOUS
<1>2. DOMAIN s = 1..n /\ \A i \in 1..n : s[i] \in Nat
  BY <1>1
<1>a. PICK OP : OP = WalkOp(toks, fault)
  OBVIOUS
<1>b. \A x \in Outcomes : \A c \in Nat : OP[<<x, c>>] = WalkStep(x, c, toks, fault)
  BY <1>a DEF WalkOp
<1>3. Start(fault) \in Outcomes /\ Operates(OP, Outcomes, Nat)
  BY <1>a, WalkOpType
<1>4. PICK f \in [SUBSET (1..n) -> Outcomes] :
        \A t \in SUBSET (1..n) : Gathered(f, OP, Start(fault), s, t)
  BY ONLY <1>1, <1>3, GatheredExists, n \in Nat, s \in Seq(Nat)
<1>5. WalkedOf(f, toks, fault, s, SUBSET (1..n))
  <2>1. ASSUME NEW t \in SUBSET (1..n)
        PROVE  f[t] = IF t = {} THEN Start(fault)
                      ELSE WalkStep(f[t \ {Max(t)}], s[Max(t)], toks, fault)
    <3>1. CASE t = {}
      BY <1>4, <3>1 DEF Gathered
    <3>2. CASE t # {}
      <4>1. PICK m : m = Max(t)
        OBVIOUS
      <4>2. m \in 1..n
        BY <3>2, <4>1, Greatest
      <4>3. f[t \ {m}] \in Outcomes /\ s[m] \in Nat
        BY <1>2, <4>2
      <4>4. f[t] = OP[<<f[t \ {m}], s[m]>>]
        BY <1>4, <3>2, <4>1 DEF Gathered
      <4>5. f[t] = WalkStep(f[t \ {m}], s[m], toks, fault)
        BY <1>b, <4>3, <4>4
      <4>6. QED
        BY ONLY <3>2, <4>1, <4>5
    <3>3. QED
      BY <3>1, <3>2
  <2>2. QED
    BY <2>1 DEF WalkedOf
<1>6. PICK g : WalkedOf(g, toks, fault, s, SUBSET (1..n)) /\ Walked(toks, fault, s) = g[1..n]
  BY <1>2, <1>5 DEF Walked
<1>7. ASSUME NEW t \in SUBSET (1..n) PROVE Agrees(g, OP, Outcomes, Start(fault), s, t)
  <2>1. g[t] = IF t = {} THEN Start(fault) ELSE WalkStep(g[t \ {Max(t)}], s[Max(t)], toks, fault)
    BY <1>6 DEF WalkedOf
  <2>2. CASE t = {}
    BY <2>1, <2>2 DEF Agrees
  <2>3. CASE t # {}
    <3>1. Max(t) \in 1..n
      BY <2>3, Greatest
    <3>2. s[Max(t)] \in Nat
      BY <1>2, <3>1
    <3>3. PICK x, c : x = g[t \ {Max(t)}] /\ c = s[Max(t)]
      OBVIOUS
    <3>4. x \in Outcomes => g[t] = OP[<<x, c>>]
      BY <1>b, <2>1, <2>3, <3>2, <3>3
    <3>5. QED
      BY ONLY <2>3, <3>3, <3>4 DEF Agrees
  <2>4. QED
    BY <2>2, <2>3
<1>8. g[1..n] = FoldOf(OP, Start(fault), s)
  BY ONLY <1>1, <1>3, <1>7, AgreesFold, s \in Seq(Nat), n \in Nat
<1>9. QED
  BY <1>a, <1>6, <1>8

(* One more place is one more step of the walk.                            *)
LEMMA WalkedGrow ==
  ASSUME NEW toks, NEW fault
  PROVE  /\ Walked(toks, fault, <<>>) = Start(fault)
         /\ \A s \in Seq(Nat) : Walked(toks, fault, s) \in Outcomes
         /\ \A s \in Seq(Nat) : \A c \in Nat :
              Walked(toks, fault, Append(s, c)) = WalkStep(Walked(toks, fault, s), c, toks, fault)
<1>a. PICK OP : OP = WalkOp(toks, fault)
  OBVIOUS
<1>b. \A x \in Outcomes : \A c \in Nat : OP[<<x, c>>] = WalkStep(x, c, toks, fault)
  BY <1>a DEF WalkOp
<1>0. Start(fault) \in Outcomes /\ Operates(OP, Outcomes, Nat)
  BY <1>a, WalkOpType
<1>1. Walked(toks, fault, <<>>) = Start(fault)
  <2>1. <<>> \in Seq(Nat)
    BY EmptySeq
  <2>2. Walked(toks, fault, <<>>) = FoldOf(WalkOp(toks, fault), Start(fault), <<>>)
    BY ONLY <2>1, WalkedFold
  <2>3. FoldOf(WalkOp(toks, fault), Start(fault), <<>>) = Start(fault)
    BY ONLY FoldEmpty
  <2>4. QED
    BY ONLY <2>2, <2>3
<1>2. ASSUME NEW s \in Seq(Nat) PROVE Walked(toks, fault, s) \in Outcomes
  <2>1. FoldOf(OP, Start(fault), s) \in Outcomes
    BY ONLY <1>0, FoldType, s \in Seq(Nat)
  <2>2. QED
    BY <1>a, <2>1, WalkedFold
<1>3. ASSUME NEW s \in Seq(Nat), NEW c \in Nat
      PROVE  Walked(toks, fault, Append(s, c)) = WalkStep(Walked(toks, fault, s), c, toks, fault)
  <2>1. Append(s, c) \in Seq(Nat)
    BY AppendProperties
  <2>2. FoldOf(OP, Start(fault), Append(s, c)) = OP[<<FoldOf(OP, Start(fault), s), c>>]
    BY ONLY FoldAppend, s \in Seq(Nat), c \in Nat
  <2>3. Walked(toks, fault, Append(s, c)) = OP[<<Walked(toks, fault, s), c>>]
    BY <1>a, <2>1, <2>2, WalkedFold
  <2>4. QED
    BY <1>b, <1>2, <2>3
<1>4. QED
  BY <1>1, <1>2, <1>3

(* The places of a sequence of length n.                                   *)
Upto(n) == [i \in 1..n |-> i]

(* The walk, from the fold that its definition stands for.                 *)
LEMMA WalkUnfolds ==
  ASSUME NEW path, NEW fault
  PROVE  Walk(path, fault)
           = IF Len(path) >= PATH_SIZE THEN Failed(EXT2_ERR_INVALID)
             ELSE Walked(Tokens(path), fault, Upto(Len(Tokens(path))))
BY DEF Walk, FoldLeft, MapThenFoldSet, Walked, WalkedOf, WalkStep, Start, Upto

(* A walk while reads fail comes to where it does without, or fails.       *)
LEMMA WalkedIs ==
  ASSUME IsMounted, NEW toks, NEW fault, NEW s \in Seq(Nat)
  PROVE  Walked(toks, fault, s) \in {IOError, Walked(toks, NoFault, s)}
<1> DEFINE T == {u \in Seq(Nat) : Walked(toks, fault, u) \in {IOError, Walked(toks, NoFault, u)}}
<1>1. <<>> \in T
  <2>1. <<>> \in Seq(Nat)
    BY EmptySeq
  <2>2. Walked(toks, NoFault, <<>>) = Start(NoFault) /\ Walked(toks, fault, <<>>) = Start(fault)
    BY WalkedGrow
  <2>3. EXT2_ROOT_INODE \in OnDisk
    BY DiskIs
  <2>4. Start(fault) \in {IOError, Start(NoFault)}
    BY <2>3, ReadsOrFails DEF Start
  <2>5. QED
    BY <2>1, <2>2, <2>4
<1>2. ASSUME NEW u \in Seq(Nat), NEW i \in Nat, u \in T PROVE Append(u, i) \in T
  <2>1. PICK x, y : x = Walked(toks, NoFault, u) /\ y = Walked(toks, fault, u)
    OBVIOUS
  <2>2. x \in Outcomes /\ y \in {x, IOError}
    BY <1>2, <2>1, WalkedGrow
  <2>3. Walked(toks, NoFault, Append(u, i)) = WalkStep(x, i, toks, NoFault)
    BY <2>1, WalkedGrow
  <2>4. Walked(toks, fault, Append(u, i)) = WalkStep(y, i, toks, fault)
    BY <2>1, WalkedGrow
  <2>5. WalkStep(y, i, toks, fault) \in {IOError, WalkStep(x, i, toks, NoFault)}
    <3>1. CASE y.rc # EXT2_OK /\ y = x
      BY <3>1 DEF WalkStep
    <3>2. CASE y.rc # EXT2_OK /\ y = IOError
      BY <3>2 DEF WalkStep
    <3>3. CASE y.rc = EXT2_OK
      <4>1. y = x
        BY <2>2, <3>3, ResultCodes DEF IOError
      <4>2. PICK n \in OnDisk : x = FoundInode(n)
        BY <2>2, <3>3, <4>1, OutcomeIs
      <4>3. Descend(x, toks[i], i = Len(toks), fault)
              \in {IOError, Descend(x, toks[i], i = Len(toks), NoFault)}
        BY <4>2, DescendFails
      <4>4. QED
        BY ONLY <3>3, <4>1, <4>3 DEF WalkStep
    <3>4. QED
      BY <2>2, <3>1, <3>2, <3>3
  <2>6. Append(u, i) \in Seq(Nat)
    BY AppendProperties
  <2>7. QED
    BY <2>3, <2>4, <2>5, <2>6
<1> HIDE DEF T
<1>3. Seq(Nat) \subseteq T
  BY <1>1, <1>2, AllSequences
<1>4. QED
  BY <1>3 DEF T

(* ext2_open gives an outcome, and while reads fail the same or a failure. *)
LEMMA WalkIs ==
  ASSUME NEW path \in Seq(Nat), NEW fault
  PROVE  /\ Walk(path, fault) \in Outcomes
         /\ IsMounted => Walk(path, fault) \in {IOError, Walk(path, NoFault)}
<1>1. PICK toks : toks = Tokens(path)
  OBVIOUS
<1>2. PICK n \in Nat : n = Len(toks)
  BY <1>1, TokensType, LenProperties
<1>3. Upto(n) \in Seq(Nat)
  <2>1. Upto(n) \in [1..n -> Nat]
    BY DEF Upto
  <2>2. QED
    BY <2>1
<1>4. \A f : Walk(path, f) = IF Len(path) >= PATH_SIZE THEN Failed(EXT2_ERR_INVALID)
                             ELSE Walked(toks, f, Upto(n))
  BY <1>1, <1>2, WalkUnfolds
<1>5. Walked(toks, fault, Upto(n)) \in Outcomes
  BY <1>3, WalkedGrow
<1>6. Failed(EXT2_ERR_INVALID) \in Outcomes
  BY DEF Outcomes
<1>7. IsMounted => Walked(toks, fault, Upto(n)) \in {IOError, Walked(toks, NoFault, Upto(n))}
  BY <1>3, WalkedIs
<1>8. QED
  BY <1>4, <1>5, <1>6, <1>7

(* ext2_open is the walk along the tokens of the path.                     *)
LEMMA OpenIs ==
  ASSUME NEW path \in Seq(Nat), NEW fault
  PROVE  /\ ext2_open(path, fault) \in Outcomes
         /\ IsMounted => ext2_open(path, fault) \in {IOError, ext2_open(path, NoFault)}
<1>1. EXT2_ROOT_INODE \in OnDisk
  BY DiskIs
<1>2. CASE path = <<SLASH>>
  <2>1. \A f : ext2_open(path, f) = ReadOrFail(EXT2_ROOT_INODE, f)
    BY <1>2 DEF ext2_open
  <2>2. ReadOrFail(EXT2_ROOT_INODE, fault) \in {IOError, FoundInode(EXT2_ROOT_INODE)}
    BY <1>1, ReadsOrFails
  <2>3. IsMounted => ReadOrFail(EXT2_ROOT_INODE, NoFault) = FoundInode(EXT2_ROOT_INODE)
    BY <1>1, ReadsOrFails
  <2>4. {IOError, FoundInode(EXT2_ROOT_INODE)} \subseteq Outcomes
    BY <1>1 DEF Outcomes
  <2>5. QED
    BY <2>1, <2>2, <2>3, <2>4
<1>3. CASE path # <<SLASH>>
  <2>1. \A f : ext2_open(path, f)
                 = IF Walk(path, f).rc = EXT2_OK /\ Tokens(path) = <<>>
                   THEN Failed(EXT2_ERR_INVALID) ELSE Walk(path, f)
    BY <1>3 DEF ext2_open
  <2>2. Walk(path, fault) \in Outcomes /\ Failed(EXT2_ERR_INVALID) \in Outcomes
    BY WalkIs DEF Outcomes
  <2>3. IsMounted => Walk(path, fault) \in {IOError, Walk(path, NoFault)}
    BY WalkIs
  <2>4. IOError.rc # EXT2_OK
    BY ResultCodes DEF IOError
  <2>5. PICK r, r0 : r = Walk(path, fault) /\ r0 = Walk(path, NoFault)
    OBVIOUS
  <2>6. ext2_open(path, fault) \in Outcomes
    BY <2>1, <2>2
  <2>7. ASSUME IsMounted PROVE ext2_open(path, fault) \in {IOError, ext2_open(path, NoFault)}
    <3>1. CASE r = IOError
      BY <2>1, <2>4, <2>5, <3>1
    <3>2. CASE r = r0
      BY <2>1, <2>5, <3>2
    <3>3. QED
      BY <2>3, <2>5, <2>7, <3>1, <3>2
  <2>8. QED
    BY <2>6, <2>7
<1>4. QED
  BY <1>2, <1>3

-----------------------------------------------------------------------------
(* Listings.                                                               *)

NameLists == Seq(Seq(Nat))

(* The names of a block are names.                                         *)
LEMMA ListedType ==
  ASSUME NEW b \in AllBlocks
  PROVE  Listed(b) \in NameLists
<1>1. PICK block : block = DirBlocks[b]
  OBVIOUS
<1>2. PICK stops : stops = {i \in DOMAIN block :
                              \/ block[i].shape \in {"zero", "too_long"}
                              \/ block[i].inode # 0 /\ block[i].name = <<>>}
  OBVIOUS
<1>3. PICK entries : entries = IF stops = {} THEN block ELSE SubSeq(block, 1, Min(stops) - 1)
  OBVIOUS
<1>4. entries \in Seq(DirEntries)
  <2>1. block \in Seq(DirEntries) /\ stops \subseteq DOMAIN block
    BY <1>1, <1>2, DiskIs
  <2>2. QED
    BY <1>3, <2>1, EntriesPart
<1>5. PICK n \in Nat : n = Len(entries)
  BY <1>4, LenProperties
<1>6. DOMAIN entries = 1..n /\ \A i \in 1..n : entries[i] \in DirEntries
  BY <1>4, <1>5, LenProperties, ElementOfSeq
<1>7. PICK ones : ones = [i \in 1..n |-> IF entries[i].inode = 0 THEN <<>>
                                         ELSE <<entries[i].name>>]
  OBVIOUS
<1>8. ones \in Seq(NameLists)
  <2>1. ASSUME NEW i \in 1..n
        PROVE  (IF entries[i].inode = 0 THEN <<>> ELSE <<entries[i].name>>) \in NameLists
    <3>1. PICK name : name = entries[i].name
      OBVIOUS
    <3>2. name \in Seq(Nat)
      BY <1>6, <3>1 DEF DirEntries, InName
    <3>3. <<name>> \in NameLists /\ <<>> \in NameLists
      BY <3>2, EmptySeq DEF NameLists
    <3>4. QED
      BY <3>1, <3>3
  <2>2. ones \in [1..n -> NameLists]
    BY <1>7, <2>1
  <2>3. QED
    BY <2>2
<1>9. FlattenSeq(ones) \in NameLists
  BY <1>8, FlattenType DEF NameLists
<1>10. Listed(b) = FlattenSeq(ones)
  BY <1>1, <1>2, <1>3, <1>6, <1>7 DEF Listed, EntriesBefore
<1>11. QED
  BY <1>9, <1>10

(* A sequence begins with itself, and with nothing; one that goes on has   *)
(* the same beginnings.                                                    *)
LEMMA PrefixOf ==
  ASSUME NEW C, NEW t \in Seq(C)
  PROVE  /\ IsPrefix(t, t) /\ IsPrefix(<<>>, t)
         /\ \A s \in Seq(C), u \in Seq(C) : IsPrefix(s, t) => IsPrefix(s, t \o u)
<1>1. PICK n \in Nat : n = Len(t)
  OBVIOUS
<1>2. IsPrefix(t, t)
  BY <1>1 DEF IsPrefix
<1>3. IsPrefix(<<>>, t)
  <2>1. Len(<<>>) = 0 /\ SubSeq(<<>>, 1, 0) = SubSeq(t, 1, 0)
    BY SubSeqEmpty
  <2>2. SubSeq(t, 1, 0) = <<>> /\ 0 <= n
    BY SubSeqEmpty
  <2>3. QED
    BY ONLY <1>1, <2>1, <2>2 DEF IsPrefix
<1>4. ASSUME NEW s \in Seq(C), NEW u \in Seq(C), IsPrefix(s, t) PROVE IsPrefix(s, t \o u)
  <2>1. PICK m \in Nat : m = Len(s)
    OBVIOUS
  <2>2. m <= n /\ SubSeq(s, 1, m) = SubSeq(t, 1, m)
    BY <1>1, <1>4, <2>1 DEF IsPrefix
  <2>3. PICK k \in Nat : k = Len(u)
    OBVIOUS
  <2>4. PICK v : v = t \o u
    OBVIOUS
  <2>5. /\ v \in Seq(C) /\ Len(v) = n + k
        /\ \A i \in 1..(n + k) : v[i] = IF i <= n THEN t[i] ELSE u[i - n]
    BY ONLY <1>1, <2>3, <2>4, ConcatProperties, t \in Seq(C), u \in Seq(C)
  <2>6. SubSeq(v, 1, m) = SubSeq(t, 1, m)
    <3>1. \A i \in 1..m : v[i] = t[i]
      BY <2>2, <2>5
    <3>2. /\ SubSeq(v, 1, m) \in Seq(C) /\ Len(SubSeq(v, 1, m)) = m
          /\ \A i \in 1..m : SubSeq(v, 1, m)[i] = v[i]
      BY <2>2, <2>5
    <3>3. /\ SubSeq(t, 1, m) \in Seq(C) /\ Len(SubSeq(t, 1, m)) = m
          /\ \A i \in 1..m : SubSeq(t, 1, m)[i] = t[i]
      BY <1>1, <2>2
    <3>4. PICK a, b : a = SubSeq(v, 1, m) /\ b = SubSeq(t, 1, m)
      OBVIOUS
    <3>5. /\ a \in Seq(C) /\ b \in Seq(C) /\ Len(a) = Len(b)
          /\ \A i \in 1..Len(a) : a[i] = b[i]
      BY <3>1, <3>2, <3>3, <3>4
    <3>6. a = b
      BY ONLY <3>5, SeqEqual
    <3>7. QED
      BY <3>4, <3>6
  <2>7. QED
    BY <2>1, <2>2, <2>4, <2>5, <2>6 DEF IsPrefix
<1>5. QED
  BY <1>2, <1>3, <1>4

(* A round of a listing, with what has been called back.                   *)
Listings == [rc : {EXT2_OK, EXT2_ERR_IO}, names : NameLists]
(* Nothing listed yet.                                                     *)
NoneYet == [rc |-> EXT2_OK, names |-> <<>>]

(* What a listing makes of one more block.                                 *)
ListStep(got, b, fault) ==
  IF got.rc # EXT2_OK THEN got
  ELSE IF b \in fault.bad THEN [got EXCEPT !.rc = EXT2_ERR_IO]
  ELSE [got EXCEPT !.names = @ \o Listed(b)]

(* ListStep as a function of pairs.                                        *)
ListOp(fault) == [p \in Listings \X AllBlocks |-> ListStep(p[1], p[2], fault)]

(* The cases of a round.                                                   *)
LEMMA ListStepIs ==
  ASSUME NEW got \in Listings, NEW b \in AllBlocks, NEW fault
  PROVE  /\ ListStep(got, b, fault) \in Listings
         /\ got.rc # EXT2_OK => ListStep(got, b, fault) = got
         /\ got.rc = EXT2_OK /\ b \in fault.bad =>
              ListStep(got, b, fault).rc = EXT2_ERR_IO /\ ListStep(got, b, fault).names = got.names
         /\ got.rc = EXT2_OK /\ b \notin fault.bad =>
              /\ ListStep(got, b, fault).rc = EXT2_OK
              /\ ListStep(got, b, fault).names = got.names \o Listed(b)
<1>1. got.rc \in {EXT2_OK, EXT2_ERR_IO} /\ got.names \in NameLists
  BY DEF Listings
<1>2. PICK more : more = got.names \o Listed(b)
  OBVIOUS
<1>3. more \in NameLists
  <2>1. Listed(b) \in NameLists
    BY ListedType
  <2>2. QED
    BY <1>1, <1>2, <2>1, ConcatProperties DEF NameLists
<1>4. CASE got.rc # EXT2_OK
  BY <1>4 DEF ListStep
<1>5. CASE got.rc = EXT2_OK /\ b \in fault.bad
  <2>1. ListStep(got, b, fault) = [got EXCEPT !.rc = EXT2_ERR_IO]
    BY <1>5 DEF ListStep
  <2>2. PICK rc : rc = EXT2_ERR_IO
    OBVIOUS
  <2>3. ListStep(got, b, fault) = [got EXCEPT !.rc = rc]
    BY <2>1, <2>2
  <2>4. QED
    BY <1>1, <1>5, <2>2, <2>3 DEF Listings
<1>6. CASE got.rc = EXT2_OK /\ b \notin fault.bad
  <2>1. ListStep(got, b, fault) = [got EXCEPT !.names = @ \o Listed(b)]
    BY <1>6 DEF ListStep
  <2>2. ListStep(got, b, fault) = [got EXCEPT !.names = more]
    BY <1>2, <2>1 DEF Listings
  <2>3. QED
    BY <1>1, <1>2, <1>3, <1>6, <2>2 DEF Listings
<1>7. QED
  BY <1>4, <1>5, <1>6

(* ListStep stays among the listings.                                      *)
LEMMA ListOpType ==
  ASSUME NEW fault
  PROVE  NoneYet \in Listings /\ Operates(ListOp(fault), Listings, AllBlocks)
<1>1. NoneYet \in Listings
  BY EmptySeq DEF NoneYet, Listings, NameLists
<1>2. \A got \in Listings : \A b \in AllBlocks : ListStep(got, b, fault) \in Listings
  BY ListStepIs
<1>3. Operates(ListOp(fault), Listings, AllBlocks)
  BY <1>2 DEF ListOp, Operates
<1>4. QED
  BY <1>1, <1>3

(* The recursive function of the fold in ListEntries.                       *)
GotOf(f, fault, s, D) ==
  f = [t \in D |-> IF t = {} THEN NoneYet ELSE ListStep(f[t \ {Max(t)}], s[Max(t)], fault)]

(* What the listing comes to along the blocks s.                           *)
Got(fault, s) == (CHOOSE f : GotOf(f, fault, s, SUBSET DOMAIN s))[DOMAIN s]

(* The fold of a listing is the fold of ListOp.                            *)
LEMMA GotFold ==
  ASSUME NEW fault, NEW s \in Seq(AllBlocks)
  PROVE  Got(fault, s) = FoldOf(ListOp(fault), NoneYet, s)
<1>1. PICK n \in Nat : n = Len(s)
  OBVIOUS
<1>2. DOMAIN s = 1..n /\ \A i \in 1..n : s[i] \in AllBlocks
  BY <1>1
<1>a. PICK OP : OP = ListOp(fault)
  OBVIOUS
<1>b. \A x \in Listings : \A c \in AllBlocks : OP[<<x, c>>] = ListStep(x, c, fault)
  BY <1>a DEF ListOp
<1>3. NoneYet \in Listings /\ Operates(OP, Listings, AllBlocks)
  BY <1>a, ListOpType
<1>4. PICK f \in [SUBSET (1..n) -> Listings] :
        \A t \in SUBSET (1..n) : Gathered(f, OP, NoneYet, s, t)
  BY ONLY <1>1, <1>3, GatheredExists, n \in Nat, s \in Seq(AllBlocks)
<1>5. GotOf(f, fault, s, SUBSET (1..n))
  <2>1. ASSUME NEW t \in SUBSET (1..n)
        PROVE  f[t] = IF t = {} THEN NoneYet ELSE ListStep(f[t \ {Max(t)}], s[Max(t)], fault)
    <3>1. CASE t = {}
      BY <1>4, <3>1 DEF Gathered
    <3>2. CASE t # {}
      <4>1. PICK m : m = Max(t)
        OBVIOUS
      <4>2. m \in 1..n
        BY <3>2, <4>1, Greatest
      <4>3. f[t \ {m}] \in Listings /\ s[m] \in AllBlocks
        BY <1>2, <4>2
      <4>4. f[t] = OP[<<f[t \ {m}], s[m]>>]
        BY <1>4, <3>2, <4>1 DEF Gathered
      <4>5. f[t] = ListStep(f[t \ {m}], s[m], fault)
        BY <1>b, <4>3, <4>4
      <4>6. QED
        BY ONLY <3>2, <4>1, <4>5
    <3>3. QED
      BY <3>1, <3>2
  <2>2. QED
    BY <2>1 DEF GotOf
<1>6. PICK g : GotOf(g, fault, s, SUBSET (1..n)) /\ Got(fault, s) = g[1..n]
  BY <1>2, <1>5 DEF Got
<1>7. ASSUME NEW t \in SUBSET (1..n) PROVE Agrees(g, OP, Listings, NoneYet, s, t)
  <2>1. g[t] = IF t = {} THEN NoneYet ELSE ListStep(g[t \ {Max(t)}], s[Max(t)], fault)
    BY <1>6 DEF GotOf
  <2>2. CASE t = {}
    BY <2>1, <2>2 DEF Agrees
  <2>3. CASE t # {}
    <3>1. Max(t) \in 1..n
      BY <2>3, Greatest
    <3>2. s[Max(t)] \in AllBlocks
      BY <1>2, <3>1
    <3>3. PICK x, c : x = g[t \ {Max(t)}] /\ c = s[Max(t)]
      OBVIOUS
    <3>4. x \in Listings => g[t] = OP[<<x, c>>]
      BY <1>b, <2>1, <2>3, <3>2, <3>3
    <3>5. QED
      BY ONLY <2>3, <3>3, <3>4 DEF Agrees
  <2>4. QED
    BY <2>2, <2>3
<1>8. g[1..n] = FoldOf(OP, NoneYet, s)
  BY ONLY <1>1, <1>3, <1>7, AgreesFold, s \in Seq(AllBlocks), n \in Nat
<1>9. QED
  BY <1>a, <1>6, <1>8

(* One more block is one more ListStep.                                    *)
LEMMA GotGrow ==
  ASSUME NEW fault
  PROVE  /\ Got(fault, <<>>) = NoneYet
         /\ \A s \in Seq(AllBlocks) : Got(fault, s) \in Listings
         /\ \A s \in Seq(AllBlocks) : \A c \in AllBlocks :
              Got(fault, Append(s, c)) = ListStep(Got(fault, s), c, fault)
<1>a. PICK OP : OP = ListOp(fault)
  OBVIOUS
<1>b. \A x \in Listings : \A c \in AllBlocks : OP[<<x, c>>] = ListStep(x, c, fault)
  BY <1>a DEF ListOp
<1>0. NoneYet \in Listings /\ Operates(OP, Listings, AllBlocks)
  BY <1>a, ListOpType
<1>1. Got(fault, <<>>) = NoneYet
  <2>1. <<>> \in Seq(AllBlocks)
    BY EmptySeq
  <2>2. Got(fault, <<>>) = FoldOf(ListOp(fault), NoneYet, <<>>)
    BY ONLY <2>1, GotFold
  <2>3. FoldOf(ListOp(fault), NoneYet, <<>>) = NoneYet
    BY ONLY FoldEmpty
  <2>4. QED
    BY ONLY <2>2, <2>3
<1>2. ASSUME NEW s \in Seq(AllBlocks) PROVE Got(fault, s) \in Listings
  <2>1. FoldOf(OP, NoneYet, s) \in Listings
    BY ONLY <1>0, FoldType, s \in Seq(AllBlocks)
  <2>2. QED
    BY <1>a, <2>1, GotFold
<1>3. ASSUME NEW s \in Seq(AllBlocks), NEW c \in AllBlocks
      PROVE  Got(fault, Append(s, c)) = ListStep(Got(fault, s), c, fault)
  <2>1. Append(s, c) \in Seq(AllBlocks)
    BY AppendProperties
  <2>2. FoldOf(OP, NoneYet, Append(s, c)) = OP[<<FoldOf(OP, NoneYet, s), c>>]
    BY ONLY FoldAppend, s \in Seq(AllBlocks), c \in AllBlocks
  <2>3. Got(fault, Append(s, c)) = OP[<<Got(fault, s), c>>]
    BY <1>a, <2>1, <2>2, GotFold
  <2>4. QED
    BY <1>b, <1>2, <2>3
<1>4. QED
  BY <1>1, <1>2, <1>3

(* ext2_list_dir, from the fold that its definition stands for.            *)
LEMMA ListUnfolds ==
  ASSUME NEW copy, NEW fault
  PROVE  ListEntries(copy, fault) = Got(fault, DirectBlocks(copy))
BY DEF ListEntries, FoldLeft, MapThenFoldSet, Got, GotOf, ListStep, NoneYet

(* While reads fail a listing is whole, or an error says that it is not.   *)
SameOrCut(listed, whole) ==
  \/ listed = whole
  \/ listed.rc = EXT2_ERR_IO /\ IsPrefix(listed.names, whole.names)

(* A listing of blocks that can be read goes well, and with a fault it is  *)
(* the same, or cut at the block that cannot.                              *)
LEMMA GotIs ==
  ASSUME NEW fault, NEW s \in Seq(AllBlocks)
  PROVE  /\ Got(NoFault, s) \in Listings /\ Got(NoFault, s).rc = EXT2_OK
         /\ SameOrCut(Got(fault, s), Got(NoFault, s))
<1> DEFINE T == {u \in Seq(AllBlocks) : /\ Got(NoFault, u).rc = EXT2_OK
                                        /\ SameOrCut(Got(fault, u), Got(NoFault, u))}
<1>1. <<>> \in T
  <2>1. <<>> \in Seq(AllBlocks)
    BY EmptySeq
  <2>2. Got(NoFault, <<>>) = NoneYet /\ Got(fault, <<>>) = NoneYet
    BY GotGrow
  <2>3. NoneYet.rc = EXT2_OK
    BY DEF NoneYet
  <2>4. QED
    BY <2>1, <2>2, <2>3 DEF SameOrCut
<1>2. ASSUME NEW u \in Seq(AllBlocks), NEW b \in AllBlocks, u \in T PROVE Append(u, b) \in T
  <2>1. PICK x, y : x = Got(NoFault, u) /\ y = Got(fault, u)
    OBVIOUS
  <2>2. x \in Listings /\ y \in Listings /\ x.rc = EXT2_OK /\ SameOrCut(y, x)
    BY <1>2, <2>1, GotGrow
  <2>3. Got(NoFault, Append(u, b)) = ListStep(x, b, NoFault)
    BY <2>1, GotGrow
  <2>4. Got(fault, Append(u, b)) = ListStep(y, b, fault)
    BY <2>1, GotGrow
  <2>5. PICK v, w : v = ListStep(x, b, NoFault) /\ w = ListStep(y, b, fault)
    OBVIOUS
  <2>6. v \in Listings /\ v.rc = EXT2_OK /\ v.names = x.names \o Listed(b)
    <3>1. b \notin NoFault.bad
      BY DEF NoFault
    <3>2. QED
      BY <2>2, <2>5, <3>1, ListStepIs
  <2>7. x.names \in NameLists /\ y.names \in NameLists /\ Listed(b) \in NameLists
    BY <2>2, ListedType DEF Listings
  <2>8. EXT2_ERR_IO # EXT2_OK
    BY ResultCodes
  <2>9. SameOrCut(w, v)
    <3>1. CASE y = x /\ b \notin fault.bad
      <4>1. w = v
        <5>1. b \notin NoFault.bad
          BY DEF NoFault
        <5>2. QED
          BY <2>2, <2>5, <3>1, <5>1 DEF ListStep
      <4>2. QED
        BY <4>1 DEF SameOrCut
    <3>2. CASE y = x /\ b \in fault.bad
      <4>1. w.rc = EXT2_ERR_IO /\ w.names = x.names
        BY <2>2, <2>5, <3>2, ListStepIs
      <4>2. IsPrefix(x.names, x.names)
        BY <2>7, PrefixOf DEF NameLists
      <4>3. IsPrefix(x.names, x.names \o Listed(b))
        BY <2>7, <4>2, PrefixOf DEF NameLists
      <4>4. QED
        BY <2>6, <4>1, <4>3 DEF SameOrCut
    <3>3. CASE y.rc = EXT2_ERR_IO /\ IsPrefix(y.names, x.names)
      <4>1. w = y
        BY <2>2, <2>5, <2>8, <3>3, ListStepIs
      <4>2. IsPrefix(y.names, x.names \o Listed(b))
        BY <2>7, <3>3, PrefixOf DEF NameLists
      <4>3. QED
        BY <2>6, <3>3, <4>1, <4>2 DEF SameOrCut
    <3>4. QED
      BY <2>2, <3>1, <3>2, <3>3 DEF SameOrCut
  <2>10. Append(u, b) \in Seq(AllBlocks)
    BY AppendProperties
  <2>11. QED
    BY <2>3, <2>4, <2>5, <2>6, <2>9, <2>10
<1> HIDE DEF T
<1>3. Seq(AllBlocks) \subseteq T
  BY <1>1, <1>2, AllSequences
<1>4. Got(NoFault, s) \in Listings
  BY GotGrow
<1>5. QED
  BY <1>3, <1>4 DEF T

(* ext2_list_dir with a fault gives the same as without, or what comes     *)
(* before the failure.                                                     *)
LEMMA ListIs ==
  ASSUME IsMounted, NEW path \in Seq(Nat), NEW fault
  PROVE  SameOrCut(ext2_list(path, fault), ext2_list(path, NoFault))
<1> DEFINE root == path \in {<<SLASH>>, <<>>}
           from(f) == IF root THEN ReadOrFail(EXT2_ROOT_INODE, f) ELSE Walk(path, f)
           nothing(rc) == [rc |-> rc, names |-> <<>>]
           odd(r) == (~root /\ Tokens(path) = <<>>) \/ ~IsDir(r.copy)
<1>1. ASSUME NEW f
      PROVE  ext2_list(path, f) = IF from(f).rc # EXT2_OK THEN nothing(from(f).rc)
                                  ELSE IF odd(from(f)) THEN nothing(EXT2_ERR_INVALID)
                                  ELSE ListEntries(from(f).copy, f)
  BY DEF ext2_list
<1>2. from(NoFault) \in Outcomes /\ from(fault) \in {IOError, from(NoFault)}
  <2>1. CASE root
    <3>1. EXT2_ROOT_INODE \in OnDisk
      BY DiskIs
    <3>2. ReadOrFail(EXT2_ROOT_INODE, NoFault) = FoundInode(EXT2_ROOT_INODE)
      BY <3>1, ReadsOrFails
    <3>3. ReadOrFail(EXT2_ROOT_INODE, fault) \in {IOError, FoundInode(EXT2_ROOT_INODE)}
      BY <3>1, ReadsOrFails
    <3>4. FoundInode(EXT2_ROOT_INODE) \in Outcomes
      BY <3>1 DEF Outcomes
    <3>5. QED
      BY <2>1, <3>2, <3>3, <3>4
  <2>2. CASE ~root
    BY <2>2, WalkIs
  <2>3. QED
    BY <2>1, <2>2
<1>3. PICK r, r0 : r = from(fault) /\ r0 = from(NoFault)
  OBVIOUS
<1>4. PICK listed, whole : listed = ext2_list(path, fault) /\ whole = ext2_list(path, NoFault)
  OBVIOUS
<1> HIDE DEF from
<1>5. /\ listed = IF r.rc # EXT2_OK THEN nothing(r.rc)
                  ELSE IF odd(r) THEN nothing(EXT2_ERR_INVALID) ELSE ListEntries(r.copy, fault)
      /\ whole = IF r0.rc # EXT2_OK THEN nothing(r0.rc)
                 ELSE IF odd(r0) THEN nothing(EXT2_ERR_INVALID) ELSE ListEntries(r0.copy, NoFault)
  BY <1>1, <1>3, <1>4
<1> HIDE DEF odd
<1>6. r0 \in Outcomes /\ r \in {IOError, r0}
  BY <1>2, <1>3
<1>7. CASE r0.rc = EXT2_OK /\ ~odd(r0)
  <2>1. PICK n \in OnDisk : r0 = FoundInode(n)
    BY <1>6, <1>7, OutcomeIs
  <2>2. r0.copy = UnitsOf(n)
    BY <2>1, ResultCodes
  <2>3. DirectBlocks(UnitsOf(n)) \in Seq(AllBlocks)
    BY DirectBlocksType
  <2>4. /\ ListEntries(r0.copy, NoFault) \in Listings
        /\ SameOrCut(ListEntries(r0.copy, fault), ListEntries(r0.copy, NoFault))
    BY <2>2, <2>3, GotIs, ListUnfolds
  <2>5. whole = ListEntries(r0.copy, NoFault)
    BY <1>5, <1>7
  <2>6. CASE r = r0
    <3>1. listed = ListEntries(r0.copy, fault)
      BY <1>5, <1>7, <2>6
    <3>2. QED
      BY <1>4, <2>4, <2>5, <3>1
  <2>7. CASE r = IOError
    <3>1. listed = nothing(EXT2_ERR_IO)
      BY <1>5, <2>7, ResultCodes DEF IOError
    <3>2. whole.names \in NameLists
      BY <2>4, <2>5 DEF Listings
    <3>3. listed.rc = EXT2_ERR_IO /\ IsPrefix(listed.names, whole.names)
      BY <3>1, <3>2, PrefixOf DEF NameLists
    <3>4. QED
      BY <1>4, <3>3 DEF SameOrCut
  <2>8. QED
    BY <1>6, <2>6, <2>7
<1>8. CASE ~(r0.rc = EXT2_OK /\ ~odd(r0))
  <2>1. whole.names = <<>>
    BY <1>5, <1>8
  <2>2. CASE r = r0
    <3>1. listed = whole
      BY <1>5, <1>8, <2>2
    <3>2. QED
      BY <1>4, <3>1 DEF SameOrCut
  <2>3. CASE r = IOError
    <3>1. listed = nothing(EXT2_ERR_IO)
      BY <1>5, <2>3, ResultCodes DEF IOError
    <3>2. IsPrefix(<<>>, <<>>)
      <4>1. <<>> \in Seq(Nat)
        BY EmptySeq
      <4>2. QED
        BY <4>1, PrefixOf
    <3>3. listed.rc = EXT2_ERR_IO /\ IsPrefix(listed.names, whole.names)
      BY <2>1, <3>1, <3>2
    <3>4. QED
      BY <1>4, <3>3 DEF SameOrCut
  <2>4. QED
    BY <1>6, <2>2, <2>3
<1>9. QED
  BY <1>7, <1>8

-----------------------------------------------------------------------------
(* What a path leads to on the disk, whatever state the kernel is in.      *)

Still(cur, tok, end) ==
  LET ino == Find(cur.copy, tok, NoFault)
  IN  Looked(ino, FoundInode(ino), end, NoFault)

(* A step of the walk, on a disk that never fails.                         *)
StillStep(cur, i, toks) ==
  IF cur.rc # EXT2_OK THEN cur ELSE Still(cur, toks[i], i = Len(toks))

(* StillStep as a function of pairs.                                       *)
StillOp(toks) == [p \in Outcomes \X Nat |-> StillStep(p[1], p[2], toks)]

(* The inode of the root, as a read gives it.                              *)
Root == FoundInode(EXT2_ROOT_INODE)

(* Where a walk is after the tokens in the places s.                       *)
Reached(toks, s) == FoldOf(StillOp(toks), Root, s)

(* What a path leads to on the disk, apart from any state.                 *)
OpenedAs(path) ==
  LET toks == Tokens(path)
      r == IF Len(path) >= PATH_SIZE THEN Failed(EXT2_ERR_INVALID)
           ELSE Reached(toks, Upto(Len(toks)))
  IN  IF path = <<SLASH>> THEN Root
      ELSE IF r.rc = EXT2_OK /\ toks = <<>> THEN Failed(EXT2_ERR_INVALID) ELSE r

(* A path that leads to a directory.                                       *)
LeadsToDir(path) == OpenedAs(path).rc = EXT2_OK /\ IsDir(OpenedAs(path).copy)

(* Without a fault the walk's step is StillStep.                           *)
LEMMA StillIs ==
  ASSUME IsMounted, NEW cur \in Outcomes, NEW i, NEW toks
  PROVE  WalkStep(cur, i, toks, NoFault) = StillStep(cur, i, toks)
<1>1. CASE cur.rc # EXT2_OK
  BY <1>1 DEF WalkStep, StillStep
<1>2. CASE cur.rc = EXT2_OK
  <2>1. PICK n \in OnDisk : cur = FoundInode(n)
    BY <1>2, OutcomeIs
  <2>2. PICK tok, end : tok = toks[i] /\ end = (i = Len(toks))
    OBVIOUS
  <2>3. PICK ino : ino = Find(UnitsOf(n), tok, NoFault)
    OBVIOUS
  <2>4. ino \in OnDisk \cup {0}
    BY <2>3, FindIs
  <2>5. Descend(cur, tok, end, NoFault) = Looked(ino, ReadOrFail(ino, NoFault), end, NoFault)
    BY <2>1, <2>3, DescendLooks
  <2>6. Still(cur, tok, end) = Looked(ino, FoundInode(ino), end, NoFault)
    <3>1. cur.copy = UnitsOf(n)
      BY <2>1, ResultCodes
    <3>2. QED
      BY ONLY <2>3, <3>1 DEF Still
  <2>7. CASE ino = 0
    <3>1. \A a, b : Looked(0, a, end, NoFault) = Looked(0, b, end, NoFault)
      BY DEF Looked
    <3>2. Descend(cur, tok, end, NoFault) = Still(cur, tok, end)
      BY <2>5, <2>6, <2>7, <3>1
    <3>3. QED
      BY ONLY <1>2, <2>2, <3>2 DEF WalkStep, StillStep
  <2>8. CASE ino # 0
    <3>1. ReadOrFail(ino, NoFault) = FoundInode(ino)
      BY <2>4, <2>8, ReadsOrFails
    <3>2. Descend(cur, tok, end, NoFault) = Still(cur, tok, end)
      BY ONLY <2>5, <2>6, <3>1
    <3>3. QED
      BY ONLY <1>2, <2>2, <3>2 DEF WalkStep, StillStep
  <2>9. QED
    BY <2>7, <2>8
<1>3. QED
  BY <1>1, <1>2

(* Without a fault, ext2_open gives what OpenedAs says.                    *)
LEMMA OpensAs ==
  ASSUME IsMounted, NEW path \in Seq(Nat)
  PROVE  ext2_open(path, NoFault) = OpenedAs(path)
<1>1. EXT2_ROOT_INODE \in OnDisk
  BY DiskIs
<1>2. ReadOrFail(EXT2_ROOT_INODE, NoFault) = Root
  BY <1>1, ReadsOrFails DEF Root
<1>3. PICK toks : toks = Tokens(path)
  OBVIOUS
<1>4. WalkOp(toks, NoFault) = StillOp(toks)
  <2>1. ASSUME NEW p \in Outcomes \X Nat
        PROVE  WalkStep(p[1], p[2], toks, NoFault) = StillStep(p[1], p[2], toks)
    <3>1. p[1] \in Outcomes
      OBVIOUS
    <3>2. QED
      BY <3>1, StillIs
  <2>2. QED
    BY <2>1 DEF WalkOp, StillOp
<1>5. PICK n \in Nat : n = Len(toks)
  BY <1>3, TokensType, LenProperties
<1>6. Upto(n) \in Seq(Nat)
  <2>1. Upto(n) \in [1..n -> Nat]
    BY DEF Upto
  <2>2. QED
    BY <2>1
<1>7. Walked(toks, NoFault, Upto(n)) = Reached(toks, Upto(n))
  <2>1. Walked(toks, NoFault, Upto(n)) = FoldOf(WalkOp(toks, NoFault), Start(NoFault), Upto(n))
    BY <1>6, WalkedFold
  <2>2. Start(NoFault) = Root
    BY <1>2 DEF Start
  <2>3. QED
    BY ONLY <1>4, <2>1, <2>2 DEF Reached
<1>8. Walk(path, NoFault) = IF Len(path) >= PATH_SIZE THEN Failed(EXT2_ERR_INVALID)
                            ELSE Reached(toks, Upto(n))
  <2>1. Walk(path, NoFault) = IF Len(path) >= PATH_SIZE THEN Failed(EXT2_ERR_INVALID)
                              ELSE Walked(toks, NoFault, Upto(n))
    BY <1>3, <1>5, WalkUnfolds
  <2>2. QED
    BY ONLY <1>7, <2>1
<1>9. PICK r : r = Walk(path, NoFault)
  OBVIOUS
<1>10. ext2_open(path, NoFault) = IF path = <<SLASH>> THEN Root
                                  ELSE IF r.rc = EXT2_OK /\ toks = <<>>
                                  THEN Failed(EXT2_ERR_INVALID) ELSE r
  BY ONLY <1>2, <1>3, <1>9 DEF ext2_open
<1>11. OpenedAs(path) = IF path = <<SLASH>> THEN Root
                        ELSE IF r.rc = EXT2_OK /\ toks = <<>>
                        THEN Failed(EXT2_ERR_INVALID) ELSE r
  BY ONLY <1>3, <1>5, <1>8, <1>9 DEF OpenedAs
<1>12. QED
  BY ONLY <1>10, <1>11

(* So the disk tells whether the working directory is a directory.         *)
CwdMeans ==
  cwd_path \in Seq(Nat) /\ IsMounted => (IsDirPath(cwd_path) <=> LeadsToDir(cwd_path))

(* What vfs_open gives without a fault depends on the path alone.          *)
LEMMA PathMeans ==
  ASSUME IsMounted, NEW path \in Seq(Nat)
  PROVE  IsDirPath(path) <=> LeadsToDir(path)
<1>1. ext2_open(path, NoFault) = OpenedAs(path)
  BY OpensAs
<1>2. QED
  BY ONLY <1>1 DEF IsDirPath, Opens, LeadsToDir

(* CwdIsDirectory reads the disk as LeadsToDir does,                       *)
LEMMA CwdAgrees == CwdMeans
BY PathMeans DEF CwdMeans

(* and so after a step.                                                    *)
LEMMA CwdAgreesNext == CwdMeans'
BY CwdAgrees, PTL

(* The root is a directory with a normal path.                             *)
LEMMA RootIsDir == Normal(<<SLASH>>) /\ LeadsToDir(<<SLASH>>)
<1>1. EXT2_ROOT_INODE \in OnDisk /\ Inodes[EXT2_ROOT_INODE].dir
  BY DiskIs
<1>2. LeadsToDir(<<SLASH>>)
  <2>1. OpenedAs(<<SLASH>>) = Root
    BY DEF OpenedAs
  <2>2. Root.rc = EXT2_OK /\ Root.copy = UnitsOf(EXT2_ROOT_INODE)
    BY ResultCodes DEF Root
  <2>3. IsDir(UnitsOf(EXT2_ROOT_INODE)) = Inodes[EXT2_ROOT_INODE].dir
    BY <1>1, UnitsAre
  <2>4. QED
    BY ONLY <1>1, <2>1, <2>2, <2>3 DEF LeadsToDir
<1>3. PICK u : u = <<SLASH>>
  OBVIOUS
<1>4. u \in Seq(Nat) /\ Len(u) = 1 /\ Len(u) < PATH_SIZE /\ u # <<>> /\ Head(u) = SLASH
  <2>1. SLASH \in Nat /\ PATH_SIZE \in Nat /\ PATH_SIZE > 1
    BY Ext2Assumption, VfsAssumption DEF SLASH
  <2>2. QED
    BY <1>3, <2>1
<1>5. vfs_normalize_path(u) = u
  <2>1. vfs_normalize_path(u) = Trim(Taken(Tokens(u)).tmp)
    BY ONLY <1>4, NormalUnfolds
  <2>2. Taken(Tokens(u)) = [tmp |-> u, full |-> FALSE] /\ Trim(u) = u
    BY <1>3, RootIsGood DEF Good
  <2>3. Taken(Tokens(u)).tmp = u
    BY <2>2
  <2>4. QED
    BY ONLY <2>1, <2>2, <2>3
<1>6. Normal(u)
  BY <1>4, <1>5 DEF Normal
<1>7. QED
  BY <1>2, <1>3, <1>6

-----------------------------------------------------------------------------
(* The invariant: the working directory is a path in normal form, to a     *)
(* directory of a disk that is mounted.                                    *)

FilesInv ==
  /\ Normal(cwd_path)
  /\ IsMounted => LeadsToDir(cwd_path)

(* A boot, whether or not the mount succeeds, leaves the invariant true.   *)
LEMMA FilesInitial == Boot => FilesInv
BY RootIsDir DEF Boot, FilesInv

(* A cd leaves it as it was, or goes to another one.                       *)
LEMMA CdKeeps ==
  ASSUME FilesInv, NEW arg \in Args, NEW fault, cmd_cd(arg, fault), UNCHANGED mountvars
  PROVE  FilesInv'
<1>1. PICK path : path = CdArg(arg)
  OBVIOUS
<1>2. path \in Seq(Nat)
  <2>1. arg \in Seq(Nat)
    BY ArgsAssumption
  <2>2. <<SLASH>> \in Seq(Nat)
    BY RootIsDir DEF Normal
  <2>3. QED
    BY <1>1, <2>1, <2>2 DEF CdArg
<1>3. PICK p : p = vfs_resolve(path)
  OBVIOUS
<1>4. Normal(p)
  BY <1>2, <1>3, ResolvesNormal DEF FilesInv, Normal
<1>5. IsMounted' = IsMounted
  BY DEF IsMounted, mountvars
<1>6. cwd_path' = IF chdir_rc(path, fault) = 0 THEN p ELSE cwd_path
  BY <1>1, <1>3 DEF cmd_cd, vfs_chdir
<1>7. CASE chdir_rc(path, fault) # 0
  <2>1. cwd_path' = cwd_path
    BY <1>6, <1>7
  <2>2. QED
    BY <1>5, <2>1 DEF FilesInv
<1>8. CASE chdir_rc(path, fault) = 0
  <2>1. cwd_path' = p
    BY <1>6, <1>8
  <2>2. ASSUME IsMounted PROVE LeadsToDir(p)
    <3>1. PICK dir : dir = ext2_open(p, fault)
      OBVIOUS
    <3>2. dir.rc = EXT2_OK /\ IsDir(dir.copy)
      <4>1. chdir_rc(path, fault) = IF dir.rc # EXT2_OK THEN dir.rc
                                    ELSE IF ~IsDir(dir.copy) THEN -1 ELSE 0
        BY ONLY <1>3, <3>1 DEF chdir_rc
      <4>2. EXT2_OK = 0 /\ -1 # 0
        BY ResultCodes
      <4>3. QED
        BY ONLY <1>8, <4>1, <4>2
    <3>3. p \in Seq(Nat)
      BY <1>4 DEF Normal
    <3>4. dir \in {IOError, ext2_open(p, NoFault)}
      BY <2>2, <3>1, <3>3, OpenIs
    <3>5. dir # IOError
      BY <3>2, ResultCodes DEF IOError
    <3>6. IsDirPath(p)
      <4>1. dir = ext2_open(p, NoFault)
        BY <3>4, <3>5
      <4>2. QED
        BY ONLY <3>2, <4>1 DEF IsDirPath, Opens
    <3>7. QED
      BY <2>2, <3>3, <3>6, PathMeans
  <2>3. QED
    BY <1>4, <1>5, <2>1, <2>2 DEF FilesInv
<1>9. QED
  BY <1>7, <1>8

(* Every command of the shell keeps it.                                    *)
LEMMA FilesStep == ASSUME FilesInv, [FileStep]_filevars PROVE FilesInv'
<1>1. CASE UNCHANGED <<mountvars, cwd_path>>
  BY <1>1 DEF FilesInv, IsMounted, mountvars
<1>2. CASE Command
  <2>1. PICK arg \in Args, fault \in Faults : \E cmd \in Commands(arg) : Run(cmd, arg, fault)
    BY <1>2 DEF Command
  <2>2. PICK cmd \in Commands(arg) : Run(cmd, arg, fault)
    BY <2>1
  <2>3. UNCHANGED mountvars
    BY <1>2 DEF Command
  <2>4. CASE cmd_cd(arg, fault)
    BY <2>3, <2>4, CdKeeps
  <2>5. CASE cmd_ls(arg, fault) \/ cmd_open(cmd, arg, fault)
    <3>1. UNCHANGED cwd_path
      BY <2>5 DEF cmd_ls, cmd_open
    <3>2. QED
      BY <1>1, <2>3, <3>1
  <2>6. QED
    BY <2>2, <2>4, <2>5 DEF Run
<1>3. CASE CommandAstray
  <2>1. ~IsMounted /\ UNCHANGED mountvars
    BY <1>3 DEF CommandAstray, IsMounted
  <2>2. PICK arg \in Args : \/ cwd_path' = cwd_path
                            \/ cwd_path' = vfs_resolve(CdArg(arg))
    <3>1. PICK arg \in Args, rc \in Codes : \E cmd \in Commands(arg) :
            cwd_path' = IF cmd = "cd" /\ rc = EXT2_OK THEN Target(cmd, arg) ELSE cwd_path
      BY <1>3 DEF CommandAstray
    <3>2. Target("cd", arg) = vfs_resolve(CdArg(arg))
      BY DEF Target
    <3>3. QED
      BY <3>1, <3>2
  <2>3. CdArg(arg) \in Seq(Nat)
    <3>1. arg \in Seq(Nat)
      BY ArgsAssumption
    <3>2. <<SLASH>> \in Seq(Nat)
      BY RootIsDir DEF Normal
    <3>3. QED
      BY <3>1, <3>2 DEF CdArg
  <2>4. Normal(vfs_resolve(CdArg(arg)))
    BY <2>3, ResolvesNormal DEF FilesInv, Normal
  <2>5. Normal(cwd_path')
    BY <2>2, <2>4 DEF FilesInv
  <2>6. ~IsMounted'
    BY <2>1 DEF IsMounted, mountvars
  <2>7. QED
    BY <2>5, <2>6 DEF FilesInv
<1>4. CASE DivideError
  BY <1>1, <1>4 DEF DivideError
<1>5. CASE Reboot
  <2>1. cwd_path' = <<SLASH>>
    BY <1>5 DEF Reboot
  <2>2. QED
    BY <2>1, RootIsDir DEF FilesInv
<1>6. CASE UNCHANGED filevars
  BY <1>1, <1>6 DEF filevars
<1>7. QED
  BY <1>2, <1>3, <1>4, <1>5, <1>6 DEF FileStep

(* The working directory is a path in normal form that leads to a          *)
(* directory, whenever a file system is mounted.                           *)
THEOREM FilesInvariance == FileSpec => []FilesInv
<1>1. FilesInv /\ [FileStep]_filevars => FilesInv'
  BY FilesStep
<1>2. QED
  BY <1>1, FilesInitial, PTL DEF FileSpec

(* The working directory is a directory of the disk by a path in normal    *)
(* form, whatever is typed and whatever fails.                             *)
THEOREM CwdAlwaysDirectory == FileSpec => []CwdIsDirectory
<1>1. FilesInv => CwdIsDirectory
  <2>1. ASSUME FilesInv, IsMounted PROVE IsDirPath(cwd_path)
    BY <2>1, PathMeans DEF FilesInv, Normal
  <2>2. QED
    BY <2>1 DEF CwdIsDirectory, FilesInv, Normal
<1>2. QED
  BY <1>1, FilesInvariance, PTL

(* The path a command opens is text.                                       *)
LEMMA NamedType ==
  ASSUME FilesInv, NEW arg \in Args
  PROVE  Named(arg) \in Seq(Nat)
<1>1. arg \in Seq(Nat)
  BY ArgsAssumption
<1>2. cwd_path \in Seq(Nat) /\ vfs_resolve(arg) \in Seq(Nat)
  BY <1>1, ResolvesNormal DEF FilesInv, Normal
<1>3. QED
  BY <1>1, <1>2 DEF Named

(* A failing read or an exhausted heap is reported as such, to every       *)
(* command and for every path.                                             *)
LEMMA FaultsTold == FilesInv => FaultNotMisread
<1>1. SUFFICES ASSUME FilesInv, IsMounted, NEW arg \in Args, NEW fault \in Faults
      PROVE  /\ ext2_open(Named(arg), fault)
                  \in {Failed(EXT2_ERR_IO), ext2_open(Named(arg), NoFault)}
             /\ SameOrCut(ext2_list(Named(arg), fault), ext2_list(Named(arg), NoFault))
  BY Zenon DEF FaultNotMisread, SameOrCut
<1>2. Named(arg) \in Seq(Nat)
  BY <1>1, NamedType
<1>3. ext2_open(Named(arg), fault) \in {IOError, ext2_open(Named(arg), NoFault)}
  BY <1>1, <1>2, OpenIs
<1>4. SameOrCut(ext2_list(Named(arg), fault), ext2_list(Named(arg), NoFault))
  BY <1>1, <1>2, ListIs
<1>5. QED
  BY <1>3, <1>4 DEF IOError

(* A block that cannot be read never gives a wrong answer: each command    *)
(* with faults comes to what it comes to without them, or to an error.     *)
THEOREM FaultsNeverMisread == FileSpec => []FaultNotMisread
BY FaultsTold, FilesInvariance, PTL

-----------------------------------------------------------------------------
(* The walk by its tokens alone: what ends it says that the last may be a  *)
(* file, and so a token more asks for a directory before it.               *)

(* Where the tokens lead.                                                  *)
Reaches(toks) == Reached(toks, Upto(Len(toks)))

(* From where the tokens before it have led, by one token more.            *)
OneToken(r, tok) ==
  IF r.rc # EXT2_OK THEN r
  ELSE IF ~IsDir(r.copy) THEN Failed(EXT2_ERR_INVALID)
  ELSE Still(r, tok, TRUE)

(* The walk's step stays among its outcomes on a disk that never fails.    *)
LEMMA StillType ==
  ASSUME NEW toks
  PROVE  Root \in Outcomes /\ Operates(StillOp(toks), Outcomes, Nat)
<1>0. EXT2_ROOT_INODE \in OnDisk
  BY DiskIs
<1>1. ASSUME NEW x \in Outcomes, NEW i \in Nat PROVE StillStep(x, i, toks) \in Outcomes
  <2>1. CASE x.rc # EXT2_OK
    BY <2>1 DEF StillStep
  <2>2. CASE x.rc = EXT2_OK
    <3>1. PICK n \in OnDisk : x = FoundInode(n)
      BY <2>2, OutcomeIs
    <3>2. PICK ino : ino = Find(UnitsOf(n), toks[i], NoFault)
      OBVIOUS
    <3>3. ino \in OnDisk \cup {0} /\ x.copy = UnitsOf(n)
      BY <3>1, <3>2, FindIs, ResultCodes
    <3>4. Still(x, toks[i], i = Len(toks))
            = Looked(ino, FoundInode(ino), i = Len(toks), NoFault)
      BY ONLY <3>2, <3>3 DEF Still
    <3>5. ino \in OnDisk => FoundInode(ino) \in Outcomes
      BY DEF Outcomes
    <3>6. Looked(ino, FoundInode(ino), i = Len(toks), NoFault) \in Outcomes
      BY <3>3, <3>5 DEF Looked, Outcomes
    <3>7. QED
      BY <2>2, <3>4, <3>6 DEF StillStep
  <2>3. QED
    BY <2>1, <2>2
<1>2. QED
  BY <1>0, <1>1 DEF StillOp, Operates, Root, Outcomes

(* What Still finds in a directory.                                        *)
LEMMA StillFinds ==
  ASSUME NEW n \in OnDisk, NEW tok, NEW end
  PROVE  Still(FoundInode(n), tok, end)
           = Looked(Find(UnitsOf(n), tok, NoFault),
                    FoundInode(Find(UnitsOf(n), tok, NoFault)), end, NoFault)
<1>1. FoundInode(n).copy = UnitsOf(n)
  BY ResultCodes
<1>2. QED
  BY ONLY <1>1 DEF Still

(* A walk that goes on asks for a directory where it could have ended.     *)
LEMMA GoesOn ==
  ASSUME NEW x \in Outcomes, NEW tok
  PROVE  x.rc = EXT2_OK =>
           Still(x, tok, FALSE)
             = IF Still(x, tok, TRUE).rc = EXT2_OK /\ ~IsDir(Still(x, tok, TRUE).copy)
               THEN Failed(EXT2_ERR_INVALID) ELSE Still(x, tok, TRUE)
<1>1. SUFFICES ASSUME x.rc = EXT2_OK
      PROVE  Still(x, tok, FALSE)
             = IF Still(x, tok, TRUE).rc = EXT2_OK /\ ~IsDir(Still(x, tok, TRUE).copy)
               THEN Failed(EXT2_ERR_INVALID) ELSE Still(x, tok, TRUE)
  OBVIOUS
<1>2. PICK n \in OnDisk : x = FoundInode(n)
  BY <1>1, OutcomeIs
<1>3. PICK ino, next : ino = Find(UnitsOf(n), tok, NoFault) /\ next = FoundInode(ino)
  OBVIOUS
<1>4. \A end : Still(x, tok, end) = Looked(ino, next, end, NoFault)
  BY <1>2, <1>3, StillFinds
<1>5. IOError.rc # EXT2_OK /\ Failed(EXT2_ERR_PATH_NOT_FOUND).rc # EXT2_OK
  BY ResultCodes DEF IOError
<1>6. Looked(ino, next, FALSE, NoFault)
        = IF Looked(ino, next, TRUE, NoFault).rc = EXT2_OK
             /\ ~IsDir(Looked(ino, next, TRUE, NoFault).copy)
          THEN Failed(EXT2_ERR_INVALID) ELSE Looked(ino, next, TRUE, NoFault)
  BY <1>5 DEF Looked
<1>7. /\ Still(x, tok, FALSE) = Looked(ino, next, FALSE, NoFault)
      /\ Still(x, tok, TRUE) = Looked(ino, next, TRUE, NoFault)
  BY <1>4
<1>8. QED
  BY ONLY <1>6, <1>7

(* The places of n + 1 tokens.                                             *)
LEMMA PlacesAre ==
  ASSUME NEW n \in Nat
  PROVE  Upto(n) \in Seq(Nat) /\ Len(Upto(n)) = n /\ \A i \in 1..n : Upto(n)[i] = i
<1>1. PICK u : u = Upto(n)
  OBVIOUS
<1>2. u \in [1..n -> Nat] /\ \A i \in 1..n : u[i] = i
  BY <1>1 DEF Upto
<1>3. u \in Seq(Nat) /\ Len(u) = n
  BY <1>2
<1>4. QED
  BY <1>1, <1>2, <1>3

(* A walk as a chain of outcomes.                                          *)
WalkChain(a, toks, n) ==
  /\ Reaches(toks) = a[n] /\ a[0] = Root
  /\ \A m \in 1..n : a[m] = StillOp(toks)[<<a[m - 1], m>>]

(* Every walk is one.                                                      *)
LEMMA WalkLinks ==
  ASSUME NEW toks, NEW n \in Nat, n = Len(toks)
  PROVE  \E a : WalkChain(a, toks, n)
<1>1. PICK OP, u : OP = StillOp(toks) /\ u = Upto(n)
  OBVIOUS
<1>2. Len(u) = n /\ \A i \in 1..n : u[i] = i
  BY <1>1, PlacesAre
<1>3. Len(u) \in Nat
  BY <1>2
<1>4. PICK a : Links(a, OP, Root, u, Len(u)) /\ FoldOf(OP, Root, u) = a[Len(u)]
  BY ONLY <1>3, FoldLinks
<1>5. a[0] = Root /\ \A m \in 1..n : a[m] = OP[<<a[m - 1], u[m]>>]
  BY <1>2, <1>4 DEF Links
<1>6. \A m \in 1..n : a[m] = OP[<<a[m - 1], m>>]
  BY <1>2, <1>5
<1>7. Reaches(toks) = FoldOf(OP, Root, u)
  BY <1>1 DEF Reaches, Reached
<1>8. QED
  BY <1>1, <1>2, <1>4, <1>5, <1>6, <1>7 DEF WalkChain

(* Reaches, a token at a time.                                             *)
LEMMA ReachesGrow ==
  /\ Reaches(<<>>) = Root
  /\ \A toks \in Seq(Component) : Reaches(toks) \in Outcomes
  /\ \A toks \in Seq(Component) : \A tok \in Component :
       Reaches(Append(toks, tok)) = OneToken(Reaches(toks), tok)
<1>0. Root \in Outcomes
  BY StillType
<1>1. Reaches(<<>>) = Root
  <2>1. PICK e : e = <<>>
    OBVIOUS
  <2>2. PICK n \in Nat : n = Len(e) /\ n = 0
    BY <2>1
  <2>3. PICK a : WalkChain(a, e, n)
    BY <2>2, WalkLinks
  <2>4. QED
    BY <2>1, <2>2, <2>3 DEF WalkChain
<1>2. ASSUME NEW toks, NEW n \in Nat, n = Len(toks), NEW a, WalkChain(a, toks, n)
      PROVE  /\ \A m \in 0..n : a[m] \in Outcomes
             /\ \A m \in 1..n : a[m] = StillStep(a[m - 1], m, toks)
  <2> DEFINE T == {k \in Nat : k <= n => a[k] \in Outcomes}
  <2>1. 0 \in T
    BY <1>0, <1>2 DEF WalkChain
  <2>2. ASSUME NEW k \in Nat, k \in T PROVE k + 1 \in T
    <3>1. CASE k + 1 <= n
      <4>1. a[k] \in Outcomes /\ k + 1 \in 1..n /\ (k + 1) - 1 = k
        BY <2>2, <3>1
      <4>2. a[k + 1] = StillOp(toks)[<<a[k], k + 1>>]
        BY <1>2, <4>1 DEF WalkChain
      <4>3. StillOp(toks)[<<a[k], k + 1>>] \in Outcomes
        BY <4>1, StillType DEF Operates
      <4>4. QED
        BY <4>2, <4>3
    <3>2. QED
      BY <3>1
  <2> HIDE DEF T
  <2>3. Nat \subseteq T
    BY <2>1, <2>2, Successors
  <2>4. \A m \in 0..n : a[m] \in Outcomes
    BY <2>3 DEF T
  <2>5. ASSUME NEW m \in 1..n PROVE a[m] = StillStep(a[m - 1], m, toks)
    <3>1. m - 1 \in 0..n /\ m \in Nat
      OBVIOUS
    <3>2. a[m - 1] \in Outcomes
      BY <2>4, <3>1
    <3>3. a[m] = StillOp(toks)[<<a[m - 1], m>>]
      BY <1>2 DEF WalkChain
    <3>4. QED
      BY <3>1, <3>2, <3>3 DEF StillOp
  <2>6. QED
    BY <2>4, <2>5
<1>3. ASSUME NEW toks \in Seq(Component) PROVE Reaches(toks) \in Outcomes
  <2>1. PICK n \in Nat : n = Len(toks)
    OBVIOUS
  <2>2. PICK a : WalkChain(a, toks, n)
    BY <2>1, WalkLinks
  <2>3. a[n] \in Outcomes
    BY <1>2, <2>1, <2>2
  <2>4. QED
    BY <2>2, <2>3 DEF WalkChain
<1>4. ASSUME NEW toks \in Seq(Component), NEW tok \in Component
      PROVE  Reaches(Append(toks, tok)) = OneToken(Reaches(toks), tok)
  <2>1. PICK n \in Nat : n = Len(toks)
    OBVIOUS
  <2>2. PICK more : more = Append(toks, tok)
    OBVIOUS
  <2>3. /\ more \in Seq(Component) /\ Len(more) = n + 1 /\ more[n + 1] = tok
        /\ \A i \in 1..n : more[i] = toks[i]
    BY <2>1, <2>2
  <2>4. PICK a : WalkChain(a, toks, n)
    BY <2>1, WalkLinks
  <2>5. PICK k \in Nat : k = n + 1 /\ k = Len(more)
    BY <2>3
  <2>6. PICK b : WalkChain(b, more, k)
    BY <2>5, WalkLinks
  <2>7. /\ \A m \in 0..n : a[m] \in Outcomes
        /\ \A m \in 1..n : a[m] = StillStep(a[m - 1], m, toks)
    BY <1>2, <2>1, <2>4
  <2>8. /\ \A m \in 0..(n + 1) : b[m] \in Outcomes
        /\ \A m \in 1..(n + 1) : b[m] = StillStep(b[m - 1], m, more)
    <3>1. /\ \A m \in 0..k : b[m] \in Outcomes
          /\ \A m \in 1..k : b[m] = StillStep(b[m - 1], m, more)
      BY <1>2, <2>5, <2>6
    <3>2. QED
      BY ONLY <2>5, <3>1
  <2> DEFINE T == {l \in Nat : l < n => b[l] = a[l]}
  <2>9. 0 \in T
    BY <2>4, <2>6 DEF WalkChain
  <2>10. ASSUME NEW l \in Nat, l \in T PROVE l + 1 \in T
    <3>1. CASE l + 1 < n
      <4>1. b[l] = a[l] /\ l + 1 \in 1..n /\ l + 1 \in 1..(n + 1) /\ (l + 1) - 1 = l
        BY <2>10, <3>1
      <4>2. a[l + 1] = StillStep(a[l], l + 1, toks) /\ b[l + 1] = StillStep(b[l], l + 1, more)
        BY <2>7, <2>8, <4>1
      <4>3. more[l + 1] = toks[l + 1] /\ (l + 1 = Len(more)) = FALSE /\ (l + 1 = Len(toks)) = FALSE
        BY <2>1, <2>3, <3>1, <4>1
      <4>4. QED
        BY ONLY <4>1, <4>2, <4>3, l + 1 \in Nat DEF StillStep, T
    <3>2. QED
      BY <3>1
  <2> HIDE DEF T
  <2>11. Nat \subseteq T
    BY <2>9, <2>10, Successors
  <2>12. PICK r \in Outcomes : r = a[n]
    BY <2>7
  <2>13. b[n] = IF r.rc = EXT2_OK /\ ~IsDir(r.copy) THEN Failed(EXT2_ERR_INVALID) ELSE r
    <3>1. CASE n = 0
      <4>1. b[n] = Root /\ r = Root
        BY <2>4, <2>6, <2>12, <3>1 DEF WalkChain
      <4>2. IsDir(Root.copy)
        BY UnitsAre, DiskIs, ResultCodes DEF Root
      <4>3. QED
        BY <4>1, <4>2
    <3>2. CASE n # 0
      <4>1. n - 1 \in Nat /\ n - 1 < n /\ n \in 1..n /\ n \in 1..(n + 1) /\ n - 1 \in 0..n
        BY <3>2
      <4>2. PICK x \in Outcomes : x = a[n - 1] /\ x = b[n - 1]
        BY <2>7, <2>11, <4>1 DEF T
      <4>3. r = StillStep(x, n, toks) /\ b[n] = StillStep(x, n, more)
        BY <2>7, <2>8, <2>12, <4>1, <4>2
      <4>4. more[n] = toks[n] /\ (n = Len(more)) = FALSE /\ (n = Len(toks)) = TRUE
        BY <2>1, <2>3, <4>1
      <4>5. PICK c : c = toks[n]
        OBVIOUS
      <4>6. r = IF x.rc # EXT2_OK THEN x ELSE Still(x, c, TRUE)
        BY ONLY <4>3, <4>4, <4>5 DEF StillStep
      <4>7. b[n] = IF x.rc # EXT2_OK THEN x ELSE Still(x, c, FALSE)
        BY ONLY <4>3, <4>4, <4>5 DEF StillStep
      <4>8. x.rc = EXT2_OK =>
              Still(x, c, FALSE)
                = IF Still(x, c, TRUE).rc = EXT2_OK /\ ~IsDir(Still(x, c, TRUE).copy)
                  THEN Failed(EXT2_ERR_INVALID) ELSE Still(x, c, TRUE)
        BY GoesOn
      <4>9. QED
        BY ONLY <4>6, <4>7, <4>8
    <3>3. QED
      BY <3>1, <3>2
  <2>14. b[n + 1] = StillStep(b[n], n + 1, more)
    <3>1. n + 1 \in 1..(n + 1) /\ (n + 1) - 1 = n
      OBVIOUS
    <3>2. QED
      BY <2>8, <3>1
  <2>15. StillStep(b[n], n + 1, more) = IF b[n].rc # EXT2_OK THEN b[n] ELSE Still(b[n], tok, TRUE)
    <3>1. more[n + 1] = tok /\ (n + 1 = Len(more)) = TRUE
      BY <2>3
    <3>2. QED
      BY ONLY <3>1 DEF StillStep
  <2>16. Failed(EXT2_ERR_INVALID).rc # EXT2_OK
    BY ResultCodes
  <2>17. b[n + 1] = OneToken(r, tok)
    BY ONLY <2>13, <2>14, <2>15, <2>16 DEF OneToken
  <2>18. QED
    <3>1. Reaches(toks) = r /\ Reaches(more) = b[n + 1]
      BY <2>4, <2>5, <2>6, <2>12 DEF WalkChain
    <3>2. QED
      BY <2>2, <2>17, <3>1
<1>5. QED
  BY <1>1, <1>3, <1>4

-----------------------------------------------------------------------------
(* The tokens of the paths that vfs_normalize_path builds.                 *)

(* A rooted path that ends in a slash is a path and a slash.               *)
LEMMA EndsAsAppend ==
  ASSUME NEW v \in Rooted, v[Len(v)] = SLASH
  PROVE  \E w \in Seq(Nat) : v = Append(w, SLASH)
<1>1. v \in Seq(Nat) /\ Len(v) \in Nat /\ Len(v) > 0
  BY DEF Rooted
<1>2. CASE Len(v) > 1
  <2>1. v = Append(Trim(v), SLASH) /\ Trim(v) \in Rooted
    BY <1>2, Trimmed
  <2>2. QED
    BY <2>1 DEF Rooted
<1>3. CASE Len(v) = 1
  <2>1. PICK e : e = <<>>
    OBVIOUS
  <2>2. e \in Seq(Nat) /\ Len(e) = 0 /\ SLASH \in Nat
    BY <2>1 DEF SLASH
  <2>3. v = Append(e, SLASH)
    <3>1. PICK x : x = Append(e, SLASH)
      OBVIOUS
    <3>2. x \in Seq(Nat) /\ Len(x) = 1 /\ x[1] = SLASH
      BY <2>2, <3>1
    <3>3. \A i \in 1..Len(v) : v[i] = x[i]
      BY <1>3, <3>2
    <3>4. v = x
      BY ONLY <1>1, <1>3, <3>2, <3>3, SeqEqual
    <3>5. QED
      BY <3>1, <3>4
  <2>4. QED
    BY <2>2, <2>3
<1>4. PICK n \in Nat : n = Len(v)
  BY <1>1
<1>5. n > 1 \/ n = 1
  BY <1>1, <1>4
<1>6. QED
  BY <1>2, <1>3, <1>4, <1>5

(* A component behind a slash is a token more.                             *)
LEMMA TokensBehind ==
  ASSUME NEW v \in Rooted, v[Len(v)] = SLASH, NEW comp \in Component
  PROVE  Tokens(v \o comp) = Append(Tokens(v), comp)
<1>1. PICK w \in Seq(Nat) : v = Append(w, SLASH)
  BY EndsAsAppend
<1>2. QED
  BY <1>1, TokensJoin

(* A slash at the end makes no difference.                                 *)
LEMMA TokensTrimmed ==
  ASSUME NEW v \in Rooted
  PROVE  Tokens(Trim(v)) = Tokens(v) /\ Tokens(Slashed(v)) = Tokens(v)
<1>1. v \in Seq(Nat)
  BY DEF Rooted
<1>2. CASE EndsInSlash(v) /\ Len(v) > 1
  <2>1. v = Append(Trim(v), SLASH) /\ Trim(v) \in Seq(Nat)
    BY <1>2, Trimmed DEF Rooted
  <2>2. Slashed(v) = v
    BY <1>2 DEF Slashed
  <2>3. QED
    BY <2>1, <2>2, TokensJoin
<1>3. CASE ~(EndsInSlash(v) /\ Len(v) > 1)
  <2>1. Trim(v) = v
    BY <1>3, Trimmed
  <2>2. Slashed(v) \in {v, Append(v, SLASH)}
    BY DEF Slashed
  <2>3. QED
    BY <1>1, <2>1, <2>2, TokensJoin
<1>4. QED
  BY <1>2, <1>3

(* The root has no tokens.                                                 *)
LEMMA RootTokens == Tokens(<<SLASH>>) = <<>>
<1>1. <<>> \in Seq(Nat) /\ Append(<<>>, SLASH) = <<SLASH>>
  OBVIOUS
<1>2. QED
  BY <1>1, TokensJoin, NoTokensYet

(* ".." takes the last token from a path, or finds the root.               *)
LEMMA TokensPopped ==
  ASSUME NEW v \in Rooted, Trim(Trim(v)) = Trim(v)
  PROVE  \/ Trim(v) = <<SLASH>> /\ Pop(v) = <<SLASH>>
         \/ \E comp \in Component : Tokens(v) = Append(Tokens(Pop(v)), comp)
<1>1. PICK t \in Rooted : t = Trim(v)
  BY Trimmed
<1>2. PICK n \in Nat : n = Len(t)
  BY DEF Rooted
<1>3. t \in Seq(Nat) /\ n > 0 /\ t[1] = SLASH /\ DOMAIN t = 1..n
  BY <1>2 DEF Rooted
<1> DEFINE S == {i \in DOMAIN t : t[i] = SLASH}
<1>4. S \in SUBSET (1..n) /\ S # {}
  BY <1>3
<1>5. PICK m : m = Max(S)
  OBVIOUS
<1>6. m \in S /\ \A y \in S : m >= y
  BY <1>4, <1>5, Greatest
<1>7. m \in 1..n /\ t[m] = SLASH /\ \A i \in (m + 1)..n : t[i] # SLASH
  BY <1>3, <1>6
<1>8. Pop(v) = SubSeq(t, 1, m)
  BY <1>1, <1>5 DEF Pop
<1> HIDE DEF S
<1>9. PICK p : p = SubSeq(t, 1, m)
  OBVIOUS
<1>10. p \in Rooted /\ Len(p) = m /\ \A i \in 1..m : p[i] = t[i]
  BY <1>2, <1>7, <1>9, RootedPart
<1>11. Tokens(t) = Tokens(v)
  BY <1>1, TokensTrimmed
<1>12. CASE m = n
  <2>1. t[Len(t)] = SLASH /\ Trim(t) = t
    BY <1>1, <1>2, <1>7, <1>12
  <2>2. n = 1
    <3>1. SUFFICES ASSUME n > 1 PROVE FALSE
      BY <1>3
    <3>2. EndsInSlash(t)
      BY <2>1, Trimmed
    <3>3. Len(Trim(t)) = Len(t) - 1
      BY <1>2, <3>1, <3>2, Trimmed
    <3>4. QED
      BY <1>2, <2>1, <3>3
  <2>3. t = <<SLASH>>
    BY <1>2, <1>3, <2>2
  <2>4. p = t
    <3>1. SubSeq(t, 1, Len(t)) = t
      BY <1>3, SubSeqFull
    <3>2. QED
      BY <1>2, <1>9, <1>12, <3>1
  <2>5. QED
    BY <1>1, <1>8, <1>9, <2>3, <2>4
<1>13. CASE m # n
  <2>1. PICK k \in Nat : k = n - m /\ k > 0
    BY <1>7, <1>13
  <2>2. PICK comp : comp = [i \in 1..k |-> t[m + i]]
    OBVIOUS
  <2>3. \A i \in 1..k : t[m + i] \in InName
    BY <1>2, <1>3, <1>7, <2>1 DEF InName
  <2>4. comp \in Seq(InName) /\ Len(comp) = k /\ \A i \in 1..k : comp[i] = t[m + i]
    <3>1. comp \in [1..k -> InName]
      BY <2>2, <2>3
    <3>2. QED
      BY <2>1, <2>2, <3>1
  <2>5. comp \in Component
    <3>1. comp # <<>>
      BY <2>1, <2>4
    <3>2. QED
      BY <2>4, <3>1 DEF Component
  <2>6. p \o comp = t
    <3>1. PICK w : w = p \o comp
      OBVIOUS
    <3>2. /\ w \in Seq(Nat) /\ Len(w) = n
          /\ \A i \in 1..n : w[i] = IF i <= m THEN p[i] ELSE comp[i - m]
      <4>1. p \in Seq(Nat) /\ comp \in Seq(Nat)
        <5>1. InName \subseteq Nat
          BY DEF InName
        <5>2. QED
          BY <1>10, <2>4, <5>1, SeqMonotonic DEF Rooted
      <4>2. m + k = n
        BY <1>7, <2>1
      <4>3. /\ w \in Seq(Nat) /\ Len(w) = Len(p) + Len(comp)
            /\ \A i \in 1..(Len(p) + Len(comp)) :
                 w[i] = IF i <= Len(p) THEN p[i] ELSE comp[i - Len(p)]
        BY ONLY <3>1, <4>1, ConcatProperties
      <4>4. QED
        BY ONLY <1>10, <2>4, <4>2, <4>3
    <3>3. ASSUME NEW i \in 1..n PROVE w[i] = t[i]
      <4>1. CASE i <= m
        BY <1>7, <1>10, <3>2, <4>1
      <4>2. CASE ~(i <= m)
        <5>1. i - m \in 1..k /\ m + (i - m) = i
          BY <1>7, <2>1, <4>2
        <5>2. w[i] = comp[i - m]
          BY <3>2, <4>2
        <5>3. QED
          BY <2>4, <5>1, <5>2
      <4>3. QED
        BY <4>1, <4>2
    <3>4. w = t
      BY ONLY <1>2, <1>3, <3>2, <3>3, SeqEqual
    <3>5. QED
      BY <3>1, <3>4
  <2>7. p[Len(p)] = SLASH
    BY <1>7, <1>10
  <2>8. Tokens(t) = Append(Tokens(p), comp)
    BY <1>10, <2>5, <2>6, <2>7, TokensBehind
  <2>9. QED
    BY <1>8, <1>9, <1>11, <2>5, <2>8
<1>14. QED
  BY <1>12, <1>13

-----------------------------------------------------------------------------
(* A path that fits its buffer is never cut short.                         *)

(* st has room, k characters into the path.                                *)
Roomy(st, k) ==
  /\ st \in PathState /\ ~st.full
  /\ Len(st.tmp) > 1 => Len(st.tmp) < k

(* Later there is more.                                                    *)
LEMMA RoomyLater ==
  ASSUME NEW st, NEW k \in Nat, Roomy(st, k), NEW l \in Nat, k <= l
  PROVE  Roomy(st, l)
<1>1. st \in PathState /\ ~st.full
  BY DEF Roomy
<1>2. Len(st.tmp) \in Nat
  BY <1>1 DEF PathState, Rooted
<1>3. QED
  BY <1>1, <1>2 DEF Roomy

(* A component takes no more room than it has in the path.                 *)
LEMMA TakeRoomy ==
  ASSUME NEW st, NEW k \in Nat \ {0}, Roomy(st, k), NEW comp \in Component,
         k + Len(comp) < PATH_SIZE
  PROVE  Roomy(Take(st, comp), k + Len(comp) + 1)
<1>1. st \in PathState /\ st.full = FALSE /\ (Len(st.tmp) > 1 => Len(st.tmp) < k)
  BY DEF Roomy, PathState
<1>2. PICK v \in Rooted : v = st.tmp
  BY <1>1 DEF PathState
<1>3. PICK len \in Nat : len = Len(comp) /\ len > 0
  BY <1>2, PushedType
<1>4. PICK n \in Nat : n = Len(v) /\ n > 0
  BY DEF Rooted
<1>5. n > 1 => n < k
  BY <1>1, <1>2, <1>4
<1>6. PICK r : r = Take(st, comp)
  OBVIOUS
<1>7. r \in PathState
  BY <1>1, <1>6, TakeType
<1>8. CASE comp = <<DOT>>
  <2>1. r = st
    BY <1>6, <1>8 DEF Take
  <2>2. QED
    BY <1>1, <1>2, <1>3, <1>4, <1>5, <1>6, <2>1 DEF Roomy
<1>9. CASE comp # <<DOT>> /\ comp = <<DOT, DOT>>
  <2>1. PICK m \in 1..Len(v) : Pop(v) = SubSeq(v, 1, m)
    BY Popped
  <2>2. PICK w : w = Pop(v)
    OBVIOUS
  <2>3. Len(w) = m
    BY <2>1, <2>2, RootedPart
  <2>4. r = [st EXCEPT !.tmp = w]
    BY <1>1, <1>2, <1>6, <1>9, <2>2 DEF Take
  <2>5. r.tmp = w /\ r.full = FALSE
    BY <1>1, <2>4 DEF PathState
  <2>6. QED
    BY <1>3, <1>4, <1>5, <1>6, <1>7, <2>1, <2>3, <2>5 DEF Roomy
<1>10. CASE comp # <<DOT>> /\ comp # <<DOT, DOT>>
  <2>1. PICK t : t = Slashed(v)
    OBVIOUS
  <2>2. t \in Rooted /\ Len(t) <= Len(v) + 1
    BY <2>1, SlashedType
  <2>3. PICK q \in Nat : q = Len(t)
    BY <2>2 DEF Rooted
  <2>4. q <= k
    <3>1. CASE n > 1
      BY <1>4, <1>5, <2>2, <2>3, <3>1
    <3>2. CASE ~(n > 1)
      <4>1. t = v
        BY <1>4, <2>1, <3>2 DEF Slashed
      <4>2. QED
        BY <1>4, <2>3, <3>2, <4>1
    <3>3. QED
      BY <3>1, <3>2
  <2>5. r = Push(v, comp)
    BY <1>1, <1>2, <1>6, <1>10 DEF Take
  <2>6. ~(Len(t) + Len(comp) >= PATH_SIZE)
    <3>1. PATH_SIZE \in Nat
      BY Ext2Assumption
    <3>2. k + len < PATH_SIZE
      BY <1>3
    <3>3. ~(q + len >= PATH_SIZE)
      BY <2>4, <3>1, <3>2
    <3>4. QED
      BY <1>3, <2>3, <3>3
  <2>7. r = [tmp |-> t \o comp, full |-> FALSE]
    BY <2>1, <2>5, <2>6, PushIs
  <2>8. PICK w : w = t \o comp
    OBVIOUS
  <2>9. Len(w) = q + len
    BY <1>3, <2>2, <2>3, <2>8, PushedType
  <2>10. r.tmp = w /\ r.full = FALSE
    BY <2>7, <2>8
  <2>11. QED
    BY <1>3, <1>6, <1>7, <2>4, <2>9, <2>10 DEF Roomy
<1>11. QED
  BY <1>8, <1>9, <1>10

(* What has been cut off u leaves room.                                    *)
RoomAt(u) ==
  /\ Len(Cuts(u).run) < Len(u)
  /\ Roomy(Taken(Cuts(u).found), Len(u) - Len(Cuts(u).run))

(* So it is along a whole path.                                            *)
LEMMA RoomAlong ==
  ASSUME NEW s \in Seq(Nat), s # <<>>, s[1] = SLASH, Len(s) < PATH_SIZE
  PROVE  RoomAt(s)
<1> DEFINE T == {u \in Seq(Nat) : u # <<>> /\ u[1] = SLASH /\ Len(u) < PATH_SIZE => RoomAt(u)}
<1>1. <<>> \in T
  BY EmptySeq
<1>2. ASSUME NEW u \in Seq(Nat), NEW c \in Nat, u \in T PROVE Append(u, c) \in T
  <2>1. PICK n \in Nat : n = Len(u)
    OBVIOUS
  <2>2. PICK w : w = Append(u, c)
    OBVIOUS
  <2>3. w \in Seq(Nat) /\ Len(w) = n + 1 /\ w[n + 1] = c /\ (n > 0 => w[1] = u[1])
    BY <2>1, <2>2
  <2>4. SUFFICES ASSUME w[1] = SLASH, Len(w) < PATH_SIZE PROVE RoomAt(w)
    BY <2>2, <2>3
  <2>5. PICK t : t = Cuts(u)
    OBVIOUS
  <2>6. t \in CutState /\ Cuts(w) = CutStep(t, c)
    BY <2>2, <2>5, CutsGrow
  <2>7. t.found \in Seq(Component) /\ t.run \in Seq(InName)
    BY <2>6 DEF CutState
  <2>8. PICK r \in Nat : r = Len(t.run)
    BY <2>7
  <2>9. PICK st : st = Taken(t.found)
    OBVIOUS
  <2>10. st \in PathState
    BY <2>7, <2>9, TakenGrow
  <2>11. CASE n = 0
    <3>0. Len(u) = 0 /\ n + 1 = 1
      BY <2>1, <2>11
    <3>1. u = <<>> /\ c = SLASH
      <4>1. u = <<>>
        BY ONLY <3>0, EmptySeq
      <4>2. w[n + 1] = w[1]
        BY <3>0
      <4>3. QED
        BY <2>3, <2>4, <4>1, <4>2
    <3>2. t = NoTokens
      BY <2>5, <3>1, CutsGrow
    <3>3. Cuts(w) = [found |-> <<>>, run |-> <<>>]
      BY <2>6, <3>1, <3>2 DEF CutStep, Cut, NoTokens
    <3>4. PICK x : x = Cuts(w)
      OBVIOUS
    <3>5. x.found = <<>> /\ x.run = <<>> /\ Len(x.run) = 0
      BY <3>3, <3>4
    <3>6. Taken(x.found) = AtRoot
      BY <3>5, TakenGrow
    <3>7. AtRoot \in PathState /\ AtRoot.full = FALSE /\ Len(AtRoot.tmp) = 1
      BY SlashIsRooted DEF AtRoot
    <3>8. Roomy(AtRoot, 1)
      BY <3>7 DEF Roomy
    <3>9. Len(w) - Len(x.run) = 1 /\ Len(x.run) < Len(w)
      BY <2>3, <2>11, <3>5
    <3>10. QED
      BY <3>4, <3>6, <3>8, <3>9 DEF RoomAt
  <2>12. CASE n # 0
    <3>1. u # <<>> /\ u[1] = SLASH /\ Len(u) < PATH_SIZE
      <4>1. PATH_SIZE \in Nat /\ n + 1 < PATH_SIZE
        BY <2>3, <2>4, Ext2Assumption
      <4>2. n > 0 /\ n < PATH_SIZE
        BY <2>12, <4>1
      <4>3. QED
        BY <2>1, <2>3, <2>4, <4>2
    <3>2. r < n /\ Roomy(st, n - r)
      BY <1>2, <2>1, <2>5, <2>8, <2>9, <3>1 DEF RoomAt
    <3>3. CASE c # SLASH
      <4>1. Cuts(w) = [t EXCEPT !.run = Append(t.run, c)]
        BY <2>6, <3>3 DEF CutStep
      <4>2. PICK x, run : x = Cuts(w) /\ run = Append(t.run, c)
        OBVIOUS
      <4>3. x.found = t.found /\ x.run = run
        BY <2>6, <4>1, <4>2 DEF CutState
      <4>4. Len(run) = r + 1
        BY <2>7, <2>8, <4>2
      <4>5. Len(w) - Len(run) = n - r /\ Len(run) < Len(w)
        BY <2>3, <3>2, <4>4
      <4>6. QED
        BY ONLY <2>9, <3>2, <4>2, <4>3, <4>5 DEF RoomAt
    <3>4. CASE c = SLASH
      <4>1. Cuts(w) = [found |-> Cut(t), run |-> <<>>]
        BY <2>6, <3>4 DEF CutStep
      <4>2. PICK x : x = Cuts(w)
        OBVIOUS
      <4>3. x.found = Cut(t) /\ Len(x.run) = 0
        BY <4>1, <4>2
      <4>4. Roomy(Taken(Cut(t)), n + 1)
        <5>1. CASE t.run = <<>>
          <6>1. Cut(t) = t.found /\ r = 0
            BY <2>8, <5>1 DEF Cut
          <6>2. n - r \in Nat /\ n - r <= n + 1 /\ n + 1 \in Nat
            BY <6>1
          <6>3. Roomy(st, n + 1)
            BY <3>2, <6>2, RoomyLater
          <6>4. QED
            BY <2>9, <6>1, <6>3
        <5>2. CASE t.run # <<>>
          <6>1. PICK comp \in Component : comp = t.run
            BY <2>7, <5>2 DEF Component
          <6>2. Cut(t) = Append(t.found, comp)
            BY <5>2, <6>1 DEF Cut
          <6>3. Taken(Cut(t)) = Take(st, comp)
            BY <2>7, <2>9, <6>2, TakenGrow
          <6>4. PICK k \in Nat \ {0} : k = n - r
            BY <3>2
          <6>5. Len(comp) = r /\ k + Len(comp) = n /\ n < PATH_SIZE
            BY <2>1, <2>8, <3>1, <6>1, <6>4
          <6>6. Roomy(Take(st, comp), k + Len(comp) + 1)
            BY <3>2, <6>4, <6>5, TakeRoomy
          <6>7. QED
            BY <6>3, <6>5, <6>6
        <5>3. QED
          BY <5>1, <5>2
      <4>5. Len(w) - 0 = n + 1 /\ 0 < Len(w)
        BY <2>3
      <4>6. QED
        BY <4>2, <4>3, <4>4, <4>5 DEF RoomAt
    <3>5. QED
      BY <3>3, <3>4
  <2>13. QED
    BY <2>11, <2>12
<1> HIDE DEF T
<1>3. Seq(Nat) \subseteq T
  BY <1>1, <1>2, AllSequences
<1>4. QED
  BY <1>3 DEF T

(* And at its end.                                                         *)
LEMMA NeverFull ==
  ASSUME NEW s \in Seq(Nat), s # <<>>, s[1] = SLASH, Len(s) < PATH_SIZE
  PROVE  Taken(Tokens(s)).full = FALSE
<1>1. PICK t : t = Cuts(s)
  OBVIOUS
<1>2. t \in CutState /\ Tokens(s) = Cut(t)
  BY <1>1, CutsGrow, TokensUnfold
<1>3. t.found \in Seq(Component) /\ t.run \in Seq(InName)
  BY <1>2 DEF CutState
<1>4. PICK n \in Nat, r \in Nat : n = Len(s) /\ r = Len(t.run)
  BY <1>3
<1>5. RoomAt(s)
  BY RoomAlong
<1>6. r < n /\ Roomy(Taken(t.found), n - r)
  BY <1>1, <1>4, <1>5 DEF RoomAt
<1>7. CASE t.run = <<>>
  <2>1. Cut(t) = t.found
    BY <1>7 DEF Cut
  <2>2. QED
    BY <1>2, <1>6, <2>1 DEF Roomy, PathState
<1>8. CASE t.run # <<>>
  <2>1. PICK comp \in Component : comp = t.run
    BY <1>3, <1>8 DEF Component
  <2>2. Cut(t) = Append(t.found, comp)
    BY <1>8, <2>1 DEF Cut
  <2>3. Taken(Cut(t)) = Take(Taken(t.found), comp)
    BY <1>3, <2>2, TakenGrow
  <2>4. PICK k \in Nat \ {0} : k = n - r
    BY <1>6
  <2>5. Len(comp) = r /\ k + Len(comp) < PATH_SIZE
    BY <1>4, <2>1, <2>4
  <2>6. Roomy(Take(Taken(t.found), comp), k + Len(comp) + 1)
    BY <1>6, <2>4, <2>5, TakeRoomy
  <2>7. QED
    BY <1>2, <2>3, <2>6 DEF Roomy, PathState
<1>9. QED
  BY <1>7, <1>8

-----------------------------------------------------------------------------
(* The tree of directories.                                                *)

(* The names a search may find besides "." and "..".                       *)
Plain == Component \ {<<DOT>>, <<DOT, DOT>>}

(* An entry of block b of this name, with this inode.                      *)
HasEntry(b, tok, ino) ==
  \E i \in DOMAIN DirBlocks[b] : DirBlocks[b][i].name = tok /\ DirBlocks[b][i].inode = ino

(* The search of a block finds one of its entries.                         *)
LEMMA FindInNames ==
  ASSUME NEW b \in AllBlocks, NEW tok
  PROVE  FindIn(b, tok) # 0 => HasEntry(b, tok, FindIn(b, tok))
<1>1. PICK all : all = DirBlocks[b]
  OBVIOUS
<1>2. PICK n \in Nat : n = Len(all) /\ all \in Seq(DirEntries) /\ DOMAIN all = 1..n
  <2>1. all \in Seq(DirEntries)
    BY <1>1, DiskIs
  <2>2. QED
    BY <2>1, LenProperties
<1>3. PICK stops : stops = {i \in DOMAIN all : all[i].shape = "zero"}
  OBVIOUS
<1>4. PICK entries : entries = Searched(b)
  OBVIOUS
<1>5. entries = IF stops = {} THEN all ELSE SubSeq(all, 1, Min(stops) - 1)
  BY <1>1, <1>3, <1>4 DEF Searched, EntriesBefore
<1>6. \A i \in DOMAIN entries : i \in 1..n /\ entries[i] = all[i]
  <2>1. CASE stops = {}
    BY <1>2, <1>5, <2>1
  <2>2. CASE stops # {}
    <3>1. stops \subseteq Nat /\ stops \subseteq 1..n
      BY <1>2, <1>3
    <3>2. PICK m : m = Min(stops)
      OBVIOUS
    <3>3. m \in 1..n
      BY <2>2, <3>1, <3>2, LeastIs
    <3>4. entries = SubSeq(all, 1, m - 1)
      BY <1>5, <2>2, <3>2
    <3>5. QED
      BY <1>2, <3>3, <3>4
  <2>3. QED
    BY <2>1, <2>2
<1>7. PICK hits : hits = {i \in DOMAIN entries : Matches(entries[i], tok)}
  OBVIOUS
<1>8. FindIn(b, tok) = IF hits = {} THEN 0 ELSE entries[Min(hits)].inode
  BY <1>4, <1>7 DEF FindIn
<1>9. SUFFICES ASSUME hits # {} PROVE HasEntry(b, tok, entries[Min(hits)].inode)
  BY <1>8
<1>10. PICK k : k = Min(hits)
  OBVIOUS
<1>11. k \in hits
  <2>1. hits \subseteq Nat
    BY <1>6, <1>7
  <2>2. QED
    BY <1>9, <1>10, <2>1, LeastIs
<1>12. k \in DOMAIN all /\ entries[k] = all[k] /\ entries[k].name = tok
  BY <1>2, <1>6, <1>7, <1>11 DEF Matches
<1>13. QED
  BY <1>1, <1>10, <1>12 DEF HasEntry

(* The search of several blocks finds an entry of one of them.             *)
LEMMA FoundNames ==
  ASSUME NEW S, S \subseteq AllBlocks, NEW s \in Seq(S), NEW tok
  PROVE  Found(tok, NoFault, s) # 0 =>
           \E b \in S : HasEntry(b, tok, Found(tok, NoFault, s))
<1> DEFINE T == {u \in Seq(S) : Found(tok, NoFault, u) # 0 =>
                                  \E b \in S : HasEntry(b, tok, Found(tok, NoFault, u))}
<1>1. <<>> \in T
  <2>1. <<>> \in Seq(S) /\ Found(tok, NoFault, <<>>) = 0
    BY EmptySeq, FoundGrow
  <2>2. QED
    BY <2>1
<1>2. ASSUME NEW u \in Seq(S), NEW b \in S, u \in T PROVE Append(u, b) \in T
  <2>1. u \in Seq(AllBlocks) /\ b \in AllBlocks
    OBVIOUS
  <2>2. PICK x, y, f : x = Found(tok, NoFault, u) /\ y = Found(tok, NoFault, Append(u, b))
                       /\ f = FindIn(b, tok)
    OBVIOUS
  <2>3. y = FindStep(x, b, tok, NoFault)
    BY <2>1, <2>2, FoundGrow
  <2>4. y = IF x # 0 THEN x ELSE f
    BY <2>2, <2>3 DEF FindStep, NoFault
  <2>5. x # 0 => \E d \in S : HasEntry(d, tok, x)
    BY <1>2, <2>2
  <2>6. f # 0 => HasEntry(b, tok, f)
    BY <2>1, <2>2, FindInNames
  <2>7. y # 0 => \E d \in S : HasEntry(d, tok, y)
    BY <2>4, <2>5, <2>6
  <2>8. Append(u, b) \in Seq(S)
    BY AppendProperties
  <2>9. QED
    BY <2>2, <2>7, <2>8
<1> HIDE DEF T
<1>3. Seq(S) \subseteq T
  BY <1>1, <1>2, AllSequences
<1>4. QED
  BY <1>3 DEF T

(* What TreeAssumption says of a search: "." of a directory is itself, ".."*)
(* of the root is the root, and ".." of what a directory has under another *)
(* name leads back to it.                                                  *)
LEMMA TreeIs ==
  ASSUME NEW n \in OnDisk, Inodes[n].dir
  PROVE  /\ Find(UnitsOf(n), <<DOT>>, NoFault) = n
         /\ n = EXT2_ROOT_INODE => Find(UnitsOf(n), <<DOT, DOT>>, NoFault) = n
         /\ \A tok \in Plain :
              LET ino == Find(UnitsOf(n), tok, NoFault)
              IN  ino # 0 /\ Inodes[ino].dir =>
                    Find(UnitsOf(ino), <<DOT, DOT>>, NoFault) = n
<1>1. \A m : \A tok : Lookup(m, tok) = Find(UnitsOf(m), tok, NoFault)
  BY DEF Lookup, UnitsOf
<1>2. Find(UnitsOf(n), <<DOT>>, NoFault) = n
  BY <1>1, TreeAssumption DEF OnDisk
<1>3. n = EXT2_ROOT_INODE => Find(UnitsOf(n), <<DOT, DOT>>, NoFault) = n
  BY <1>1, TreeAssumption
<1>4. ASSUME NEW tok \in Plain, NEW ino, ino = Find(UnitsOf(n), tok, NoFault),
             ino # 0, Inodes[ino].dir
      PROVE  Find(UnitsOf(ino), <<DOT, DOT>>, NoFault) = n
  <2>1. PICK s : s = DirectBlocks(UnitsOf(n))
    OBVIOUS
  <2>2. s \in Seq(BlocksOf(n)) /\ BlocksOf(n) \subseteq AllBlocks
    BY <2>1, DirectBlocksOf, BlocksOnDisk
  <2>3. Found(tok, NoFault, s) = ino
    BY <1>4, <2>1, FindUnfolds
  <2>4. PICK b \in BlocksOf(n) : HasEntry(b, tok, ino)
    BY <1>4, <2>2, <2>3, FoundNames
  <2>5. PICK k \in DOMAIN Inodes[n].block : b = Inodes[n].block[k] /\ b # ""
    BY <2>4 DEF BlocksOf
  <2>6. PICK i \in DOMAIN DirBlocks[b] : DirBlocks[b][i].name = tok /\ DirBlocks[b][i].inode = ino
    BY <2>4 DEF HasEntry
  <2>7. tok \notin {<<DOT>>, <<DOT, DOT>>}
    BY DEF Plain
  <2>8. Lookup(ino, <<DOT, DOT>>) = n
    <3>1. \A l \in DOMAIN Inodes[n].block : Inodes[n].block[l] # "" =>
            \A j \in DOMAIN DirBlocks[Inodes[n].block[l]] :
              LET ent == DirBlocks[Inodes[n].block[l]][j]
              IN  /\ ent.inode # 0 /\ Inodes[ent.inode].dir
                  /\ ent.name \notin {<<DOT>>, <<DOT, DOT>>}
                  => Lookup(ent.inode, <<DOT, DOT>>) = n
      BY TreeAssumption DEF OnDisk
    <3>2. PICK ent : ent = DirBlocks[Inodes[n].block[k]][i]
      OBVIOUS
    <3>3. ent.inode # 0 /\ Inodes[ent.inode].dir /\ ent.name \notin {<<DOT>>, <<DOT, DOT>>}
      BY <1>4, <2>5, <2>6, <2>7, <3>2
    <3>4. Lookup(ent.inode, <<DOT, DOT>>) = n
      BY ONLY <2>5, <2>6, <3>1, <3>2, <3>3
    <3>5. QED
      BY <2>5, <2>6, <3>2, <3>4
  <2>9. QED
    BY <1>1, <2>8
<1>5. QED
  BY <1>2, <1>3, <1>4

(* A token more, from a walk that has ended in inode n.                    *)
LEMMA OneMoreToken ==
  ASSUME NEW r \in Outcomes, NEW tok, OneToken(r, tok).rc = EXT2_OK
  PROVE  \E n \in OnDisk, m \in OnDisk :
           /\ r = FoundInode(n) /\ Inodes[n].dir
           /\ m = Find(UnitsOf(n), tok, NoFault)
           /\ OneToken(r, tok) = FoundInode(m)
<1>1. r.rc = EXT2_OK
  BY DEF OneToken
<1>2. PICK n \in OnDisk : r = FoundInode(n)
  BY <1>1, OutcomeIs
<1>3. IsDir(r.copy) /\ r.copy = UnitsOf(n)
  <2>1. ~IsDir(r.copy) => OneToken(r, tok) = Failed(EXT2_ERR_INVALID)
    BY <1>1 DEF OneToken
  <2>2. Failed(EXT2_ERR_INVALID).rc = EXT2_ERR_INVALID /\ EXT2_ERR_INVALID # EXT2_OK
    BY ResultCodes
  <2>3. r.copy = UnitsOf(n)
    BY <1>2, ResultCodes
  <2>4. QED
    BY <2>1, <2>2, <2>3
<1>4. Inodes[n].dir
  BY <1>3, UnitsAre
<1>5. PICK m : m = Find(UnitsOf(n), tok, NoFault)
  OBVIOUS
<1>6. OneToken(r, tok) = Looked(m, FoundInode(m), TRUE, NoFault)
  BY <1>1, <1>2, <1>3, <1>5, StillFinds DEF OneToken
<1>7. m \in OnDisk \cup {0}
  BY <1>5, FindIs
<1>8. m # 0
  BY <1>6, ResultCodes DEF Looked, IOError
<1>9. m # -1 /\ NoFault.room
  <2>1. OnDisk \subseteq Nat \ {0}
    BY DiskIs
  <2>2. QED
    BY ONLY <1>7, <2>1 DEF NoFault
<1>10. OneToken(r, tok) = FoundInode(m)
  BY <1>6, <1>8, <1>9 DEF Looked
<1>11. QED
  BY <1>2, <1>4, <1>5, <1>7, <1>8, <1>10

(* Where a walk by these tokens has come, the text they have made so far   *)
(* leads too.                                                              *)
Alike(toks) ==
  LET st == Taken(toks)
      made == Tokens(st.tmp)
  IN  /\ Tidied(st)
      /\ ~st.full =>
           /\ made \in Seq(Plain)
           /\ Reaches(toks).rc = EXT2_OK => Reaches(made) = Reaches(toks)

-----------------------------------------------------------------------------
(* A result tells its inode.                                               *)
LEMMA SameInode ==
  ASSUME NEW n, NEW m, FoundInode(n) = FoundInode(m)
  PROVE  n = m
<1>1. UnitsOf(n) = UnitsOf(m)
  BY ResultCodes
<1>2. 1 \in 1..INODE
  BY Ext2Assumption
<1>3. UnitsOf(n)[1] = <<n, 0>> /\ UnitsOf(m)[1] = <<m, 0>>
  BY <1>2 DEF UnitsOf
<1>4. QED
  BY <1>1, <1>3

(* It starts so.                                                           *)
LEMMA AlikeFirst == Alike(<<>>)
<1>1. PICK e : e = <<>>
  OBVIOUS
<1>2. Taken(e) = AtRoot /\ Tidied(AtRoot)
  BY <1>1, TakenGrow, RootIsGood
<1>3. Tokens(AtRoot.tmp) = e
  BY <1>1, RootTokens DEF AtRoot
<1>4. e \in Seq(Plain)
  BY <1>1, EmptySeq
<1>5. QED
  BY <1>1, <1>2, <1>3, <1>4 DEF Alike

(* By ".": both stay.                                                      *)
LEMMA AlikeDot ==
  ASSUME NEW toks \in Seq(Component), Alike(toks), <<DOT>> \in Component
  PROVE  Alike(Append(toks, <<DOT>>))
<1>0. PICK dot \in Component : dot = <<DOT>>
  OBVIOUS
<1>1. PICK all : all = Append(toks, dot) /\ dot = <<DOT>>
  BY <1>0
<1>2. Taken(all) = Taken(toks)
  <2>1. Taken(all) = Take(Taken(toks), dot)
    BY <1>1, TakenGrow
  <2>2. QED
    BY <1>1, <2>1 DEF Take
<1>3. PICK r \in Outcomes : r = Reaches(toks)
  BY ReachesGrow
<1>4. Reaches(all) = OneToken(r, dot)
  BY <1>1, <1>3, ReachesGrow
<1>5. ASSUME Reaches(all).rc = EXT2_OK PROVE Reaches(all) = r /\ r.rc = EXT2_OK
  <2>1. OneToken(r, dot).rc = EXT2_OK
    BY <1>4, <1>5
  <2>2. PICK n \in OnDisk, m \in OnDisk :
          /\ r = FoundInode(n) /\ Inodes[n].dir
          /\ m = Find(UnitsOf(n), dot, NoFault)
          /\ OneToken(r, dot) = FoundInode(m)
    BY <2>1, OneMoreToken
  <2>3. m = n
    BY <1>1, <2>2, TreeIs
  <2>4. QED
    BY <1>4, <1>5, <2>2, <2>3
<1>6. Alike(all)
  BY <1>1, <1>2, <1>3, <1>5 DEF Alike
<1>7. QED
  BY <1>1, <1>6

(* By "..": both go up, or stay at the root.                               *)
LEMMA AlikeUp ==
  ASSUME NEW toks \in Seq(Component), Alike(toks), <<DOT, DOT>> \in Component
  PROVE  Alike(Append(toks, <<DOT, DOT>>))
<1>0. PICK up \in Component : up = <<DOT, DOT>>
  OBVIOUS
<1>1. PICK all : all = Append(toks, up) /\ up = <<DOT, DOT>>
  BY <1>0
<1>2. PICK st : st = Taken(toks)
  OBVIOUS
<1>3. st \in PathState /\ Tidied(st) /\ Taken(all) = Take(st, up)
  BY <1>1, <1>2, TakenGrow DEF Alike
<1>4. Tidied(Taken(all))
  BY <1>3, TakeTidied
<1>5. up # <<DOT>>
  <2>1. Len(up) = 2 /\ Len(<<DOT>>) = 1
    BY <1>1
  <2>2. QED
    BY <2>1
<1>6. Taken(all) = IF st.full THEN st ELSE [st EXCEPT !.tmp = Pop(st.tmp)]
  BY <1>1, <1>3, <1>5 DEF Take
<1>7. SUFFICES ASSUME ~Taken(all).full
      PROVE  LET made == Tokens(Taken(all).tmp)
             IN  /\ made \in Seq(Plain)
                 /\ Reaches(all).rc = EXT2_OK => Reaches(made) = Reaches(all)
  BY <1>1, <1>4 DEF Alike
<1>8. PICK v \in Rooted : v = st.tmp
  BY <1>3 DEF PathState
<1>9. ~st.full /\ Taken(all).tmp = Pop(v)
  BY <1>3, <1>6, <1>7, <1>8 DEF PathState
<1>10. PICK before, made : before = Tokens(v) /\ made = Tokens(Pop(v))
  OBVIOUS
<1>11. PICK r \in Outcomes : r = Reaches(toks)
  BY ReachesGrow
<1>12. before \in Seq(Plain) /\ (r.rc = EXT2_OK => Reaches(before) = r)
  BY <1>2, <1>8, <1>9, <1>10, <1>11 DEF Alike
<1>13. Reaches(all) = OneToken(r, up)
  BY <1>1, <1>11, ReachesGrow
<1>14. ASSUME Reaches(all).rc = EXT2_OK
       PROVE  \E n \in OnDisk, m \in OnDisk :
                /\ Reaches(before) = FoundInode(n) /\ Inodes[n].dir
                /\ m = Find(UnitsOf(n), up, NoFault)
                /\ Reaches(all) = FoundInode(m)
  <2>1. OneToken(r, up).rc = EXT2_OK
    BY <1>13, <1>14
  <2>2. PICK n \in OnDisk, m \in OnDisk :
          /\ r = FoundInode(n) /\ Inodes[n].dir
          /\ m = Find(UnitsOf(n), up, NoFault)
          /\ OneToken(r, up) = FoundInode(m)
    BY <2>1, OneMoreToken
  <2>3. r.rc = EXT2_OK
    BY <2>2, ResultCodes
  <2>4. QED
    BY <1>12, <1>13, <2>2, <2>3
<1>15. Trim(Trim(v)) = Trim(v)
  BY <1>3, <1>8 DEF Tidied, Orderly, Good
<1>16. CASE Trim(v) = <<SLASH>> /\ Pop(v) = <<SLASH>>
  <2>1. before = <<>> /\ made = <<>>
    <3>1. Tokens(Trim(v)) = before
      BY <1>10, TokensTrimmed
    <3>2. QED
      BY <1>10, <1>16, <3>1, RootTokens
  <2>2. ASSUME Reaches(all).rc = EXT2_OK PROVE Reaches(made) = Reaches(all)
    <3>1. PICK n \in OnDisk, m \in OnDisk :
            /\ Reaches(before) = FoundInode(n) /\ Inodes[n].dir
            /\ m = Find(UnitsOf(n), up, NoFault)
            /\ Reaches(all) = FoundInode(m)
      BY <1>14, <2>2
    <3>2. Reaches(before) = FoundInode(EXT2_ROOT_INODE)
      BY <2>1, ReachesGrow DEF Root
    <3>3. n = EXT2_ROOT_INODE
      BY ONLY <3>1, <3>2, SameInode, DiskIs
    <3>4. m = n
      BY <1>1, <3>1, <3>3, TreeIs
    <3>5. QED
      BY <2>1, <3>1, <3>4
  <2>3. made \in Seq(Plain)
    BY <2>1, EmptySeq
  <2>4. QED
    BY <1>9, <1>10, <2>2, <2>3
<1>17. CASE \E comp \in Component : before = Append(made, comp)
  <2>1. PICK comp \in Component : before = Append(made, comp)
    BY <1>17
  <2>2. made \in Seq(Component)
    <3>1. Pop(v) \in Rooted
      BY Popped, RootedPart
    <3>2. QED
      BY <1>10, <3>1, TokensType DEF Rooted
  <2>3. made \in Seq(Plain) /\ comp \in Plain
    <3>1. PICK k \in Nat : k = Len(made)
      BY <2>2
    <3>2. Len(before) = k + 1 /\ before[k + 1] = comp /\ \A i \in 1..k : before[i] = made[i]
      BY <2>1, <2>2, <3>1
    <3>3. \A i \in 1..(k + 1) : before[i] \in Plain
      BY <1>12, <3>2
    <3>4. comp \in Plain /\ \A i \in 1..k : made[i] \in Plain
      BY <3>2, <3>3
    <3>5. made = [i \in 1..k |-> made[i]]
      BY <2>2, <3>1
    <3>6. QED
      BY <3>4, <3>5
  <2>4. ASSUME Reaches(all).rc = EXT2_OK PROVE Reaches(made) = Reaches(all)
    <3>1. PICK n \in OnDisk, m \in OnDisk :
            /\ Reaches(before) = FoundInode(n) /\ Inodes[n].dir
            /\ m = Find(UnitsOf(n), up, NoFault)
            /\ Reaches(all) = FoundInode(m)
      BY <1>14, <2>4
    <3>2. PICK q \in Outcomes : q = Reaches(made)
      BY <2>2, ReachesGrow
    <3>3. Reaches(before) = OneToken(q, comp)
      BY <2>1, <2>2, <3>2, ReachesGrow
    <3>4. OneToken(q, comp) = FoundInode(n) /\ OneToken(q, comp).rc = EXT2_OK
      BY <3>1, <3>3, ResultCodes
    <3>5. PICK d \in OnDisk, l \in OnDisk :
            /\ q = FoundInode(d) /\ Inodes[d].dir
            /\ l = Find(UnitsOf(d), comp, NoFault)
            /\ OneToken(q, comp) = FoundInode(l)
      BY <3>4, OneMoreToken
    <3>6. l = n
      BY ONLY <3>4, <3>5, SameInode
    <3>7. n # 0
      BY DiskIs
    <3>8. Find(UnitsOf(n), up, NoFault) = d
      <4>1. \A tok \in Plain :
              LET ino == Find(UnitsOf(d), tok, NoFault)
              IN  ino # 0 /\ Inodes[ino].dir => Find(UnitsOf(ino), <<DOT, DOT>>, NoFault) = d
        BY <3>5, TreeIs
      <4>2. Find(UnitsOf(d), comp, NoFault) = n
        BY <3>5, <3>6
      <4>3. Find(UnitsOf(n), <<DOT, DOT>>, NoFault) = d
        BY <2>3, <3>1, <3>7, <4>1, <4>2
      <4>4. QED
        BY <1>1, <4>3
    <3>9. m = d
      BY <3>1, <3>8
    <3>10. QED
      BY <3>1, <3>2, <3>5, <3>9
  <2>5. QED
    BY <1>9, <1>10, <2>3, <2>4
<1>18. QED
  BY <1>10, <1>15, <1>16, <1>17, TokensPopped

-----------------------------------------------------------------------------
(* By a name: both go down, unless the text is full.                       *)
LEMMA AlikeName ==
  ASSUME NEW toks \in Seq(Component), Alike(toks), NEW comp \in Plain
  PROVE  Alike(Append(toks, comp))
<1>1. PICK all : all = Append(toks, comp)
  OBVIOUS
<1>2. comp \in Component /\ comp # <<DOT>> /\ comp # <<DOT, DOT>>
  BY DEF Plain
<1>3. PICK st : st = Taken(toks)
  OBVIOUS
<1>4. st \in PathState /\ Tidied(st) /\ Taken(all) = Take(st, comp)
  BY <1>1, <1>2, <1>3, TakenGrow DEF Alike
<1>5. Tidied(Taken(all))
  BY <1>2, <1>4, TakeTidied
<1>6. PICK v \in Rooted : v = st.tmp
  BY <1>4 DEF PathState
<1>7. Taken(all) = IF st.full THEN st ELSE Push(v, comp)
  BY <1>2, <1>4, <1>6 DEF Take
<1>8. SUFFICES ASSUME ~Taken(all).full
      PROVE  LET made == Tokens(Taken(all).tmp)
             IN  /\ made \in Seq(Plain)
                 /\ Reaches(all).rc = EXT2_OK => Reaches(made) = Reaches(all)
  BY <1>1, <1>5 DEF Alike
<1>9. ~st.full
  BY <1>7, <1>8
<1>10. PICK t \in Rooted : t = Slashed(v) /\ t[Len(t)] = SLASH
  BY SlashedType
<1>11. Taken(all).tmp = t \o comp
  <2>1. PICK big : big = (Len(t) + Len(comp) >= PATH_SIZE)
    OBVIOUS
  <2>2. Taken(all) = IF big THEN [tmp |-> t, full |-> TRUE]
                     ELSE [tmp |-> t \o comp, full |-> FALSE]
    BY <1>7, <1>9, <1>10, <2>1, PushIs
  <2>3. QED
    BY <1>8, <2>2
<1>12. PICK before : before = Tokens(v)
  OBVIOUS
<1>13. before \in Seq(Plain) /\ before \in Seq(Component)
  <2>1. before \in Seq(Plain)
    BY <1>3, <1>6, <1>9, <1>12 DEF Alike
  <2>2. v \in Seq(Nat)
    BY DEF Rooted
  <2>3. QED
    BY <1>12, <2>1, <2>2, TokensType
<1>14. Tokens(Taken(all).tmp) = Append(before, comp)
  <2>1. Tokens(t \o comp) = Append(Tokens(t), comp)
    BY <1>2, <1>10, TokensBehind
  <2>2. Tokens(t) = before
    BY <1>10, <1>12, TokensTrimmed
  <2>3. QED
    BY <1>11, <2>1, <2>2
<1>15. PICK r \in Outcomes : r = Reaches(toks)
  BY ReachesGrow
<1>16. Reaches(all) = OneToken(r, comp)
  BY <1>1, <1>2, <1>15, ReachesGrow
<1>17. r.rc = EXT2_OK => Reaches(before) = r
  BY <1>3, <1>6, <1>9, <1>12, <1>15 DEF Alike
<1>18. Reaches(Append(before, comp)) = OneToken(Reaches(before), comp)
  BY <1>2, <1>13, ReachesGrow
<1>19. Reaches(all).rc = EXT2_OK => r.rc = EXT2_OK
  BY <1>16 DEF OneToken
<1>20. Append(before, comp) \in Seq(Plain)
  BY <1>13, AppendProperties
<1>21. QED
  BY <1>14, <1>16, <1>17, <1>18, <1>19, <1>20

(* So it is for every walk.                                                *)
LEMMA AlikeAlways ==
  ASSUME NEW toks \in Seq(Component)
  PROVE  Alike(toks)
<1> DEFINE T == {u \in Seq(Component) : Alike(u)}
<1>1. <<>> \in T
  BY EmptySeq, AlikeFirst
<1>2. ASSUME NEW u \in Seq(Component), NEW comp \in Component, u \in T
      PROVE  Append(u, comp) \in T
  <2>1. Alike(u)
    BY <1>2
  <2>2. CASE comp = <<DOT>>
    BY <2>1, <2>2, AlikeDot
  <2>3. CASE comp = <<DOT, DOT>>
    BY <2>1, <2>3, AlikeUp
  <2>4. CASE comp \notin {<<DOT>>, <<DOT, DOT>>}
    <3>1. comp \in Plain
      BY <2>4 DEF Plain
    <3>2. QED
      BY <2>1, <3>1, AlikeName
  <2>5. Append(u, comp) \in Seq(Component)
    BY AppendProperties
  <2>6. Alike(Append(u, comp))
    BY <2>2, <2>3, <2>4
  <2>7. QED
    BY <2>5, <2>6
<1> HIDE DEF T
<1>3. Seq(Component) \subseteq T
  BY <1>1, <1>2, AllSequences
<1>4. QED
  BY <1>3 DEF T

(* What opens, opens the same by its normal form.                          *)
LEMMA NormalOpens ==
  ASSUME NEW s \in Rooted, OpenedAs(s).rc = EXT2_OK
  PROVE  OpenedAs(vfs_normalize_path(s)) = OpenedAs(s)
<1>1. s \in Seq(Nat) /\ s # <<>> /\ s[1] = SLASH /\ Head(s) = SLASH
  BY DEF Rooted
<1>2. PICK toks \in Seq(Component) : toks = Tokens(s)
  BY <1>1, TokensType
<1>3. PICK v \in Rooted : v = Taken(toks).tmp
  BY TakenGrow DEF PathState
<1>4. PICK u \in Rooted : u = Trim(v)
  BY Trimmed
<1>5. vfs_normalize_path(s) = u
  BY <1>1, <1>2, <1>3, <1>4, NormalUnfolds
<1>6. Good(u) /\ Len(u) < PATH_SIZE
  BY <1>3, <1>4, AlikeAlways DEF Alike, Tidied, Orderly
<1>7. CASE s = <<SLASH>>
  <2>1. toks = <<>>
    BY <1>2, <1>7, RootTokens
  <2>2. v = <<SLASH>>
    BY <1>3, <2>1, TakenGrow DEF AtRoot
  <2>3. u = v
    <3>1. Trim(<<SLASH>>) = <<SLASH>>
      BY RootIsGood DEF Good
    <3>2. QED
      BY <1>4, <2>2, <3>1
  <2>4. QED
    BY <1>5, <1>7, <2>2, <2>3
<1>8. CASE s # <<SLASH>>
  <2>1. PICK r \in Outcomes : r = Reaches(toks)
    BY ReachesGrow
  <2>2. OpenedAs(s) = IF (IF Len(s) >= PATH_SIZE THEN Failed(EXT2_ERR_INVALID) ELSE r).rc
                           = EXT2_OK /\ toks = <<>>
                      THEN Failed(EXT2_ERR_INVALID)
                      ELSE IF Len(s) >= PATH_SIZE THEN Failed(EXT2_ERR_INVALID) ELSE r
    BY <1>2, <1>8, <2>1 DEF OpenedAs, Reaches
  <2>3. Failed(EXT2_ERR_INVALID).rc # EXT2_OK
    BY ResultCodes
  <2>4. ~(Len(s) >= PATH_SIZE) /\ toks # <<>> /\ OpenedAs(s) = r /\ r.rc = EXT2_OK
    BY ONLY <2>2, <2>3, OpenedAs(s).rc = EXT2_OK
  <2>5. Len(s) < PATH_SIZE
    <3>1. Len(s) \in Nat /\ PATH_SIZE \in Nat
      BY <1>1, Ext2Assumption
    <3>2. QED
      BY <2>4, <3>1
  <2>6. Taken(toks).full = FALSE
    BY <1>1, <1>2, <2>5, NeverFull
  <2>7. PICK made : made = Tokens(u)
    OBVIOUS
  <2>8. made = Tokens(v)
    BY <1>4, <2>7, TokensTrimmed
  <2>9. Reaches(made) = r
    BY <1>3, <2>1, <2>4, <2>6, <2>8, AlikeAlways DEF Alike
  <2>10. Taken(made) = [tmp |-> u, full |-> FALSE]
    BY <1>6, <2>7 DEF Good
  <2>11. CASE u = <<SLASH>>
    <3>1. made = <<>>
      BY <2>7, <2>11, RootTokens
    <3>2. r = Root
      BY <2>9, <3>1, ReachesGrow
    <3>3. OpenedAs(u) = Root
      BY <2>11 DEF OpenedAs
    <3>4. QED
      BY <1>5, <2>4, <3>2, <3>3
  <2>12. CASE u # <<SLASH>>
    <3>1. made # <<>>
      <4>1. SUFFICES ASSUME made = <<>> PROVE u = <<SLASH>>
        BY <2>12
      <4>2. Taken(made) = AtRoot
        BY <4>1, TakenGrow
      <4>3. [tmp |-> u, full |-> FALSE].tmp = AtRoot.tmp
        BY <2>10, <4>2
      <4>4. QED
        BY <4>3 DEF AtRoot
    <3>2. ~(Len(u) >= PATH_SIZE)
      <4>1. Len(u) \in Nat /\ PATH_SIZE \in Nat
        BY Ext2Assumption DEF Rooted
      <4>2. QED
        BY <1>6, <4>1
    <3>3. Reached(made, Upto(Len(made))) = r
      BY <2>9 DEF Reaches
    <3>4. OpenedAs(u) = r
      BY ONLY <2>7, <2>12, <3>1, <3>2, <3>3 DEF OpenedAs
    <3>5. QED
      BY <1>5, <2>4, <3>4
  <2>13. QED
    BY <2>11, <2>12
<1>9. QED
  BY <1>7, <1>8

(* It is about the disk alone, once it is mounted.                         *)
LEMMA KeepsTarget == NormalKeepsTarget
<1>1. SUFFICES ASSUME IsMounted, NEW path \in Paths, Opens(<<SLASH>> \o path)
      PROVE  LET normal == vfs_normalize_path(<<SLASH>> \o path)
             IN  Opens(normal) /\ InodeOf(normal) = InodeOf(<<SLASH>> \o path)
  BY DEF NormalKeepsTarget
<1>2. path \in Seq(Nat)
  <2>1. PICK n \in 0..MaxPath : path \in [1..n -> Chars]
    BY DEF Paths
  <2>2. Chars \subseteq Nat
    BY DEF Chars, SLASH, DOT, letter
  <2>3. n \in Nat
    BY ArgsAssumption
  <2>4. path \in [1..n -> Nat]
    BY ONLY <2>1, <2>2
  <2>5. QED
    BY ONLY <2>3, <2>4
<1>3. PICK s : s = <<SLASH>> \o path
  OBVIOUS
<1>4. s \in Rooted
  <2>1. SLASH \in Nat
    BY DEF SLASH
  <2>2. s \in Seq(Nat) /\ Len(s) = Len(path) + 1 /\ s[1] = SLASH
    BY <1>2, <1>3, <2>1, OneMore
  <2>3. QED
    BY <1>2, <2>2 DEF Rooted
<1>5. PICK normal : normal = vfs_normalize_path(s)
  OBVIOUS
<1>6. normal \in Seq(Nat) /\ s \in Seq(Nat)
  <2>1. s \in Seq(Nat) /\ Head(s) = SLASH
    BY <1>4 DEF Rooted
  <2>2. QED
    BY <1>5, <2>1, NormalForm
<1>7. /\ ext2_open(s, NoFault) = OpenedAs(s)
      /\ ext2_open(normal, NoFault) = OpenedAs(normal)
  BY <1>1, <1>6, OpensAs
<1>8. OpenedAs(s).rc = EXT2_OK
  BY <1>1, <1>3, <1>7 DEF Opens
<1>9. OpenedAs(normal) = OpenedAs(s)
  BY <1>4, <1>5, <1>8, NormalOpens
<1>10. ext2_open(normal, NoFault) = ext2_open(s, NoFault)
  BY <1>7, <1>9
<1>11. QED
  BY <1>1, <1>3, <1>5, <1>10 DEF Opens, InodeOf

(* The names taken out of the text of a path, and ".." with them, lead     *)
(* where they lead on the disk: what a path opens, its normal form opens.  *)
THEOREM NormalKeepsItsTarget == FileSpec => []NormalKeepsTarget
BY KeepsTarget, PTL

-----------------------------------------------------------------------------
(* What a listing shows and what a search finds.                           *)

(* A sequence with this element.                                           *)
Has(s, x) == \E i \in DOMAIN s : s[i] = x

(* Two sequences put together have what either has.                        *)
LEMMA ConcatHas ==
  ASSUME NEW C, NEW s \in Seq(C), NEW t \in Seq(C), NEW x
  PROVE  Has(s \o t, x) <=> (Has(s, x) \/ Has(t, x))
<1>1. PICK m \in Nat, n \in Nat : m = Len(s) /\ n = Len(t)
  OBVIOUS
<1>2. PICK u : u = s \o t
  OBVIOUS
<1>3. DOMAIN s = 1..m /\ DOMAIN t = 1..n
  BY <1>1
<1>4. /\ DOMAIN u = 1..(m + n)
      /\ \A i \in 1..m : u[i] = s[i]
      /\ \A i \in 1..n : u[m + i] = t[i]
  BY <1>1, <1>2
<1>5. ASSUME NEW i \in 1..(m + n) PROVE i \in 1..m \/ \E j \in 1..n : i = m + j
  <2>1. CASE i <= m
    BY <2>1
  <2>2. CASE i > m
    <3>1. i - m \in 1..n /\ i = m + (i - m)
      BY <2>2
    <3>2. QED
      BY <3>1
  <2>3. QED
    BY <2>1, <2>2
<1>6. \A i \in 1..m : i \in 1..(m + n)
  OBVIOUS
<1>7. \A i \in 1..n : m + i \in 1..(m + n)
  OBVIOUS
<1>8. Has(u, x) => Has(s, x) \/ Has(t, x)
  <2>1. SUFFICES ASSUME NEW i \in DOMAIN u, u[i] = x PROVE Has(s, x) \/ Has(t, x)
    BY DEF Has
  <2>2. CASE i \in 1..m
    <3>1. s[i] = x /\ i \in DOMAIN s
      BY <1>3, <1>4, <2>1, <2>2
    <3>2. QED
      BY <3>1 DEF Has
  <2>3. CASE \E j \in 1..n : i = m + j
    <3>1. PICK j \in 1..n : i = m + j
      BY <2>3
    <3>2. t[j] = x /\ j \in DOMAIN t
      BY <1>3, <1>4, <2>1, <3>1
    <3>3. QED
      BY <3>2 DEF Has
  <2>4. QED
    BY <1>4, <1>5, <2>2, <2>3
<1>9. Has(s, x) \/ Has(t, x) => Has(u, x)
  BY ONLY <1>3, <1>4, <1>6, <1>7 DEF Has
<1>10. QED
  BY <1>2, <1>8, <1>9

(* And so have any number of them.                                         *)
LEMMA FlattenHas ==
  ASSUME NEW C, NEW s \in Seq(Seq(C)), NEW x
  PROVE  Has(FlattenSeq(s), x) <=> \E i \in DOMAIN s : Has(s[i], x)
<1>1. PICK n \in Nat : n = Len(s)
  BY LenProperties
<1>2. DOMAIN s = 1..n /\ \A i \in 1..n : s[i] \in Seq(C)
  BY <1>1, LenProperties, ElementOfSeq
<1>3. CASE n = 0
  <2>1. s = <<>> /\ FlattenSeq(s) = s
    BY <1>1, <1>3, EmptySeq DEF FlattenSeq
  <2>2. QED
    BY <1>2, <1>3, <2>1 DEF Has
<1>4. CASE n # 0
  <2>1. PICK f : f[1] = s[1] /\ (\A i \in 2..n : f[i] = f[i - 1] \o s[i]) /\ FlattenSeq(s) = f[n]
    BY <1>1, <1>4, FlattenChain
  <2> DEFINE T == {k \in Nat : k + 1 <= n =>
                     /\ f[k + 1] \in Seq(C)
                     /\ Has(f[k + 1], x) <=> \E i \in 1..(k + 1) : Has(s[i], x)}
  <2>2. 0 \in T
    <3>1. 1 \in 1..n /\ 0 + 1 = 1
      BY <1>4
    <3>2. f[1] \in Seq(C)
      BY <1>2, <2>1, <3>1
    <3>3. Has(f[1], x) <=> \E i \in 1..1 : Has(s[i], x)
      BY <2>1
    <3>4. QED
      BY <3>1, <3>2, <3>3
  <2>3. ASSUME NEW k \in Nat, k \in T PROVE k + 1 \in T
    <3>1. SUFFICES ASSUME (k + 1) + 1 <= n
          PROVE  /\ f[(k + 1) + 1] \in Seq(C)
                 /\ Has(f[(k + 1) + 1], x) <=> \E i \in 1..((k + 1) + 1) : Has(s[i], x)
      OBVIOUS
    <3>2. PICK l \in Nat : l = k + 1
      OBVIOUS
    <3>3. l <= n /\ l + 1 \in 2..n /\ l + 1 \in 1..n /\ (l + 1) - 1 = l
      BY <3>1, <3>2
    <3>4. PICK u, v : u = f[l] /\ v = s[l + 1]
      OBVIOUS
    <3>5. u \in Seq(C) /\ v \in Seq(C)
      BY <1>2, <2>3, <3>2, <3>3, <3>4
    <3>6. f[l + 1] = u \o v
      BY <2>1, <3>3, <3>4
    <3>7. f[l + 1] \in Seq(C)
      BY <3>5, <3>6, ConcatProperties
    <3>8. Has(u, x) <=> \E i \in 1..l : Has(s[i], x)
      BY <2>3, <3>2, <3>3, <3>4
    <3>9. Has(u \o v, x) <=> (Has(u, x) \/ Has(v, x))
      BY ONLY <3>5, ConcatHas
    <3>10. 1..(l + 1) = 1..l \cup {l + 1}
      OBVIOUS
    <3>11. Has(f[l + 1], x) <=> \E i \in 1..(l + 1) : Has(s[i], x)
      BY ONLY <3>4, <3>6, <3>8, <3>9, <3>10
    <3>12. QED
      BY <3>2, <3>7, <3>11
  <2> HIDE DEF T
  <2>4. n - 1 \in Nat /\ (n - 1) + 1 = n
    BY <1>4
  <2>5. n - 1 \in T
    <3>1. Nat \subseteq T
      BY ONLY <2>2, <2>3, Successors
    <3>2. QED
      BY <2>4, <3>1
  <2>6. Has(f[n], x) <=> \E i \in 1..n : Has(s[i], x)
    BY <2>4, <2>5 DEF T
  <2>7. QED
    BY <1>2, <2>1, <2>6
<1>5. QED
  BY <1>3, <1>4

(* The entries before the first of some places.                            *)
Before(all, stops) == IF stops = {} THEN all ELSE SubSeq(all, 1, Min(stops) - 1)

(* Those in front of every one of these places.                            *)
IsFront(part, all, stops) ==
  /\ part \in Seq(DirEntries)
  /\ \A i \in Nat : i \in DOMAIN part <=> i \in DOMAIN all /\ \A j \in stops : i < j
  /\ \A i \in DOMAIN part : part[i] = all[i]

(* They are the same.                                                      *)
LEMMA BeforeFirst ==
  ASSUME NEW all \in Seq(DirEntries), NEW stops, stops \subseteq DOMAIN all
  PROVE  IsFront(Before(all, stops), all, stops)
<1>0. PICK part : part = Before(all, stops)
  OBVIOUS
<1>1. PICK n \in Nat : n = Len(all)
  OBVIOUS
<1>2. DOMAIN all = 1..n /\ stops \subseteq 1..n
  BY <1>1
<1>3. part \in Seq(DirEntries)
  BY <1>0, EntriesPart DEF Before
<1>4. CASE stops = {}
  <2>1. part = all
    BY <1>0, <1>4 DEF Before
  <2>2. QED
    BY <1>0, <1>3, <1>4, <2>1 DEF IsFront
<1>5. CASE stops # {}
  <2>1. PICK m : m = Min(stops)
    OBVIOUS
  <2>2. m \in stops /\ m \in 1..n /\ \A j \in stops : m <= j
    <3>1. stops \subseteq Nat
      BY <1>2
    <3>2. QED
      BY <1>2, <1>5, <2>1, <3>1, LeastIs
  <2>3. part = SubSeq(all, 1, m - 1)
    BY <1>0, <1>5, <2>1 DEF Before
  <2>4. DOMAIN part = 1..(m - 1) /\ \A i \in 1..(m - 1) : part[i] = all[i]
    <3>1. PICK k \in Nat : k = m - 1 /\ k <= n
      BY <2>2
    <3>2. part = SubSeq(all, 1, k) /\ k <= Len(all)
      BY <1>1, <2>3, <3>1
    <3>3. Len(part) = k /\ part \in Seq(DirEntries)
      BY <1>3, <3>1, <3>2, SubSeqProperties
    <3>4. \A i \in 1..k : part[i] = all[i]
      BY <1>1, <3>1, <3>2
    <3>5. QED
      BY <3>1, <3>3, <3>4, LenProperties
  <2>5. \A i \in Nat : i \in 1..(m - 1) <=> i \in 1..n /\ \A j \in stops : i < j
    BY <1>2, <2>2
  <2>6. QED
    BY <1>0, <1>2, <1>3, <2>4, <2>5 DEF IsFront
<1>6. QED
  BY <1>4, <1>5

(* The places where a search, and a listing, stop.                         *)
SearchStops(b) == {i \in DOMAIN DirBlocks[b] : DirBlocks[b][i].shape = "zero"}

(* The stops of a listing.                                                 *)
ListStops(b) ==
  {i \in DOMAIN DirBlocks[b] :
     \/ DirBlocks[b][i].shape \in {"zero", "too_long"}
     \/ DirBlocks[b][i].inode # 0 /\ DirBlocks[b][i].name = <<>>}

(* Entry i of block b is reached, is in use and has this name.             *)
Reaching(b, i, name, stops) ==
  /\ i \in DOMAIN DirBlocks[b] /\ \A j \in stops : i < j
  /\ DirBlocks[b][i].inode # 0 /\ DirBlocks[b][i].name = name

(* What a search of a block finds.                                         *)
LEMMA FindInReaching ==
  ASSUME NEW b \in AllBlocks, NEW name
  PROVE  FindIn(b, name) # 0 <=> \E i \in Nat : Reaching(b, i, name, SearchStops(b))
<1>1. PICK all : all = DirBlocks[b]
  OBVIOUS
<1>2. PICK stops : stops = SearchStops(b)
  OBVIOUS
<1>3. all \in Seq(DirEntries) /\ stops \subseteq DOMAIN all
  BY <1>1, <1>2, DiskIs DEF SearchStops
<1>4. PICK entries : entries = Searched(b)
  OBVIOUS
<1>5. entries = Before(all, stops)
  BY <1>1, <1>2, <1>4 DEF Searched, EntriesBefore, SearchStops, Before
<1>6. /\ entries \in Seq(DirEntries)
      /\ \A i \in Nat : i \in DOMAIN entries <=> i \in DOMAIN all /\ \A j \in stops : i < j
      /\ \A i \in DOMAIN entries : entries[i] = all[i]
  BY <1>3, <1>5, BeforeFirst DEF IsFront
<1>7. DOMAIN entries \subseteq Nat
  BY <1>6
<1>8. PICK hits : hits = {i \in DOMAIN entries : Matches(entries[i], name)}
  OBVIOUS
<1>9. FindIn(b, name) = IF hits = {} THEN 0 ELSE entries[Min(hits)].inode
  BY <1>4, <1>8 DEF FindIn
<1>10. \A i \in Nat : i \in hits <=> Reaching(b, i, name, stops)
  BY ONLY <1>1, <1>6, <1>7, <1>8 DEF Reaching, Matches
<1>11. hits # {} => entries[Min(hits)].inode # 0
  <2>1. SUFFICES ASSUME hits # {} PROVE entries[Min(hits)].inode # 0
    OBVIOUS
  <2>2. Min(hits) \in hits
    BY <1>7, <1>8, <2>1, LeastIs
  <2>3. QED
    BY <1>8, <2>2 DEF Matches
<1>12. hits # {} <=> \E i \in Nat : Reaching(b, i, name, stops)
  BY ONLY <1>7, <1>8, <1>10
<1>13. QED
  BY <1>2, <1>9, <1>11, <1>12

(* What a listing of a block shows.                                        *)
LEMMA ListedReaching ==
  ASSUME NEW b \in AllBlocks, NEW name
  PROVE  Has(Listed(b), name) <=> \E i \in Nat : Reaching(b, i, name, ListStops(b))
<1>1. PICK all : all = DirBlocks[b]
  OBVIOUS
<1>2. PICK stops : stops = ListStops(b)
  OBVIOUS
<1>3. all \in Seq(DirEntries) /\ stops \subseteq DOMAIN all
  BY <1>1, <1>2, DiskIs DEF ListStops
<1>4. PICK entries : entries = Before(all, stops)
  OBVIOUS
<1>5. /\ entries \in Seq(DirEntries)
      /\ \A i \in Nat : i \in DOMAIN entries <=> i \in DOMAIN all /\ \A j \in stops : i < j
      /\ \A i \in DOMAIN entries : entries[i] = all[i]
  BY <1>3, <1>4, BeforeFirst DEF IsFront
<1>6. PICK n \in Nat : n = Len(entries)
  BY <1>5, LenProperties
<1>7. DOMAIN entries = 1..n /\ \A i \in 1..n : entries[i] \in DirEntries
  BY <1>5, <1>6, LenProperties, ElementOfSeq
<1>8. PICK ones : ones = [i \in 1..n |-> IF entries[i].inode = 0 THEN <<>>
                                         ELSE <<entries[i].name>>]
  OBVIOUS
<1>9. ones \in Seq(NameLists)
  <2>1. ASSUME NEW i \in 1..n
        PROVE  (IF entries[i].inode = 0 THEN <<>> ELSE <<entries[i].name>>) \in NameLists
    <3>1. PICK x : x = entries[i].name
      OBVIOUS
    <3>2. x \in Seq(Nat)
      BY <1>7, <3>1 DEF DirEntries, InName
    <3>3. <<x>> \in NameLists /\ <<>> \in NameLists
      BY <3>2, EmptySeq DEF NameLists
    <3>4. QED
      BY <3>1, <3>3
  <2>2. ones \in [1..n -> NameLists]
    BY <1>8, <2>1
  <2>3. QED
    BY <2>2
<1>10. Listed(b) = FlattenSeq(ones)
  BY <1>1, <1>2, <1>4, <1>7, <1>8 DEF Listed, EntriesBefore, ListStops, Before
<1>11. Has(FlattenSeq(ones), name) <=> \E i \in DOMAIN ones : Has(ones[i], name)
  BY ONLY <1>9, FlattenHas DEF NameLists
<1>12. ASSUME NEW i \in 1..n
       PROVE  Has(ones[i], name) <=> entries[i].inode # 0 /\ entries[i].name = name
  <2>1. PICK x : x = entries[i].name
    OBVIOUS
  <2>2. ones[i] = IF entries[i].inode = 0 THEN <<>> ELSE <<x>>
    BY <1>8, <2>1
  <2>3. ~Has(<<>>, name) /\ (Has(<<x>>, name) <=> x = name)
    BY DEF Has
  <2>4. QED
    BY <2>1, <2>2, <2>3
<1>13. DOMAIN ones = 1..n
  BY <1>8
<1>14. \A i \in Nat : Reaching(b, i, name, stops) <=>
         i \in 1..n /\ entries[i].inode # 0 /\ entries[i].name = name
  BY ONLY <1>1, <1>5, <1>7 DEF Reaching
<1>15. QED
  BY <1>2, <1>10, <1>11, <1>12, <1>13, <1>14

-----------------------------------------------------------------------------
(* A block that hides nothing: what Sound says of it.                      *)
HidesNothing(b) ==
  \A i \in DOMAIN DirBlocks[b] :
    /\ DirBlocks[b][i].shape # "too_long"
    /\ DirBlocks[b][i].inode # 0 => DirBlocks[b][i].name # <<>>

(* What a listing shows of a block is a name, and a search finds it; of a  *)
(* block that hides nothing, a listing shows what a search finds.          *)
LEMMA ShownFound ==
  ASSUME NEW b \in AllBlocks, NEW name
  PROVE  /\ Has(Listed(b), name) => name \in Component /\ FindIn(b, name) # 0
         /\ HidesNothing(b) /\ FindIn(b, name) # 0 => Has(Listed(b), name)
<1>1. SearchStops(b) \subseteq ListStops(b)
  BY DEF SearchStops, ListStops
<1>2. ASSUME NEW i \in Nat, Reaching(b, i, name, ListStops(b))
      PROVE  Reaching(b, i, name, SearchStops(b)) /\ name \in Component
  <2>1. PICK ent : ent = DirBlocks[b][i]
    OBVIOUS
  <2>2. i \in DOMAIN DirBlocks[b] /\ ent.inode # 0 /\ ent.name = name
    BY <1>2, <2>1 DEF Reaching
  <2>3. ent \in DirEntries
    <3>1. PICK all \in Seq(DirEntries) : all = DirBlocks[b]
      BY DiskIs
    <3>2. QED
      BY <2>1, <2>2, <3>1
  <2>4. name \in Seq(InName)
    BY <2>2, <2>3 DEF DirEntries
  <2>5. ~(i < i)
    OBVIOUS
  <2>6. i \notin ListStops(b)
    BY <1>2, <2>5 DEF Reaching
  <2>7. name # <<>>
    BY <2>1, <2>2, <2>6 DEF ListStops
  <2>8. QED
    BY <1>1, <1>2, <2>4, <2>7 DEF Reaching, Component
<1>3. Has(Listed(b), name) => name \in Component /\ FindIn(b, name) # 0
  BY <1>2, ListedReaching, FindInReaching
<1>4. HidesNothing(b) => SearchStops(b) = ListStops(b)
  BY DEF HidesNothing, SearchStops, ListStops
<1>5. HidesNothing(b) /\ FindIn(b, name) # 0 => Has(Listed(b), name)
  BY <1>4, ListedReaching, FindInReaching
<1>6. QED
  BY <1>3, <1>5

(* The same of several blocks.                                             *)
LEMMA ListingFound ==
  ASSUME NEW S, S \subseteq AllBlocks, NEW s \in Seq(S), NEW name
  PROVE  /\ Has(Got(NoFault, s).names, name) =>
              name \in Component /\ Found(name, NoFault, s) # 0
         /\ (\A b \in S : HidesNothing(b)) /\ Found(name, NoFault, s) # 0 =>
              Has(Got(NoFault, s).names, name)
<1> DEFINE T == {u \in Seq(S) :
                   /\ Has(Got(NoFault, u).names, name) =>
                        name \in Component /\ Found(name, NoFault, u) # 0
                   /\ (\A b \in S : HidesNothing(b)) /\ Found(name, NoFault, u) # 0 =>
                        Has(Got(NoFault, u).names, name)}
<1>1. <<>> \in T
  <2>1. <<>> \in Seq(S) /\ Found(name, NoFault, <<>>) = 0
    BY EmptySeq, FoundGrow
  <2>2. Got(NoFault, <<>>).names = <<>>
    BY GotGrow DEF NoneYet
  <2>3. ~Has(<<>>, name)
    BY DEF Has
  <2>4. QED
    BY <2>1, <2>2, <2>3
<1>2. ASSUME NEW u \in Seq(S), NEW b \in S, u \in T PROVE Append(u, b) \in T
  <2>1. u \in Seq(AllBlocks) /\ b \in AllBlocks
    OBVIOUS
  <2>2. PICK w : w = Append(u, b) /\ w \in Seq(S)
    BY AppendProperties
  <2>3. PICK x, f : x = Found(name, NoFault, u) /\ f = FindIn(b, name)
    OBVIOUS
  <2>4. Found(name, NoFault, w) = IF x # 0 THEN x ELSE f
    <3>1. Found(name, NoFault, w) = FindStep(x, b, name, NoFault)
      BY <2>1, <2>2, <2>3, FoundGrow
    <3>2. QED
      BY <2>3, <3>1 DEF FindStep, NoFault
  <2>5. PICK g, l : g = Got(NoFault, u).names /\ l = Listed(b)
    OBVIOUS
  <2>6. Got(NoFault, w).names = g \o l /\ g \in NameLists /\ l \in NameLists
    <3>1. PICK got : got = Got(NoFault, u)
      OBVIOUS
    <3>2. got \in Listings /\ got.rc = EXT2_OK
      BY <2>1, <3>1, GotIs
    <3>3. Got(NoFault, w) = ListStep(got, b, NoFault)
      BY <2>1, <2>2, <3>1, GotGrow
    <3>4. b \notin NoFault.bad
      BY DEF NoFault
    <3>5. Got(NoFault, w).names = got.names \o Listed(b)
      <4>1. ListStep(got, b, NoFault).names = got.names \o Listed(b)
        BY ONLY <2>1, <3>2, <3>4, ListStepIs
      <4>2. QED
        BY ONLY <3>3, <4>1
    <3>6. QED
      BY <2>1, <2>5, <3>1, <3>2, <3>5, ListedType DEF Listings
  <2>7. Has(g \o l, name) <=> (Has(g, name) \/ Has(l, name))
    BY ONLY <2>6, ConcatHas DEF NameLists
  <2>8. /\ Has(g, name) => name \in Component /\ x # 0
        /\ (\A d \in S : HidesNothing(d)) /\ x # 0 => Has(g, name)
    BY <1>2, <2>3, <2>5
  <2>9. /\ Has(l, name) => name \in Component /\ f # 0
        /\ HidesNothing(b) /\ f # 0 => Has(l, name)
    BY <2>1, <2>3, <2>5, ShownFound
  <2>10. PICK y, names : y = Found(name, NoFault, w) /\ names = Got(NoFault, w).names
    OBVIOUS
  <2>11. /\ Has(names, name) => name \in Component /\ y # 0
         /\ (\A d \in S : HidesNothing(d)) /\ y # 0 => Has(names, name)
    BY ONLY <2>4, <2>6, <2>7, <2>8, <2>9, <2>10
  <2>12. QED
    BY <2>2, <2>10, <2>11
<1> HIDE DEF T
<1>3. Seq(S) \subseteq T
  BY <1>1, <1>2, AllSequences
<1>4. QED
  BY <1>3 DEF T

(* A path that opens has led where its tokens lead.                        *)
LEMMA OpenedReaches ==
  ASSUME NEW p \in Seq(Nat), OpenedAs(p).rc = EXT2_OK
  PROVE  OpenedAs(p) = Reaches(Tokens(p)) /\ (Tokens(p) = <<>> => p = <<SLASH>>)
<1>1. CASE p = <<SLASH>>
  <2>1. OpenedAs(p) = Root
    BY <1>1 DEF OpenedAs
  <2>2. QED
    BY <1>1, <2>1, RootTokens, ReachesGrow
<1>2. CASE p # <<SLASH>>
  <2>1. PICK toks : toks = Tokens(p)
    OBVIOUS
  <2>2. PICK r : r = Reaches(toks)
    OBVIOUS
  <2>3. OpenedAs(p) = IF (IF Len(p) >= PATH_SIZE THEN Failed(EXT2_ERR_INVALID) ELSE r).rc
                           = EXT2_OK /\ toks = <<>>
                      THEN Failed(EXT2_ERR_INVALID)
                      ELSE IF Len(p) >= PATH_SIZE THEN Failed(EXT2_ERR_INVALID) ELSE r
    BY <1>2, <2>1, <2>2 DEF OpenedAs, Reaches
  <2>4. Failed(EXT2_ERR_INVALID).rc # EXT2_OK
    BY ResultCodes
  <2>5. OpenedAs(p) = r /\ toks # <<>>
    BY ONLY <2>3, <2>4, OpenedAs(p).rc = EXT2_OK
  <2>6. QED
    BY <2>1, <2>2, <2>5
<1>3. QED
  BY <1>1, <1>2

(* A name opens in a directory when a search of it finds the name.         *)
LEMMA OpensInDir ==
  ASSUME NEW p \in Seq(Nat), NEW n \in OnDisk, Inodes[n].dir,
         OpenedAs(p) = FoundInode(n), NEW name \in Component,
         NEW q \in Seq(Nat), q = Append(p, SLASH) \o name
  PROVE  /\ OpenedAs(q).rc = EXT2_OK => Find(UnitsOf(n), name, NoFault) # 0
         /\ Find(UnitsOf(n), name, NoFault) # 0 /\ Len(q) < PATH_SIZE =>
              OpenedAs(q).rc = EXT2_OK
<1>1. PICK toks \in Seq(Component) : toks = Tokens(p)
  BY TokensType
<1>2. Reaches(toks) = FoundInode(n)
  BY <1>1, OpenedReaches, ResultCodes
<1>3. Tokens(q) = Append(toks, name)
  BY <1>1, TokensJoin
<1>4. PICK ino : ino = Find(UnitsOf(n), name, NoFault)
  OBVIOUS
<1>5. PICK r : r = Reaches(Append(toks, name))
  OBVIOUS
<1>6. r = Looked(ino, FoundInode(ino), TRUE, NoFault)
  <2>1. PICK x : x = FoundInode(n)
    OBVIOUS
  <2>2. x \in Outcomes /\ x.rc = EXT2_OK /\ x.copy = UnitsOf(n)
    BY <2>1, ResultCodes DEF Outcomes
  <2>3. r = OneToken(x, name)
    BY <1>2, <1>5, <2>1, ReachesGrow
  <2>4. IsDir(x.copy)
    BY <2>2, UnitsAre
  <2>5. OneToken(x, name) = Still(x, name, TRUE)
    BY <2>2, <2>4 DEF OneToken
  <2>6. QED
    BY <1>4, <2>1, <2>3, <2>5, StillFinds
<1>7. ino \in OnDisk \cup {0} /\ ino # -1 /\ NoFault.room
  <2>1. ino \in OnDisk \cup {0} /\ OnDisk \subseteq Nat \ {0}
    BY <1>4, FindIs, DiskIs
  <2>2. QED
    BY ONLY <2>1 DEF NoFault
<1>8. r.rc = EXT2_OK <=> ino # 0
  <2>1. r = IF ino = 0 THEN Failed(EXT2_ERR_PATH_NOT_FOUND) ELSE FoundInode(ino)
    BY <1>6, <1>7 DEF Looked
  <2>2. Failed(EXT2_ERR_PATH_NOT_FOUND).rc # EXT2_OK /\ FoundInode(ino).rc = EXT2_OK
    BY ResultCodes
  <2>3. QED
    BY <2>1, <2>2
<1>9. q # <<SLASH>>
  <2>1. PICK k \in Nat, l \in Nat \ {0} : k = Len(p) /\ l = Len(name)
    BY DEF Component
  <2>2. PICK a : a = Append(p, SLASH)
    OBVIOUS
  <2>3. a \in Seq(Nat) /\ Len(a) = k + 1 /\ name \in Seq(Nat)
    BY <2>1, <2>2 DEF SLASH, Component, InName
  <2>4. Len(q) = (k + 1) + l
    BY <2>1, <2>2, <2>3
  <2>5. Len(q) # 1 /\ Len(<<SLASH>>) = 1
    BY <2>1, <2>4
  <2>6. QED
    BY <2>5
<1>10. Append(toks, name) # <<>>
  <2>1. PICK k \in Nat : k = Len(toks)
    OBVIOUS
  <2>2. PICK all : all = Append(toks, name)
    OBVIOUS
  <2>3. Len(all) = k + 1
    BY <2>1, <2>2
  <2>4. Len(all) # 0 /\ Len(<<>>) = 0
    BY <2>3
  <2>5. all # <<>>
    BY ONLY <2>4
  <2>6. QED
    BY <2>2, <2>5
<1>11. OpenedAs(q) = IF Len(q) >= PATH_SIZE THEN Failed(EXT2_ERR_INVALID) ELSE r
  <2>1. Failed(EXT2_ERR_INVALID).rc # EXT2_OK
    BY ResultCodes
  <2>2. PICK all : all = Append(toks, name)
    OBVIOUS
  <2>3. r = Reached(all, Upto(Len(all))) /\ Tokens(q) = all /\ all # <<>>
    BY <1>3, <1>5, <1>10, <2>2 DEF Reaches
  <2>4. QED
    BY ONLY <1>9, <2>1, <2>3 DEF OpenedAs
<1>12. Len(q) < PATH_SIZE => ~(Len(q) >= PATH_SIZE)
  <2>1. Len(q) \in Nat /\ PATH_SIZE \in Nat
    BY Ext2Assumption
  <2>2. QED
    BY ONLY <2>1
<1>13. Failed(EXT2_ERR_INVALID).rc # EXT2_OK
  BY ResultCodes
<1>14. OpenedAs(q).rc = EXT2_OK => ino # 0
  BY <1>8, <1>11, <1>13
<1>15. ino # 0 /\ Len(q) < PATH_SIZE => OpenedAs(q).rc = EXT2_OK
  BY <1>8, <1>11, <1>12
<1>16. QED
  BY <1>4, <1>14, <1>15

(* Where a path leads to a directory, ls lists that directory.             *)
LEMMA ListsDir ==
  ASSUME IsMounted, NEW p \in Seq(Nat), IsDirPath(p)
  PROVE  \E n \in OnDisk :
           /\ Inodes[n].dir /\ OpenedAs(p) = FoundInode(n)
           /\ ext2_open(p, NoFault).copy = UnitsOf(n)
           /\ ext2_list(p, NoFault).names = Got(NoFault, DirectBlocks(UnitsOf(n))).names
<1>1. PICK r : r = ext2_open(p, NoFault)
  OBVIOUS
<1>2. r \in Outcomes /\ r = OpenedAs(p) /\ r.rc = EXT2_OK /\ IsDir(r.copy)
  BY <1>1, OpenIs, OpensAs DEF IsDirPath, Opens
<1>3. PICK n \in OnDisk : r = FoundInode(n)
  BY <1>2, OutcomeIs
<1>4. r.copy = UnitsOf(n) /\ Inodes[n].dir
  BY <1>2, <1>3, ResultCodes, UnitsAre
<1>5. PICK root : root = (p \in {<<SLASH>>, <<>>})
  OBVIOUS
<1>6. PICK from : from = IF root THEN ReadOrFail(EXT2_ROOT_INODE, NoFault) ELSE Walk(p, NoFault)
  OBVIOUS
<1>7. PICK toks : toks = Tokens(p)
  OBVIOUS
<1>8. ext2_list(p, NoFault)
        = IF from.rc # EXT2_OK THEN [rc |-> from.rc, names |-> <<>>]
          ELSE IF (~root /\ toks = <<>>) \/ ~IsDir(from.copy)
          THEN [rc |-> EXT2_ERR_INVALID, names |-> <<>>]
          ELSE ListEntries(from.copy, NoFault)
  BY <1>5, <1>6, <1>7 DEF ext2_list
<1>9. from = r /\ ~(~root /\ toks = <<>>)
  <2>1. toks = <<>> => p = <<SLASH>>
    BY <1>2, <1>7, OpenedReaches
  <2>2. p # <<>>
    <3>1. p = <<>> => p = <<SLASH>>
      BY <1>7, <2>1, NoTokensYet
    <3>2. Len(<<>>) = 0 /\ Len(<<SLASH>>) = 1
      OBVIOUS
    <3>3. QED
      BY ONLY <3>1, <3>2
  <2>3. CASE p = <<SLASH>>
    BY <1>1, <1>5, <1>6, <2>3 DEF ext2_open
  <2>4. CASE p # <<SLASH>>
    <3>1. ~root /\ toks # <<>> /\ from = Walk(p, NoFault)
      BY <1>5, <1>6, <2>1, <2>2, <2>4
    <3>2. r = from
      BY <1>1, <1>7, <2>4, <3>1 DEF ext2_open
    <3>3. QED
      BY <3>1, <3>2
  <2>5. QED
    BY <2>3, <2>4
<1>10. ext2_list(p, NoFault) = ListEntries(r.copy, NoFault)
  BY <1>2, <1>8, <1>9
<1>11. ListEntries(r.copy, NoFault) = Got(NoFault, DirectBlocks(UnitsOf(n)))
  BY <1>4, ListUnfolds
<1>12. QED
  BY <1>1, <1>2, <1>3, <1>4, <1>10, <1>11

(* What Sound says of a directory, it says of each of its blocks: Direct   *)
(* is the set of those that are looked through.                            *)
LEMMA SoundBlocks ==
  ASSUME NEW n \in OnDisk, Sound(UnitsOf(n))
  PROVE  \E S : /\ S \subseteq AllBlocks /\ DirectBlocks(UnitsOf(n)) \in Seq(S)
                /\ \A b \in S : HidesNothing(b)
<1>1. PICK s : s = DirectBlocks(UnitsOf(n))
  OBVIOUS
<1>2. s \in Seq(AllBlocks)
  BY <1>1, DirectBlocksType
<1>3. PICK m \in Nat : m = Len(s) /\ DOMAIN s = 1..m
  BY <1>2, LenProperties
<1>4. PICK S : S = {s[i] : i \in 1..m}
  OBVIOUS
<1>5. S \subseteq AllBlocks
  BY <1>2, <1>3, <1>4, ElementOfSeq
<1>6. s \in Seq(S)
  <2>1. s = [i \in 1..m |-> s[i]]
    BY <1>2, <1>3
  <2>2. \A i \in 1..m : s[i] \in S
    BY <1>4
  <2>3. QED
    BY <2>1, <2>2
<1>7. ASSUME NEW b \in S PROVE HidesNothing(b)
  <2>1. PICK i \in DOMAIN s : b = s[i]
    BY <1>3, <1>4
  <2>2. \A j \in DOMAIN DirBlocks[s[i]] :
          LET ent == DirBlocks[s[i]][j]
          IN  ent.shape # "too_long" /\ (ent.inode # 0 => ent.name # <<>>)
    BY <1>1 DEF Sound
  <2>3. QED
    BY <2>1, <2>2 DEF HidesNothing
<1>8. QED
  BY <1>1, <1>5, <1>6, <1>7

(* The names the property asks about are names.                            *)
LEMMA AskedNames ==
  {<<letter.a>>, <<DOT>>, <<letter.a, letter.a>>, <<DOT, letter.a>>} \subseteq Component
<1>1. letter.a \in InName /\ DOT \in InName
  BY DEF letter, DOT, SLASH, InName
<1>2. PICK a \in InName, d \in InName : a = letter.a /\ d = DOT
  BY <1>1
<1>3. /\ <<a>> \in Seq(InName) /\ <<d>> \in Seq(InName)
      /\ <<a, a>> \in Seq(InName) /\ <<d, a>> \in Seq(InName)
  OBVIOUS
<1>4. <<a>> # <<>> /\ <<d>> # <<>> /\ <<a, a>> # <<>> /\ <<d, a>> # <<>>
  OBVIOUS
<1>5. QED
  BY <1>2, <1>3, <1>4 DEF Component

(* One directory.                                                          *)
LEMMA ListingOf ==
  ASSUME IsMounted, NEW p \in Seq(Nat), IsDirPath(p)
  PROVE  LET dir == Append(p, SLASH)
             names == ext2_list(p, NoFault).names
         IN  /\ \A i \in DOMAIN names :
                  Len(dir \o names[i]) < PATH_SIZE => Opens(dir \o names[i])
             /\ Sound(ext2_open(p, NoFault).copy) =>
                  \A name \in Component :
                    Opens(dir \o name) => \E i \in DOMAIN names : names[i] = name
<1>1. PICK n \in OnDisk :
        /\ Inodes[n].dir /\ OpenedAs(p) = FoundInode(n)
        /\ ext2_open(p, NoFault).copy = UnitsOf(n)
        /\ ext2_list(p, NoFault).names = Got(NoFault, DirectBlocks(UnitsOf(n))).names
  BY ListsDir
<1>2. PICK s : s = DirectBlocks(UnitsOf(n))
  OBVIOUS
<1>3. PICK dir, names : dir = Append(p, SLASH) /\ names = Got(NoFault, s).names
  OBVIOUS
<1>4. s \in Seq(AllBlocks) /\ \A tok : Find(UnitsOf(n), tok, NoFault) = Found(tok, NoFault, s)
  BY <1>2, DirectBlocksType, FindUnfolds
<1>5. dir \in Seq(Nat)
  BY <1>3 DEF SLASH
<1>6. ASSUME NEW name \in Component, NEW q, q = dir \o name
      PROVE  /\ Opens(q) => Found(name, NoFault, s) # 0
             /\ Found(name, NoFault, s) # 0 /\ Len(q) < PATH_SIZE => Opens(q)
  <2>1. q \in Seq(Nat)
    <3>1. name \in Seq(Nat)
      BY DEF Component, InName
    <3>2. QED
      BY <1>5, <1>6, <3>1, ConcatProperties
  <2>2. q = Append(p, SLASH) \o name
    BY <1>3, <1>6
  <2>3. Find(UnitsOf(n), name, NoFault) = Found(name, NoFault, s)
    BY <1>4
  <2>4. /\ OpenedAs(q).rc = EXT2_OK => Found(name, NoFault, s) # 0
        /\ Found(name, NoFault, s) # 0 /\ Len(q) < PATH_SIZE => OpenedAs(q).rc = EXT2_OK
    BY <1>1, <2>1, <2>2, <2>3, OpensInDir
  <2>5. ext2_open(q, NoFault) = OpenedAs(q)
    BY <2>1, OpensAs
  <2>6. QED
    BY <2>4, <2>5 DEF Opens
<1>7. ASSUME NEW i \in DOMAIN names, Len(dir \o names[i]) < PATH_SIZE
      PROVE  Opens(dir \o names[i])
  <2>1. PICK name : name = names[i]
    OBVIOUS
  <2>2. Has(names, name)
    BY <2>1 DEF Has
  <2>3. name \in Component /\ Found(name, NoFault, s) # 0
    BY <1>3, <1>4, <2>2, ListingFound
  <2>4. QED
    BY <1>6, <1>7, <2>1, <2>3
<1>8. ASSUME Sound(UnitsOf(n)), NEW name \in Component, Opens(dir \o name)
      PROVE  \E i \in DOMAIN names : names[i] = name
  <2>1. Found(name, NoFault, s) # 0
    BY <1>6, <1>8
  <2>2. PICK S : /\ S \subseteq AllBlocks /\ s \in Seq(S)
                 /\ \A b \in S : HidesNothing(b)
    BY <1>2, <1>8, SoundBlocks
  <2>3. Has(Got(NoFault, s).names, name)
    BY <2>1, <2>2, ListingFound
  <2>4. QED
    BY <1>3, <2>3 DEF Has
<1>9. PICK whole, copy : whole = ext2_list(p, NoFault).names /\ copy = ext2_open(p, NoFault).copy
  OBVIOUS
<1>10. whole = names /\ copy = UnitsOf(n)
  BY <1>1, <1>2, <1>3, <1>9
<1>11. /\ \A i \in DOMAIN whole : Len(dir \o whole[i]) < PATH_SIZE => Opens(dir \o whole[i])
       /\ Sound(copy) =>
            \A name \in Component :
              Opens(dir \o name) => \E i \in DOMAIN whole : whole[i] = name
  BY <1>7, <1>8, <1>10
<1>12. QED
  BY ONLY <1>3, <1>9, <1>11

(* Every directory an argument names.                                      *)
LEMMA ListingsAgree == FilesInv => ListingAgrees
<1>1. SUFFICES ASSUME FilesInv, IsMounted, NEW arg \in Args, IsDirPath(Named(arg))
      PROVE  LET dir == Append(Named(arg), SLASH)
                 names == ext2_list(Named(arg), NoFault).names
             IN  /\ \A i \in DOMAIN names :
                      Len(dir \o names[i]) < PATH_SIZE => Opens(dir \o names[i])
                 /\ Sound(ext2_open(Named(arg), NoFault).copy) =>
                      \A name \in {<<letter.a>>, <<DOT>>,
                                   <<letter.a, letter.a>>, <<DOT, letter.a>>} :
                        Opens(dir \o name) => \E i \in DOMAIN names : names[i] = name
  BY Zenon DEF ListingAgrees
<1>2. PICK p : p = Named(arg)
  OBVIOUS
<1>3. p \in Seq(Nat)
  BY <1>1, <1>2, NamedType
<1>4. PICK dir, names : dir = Append(p, SLASH) /\ names = ext2_list(p, NoFault).names
  OBVIOUS
<1>5. /\ \A i \in DOMAIN names : Len(dir \o names[i]) < PATH_SIZE => Opens(dir \o names[i])
      /\ Sound(ext2_open(p, NoFault).copy) =>
           \A name \in Component :
             Opens(dir \o name) => \E i \in DOMAIN names : names[i] = name
  BY <1>1, <1>2, <1>3, <1>4, ListingOf
<1>6. QED
  BY <1>2, <1>4, <1>5, AskedNames

(* ls and the commands that open a file have code of their own for the     *)
(* entries of a directory: they agree about every directory of every disk. *)
THEOREM ListingsAlwaysAgree == FileSpec => []ListingAgrees
BY ListingsAgree, FilesInvariance, PTL
=============================================================================
