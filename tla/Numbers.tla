------------------------------ MODULE Numbers ------------------------------
(***************************************************************************)
(* Numbers and their texts: kutoa, kitoa, katoi and kstrtol of             *)
(* sys/lib/kstdlib.  int and long have the widths the constants say.       *)
(***************************************************************************)
EXTENDS Characters, Sequences, SequencesExt, FiniteSetsExt

CONSTANTS INT_BITS, LONG_BITS      \* 32 and 64 in the build

ASSUME NumberAssumption ==
  /\ INT_BITS \in Nat \ {0} /\ LONG_BITS \in Nat
  /\ INT_BITS <= LONG_BITS

KINT_MAX == 2^(INT_BITS - 1) - 1
KINT_MIN == -(2^(INT_BITS - 1))
KLONG_MAX == 2^(LONG_BITS - 1) - 1
KLONG_MIN == -(2^(LONG_BITS - 1))

(* The value of v in bits bits, unsigned and two's complement.             *)
Unsigned(v, bits) == v % 2^bits

Signed(v, bits) == Unsigned(v + 2^(bits - 1), bits) - 2^(bits - 1)

(* Division as in C: towards zero.                                         *)
Quotient(a, b) == IF a >= 0 THEN a \div b ELSE -((-a) \div b)

Remainder(a, b) == a - b * Quotient(a, b)

-----------------------------------------------------------------------------
(* From numbers to texts.                                                  *)

Digit(d, upper) == IF d < 10 THEN ZERO + d ELSE (IF upper THEN 65 ELSE 97) + d - 10

DigitCount(value, base) ==
  CHOOSE n \in 1..(LONG_BITS + 1) :
    base^n > value /\ (n = 1 \/ base^(n - 1) <= value)

(* A bug to compare with: the digits as they come, the last one first.     *)
LastFirst(value, base, upper, count) ==
  [i \in 1..count |-> Digit((value \div base^(i - 1)) % base, upper)]

(* The count lowest digits.                                                *)
LowestDigits(value, base, upper, count) ==
  [i \in 1..count |-> Digit((value \div base^(count - i)) % base, upper)]

(* What kutoa writes between buf and end, room characters apart, and it    *)
(* returns where that ends.  There is no null behind it.                   *)
kutoa(room, value, base, upper) ==
  IF base <= 1 THEN <<>>
  ELSE LowestDigits(value, base, upper, Min({room, DigitCount(value, base)}))

Overwritten(buf, text) ==
  [i \in DOMAIN buf |-> IF i <= Len(text) THEN text[i] ELSE buf[i]]

Minus(negative) == IF negative THEN <<MINUS>> ELSE <<>>

(* The buffer kitoa leaves, of which it is told that room characters are   *)
(* before the end: it keeps one of them free and puts a null only behind   *)
(* a zero.  For KLONG_MIN the digit is looked up outside of the table.     *)
kitoa(buf, room, value, base, upper) ==
  IF base <= 1 THEN IF room > 0 THEN Overwritten(buf, <<NUL>>) ELSE buf
  ELSE IF room <= 0 THEN buf
  ELSE IF value = 0 THEN Overwritten(buf, <<ZERO, NUL>>)
  ELSE LET size == IF value < 0 THEN -value ELSE value
           count == Min({room - 1, DigitCount(size, base)})
       IN  Overwritten(buf, Minus(value < 0 /\ count < room - 1)
                              \o LowestDigits(size, base, upper, count))

(* The string in a buffer: up to the first null.                           *)
StringIn(buf) ==
  LET nulls == {i \in DOMAIN buf : buf[i] = NUL}
  IN  SubSeq(buf, 1, IF nulls = {} THEN Len(buf) ELSE Min(nulls) - 1)

-----------------------------------------------------------------------------
(* From texts to numbers.  A result has the value and kerrno.              *)

(* The first place from start on that does not satisfy Skip.               *)
After(s, start, Skip(_)) ==
  Min({i \in start..(Len(s) + 1) : i > Len(s) \/ ~Skip(s[i])})

At(s, i) == IF i > Len(s) THEN NUL ELSE s[i]

AfterSign(s, i) == IF At(s, i) \in {PLUS, MINUS} THEN i + 1 ELSE i

Number(value, kerrno) == [value |-> value, kerrno |-> kerrno]

katoi(s) ==
  LET sign_at == After(s, 1, kisspace)
      negative == At(s, sign_at) = MINUS
      from == AfterSign(s, sign_at)
      digits == SubSeq(s, from, After(s, from, kisdigit) - 1)
      Add(result, c) ==
        IF result = -1 \/ result > (KLONG_MAX - (c - ZERO)) \div 10 THEN -1
        ELSE result * 10 + (c - ZERO)
      result == FoldLeft(Add, 0, digits)
      signed == IF negative THEN -result ELSE result
      limit == IF negative THEN KINT_MIN ELSE KINT_MAX
  IN  IF digits = <<>> THEN Number(0, "KEINVAL")
      ELSE IF result = -1 \/ signed \notin KINT_MIN..KINT_MAX THEN Number(limit, "KERANGE")
      ELSE Number(signed, "0")

DigitValue(c) ==
  IF kisdigit(c) THEN c - ZERO
  ELSE IF kisalpha(c) THEN ktoupper(c) - 65 + 10
  ELSE 36

HexPrefix(s, i) == At(s, i) = ZERO /\ ktoupper(At(s, i + 1)) = 88

(* The base, and where the digits start.                                   *)
Base(s, i, base) ==
  CASE base = 0 /\ HexPrefix(s, i) -> [base |-> 16, from |-> i + 2]
    [] base = 0 /\ ~HexPrefix(s, i) /\ At(s, i) = ZERO -> [base |-> 8, from |-> i + 1]
    [] base = 0 /\ At(s, i) # ZERO -> [base |-> 10, from |-> i]
    [] base = 16 /\ HexPrefix(s, i) -> [base |-> 16, from |-> i + 2]
    [] OTHER -> [base |-> base, from |-> i]

(* The greatest value that may get another digit, and the greatest digit   *)
(* it may get.  For a negative number both come out one step off, so that  *)
(* the last numbers before KLONG_MIN are refused if KLONG_MIN is not a     *)
(* multiple of the base.                                                   *)
Cutoff(neg, base) ==
  LET limit == IF neg THEN KLONG_MIN ELSE KLONG_MAX
      rest == Remainder(limit, base)
  IN  IF rest < 0 THEN [off |-> Quotient(limit, base) + 1, lim |-> rest + base]
      ELSE [off |-> Quotient(limit, base), lim |-> rest]

(* A bug to compare with: the last digit is not looked at.                 *)
TooLongByOne(acc, neg, digit, cut) ==
  IF neg THEN acc < cut.off ELSE acc > cut.off

TooLong(acc, neg, digit, cut) ==
  \/ IF neg THEN acc < cut.off ELSE acc > cut.off
  \/ acc = cut.off /\ digit > cut.lim

(* One round of the loop.  After an overflow neg is cleared, "to avoid     *)
(* negating again", and the digits that follow a negative one are added    *)
(* to what KLONG_MIN becomes when it overflows.                            *)
AddDigit(st, digit, base, cut) ==
  IF TooLong(st.acc, st.neg, digit, cut)
  THEN [acc |-> IF st.neg THEN KLONG_MIN ELSE KLONG_MAX, neg |-> FALSE,
        kerrno |-> "KERANGE"]
  ELSE [st EXCEPT !.acc = Signed(@ * base + (IF st.neg THEN -digit ELSE digit), LONG_BITS)]

(* The digits of s from b.from on.                                         *)
DigitsFrom(s, b) ==
  LET IsDigit(c) == DigitValue(c) < b.base
  IN  SubSeq(s, b.from, After(s, b.from, IsDigit) - 1)

Accumulated(digits, neg, base, cut) ==
  FoldLeft(LAMBDA st, c : AddDigit(st, DigitValue(c), base, cut),
           [acc |-> 0, neg |-> neg, kerrno |-> "0"], digits)

(* value, kerrno, and end, the number of characters passed over.           *)
kstrtol(s, given) ==
  LET Result(st, end) == [value |-> st.acc, kerrno |-> st.kerrno, end |-> end]
      Read(neg, b, digits) ==
        Result(Accumulated(digits, neg, b.base, Cutoff(neg, b.base)),
               b.from + Len(digits) - 1)
      ReadWith(neg, b) == Read(neg, b, DigitsFrom(s, b))
      ReadAfter(sign_at) ==
        ReadWith(At(s, sign_at) = MINUS, Base(s, AfterSign(s, sign_at), given))
  IN  ReadAfter(After(s, 1, kisspace))

-----------------------------------------------------------------------------
(* Properties.  What a text of digits is worth: the reference.             *)

Worth(text, base) ==
  FoldLeft(LAMBDA sum, c : sum * base + DigitValue(c), 0, text)

(* A text of the least number of digits that is worth the number.          *)
IsTextOf(text, value, base) ==
  /\ text # <<>> /\ Worth(text, base) = value
  /\ Head(text) = ZERO => text = <<ZERO>>

Text(value, base) ==
  Minus(value < 0)
    \o LowestDigits(IF value < 0 THEN -value ELSE value, base, FALSE,
                    DigitCount(IF value < 0 THEN -value ELSE value, base))

Clamped(value, low, high) == IF value < low THEN low ELSE IF value > high THEN high ELSE value

(* Bounds of the numbers whose texts are read.                             *)
Readable == (2 * KLONG_MIN)..(2 * KLONG_MAX)

(* katoi and kstrtol, with digits that run up to and over the limits of    *)
(* int and long, give the number of the text or the limit with KERANGE.    *)
(* kstrtol does so for a negative number that no base comes close to the   *)
(* limit with: the two multiples of the base before KLONG_MIN are left     *)
(* out, and so is what lies beyond it.                                     *)
NumbersAreRead ==
  \A value \in Readable :
    /\ katoi(Text(value, 10)) =
         Number(Clamped(value, KINT_MIN, KINT_MAX),
                IF value \in KINT_MIN..KINT_MAX THEN "0" ELSE "KERANGE")
    /\ \A base \in {8, 10, 16} :
         LET read == kstrtol(Text(value, base), base)
         IN  value >= KLONG_MIN + 2 * base =>
               /\ read.value = Clamped(value, KLONG_MIN, KLONG_MAX)
               /\ read.kerrno = IF value <= KLONG_MAX THEN "0" ELSE "KERANGE"
               /\ read.end = Len(Text(value, base))
=============================================================================
