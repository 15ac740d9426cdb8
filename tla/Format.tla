------------------------------- MODULE Format -------------------------------
(***************************************************************************)
(* Formatted output: kvsnprintf and kprintf of sys/lib/kstdio/kprint,      *)
(* d_printf and the messages of sys/debug/debug.c.  Each has code of its   *)
(* own for the directives, and they differ.  The text an operator gives is *)
(* what is stored or goes to the screen or the serial port; arguments are  *)
(* numbers and strings.  A format ends with whole directives: behind a     *)
(* final "%" the code would read past the null.                            *)
(***************************************************************************)
EXTENDS Numbers

CONSTANT
  TEMP               \* sizeof(temp) in kvsnprintf: 32 in the build

ASSUME FormatAssumption == TEMP \in Nat \ {0}

Spaces(n) == [i \in 1..n |-> SPACE]

Padded(text, width, left) ==
  LET pad == Spaces(Max({0, width - Len(text)}))
  IN  IF left THEN text \o pad ELSE pad \o text

(* The directive whose text starts at i, behind the "%".                   *)
Directive(format, i) ==
  LET left == At(format, i) = MINUS
      width_at == IF left THEN i + 1 ELSE i
      ll_at == After(format, width_at, kisdigit)
      ll == At(format, ll_at) = letter.l /\ At(format, ll_at + 1) = letter.l
      conv_at == IF ll THEN ll_at + 2 ELSE ll_at
  IN  [left |-> left, width |-> Worth(SubSeq(format, width_at, ll_at - 1), 10),
       ll |-> ll, conv |-> At(format, conv_at), next |-> conv_at + 1]

(* d_printf knows "ll" only before an x: anything else makes an unknown    *)
(* "l" of it, and what follows is printed as it is.                        *)
DebugDirective(d) ==
  IF d.ll /\ d.conv # letter.x
  THEN [d EXCEPT !.ll = FALSE, !.conv = letter.l, !.next = @ - 1]
  ELSE d

(* A format as its directives and the characters between them.             *)
Literal(c) == [conv |-> NUL, text |-> <<c>>]

Pieces(format, debug) ==
  LET from[i \in 1..(Len(format) + 1)] ==
        LET Known(d) == IF debug THEN DebugDirective(d) ELSE d
            Before(d) == <<d>> \o from[d.next]
        IN  IF i > Len(format) THEN <<>>
            ELSE IF format[i] # PERCENT THEN <<Literal(format[i])>> \o from[i + 1]
            ELSE Before(Known(Directive(format, i + 1)))
  IN  from[1]

(* The pieces with the arguments they take: those with a conversion in     *)
(* taking get the next one, the others 0.                                  *)
WithArguments(pieces, args, taking) ==
  LET taken(n) == Cardinality({i \in 1..n : pieces[i].conv \in taking})
  IN  [n \in DOMAIN pieces |->
         [piece |-> pieces[n],
          arg |-> IF pieces[n].conv \in taking THEN args[taken(n)] ELSE 0]]

FirstOf(text, room) == SubSeq(text, 1, Min({room, Len(text)}))

(* Texts put together.                                                     *)
Joining(texts) == FlattenSeq(texts)

Unknown(conv) == <<PERCENT, conv>>

(* The width of int, or of long long with "ll".                            *)
Bits(d) == IF d.ll THEN LONG_BITS ELSE INT_BITS

Digits(value, base, upper) ==
  LowestDigits(value, base, upper, DigitCount(value, base))

SignedText(value) ==
  Minus(value < 0) \o Digits(IF value < 0 THEN -value ELSE value, 10, FALSE)

Conversions == {letter.s, letter.c, letter.d, letter.u, letter.x}

-----------------------------------------------------------------------------
(* kvsnprintf.  "ll" is passed over before a hexadecimal number, of which  *)
(* only an unsigned int is printed.                                        *)

(* What goes into temp.                                                    *)
TempText(d, arg) ==
  CASE d.conv = letter.s -> FirstOf(arg, TEMP - 1)
    [] d.conv = letter.c -> <<arg>>
    [] d.conv = letter.d -> SignedText(Signed(arg, Bits(d)))
    [] d.conv = letter.u -> Digits(Unsigned(arg, Bits(d)), 10, FALSE)
    [] d.conv = letter.x -> Digits(Unsigned(arg, INT_BITS), 16, FALSE)
    [] d.conv = letter.X -> Digits(Unsigned(arg, INT_BITS), 16, TRUE)
    [] d.conv = PERCENT -> <<PERCENT>>
    [] OTHER -> Unknown(d.conv)

SnField(d, arg) ==
  IF d.conv = NUL THEN d.text ELSE Padded(TempText(d, arg), d.width, d.left)

SnFields(all) == [n \in DOMAIN all |-> SnField(all[n].piece, all[n].arg)]

SnText(format, args) ==
  Joining(SnFields(WithArguments(Pieces(format, FALSE), args, Conversions \cup {letter.X})))

(* A bug to compare with: the null that ends the text is not counted.      *)
ksnprintf_full(size, format, args) == FirstOf(SnText(format, args), size)

(* The text in the buffer; its length is what ksnprintf returns.           *)
ksnprintf(size, format, args) == FirstOf(SnText(format, args), size - 1)

-----------------------------------------------------------------------------
(* kprintf, to the screen.  Only strings and "ll" numbers have a width,    *)
(* counted without the sign; "%X" is not known.                            *)

kputdec(n) == Digits(n, 10, FALSE)

(* Through kputs, which adds a newline.                                    *)
kputhex(n) == Append(Digits(n, 16, TRUE), NEWLINE)

PrintDecimal(d, value) ==
  LET size == IF value < 0 THEN -value ELSE value
  IN  Minus(value < 0) \o (IF d.ll THEN Padded(kputdec(size), d.width, d.left)
                           ELSE kputdec(size))

PrintField(d, arg) ==
  CASE d.conv = NUL -> d.text
    [] d.conv = letter.s -> Padded(arg, d.width, d.left)
    [] d.conv = letter.d -> PrintDecimal(d, Signed(arg, Bits(d)))
    [] d.conv = letter.u -> PrintDecimal(d, Unsigned(arg, Bits(d)))
    [] d.conv = letter.x -> kputhex(Unsigned(arg, Bits(d)))
    [] d.conv = letter.c -> <<arg>>
    [] d.conv = PERCENT -> <<PERCENT>>
    [] OTHER -> Unknown(d.conv)

PrintFields(all) == [n \in DOMAIN all |-> PrintField(all[n].piece, all[n].arg)]

kprintf(format, args) ==
  Joining(PrintFields(WithArguments(Pieces(format, FALSE), args, Conversions)))

-----------------------------------------------------------------------------
(* d_printf, to the serial port: the prefix, then the text.  There is no   *)
(* "%u", only strings have a width, and "%llx" prints the 32 lower bits.   *)

DebugField(d, arg) ==
  CASE d.conv = NUL -> d.text
    [] d.conv = letter.s -> Padded(arg, d.width, d.left)
    [] d.conv = letter.d -> SignedText(Signed(arg, INT_BITS))
    [] d.conv = letter.x -> Digits(Unsigned(arg, INT_BITS), 16, FALSE)
    [] d.conv = letter.c -> <<arg>>
    [] d.conv = PERCENT -> <<PERCENT>>
    [] OTHER -> Unknown(d.conv)

DebugFields(all) == [n \in DOMAIN all |-> DebugField(all[n].piece, all[n].arg)]

d_printf(format, args) ==
  Joining(DebugFields(WithArguments(Pieces(format, TRUE), args, Conversions \ {letter.u})))

-----------------------------------------------------------------------------
(* Properties.                                                             *)

(* Bounds of the fields compared.                                          *)
Values == {KLONG_MIN + 1, KINT_MIN - 1, -10, -1, 0, 9, 10, KINT_MAX, KINT_MAX + 1, KLONG_MAX}
Widths == 0..5
Strings2 == {<<>>, <<letter.a>>, [i \in 1..(TEMP + 1) |-> letter.a]}

Asked(left, width, ll, conv) ==
  <<PERCENT>> \o (IF left THEN <<MINUS>> ELSE <<>>)
    \o (IF width = 0 THEN <<>> ELSE <<ZERO + width>>)
    \o (IF ll THEN <<letter.l, letter.l>> ELSE <<>>) \o <<conv>>

IsNumber(text, value, base) ==
  IF value >= 0 THEN IsTextOf(text, value, base)
  ELSE text # <<>> /\ Head(text) = MINUS /\ IsTextOf(Tail(text), -value, base)

(* A field of at least width characters that has the number at its end, or *)
(* at its start, and spaces.                                               *)
IsField(text, value, base, width, left) ==
  \E n \in DOMAIN text :
    LET body == IF left THEN SubSeq(text, 1, n) ELSE SubSeq(text, n, Len(text))
        pad == Len(text) - Len(body)
    IN  /\ IsNumber(body, value, base)
        /\ pad = Max({0, width - Len(body)})
        /\ Padded(body, Len(text), left) = text

NumberFields ==
  \A left, ll \in BOOLEAN, width \in Widths, value \in Values :
    LET bits == IF ll THEN LONG_BITS ELSE INT_BITS
        text(conv) == SnText(Asked(left, width, ll, conv), <<value>>)
        shown == kprintf(Asked(left, width, ll, letter.d), <<value>>)
        number == Signed(value, bits)
    IN  /\ IsField(text(letter.d), number, 10, width, left)
        /\ IsField(text(letter.u), Unsigned(value, bits), 10, width, left)
        /\ IsField(text(letter.x), Unsigned(value, INT_BITS), 16, width, left)
        /\ IF number < 0
           THEN /\ Head(shown) = MINUS
                /\ IsField(Tail(shown), -number, 10, IF ll THEN width ELSE 0, left)
           ELSE IsField(shown, number, 10, IF ll THEN width ELSE 0, left)

(* A buffer never gets more than its size with the final null, and gets    *)
(* the start of the text.                                                  *)
BufferSuffices ==
  \A size \in 1..7, value \in Values, conv \in {letter.d, letter.x} :
    LET format == Asked(FALSE, 3, FALSE, conv) \o Asked(TRUE, 3, FALSE, conv)
        stored == ksnprintf(size, format, <<value, value>>)
    IN  Len(stored) < size /\ IsPrefix(stored, SnText(format, <<value, value>>))

(* The three printers take their arguments in order and agree on formats   *)
(* without a width of signed numbers, characters and strings that fit in   *)
(* temp; the texts around the directives come out as they are.             *)
Argument(conv) ==
  CASE conv = letter.d -> {KINT_MIN + 1, 0, 10}
    [] conv = letter.c -> {letter.b}
    [] conv = letter.s -> {s \in Strings2 : Len(s) < TEMP}
    [] OTHER -> {0}

PrintersAgree ==
  \A c1, c2 \in {letter.d, letter.c, letter.s, PERCENT} :
    \A a1 \in Argument(c1), a2 \in Argument(c2) :
      LET format == <<letter.g>> \o Asked(FALSE, 0, FALSE, c1) \o <<SPACE>>
                      \o Asked(FALSE, 0, FALSE, c2) \o <<DOT>>
          args == (IF c1 = PERCENT THEN <<>> ELSE <<a1>>)
                    \o (IF c2 = PERCENT THEN <<>> ELSE <<a2>>)
      IN  kprintf(format, args) = SnText(format, args)
            /\ d_printf(format, args) = SnText(format, args)

(* What is printed is what was asked for: numbers of the width of their    *)
(* type with the padding the printer has, cut to the size of the buffer,   *)
(* each directive with the argument meant for it.                          *)
FieldsAreAsAsked == NumberFields /\ BufferSuffices /\ PrintersAgree
=============================================================================
