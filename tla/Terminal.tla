------------------------------ MODULE Terminal ------------------------------
(***************************************************************************)
(* The shell at its screen: the line editor of Shell and what it and some  *)
(* commands print on the console of Screen, through kputchar, kputs and    *)
(* kprintf.  A step is one character from the keyboard with its echo and,  *)
(* for a newline, with the output of the command and the next prompt.      *)
(***************************************************************************)
EXTENDS Shell, Screen, Format

CONSTANTS
  CLEAR, ECHO, HISTORY, HELP,   \* the names of the commands that print
  BANNER, USAGE, NO_HISTORY, HELP_TITLE, TOO_LONG,              \* texts
  PROMPT, UNKNOWN_LINE, HISTORY_LINE, CATEGORY_LINE, COMMAND_LINE,   \* formats
  MAX_CATEGORIES,               \* of the array in cmd_help: 10 in the build
  MAX_COLOR                     \* 0xFFFFFF in the build

Categories ==
  LET found[n \in 0..Len(commands)] ==
        IF n = 0 THEN <<>>
        ELSE IF \E k \in DOMAIN found[n - 1] : found[n - 1][k] = commands[n].category
        THEN found[n - 1]
        ELSE Append(found[n - 1], commands[n].category)
  IN  found[Len(commands)]

ASSUME TerminalAssumption ==
  /\ {CLEAR, ECHO, HISTORY, HELP} = Names
  /\ Len(Categories) <= MAX_CATEGORIES
  /\ MAX_COLOR \in Nat

(* The characters of a text: none of the commands modelled here prints a   *)
(* carriage return (cat does, where a file holds one), and none comes from *)
(* the keyboard.                                                           *)
Printable == Nat \ {RETURN}

(* The format takes arguments of these kinds, in this order: each of its   *)
(* pieces is a text, or the directive for the argument it takes.           *)
AsksFor(format, kinds) ==
  LET pieces == Pieces(format, FALSE)
      taken(n) == Cardinality({i \in 1..n : pieces[i].conv \in Conversions})
  IN  /\ Len(pieces) \in Nat /\ DOMAIN pieces = 1..Len(pieces)
      /\ \A n \in DOMAIN pieces :
           IF pieces[n].conv = NUL THEN pieces[n].text \in Seq(Printable)
           ELSE /\ pieces[n].conv \in Conversions /\ pieces[n].width \in Nat
                /\ taken(n) \in DOMAIN kinds /\ kinds[taken(n)] = pieces[n].conv

(* The entries of the history have numbers that are ints and have digits,  *)
(* the prompt is a row of characters that are drawn, and the formats take  *)
(* what they are given.                                                    *)
ASSUME TextAssumption ==
  /\ Letters \subseteq Printable
  /\ commands \in Seq([name : Seq(Printable), description : Seq(Printable),
                       category : Seq(Printable)])
  /\ {BANNER, USAGE, NO_HISTORY, HELP_TITLE, TOO_LONG} \subseteq Seq(Printable)
  /\ PROMPT \in Seq(Printable \ {NEWLINE, BACKSPACE, PERCENT})
  /\ AsksFor(UNKNOWN_LINE, <<letter.s>>) /\ AsksFor(CATEGORY_LINE, <<letter.s>>)
  /\ AsksFor(COMMAND_LINE, <<letter.s, letter.s>>)
  /\ AsksFor(HISTORY_LINE, <<letter.d, letter.s>>)
  /\ \A i \in 1..MAX_HISTORY :
       /\ Signed(i, INT_BITS) = i /\ Signed(i, LONG_BITS) = i
       /\ kputdec(i) \in Seq(Printable)

VARIABLE screen

tvars == <<vars, screen>>

(* The prompt starts with a newline, so that it has a row of its own.      *)
Prompt == kprintf(<<NEWLINE>> \o PROMPT, <<>>)

TInit == Init /\ screen = v_puts(v_clear(BLACK), kputs(BANNER) \o Prompt)

-----------------------------------------------------------------------------
(* What the commands print.                                                *)

(* The colour is a hexadecimal number behind a "#", or a number in any     *)
(* base kstrtol knows; black if it is none.                                *)
ColorOf(args) ==
  LET Color(val) ==
        IF val.kerrno = "0" /\ val.end # 0 /\ val.value \in 0..MAX_COLOR
        THEN val.value ELSE BLACK
  IN  CASE args = <<>> -> BLACK
        [] args # <<>> /\ Head(args) = HASH -> Color(kstrtol(Tail(args), 16))
        [] OTHER -> Color(kstrtol(args, 0))

cmd_clear(args) == v_clear(ColorOf(args))

cmd_echo(args) == kputs(IF args = <<>> THEN USAGE ELSE args)

cmd_history(history) ==
  IF history = <<>> THEN kputs(NO_HISTORY)
  ELSE FlattenSeq([i \in DOMAIN history |-> kprintf(HISTORY_LINE, <<i, history[i]>>)])

cmd_help ==
  LET line(command) == kprintf(COMMAND_LINE, <<command.name, command.description>>)
      section(category) ==
        kprintf(CATEGORY_LINE, <<category>>)
          \o FlattenSeq([n \in DOMAIN commands |->
               IF commands[n].category = category THEN line(commands[n]) ELSE <<>>])
  IN  kputs(HELP_TITLE) \o FlattenSeq([n \in DOMAIN Categories |-> section(Categories[n])])

(* handle_command: the first entry of the table with the name.             *)
Output(name, args, history) ==
  CASE name = CLEAR -> <<>>
    [] name = ECHO -> cmd_echo(args)
    [] name = HISTORY -> cmd_history(history)
    [] name = HELP -> cmd_help
    [] OTHER -> kprintf(UNKNOWN_LINE, <<name>>)

-----------------------------------------------------------------------------
(* Keys.                                                                   *)

TEnter ==
  /\ Enter
  /\ LET name == NameOf(cmd_buffer)
         args == ArgsOf(cmd_buffer)
         text == IF input_overflow THEN kputs(TOO_LONG)
                 ELSE Output(name, args, command_history)
         entered == v_putchar(screen, NEWLINE)
         cleared == ~input_overflow /\ name = CLEAR
     IN  screen' = v_puts(IF cleared THEN cmd_clear(args) ELSE entered, text \o Prompt)

EchoErase ==
  IF cmd_buffer = <<>> THEN screen ELSE v_putchar(screen, BACKSPACE)

TErase == Erase /\ screen' = EchoErase

TInsert(ch) ==
  /\ Insert(ch)
  /\ screen' = v_putchar(screen, IF HasRoom THEN ch ELSE BELL)

TNext ==
  \/ TEnter
  \/ /\ Len(typed) < MaxTyped
     /\ TErase \/ \E ch \in Letters \cup {SPACE} : TInsert(ch)

TSpec == TInit /\ [][TNext]_tvars

-----------------------------------------------------------------------------
(* Properties.                                                             *)

(* The place of a glyph, and of the cursor, in reading order.              *)
Place(x, y) == (y \div FONT_HEIGHT) * (width \div FONT_WIDTH) + x \div FONT_WIDTH

Cursor == Place(screen.cursor_x, screen.cursor_y)

GlyphAt(n) ==
  LET columns == width \div FONT_WIDTH
  IN  Glyph(screen, (n % columns) * FONT_WIDTH, (n \div columns) * FONT_HEIGHT)

(* A whole glyph fits at the cursor; every place painted lies within the   *)
(* framebuffer, whose memory ends there, and no glyph is drawn over        *)
(* another or left behind the cursor.                                      *)
StaysOnScreen ==
  /\ {screen.cursor_x, screen.cursor_y} \subseteq Nat
  /\ screen.cursor_x + FONT_WIDTH <= width
  /\ screen.cursor_y + FONT_HEIGHT <= height
  /\ \A p \in DOMAIN screen.glyphs :
       /\ p[1] + FONT_WIDTH <= width /\ p[2] + FONT_HEIGHT <= height
       /\ Cardinality(screen.glyphs[p]) <= 1
       /\ screen.glyphs[p] # {} => Place(p[1], p[2]) < Cursor

(* Nothing is drawn off the screen or over something else, and the text    *)
(* right before the cursor is the prompt and the line, or the end of them  *)
(* if the screen was cleared while the line was typed; whatever wraps, is  *)
(* erased over the edge of a row, or is erased after the clear.            *)
ScreenShowsLine ==
  /\ StaysOnScreen
  /\ ~input_overflow =>
       LET line == PROMPT \o cmd_buffer
           shown == Min({Cursor, Len(line)})
       IN  \A i \in 0..(shown - 1) :
             GlyphAt(Cursor - 1 - i) = {line[Len(line) - i]}

(* The printers and the readers of numbers the commands call: what is said *)
(* of them is about no state, and is evaluated in the first.               *)

(* kvsnprintf, kprintf and d_printf print the fields a format asks for, of *)
(* the width it asks for where the printer has widths, and never more than *)
(* the buffer has room for.                                                *)
PrintsAsAsked == TInit => FieldsAreAsAsked

(* katoi and kstrtol give the number a text stands for, up to the limits   *)
(* of int and long, and KERANGE beyond them.                               *)
ReadsNumbers == TInit => NumbersAreRead
=============================================================================
