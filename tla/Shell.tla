-------------------------------- MODULE Shell --------------------------------
(***************************************************************************)
(* The line editor, the command dispatch and the history of                *)
(* sys/shell/shell.c.  One step is one character that getchar returns, up  *)
(* to the next call of getchar; for a newline it includes the command.     *)
(*                                                                         *)
(* cmd_buffer is the sequence of the first cmd_ptr characters: the code    *)
(* ends it with a null before it reads it, and never looks further.  Which *)
(* command runs, with which arguments, is here; what it prints is in       *)
(* Terminal.                                                               *)
(***************************************************************************)
EXTENDS Sequences, SequencesExt, Characters

CONSTANTS
  CMD_BUFFER_SIZE,   \* 512 in the build
  MAX_HISTORY,       \* 128 in the build
  Letters,           \* the characters without a meaning of their own
  commands,          \* the table: a sequence of [name, description, category]
  MaxTyped           \* bound: characters typed on one line

ASSUME ShellAssumption ==
  /\ CMD_BUFFER_SIZE \in Nat \ {0}
  /\ MAX_HISTORY \in Nat
  /\ Letters \cap {NEWLINE, BACKSPACE} = {}
  /\ MaxTyped \in Nat

VARIABLES
  cmd_buffer,        \* the line, cmd_ptr characters
  input_overflow,
  command_history,   \* the first history_count entries
  ran,               \* the command last handled: its name, arguments, handler
  typed              \* the characters typed since the prompt

vars == <<cmd_buffer, input_overflow, command_history, ran, typed>>

Init ==
  /\ cmd_buffer = <<>>
  /\ input_overflow = FALSE
  /\ command_history = <<>>
  /\ ran = [name |-> <<>>, args |-> <<>>, known |-> FALSE]
  /\ typed = <<>>

(* Where the name ends: at the first space, or at the end of the line.     *)
NameLength(line) ==
  CHOOSE n \in 0..Len(line) :
    /\ \A i \in 1..n : line[i] # SPACE
    /\ n = Len(line) \/ line[n + 1] = SPACE

(* Faulty variant: only one space is skipped.                              *)
SkipOne(s) == IF s = <<>> THEN s ELSE Tail(s)

SkipSpaces(s) ==
  LET k == CHOOSE n \in 0..Len(s) :
             /\ \A i \in 1..n : s[i] = SPACE
             /\ n = Len(s) \/ s[n + 1] # SPACE
  IN  SubSeq(s, k + 1, Len(s))

NameOf(line) == SubSeq(line, 1, NameLength(line))

ArgsOf(line) == SkipSpaces(SubSeq(line, NameLength(line) + 1, Len(line)))

Names == {commands[n].name : n \in DOMAIN commands}

(* handle_command: the space after the name becomes the null that ends it. *)
handle_command(line) ==
  /\ ran' = [name |-> NameOf(line), args |-> ArgsOf(line),
             known |-> NameOf(line) \in Names]
  /\ cmd_buffer' = <<>>

(* The line is copied after handle_command has cut it at the first space.  *)
Record(entry) ==
  command_history' = IF Len(command_history) < MAX_HISTORY
                     THEN Append(command_history, entry)
                     ELSE command_history

Enter ==
  /\ IF input_overflow
     THEN cmd_buffer' = <<>> /\ UNCHANGED <<ran, command_history>>
     ELSE handle_command(cmd_buffer) /\ Record(NameOf(cmd_buffer))
  /\ input_overflow' = FALSE
  /\ typed' = <<>>

(* Faulty variant: a backspace takes the overflow back.                    *)
EraseForgives ==
  /\ cmd_buffer' = IF cmd_buffer = <<>> THEN cmd_buffer ELSE Front(cmd_buffer)
  /\ input_overflow' = FALSE
  /\ typed' = Append(typed, BACKSPACE)
  /\ UNCHANGED <<command_history, ran>>

Erase ==
  /\ cmd_buffer' = IF cmd_buffer = <<>> THEN cmd_buffer ELSE Front(cmd_buffer)
  /\ typed' = Append(typed, BACKSPACE)
  /\ UNCHANGED <<input_overflow, command_history, ran>>

HasRoom == Len(cmd_buffer) < CMD_BUFFER_SIZE - 1

Insert(ch) ==
  /\ IF HasRoom
     THEN cmd_buffer' = Append(cmd_buffer, ch) /\ UNCHANGED input_overflow
     ELSE input_overflow' = TRUE /\ UNCHANGED cmd_buffer
  /\ typed' = Append(typed, ch)
  /\ UNCHANGED <<command_history, ran>>

Next ==
  \/ Enter
  \/ /\ Len(typed) < MaxTyped
     /\ Erase \/ \E ch \in Letters \cup {SPACE} : Insert(ch)

Spec == Init /\ [][Next]_vars

-----------------------------------------------------------------------------
(* Properties.                                                             *)

(* The line a user who never overflows a buffer would see.                 *)
Edited(chars) ==
  FoldLeft(LAMBDA line, ch : IF ch # BACKSPACE THEN Append(line, ch)
                             ELSE IF line = <<>> THEN line ELSE Front(line),
           <<>>, chars)

Fits(chars) ==
  \A n \in 0..Len(chars) : Len(Edited(SubSeq(chars, 1, n))) < CMD_BUFFER_SIZE

(* The shell knows when its line is not what was typed: the overflow flag  *)
(* is up exactly when the line was too long once, even if it was shortened *)
(* since, and while it is down the buffer is what was typed.  Line and     *)
(* history leave the room in their arrays that they end with a null in.    *)
LineIsTyped ==
  /\ Len(cmd_buffer) < CMD_BUFFER_SIZE
  /\ Len(command_history) <= MAX_HISTORY
  /\ input_overflow <=> ~Fits(typed)
  /\ ~input_overflow => cmd_buffer = Edited(typed)

IsSpaces(s) == \A i \in DOMAIN s : s[i] = SPACE

(* What runs is what was typed: its name, spaces and its arguments make up *)
(* the line, and no part of a line that was cut off ever runs.             *)
RunsWhatWasTyped ==
  [][/\ Enter /\ Fits(typed) =>
          \E n \in 0..Len(typed) :
            LET spaces == [i \in 1..n |-> SPACE]
            IN  /\ Edited(typed) = ran'.name \o spaces \o ran'.args
                /\ \A i \in DOMAIN ran'.name : ran'.name[i] # SPACE
                /\ ran'.args # <<>> => n > 0 /\ Head(ran'.args) # SPACE
     /\ ran' # ran => Enter /\ Fits(typed)]_vars
=============================================================================
