------------------------------ MODULE KeyQueue ------------------------------
(***************************************************************************)
(* What the keyboard driver promises its reader: the characters typed come *)
(* out in the order they went in, none twice and none invented, and one is *)
(* lost only when Capacity of them are waiting.                            *)
(***************************************************************************)
EXTENDS Integers, Sequences

CONSTANTS Capacity, Chars

VARIABLES
  waiting,     \* the characters typed and not yet read
  got          \* the last character read

Init == waiting = <<>> /\ got = 0

Type(c) ==
  /\ waiting' = IF Len(waiting) < Capacity THEN Append(waiting, c) ELSE waiting
  /\ UNCHANGED got

Read ==
  /\ waiting # <<>>
  /\ got' = Head(waiting)
  /\ waiting' = Tail(waiting)

Next == (\E c \in Chars : Type(c)) \/ Read

Spec == Init /\ [][Next]_<<waiting, got>>
=============================================================================
