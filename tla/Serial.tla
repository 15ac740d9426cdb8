------------------------------- MODULE Serial -------------------------------
(***************************************************************************)
(* The port of sys/drivers/serial/serial.c: the registers of the UART the  *)
(* driver touches, and its functions as operators on them.  A port that is *)
(* not there reads as 0xFF and keeps nothing.                              *)
(***************************************************************************)
EXTENDS Integers

CONSTANT Idle                \* nothing is being transmitted

(* The part of the UART that matters: whether there is one, the divisor of *)
(* its clock, and what it is transmitting: a text, with the divisor at     *)
(* which it was given out.                                                 *)
Uarts == [present : BOOLEAN, divisor : 0..255,
          sending : {Idle} \cup [text : Nat, divisor : 0..255]]

PowerOn(present) == [present |-> present, divisor |-> 12, sending |-> Idle]

(* s_is_available: 0xAA goes to the data port while the divisor latch is   *)
(* selected there, so that it becomes the divisor, which stays.  The line  *)
(* control is put back, and with it the meaning of the data port.          *)
s_is_available(u) == u.present

Probed(u) == IF u.present THEN [u EXCEPT !.divisor = 170] ELSE u

s_init(u) == IF s_is_available(u) THEN [Probed(u) EXCEPT !.divisor = 3] ELSE u

s_is_transmit_empty(u) == u.sending = Idle

Send(u, text) == [u EXCEPT !.sending = [text |-> text, divisor |-> u.divisor]]

Transmitted(u) == [u EXCEPT !.sending = Idle]
=============================================================================
