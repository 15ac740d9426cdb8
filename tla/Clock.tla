-------------------------------- MODULE Clock --------------------------------
(***************************************************************************)
(* The date and time of sys/lib/ktime/ktime.c.  kget_bios_time reads the   *)
(* registers of the real time clock one after the other, and the clock     *)
(* goes on meanwhile.  Day, month, year and century are one register here: *)
(* they are read after the hour and converted alike.                       *)
(*                                                                         *)
(* The clock is in its 24-hour mode, in decimal or binary.                 *)
(***************************************************************************)
EXTENDS Integers, Sequences

CONSTANTS
  SECONDS, MINUTES, DAYS     \* bounds: seconds in a minute, minutes in an hour, days

VARIABLES
  now,               \* the clock: seconds since it started
  binary,            \* bit 2 of its status register B
  read,              \* the registers kget_bios_time has read, in this order
  started,           \* the time the call started
  time               \* what it returned

vars == <<now, binary, read, started, time>>

Last == SECONDS * MINUTES * 24 * DAYS - 1

Fields(t) ==
  [second |-> t % SECONDS,
   minute |-> (t \div SECONDS) % MINUTES,
   hour   |-> (t \div (SECONDS * MINUTES)) % 24,
   day    |-> t \div (SECONDS * MINUTES * 24)]

Order == <<"second", "minute", "hour", "day">>

Init ==
  /\ now \in 0..Last
  /\ binary \in BOOLEAN
  /\ read = <<>>
  /\ started = now
  /\ time = Fields(now)

Tick == now < Last /\ now' = now + 1 /\ UNCHANGED <<binary, read, started, time>>

Register(name) ==
  LET value == Fields(now)[name]
  IN  IF binary THEN value ELSE (value \div 10) * 16 + (value % 10)

kbcd_to_decimal(bcd) == (bcd \div 16) * 10 + (bcd % 16)

Converted(register) == IF binary THEN register ELSE kbcd_to_decimal(register)

Bit(n, weight) == (n \div weight) % 2 = 1

(* Bit 6 is taken for the afternoon of a 12-hour clock, and a clock that   *)
(* has neither bit set for one in the morning.                             *)
Hour(register) ==
  LET hour == Converted(register)
  IN  IF Bit(register, 128) THEN hour
      ELSE IF Bit(register, 64) THEN ((hour % 12) + 12) % 24
      ELSE hour % 12

krtc_read ==
  /\ Len(read) < Len(Order)
  /\ read' = Append(read, Register(Order[Len(read) + 1]))
  /\ started' = IF read = <<>> THEN now ELSE started
  /\ UNCHANGED <<now, binary, time>>

kget_bios_time ==
  /\ Len(read) = Len(Order)
  /\ time' = [second |-> Converted(read[1]), minute |-> Converted(read[2]),
              hour |-> Hour(read[3]), day |-> Converted(read[4])]
  /\ read' = <<>>
  /\ UNCHANGED <<now, binary, started>>

Next == Tick \/ krtc_read \/ kget_bios_time

Spec == Init /\ [][Next]_vars

-----------------------------------------------------------------------------
(* The command table's "Show current date and time": what a call returns   *)
(* was the date and time at a moment of the call.                          *)
TimeIsCurrent ==
  [][kget_bios_time => \E t \in started..now : time' = Fields(t)]_vars
=============================================================================
