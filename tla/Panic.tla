------------------------------- MODULE Panic -------------------------------
(***************************************************************************)
(* What the panic screen of sys/kern/panic/panic.c says: the codes and     *)
(* their messages, and the numbers that p_main and p_dump_registers put    *)
(* together in buffers of the stack, which nobody has cleared and behind   *)
(* whose digits kitoa writes no null.                                      *)
(***************************************************************************)
EXTENDS Numbers, TLC

CONSTANTS
  seconds_to_reboot, \* 5 in the build
  BUFF,              \* sizeof(buff) of p_main: 16 in the build
  DUMP,              \* sizeof(buff) of p_dump_registers: 32 in the build
  Garbage,           \* characters that memory of the stack may be full of
  Registers          \* what the registers of a dump may hold

ASSUME PanicAssumption ==
  /\ seconds_to_reboot \in 1..9 /\ BUFF \in Nat /\ DUMP \in Nat

(* The codes isr_handler gives to the vectors; all others are unknown.     *)
Named == (0 :> 1) @@ (6 :> 16) @@ (8 :> 2) @@ (10 :> 7) @@ (11 :> 6)
         @@ (12 :> 5) @@ (13 :> 3) @@ (14 :> 4) @@ (17 :> 8) @@ (18 :> 9)
         @@ (19 :> 10) @@ (20 :> 11) @@ (21 :> 12) @@ (28 :> 13)
         @@ (29 :> 14) @@ (30 :> 15)

PanicCode(vector) == IF vector \in DOMAIN Named THEN Named[vector] ELSE 0

p_get_message(code) ==
  IF code \notin 1..16 THEN "Unknown error"
  ELSE <<"Division by zero", "Double fault", "General protection fault", "Page fault",
         "Stack segment fault", "Segment not present", "Invalid TSS", "Alignment check",
         "Machine check", "SIMD exception", "Virtualization exception",
         "Control protection exception", "Hypervisor injection exception",
         "VMM communication exception", "Security exception", "Invalid opcode">>[code]

-----------------------------------------------------------------------------
(* The messages of p_main: the crash, the registers if it has them, the    *)
(* announcement, one for each second, and the farewell.  Each stands for   *)
(* several calls of p_puts.                                                *)

Announcement(regs) == IF regs THEN 3 ELSE 2

Messages(regs) == Announcement(regs) + seconds_to_reboot + 1

IsCount(n, regs) == n \in (Announcement(regs) + 1)..(Messages(regs) - 1)

(* The seconds that are left when the message is printed.                  *)
Seconds(n, regs) ==
  IF n = Announcement(regs) THEN seconds_to_reboot ELSE Messages(regs) - n

Uninitialized(size) == {[i \in 1..size |-> c] : c \in Garbage}

Cleared == [i \in 1..BUFF |-> NUL]

InDecimal(buff, value) == kitoa(buff, BUFF - 2, value, 10, FALSE)

(* Faulty variant: the buffer is not cleared behind the error code.        *)
UnclearedBuffer(n, regs, buff) ==
  CASE n = Announcement(regs) \/ IsCount(n, regs) -> InDecimal(buff, Seconds(n, regs))
    [] OTHER -> buff

(* The buffer when message n is printed.  It is cleared for the            *)
(* announcement and for the first of the seconds.                          *)
Buffer(n, regs, buff) ==
  CASE n \in {Announcement(regs), Announcement(regs) + 1} ->
         InDecimal(Cleared, Seconds(n, regs))
    [] n \notin {Announcement(regs), Announcement(regs) + 1} /\ IsCount(n, regs) ->
         InDecimal(buff, Seconds(n, regs))
    [] OTHER -> buff

(* The texts of the registers, all of them put together in one buffer.     *)
p_dump_registers(values, buff) ==
  LET step(dump, value) ==
        LET next == kitoa(dump.buff, DUMP - 2, value, 16, FALSE)
        IN  [buff |-> next, texts |-> Append(dump.texts, StringIn(next))]
  IN  FoldLeft(step, [buff |-> buff, texts |-> <<>>], values).texts

(* Each text of a dump begins with the number in its register.             *)
DumpShowsRegisters ==
  \A values \in Registers, buff \in Uninitialized(DUMP) :
    \A i \in DOMAIN values :
      IsPrefix(Text(values[i], 16), p_dump_registers(values, buff)[i])
=============================================================================
