------------------------------- MODULE Kernel -------------------------------
(***************************************************************************)
(* The life of the kernel: start_kernel from the multiboot information to  *)
(* the shell with the mount of the disk, exceptions through isr_handler,   *)
(* the panic screen p_main with its output on the serial port and the      *)
(* console, and the reboot.                                                *)
(*                                                                         *)
(* A step is a step of start_kernel, a tag of a walk, or a call p_main     *)
(* makes.  The port sends a message as if it were one character.           *)
(***************************************************************************)
EXTENDS Panic, Mount, Serial

CONSTANTS
  Infos,             \* what the boot loader may hand over: NoInfo or tags
  NoInfo,
  Vectors,           \* the exceptions that may strike a running kernel
  PanicArgs,         \* the arguments of kpanic, texts
  MaxNested          \* bound: panics, one within another, that fit on the stack

ASSUME KernelAssumption ==
  /\ Vectors \subseteq 0..31
  /\ MaxNested \in Nat

VARIABLES
  info,              \* the tags at mb_info
  machine,           \* what the hardware is like
  stage,             \* where start_kernel is
  tag,               \* the tag a walk is at
  fb_info,           \* "none", or where the framebuffer is
  mount,             \* the Outcome of ext2_mount
  printed,           \* what d_dbgtype has printed since the boot
  IF_flag,           \* interrupts are enabled
  uart,
  panic              \* of the innermost p_main: where it is, in which message

hardware == <<info, machine>>
found == <<tag, fb_info, mount, printed>>
kvars == <<hardware, stage, found, IF_flag, uart, panic>>

(* Only the first 4 GiB are mapped: a framebuffer above faults.  The timer *)
(* counts, does not count, or reads as zeros if it is not there.           *)
Machines == [framebuffer : {"mapped", "unmapped"},
             hpet : {"counts", "stands", "zero"},
             resets : BOOLEAN]

NoPanic == [depth |-> 0, at |-> "none", message |-> 0, regs |-> FALSE, code |-> 0,
            buff |-> Cleared]

Init ==
  /\ info \in Infos
  /\ machine \in Machines
  /\ \E present \in BOOLEAN : uart = PowerOn(present)
  /\ stage = "idt_init" /\ tag = 1 /\ fb_info = "none"
  /\ mount = NotMounted /\ printed = {}
  /\ IF_flag = FALSE /\ panic = NoPanic

-----------------------------------------------------------------------------
(* Exceptions and panics.                                                  *)

(* Entering p_main, again if it runs already: panic_in_progress is set and *)
(* never tested.  When the stack is used up, what follows is undefined.    *)
Enter(code, regs) ==
  /\ IF panic.depth < MaxNested
     THEN /\ stage' = "panic"
          /\ \E buff \in Uninitialized(BUFF) :
               panic' = [depth |-> panic.depth + 1, at |-> "clear", message |-> 1,
                         regs |-> regs, code |-> code, buff |-> InDecimal(buff, code)]
     ELSE stage' = "lost" /\ panic' = NoPanic
  /\ IF_flag' = FALSE

isr_handler(vector) == Enter(PanicCode(vector), TRUE)

GoTo(place) == panic' = [panic EXCEPT !.at = place]

LastMessage == panic.message = Messages(panic.regs)

Counting == IsCount(panic.message, panic.regs)

Advanced ==
  [depth |-> panic.depth, at |-> "writes", message |-> panic.message + 1,
   regs |-> panic.regs, code |-> panic.code,
   buff |-> Buffer(panic.message + 1, panic.regs, panic.buff)]

(* Faulty variants: the last second is counted for ever, as an unsigned    *)
(* i >= 0 would do, and one message too many.                              *)
NextMessageForEver ==
  panic' = IF Counting /\ ~IsCount(panic.message + 1, panic.regs)
           THEN [panic EXCEPT !.at = "writes"]
           ELSE IF LastMessage THEN [panic EXCEPT !.at = "reboot"] ELSE Advanced

NextMessage == panic' = IF LastMessage THEN [panic EXCEPT !.at = "reboot"] ELSE Advanced

Faults == fb_info = "unmapped"

InPanic(place) == stage = "panic" /\ panic.at = place

(* d_dbgtype prints on the screen, debug mode or not, and the kernel goes  *)
(* on to the next stage.                                                   *)
d_dbgtype(type, subsystem, message, next) ==
  IF Faults THEN isr_handler(14) /\ UNCHANGED printed
  ELSE /\ printed' = printed \cup
            {[type |-> type, subsystem |-> subsystem, message |-> message]}
       /\ stage' = next
       /\ UNCHANGED <<IF_flag, panic>>

MountFailed == [type |-> "err", subsystem |-> "fs", message |-> "EXT2 mount failed"]

(* Faulty variant: interrupts are enabled while the screen is drawn.       *)
v_clear_sti ==
  /\ InPanic("clear")
  /\ ~Faults
  /\ GoTo("writes")
  /\ IF_flag' = TRUE
  /\ UNCHANGED <<hardware, stage, found, uart>>

v_clear ==
  /\ InPanic("clear")
  /\ IF Faults THEN isr_handler(14)
     ELSE GoTo("writes") /\ UNCHANGED <<stage, IF_flag>>
  /\ UNCHANGED <<hardware, found, uart>>

(* p_puts: s_writes probes the port, and s_write does so again.            *)
s_writes ==
  /\ InPanic("writes")
  /\ uart' = Probed(uart)
  /\ GoTo(IF s_is_available(uart) THEN "write" ELSE "puts")
  /\ UNCHANGED <<hardware, stage, found, IF_flag>>

s_write ==
  /\ InPanic("write")
  /\ uart' = Probed(uart)
  /\ GoTo("transmit")
  /\ UNCHANGED <<hardware, stage, found, IF_flag>>

transmit ==
  /\ InPanic("transmit")
  /\ s_is_transmit_empty(uart)
  /\ uart' = Send(uart, panic.message)
  /\ GoTo("puts")
  /\ UNCHANGED <<hardware, stage, found, IF_flag>>

v_puts ==
  /\ InPanic("puts")
  /\ IF Faults THEN isr_handler(14)
     ELSE /\ IF Counting THEN GoTo("sleep") ELSE NextMessage
          /\ UNCHANGED <<stage, IF_flag>>
  /\ UNCHANGED <<hardware, found, uart>>

(* ksleep divides by the period the timer reports, then waits for it.      *)
ksleep ==
  /\ InPanic("sleep")
  /\ \/ machine.hpet = "zero" /\ isr_handler(0)
     \/ machine.hpet = "counts" /\ NextMessage /\ UNCHANGED <<stage, IF_flag>>
  /\ UNCHANGED <<hardware, found, uart>>

-----------------------------------------------------------------------------
(* The reboot, from the panic screen or the shell.                         *)

Reset ==
  /\ machine.resets
  /\ stage' = "idt_init" /\ tag' = 1 /\ fb_info' = "none"
  /\ mount' = NotMounted /\ printed' = {}
  /\ IF_flag' = FALSE /\ panic' = NoPanic
  /\ uart' = PowerOn(uart.present)
  /\ UNCHANGED hardware

(* The machine goes on: a_reboot and a_poweroff wait, say so, and return   *)
(* to p_main, which halts, or to the shell.                                *)
NothingHappened(message) ==
  /\ \/ machine.hpet = "zero" /\ isr_handler(0) /\ UNCHANGED printed
     \/ /\ machine.hpet = "counts"
        /\ d_dbgtype("err", "acpi", message, IF stage = "panic" THEN "halted" ELSE "shell")
  /\ UNCHANGED <<hardware, tag, fb_info, mount, uart>>

a_reboot ==
  /\ InPanic("reboot") \/ stage = "reboot"
  /\ Reset \/ (~machine.resets /\ NothingHappened("Legacy reboot failed"))

a_poweroff ==
  /\ stage = "poweroff"
  /\ \/ stage' = "off" /\ UNCHANGED <<hardware, found, IF_flag, uart, panic>>
     \/ NothingHappened("Legacy poweroff failed")

-----------------------------------------------------------------------------
(* start_kernel.                                                           *)

Step(from, to) == stage = from /\ stage' = to

idt_init ==
  /\ Step("idt_init", "serial_init")
  /\ UNCHANGED <<hardware, found, IF_flag, uart, panic>>

serial_init ==
  /\ Step("serial_init", IF info = NoInfo THEN "halted" ELSE "parse")
  /\ uart' = s_init(uart)
  /\ UNCHANGED <<hardware, found, IF_flag, panic>>

Ended == tag > Len(info)

(* Faulty variant: a tag of size zero is not an error.                     *)
ParseEndsAtEnd == Ended \/ info[tag].type = "end"

ParseEnds == Ended \/ info[tag].size = 0 \/ info[tag].type = "end"

NextTag == tag' = IF info[tag].size = 0 THEN tag ELSE tag + 1

InvalidTag == [type |-> "err", subsystem |-> "multiboot", message |-> "Invalid tag size (0)"]

(* parse_multiboot_info, and video.init when it is done.  The error is     *)
(* printed before video.init: if there is a framebuffer, then to the       *)
(* lowest addresses, where the pointer to it is null.                      *)
parse_multiboot_info ==
  /\ stage = "parse"
  /\ IF ParseEnds
     THEN /\ stage' = "memory" /\ tag' = 1
          /\ printed' = IF ~Ended /\ info[tag].size = 0 THEN printed \cup {InvalidTag}
                        ELSE printed
          /\ UNCHANGED fb_info
     ELSE /\ fb_info' = IF info[tag].type = "framebuffer" THEN machine.framebuffer
                        ELSE fb_info
          /\ NextTag
          /\ UNCHANGED <<stage, printed>>
  /\ UNCHANGED <<hardware, mount, IF_flag, uart, panic>>

(* kmemory_init: its walk looks for the memory map, and for nothing else.  *)
kmemory_init ==
  /\ stage = "memory"
  /\ \/ Ended /\ Enter(2, FALSE) /\ UNCHANGED tag
     \/ /\ ~Ended
        /\ IF info[tag].type = "mmap" THEN stage' = "pools" /\ UNCHANGED tag
           ELSE NextTag /\ UNCHANGED stage
        /\ UNCHANGED <<panic, IF_flag>>
  /\ UNCHANGED <<hardware, fb_info, mount, printed, uart>>

(* The heap may have no room for the pools, nor for the group descriptors. *)
init_memory_pools ==
  /\ stage = "pools"
  /\ \/ stage' = "mount" /\ UNCHANGED <<printed, IF_flag, panic>>
     \/ d_dbgtype("warn", " mm ", "Failed to create some memory pools", "mount")
  /\ UNCHANGED <<hardware, tag, fb_info, mount, uart>>

ext2_mount_disk ==
  /\ stage = "mount"
  /\ \E drive \in Drives, image \in Images, room \in BOOLEAN :
       mount' = ext2_mount(drive, image, room)
  /\ \/ /\ mount'.end = "waits" /\ stage' = "waiting"
        /\ UNCHANGED <<printed, IF_flag, panic>>
     \/ mount'.end = "divides" /\ isr_handler(0) /\ UNCHANGED printed
     \/ /\ mount'.end = "returns" /\ mount'.rc # EXT2_OK
        /\ d_dbgtype("err", "fs", "EXT2 mount failed", "keyboard")
     \/ /\ mount'.end = "returns" /\ mount'.rc = EXT2_OK /\ stage' = "keyboard"
        /\ UNCHANGED <<printed, IF_flag, panic>>
  /\ UNCHANGED <<hardware, tag, fb_info, uart>>

keyboard_init ==
  /\ Step("keyboard", "sti")
  /\ UNCHANGED <<hardware, found, IF_flag, uart, panic>>

sti ==
  /\ Step("sti", "kshell")
  /\ IF_flag' = TRUE
  /\ UNCHANGED <<hardware, found, uart, panic>>

(* The first thing the shell does is to print.                             *)
kshell ==
  /\ stage = "kshell"
  /\ IF Faults THEN isr_handler(14)
     ELSE stage' = "shell" /\ UNCHANGED <<IF_flag, panic>>
  /\ UNCHANGED <<hardware, found, uart>>

(* A missing code and one out of range are refused, with a message.        *)
cmd_panic ==
  /\ stage = "shell"
  /\ \E args \in PanicArgs :
       /\ args # <<>> /\ katoi(args).value \in 0..16
       /\ Enter(katoi(args).value, FALSE)
  /\ UNCHANGED <<hardware, found, uart>>

Exception ==
  /\ stage = "shell"
  /\ \E vector \in Vectors : isr_handler(vector)
  /\ UNCHANGED <<hardware, found, uart>>

cmd_reboot ==
  /\ Step("shell", "reboot")
  /\ UNCHANGED <<hardware, found, IF_flag, uart, panic>>

cmd_poweroff ==
  /\ Step("shell", "poweroff")
  /\ UNCHANGED <<hardware, found, IF_flag, uart, panic>>

(* The UART has sent a character.                                          *)
TransmitterDone ==
  /\ uart.sending # Idle
  /\ uart' = Transmitted(uart)
  /\ UNCHANGED <<hardware, stage, found, IF_flag, panic>>

Booting ==
  \/ idt_init \/ serial_init \/ parse_multiboot_info \/ kmemory_init
  \/ init_memory_pools \/ ext2_mount_disk \/ keyboard_init \/ sti \/ kshell

Panicking == v_clear \/ s_writes \/ s_write \/ transmit \/ v_puts \/ ksleep

Processor == Booting \/ Panicking \/ a_reboot \/ a_poweroff

Commands == cmd_panic \/ cmd_reboot \/ cmd_poweroff

Next == Processor \/ Commands \/ Exception \/ TransmitterDone

(* The processor executes, and the transmitter transmits.                  *)
Spec == Init /\ [][Next]_kvars /\ WF_kvars(Processor) /\ WF_kvars(TransmitterDone)
-----------------------------------------------------------------------------
(* Properties.                                                             *)

(* Nothing leads back from a panic to the kernel that crashed, not even a  *)
(* fault within p_main or an interrupt: p_main does not return to the stub *)
(* that called isr_handler, whose stack is laid out wrongly for some       *)
(* vectors (isr.asm pushes a second error code at 17, 21 and 29 and none   *)
(* at 18).  Only a reset ends it.                                          *)
PanicIsFinal ==
  [][panic.depth > 0 =>
       /\ ~IF_flag'
       /\ stage' \in {"panic", "halted", "lost", "idt_init"}
       /\ stage' = "idt_init" => machine.resets]_kvars

(* On a machine whose timer counts and whose controller resets it, every   *)
(* crash ends in a new boot, with or without a screen or a serial port.    *)
CrashReboots ==
  (/\ stage = "panic" /\ ~Faults
   /\ machine.hpet = "counts" /\ machine.resets) ~> stage = "idt_init"

(* The mount came out as it does with a busy drive only.                   *)
BusyDrive ==
  \A drive \in Drives, image \in Images, room \in BOOLEAN :
    mount = ext2_mount(drive, image, room) => drive.kind = "busy"

(* No tag of size zero comes before the memory map.                        *)
MapFirst ==
  info = NoInfo \/
  \A n \in 1..Len(info) : info[n].size = 0 =>
                            \E m \in 1..(n - 1) : info[m].type = "mmap"

(* Whatever information comes with the boot, it ends in the shell, a panic *)
(* or a halt, unless a tag of size zero comes before the memory map or a   *)
(* drive that stays busy keeps the kernel waiting.                         *)
BootDecides ==
  (stage = "idt_init" /\ MapFirst) ~>
    (stage \in {"shell", "panic", "halted"} \/ (stage = "waiting" /\ BusyDrive))

(* A boot that gets to the shell has said that the mount failed exactly    *)
(* when it did, and a mount that worked has read all the descriptors of    *)
(* the disk: see MountIsComplete.                                          *)
MountReadsDisk ==
  /\ MountIsComplete
  /\ stage = "shell" => (mount.group_desc = "read" <=> MountFailed \notin printed)

(* What the panic screen says is left until the reboot is what is left,    *)
(* although its buffer has held other numbers, longer ones as well; the    *)
(* error code and the registers begin with their numbers, with what the    *)
(* stack held behind them.                                                 *)
ReportShowsNumbers ==
  /\ DumpShowsRegisters
  /\ LET n == panic.message
         shown == StringIn(panic.buff)
     IN  stage = "panic" =>
           /\ n = 1 => IsPrefix(Text(panic.code, 10), shown)
           /\ n = Announcement(panic.regs) \/ Counting =>
                shown = Text(Seconds(n, panic.regs), 10)

(* Comment of s_init, "Set divisor to 3 (lo byte) 38400 baud": what the    *)
(* port transmits, it transmits at that rate.                              *)
SentAt38400 == uart.sending # Idle => uart.sending.divisor = 3
=============================================================================
