---------------------------- MODULE KernelProofs ----------------------------
(***************************************************************************)
(* Theorems about Kernel, for every boot information, drive, image, set of *)
(* exceptions and depth of the stack: nothing leads back from a panic, and *)
(* a mount has read the whole table of group descriptors, or the boot has  *)
(* said that it failed.  And about Keyboard, the driver that runs between  *)
(* interrupts, for every size of the ring, every set of keys and every     *)
(* bound of the controller: the ring is a bounded queue, the processor     *)
(* never halts for good, and no shift stays on by itself.                  *)
(***************************************************************************)
EXTENDS Kernel, Keyboard, FiniteSetTheorems, SequenceTheorems, WellFoundedInduction,
        NaturalsInduction, TLAPS

IsPanic(p, depth) ==
  \E at, message, regs, code, buff :
    p = [depth |-> depth, at |-> at, message |-> message,
         regs |-> regs, code |-> code, buff |-> buff]

(* A panic that runs has the processor, with the interrupts disabled.      *)
PanicHolds ==
  /\ panic.depth \in Nat
  /\ IsPanic(panic, panic.depth)
  /\ panic.depth > 0 => ~IF_flag /\ stage \in {"panic", "halted"}

(* What a step may make of a panic.                                        *)
Final ==
  panic.depth > 0 =>
    /\ ~IF_flag'
    /\ stage' \in {"panic", "halted", "lost", "idt_init"}
    /\ stage' = "idt_init" => machine.resets

Good == Final /\ PanicHolds'

LEMMA NoPanicIs == NoPanic.depth = 0 /\ IsPanic(NoPanic, 0)
  BY DEF NoPanic, IsPanic

LEMMA InitHolds == Init => PanicHolds
  BY NoPanicIs DEF Init, PanicHolds

LEMMA EnterGood ==
  ASSUME PanicHolds, NEW code, NEW regs, Enter(code, regs)
  PROVE  Good
<1>1. CASE panic.depth < MaxNested
  <2>1. PICK buff :
          panic' = [depth |-> panic.depth + 1, at |-> "clear", message |-> 1,
                    regs |-> regs, code |-> code, buff |-> buff]
    BY <1>1 DEF Enter
  <2>2. stage' = "panic" /\ ~IF_flag'
    BY <1>1 DEF Enter
  <2>3. panic'.depth = panic.depth + 1 /\ IsPanic(panic', panic.depth + 1)
    BY <2>1 DEF IsPanic
  <2> QED  BY <2>2, <2>3 DEF Good, Final, PanicHolds
<1>2. CASE ~(panic.depth < MaxNested)
  BY <1>2, NoPanicIs DEF Enter, Good, Final, PanicHolds
<1> QED  BY <1>1, <1>2

LEMMA IsrGood ==
  ASSUME PanicHolds, NEW vector, isr_handler(vector)
  PROVE  Good
  BY EnterGood DEF isr_handler

(* Steps of p_main that neither fault nor end it.                          *)
LEMMA GoToGood ==
  ASSUME PanicHolds, NEW place, GoTo(place), UNCHANGED <<IF_flag, stage>>
  PROVE  Good
<1>1. PICK at, message, regs, code, buff :
        panic = [depth |-> panic.depth, at |-> at, message |-> message,
                 regs |-> regs, code |-> code, buff |-> buff]
  BY DEF PanicHolds, IsPanic
<1>2. panic' = [depth |-> panic.depth, at |-> place, message |-> message,
                regs |-> regs, code |-> code, buff |-> buff]
  BY <1>1 DEF GoTo
<1>3. panic'.depth = panic.depth /\ IsPanic(panic', panic.depth)
  BY <1>2 DEF IsPanic
<1> QED  BY <1>3 DEF PanicHolds, Good, Final

LEMMA NextMessageGood ==
  ASSUME PanicHolds, NextMessage, UNCHANGED <<IF_flag, stage>>
  PROVE  Good
<1>1. CASE LastMessage
  BY <1>1, GoToGood DEF NextMessage, GoTo
<1>2. CASE ~LastMessage
  <2>1. panic' = Advanced
    BY <1>2 DEF NextMessage
  <2>2. panic'.depth = panic.depth /\ IsPanic(panic', panic.depth)
    BY <2>1 DEF Advanced, IsPanic
  <2> QED  BY <2>2 DEF PanicHolds, Good, Final
<1> QED  BY <1>1, <1>2

(* Steps of the kernel before, or after, a panic.                          *)
LEMMA ElsewhereGood ==
  ASSUME PanicHolds, panic.depth = 0 \/ stage' = stage, panic' = panic,
         panic.depth = 0 \/ UNCHANGED IF_flag
  PROVE  Good
  BY DEF PanicHolds, Good, Final

LEMMA NotPanicking ==
  ASSUME PanicHolds, stage \notin {"panic", "halted"}
  PROVE  panic.depth = 0
  BY DEF PanicHolds

LEMMA DebugGood ==
  ASSUME PanicHolds, NEW type, NEW subsystem, NEW message, NEW next,
         d_dbgtype(type, subsystem, message, next),
         panic.depth = 0 \/ next = "halted"
  PROVE  Good
<1>1. CASE Faults
  BY <1>1, IsrGood DEF d_dbgtype
<1>2. CASE ~Faults
  BY <1>2 DEF d_dbgtype, PanicHolds, Good, Final
<1> QED  BY <1>1, <1>2

LEMMA BootingGood == PanicHolds /\ Booting => Good
<1> SUFFICES ASSUME PanicHolds, Booting PROVE Good
  OBVIOUS
<1>1. CASE idt_init \/ serial_init \/ keyboard_init \/ sti
  <2>1. panic.depth = 0 /\ panic' = panic
    BY <1>1, NotPanicking DEF idt_init, serial_init, keyboard_init, sti, Step
  <2> QED  BY <2>1, ElsewhereGood
<1>2. CASE parse_multiboot_info
  <2>1. panic.depth = 0 /\ panic' = panic
    BY <1>2, NotPanicking DEF parse_multiboot_info
  <2> QED  BY <2>1, ElsewhereGood
<1>3. CASE kmemory_init
  <2>1. panic.depth = 0
    BY <1>3, NotPanicking DEF kmemory_init
  <2>2. Enter(2, FALSE) \/ panic' = panic
    BY <1>3 DEF kmemory_init
  <2> QED  BY <2>1, <2>2, EnterGood, ElsewhereGood
<1>4. CASE init_memory_pools
  <2>1. panic.depth = 0
    BY <1>4, NotPanicking DEF init_memory_pools
  <2>2. \/ panic' = panic
        \/ d_dbgtype("warn", " mm ", "Failed to create some memory pools", "mount")
    BY <1>4 DEF init_memory_pools
  <2> QED  BY <2>1, <2>2, DebugGood, ElsewhereGood
<1>5. CASE ext2_mount_disk
  <2>1. panic.depth = 0
    BY <1>5, NotPanicking DEF ext2_mount_disk
  <2>2. \/ panic' = panic
        \/ isr_handler(0)
        \/ d_dbgtype("err", "fs", "EXT2 mount failed", "keyboard")
    BY <1>5 DEF ext2_mount_disk
  <2> QED  BY <2>1, <2>2, DebugGood, IsrGood, ElsewhereGood
<1>6. CASE kshell
  <2>1. panic.depth = 0
    BY <1>6, NotPanicking DEF kshell
  <2>2. isr_handler(14) \/ panic' = panic
    BY <1>6 DEF kshell
  <2> QED  BY <2>1, <2>2, IsrGood, ElsewhereGood
<1> QED  BY <1>1, <1>2, <1>3, <1>4, <1>5, <1>6 DEF Booting

LEMMA PanickingGood == PanicHolds /\ Panicking => Good
<1> SUFFICES ASSUME PanicHolds, Panicking PROVE Good
  OBVIOUS
<1>1. CASE v_clear
  <2>1. isr_handler(14) \/ (GoTo("writes") /\ UNCHANGED <<stage, IF_flag>>)
    BY <1>1 DEF v_clear
  <2> QED  BY <2>1, IsrGood, GoToGood
<1>2. CASE s_writes \/ s_write \/ transmit
  <2>1. (\E place : GoTo(place)) /\ UNCHANGED <<IF_flag, stage>>
    BY <1>2 DEF s_writes, s_write, transmit
  <2> QED  BY <2>1, GoToGood
<1>3. CASE v_puts
  <2>1. \/ isr_handler(14)
        \/ (GoTo("sleep") \/ NextMessage) /\ UNCHANGED <<IF_flag, stage>>
    BY <1>3 DEF v_puts
  <2> QED  BY <2>1, IsrGood, GoToGood, NextMessageGood
<1>4. CASE ksleep
  <2>1. isr_handler(0) \/ (NextMessage /\ UNCHANGED <<IF_flag, stage>>)
    BY <1>4 DEF ksleep
  <2> QED  BY <2>1, IsrGood, NextMessageGood
<1> QED  BY <1>1, <1>2, <1>3, <1>4 DEF Panicking

(* A reset starts over, and without one the panic ends in a halt.          *)
LEMMA RebootGood == PanicHolds /\ (a_reboot \/ a_poweroff) => Good
<1> SUFFICES ASSUME PanicHolds, a_reboot \/ a_poweroff PROVE Good
  OBVIOUS
<1>1. CASE Reset
  BY <1>1, NoPanicIs DEF Reset, PanicHolds, Good, Final
<1>2. ASSUME NEW message, NothingHappened(message), a_reboot \/ a_poweroff PROVE Good
  <2>1. stage \in {"panic", "reboot", "poweroff"}
    BY <1>2 DEF a_reboot, a_poweroff, InPanic
  <2>2. panic.depth = 0 \/ stage = "panic"
    BY <2>1, NotPanicking
  <2>3. \/ isr_handler(0)
        \/ d_dbgtype("err", "acpi", message, IF stage = "panic" THEN "halted" ELSE "shell")
    BY <1>2 DEF NothingHappened
  <2> QED  BY <2>2, <2>3, IsrGood, DebugGood
<1>3. CASE stage = "poweroff" /\ UNCHANGED <<IF_flag, panic>>
  BY <1>3, NotPanicking, ElsewhereGood
<1> QED  BY <1>1, <1>2, <1>3 DEF a_reboot, a_poweroff

LEMMA CommandsGood == PanicHolds /\ (Commands \/ Exception \/ TransmitterDone) => Good
<1> SUFFICES ASSUME PanicHolds, Commands \/ Exception \/ TransmitterDone PROVE Good
  OBVIOUS
<1>1. CASE cmd_panic
  BY <1>1, EnterGood DEF cmd_panic
<1>2. CASE Exception
  BY <1>2, IsrGood DEF Exception
<1>3. CASE cmd_reboot \/ cmd_poweroff
  <2>1. panic.depth = 0 /\ panic' = panic
    BY <1>3, NotPanicking DEF cmd_reboot, cmd_poweroff, Step
  <2> QED  BY <2>1, ElsewhereGood
<1>4. CASE TransmitterDone
  BY <1>4, ElsewhereGood DEF TransmitterDone
<1> QED  BY <1>1, <1>2, <1>3, <1>4 DEF Commands

(* No step leads back from a panic to the kernel that crashed, whatever    *)
(* faults within p_main: it ends in a reset, a halt or a used up stack.    *)
THEOREM PanicAlwaysFinal == Spec => PanicIsFinal
<1>1. PanicHolds /\ [Next]_kvars => PanicHolds' /\ [Final]_kvars
  <2> SUFFICES ASSUME PanicHolds, [Next]_kvars PROVE PanicHolds' /\ [Final]_kvars
    OBVIOUS
  <2>1. CASE Next
    BY <2>1, BootingGood, PanickingGood, RebootGood, CommandsGood DEF Next, Processor, Good
  <2>2. CASE UNCHANGED kvars
    BY <2>2 DEF kvars, PanicHolds
  <2> QED  BY <2>1, <2>2
<1>2. [Final]_kvars <=>
        [panic.depth > 0 =>
           /\ ~IF_flag'
           /\ stage' \in {"panic", "halted", "lost", "idt_init"}
           /\ stage' = "idt_init" => machine.resets]_kvars
  BY DEF Final
<1> QED  BY InitHolds, <1>1, <1>2, PTL DEF Spec, PanicIsFinal

-----------------------------------------------------------------------------
(* Loops.  The library's folds take the members of a sequence in order; a  *)
(* loop is unfolded here to the chain of what its rounds make of the start.*)

LessThan == {p \in Nat \X Nat : p[1] < p[2]}

(* Every set of numbers with a member has a least one.                     *)
LEMMA Least ==
  ASSUME NEW T, T \subseteq Nat, T # {}
  PROVE  \E x \in T : \A y \in T : x <= y
<1>1. IsWellFoundedOn(LessThan, Nat)
  <2>1. OpToRel(<, Nat) = LessThan
    BY DEF OpToRel, LessThan
  <2>2. QED
    BY <2>1, NatLessThanWellFounded
<1>2. PICK x \in T : \A y \in T : <<y, x>> \notin LessThan
  BY <1>1, WFMin
<1>3. ASSUME NEW y \in T PROVE x <= y
  <2>1. <<y, x>> \notin LessThan /\ x \in Nat /\ y \in Nat
    BY <1>2
  <2>2. QED
    BY <2>1 DEF LessThan
<1>4. QED
  BY <1>3

(* A set with 0 that has the successor of each of its members has all      *)
(* natural numbers.                                                        *)
LEMMA Successors ==
  ASSUME NEW T, 0 \in T, \A n \in Nat : n \in T => n + 1 \in T
  PROVE  Nat \subseteq T
<1>1. SUFFICES ASSUME Nat \ T # {} PROVE FALSE
  OBVIOUS
<1>2. PICK x \in Nat \ T : \A y \in Nat \ T : x <= y
  BY <1>1, Least
<1>3. x # 0 /\ x - 1 \in Nat /\ x - 1 \notin Nat \ T
  BY <1>2
<1>4. QED
  BY <1>2, <1>3

(* Some member of a set of numbers up to n is the greatest.                *)
LEMMA Greatest ==
  ASSUME NEW n \in Nat, NEW S \in SUBSET (1..n), S # {}
  PROVE  Max(S) \in S /\ \A y \in S : Max(S) >= y
<1> DEFINE T == {n - x : x \in S}
<1>1. T \subseteq Nat /\ T # {}
  <2>1. \A x \in S : x \in 1..n /\ n - x \in Nat /\ n - x \in T
    OBVIOUS
  <2>2. QED
    BY <2>1
<1>2. PICK t \in T : \A u \in T : t <= u
  <2> HIDE DEF T
  <2>1. QED
    BY <1>1, Least
<1>3. PICK x \in S : t = n - x
  BY <1>2
<1>4. ASSUME NEW y \in S PROVE x >= y
  <2>1. n - y \in T /\ x \in 1..n /\ y \in 1..n
    OBVIOUS
  <2> HIDE DEF T
  <2>2. n - x <= n - y
    BY <1>2, <1>3, <2>1
  <2>3. QED
    BY <2>1, <2>2
<1>5. QED
  BY <1>4 DEF Max

(* The two loops of a mount, as one: how says whether it is the one over   *)
(* the blocks of the table or the one over the sectors of a read from lba, *)
(* and which numbers it goes through.                                      *)
OfTable(drive, image, seq) ==
  [table |-> TRUE, drive |-> drive, image |-> image, lba |-> 0, seq |-> seq]

OfRead(drive, lba, seq) ==
  [table |-> FALSE, drive |-> drive, image |-> 0, lba |-> lba, seq |-> seq]

Nothing == [end |-> "data", buf |-> <<>>]

TableRound(read, next) ==
  IF read.end # "data" THEN read ELSE [next EXCEPT !.buf = read.buf \o @]

Round(read, i, how) ==
  IF how.table THEN TableRound(read, kread_block(how.drive, how.image, i))
  ELSE Transfer(how.drive, read, Selected(how.lba + i - 1))

LoopBody(f, how, s) ==
  IF s = {} THEN Nothing ELSE Round(f[s \ {Max(s)}], how.seq[Max(s)], how)

(* f gives, for each set of rounds in D, what they make of the start.      *)
Loops(f, how, D) == f = [s \in D |-> LoopBody(f, how, s)]

(* What they make of it in the end.                                        *)
LoopEnd(how, n) == (CHOOSE f : Loops(f, how, SUBSET (1..n)))[1..n]

LEMMA ReadUnfolds ==
  ASSUME NEW drive, NEW lba, NEW n \in Nat, n # 0, ~(lba > LBA_LIMIT)
  PROVE  ata_pio_read(drive, lba, n) = LoopEnd(OfRead(drive, lba, [i \in 1..n |-> i]), n)
<1>1. DOMAIN [i \in 1..n |-> i] = 1..n
  OBVIOUS
<1>2. QED
  BY <1>1 DEF ata_pio_read, FoldLeft, MapThenFoldSet, LoopEnd, Loops, LoopBody, Round, OfRead,
              Nothing

TableEnds(read, result) ==
  result = IF read.end = "data" THEN Outcome("returns", EXT2_OK, "read", "read", read.buf)
           ELSE Outcome(EndOf(read), EXT2_ERR_IO, "read", "unread", read.buf)

LEMMA TableUnfolds ==
  ASSUME NEW drive, NEW image, NEW n \in Nat, n = TableBlocksOf(image)
  PROVE  TableEnds(LoopEnd(OfTable(drive, image,
                                   [i \in 1..n |-> FirstTableBlock(image) + i - 1]), n),
                   ReadTable(drive, image))
<1>1. DOMAIN [i \in 1..n |-> FirstTableBlock(image) + i - 1] = 1..n
  OBVIOUS
<1> DEFINE step(read, block) == TableRound(read, kread_block(drive, image, block))
           seq == [i \in 1..n |-> FirstTableBlock(image) + i - 1]
<1>2. TableEnds(FoldLeft(step, Nothing, seq), ReadTable(drive, image))
  BY DEF ReadTable, TableEnds, TableRound, Nothing
<1>3. FoldLeft(step, Nothing, seq) = LoopEnd(OfTable(drive, image, seq), n)
  BY <1>1 DEF FoldLeft, MapThenFoldSet, LoopEnd, Loops, LoopBody, Round, OfTable
<1>4. QED
  BY <1>2, <1>3

(* The sets of rounds with no more than k members.                         *)
Small(n, k) == {s \in SUBSET (1..n) : Cardinality(s) <= k}

LEMMA LoopsExist ==
  ASSUME NEW how, NEW n \in Nat
  PROVE  \E f : Loops(f, how, SUBSET (1..n))
<1> DEFINE T == {k \in Nat : \E f : Loops(f, how, Small(n, k))}
<1>1. ASSUME NEW s \in SUBSET (1..n) PROVE IsFiniteSet(s) /\ Cardinality(s) \in 0..n
  <2>1. PICK D : D = 1..n
    OBVIOUS
  <2>2. IsFiniteSet(D) /\ Cardinality(D) = n
    BY <2>1, FS_Interval
  <2>3. s \in SUBSET D
    BY <2>1
  <2>4. IsFiniteSet(s) /\ Cardinality(s) <= n
    BY <2>2, <2>3, FS_Subset
  <2>5. QED
    BY <2>4, FS_CardinalityType
<1>2. 0 \in T
  <2> DEFINE f == [s \in Small(n, 0) |-> Nothing]
  <2>1. ASSUME NEW s \in Small(n, 0) PROVE s = {}
    BY <1>1, FS_EmptySet DEF Small
  <2>2. Loops(f, how, Small(n, 0))
    BY <2>1 DEF LoopBody, Loops
  <2>3. QED
    BY <2>2
<1>3. ASSUME NEW k \in Nat, k \in T PROVE k + 1 \in T
  <2>1. PICK f : Loops(f, how, Small(n, k))
    BY <1>3
  <2> DEFINE g == [s \in Small(n, k + 1) |-> LoopBody(f, how, s)]
  <2>2. ASSUME NEW s \in Small(n, k) PROVE s \in Small(n, k + 1) /\ g[s] = f[s]
    <3>1. s \in Small(n, k + 1)
      BY <1>1 DEF Small
    <3>2. f[s] = LoopBody(f, how, s)
      BY <2>1 DEF Loops
    <3>3. QED
      BY <3>1, <3>2
  <2>3. ASSUME NEW s \in Small(n, k + 1), s # {}
        PROVE  s \ {Max(s)} \in Small(n, k)
    <3>1. s \in SUBSET (1..n) /\ Cardinality(s) <= k + 1 /\ IsFiniteSet(s)
      BY <1>1 DEF Small
    <3>2. PICK m : m = Max(s)
      OBVIOUS
    <3>3. m \in s
      BY <2>3, <3>1, <3>2, Greatest
    <3>4. Cardinality(s \ {m}) = Cardinality(s) - 1
      BY <3>1, <3>3, FS_RemoveElement
    <3>5. s \ {m} \in SUBSET (1..n)
      BY DEF Small
    <3>6. Cardinality(s) \in Nat /\ Cardinality(s) - 1 <= k
      BY <3>1, FS_CardinalityType
    <3>7. QED
      BY <3>2, <3>4, <3>5, <3>6 DEF Small
  <2>4. ASSUME NEW s \in Small(n, k + 1)
        PROVE  LoopBody(g, how, s) = LoopBody(f, how, s)
    <3> HIDE DEF g
    <3>1. QED
      BY <2>2, <2>3 DEF LoopBody
  <2>5. Loops(g, how, Small(n, k + 1))
    BY <2>4 DEF Loops
  <2>6. QED
    BY <2>5
<1> HIDE DEF T
<1>4. Nat \subseteq T
  BY <1>2, <1>3, Successors
<1>5. Small(n, n) = SUBSET (1..n)
  BY <1>1 DEF Small
<1>6. QED
  BY <1>4, <1>5 DEF T

(* a[m] is what the first m rounds make of the start.                      *)
Chain(a, how, n) ==
  /\ a[0] = Nothing
  /\ \A m \in 1..n : a[m] = Round(a[m - 1], how.seq[m], how)

LEMMA LoopChain ==
  ASSUME NEW how, NEW n \in Nat
  PROVE  \E a : Chain(a, how, n) /\ LoopEnd(how, n) = a[n]
<1>1. PICK f : Loops(f, how, SUBSET (1..n)) /\ LoopEnd(how, n) = f[1..n]
  <2>1. PICK f : f = CHOOSE g : Loops(g, how, SUBSET (1..n))
    OBVIOUS
  <2>2. Loops(f, how, SUBSET (1..n))
    <3>1. \E g : Loops(g, how, SUBSET (1..n))
      BY LoopsExist
    <3>2. QED
      BY ONLY <2>1, <3>1
  <2>3. LoopEnd(how, n) = f[1..n]
    BY <2>1 DEF LoopEnd
  <2>4. QED
    BY <2>2, <2>3
<1>2. \A s \in SUBSET (1..n) : f[s] = LoopBody(f, how, s)
  BY <1>1 DEF Loops
<1> DEFINE a == [m \in 0..n |-> f[1..m]]
<1>3. a[0] = Nothing
  <2>1. 1..0 = {} /\ {} \in SUBSET (1..n)
    OBVIOUS
  <2>2. f[1..0] = Nothing
    BY <1>2, <2>1 DEF LoopBody
  <2>3. QED
    BY <2>2
<1>4. ASSUME NEW m \in 1..n PROVE a[m] = Round(a[m - 1], how.seq[m], how)
  <2>1. 1..m \in SUBSET (1..n) /\ 1..m # {} /\ m \in 1..m
    OBVIOUS
  <2>2. Max(1..m) = m
    <3>1. PICK x : x = Max(1..m)
      OBVIOUS
    <3>2. x \in 1..m /\ \A y \in 1..m : x >= y
      BY <2>1, <3>1, Greatest
    <3>3. QED
      BY <2>1, <3>1, <3>2
  <2>3. (1..m) \ {m} = 1..(m - 1)
    OBVIOUS
  <2>4. f[1..m] = Round(f[1..(m - 1)], how.seq[m], how)
    BY <1>2, <2>1, <2>2, <2>3 DEF LoopBody
  <2>5. QED
    BY <2>4
<1>5. a[n] = f[1..n]
  OBVIOUS
<1> HIDE DEF a
<1>6. QED
  BY <1>1, <1>3, <1>4, <1>5 DEF Chain

-----------------------------------------------------------------------------
(* What reads return.                                                      *)

Reads == [end : {"data", "error", "waits"}, buf : Seq(Nat)]

DriveOK(drive) == drive.kind \in DriveKinds /\ drive.bad \subseteq 0..LBA_LIMIT

(* The drive can read n sectors from lba on.                               *)
CanRead(drive, lba, n) ==
  /\ drive.kind = "ready"
  /\ \A j \in 0..(n - 1) : lba + j <= LBA_LIMIT /\ lba + j \notin drive.bad

SectorsFrom(lba, n) == [i \in 1..n |-> lba + i - 1]

(* A read of them returns all, or says that it did not.                    *)
ReadIs(read, drive, lba, n) ==
  /\ read \in Reads
  /\ read.end = "data" <=> (n = 0 \/ CanRead(drive, lba, n))
  /\ read.end = "data" => read.buf = SectorsFrom(lba, n)
  /\ read.end = "waits" => drive.kind = "busy"

LEMMA NothingRead ==
  ASSUME NEW drive, NEW lba \in Nat
  PROVE  ReadIs(Nothing, drive, lba, 0)
<1>1. SectorsFrom(lba, 0) = << >>
  BY DEF SectorsFrom
<1>2. Nothing \in Reads /\ Nothing.end = "data" /\ Nothing.buf = << >>
  BY DEF Nothing, Reads
<1>3. QED
  BY <1>1, <1>2 DEF ReadIs

LEMMA SectorsJoin ==
  ASSUME NEW lba \in Nat, NEW n \in Nat, NEW k \in Nat
  PROVE  /\ SectorsFrom(lba, n) \in Seq(Nat)
         /\ SectorsFrom(lba, n) \o SectorsFrom(lba + n, k) = SectorsFrom(lba, n + k)
<1>1. /\ SectorsFrom(lba, n) \in Seq(Nat) /\ Len(SectorsFrom(lba, n)) = n
      /\ SectorsFrom(lba + n, k) \in Seq(Nat) /\ Len(SectorsFrom(lba + n, k)) = k
      /\ SectorsFrom(lba, n + k) \in Seq(Nat) /\ Len(SectorsFrom(lba, n + k)) = n + k
  BY DEF SectorsFrom
<1>2. PICK s, t, u : /\ s = SectorsFrom(lba, n) /\ t = SectorsFrom(lba + n, k)
                     /\ u = SectorsFrom(lba, n + k)
  OBVIOUS
<1>3. /\ \A i \in 1..n : s[i] = lba + i - 1
      /\ \A i \in 1..k : t[i] = lba + n + i - 1
      /\ \A i \in 1..(n + k) : u[i] = lba + i - 1
  BY <1>2 DEF SectorsFrom
<1>4. PICK S, joined : S = Nat /\ joined = s \o t
  OBVIOUS
<1>5. s \in Seq(S) /\ Len(s) = n /\ t \in Seq(S) /\ Len(t) = k /\ u \in Seq(S) /\ Len(u) = n + k
  BY <1>1, <1>2, <1>4
<1>6. /\ joined \in Seq(S) /\ Len(joined) = Len(s) + Len(t)
      /\ \A i \in 1..(Len(s) + Len(t)) :
           joined[i] = IF i <= Len(s) THEN s[i] ELSE t[i - Len(s)]
  BY ONLY <1>4, <1>5, ConcatProperties
<1>7. /\ Len(joined) = n + k
      /\ \A i \in 1..(n + k) : joined[i] = IF i <= n THEN s[i] ELSE t[i - n]
  BY <1>5, <1>6
<1>8. ASSUME NEW i \in 1..(n + k) PROVE joined[i] = u[i]
  <2>1. CASE i <= n
    BY <1>3, <1>7, <2>1
  <2>2. CASE ~(i <= n)
    <3>1. i - n \in 1..k
      BY <2>2
    <3>2. t[i - n] = lba + n + (i - n) - 1
      BY <1>3, <3>1
    <3>3. QED
      BY <1>3, <1>7, <2>2, <3>2
  <2>3. QED
    BY <2>1, <2>2
<1>9. Len(joined) = Len(u) /\ \A i \in 1..Len(joined) : joined[i] = u[i]
  BY <1>5, <1>7, <1>8
<1>10. joined = u
  BY ONLY <1>5, <1>6, <1>9, SeqEqual
<1>11. QED
  BY <1>1, <1>2, <1>4, <1>10

(* The sectors up to n and k more.                                         *)
LEMMA CanReadBoth ==
  ASSUME NEW drive, NEW lba \in Nat, NEW n \in Nat, NEW k \in Nat, k # 0
  PROVE  CanRead(drive, lba, n + k) <=>
           (n = 0 \/ CanRead(drive, lba, n)) /\ CanRead(drive, lba + n, k)
<1>1. ASSUME CanRead(drive, lba, n + k)
      PROVE  (n = 0 \/ CanRead(drive, lba, n)) /\ CanRead(drive, lba + n, k)
  <2>1. \A j \in 0..(n - 1) : j \in 0..(n + k - 1)
    OBVIOUS
  <2>2. \A j \in 0..(k - 1) : n + j \in 0..(n + k - 1) /\ (lba + n) + j = lba + (n + j)
    OBVIOUS
  <2>3. QED
    BY <1>1, <2>1, <2>2 DEF CanRead
<1>2. ASSUME n = 0 \/ CanRead(drive, lba, n), CanRead(drive, lba + n, k)
      PROVE  CanRead(drive, lba, n + k)
  <2>1. ASSUME NEW j \in 0..(n + k - 1)
        PROVE  lba + j <= LBA_LIMIT /\ lba + j \notin drive.bad
    <3>1. CASE j < n
      <4>1. n # 0 /\ j \in 0..(n - 1)
        BY <3>1
      <4>2. QED
        BY <1>2, <4>1 DEF CanRead
    <3>2. CASE ~(j < n)
      <4>1. j - n \in 0..(k - 1) /\ (lba + n) + (j - n) = lba + j
        BY <3>2
      <4>2. QED
        BY <1>2, <4>1 DEF CanRead
    <3>3. QED
      BY <3>1, <3>2
  <2>2. drive.kind = "ready"
    BY <1>2 DEF CanRead
  <2>3. QED
    BY <2>1, <2>2 DEF CanRead
<1>3. QED
  BY <1>1, <1>2

(* A read goes on with another one where it stopped, unless it failed.     *)
LEMMA ReadsJoin ==
  ASSUME NEW drive, NEW lba \in Nat, NEW n \in Nat, NEW k \in Nat, k # 0,
         NEW read, ReadIs(read, drive, lba, n),
         NEW next, ReadIs(next, drive, lba + n, k)
  PROVE  ReadIs(TableRound(read, next), drive, lba, n + k)
<1>1. read \in Reads /\ next \in Reads
  BY DEF ReadIs
<1>2. CanRead(drive, lba, n + k) <=>
        (n = 0 \/ CanRead(drive, lba, n)) /\ CanRead(drive, lba + n, k)
  BY CanReadBoth
<1>3. CASE read.end # "data"
  <2>1. TableRound(read, next) = read
    BY <1>3 DEF TableRound
  <2>2. n + k # 0
    OBVIOUS
  <2>3. QED
    BY <1>1, <1>2, <1>3, <2>1, <2>2 DEF ReadIs
<1>4. CASE read.end = "data"
  <2>1. PICK both : both = TableRound(read, next)
    OBVIOUS
  <2>2. both = [next EXCEPT !.buf = read.buf \o next.buf]
    BY <1>4, <2>1 DEF TableRound
  <2>3. both \in Reads /\ both.end = next.end /\ both.buf = read.buf \o next.buf
    <3>1. read.buf \o next.buf \in Seq(Nat)
      BY <1>1 DEF Reads
    <3>2. QED
      BY <1>1, <2>2, <3>1 DEF Reads
  <2>4. read.buf = SectorsFrom(lba, n) /\ (n = 0 \/ CanRead(drive, lba, n))
    BY <1>4 DEF ReadIs
  <2>5. next.end = "data" => next.buf = SectorsFrom(lba + n, k)
    BY DEF ReadIs
  <2>6. next.end = "data" => both.buf = SectorsFrom(lba, n + k)
    <3>1. SectorsFrom(lba, n) \o SectorsFrom(lba + n, k) = SectorsFrom(lba, n + k)
      BY ONLY n \in Nat, k \in Nat, lba \in Nat, SectorsJoin
    <3>2. QED
      BY ONLY <2>3, <2>4, <2>5, <3>1
  <2>7. next.end = "data" <=> CanRead(drive, lba + n, k)
    BY DEF ReadIs
  <2>8. next.end = "waits" => drive.kind = "busy"
    BY DEF ReadIs
  <2>9. ReadIs(both, drive, lba, n + k)
    <3>1. n + k # 0
      OBVIOUS
    <3>2. QED
      BY ONLY <1>2, <2>3, <2>4, <2>6, <2>7, <2>8, <3>1 DEF ReadIs
  <2>10. QED
    BY <2>1, <2>9
<1>5. QED
  BY <1>3, <1>4
(* The last sector the driver can ask for.                                 *)
LEMMA Limit == LBA_LIMIT \in Nat
  BY SMT DEF LBA_LIMIT

LEMMA SelectedIs ==
  ASSUME NEW lba \in Nat, lba <= LBA_LIMIT
  PROVE  Selected(lba) = lba
  BY SMT DEF Selected, LBA_LIMIT

(* No block of 2, 4 or 8 sectors lies half behind it.                      *)
LEMMA Alignment ==
  ASSUME NEW block \in Nat, NEW per \in {2, 4, 8}
  PROVE  block * per > LBA_LIMIT \/ block * per + per - 1 <= LBA_LIMIT
  BY SMT DEF LBA_LIMIT

(* What one more sector adds to a read.                                    *)
One(drive, sector) ==
  [end |-> ata_poll(drive, sector),
   buf |-> IF ata_poll(drive, sector) = "data" THEN <<sector>> ELSE <<>>]

LEMMA OneIs ==
  ASSUME NEW drive, DriveOK(drive), NEW sector \in 0..LBA_LIMIT
  PROVE  ReadIs(One(drive, sector), drive, sector, 1)
<1>1. SectorsFrom(sector, 1) = <<sector>>
  BY DEF SectorsFrom
<1>2. \A j \in 0..(1 - 1) : sector + j = sector
  BY Limit
<1>3. 0 \in 0..(1 - 1)
  OBVIOUS
<1>4. sector <= LBA_LIMIT /\ sector \in Nat
  BY Limit
<1>5. CanRead(drive, sector, 1) <=> drive.kind = "ready" /\ sector \notin drive.bad
  BY <1>2, <1>3, <1>4 DEF CanRead
<1>6. PICK end : end = ata_poll(drive, sector)
  OBVIOUS
<1>7. /\ end = "data" <=> (drive.kind = "ready" /\ sector \notin drive.bad)
      /\ end = "waits" => drive.kind = "busy"
      /\ end \in {"data", "error", "waits"}
  BY <1>6 DEF ata_poll, DriveOK, DriveKinds
<1>8. /\ One(drive, sector).end = end
      /\ One(drive, sector).buf = (IF end = "data" THEN <<sector>> ELSE <<>>)
      /\ One(drive, sector) = [end |-> end, buf |-> IF end = "data" THEN <<sector>> ELSE <<>>]
  BY <1>6 DEF One
<1>9. <<sector>> \in Seq(Nat) /\ <<>> \in Seq(Nat)
  BY <1>4
<1>10. One(drive, sector) \in Reads
  BY <1>7, <1>8, <1>9 DEF Reads
<1>11. QED
  BY <1>1, <1>5, <1>7, <1>8, <1>10 DEF ReadIs

LEMMA TransferIs ==
  ASSUME NEW drive, DriveOK(drive), NEW lba \in Nat, NEW m \in Nat, lba + m <= LBA_LIMIT,
         NEW read, ReadIs(read, drive, lba, m)
  PROVE  ReadIs(Transfer(drive, read, lba + m), drive, lba, m + 1)
<1>1. PICK sector \in 0..LBA_LIMIT : sector = lba + m
  BY Limit
<1>2. ReadIs(One(drive, sector), drive, lba + m, 1)
  BY <1>1, OneIs
<1>3. ReadIs(TableRound(read, One(drive, sector)), drive, lba, m + 1)
  BY <1>2, ReadsJoin
<1>4. Transfer(drive, read, sector) = TableRound(read, One(drive, sector))
  <2>1. CASE read.end # "data"
    BY <2>1 DEF Transfer, TableRound
  <2>2. CASE read.end = "data"
    <3>1. PICK b, S : b = read.buf /\ S = Nat
      OBVIOUS
    <3>2. b \in Seq(S) /\ sector \in S
      BY <3>1, Limit DEF ReadIs, Reads
    <3>3. b \o <<>> = b /\ Append(b, sector) = b \o <<sector>>
      BY ONLY <3>2, ConcatEmptySeq, AppendIsConcat
    <3>4. PICK end : end = ata_poll(drive, sector)
      OBVIOUS
    <3>5. PICK more : more = IF end = "data" THEN <<sector>> ELSE <<>>
      OBVIOUS
    <3>6. PICK one : one = [end |-> end, buf |-> more] /\ one = One(drive, sector)
      BY <3>4, <3>5 DEF One
    <3>7. TableRound(read, one) = [end |-> end, buf |-> b \o more]
      <4>1. TableRound(read, one) = [one EXCEPT !.buf = b \o one.buf]
        BY <2>2, <3>1 DEF TableRound
      <4>2. one.buf = more /\ one.end = end
        BY <3>6
      <4>3. QED
        BY <3>6, <4>1, <4>2
    <3>8. Transfer(drive, read, sector) =
            [end |-> end, buf |-> IF end = "data" THEN Append(b, sector) ELSE b]
      BY <2>2, <3>1, <3>4 DEF Transfer
    <3>9. b \o more = IF end = "data" THEN Append(b, sector) ELSE b
      BY <3>3, <3>5
    <3>10. QED
      BY <3>6, <3>7, <3>8, <3>9
  <2>3. QED
    BY <2>1, <2>2
<1>5. QED
  BY <1>1, <1>3, <1>4

(* A read of sectors the drive may be asked for.                           *)
LEMMA ReadLoop ==
  ASSUME NEW drive, DriveOK(drive), NEW lba \in Nat, NEW n \in Nat \ {0},
         lba + n - 1 <= LBA_LIMIT
  PROVE  ReadIs(ata_pio_read(drive, lba, n), drive, lba, n)
<1> DEFINE seq == [i \in 1..n |-> i]
<1>1. PICK how : how = OfRead(drive, lba, seq)
  OBVIOUS
<1>2. ~how.table /\ how.drive = drive /\ how.lba = lba /\ how.seq = seq
  BY <1>1 DEF OfRead
<1>3. ata_pio_read(drive, lba, n) = LoopEnd(how, n)
  <2>1. n \in Nat /\ n # 0 /\ ~(lba > LBA_LIMIT)
    BY Limit
  <2>2. QED
    BY ONLY <1>1, <2>1, ReadUnfolds
<1>4. PICK a : Chain(a, how, n) /\ ata_pio_read(drive, lba, n) = a[n]
  BY <1>3, LoopChain
<1> DEFINE T == {m \in Nat : m <= n => ReadIs(a[m], drive, lba, m)}
<1>5. 0 \in T
  BY <1>4, NothingRead DEF Chain
<1>6. ASSUME NEW m \in Nat, m \in T PROVE m + 1 \in T
  <2>1. SUFFICES ASSUME m + 1 <= n PROVE ReadIs(a[m + 1], drive, lba, m + 1)
    OBVIOUS
  <2>2. ReadIs(a[m], drive, lba, m)
    BY <1>6, <2>1
  <2>3. m + 1 \in 1..n /\ seq[m + 1] = m + 1 /\ (m + 1) - 1 = m
    BY <2>1
  <2>4. a[m + 1] = Round(a[m], m + 1, how)
    BY <1>2, <1>4, <2>3 DEF Chain
  <2>5. lba + (m + 1) - 1 = lba + m /\ lba + m <= LBA_LIMIT
    BY <2>1, Limit
  <2>6. Selected(lba + (m + 1) - 1) = lba + m
    BY <2>5, SelectedIs
  <2>7. a[m + 1] = Transfer(drive, a[m], lba + m)
    BY <1>2, <2>4, <2>6 DEF Round
  <2>8. QED
    BY <2>2, <2>5, <2>7, TransferIs
<1>7. Nat \subseteq T
  <2> HIDE DEF T
  <2>1. QED
    BY <1>5, <1>6, Successors
<1>8. ReadIs(a[n], drive, lba, n)
  BY <1>7
<1>9. QED
  BY <1>4, <1>8

(* A read of sectors behind the last the driver can ask for fails.         *)
LEMMA ReadBeyond ==
  ASSUME NEW drive, NEW lba \in Nat, NEW n \in Nat \ {0}, lba > LBA_LIMIT
  PROVE  ReadIs(ata_pio_read(drive, lba, n), drive, lba, n)
<1>1. ata_pio_read(drive, lba, n) = [end |-> "error", buf |-> <<>>]
  BY Limit DEF ata_pio_read
<1>2. ~CanRead(drive, lba, n)
  <2>1. 0 \in 0..(n - 1) /\ ~(lba + 0 <= LBA_LIMIT)
    BY Limit
  <2>2. QED
    BY <2>1 DEF CanRead
<1>3. QED
  BY <1>1, <1>2 DEF ReadIs, Reads

(* Blocks are of 2, 4 or 8 sectors, none of which lies half behind it.     *)
LEMMA BlockRead ==
  ASSUME NEW drive, DriveOK(drive), NEW image, NEW block \in Nat, NEW per \in {2, 4, 8},
         BlockSize(image) = 512 * per
  PROVE  ReadIs(kread_block(drive, image, block), drive, block * per, per)
<1>1. PICK lba \in Nat : lba = block * per
  OBVIOUS
<1>2. (block * (512 * per)) \div 512 = lba /\ (512 * per) \div 512 = per
  BY <1>1
<1>3. kread_block(drive, image, block) = ata_pio_read(drive, lba, per)
  BY <1>2 DEF kread_block, SECTOR
<1>4. lba > LBA_LIMIT \/ lba + per - 1 <= LBA_LIMIT
  BY <1>1, Alignment
<1>5. ReadIs(ata_pio_read(drive, lba, per), drive, lba, per)
  BY <1>4, ReadLoop, ReadBeyond
<1>6. QED
  BY <1>1, <1>3, <1>5
(* The table, of n blocks from first on.                                   *)
LEMMA TableLoop ==
  ASSUME NEW drive, DriveOK(drive), NEW image, NEW per \in {2, 4, 8},
         BlockSize(image) = 512 * per,
         NEW first \in Nat, first = FirstTableBlock(image),
         NEW n \in Nat, n = TableBlocksOf(image)
  PROVE  \E read : /\ ReadIs(read, drive, first * per, n * per)
                   /\ TableEnds(read, ReadTable(drive, image))
<1> DEFINE seq == [i \in 1..n |-> first + i - 1]
<1>1. PICK how : how = OfTable(drive, image, seq)
  OBVIOUS
<1>2. how.table /\ how.drive = drive /\ how.image = image /\ how.seq = seq
  BY <1>1 DEF OfTable
<1>3. TableEnds(LoopEnd(how, n), ReadTable(drive, image))
  BY <1>1, TableUnfolds
<1>4. PICK a : Chain(a, how, n) /\ LoopEnd(how, n) = a[n]
  BY LoopChain
<1> DEFINE T == {m \in Nat : m <= n => ReadIs(a[m], drive, first * per, m * per)}
<1>5. 0 \in T
  <2>1. 0 * per = 0 /\ first * per \in Nat
    OBVIOUS
  <2>2. ReadIs(a[0], drive, first * per, 0)
    BY <1>4, <2>1, NothingRead DEF Chain
  <2>3. QED
    BY <2>1, <2>2
<1>6. ASSUME NEW m \in Nat, m \in T PROVE m + 1 \in T
  <2>1. SUFFICES ASSUME m + 1 <= n PROVE ReadIs(a[m + 1], drive, first * per, (m + 1) * per)
    OBVIOUS
  <2>2. ReadIs(a[m], drive, first * per, m * per)
    BY <1>6, <2>1
  <2>3. m + 1 \in 1..n /\ seq[m + 1] = first + m /\ (m + 1) - 1 = m
    BY <2>1
  <2>4. a[m + 1] = Round(a[m], first + m, how)
    BY <1>2, <1>4, <2>3 DEF Chain
  <2>5. PICK next : next = kread_block(drive, image, first + m)
    OBVIOUS
  <2>6. a[m + 1] = TableRound(a[m], next)
    BY <1>2, <2>4, <2>5 DEF Round
  <2>7. PICK l \in Nat, k \in Nat : l = first * per /\ k = m * per
    OBVIOUS
  <2>8. (first + m) * per = l + k /\ (m + 1) * per = k + per /\ per \in Nat \ {0}
    BY <2>7
  <2>9. ReadIs(next, drive, l + k, per)
    <3>1. ReadIs(next, drive, (first + m) * per, per)
      BY <2>5, BlockRead
    <3>2. QED
      BY <2>8, <3>1
  <2>10. ReadIs(TableRound(a[m], next), drive, l, k + per)
    <3>1. PICK read : read = a[m]
      OBVIOUS
    <3>2. ReadIs(read, drive, l, k)
      BY <2>2, <2>7, <3>1
    <3>3. ReadIs(TableRound(read, next), drive, l, k + per)
      BY <2>8, <2>9, <3>2, ReadsJoin
    <3>4. QED
      BY <3>1, <3>3
  <2>11. QED
    BY <2>6, <2>7, <2>8, <2>10
<1>7. Nat \subseteq T
  <2> HIDE DEF T
  <2>1. QED
    BY <1>5, <1>6, Successors
<1>8. ReadIs(a[n], drive, first * per, n * per)
  BY <1>7
<1>9. QED
  BY <1>3, <1>4, <1>8

-----------------------------------------------------------------------------
(* The place and the length of the table.                                  *)

(* Division with a rest.                                                   *)
LEMMA Division ==
  ASSUME NEW s \in Nat \ {0}, NEW x \in Nat
  PROVE  /\ x \div s \in Nat
         /\ x % s \in 0..(s - 1)
         /\ (x \div s) * s \in Nat
         /\ x = (x \div s) * s + (x % s)
OBVIOUS

(* So many blocks hold all the bytes, and none are taken for none.         *)
LEMMA BlocksHold ==
  ASSUME NEW x \in Nat, NEW s \in Nat \ {0}
  PROVE  /\ BlocksFor(x, s) \in Nat
         /\ x <= BlocksFor(x, s) * s
         /\ BlocksFor(x, s) = 0 <=> x = 0
<1>1. PICK b, r : b = (x + s - 1) \div s /\ r = (x + s - 1) % s
  OBVIOUS
<1>2. b \in Nat /\ r \in 0..(s - 1) /\ b * s \in Nat /\ x + s - 1 = b * s + r
  <2>1. x + s - 1 \in Nat
    OBVIOUS
  <2>2. QED
    BY <1>1, <2>1, Division
<1>3. b # 0 => b * s >= s
  <2>1. ASSUME b # 0 PROVE b * s >= s
    <3>1. PICK d \in Nat : b = d + 1
      <4>1. b - 1 \in Nat /\ b = (b - 1) + 1
        BY <1>2, <2>1
      <4>2. QED
        BY <4>1
    <3>2. b * s = d * s + s /\ d * s \in Nat
      BY <3>1
    <3>3. QED
      BY <3>2
  <2>2. QED
    BY <2>1
<1>4. b = 0 => b * s = 0
  OBVIOUS
<1>5. BlocksFor(x, s) = b
  BY <1>1 DEF BlocksFor
<1>6. PICK w \in Nat : w = b * s
  BY <1>2
<1>7. x <= w /\ (b = 0 <=> x = 0)
  BY <1>2, <1>3, <1>4, <1>6
<1>8. QED
  BY <1>2, <1>5, <1>6, <1>7

ImageOK(image) ==
  /\ image.magic \in BOOLEAN
  /\ image.log_block_size \in Nat
  /\ image.blocks_count \in Nat
  /\ image.blocks_per_group \in Nat

(* Blocks of 2, 4 or 8 sectors, and a table behind the superblock.         *)
LEMMA Sizes ==
  ASSUME NEW image, ImageOK(image), image.log_block_size <= 2
  PROVE  \E per \in {2, 4, 8} :
           /\ BlockSize(image) = 512 * per
           /\ FirstTableBlock(image) \in Nat
           /\ TableStart(image) = 512 * (FirstTableBlock(image) * per)
<1>1. PICK l \in {0, 1, 2} : l = image.log_block_size
  BY DEF ImageOK
<1>2. CASE l = 0
  <2>1. BlockSize(image) = 1024
    BY <1>1, <1>2, SMT DEF BlockSize
  <2>2. QED
    BY <2>1, SMT DEF FirstTableBlock, TableStart, BlocksFor, SUPERBLOCK
<1>3. CASE l = 1
  <2>1. BlockSize(image) = 2048
    BY <1>1, <1>3, SMT DEF BlockSize
  <2>2. QED
    BY <2>1, SMT DEF FirstTableBlock, TableStart, BlocksFor, SUPERBLOCK
<1>4. CASE l = 2
  <2>1. BlockSize(image) = 4096
    BY <1>1, <1>4, SMT DEF BlockSize
  <2>2. QED
    BY <2>1, SMT DEF FirstTableBlock, TableStart, BlocksFor, SUPERBLOCK
<1>5. QED
  BY <1>1, <1>2, <1>3, <1>4

(* The table has room for a descriptor of each group, and no blocks if     *)
(* there are no groups.                                                    *)
Groups(image) == BlocksFor(image.blocks_count, image.blocks_per_group)

LEMMA TableHolds ==
  ASSUME NEW image, ImageOK(image), image.blocks_per_group > 0,
         NEW per \in {2, 4, 8}, BlockSize(image) = 512 * per
  PROVE  /\ Groups(image) \in Nat
         /\ TableBlocksOf(image) \in Nat
         /\ 32 * Groups(image) <= 512 * (TableBlocksOf(image) * per)
         /\ TableBlocksOf(image) = 0 <=> image.blocks_count = 0
<1>1. PICK g \in Nat : /\ g = Groups(image)
                       /\ g = 0 <=> image.blocks_count = 0
  <2>1. image.blocks_count \in Nat /\ image.blocks_per_group \in Nat \ {0}
    BY DEF ImageOK
  <2>2. QED
    BY <2>1, BlocksHold DEF Groups
<1>2. PICK x \in Nat, s \in Nat \ {0} : x = 32 * g /\ s = 512 * per
  OBVIOUS
<1>3. TableBlocksOf(image) = BlocksFor(x, s)
  <2>1. x = g * GROUP_DESC
    BY <1>2 DEF GROUP_DESC
  <2>2. QED
    BY <1>1, <1>2, <2>1 DEF TableBlocksOf, Groups
<1>4. PICK n : n = BlocksFor(x, s)
  OBVIOUS
<1>5. n \in Nat /\ x <= n * s /\ (n = 0 <=> x = 0)
  BY <1>4, BlocksHold
<1>6. n * s = 512 * (n * per)
  <2>1. n \in Nat /\ s = 512 * per
    BY <1>2, <1>5
  <2>2. CASE per = 2
    BY ONLY <2>1, <2>2
  <2>3. CASE per = 4
    BY ONLY <2>1, <2>3
  <2>4. CASE per = 8
    BY ONLY <2>1, <2>4
  <2>5. QED
    BY <2>2, <2>3, <2>4
<1>7. x = 0 <=> g = 0
  BY <1>2
<1>8. QED
  BY <1>1, <1>2, <1>3, <1>4, <1>5, <1>6, <1>7
-----------------------------------------------------------------------------
(* A mount.                                                                *)

(* The sectors a mount needs.                                              *)
Needed(image) ==
  {2, 3} \cup
    {(TableStart(image) + i) \div SECTOR :
       i \in {SECTOR * n :
                n \in 0..(TableBlocksOf(image) * (BlockSize(image) \div SECTOR) - 1)}}

Fits(image) ==
  /\ image.magic /\ image.log_block_size <= 2
  /\ image.blocks_per_group > 0 /\ image.blocks_count > 0

AllReadable(drive, needed) ==
  /\ drive.kind = "ready"
  /\ needed \subseteq 0..LBA_LIMIT /\ drive.bad \cap needed = {}

(* What MountIsComplete says of an outcome.                                *)
MountOK(outcome, drive, image, room) ==
  /\ outcome.end = "returns" /\ outcome.rc = EXT2_OK <=>
       /\ Fits(image) /\ room /\ drive.kind = "ready"
       /\ Needed(image) \subseteq 0..LBA_LIMIT /\ drive.bad \cap Needed(image) = {}
  /\ outcome.rc = EXT2_OK => HasDescriptors(outcome, image)
  /\ outcome.end = "waits" => drive.kind = "busy"
  /\ outcome.group_desc = "read" => outcome.rc = EXT2_OK

(* They are those of the superblock and of the table.                      *)
TableSectors(start, n) == {start + j : j \in 0..(n - 1)}

LEMMA NeededAre ==
  ASSUME NEW image, NEW per \in {2, 4, 8}, BlockSize(image) = 512 * per,
         NEW start \in Nat, TableStart(image) = 512 * start,
         NEW n \in Nat, n = TableBlocksOf(image) * per
  PROVE  Needed(image) = {2, 3} \cup TableSectors(start, n)
<1>1. TableBlocksOf(image) * (BlockSize(image) \div SECTOR) = n
  <2>1. BlockSize(image) \div SECTOR = per
    BY SMT DEF SECTOR
  <2>2. QED
    BY <2>1
<1>2. \A j \in Nat : (512 * start + 512 * j) \div 512 = start + j
  BY SMT
<1> DEFINE A == {SECTOR * k : k \in 0..(n - 1)}
           B == {(TableStart(image) + i) \div SECTOR : i \in A}
           C == {start + j : j \in 0..(n - 1)}
<1>3. ASSUME NEW x \in B PROVE x \in C
  <2>1. PICK i \in A : x = (TableStart(image) + i) \div SECTOR
    OBVIOUS
  <2>2. PICK k \in 0..(n - 1) : i = SECTOR * k
    OBVIOUS
  <2>3. x = (512 * start + 512 * k) \div 512
    BY <2>1, <2>2 DEF SECTOR
  <2>4. x = start + k
    BY <1>2, <2>3
  <2>5. QED
    BY <2>4
<1>4. ASSUME NEW x \in C PROVE x \in B
  <2>1. PICK j \in 0..(n - 1) : x = start + j
    OBVIOUS
  <2>2. SECTOR * j \in A
    OBVIOUS
  <2>3. (TableStart(image) + SECTOR * j) \div SECTOR \in B
    BY <2>2
  <2>4. x = (512 * start + 512 * j) \div 512
    BY <1>2, <2>1
  <2>5. x = (TableStart(image) + SECTOR * j) \div SECTOR
    BY <2>4 DEF SECTOR
  <2>6. QED
    BY ONLY <2>3, <2>5
<1>5. B = C
  BY <1>3, <1>4
<1>6. QED
  BY <1>1, <1>5 DEF Needed, TableSectors

LEMMA ReadableAre ==
  ASSUME NEW drive, NEW start \in Nat, NEW n \in Nat, n # 0,
         NEW needed, needed = {2, 3} \cup TableSectors(start, n)
  PROVE  AllReadable(drive, needed) <=> CanRead(drive, 2, 2) /\ CanRead(drive, start, n)
<1>1. ASSUME AllReadable(drive, needed)
      PROVE  CanRead(drive, 2, 2) /\ CanRead(drive, start, n)
  <2>1. drive.kind = "ready"
    BY <1>1 DEF AllReadable
  <2>2. ASSUME NEW s \in needed PROVE s <= LBA_LIMIT /\ s \notin drive.bad
    BY <1>1, <2>2, Limit DEF AllReadable
  <2>3. \A j \in 0..(2 - 1) : 2 + j \in needed
    OBVIOUS
  <2>4. \A j \in 0..(n - 1) : start + j \in needed
    BY DEF TableSectors
  <2>5. QED
    BY <2>1, <2>2, <2>3, <2>4 DEF CanRead
<1>2. ASSUME CanRead(drive, 2, 2), CanRead(drive, start, n)
      PROVE  AllReadable(drive, needed)
  <2>1. drive.kind = "ready"
    BY <1>2 DEF CanRead
  <2>2. ASSUME NEW s \in needed PROVE s \in 0..LBA_LIMIT /\ s \notin drive.bad
    <3>1. CASE s \in {2, 3}
      <4>1. PICK j \in 0..(2 - 1) : s = 2 + j
        BY <3>1
      <4>2. s <= LBA_LIMIT /\ s \notin drive.bad /\ s \in Nat
        BY <1>2, <4>1 DEF CanRead
      <4>3. QED
        BY <4>2, Limit
    <3>2. CASE s \notin {2, 3}
      <4>1. PICK j \in 0..(n - 1) : s = start + j
        BY <2>2, <3>2 DEF TableSectors
      <4>2. s <= LBA_LIMIT /\ s \notin drive.bad /\ s \in Nat
        BY <1>2, <4>1 DEF CanRead
      <4>3. QED
        BY <4>2, Limit
    <3>3. QED
      BY <3>1, <3>2
  <2>3. QED
    BY <2>1, <2>2 DEF AllReadable
<1>3. QED
  BY <1>1, <1>2

(* Every byte of the groups' descriptors is in a sector of the table.      *)
LEMMA DescriptorsThere ==
  ASSUME NEW image, NEW start \in Nat, TableStart(image) = 512 * start,
         NEW n \in Nat, Groups(image) \in Nat, 32 * Groups(image) <= 512 * n,
         NEW outcome, outcome.table = SectorsFrom(start, n)
  PROVE  HasDescriptors(outcome, image)
<1>1. PICK g \in Nat : g = Groups(image)
  OBVIOUS
<1>2. Len(outcome.table) = n /\ \A i \in 1..n : outcome.table[i] = start + i - 1
  BY DEF SectorsFrom
<1>3. ASSUME NEW i \in 0..(g - 1), NEW byte \in {i * GROUP_DESC, i * GROUP_DESC + GROUP_DESC - 1}
      PROVE  /\ byte \div SECTOR < Len(outcome.table)
             /\ outcome.table[byte \div SECTOR + 1] = (TableStart(image) + byte) \div SECTOR
  <2>1. byte \in Nat /\ byte < 512 * n
    BY <1>1, SMT DEF GROUP_DESC
  <2>2. PICK q : q = byte \div 512
    OBVIOUS
  <2>3. q \in 0..(n - 1) /\ (512 * start + byte) \div 512 = start + q
    BY <2>1, <2>2, SMT
  <2>4. q + 1 \in 1..n /\ start + (q + 1) - 1 = start + q
    BY <2>3
  <2>5. outcome.table[q + 1] = start + q
    BY <1>2, <2>4
  <2>6. byte \div SECTOR = q /\ (TableStart(image) + byte) \div SECTOR = start + q
    BY <2>2, <2>3, SMT DEF SECTOR
  <2>7. QED
    BY <1>2, <2>3, <2>5, <2>6
<1>4. QED
  BY <1>1, <1>3 DEF HasDescriptors, Groups
MountFull(outcome, drive, image, room) ==
  /\ MountOK(outcome, drive, image, room)
  /\ outcome.rc = EXT2_OK => outcome.group_desc = "read"

(* A mount that ends early says so, and has left no table.                 *)
Failed(outcome) ==
  /\ outcome.rc # EXT2_OK
  /\ outcome.group_desc # "read"
  /\ outcome.end # "waits"

LEMMA FailedIsOK ==
  ASSUME NEW outcome, NEW drive, NEW image, NEW room, Failed(outcome),
         ~(Fits(image) /\ room /\ AllReadable(drive, Needed(image)))
  PROVE  MountFull(outcome, drive, image, room)
  BY DEF Failed, MountFull, MountOK, AllReadable

(* A mount of an image that fits, with the table of a readable superblock. *)
LEMMA TableIsOK ==
  ASSUME NEW drive, DriveOK(drive), NEW image, ImageOK(image), NEW room, room,
         image.magic, image.log_block_size <= 2, image.blocks_per_group > 0,
         TableBlocksOf(image) # 0, CanRead(drive, 2, 2)
  PROVE  MountFull(ReadTable(drive, image), drive, image, room)
<1>1. PICK per \in {2, 4, 8} : /\ BlockSize(image) = 512 * per
                             /\ FirstTableBlock(image) \in Nat
                             /\ TableStart(image) = 512 * (FirstTableBlock(image) * per)
  BY Sizes
<1>2. PICK first \in Nat, blocks \in Nat :
        first = FirstTableBlock(image) /\ blocks = TableBlocksOf(image)
  BY <1>1, TableHolds
<1>3. PICK start \in Nat, n \in Nat : start = first * per /\ n = blocks * per
  BY <1>2
<1>4. /\ Groups(image) \in Nat /\ 32 * Groups(image) <= 512 * n
      /\ image.blocks_count # 0
  BY <1>1, <1>2, <1>3, TableHolds
<1>5. Fits(image)
  BY <1>4 DEF Fits, ImageOK
<1>6. n # 0
  BY <1>2, <1>3
<1>7. PICK read : ReadIs(read, drive, start, n) /\ TableEnds(read, ReadTable(drive, image))
  BY <1>1, <1>2, <1>3, TableLoop
<1>8. AllReadable(drive, Needed(image)) <=> CanRead(drive, start, n)
  <2>1. Needed(image) = {2, 3} \cup TableSectors(start, n)
    <3>1. TableStart(image) = 512 * start /\ n = TableBlocksOf(image) * per
      BY <1>1, <1>2, <1>3
    <3>2. QED
      BY <1>1, <3>1, NeededAre
  <2>2. QED
    BY <1>6, <2>1, ReadableAre
<1>9. PICK outcome : outcome = ReadTable(drive, image)
  OBVIOUS
<1>10. CASE read.end = "data"
  <2>1. AllReadable(drive, Needed(image)) /\ read.buf = SectorsFrom(start, n)
    BY <1>6, <1>7, <1>8, <1>10 DEF ReadIs
  <2>2. outcome = Outcome("returns", EXT2_OK, "read", "read", read.buf)
    BY <1>7, <1>9, <1>10 DEF TableEnds
  <2>3. /\ outcome.end = "returns" /\ outcome.rc = EXT2_OK /\ outcome.group_desc = "read"
        /\ outcome.table = SectorsFrom(start, n)
    BY <2>1, <2>2 DEF Outcome
  <2>4. HasDescriptors(outcome, image)
    BY <1>1, <1>2, <1>3, <1>4, <2>3, DescriptorsThere
  <2>5. MountFull(outcome, drive, image, room)
    BY <1>5, <2>1, <2>3, <2>4 DEF MountFull, MountOK, AllReadable
  <2>6. QED
    BY <1>9, <2>5
<1>11. CASE read.end # "data"
  <2>1. ~AllReadable(drive, Needed(image))
    BY <1>6, <1>7, <1>8, <1>11 DEF ReadIs
  <2>2. outcome = Outcome(EndOf(read), EXT2_ERR_IO, "read", "unread", read.buf)
    BY <1>7, <1>9, <1>11 DEF TableEnds
  <2>3. /\ outcome.end = EndOf(read) /\ outcome.rc # EXT2_OK
        /\ outcome.group_desc = "unread"
    BY <2>2 DEF Outcome, EXT2_OK, EXT2_ERR_IO
  <2>4. outcome.end = "waits" => drive.kind = "busy"
    BY <1>7, <2>3 DEF EndOf, ReadIs
  <2>5. MountFull(outcome, drive, image, room)
    BY <2>1, <2>3, <2>4 DEF MountFull, MountOK, AllReadable
  <2>6. QED
    BY <1>9, <2>5
<1>12. QED
  BY <1>10, <1>11

LEMMA MountIs ==
  ASSUME NEW drive, DriveOK(drive), NEW image, ImageOK(image), NEW room \in BOOLEAN
  PROVE  MountFull(ext2_mount(drive, image, room), drive, image, room)
<1>1. PICK sb : sb = ata_pio_read(drive, SUPERBLOCK \div SECTOR, 2)
  OBVIOUS
<1>2. ReadIs(sb, drive, 2, 2)
  <2>1. SUPERBLOCK \div SECTOR = 2
    BY SMT DEF SUPERBLOCK, SECTOR
  <2>2. 2 + 2 - 1 <= LBA_LIMIT
    BY SMT DEF LBA_LIMIT
  <2>3. QED
    BY <1>1, <2>1, <2>2, ReadLoop
<1>3. PICK outcome : outcome = ext2_mount(drive, image, room)
  OBVIOUS
<1>4. CASE sb.end # "data"
  <2>1. outcome = [NotMounted EXCEPT !.end = EndOf(sb)]
    BY <1>1, <1>3, <1>4 DEF ext2_mount
  <2>2. /\ outcome.end = EndOf(sb) /\ outcome.rc # EXT2_OK
        /\ outcome.group_desc = "null"
    BY <2>1 DEF NotMounted, Outcome, EXT2_OK, EXT2_ERR_IO
  <2>3. outcome.end = "waits" => drive.kind = "busy"
    BY <1>2, <2>2 DEF EndOf, ReadIs
  <2>4. ~AllReadable(drive, Needed(image))
    <3>1. ~CanRead(drive, 2, 2)
      BY <1>2, <1>4 DEF ReadIs
    <3>2. ASSUME AllReadable(drive, Needed(image)) PROVE CanRead(drive, 2, 2)
      <4>1. drive.kind = "ready"
        BY <3>2 DEF AllReadable
      <4>2. ASSUME NEW j \in 0..(2 - 1)
            PROVE  2 + j <= LBA_LIMIT /\ 2 + j \notin drive.bad
        <5>1. 2 + j \in Needed(image)
          BY DEF Needed
        <5>2. 2 + j \in 0..LBA_LIMIT /\ 2 + j \notin drive.bad
          BY <3>2, <5>1 DEF AllReadable
        <5>3. QED
          BY <5>2, Limit
      <4>3. QED
        BY <4>1, <4>2 DEF CanRead
    <3>3. QED
      BY <3>1, <3>2
  <2>5. QED
    BY <1>3, <2>2, <2>3, <2>4 DEF MountFull, MountOK, AllReadable
<1>5. CASE sb.end = "data" /\ ~image.magic
  <2>1. outcome = [Outcome("returns", EXT2_ERR_BAD_MAGIC, "read", "null", <<>>)
                     EXCEPT !.superblock = "foreign"]
    BY <1>1, <1>3, <1>5 DEF ext2_mount
  <2>2. Failed(outcome)
    BY <2>1 DEF Failed, Outcome, EXT2_OK, EXT2_ERR_BAD_MAGIC
  <2>3. QED
    BY <1>3, <1>5, <2>2, FailedIsOK DEF Fits
<1>6. CASE sb.end = "data" /\ image.magic /\ image.log_block_size > 2
  <2>1. outcome = Outcome("returns", EXT2_ERR_UNSUPPORTED, "read", "null", <<>>)
    BY <1>1, <1>3, <1>6 DEF ext2_mount
  <2>2. Failed(outcome)
    BY <2>1 DEF Failed, Outcome, EXT2_OK, EXT2_ERR_UNSUPPORTED
  <2>3. ~Fits(image)
    BY <1>6 DEF Fits, ImageOK
  <2>4. QED
    BY <1>3, <2>2, <2>3, FailedIsOK
<1>7. CASE /\ sb.end = "data" /\ image.magic /\ ~(image.log_block_size > 2)
           /\ image.blocks_per_group = 0
  <2>1. outcome = [Outcome("returns", EXT2_ERR_IO, "read", "null", <<>>)
                     EXCEPT !.end = "divides"]
    BY <1>1, <1>3, <1>7 DEF ext2_mount
  <2>2. Failed(outcome)
    BY <2>1 DEF Failed, Outcome, EXT2_OK, EXT2_ERR_IO
  <2>3. ~Fits(image)
    BY <1>7 DEF Fits
  <2>4. QED
    BY <1>3, <2>2, <2>3, FailedIsOK
<1>8. CASE /\ sb.end = "data" /\ image.magic /\ ~(image.log_block_size > 2)
           /\ image.blocks_per_group # 0
           /\ ~room \/ TableBlocksOf(image) = 0
  <2>1. outcome = Outcome("returns", EXT2_ERR_IO, "read", "null", <<>>)
    BY <1>1, <1>3, <1>8 DEF ext2_mount
  <2>2. Failed(outcome)
    BY <2>1 DEF Failed, Outcome, EXT2_OK, EXT2_ERR_IO
  <2>3. ~(Fits(image) /\ room)
    <3>1. image.blocks_per_group > 0 /\ image.log_block_size <= 2
      BY <1>8 DEF ImageOK
    <3>2. PICK per \in {2, 4, 8} : BlockSize(image) = 512 * per
      BY <3>1, Sizes
    <3>3. TableBlocksOf(image) = 0 <=> image.blocks_count = 0
      BY <3>1, <3>2, TableHolds
    <3>4. QED
      BY <1>8, <3>3 DEF Fits, ImageOK
  <2>4. QED
    BY <1>3, <2>2, <2>3, FailedIsOK
<1>9. CASE /\ sb.end = "data" /\ image.magic /\ ~(image.log_block_size > 2)
           /\ image.blocks_per_group # 0
           /\ room /\ TableBlocksOf(image) # 0
  <2>1. outcome = ReadTable(drive, image)
    BY <1>1, <1>3, <1>9 DEF ext2_mount
  <2>2. image.blocks_per_group > 0 /\ image.log_block_size <= 2
    BY <1>9 DEF ImageOK
  <2>3. CanRead(drive, 2, 2)
    BY <1>2, <1>9 DEF ReadIs
  <2>4. QED
    BY <1>3, <1>9, <2>1, <2>2, <2>3, TableIsOK
<1>10. QED
  BY <1>4, <1>5, <1>6, <1>7, <1>8, <1>9

LEMMA OutcomeIs ==
  ASSUME NEW drive \in Drives, NEW image \in Images, NEW room \in BOOLEAN
  PROVE  MountFull(ext2_mount(drive, image, room), drive, image, room)
<1>1. DriveOK(drive)
  BY AtaAssumption, SMT DEF DriveOK
<1>2. ImageOK(image)
  BY MountAssumption, SMT DEF ImageOK
<1>3. QED
  BY <1>1, <1>2, MountIs

LEMMA MountCompletes == MountIsComplete
  BY OutcomeIs DEF MountIsComplete, MountFull, MountOK, Fits, Needed

(* Until the mount no failure of it has been printed, and from then on one *)
(* has if the table was not read.                                          *)
Said ==
  /\ stage \in {"idt_init", "serial_init", "parse", "memory", "pools", "mount"} =>
       MountFailed \notin printed
  /\ stage \in {"keyboard", "sti", "kshell", "shell", "reboot", "poweroff"} =>
       (mount.group_desc = "read" <=> MountFailed \notin printed)

LEMMA EnterSaid ==
  ASSUME NEW code, NEW regs, Enter(code, regs)
  PROVE  Said'
<1>1. stage' \in {"panic", "lost"}
  BY DEF Enter
<1>2. QED
  BY <1>1 DEF Said

LEMMA IsrSaid == ASSUME NEW vector, isr_handler(vector) PROVE Said'
  BY EnterSaid DEF isr_handler

(* A message about something else than the mount.                          *)
LEMMA DebugSaid ==
  ASSUME Said, NEW type, NEW subsystem, NEW message, NEW next,
         d_dbgtype(type, subsystem, message, next), UNCHANGED mount,
         message # "EXT2 mount failed",
         \/ stage = "pools" /\ next = "mount"
         \/ next = "halted"
         \/ stage \in {"reboot", "poweroff"} /\ next = "shell"
  PROVE  Said'
<1>1. CASE Faults
  BY <1>1, IsrSaid DEF d_dbgtype
<1>2. CASE ~Faults
  <2>1. /\ stage' = next
        /\ printed' = printed \cup
             {[type |-> type, subsystem |-> subsystem, message |-> message]}
    BY <1>2 DEF d_dbgtype
  <2>2. [type |-> type, subsystem |-> subsystem, message |-> message] # MountFailed
    <3>1. MountFailed.message = "EXT2 mount failed"
      BY DEF MountFailed
    <3>2. [type |-> type, subsystem |-> subsystem, message |-> message].message = message
      OBVIOUS
    <3>3. QED
      BY <3>1, <3>2
  <2>3. MountFailed \in printed' <=> MountFailed \in printed
    BY <2>1, <2>2
  <2>4. QED
    BY <2>1, <2>3 DEF Said
<1>3. QED
  BY <1>1, <1>2

(* Steps that leave what has been printed and mounted alone.               *)
LEMMA StageSaid ==
  ASSUME Said, UNCHANGED <<mount, printed>>,
         \/ stage' = stage
         \/ stage' \in {"waiting", "halted", "lost", "panic", "off"}
         \/ stage \in {"idt_init", "serial_init", "parse", "memory", "pools", "mount"}
            /\ stage' \in {"serial_init", "parse", "memory", "pools", "mount"}
         \/ stage \in {"keyboard", "sti", "kshell", "shell"}
            /\ stage' \in {"sti", "kshell", "shell", "reboot", "poweroff"}
  PROVE  Said'
  BY DEF Said

LEMMA ParseSaid == Said /\ parse_multiboot_info => Said'
<1> SUFFICES ASSUME Said, parse_multiboot_info PROVE Said'
  OBVIOUS
<1>1. stage = "parse" /\ stage' \in {"parse", "memory"} /\ mount' = mount
  BY DEF parse_multiboot_info
<1>2. printed' = printed \/ printed' = printed \cup {InvalidTag}
  BY DEF parse_multiboot_info
<1>3. InvalidTag # MountFailed
  BY DEF InvalidTag, MountFailed
<1>4. MountFailed \in printed' <=> MountFailed \in printed
  BY <1>2, <1>3
<1>5. QED
  BY <1>1, <1>4 DEF Said

(* The mount, which says that it failed exactly when it did.               *)
LEMMA MountSaid == Said /\ ext2_mount_disk => Said'
<1> SUFFICES ASSUME Said, ext2_mount_disk PROVE Said'
  OBVIOUS
<1>1. stage = "mount" /\ MountFailed \notin printed
  BY DEF ext2_mount_disk, Said
<1>2. mount'.rc = EXT2_OK <=> mount'.group_desc = "read"
  <2>1. PICK drive \in Drives, image \in Images, room \in BOOLEAN :
          mount' = ext2_mount(drive, image, room)
    BY DEF ext2_mount_disk
  <2>2. MountFull(mount', drive, image, room)
    BY <2>1, OutcomeIs
  <2>3. QED
    BY <2>2 DEF MountFull, MountOK
<1>3. CASE stage' = "waiting"
  BY <1>3 DEF Said
<1>4. CASE isr_handler(0)
  BY <1>4, IsrSaid
<1>5. CASE mount'.rc # EXT2_OK /\ d_dbgtype("err", "fs", "EXT2 mount failed", "keyboard")
  <2>1. CASE Faults
    BY <1>5, <2>1, IsrSaid DEF d_dbgtype
  <2>2. CASE ~Faults
    <3>1. MountFailed \in printed' /\ stage' = "keyboard"
      BY <1>5, <2>2 DEF d_dbgtype, MountFailed
    <3>2. QED
      BY <1>2, <1>5, <3>1 DEF Said
  <2>3. QED
    BY <2>1, <2>2
<1>6. CASE mount'.rc = EXT2_OK /\ stage' = "keyboard" /\ printed' = printed
  BY <1>1, <1>2, <1>6 DEF Said
<1>7. QED
  BY <1>3, <1>4, <1>5, <1>6 DEF ext2_mount_disk

LEMMA BootingSaid == Said /\ Booting => Said'
<1> SUFFICES ASSUME Said, Booting PROVE Said'
  OBVIOUS
<1>1. CASE idt_init \/ serial_init \/ keyboard_init \/ sti
  BY <1>1, StageSaid DEF idt_init, serial_init, keyboard_init, sti, Step, found
<1>2. CASE kmemory_init
  <2>1. Enter(2, FALSE) \/ (/\ stage = "memory" /\ stage' \in {"memory", "pools"}
                           /\ UNCHANGED <<mount, printed>>)
    BY <1>2 DEF kmemory_init
  <2>2. QED
    BY <2>1, EnterSaid, StageSaid
<1>3. CASE init_memory_pools
  <2>1. stage = "pools" /\ UNCHANGED mount
    BY <1>3 DEF init_memory_pools
  <2>2. \/ stage' = "mount" /\ UNCHANGED printed
        \/ d_dbgtype("warn", " mm ", "Failed to create some memory pools", "mount")
    BY <1>3 DEF init_memory_pools
  <2>3. QED
    BY <2>1, <2>2, StageSaid, DebugSaid
<1>4. CASE kshell
  <2>1. isr_handler(14) \/ (/\ stage = "kshell" /\ stage' = "shell"
                           /\ UNCHANGED <<mount, printed>>)
    BY <1>4 DEF kshell, found
  <2>2. QED
    BY <2>1, IsrSaid, StageSaid
<1>5. QED
  BY <1>1, <1>2, <1>3, <1>4, ParseSaid, MountSaid DEF Booting

LEMMA PanickingSaid == Said /\ Panicking => Said'
<1> SUFFICES ASSUME Said, Panicking PROVE Said'
  OBVIOUS
<1>1. \/ \E vector : isr_handler(vector)
      \/ UNCHANGED <<stage, mount, printed>>
  BY DEF Panicking, v_clear, s_writes, s_write, transmit, v_puts, ksleep, found
<1>2. QED
  BY <1>1, IsrSaid, StageSaid

LEMMA RebootSaid == Said /\ (a_reboot \/ a_poweroff) => Said'
<1> SUFFICES ASSUME Said, a_reboot \/ a_poweroff PROVE Said'
  OBVIOUS
<1>1. CASE Reset
  <2>1. stage' = "idt_init" /\ printed' = {}
    BY <1>1 DEF Reset
  <2>2. QED
    BY <2>1 DEF Said
<1>2. ASSUME NEW message, message # "EXT2 mount failed", NothingHappened(message)
      PROVE  Said'
  <2>1. stage \in {"panic", "reboot", "poweroff"}
    BY DEF a_reboot, a_poweroff, InPanic
  <2>2. PICK next : next = IF stage = "panic" THEN "halted" ELSE "shell"
    OBVIOUS
  <2>3. isr_handler(0) \/ d_dbgtype("err", "acpi", message, next)
    BY <1>2, <2>2 DEF NothingHappened
  <2>4. UNCHANGED mount
    BY <1>2 DEF NothingHappened
  <2>5. QED
    BY <1>2, <2>1, <2>2, <2>3, <2>4, IsrSaid, DebugSaid
<1>3. CASE stage' = "off" /\ UNCHANGED found
  BY <1>3, StageSaid DEF found
<1>4. \/ Reset \/ NothingHappened("Legacy reboot failed")
      \/ NothingHappened("Legacy poweroff failed")
      \/ stage' = "off" /\ UNCHANGED found
  BY DEF a_reboot, a_poweroff
<1>5. QED
  BY <1>1, <1>2, <1>3, <1>4

LEMMA CommandsSaid == Said /\ (Commands \/ Exception \/ TransmitterDone) => Said'
<1> SUFFICES ASSUME Said, Commands \/ Exception \/ TransmitterDone PROVE Said'
  OBVIOUS
<1>1. CASE cmd_panic
  BY <1>1, EnterSaid DEF cmd_panic
<1>2. CASE Exception
  BY <1>2, IsrSaid DEF Exception
<1>3. CASE cmd_reboot \/ cmd_poweroff
  BY <1>3, StageSaid DEF cmd_reboot, cmd_poweroff, Step, found
<1>4. CASE TransmitterDone
  BY <1>4, StageSaid DEF TransmitterDone, found
<1>5. QED
  BY <1>1, <1>2, <1>3, <1>4 DEF Commands

(* Whatever the drive, the image and the room in the heap, a boot that     *)
(* gets to the shell has said that the mount failed exactly when it did,   *)
(* and a mount that worked has read the descriptors of all groups.         *)
THEOREM MountAlwaysReadsDisk == Spec => []MountReadsDisk
<1>1. Init => Said
  BY DEF Init, Said
<1>2. Said /\ [Next]_kvars => Said'
  <2> SUFFICES ASSUME Said, [Next]_kvars PROVE Said'
    OBVIOUS
  <2>1. CASE Next
    BY <2>1, BootingSaid, PanickingSaid, RebootSaid, CommandsSaid DEF Next, Processor
  <2>2. CASE UNCHANGED kvars
    BY <2>2 DEF kvars, found, Said
  <2>3. QED
    BY <2>1, <2>2
<1>3. Said => MountReadsDisk
  BY MountCompletes DEF Said, MountReadsDisk
<1>4. QED
  BY <1>1, <1>2, <1>3, PTL DEF Spec

-----------------------------------------------------------------------------
(* The keyboard.  Its ring, apart from any state.                          *)

CountOf(h, t) == (h - t + KBD_BUFFER_SIZE) % KBD_BUFFER_SIZE

ContentsOf(buf, h, t) ==
  [i \in 1..CountOf(h, t) |-> buf[(t + i - 1) % KBD_BUFFER_SIZE]]

Rings == [Indices -> Int]

LEMMA RemainderBelow ==
  ASSUME NEW n \in Nat \ {0}, NEW x \in 0..(n - 1)
  PROVE  x % n = x
  BY SMT

LEMMA RemainderOnce ==
  ASSUME NEW n \in Nat \ {0}, NEW x \in n..(2 * n - 1)
  PROVE  x % n = x - n
  BY SMT

LEMMA SizeOK == KBD_BUFFER_SIZE \in Nat \ {0}
  BY KeyboardAssumption

(* An index goes on by one, and from the last slot to the first.           *)
LEMMA AdvanceIs ==
  ASSUME NEW i \in Indices
  PROVE  /\ Advance(i) \in Indices
         /\ Advance(i) = IF i = KBD_BUFFER_SIZE - 1 THEN 0 ELSE i + 1
<1>1. CASE i = KBD_BUFFER_SIZE - 1
  <2>1. (i + 1) % KBD_BUFFER_SIZE = 0
    BY <1>1, SizeOK, RemainderOnce DEF Indices
  <2> QED  BY <2>1, <1>1, SizeOK DEF Advance, Indices
<1>2. CASE i # KBD_BUFFER_SIZE - 1
  <2>1. i + 1 \in 0..(KBD_BUFFER_SIZE - 1)
    BY <1>2, SizeOK DEF Indices
  <2>2. (i + 1) % KBD_BUFFER_SIZE = i + 1
    BY <2>1, SizeOK, RemainderBelow
  <2> QED  BY <2>1, <2>2, <1>2 DEF Advance, Indices
<1> QED  BY <1>1, <1>2

(* How many characters wait.                                               *)
LEMMA CountIs ==
  ASSUME NEW h \in Indices, NEW t \in Indices
  PROVE  /\ CountOf(h, t) = IF h >= t THEN h - t ELSE h - t + KBD_BUFFER_SIZE
         /\ CountOf(h, t) \in Indices
         /\ CountOf(h, t) = 0 <=> h = t
<1>1. CASE h >= t
  <2>1. h - t + KBD_BUFFER_SIZE \in KBD_BUFFER_SIZE..(2 * KBD_BUFFER_SIZE - 1)
    BY <1>1, SizeOK DEF Indices
  <2>2. CountOf(h, t) = h - t
    BY <2>1, SizeOK, RemainderOnce DEF CountOf, Indices
  <2> QED  BY <2>2, <1>1, SizeOK DEF Indices
<1>2. CASE h < t
  <2>1. h - t + KBD_BUFFER_SIZE \in 0..(KBD_BUFFER_SIZE - 1)
    BY <1>2, SizeOK DEF Indices
  <2>2. CountOf(h, t) = h - t + KBD_BUFFER_SIZE
    BY <2>1, SizeOK, RemainderBelow DEF CountOf
  <2> QED  BY <2>2, <1>2, SizeOK DEF Indices
<1> QED  BY <1>1, <1>2 DEF Indices

(* Which slot a place in the queue is in.                                  *)
Slot(t, i) ==
  IF t + i - 1 < KBD_BUFFER_SIZE THEN t + i - 1 ELSE t + i - 1 - KBD_BUFFER_SIZE

LEMMA SlotIs ==
  ASSUME NEW t \in Indices, NEW i \in 1..KBD_BUFFER_SIZE
  PROVE  /\ (t + i - 1) % KBD_BUFFER_SIZE = Slot(t, i)
         /\ Slot(t, i) \in Indices
<1>1. CASE t + i - 1 < KBD_BUFFER_SIZE
  <2>1. t + i - 1 \in 0..(KBD_BUFFER_SIZE - 1)
    BY <1>1, SizeOK DEF Indices
  <2> QED  BY <2>1, <1>1, SizeOK, RemainderBelow DEF Slot, Indices
<1>2. CASE t + i - 1 >= KBD_BUFFER_SIZE
  <2>1. PICK x \in KBD_BUFFER_SIZE..(2 * KBD_BUFFER_SIZE - 1) : x = t + i - 1
    BY <1>2, SizeOK DEF Indices
  <2>2. x % KBD_BUFFER_SIZE = x - KBD_BUFFER_SIZE
    BY SizeOK, RemainderOnce
  <2> QED  BY <2>1, <2>2, <1>2, SizeOK DEF Slot, Indices
<1> QED  BY <1>1, <1>2, SizeOK DEF Indices

(* The queue of a ring, slot by slot.                                      *)
LEMMA ContentsIs ==
  ASSUME NEW buf \in Rings, NEW h \in Indices, NEW t \in Indices
  PROVE  /\ ContentsOf(buf, h, t) = [i \in 1..CountOf(h, t) |-> buf[Slot(t, i)]]
         /\ ContentsOf(buf, h, t) \in Seq(Int)
         /\ Len(ContentsOf(buf, h, t)) = CountOf(h, t)
<1>1. CountOf(h, t) \in Nat /\ CountOf(h, t) < KBD_BUFFER_SIZE
  BY CountIs, SizeOK DEF Indices
<1>2. \A i \in 1..CountOf(h, t) :
        /\ (t + i - 1) % KBD_BUFFER_SIZE = Slot(t, i)
        /\ Slot(t, i) \in Indices
  BY <1>1, SlotIs, SizeOK
<1>3. ContentsOf(buf, h, t) = [i \in 1..CountOf(h, t) |-> buf[Slot(t, i)]]
  BY <1>2 DEF ContentsOf
<1>4. ContentsOf(buf, h, t) \in [1..CountOf(h, t) -> Int]
  BY <1>2, <1>3 DEF Rings
<1> QED  BY <1>1, <1>3, <1>4

(* A character stored where the head is comes last in the queue.           *)
LEMMA StoreAppends ==
  ASSUME NEW buf \in Rings, NEW h \in Indices, NEW t \in Indices, NEW ch \in Int,
         Advance(h) # t
  PROVE  /\ CountOf(h, t) < KBD_BUFFER_SIZE - 1
         /\ ContentsOf([buf EXCEPT ![h] = ch], Advance(h), t)
              = Append(ContentsOf(buf, h, t), ch)
<1> DEFINE after == [buf EXCEPT ![h] = ch]
           n == CountOf(h, t)
<1> DEFINE next == Advance(h)
<1>a. next \in Indices /\ next = IF h = KBD_BUFFER_SIZE - 1 THEN 0 ELSE h + 1
  BY AdvanceIs
<1>b. n \in Indices /\ n = IF h >= t THEN h - t ELSE h - t + KBD_BUFFER_SIZE
  BY CountIs
<1>c. CountOf(next, t) = IF next >= t THEN next - t ELSE next - t + KBD_BUFFER_SIZE
  BY <1>a, CountIs
<1>d. next # t
  OBVIOUS
<1> HIDE DEF n, next
<1>1. n \in Nat /\ n < KBD_BUFFER_SIZE - 1 /\ CountOf(next, t) = n + 1
  BY <1>a, <1>b, <1>c, <1>d, SizeOK DEF Indices
<1>2. after \in Rings
  BY DEF Rings
<1>3. Slot(t, n + 1) = h
  BY <1>b, SizeOK DEF Slot, Indices
<1>4. \A i \in 1..n : Slot(t, i) # h /\ Slot(t, i) \in Indices
  BY <1>1, <1>b, SizeOK DEF Slot, Indices
<1>5. \A i \in 1..n : after[Slot(t, i)] = buf[Slot(t, i)]
  BY <1>4 DEF Rings
<1>6. after[h] = ch
  BY DEF Rings
<1> HIDE DEF after
<1>7. ContentsOf(after, next, t) = [i \in 1..(n + 1) |-> after[Slot(t, i)]]
  <2>1. ContentsOf(after, next, t) = [i \in 1..CountOf(next, t) |-> after[Slot(t, i)]]
    BY <1>2, <1>a, ContentsIs
  <2> QED  BY <1>1, <2>1
<1>8. /\ ContentsOf(buf, h, t) = [i \in 1..n |-> buf[Slot(t, i)]]
      /\ ContentsOf(buf, h, t) \in Seq(Int)
      /\ Len(ContentsOf(buf, h, t)) = n
  BY ContentsIs DEF n
<1>9. Append(ContentsOf(buf, h, t), ch)
        = [i \in 1..(n + 1) |-> IF i = n + 1 THEN ch ELSE buf[Slot(t, i)]]
  BY <1>1, <1>8
<1>10. [i \in 1..(n + 1) |-> after[Slot(t, i)]]
         = [i \in 1..(n + 1) |-> IF i = n + 1 THEN ch ELSE buf[Slot(t, i)]]
  BY <1>1, <1>3, <1>5, <1>6
<1>11. ContentsOf(after, next, t) = Append(ContentsOf(buf, h, t), ch)
  BY <1>7, <1>9, <1>10
<1> QED  BY <1>1, <1>11 DEF after, n, next

(* A ring whose head cannot advance holds all it can.                      *)
LEMMA FullHoldsAll ==
  ASSUME NEW h \in Indices, NEW t \in Indices, Advance(h) = t
  PROVE  CountOf(h, t) = KBD_BUFFER_SIZE - 1
<1>1. t = IF h = KBD_BUFFER_SIZE - 1 THEN 0 ELSE h + 1
  BY AdvanceIs
<1>2. CountOf(h, t) = IF h >= t THEN h - t ELSE h - t + KBD_BUFFER_SIZE
  BY CountIs
<1> QED  BY <1>1, <1>2, SizeOK DEF Indices

(* The slot of the tail is the first of the queue, and advancing the tail  *)
(* takes it off.                                                           *)
LEMMA TakeIsHead ==
  ASSUME NEW buf \in Rings, NEW h \in Indices, NEW t \in Indices, h # t
  PROVE  /\ ContentsOf(buf, h, t) # <<>>
         /\ Head(ContentsOf(buf, h, t)) = buf[t]
         /\ ContentsOf(buf, h, Advance(t)) = Tail(ContentsOf(buf, h, t))
<1> DEFINE n == CountOf(h, t)
           next == Advance(t)
<1>a. next \in Indices /\ next = IF t = KBD_BUFFER_SIZE - 1 THEN 0 ELSE t + 1
  BY AdvanceIs
<1>b. n \in Indices /\ n = IF h >= t THEN h - t ELSE h - t + KBD_BUFFER_SIZE
  BY CountIs
<1>c. CountOf(h, next) = IF h >= next THEN h - next ELSE h - next + KBD_BUFFER_SIZE
  BY <1>a, CountIs
<1> HIDE DEF n, next
<1>1. n \in Nat /\ n > 0 /\ CountOf(h, next) = n - 1 /\ next \in Indices
  BY <1>a, <1>b, <1>c, SizeOK DEF Indices
<1>2. Slot(t, 1) = t
  BY SizeOK DEF Slot, Indices
<1>3. \A i \in 1..(n - 1) : Slot(next, i) = Slot(t, i + 1)
  BY <1>1, <1>a, <1>b, SizeOK DEF Slot, Indices
<1>4. ContentsOf(buf, h, next) = [i \in 1..(n - 1) |-> buf[Slot(next, i)]]
  BY <1>1, ContentsIs
<1>5. /\ ContentsOf(buf, h, t) = [i \in 1..n |-> buf[Slot(t, i)]]
      /\ ContentsOf(buf, h, t) \in Seq(Int)
      /\ Len(ContentsOf(buf, h, t)) = n
  BY ContentsIs DEF n
<1>6. Tail(ContentsOf(buf, h, t)) = [i \in 1..(n - 1) |-> buf[Slot(t, i + 1)]]
  BY <1>1, <1>5
<1>7. ContentsOf(buf, h, next) = Tail(ContentsOf(buf, h, t))
  BY <1>3, <1>4, <1>6
<1>8. ContentsOf(buf, h, t) # <<>> /\ Head(ContentsOf(buf, h, t)) = buf[t]
  BY <1>1, <1>2, <1>5
<1> QED  BY <1>7, <1>8 DEF next
-----------------------------------------------------------------------------
(* Characters.                                                             *)

Scancodes == 0..255
Characters == 0..255

LEMMA MapGives ==
  ASSUME NEW chars, \A k \in chars : k[2] \in 1..127,
         NEW s \in 0..(BREAK - 1)
  PROVE  Map(chars)[s] \in 0..127
<1>1. CASE \E k \in chars : k[1] = s
  <2>1. PICK k \in chars : k = CHOOSE pair \in chars : pair[1] = s
    BY <1>1
  <2> QED  BY <1>1, <2>1 DEF Map
<1>2. CASE ~\E k \in chars : k[1] = s
  BY <1>2 DEF Map
<1> QED  BY <1>1, <1>2

LEMMA CharOfIs ==
  ASSUME NEW s \in 0..(BREAK - 1)
  PROVE  CharOf(s) \in Characters
<1>1. kbd_us[s] \in 0..127
  BY MapGives DEF kbd_us
<1>2. kbd_us_shift[s] \in 0..127
  BY MapGives DEF kbd_us_shift
<1> QED  BY <1>1, <1>2 DEF CharOf, k_adjust_case, Characters, Lower, Upper

-----------------------------------------------------------------------------
(* The invariant.                                                          *)

Typed ==
  /\ kbd_buffer \in Rings
  /\ kbd_buffer_head \in Indices /\ kbd_buffer_tail \in Indices
  /\ shift_pressed \in BOOLEAN
  /\ port \in Seq(Scancodes)
  /\ interrupts \in BOOLEAN

(* Where the thread is and what it found.                                  *)
GetcharOK ==
  /\ pc = "take" => kbd_buffer_head # kbd_buffer_tail
  /\ interrupts <=> pc # "sti"

Makes == {SHIFT_L, SHIFT_R}

(* With no shift key down, every press of one that is still to be seen is  *)
(* followed by a release, and so is the one the driver has seen last.      *)
ShiftSettles ==
  down = {} =>
    /\ shift_pressed => \E i \in 1..Len(port) : port[i] \in ShiftBreaks
    /\ \A i \in 1..Len(port) :
         port[i] \in Makes => \E j \in 1..Len(port) : j > i /\ port[j] \in ShiftBreaks

KeyboardInv == Typed /\ GetcharOK /\ ShiftSettles

(* What an interrupt of the keyboard does to the ring.                     *)
LEMMA InterruptStores ==
  ASSUME Typed, irq_keyboard
  PROVE  \/ UNCHANGED ring
         \/ \E ch \in 1..255 : HasRoom /\ Store(ch)
<1> DEFINE s == Head(port)
<1>1. s \in Scancodes
  BY DEF Typed, irq_keyboard
<1>2. CASE s < BREAK /\ CharOf(s) # 0 /\ HasRoom /\ Store(CharOf(s))
  <2>1. s \in 0..(BREAK - 1)
    BY <1>1, <1>2 DEF Scancodes, BREAK
  <2>2. CharOf(s) \in 0..255
    BY <2>1, CharOfIs DEF Characters
  <2>3. CharOf(s) \in 1..255
    BY <1>2, <2>2
  <2> QED  BY <1>2, <2>3
<1>3. CASE ~(s < BREAK /\ CharOf(s) # 0 /\ HasRoom /\ Store(CharOf(s)))
  BY <1>3 DEF irq_keyboard, k_handler, Store, ring
<1> QED  BY <1>2, <1>3

(* A character goes to the head, of which the tail stays clear.            *)
LEMMA StoreKeepsRing ==
  ASSUME Typed, NEW ch \in 1..255, HasRoom, Store(ch)
  PROVE  /\ kbd_buffer' \in Rings
         /\ kbd_buffer_head' \in Indices
         /\ kbd_buffer_tail' = kbd_buffer_tail
         /\ kbd_buffer_head' # kbd_buffer_tail
  BY AdvanceIs DEF Typed, Store, HasRoom, Rings

LEMMA InitKeeps == KeyboardInit => KeyboardInv
<1> SUFFICES ASSUME KeyboardInit PROVE KeyboardInv
  OBVIOUS
<1>1. 0 \in Indices
  BY SizeOK DEF Indices
<1>2. Typed
  <2>1. kbd_buffer \in Rings
    BY DEF KeyboardInit, Rings, Indices
  <2>2. port \in Seq(Scancodes)
    BY DEF KeyboardInit
  <2>3. shift_pressed \in BOOLEAN /\ interrupts \in BOOLEAN
    BY Zenon DEF KeyboardInit
  <2> QED  BY <1>1, <2>1, <2>2, <2>3 DEF KeyboardInit, Typed
<1>3. GetcharOK
  BY DEF KeyboardInit, GetcharOK
<1>4. ShiftSettles
  BY DEF KeyboardInit, ShiftSettles
<1> QED  BY <1>2, <1>3, <1>4 DEF KeyboardInv

LEMMA TypedKept == Typed /\ [KeyboardStep]_vars => Typed'
<1> SUFFICES ASSUME Typed, [KeyboardStep]_vars PROVE Typed'
  OBVIOUS
<1> DEFINE Rest == /\ UNCHANGED ring /\ UNCHANGED shift_pressed
                   /\ interrupts' \in BOOLEAN
<1>1. CASE Rest /\ UNCHANGED port
  BY <1>1 DEF Typed, ring
<1>2. ASSUME NEW s \in Scancodes, Sends(s), Rest PROVE Typed'
  BY <1>2 DEF Typed, ring, Sends
<1>3. ASSUME NEW s \in Keys, PressKey(s) \/ ReleaseKey(s) PROVE Typed'
  <2>1. s \in Scancodes /\ s + BREAK \in Scancodes
    BY KeyboardAssumption DEF Scancodes, BREAK
  <2> QED  BY <1>2, <1>3, <2>1 DEF PressKey, ReleaseKey, modifiers, Typed
<1>4. ASSUME NEW s \in Shifts, PressShift(s) \/ ReleaseShift(s) PROVE Typed'
  <2>1. s \in Scancodes /\ s + BREAK \in Scancodes
    BY KeyboardAssumption DEF Scancodes, BREAK, SHIFT_L, SHIFT_R
  <2> QED  BY <1>2, <1>4, <2>1 DEF PressShift, ReleaseShift, modifiers, Typed
<1>5. CASE irq_keyboard
  <2>1. port' \in Seq(Scancodes) /\ interrupts' \in BOOLEAN
    BY <1>5 DEF irq_keyboard, Typed
  <2>2. shift_pressed' \in BOOLEAN
    BY <1>5 DEF irq_keyboard, k_handler, modifiers, Typed
  <2>3. kbd_buffer' \in Rings /\ kbd_buffer_head' \in Indices /\ kbd_buffer_tail' \in Indices
    BY <1>5, InterruptStores, StoreKeepsRing DEF ring, Typed
  <2> QED  BY <2>1, <2>2, <2>3 DEF Typed
<1>6. CASE irq_timer \/ check \/ hlt \/ return
  BY <1>1, <1>6 DEF irq_timer, check, hlt, return, modifiers, Typed
<1>7. CASE take
  BY <1>7, AdvanceIs DEF take, Typed, modifiers
<1>8. CASE UNCHANGED vars
  BY <1>1, <1>8 DEF vars, modifiers, Typed
<1> QED  BY <1>3, <1>4, <1>5, <1>6, <1>7, <1>8 DEF KeyboardStep, getchar

LEMMA GetcharKept == Typed /\ GetcharOK /\ [KeyboardStep]_vars => GetcharOK'
<1> SUFFICES ASSUME Typed, GetcharOK, [KeyboardStep]_vars PROVE GetcharOK'
  OBVIOUS
<1>1. CASE UNCHANGED ring /\ UNCHANGED <<interrupts, pc>>
  BY <1>1 DEF GetcharOK, ring
<1>2. CASE \/ \E s \in Keys : PressKey(s) \/ ReleaseKey(s)
           \/ \E s \in Shifts : PressShift(s) \/ ReleaseShift(s)
           \/ UNCHANGED vars
  BY <1>1, <1>2 DEF PressKey, ReleaseKey, PressShift, ReleaseShift, vars
<1>3. CASE irq_keyboard
  <2>1. pc' = Woken(pc) /\ UNCHANGED interrupts
    BY <1>3 DEF irq_keyboard
  <2>2. kbd_buffer_head # kbd_buffer_tail => kbd_buffer_head' # kbd_buffer_tail'
    BY <1>3, InterruptStores, StoreKeepsRing DEF ring
  <2> QED  BY <2>1, <2>2 DEF GetcharOK, Woken
<1>4. CASE irq_timer
  BY <1>4 DEF irq_timer, GetcharOK, Woken, ring
<1>5. CASE getchar
  BY <1>5 DEF getchar, check, hlt, take, return, GetcharOK, ring
<1> QED  BY <1>2, <1>3, <1>4, <1>5 DEF KeyboardStep

(* A shift key goes down: nothing is claimed until it is up again.  Its    *)
(* release comes last in the port, behind every press.                     *)
LEMMA SettlesKept == Typed /\ ShiftSettles /\ [KeyboardStep]_vars => ShiftSettles'
<1> SUFFICES ASSUME Typed, ShiftSettles, [KeyboardStep]_vars, down' = {} PROVE ShiftSettles'
  BY DEF ShiftSettles
<1>0. port \in Seq(Scancodes)
  BY DEF Typed
<1>1. CASE UNCHANGED <<port, down, shift_pressed>>
  BY <1>1 DEF ShiftSettles
<1>2. ASSUME NEW s \in Keys, PressKey(s) \/ ReleaseKey(s) PROVE ShiftSettles'
  <2>1. PICK code \in {s, s + BREAK} : port' = Append(port, code)
    BY <1>2 DEF PressKey, ReleaseKey, Sends
  <2>2. UNCHANGED <<down, shift_pressed>>
    BY <1>2 DEF PressKey, ReleaseKey, modifiers
  <2>3. code \notin Makes /\ code \notin ShiftBreaks
    BY KeyboardAssumption DEF Makes, ShiftBreaks, BREAK, SHIFT_L, SHIFT_R
  <2>4. /\ Len(port') = Len(port) + 1 /\ port'[Len(port) + 1] = code
        /\ \A i \in 1..Len(port) : port'[i] = port[i]
    BY <1>0, <2>1
  <2> QED  BY <1>0, <2>2, <2>3, <2>4 DEF ShiftSettles
<1>3. ASSUME NEW s \in Shifts, PressShift(s) PROVE ShiftSettles'
  BY <1>3 DEF PressShift
<1>4. ASSUME NEW s \in Shifts, ReleaseShift(s) PROVE ShiftSettles'
  <2>1. port' = Append(port, s + BREAK)
    BY <1>4 DEF ReleaseShift, Sends
  <2>2. s + BREAK \in ShiftBreaks /\ s + BREAK \notin Makes
    BY KeyboardAssumption DEF Makes, ShiftBreaks, BREAK, SHIFT_L, SHIFT_R
  <2>3. /\ Len(port') = Len(port) + 1 /\ port'[Len(port) + 1] = s + BREAK
        /\ \A i \in 1..Len(port) : port'[i] = port[i]
    BY <1>0, <2>1
  <2> QED  BY <1>0, <2>2, <2>3 DEF ShiftSettles
<1>5. CASE irq_keyboard
  <2>1. /\ port # <<>> /\ port' = Tail(port) /\ UNCHANGED down /\ k_handler(Head(port))
    BY <1>5 DEF irq_keyboard
  <2>2. /\ Len(port) > 0 /\ Len(port') = Len(port) - 1 /\ Head(port) = port[1]
        /\ \A i \in 1..Len(port') : port'[i] = port[i + 1]
    BY <1>0, <2>1
  <2>3. /\ Head(port) \in Makes => shift_pressed'
        /\ Head(port) \in ShiftBreaks => ~shift_pressed'
        /\ Head(port) \notin Makes \cup ShiftBreaks => UNCHANGED shift_pressed
    BY <2>1 DEF k_handler, Makes, ShiftBreaks, modifiers, CAPS, SHIFT_L, SHIFT_R, BREAK
  <2>4. shift_pressed' => \E i \in 1..Len(port') : port'[i] \in ShiftBreaks
    <3> SUFFICES ASSUME shift_pressed' PROVE \E i \in 1..Len(port') : port'[i] \in ShiftBreaks
      OBVIOUS
    <3>1. ASSUME Head(port) \in Makes
          PROVE  \E j \in 1..Len(port) : port[j] \in ShiftBreaks /\ j > 1
      BY <1>0, <2>1, <2>2, <3>1 DEF ShiftSettles
    <3>2. ASSUME Head(port) \notin Makes
          PROVE  \E j \in 1..Len(port) : port[j] \in ShiftBreaks /\ j > 1
      <4>1. Head(port) \notin ShiftBreaks /\ shift_pressed
        BY <2>3, <3>2
      <4>2. PICK j \in 1..Len(port) : port[j] \in ShiftBreaks
        BY <2>1, <4>1 DEF ShiftSettles
      <4> QED  BY <1>0, <2>2, <4>1, <4>2
    <3>3. PICK j \in 1..Len(port) : port[j] \in ShiftBreaks /\ j > 1
      BY <3>1, <3>2
    <3>4. j - 1 \in 1..Len(port') /\ port'[j - 1] \in ShiftBreaks
      BY <1>0, <2>2, <3>3
    <3> QED  BY <3>4
  <2>5. ASSUME NEW i \in 1..Len(port'), port'[i] \in Makes
        PROVE  \E j \in 1..Len(port') : j > i /\ port'[j] \in ShiftBreaks
    <3>1. PICK j \in 1..Len(port) : j > i + 1 /\ port[j] \in ShiftBreaks
      BY <1>0, <2>1, <2>2, <2>5 DEF ShiftSettles
    <3>2. j - 1 \in 1..Len(port') /\ j - 1 > i /\ port'[j - 1] \in ShiftBreaks
      BY <1>0, <2>2, <3>1
    <3> QED  BY <3>2
  <2> QED  BY <2>4, <2>5 DEF ShiftSettles
<1>6. CASE irq_timer \/ getchar \/ UNCHANGED vars
  BY <1>1, <1>6 DEF irq_timer, getchar, check, hlt, take, return, modifiers, vars
<1> QED  BY <1>2, <1>3, <1>4, <1>5, <1>6 DEF KeyboardStep

(* KeyboardInv is inductive.                                               *)
THEOREM KeyboardInvariance == KeyboardSpec => []KeyboardInv
<1>1. KeyboardInv /\ [KeyboardStep]_vars => KeyboardInv'
  BY TypedKept, GetcharKept, SettlesKept DEF KeyboardInv
<1> QED  BY InitKeeps, <1>1, PTL DEF KeyboardSpec

(* The processor never halts with the interrupts disabled, and getchar     *)
(* takes a character only when there is one, whatever the interrupts       *)
(* between its test and its hlt brought.                                   *)
THEOREM KeyboardNeverStuck == KeyboardSpec => []NeverStuck
<1>1. KeyboardInv => NeverStuck
  BY CountIs, SizeOK
     DEF KeyboardInv, Typed, GetcharOK, NeverStuck, Count, CountOf, Indices
<1> QED  BY KeyboardInvariance, <1>1, PTL

(* No shift stays on by itself, with whatever scancodes under way.         *)
THEOREM KeyboardNoPhantomShift == KeyboardSpec => []NoPhantomShift
<1>1. KeyboardInv => NoPhantomShift
  BY DEF KeyboardInv, ShiftSettles, NoPhantomShift
<1> QED  BY KeyboardInvariance, <1>1, PTL

-----------------------------------------------------------------------------
(* The refinement.                                                         *)

LEMMA ContentsIsOf == Contents = ContentsOf(kbd_buffer, kbd_buffer_head, kbd_buffer_tail)
  BY DEF Contents, ContentsOf, Count, CountOf

LEMMA ContentsIsOfNext ==
  Contents' = ContentsOf(kbd_buffer', kbd_buffer_head', kbd_buffer_tail')
  BY DEF Contents, ContentsOf, Count, CountOf

LEMMA InitRefines == KeyboardInit => Queue!Init
<1> SUFFICES ASSUME KeyboardInit PROVE Contents = <<>> /\ c = 0
  BY DEF Queue!Init
<1>1. 0 \in Indices
  BY SizeOK DEF Indices
<1>2. CountOf(0, 0) = 0
  BY <1>1, CountIs
<1>3. Contents = ContentsOf(kbd_buffer, 0, 0)
  BY ContentsIsOf DEF KeyboardInit
<1> QED  BY <1>2, <1>3 DEF KeyboardInit, ContentsOf

(* A character stored is a character typed.                                *)
LEMMA StoreRefines ==
  ASSUME Typed, NEW ch \in 1..255, HasRoom, Store(ch), UNCHANGED c
  PROVE  Queue!Next
<1> DEFINE h == kbd_buffer_head
           t == kbd_buffer_tail
<1>1. /\ kbd_buffer \in Rings /\ h \in Indices /\ t \in Indices /\ ch \in Int
      /\ Advance(h) # t
  BY DEF Typed, HasRoom
<1>2. /\ kbd_buffer' = [kbd_buffer EXCEPT ![h] = ch]
      /\ kbd_buffer_head' = Advance(h) /\ kbd_buffer_tail' = t
  BY DEF Store
<1>3. Contents' = Append(Contents, ch)
  BY <1>1, <1>2, StoreAppends, ContentsIsOf, ContentsIsOfNext
<1>4. Len(Contents) < KBD_BUFFER_SIZE - 1
  BY <1>1, StoreAppends, ContentsIs, ContentsIsOf
<1>5. Queue!Type(ch)
  BY <1>3, <1>4 DEF Queue!Type
<1> QED  BY <1>5 DEF Queue!Next

LEMMA TakeRefines ==
  ASSUME Typed, GetcharOK, take
  PROVE  Queue!Next
<1> DEFINE h == kbd_buffer_head
           t == kbd_buffer_tail
<1>1. kbd_buffer \in Rings /\ h \in Indices /\ t \in Indices /\ h # t
  BY DEF Typed, GetcharOK, take
<1>2. /\ UNCHANGED <<kbd_buffer, kbd_buffer_head>> /\ kbd_buffer_tail' = Advance(t)
      /\ c' = kbd_buffer[t]
  BY DEF take
<1>3. Contents' = ContentsOf(kbd_buffer, h, Advance(t))
  BY <1>2, ContentsIsOfNext
<1>4. Contents # <<>> /\ c' = Head(Contents) /\ Contents' = Tail(Contents)
  BY <1>1, <1>2, <1>3, TakeIsHead, ContentsIsOf
<1>5. Queue!Read
  BY <1>4 DEF Queue!Read
<1> QED  BY <1>5 DEF Queue!Next

(* The ring and getchar implement the bounded queue, for every size of the *)
(* ring: characters come out in the order they went in, and one is lost    *)
(* only when all slots but one are taken.                                  *)
THEOREM KeyboardRefinesQueue == KeyboardSpec => ImplementsQueue
<1>1. KeyboardInv /\ [KeyboardStep]_vars => [Queue!Next]_<<Contents, c>>
  <2> SUFFICES ASSUME KeyboardInv, [KeyboardStep]_vars
               PROVE  Queue!Next \/ UNCHANGED <<Contents, c>>
    OBVIOUS
  <2>1. Typed /\ GetcharOK
    BY DEF KeyboardInv
  <2>2. CASE UNCHANGED ring /\ UNCHANGED c
    BY <2>2, ContentsIsOf, ContentsIsOfNext DEF ring
  <2>3. CASE irq_keyboard
    <3>1. UNCHANGED c
      BY <2>3 DEF irq_keyboard
    <3> QED  BY <2>1, <2>2, <2>3, <3>1, InterruptStores, StoreRefines
  <2>4. CASE take
    BY <2>1, <2>4, TakeRefines
  <2>5. CASE \/ \E s \in Keys : PressKey(s) \/ ReleaseKey(s)
             \/ \E s \in Shifts : PressShift(s) \/ ReleaseShift(s)
             \/ irq_timer \/ check \/ hlt \/ return \/ UNCHANGED vars
    BY <2>2, <2>5
       DEF PressKey, ReleaseKey, PressShift, ReleaseShift, irq_timer, check, hlt, return, vars
  <2> QED  BY <2>3, <2>4, <2>5 DEF KeyboardStep, getchar
<1> QED  BY InitRefines, KeyboardInvariance, <1>1, PTL DEF KeyboardSpec, ImplementsQueue, Queue!Spec
=============================================================================
