------------------------------ MODULE Keyboard ------------------------------
(***************************************************************************)
(* The PS/2 keyboard driver of sys/drivers/keyboard/keyboard.c with the    *)
(* part of sys/arch/amd64/idt.c it runs under: an interrupt handler puts   *)
(* characters into a ring buffer and getchar, called over and over by the  *)
(* shell, takes them out, halting the processor while there is none.       *)
(*                                                                         *)
(* Three actors interleave: the user's keys, the interrupts, which the     *)
(* processor takes between two instructions when they are enabled, and the *)
(* one thread of the kernel, at the instructions of getchar.  Handlers run *)
(* with interrupts disabled, so one interrupt is one action.               *)
(***************************************************************************)
EXTENDS Integers, Sequences

CONSTANTS
  KBD_BUFFER_SIZE,   \* 256 in the build
  Keys,              \* scancodes of the keys the user types, shifts apart
  Shifts,            \* scancodes of the shift keys the user has
  MaxPending         \* bound: scancodes the keyboard controller holds

CAPS == 58           \* 0x3A
SHIFT_L == 42        \* 0x2A
SHIFT_R == 54        \* 0x36
BREAK == 128         \* added to a scancode when the key goes up

ASSUME KeyboardAssumption ==
  /\ KBD_BUFFER_SIZE \in Nat \ {0}
  /\ Keys \subseteq (0..(BREAK - 1)) \ {SHIFT_L, SHIFT_R}
  /\ Shifts \subseteq {SHIFT_L, SHIFT_R}
  /\ MaxPending \in Nat \ {0}

VARIABLES
  kbd_buffer, kbd_buffer_head, kbd_buffer_tail,
  shift_pressed, caps_lock,
  port,              \* scancodes in the controller, oldest first
  down,              \* the shift keys held down
  interrupts,        \* the interrupt flag of the processor
  pc,                \* where the thread is in getchar
  c                  \* the character getchar returns

ring == <<kbd_buffer, kbd_buffer_head, kbd_buffer_tail>>
modifiers == <<shift_pressed, caps_lock>>
vars == <<ring, modifiers, port, down, interrupts, pc, c>>

-----------------------------------------------------------------------------
(* The two maps from scancodes to characters: the keys with characters of  *)
(* the first rows, as far as Keys explores them, and 0 for any other key.  *)
Map(chars) == [s \in 0..(BREAK - 1) |->
                 IF \E k \in chars : k[1] = s
                 THEN (CHOOSE k \in chars : k[1] = s)[2] ELSE 0]

kbd_us ==       Map({<<2, 49>>, <<30, 97>>, <<44, 122>>, <<57, 32>>, <<73, 45>>})
kbd_us_shift == Map({<<2, 33>>, <<30, 65>>, <<44, 90>>,  <<57, 32>>, <<73, 45>>})

Lower == 97..122
Upper == 65..90

k_adjust_case(ch) ==
  IF caps_lock /\ ~shift_pressed /\ ch \in Lower THEN ch - 32
  ELSE IF caps_lock /\ shift_pressed /\ ch \in Upper THEN ch + 32
  ELSE ch

CharOf(scancode) ==
  k_adjust_case(IF shift_pressed THEN kbd_us_shift[scancode] ELSE kbd_us[scancode])

Advance(i) == (i + 1) % KBD_BUFFER_SIZE

(* Faulty variant: no room is kept between the head and the tail.          *)
HasRoomAlways == TRUE

HasRoom == Advance(kbd_buffer_head) # kbd_buffer_tail

Store(ch) ==
  IF ch # 0 /\ HasRoom
  THEN /\ kbd_buffer' = [kbd_buffer EXCEPT ![kbd_buffer_head] = ch]
       /\ kbd_buffer_head' = Advance(kbd_buffer_head)
       /\ UNCHANGED kbd_buffer_tail
  ELSE UNCHANGED ring

(* Faulty variant: the release of the right shift key is not handled.      *)
ShiftBreaksLeft == {SHIFT_L + BREAK}

ShiftBreaks == {SHIFT_L + BREAK, SHIFT_R + BREAK}

k_handler(scancode) ==
  \/ /\ scancode = CAPS
     /\ caps_lock' = ~caps_lock
     /\ UNCHANGED <<ring, shift_pressed>>
  \/ /\ scancode \in {SHIFT_L, SHIFT_R}
     /\ shift_pressed' = TRUE
     /\ UNCHANGED <<ring, caps_lock>>
  \/ /\ scancode \in ShiftBreaks
     /\ shift_pressed' = FALSE
     /\ UNCHANGED <<ring, caps_lock>>
  \/ /\ scancode \notin {CAPS, SHIFT_L, SHIFT_R} \cup ShiftBreaks
     /\ IF scancode < BREAK THEN Store(CharOf(scancode)) ELSE UNCHANGED ring
     /\ UNCHANGED modifiers

-----------------------------------------------------------------------------
(* The user and the controller (external).  A held key repeats.            *)
Sends(scancode) == Len(port) < MaxPending /\ port' = Append(port, scancode)

PressKey(s) ==
  /\ Sends(s)
  /\ UNCHANGED <<ring, modifiers, down, interrupts, pc, c>>

PressShift(s) ==
  /\ Sends(s)
  /\ down' = down \cup {s}
  /\ UNCHANGED <<ring, modifiers, interrupts, pc, c>>

ReleaseShift(s) ==
  /\ s \in down
  /\ Sends(s + BREAK)
  /\ down' = down \ {s}
  /\ UNCHANGED <<ring, modifiers, interrupts, pc, c>>

ReleaseKey(s) ==
  /\ Sends(s + BREAK)
  /\ UNCHANGED <<ring, modifiers, down, interrupts, pc, c>>

(* An interrupt ends a halt: the thread goes on after the hlt.             *)
Woken(at) == IF at = "halted" THEN "check" ELSE at

(* IRQ 1: irq_handler calls k_handler and acknowledges the interrupt.      *)
irq_keyboard ==
  /\ interrupts
  /\ port # <<>>
  /\ k_handler(Head(port))
  /\ port' = Tail(port)
  /\ pc' = Woken(pc)
  /\ UNCHANGED <<down, interrupts, c>>

(* Faulty variant: the timer interrupt is masked.                          *)
irq_timer_masked == FALSE /\ UNCHANGED vars

(* IRQ 0: no handler is registered for the timer and irq_handler only      *)
(* acknowledges it; what is left of it is that it ends a halt.             *)
irq_timer ==
  /\ interrupts
  /\ pc # Woken(pc)
  /\ pc' = Woken(pc)
  /\ UNCHANGED <<ring, modifiers, port, down, interrupts, c>>

-----------------------------------------------------------------------------
(* getchar.                                                                *)

(* The test of the loop.  An interrupt may come between it and the hlt:    *)
(* the character it brings does not prevent the halt.                      *)
check ==
  /\ pc = "check"
  /\ pc' = IF kbd_buffer_head = kbd_buffer_tail THEN "hlt" ELSE "take"
  /\ UNCHANGED <<ring, modifiers, port, down, interrupts, c>>

(* sti; hlt: the processor takes no interrupt between the two.             *)
hlt ==
  /\ pc = "hlt"
  /\ interrupts' = TRUE
  /\ pc' = "halted"
  /\ UNCHANGED <<ring, modifiers, port, down, c>>

(* From cli to the advance of the tail: nothing interrupts it.             *)
take ==
  /\ pc = "take"
  /\ interrupts' = FALSE
  /\ c' = kbd_buffer[kbd_buffer_tail]
  /\ kbd_buffer_tail' = Advance(kbd_buffer_tail)
  /\ pc' = "sti"
  /\ UNCHANGED <<kbd_buffer, kbd_buffer_head, modifiers, port, down>>

(* Faulty variant: interrupts are left disabled.                           *)
return_no_sti ==
  /\ pc = "sti"
  /\ pc' = "check"
  /\ UNCHANGED <<ring, modifiers, port, down, interrupts, c>>

(* sti and the return; the caller calls again.                             *)
return ==
  /\ pc = "sti"
  /\ interrupts' = TRUE
  /\ pc' = "check"
  /\ UNCHANGED <<ring, modifiers, port, down, c>>

getchar == check \/ hlt \/ take \/ return

-----------------------------------------------------------------------------
(* start_kernel enables the interrupts before it calls the shell.          *)
KeyboardInit ==
  /\ kbd_buffer = [i \in 0..(KBD_BUFFER_SIZE - 1) |-> 0]
  /\ kbd_buffer_head = 0
  /\ kbd_buffer_tail = 0
  /\ shift_pressed = FALSE
  /\ caps_lock = FALSE
  /\ port = <<>>
  /\ down = {}
  /\ interrupts = TRUE
  /\ pc = "check"
  /\ c = 0

KeyboardStep ==
  \/ \E s \in Keys : PressKey(s) \/ ReleaseKey(s)
  \/ \E s \in Shifts : PressShift(s) \/ ReleaseShift(s)
  \/ irq_keyboard
  \/ irq_timer
  \/ getchar

KeyboardSpec == KeyboardInit /\ [][KeyboardStep]_vars

(* The processor executes the thread, and takes a pending interrupt soon   *)
(* after it has enabled them; the timer ticks for ever.                    *)
Fairness == WF_vars(getchar) /\ SF_vars(irq_keyboard) /\ WF_vars(irq_timer)

FairSpec == KeyboardSpec /\ Fairness

-----------------------------------------------------------------------------
(* Properties.                                                             *)

Indices == 0..(KBD_BUFFER_SIZE - 1)

Count == (kbd_buffer_head - kbd_buffer_tail + KBD_BUFFER_SIZE) % KBD_BUFFER_SIZE

(* getchar takes a character only when there is one, and interrupts are    *)
(* disabled only between its cli and its sti: the processor never halts    *)
(* with them disabled, which nothing would end.                            *)
NeverStuck ==
  /\ pc = "take" => Count > 0
  /\ ~interrupts <=> pc = "sti"

(* What waits in the ring, oldest first.                                   *)
Contents ==
  [i \in 1..Count |-> kbd_buffer[(kbd_buffer_tail + i - 1) % KBD_BUFFER_SIZE]]

(* The ring and getchar implement the bounded queue: a ring of n slots     *)
(* holds n - 1 characters, in order, and drops the newest when it is full. *)
Queue == INSTANCE KeyQueue
  WITH Capacity <- KBD_BUFFER_SIZE - 1, Chars <- 1..255,
       waiting <- Contents, got <- c

ImplementsQueue == Queue!Spec

(* No shift stays on by itself: when no shift key is held and the driver   *)
(* has seen all that the keyboard sent, shift_pressed is off.              *)
NoPhantomShift == port = <<>> /\ down = {} => ~shift_pressed

(* Every character in the ring is read: no halt lasts for ever while one   *)
(* waits, even one that came between the test and the hlt.                 *)
CharactersAreRead ==
  \A i \in Indices : (kbd_buffer_tail = i /\ Count > 0) ~> kbd_buffer_tail # i
=============================================================================
