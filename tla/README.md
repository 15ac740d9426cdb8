# Wind/Tempest: a verification development

Wind/Tempest is a single-tasking amd64 kernel in C. This directory holds TLA+
models of its core logic, TLC configurations that check them on small
instances, and theorems that TLAPS proves for every value of the constants:
all but a few of the properties the runs check are theorems too. All line
numbers are of the repository at the commit the models were written against.

To check: `tlc -config X.cfg M` for the pairs in the table of runs,
`tlapm M.tla` for the eight modules whose names end in `Proofs`.

## 1. The system

`start_kernel` (`sys/kern/init/main.c:30`) sets up the interrupt table, the
serial port, the boot information, the video, the memory, the pools, the block
device, the file system, and the keyboard, in this order; enables interrupts;
and calls `kshell`, which never returns. From then on there is one thread,
which reads characters, runs commands to their end, and is interrupted by the
keyboard and the timer only. There are no processes, no locks, and nothing is
ever written to disk. So what is concurrent is the keyboard with its reader,
the hardware with whoever polls it, and nothing else; everywhere else a call
is atomic, and what makes the code hard is long sequences of calls, failures in
the middle of one, and the limits of buffers and of the heap.

| component | state | operations | who it talks to | what is hard | what makes it correct |
|---|---|---|---|---|---|
| kernel heap, `memory.c` | doubly linked list of headers in the heap itself, `heap_used` | kmalloc, kcalloc, krealloc, kfree, (heap_defrag) | ext2, pools | split and two merges rewrite sizes and links separately; exhaustion; double frees | the list tiles the heap, is coalesced, accounts for what callers hold; regions never overlap |
| page frames, `memory.c` | array of frames, free list through it, two counters | kmemory_init, allocate_page_frame, free_page_frame | virtual memory | unsigned reference counts, releases of frames nobody got | list, marks, counts and counters agree |
| virtual memory, `memory.c` | page tables on four levels, the table in use, the translations the processor caches | vm_map_page, vm_unmap_page, vm_switch_pagetable, a temporary area | page frames | tables of the boot that appear twice and have large pages, half-made tables when frames run out, cached translations, releases of whatever is found mapped | tables are trees of frames nobody else has, but for what the boot links twice; a call changes the mapping it was asked to; cached translations are dropped with what they show, but for the twins of the boot's two halves |
| memory pools, `memory_pool.c` | per pool: a descriptor, memory, array of free blocks, each a heap block | pool_create/destroy/alloc/free, smart_alloc/free | heap | creation that fails halfway, releases into the wrong pool or twice | blocks are conserved, loans are apart, nothing leaks |
| keyboard, `keyboard.c` | ring buffer, shift and caps flags | k_handler (interrupt), getchar | shell, interrupts | interrupt between test and halt; full ring | a bounded queue; no character waits for ever |
| interrupts, `idt.c`, `*.asm` | handler table, interrupt flag | irq_handler, isr_handler | keyboard, panic | error codes on the stack, acknowledging | no return from an exception |
| shell, `shell.c` | line buffer, overflow flag, history, command table | a character typed; the commands | keyboard, video, VFS, ext2, panic, clock | overflow then erase; cutting the line in place | what runs is what was typed |
| video, `video.c` | framebuffer, cursor, colours | v_putchar, v_clear, shapes | shell, panic | wrapping, erasing over an edge, clearing mid-line | the screen shows the line |
| ext2, `ext2.c` | superblock, group descriptors, open file position | mount, open, list, read | ATA, heap, VFS | faults in the middle of any walk; indirect blocks; inodes that span blocks | the file is what is read; a fault is never taken for data or absence |
| VFS, `vfs.c` | working directory | normalize, resolve, chdir | ext2, shell | text and disk are two accounts of one tree; buffers | the working directory is a directory, in normal form |
| boot, `main.c`, `mb.c`, `boot.asm` | information tags, framebuffer | walks over the tags | all | order, missing or empty tags | boot ends in the shell, a panic or a halt |
| panic, `panic.c` | a flag nobody reads, buffers on the stack | p_main, p_dump_registers | serial, video, sleep, reboot | faults while panicking, digits in buffers nobody cleared | final, counts the seconds left, prints its numbers before anything else its buffers hold, and ends in a reboot |
| serial port, `serial.c` | registers of the UART | init, write, writes | panic, debug | a probe with side effects | what is sent is sent at the rate set |
| clock, sleep, reboot: `ktime.c`, `ksleep.c`, `acpi.c` | real time clock, HPET | kget_bios_time, ksleep, reboot | shell, panic | registers read one at a time; BCD, 12 and 24 hours | the time shown was the time |
| ATA, `ata.c` | registers of the drive | PIO read, a sector at a time | ext2 | no limit on a wait; half a read | a mount is complete or says that it failed; nothing but the drive can hold up the boot |
| formatted output, `kprint.c`, `debug.c` | none | kvsnprintf, ksnprintf, kprintf, d_printf, d_dbgtype | all | three readings of the directives; widths, limits, the null | what is asked for is printed, cut only at the end |
| strings and conversions, `kstring`, `kstdlib` | none (kstrtok: where it stopped) | copies, comparisons, searches, tokens; kitoa, kutoa, katoi, kstrtol | all | overlaps, parts of words, limits of the integers | agree with the functions of their names |
| `kmath` | none | floating point | nobody | | |

## 2. Modules

| module | models | notes on state and actions |
|---|---|---|
| `HeapBlocks` | `memory.c:379-494` | the list of blocks: `hdr` maps the address of each header on the list to its fields; the walk, the split and the merges are operators on such maps. |
| `Heap`, `MCHeap` | the calls on `HeapBlocks` | `held` is what callers hold. An action is one call. Addresses count granules of 8 bytes, the alignment of line 399, so rounding is exact. |
| `Allocator` | (abstract) | regions of a range, granted, returned, exchanged. |
| `PageFrames` | `memory.c:118-190` | the free list is a sequence; a frame is its index. |
| `Paging`, `MCPaging` | `memory.c:192-371`, the page tables, and those `boot.asm:41-97` makes | extends `PageFrames`. `vm_init` starts from the tables of the boot: `PML4[0]` and `PML4[256]` link one PML3, whose PML2s hold large pages (`Large`). A step is what `vm_map_page` or `vm_unmap_page` does at one level; `call` is the call in progress with the pages it still has to do. `table` maps the frame of each table to its entries, `tlb` is the one translation the processor has cached (it caches and forgets when it likes). A call ends `Lost` where it walks a large page as a table (`walk_large_page`) or where an access through `KERNEL_BASE` faults (`access_faults`): nothing is said of what follows. |
| `MemoryPools`, `MCMemoryPools` | `memory_pool.c` | on `HeapBlocks`, as `Heap` is: `Malloc` and `Free` are its calls as functions of the memory, since one call of the pools makes several of them. `heap_used` is left out, nothing there reads it. |
| `Keyboard` | `keyboard.c`, `irq_handler` | the user, the interrupts and the instructions of `getchar` (`pc`) interleave. `check`, `hlt`, `take` and `return` are separated where an interrupt can come between; from `cli` to the update of the tail nothing can. Head and tail are not volatile, but every access is on the other side of a volatile `asm` or a call, so the build reloads them. |
| `KeyQueue` | (abstract) | a bounded queue that drops the newest. |
| `Characters` | `kctype.c` | the classes of characters, by ASCII code. |
| `Numbers` | `kitoa`, `kutoa`, `katoi`, `kstrtol` | numbers of the widths of `int` and `long`; a text is the characters stored. |
| `Strings` | `sys/lib/kstring`, `kstrlen`, `kstrnlen` | a memory maps addresses to bytes; `kmemcpy` and `kmemset` go byte, word, byte as in the code. |
| `Format` | `kprint.c`, `d_printf`, `d_dbgtype` | a format is cut into directives and the characters between; each printer has its own reading of them. |
| `Shell` | `shell.c:111-196` | a step is one character that `getchar` returns. `Record` keeps only the first word of a line, as `handle_command` has cut it when it is copied; a comment at `shell.c:86` promises the commands. |
| `Screen` | `video.c` | operators on a cursor, the colour and the glyphs drawn. Glyphs drawn in one place are both seen: `v_draw_glyph_at` paints only set pixels. |
| `Terminal`, `MCTerminal` | `Shell`, `Screen` and `Format` together | the steps of `Shell` with their echo and the output of `help`, `clear`, `echo`, `history`, unknown commands and overlong lines. |
| `Ata` | `ata.c` | a read is the sequence of sectors that arrived, and whether it succeeded; a drive reads, fails at some sectors, is absent, or stays busy. |
| `Mount` | `ext2_mount` | on `Ata`: the superblock, its checks, the place and length of the table of group descriptors, and its read. |
| `Ext2` | `ext2.c`: kread_inode, open, list | an inode on disk is a run of units, so one that spans two blocks can be cut wrongly. One command may meet one kind of fault: a failing directory or table block, or no room in the heap. Each buffer is freed before the next is asked for, so in one command all or none of them fit. |
| `Vfs` | `vfs.c` | paths are sequences of characters; buffers are constants, and paths are put together by `ksnprintf` of `Format`. |
| `Files`, `MCFiles` | `shell.c`: cd, ls, cat (until it reads), fsize, over `Vfs` and `Ext2` | `Boot` is every outcome of the mount, which the kernel only logs before it starts the shell. `DivideError` and `CommandAstray` are what the commands do after a failed mount. |
| `Ext2File` | `ext2.c`: kget_file_block, ext2_read | a block of the disk is named by the path of pointer indices that leads to it, so that misplaced data and missing data differ. |
| `Serial` | `serial.c` | operators on the UART: its divisor, and what it sends at which divisor. |
| `Panic` | `panic.c`: codes, messages and buffers | what a buffer holds is known up to the garbage it began with; a message is a constant text or the digits in a buffer. |
| `Kernel`, `MCKernel` | `main.c`, `mb.c`, the walk of `kmemory_init`, `isr_handler`, `p_main`, `ksleep.c`, `acpi.c`, callers of `d_dbgtype` | a step is a step of `start_kernel`, a tag of a walk, or a call that `p_main` makes. A message of the panic screen stands for several calls. |
| `Clock` | `ktime.c` | one step reads one register, and the clock goes on meanwhile. |
| `HeapBlocksProofs` | | lemmas on lists of blocks, for `HeapProofs` and `MemoryPoolsProofs`. |
| `HeapProofs`, `MemoryPoolsProofs`, `PagingProofs` (with `PageFrames`), `ShellProofs` (with `Terminal`, `Screen`, `Format`), `FilesProofs` (with `Vfs`, `Ext2`), `Ext2FileProofs`, `KernelProofs` (with `Mount`, `Ata`, `Keyboard`) | | theorems about the modules of their names. `FilesProofs` extends `ShellProofs` for its lemmas on formats and folds. |

How they compose: `Heap` and `MemoryPools` extend `HeapBlocks`; `Heap` implements
`Allocator`; `Keyboard` implements `KeyQueue`; `Paging` extends `PageFrames`,
whose invariants it must keep with callers of its own; `Terminal` extends
`Shell`, `Screen` and `Format`; `Files` extends `Vfs`, which extends `Ext2` and
`Format`; `Ext2` extends `Strings` and `Mount`, and `Mount` extends `Ata`; `Kernel`
extends `Panic`, `Mount` and `Serial`, so that the boot mounts the disk of the
module `Mount`. The heap appears in `Ext2` and `Ext2File` only as room or no
room, and the disk there only as blocks that can or cannot be read: that a read
of several sectors fails as a whole is what `Ata` has.

Operators with the comment "Faulty variant" or "A bug to compare with" are
plausible slips in the operator that follows them. No specification uses
them; they show that the properties below can be broken by a mistake in the
code.

## 3. Runs

The type invariants are left to the proofs where there are some (`TypeOK` of
`Heap` and `PageFrames`, and the parts of the inductive invariants of the other
proof modules that say so); the runs state what goes beyond types.

| run | module, cfg | checks | bounds |
|---|---|---|---|
| heap | `MCHeap`, `Heap.cfg` | HeapWellFormed, HeapCoalesced, HeldIsAllocated, UsedIsSum, AllFreedIsInitial, ImplementsAllocator | 18 units of 32 bytes, header 1 and threshold 2 as in the build (32 and 64 bytes), requests of 0, 1, 3 and 5: up to six blocks, so that a release has free and used neighbours on both sides, requests on both sides of the split threshold, exhaustion and moves by krealloc all happen |
| paging | `MCPaging`, `Paging.cfg` | FreeListExact, CountersExact, InUseStays, TablesApart, OnlyAskedChanges, CacheStaysFresh | tables of 3 entries, of which a PML4 has two doubled, and one PML2 of large pages; five pages: two of a temporary area that share their tables, two twins in the doubled halves with a PML2 of their own, and one in a large page; 8 frames, 5 of the kernel, two of which are roots, two the tables of the boot and one of which may be mapped and released; 2 devices; each kernel frame released at most once. A page outside the large pages takes two or three new tables, so that with 3 free frames calls run out of them at every level, also half-way (492,196 states). The pages of the area have one PML1: that the second fails for want of frames after the first was mapped needs more frames than TLC can take here, and is left to the proof |
| memory_pools | `MCMemoryPools`, `MemoryPools.cfg` | PoolConserved, LoansApart, NoHeapLeak, LoansFit | the three predefined pools and two more on 42 granules, requests of 0 to 4: each of the three allocations of `pool_create` fails in some state; every address of the heap is offered to `pool_free` |
| keyboard | `Keyboard` | NeverStuck, NoPhantomShift, ImplementsQueue, CharactersAreRead | a ring of 3, which fills, wraps and drops; a letter, caps lock and both shift keys; two scancodes under way |
| ext2_file | `Ext2File` | MapIsTree, ReadsTheFile, NoMisplacedData, PosIsDelivered | blocks of 2 pointers and 1 direct one: 15 blocks over all four kinds of pointers, and a size beyond them; pieces of 3 and of 40; each pointer null, each block unreadable, 0, 1 or 2 buffers left |
| files | `MCFiles`, `Files.cfg` | CwdIsDirectory, ReadsTheInode, NormalKeepsTarget, ListingAgrees, FaultNotMisread, StringsAgree | a disk of six inodes in two groups, with deleted, empty and overlong entries, null pointers and an inode over a block's edge; commands with arguments up to the limit of 8, and text compared with disk for all paths of up to five characters over `/`, `.` and a letter; words of 4 bytes |
| terminal | `MCTerminal`, `Terminal.cfg` | LineIsTyped, ScreenShowsLine, RunsWhatWasTyped, PrintsAsAsked, ReadsNumbers | a line of 4, five characters typed, a history of 1, on a screen of 3 by 3 glyphs: lines overflow and are shortened again, wrap, and are cleared from under the editor (1,740,216 states). The texts are cut to one character each: a longer prompt moves where a row ends, which short lines at every column explore as well. The printers have a field of 5 characters (31 in the build), `int` 7 bits and `long` 9, so that every number of twice their range is printed and read |
| kernel | `MCKernel`, `Kernel.cfg` | MountReadsDisk, ReportShowsNumbers, PanicIsFinal, CrashReboots, BootDecides | information of up to three tags, with and without a map, framebuffer, end, empty tag; a present or absent UART; a drive absent, busy or with a bad sector in the superblock, in either sector of the table of descriptors or elsewhere; blocks of 1 to 8 KiB, 0, 1 and 33 groups, a wrong magic and a group of no blocks; a timer that counts, stands or is not there; a controller that resets or does not; two seconds to the reboot; buffers of 5 and 8 with digits or nulls left in them; a panic within a panic (537,411 states) |
| ext2_zeros | `Ext2File`, `Ext2Zeros.cfg` | ZeroOnlyForHoles: violated | as ext2_file |
| cd_goes_there | `MCFiles`, `CdGoesThere.cfg` | CdGoesThere: violated | as files |
| serial_rate | `MCKernel`, `SerialRate.cfg` | SentAt38400: violated | as kernel |
| time_shown | `Clock`, `TimeShown.cfg` | TimeIsCurrent: violated | minutes of 2 seconds, hours of 2 minutes, 2 days of 24 hours |

What they show beyond their names:

- **heap**: no sequence of calls damages the list or leaves fragments behind
  when all is freed, and a second `kfree` is harmless while its header is on
  the list. (When it has been merged away, the code reads memory that has
  become payload; callers that do this are outside the model.)
- **paging**: the tables a failed `vm_map_page` leaves behind are found by the
  next call and used; nothing is linked twice but what `boot.asm` links twice.
  There, a call for a page changes its twin in the other half too, and
  `vm_invalidate_page` (`memory.c:277`) forgets only the page it is given: a
  cached translation of the twin stays, out of date. `OnlyAskedChanges` and
  `CacheStaysFresh` say that this is all that goes beyond what was asked, and
  that elsewhere nothing does. Large pages (the first 4 GiB of both halves) are
  neither split nor made; a call for a page in one ends lost. Releasing a kernel
  frame that nobody allocated takes its count below zero, which keeps it off the
  free list. The invariants of `PageFrames` are checked here with its strictest
  caller rather than in a run of their own.
- **keyboard**: a character that comes between the test of `getchar` and its
  halt waits, but only for the next timer tick.
- **terminal**: the overflow flag survives backspaces, so no line that lost
  characters runs. `PrintsAsAsked` compares `kvsnprintf`, `kprintf` and
  `d_printf` with what the directive asks for, for each width, number and buffer
  size, and with each other; `ReadsNumbers` compares `katoi` and `kstrtol` with
  the number of the text.
- **files**: `StringsAgree` compares the byte and word loops of `kmemcpy` and
  `kmemset`, also over areas that overlap, and the string functions with
  sequences; the tokens of a path come out right although `kstrtok` writes into
  it. `ListingAgrees` asks that what `ls` shows can be opened only where the
  path with the name in it is not too long for `ext2_open`: a name that is
  shown may be too long to get at from the root.
- **kernel**: a mount works exactly when the disk is one it can use and every
  sector it needs can be read, and then has every descriptor of every group;
  one that failed is reported; and only a drive that stays busy keeps
  the boot waiting (`MountIsComplete` says so of every mount, and `BootDecides` of
  the one that is waited for). Whatever faults in `p_main`, it does not return to the code
  that crashed, and the seconds it counts are the seconds left. Of the error
  code and the registers `ReportShowsNumbers` says only that their digits come
  first, and `PanicIsFinal` allows that panics within panics use up the stack:
  what the comment at `panic.c:89` promises is not what the code does (§5). `CrashReboots`
  needs a framebuffer within the 4 GiB that `boot.asm` maps, a timer that counts
  and a controller that resets; the run also explores the machines without
  them, where the panic recurses until the stack is used up, waits for ever, or
  halts.

`StringsAgree`, `PrintsAsAsked` and `ReadsNumbers` are about functions and no
state: they are evaluated in the initial states of the runs that use these
functions.

Deadlock is checked in every run but the two of `Kernel`, where a halted
processor is a legitimate end. `Clock`, whose clock stops at a bound, always has
the next call to `kget_bios_time`.

### Fairness

- `Keyboard`, `FairSpec`: weak fairness of `getchar` (the processor executes
  the thread), strong fairness of `irq_keyboard` (interrupts go off and on
  with each character taken; a pending one is delivered right after an `sti`),
  weak fairness of `irq_timer` (the timer interrupt is unmasked in `idt_init`
  and ticks for ever). Nothing is assumed of the user.
- `Kernel`, `Spec`: weak fairness of the processor and of the transmitter of
  the UART, which empties unless it is absent. Nothing is assumed of commands
  or exceptions.

### Assumptions on the constants

`LayoutAssumption` and `RequestAssumption` (a heap longer than a header;
requests, with their header, that do not wrap around `ksize_t`),
`FrameAssumption` (a reference count wide enough for the bound on foreign
releases), `PagingAssumption` (a page has four indexes, devices are no frames,
the tables of the boot are frames of the kernel, each another, and fill the first
entries of the PML3), `PoolAssumption` (the sizes pools
are asked for, and the products `pool_create` forms, do not wrap around either),
`KeyboardAssumption`, `AtaAssumption`, `Ext2Assumption`,
`StringAssumption`, `NumberAssumption` (an `int` is no wider than a `long`),
`FormatAssumption`, `VfsAssumption`, `ShellAssumption`, `ScreenAssumption`,
`TerminalAssumption`, `MountAssumption` (the two numbers the code adds in 32 bits do not wrap
around), `PanicAssumption` (at most nine seconds to the reboot: the
countdown writes over the digits of the second before, and is right only
while all seconds have as many digits), `KernelAssumption`. `ScreenAssumption`
is worth a remark: the framebuffer is a whole number of glyphs wide, as the
1024 by 768 pixels asked for in `boot.asm` and `limine.conf`; on another width a
backspace over the edge of a row would go to a place where no glyph was drawn.

Four say what the disk and the texts are, and TLC evaluates them on those of the
runs. `ArgsAssumption`: arguments are sequences of characters. `DiskAssumption`: the
root is a directory, entries are of inodes on the disk or of none, and names
have no slash. `TreeAssumption`: the root is its own "..", a directory has itself
under ".", and what it holds under any other name has it under "..". The last
two are what mkfs makes of a disk and the kernel, which only reads, leaves so;
`TreeAssumption` is used by `NormalKeepsItsTarget` alone, which is false of a disk
with another "..": the text of a path is all that `vfs_normalize_path` looks at.
`TextAssumption`: the formats of the shell take the arguments they are given, what
it prints has no carriage return, the prompt is drawn as it is, and the numbers
of the entries of the history have digits and are ints. It is what the constant
texts in `shell.c` satisfy, of the four commands modelled here. Of the other
twelve, `cat` prints the bytes of a file as they are (`shell.c:407`), carriage
returns included: it may leave glyphs behind the cursor, which the prompt, on
its new line, does not touch.

`Paging` rests on more, built into its actions:

- `KERNEL_BASE`, through which `vm_*` reach every table below the PML4, lies in
  an entry that `boot.asm` does not fill, and nothing in the kernel calls `vm_*`
  yet. As built, the first access faults; the model lets every access fault or
  reach the table, so that what it says of tables further down is about a
  kernel that maps `KERNEL_BASE`, by entries that no call below changes;
- a PML4 that `vm_switch_pagetable` is given has, at first, the doubled halves of
  the boot's and nothing else: without them the kernel would not run;
- callers map a frame at most once, since `vm_map_page` counts no references while
  `vm_unmap_page` gives the frame back;
- physical page 0 is not mapped: it is the one `vm_get_physical_addr` answers for
  "not mapped";
- what lies behind a large page has no contents in the model: where a call walks
  into one, it is lost, and the model ends.

## 4. Proofs

All theorems hold for every value of the constants that meets the assumptions
above.

`HeapProofs`, for every heap, header, threshold and set of requests:

- `HeapInvariance`: `HeapInv`, the conjunction of the types, well-formedness
  (`Tiled`, `Linked` and `Apart`), coalescing, and the agreement of the list with
  what callers hold, is inductive. Its parts lean on each other. Tiling survives
  the merges of `kfree` only because links are inverse to each other and no two
  blocks overlap. That a release leaves no two free neighbours needs that there
  were none before, since each merge looks one block far. And that `krealloc`
  copies into a block apart from the old one needs that what is held is in use
  on the list, while the first fit is free.
- `HeapTypeCorrect`, `HeapAlwaysWellFormed`, `HeapAlwaysCoalesced`,
  `HeapHeldIsAllocated` follow from it, and `HeapAllFreedIsInitial` does with an
  argument of its own: if nothing is held all blocks are free, the first has
  no successor since two free ones would be neighbours, so it ends at the end
  of the heap and no other lies beside it.
- `HeapRefinesAllocator`: every step of `Heap` is one of `Allocator` or
  stutters, under the mapping of the list to the payloads in use. The lemmas
  follow the code: a block taken is a fresh region (`TakeIsGrant`), a release
  with its merges takes one region away (`FreeRefines`), and `krealloc` does both,
  the new block apart from the old (`ReallocRefines`).
- `HeapUsedIsSum`: `heap_used` is the sum of the payloads in use. The sum is a
  fold over a set. That it exists and does not depend on the order is proved by
  induction on the number of blocks (`IterateExists`, `AnyOrder`); then a split adds
  the block given out and a release takes it away, whatever it is merged with
  (`TakeSums`, `ReleaseSums`).
- `HeapRefusesOnlyWhenFull`: the walk along `next` comes to every block in the
  order of addresses, so that `kmalloc` refuses only what no free block can hold,
  and takes the lowest that can.

The lemmas on the way, in `HeapBlocksProofs`, state what `Take`, `Absorb`,
`MarkFree` and `Release` keep of an arbitrary well-formed list, apart from any
state.

`MemoryPoolsProofs`, for every heap, header and set of sizes and numbers of blocks:
`PoolInvariance` proves `PoolInv`, and from it follow `PoolsConserved`,
`LoansAlwaysApart`, `LoansAlwaysFit` and `NoHeapIsLeaked`. Its parts:

- `HeapOK`: the heap under the pools is in order;
- `Owned`: every pool has three blocks of the heap to itself, and the one for its
  memory is long enough for its blocks;
- `Conserved`: the free list of a pool and the loans divide its blocks;
- `LoansOK`: a loan lies in a pool or is a block of the heap of its own;
- `Accounted`: every allocated block is of a pool or a caller;
- `PredefinedOK`: the three pools `smart_alloc` tries have the sizes it tries them for.

None is inductive alone: that a block goes back to one free list only needs that
the memories of two pools are apart (`Owned`), that the heap frees what
`smart_free` hands it and nothing of a pool needs `LoansOK`, and that `pool_destroy`
frees blocks nobody else has needs `Owned` and `LoansOK` again. A call is first
shown to keep the invariant as a function of memories (`CreateFacts`: whichever of
the three allocations fails, the same blocks are allocated as before), then the
actions are put together.

`PagingProofs` begins with `PageFrames`. It proves `FramesInvariance` for every
number of frames and width of the counter, and from it `FramesTypeCorrect`,
`FreeListAlwaysExact`, `CountersAlwaysExact` and `InUseAlwaysStays`. The invariant is
the conjunction of the four: the list is exact after a release because the frame
was marked in use and so not on it, and the marks are right because counts are.

For every number of frames, roots, pages and entries of a table, it goes on
from there. Every step of `Paging` allocates a frame, frees one or leaves them
alone (`VmStepMoves`), so the invariant of the frames holds here too, and with it
`VmFreeListAlwaysExact`, `VmCountersAlwaysExact` and `VmInUseAlwaysStays`.
`VmInvariance` then proves `VmInv`:

- `Tree`: the levels of the tables are apart and are all of the tables;
- `OneParent`: no table hangs on two entries, but for the PML3 of the boot on the
  doubled entries of the PML4s (`BothDoubled`);
- `LargeKept`: the entries of the boot's PML2s are large pages, and no others;
- `Apart`: tables are frames in use, no page maps a table, a frame that is
  mapped is in use, and none is mapped twice;
- `CallOK`: there is no call, or it is lost, or it stands where the walk to its
  page gets at that level, and may still map what it was asked to;
- and the cache holds pages and numbers, whatever these are.

The tables of the boot satisfy it (`BootFramesApart`, `BootLevels`,
`BootOneParent`). It is inductive only as a whole. That no translation but that of
the page in question and its twins changes needs that two walks to one table came the same
way, or over the doubled entries (`SamePlaces`), which is `OneParent` on every
level. That a new table hangs nowhere else needs that the frame was free, and
free frames are no tables (`NotLost`, a part of the frame invariant: a frame off
the list has an owner). That a released frame is no table needs `Apart`. That
large pages stay those of the boot needs `Tree` again: a call that maps or unmaps
stands at a PML1, and one that adds a table does so at an entry that is empty.

`TablesAlwaysApart` and `OnlyAskedEverChanges` follow. `CacheAlwaysFresh` is about
steps, not states: a cached translation is out of date after a step only if it
was before, or if the step changed the twin of the page it was asked for
(`StaleOnlyByTwin`); that all are up to date is no invariant, since the code has
the case where one is not.

`ShellProofs`, for every length of the line buffer and any number of characters:
`ShellInvariance` proves `ShellInv`, the types and `LineIsTyped`: the buffer is the
line while the overflow flag is clear, and the flag is set exactly when the line
typed since the last RETURN, edited by its backspaces, did not always fit. What
was typed is a fold over the characters (`Edited`), unfolded one character at a
time (`EditedAppend`). `LineAlwaysTyped` and `OnlyTypedRuns` follow for the shell on
its screen; the latter adds how the line is cut into a command and its
arguments (`FirstStop`, `NameEnds`, `SpacesEnd`, `LineSplits`).

On top of it, for every width and height of the screen, every prompt and every
line, with the commands that are modelled (`clear`, `echo`, `history`, `help`, and
names that are none), `TerminalInvariance` proves `TerminalInv`, and `ScreenAlwaysShowsLine`
follows.

- The console is a grid of places, numbered row by row: from the number of a
  place its column and row come back (`OnePlace`, `Multiples`, `QuotientIs`), so two
  places have two numbers (`SpotsDiffer`), and a glyph drawn at one leaves all
  others alone.
- `Shows(s, line)`, the invariant: the cursor stands on the grid, nothing is drawn at
  or behind it, and before it come the last characters of the line, as many as
  there are places. It survives a character drawn, with the wrap at the end of
  a row and the clear at the end of the screen (`DrawShows`, `Settles`), and a
  backspace, also one over the edge of a row, which needs that the place before
  the first of a row is the last of the row above (`ErasedShows`, `BackspaceShows`).
- What commands print keeps the console in order (`Shows(s, <<>>)`): the
  texts come out of the formats piece by piece (`PiecesUnfold`, `PrintsText`,
  `OneString`, `HelpText`) and have no carriage return
  (`OutputText`), which would leave glyphs behind the cursor; and the prompt behind
  them is shown whole, since it begins with a newline and is drawn as it is
  (`PromptShows`).

`FilesProofs`, for every disk, path and set of blocks that cannot be read:

- `CwdAlwaysDirectory`. Its invariant, `FilesInv`, says that `cwd_path` is in normal
  form and fits its buffer (`Normal`), and leads to a directory if there is a file
  system. `CwdIsDirectory` alone is not inductive: it must be known that
  `vfs_open`, which normalizes `cwd_path` once more, comes to the same path. That is
  `NormalForm`: the tokens of a normalized path are the components it was put
  together from (`Good`, `Orderly`, `Tidied`; `PushOrderly` and `PopOrderly` for a name
  and for ".."), and so normalizing it again changes nothing. What
  `ksnprintf` makes of `cwd_path` and the argument is read off its two formats
  (`RootText`, `JoinText`), and whatever the buffer cuts, what is normalized after it
  is in normal form (`ResolvesNormal`).
- `AlwaysReadsTheInode`. The unit of an inode at a place is the one the table of
  its group has there (`UnitIs`, by the arithmetic of blocks), and the copy is
  put together of the part in one block and the part in the next (`CopyIs`).
- `FaultsNeverMisread`. A lookup with faults and one without go block by block, and
  as long as no block fails they have found the same (`FindIs`, `WalkIs`); the one
  that fails stops there with the error (`OutcomeIs`). A listing with faults is
  that without, or a beginning of it with the error (`ListIs`).
- `NormalKeepsItsTarget`. What a path opens is what its tokens reach, one after the
  other (`StillIs`, `OpensAs`, `ReachesGrow`). By induction over the tokens, the
  components left so far reach the inode that the tokens reach (`AlikeAlways`):
  "." stays there (`AlikeDot`); a name goes on alike (`AlikeName`); and for ".." the
  last component was a name, which was found in the directory that its inode
  has under ".." (`AlikeUp`, `TreeIs`). That no name is dropped for want of room is
  part of it: a normal form is no longer than its path, and one that opens was
  short enough (`RoomAlong`, `NeverFull`).
- `ListingsAlwaysAgree`. Both loops over the entries of a block go on to the first
  entry that stops them: an entry of length zero stops both, but an overlong one,
  or one without a name, only the listing. So what they see are two beginnings of
  the same block (`FindInReaching`, `ListedReaching`, `BeforeFirst`), of which that of
  the listing is never the longer (`ShownFound`, `ListingFound`); that an entry of a directory
  opens by the path of the directory and its name is `OpensInDir`.

`Ext2FileProofs`, for every number of pointers in a block, of direct pointers, of
units in a block, every file and every set of null pointers: `Ext2Invariance`
proves `Ext2Inv`, and `MapAlwaysIsTree`, `AlwaysReadsTheFile`, `NeverMisplaced` and
`PosAlwaysDelivered` follow.

- The tree. A place in a file is written in digits, one per level of pointers
  (`DoubleDigits`, `TripleDigits`, unique by `DoubleUnique` and `TripleUnique`), which
  name a leaf. Leaves come in the order of the places (`LeafOrder`), so the
  sequence of leaves has at each place the leaf with its digits (`LeafSeqIs`).
  `kget_file_block` follows the same digits, through one, two or three blocks of
  pointers (`PointerFinds`, `FetchFinds`, `MapFinds`).
- The loop of `ext2_read` is a fold too. One round stores the units to the end of
  the block or of the request, and nothing of any other place (`ChunkIs`); what
  is stored and the position keep pace (`RoundKeeps`); and as many rounds as the
  model allows are enough, since each but the first and the last stores a
  whole block (`CopyEnds`).

`KernelProofs` begins with the keyboard, for every size of the ring and every map of the keys:
`KeyboardInvariance` proves the types, where `getchar` stands
(`GetcharOK`: a take follows a test that found a character, which interrupts
only add to, and interrupts are disabled only where the `sti` is next), and that
shifts settle (`ShiftSettles`: the release of a shift key that is up again comes
last in the port). `KeyboardNeverStuck` and
`KeyboardNoPhantomShift` follow. `KeyboardRefinesQueue` proves that ring and
`getchar` implement `KeyQueue`: storing at the head appends to the sequence that
the ring stands for (`StoreAppends`), advancing the tail takes its first
(`TakeIsHead`), and a head that may not advance means that all slots but one are
taken (`FullHoldsAll`), with the arithmetic of indexes that wrap around in
lemmas of its own.

Then, for every information, drive, image, garbage and depth of the stack:

- `PanicAlwaysFinal`. Its invariant, `PanicHolds`, says that a panic in
  progress has the processor with interrupts disabled and the kernel in no stage
  but the panic or the halt; each step of `p_main` then keeps it or resets, and
  steps of the boot and the shell cannot happen. Faults within the panic are
  entries of a panic one deeper (`EnterGood`).
- `MountAlwaysReadsDisk`. A read from the drive, a loop over sectors, and a mount, a
  loop over blocks, are unfolded to chains of rounds. `ReadIs` says of both that
  they return all sectors asked for exactly when the drive can read them; it
  survives one more sector (`TransferIs`) and one more block (`ReadsJoin`,
  `BlockRead`), since no block lies half behind the last sector that 28 bits can
  name (`Alignment`). The arithmetic of groups, blocks and sectors
  (`BlocksHold`, `Sizes`, `TableHolds`, `DescriptorsThere`) turns this into
  `MountIsComplete`, and `Said` is the invariant that what has been printed tells
  what the mount did.

### Induction

The theorems of the library on induction take the formula as a parameter, which
the provers here cannot fill in. Induction is done with sets instead: a set of
numbers that has 0 and, with each number, the next one, has all numbers,
since otherwise it would lack a least one (`Successors`, `Least`, `Induction`). A
fold of the library is the choice of a function that satisfies a recursive
equation; such a function is shown to exist by induction on the number of
members (`IterateExists`, `EditsExist`, `CopiesExist`, `LoopsExist`), and so the chosen
one satisfies the equation. For the many folds of `Files` this is done once, for
a function of pairs that agrees with the operator of the fold (`Operates`,
`FoldOf`, `FoldsExist`): the fold is then the end of a chain in which each member
follows from the one before and the next element (`FoldLinks`, `FoldAppend`), and what
holds of the first and of each next one holds of it. `AllSequences` is induction
over sequences in the same form: a set with the empty sequence and, with each
sequence, all those longer by one has all of them.

### Left to TLC

- `StringsAgree` of `Files`, `PrintsAsAsked` and `ReadsNumbers` of `Terminal`, and
  `ReportShowsNumbers` of `Kernel`: what the functions of `Strings`, `Numbers` and `Format`
  compute for every text and every number. They compare loops over words and
  bytes, and over the digits of a number, with what is asked for; the provers
  treat the power, which the widths and the values of digits are written with,
  as an unknown function, and the comparisons are over the bounded sets of
  texts and numbers that their definitions name.
- `CharactersAreRead`, `CrashReboots` and `BootDecides`: fairness and ENABLED are out
  of the provers' reach.

## 5. What the code does other than it says

1. **ext2_zeros** (`ext2.c:455` and the like): `kget_file_block` answers 0 when it
   cannot read an indirect block, or has no memory for it, and `ext2_read`
   takes 0 for a hole. `cat` shows zeros and reports success.
2. **cd_goes_there** (`vfs.c:107`): `ksnprintf` copies 31 characters of each
   `%s`, so longer relative paths are cut, and `cd` succeeds elsewhere.
3. **serial_rate** (`serial.c:38`): the probe before each character writes its
   pattern into the divisor and leaves it there.
4. **time_shown** (`ktime.c:101`): a 24-hour clock is reduced modulo 12; and
   registers are read while the clock carries.

Further remarks from the modelling, which no run states.

- Memory: the free list of the frames contains the frames of the heap, though
  the comment at `memory.c:130` says pages of the kernel are skipped, and
  `heap_init` writes its first header over the array of the frames.
  `heap_defrag`, which nothing calls, relinks the list out of the order of
  addresses, after which `kfree` would merge blocks that are not neighbours.
- Page tables: `vm_map_page` and `vm_unmap_page` do not look at `PAGE_HUGE`: within
  the first 4 GiB they take the memory behind a large page for a PML1
  (`memory.c:264-273`, `:308-325`), and write to it. In the halves that `boot.asm`
  doubles, `vm_invalidate_page` leaves the twin in the cache (`memory.c:277`).
  Below the PML4 every access is through `KERNEL_BASE`, which is not mapped.
  `memory.c:315` masks the low bits only: of a page mapped with `PAGE_NX` it takes
  a frame number beyond `total_pages`, and the frame is never given back (the model
  has no such page; it would be like one of `Devices`).
- Boot: an empty tag before the memory map hangs it (`memory.c:88`, the
  exception in `BootDecides`); the message about such a tag in `mb.c:74` is drawn
  before there is a framebuffer, at address 0.
- Panic: `panic_in_progress` is never read, though its comment (`panic.c:89`)
  says it prevents recursive panics. `kitoa` writes a null only behind a 0
  (the comment at `kitoa.c:31` speaks of one) and `kutoa` none, so what the
  stack held may follow the error code on the screen; the property
  `ReportShowsNumbers` says of it, and of the registers, only that the digits
  come first.
- Files: the first `ls` after a failed mount divides by zero (`ext2.c:227`), as
  does the mount of a superblock with groups of no blocks; a mount that fails
  in the descriptors leaves a table that was never read in use (`ext2.c:122`).
- Conversions: `kstrtol` refuses the last sixteen numbers down to `KLONG_MIN` in
  base 10, since cutoff and limit are one step off for a negative number
  (`kstrtol.c:66`); `ReadsNumbers` leaves them out. Digits behind an overflow go on
  being added to a value that has wrapped around.
- Printing: `kvsnprintf` pads `%02d` with spaces, so that the times at
  `ktime.c:129` come out as ` 9: 5: 7`; the date at `ktime.c:115` has slashes, and
  its comment (`:105`) dashes. `%x` of `kprintf` prints in upper case and ends the
  line, and a `%X` takes no argument; `d_printf` has no `%u`; `d_dbgtype` prints
  whether or not debugging is enabled, and nothing enables it.
- Shell: `handle_command` has cut the line when the history copies it
  (`shell.c:165`), so `history` shows commands without their arguments.

## 6. Not modelled, and why

- `heap_defrag`, `ext2_list_dir`, `serial.write_int`: nothing calls them. (Nothing
  calls `vm_*` either; they are modelled, as they are the interface of the memory
  the kernel is growing towards, under the assumptions named above. Frames and
  heap are apart in the models, although their memory overlaps.)
- A `cd` with an absolute path longer than the buffer of `vfs_resolve`, formats
  that end in `%`, and the negation of the least `int` or `long`: what follows is
  undefined, and the models leave them out.
- Shapes, pixel formats and the font; the wording of messages other than those
  that are formatted; d_printf and its callers as long as debugging is off.
- The mathematics library: nothing calls it, and TLC has no reals. `krand`,
  `kabs`, `klabs`, `kexit`: no property of the kernel depends on them.
- `Clock`: day, month, year and century are one register, read and converted
  alike; the 12-hour mode, and the texts of date and time, are left out.
- Smaller things, taken as the simpler case:
  - `Ext2`: the mode of an inode is a kind, where the code tests one bit
    (`ext2.c:207`, `:388`, `vfs.c:121`) that block devices and sockets have too: the
    disks of the model have files and directories. Lengths of directory entries
    are zero, proper, or overlong, and none is shorter than an entry
    (`ext2.c:279`).
  - `Ext2File`: position and length are numbers without a width; `pos + len`
    (`ext2.c:603`) and the result as an `int` (`:655`) do not wrap around.
  - `Paging`: addresses are whole pages; for others `vm_map_page` returns false at
    once (`memory.c:212`).
  - `Kernel`: the wait for the keyboard controller in `a_reboot` (`acpi.c:46`), which has
    no limit, is one of the reasons why a machine does not reset
    (`machine.resets`). `printed` has the messages that were handed to the console:
    without a framebuffer `v_putchar` returns at once (`video.c:165`), and nobody
    reads them. A memory map with entries of size 0, by which `memory.c:84` divides,
    is not among the information.
  - `Format`: numbers are not padded with zeros, as the code does not; `kprintf` is
    compared with what is asked for `%d` only.
- `Kernel`: exceptions other than page faults of an unmapped framebuffer and the
  divisions in `ksleep` and the mount come only from the shell on; the set-up of
  gates, PIC and GDT has no state that changes later. The lengths of the memory
  map are a constant. When panics within panics have used up the stack, the
  kernel is in the stage `lost`, of which nothing is said.
- `fetch`, `pwd`, `sleep` and `test_graphics` of the shell only print, draw or wait.

## 7. Plan

Done, in this order: heap and its refinement and proofs; frames and their
proofs; pools over the heap; keyboard; files on disk; paths and directories;
shell and screen; the life of the kernel; the clock; numbers, strings and
formatted output under the shell and the file system; page tables over the
frames and their proofs; the drive and the mount under the boot; the panic
screen; proofs of the keyboard's refinement and of the panic.

Then the proofs of the pools over the heap, of `heap_used` and the walk, of the
line editor, of the block map and reads of ext2, and of the mount; of the
screen under the editor; and of the paths, directories and faults of `Files`.

Next:

1. `PrintsAsAsked`, `ReadsNumbers` and `ReportShowsNumbers` without bounds, from lemmas
   on the digits of a number with the power as a recursive function.
2. `cat` to its end: `Files` over `Ext2File`, a handle open across reads.
3. The texts of date and time over `Clock` and `Format`; the lengths of the memory
   map, feeding `total_pages` of `PageFrames`.
