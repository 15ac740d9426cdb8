------------------------------- MODULE Paging -------------------------------
(***************************************************************************)
(* The page tables of sys/kern/memory/memory.c: vm_map_page builds the     *)
(* tables it misses from page frames, vm_unmap_page gives back the frame   *)
(* that was mapped, and memory_map_physical and memory_unmap_physical do   *)
(* so for the pages of a temporary area.                                   *)
(*                                                                         *)
(* A step is what vm_map_page or vm_unmap_page does at one level of the    *)
(* tables; nothing else runs until the call returns, except the processor, *)
(* which caches translations when it likes.  A page is the sequence of its *)
(* indexes, from the PML4 down; a physical page is a number, that of the   *)
(* frame where there is one.  Addresses are whole pages: for another one   *)
(* vm_map_page returns false at once.                                      *)
(*                                                                         *)
(* The tables a call starts from are those of boot.asm, whose first 4 GiB  *)
(* are large pages, and appear twice, under two entries of the PML4.       *)
(* Tables below the PML4 are read and written through KERNEL_BASE, which   *)
(* boot.asm does not map: every access may fault, and where it does not it *)
(* reaches the table, so that the mapping of KERNEL_BASE is none of the    *)
(* pages that the calls below map.                                         *)
(***************************************************************************)
EXTENDS PageFrames

CONSTANTS
  Indexes,           \* of the entries of a table: 0..511 in the build
  Pages,             \* the virtual pages that are mapped
  Area,              \* the pages at KERNEL_BASE + 0x1000000, in order
  Devices,           \* physical pages without a frame
  Roots,             \* frames of the tables CR3 may hold, below the heap
  boot_pml4,         \* the one boot.asm made
  pml3_table,        \* the one PML3 of boot.asm
  pml2_table,        \* its PML2s, in order: 4 in the build
  HIGH               \* the entry of the high half in a PML4: 256 in the build

Pml2Tables == {pml2_table[n] : n \in DOMAIN pml2_table}

ASSUME PagingAssumption ==
  /\ Indexes \subseteq Nat /\ {0, HIGH} \subseteq Indexes
  /\ Pages \subseteq [1..4 -> Indexes]
  /\ Area \in Seq(Pages)
  /\ Devices \subseteq Nat /\ Devices \cap Frames = {}
  /\ Roots \subseteq KernelFrames /\ boot_pml4 \in Roots
  /\ pml3_table \in KernelFrames \ Roots
  /\ pml2_table \in Seq(KernelFrames \ (Roots \cup {pml3_table}))
  /\ \A m, n \in DOMAIN pml2_table : pml2_table[m] = pml2_table[n] => m = n
  /\ \A n \in DOMAIN pml2_table : n - 1 \in Indexes

VARIABLES
  table,             \* the entries of each frame that is a table
  current_pml4,
  tlb,               \* what the processor has cached: bound, one translation
  call               \* the call in progress

vmvars == <<table, current_pml4, tlb, call>>

NotPresent == -1

(* An entry of a PML2 that maps 2 MiB itself (PAGE_HUGE).                  *)
Large == -2

NoTable == {NotPresent, Large}

Zeroed == [i \in Indexes |-> NotPresent]

Idle == [fn |-> "none"]

(* The call has faulted, or written to memory that is no table: nothing is *)
(* said of what follows.                                                   *)
Lost == [fn |-> "lost"]

(* The entries of a PML4 that link the one PML3.                           *)
Doubled == {0, HIGH}

(* The tables of boot.asm.  A PML4 that the kernel can switch to maps what *)
(* the one of boot.asm maps.                                               *)
BootEntry(t, index) ==
  CASE t \in Roots -> IF index \in Doubled THEN pml3_table ELSE NotPresent
    [] t = pml3_table ->
         IF index + 1 \in DOMAIN pml2_table THEN pml2_table[index + 1] ELSE NotPresent
    [] t \in Pml2Tables -> Large

(* vm_init takes the table from CR3.                                       *)
vm_init ==
  /\ table = [t \in Roots \cup {pml3_table} \cup Pml2Tables |->
                [i \in Indexes |-> BootEntry(t, i)]]
  /\ current_pml4 = boot_pml4
  /\ tlb = {}
  /\ call = Idle

-----------------------------------------------------------------------------
(* Walks over the tables.                                                  *)

Down(t, index) == IF t \in NoTable THEN t ELSE table[t][index]

(* The tables on the way to a page, from the PML4 at 4 to the PML1 at 1.   *)
TableOf(root, page, level) ==
  CASE level = 4 -> root
    [] level = 3 -> Down(root, page[1])
    [] level = 2 -> Down(Down(root, page[1]), page[2])
    [] level = 1 -> Down(Down(Down(root, page[1]), page[2]), page[3])

(* What a page is mapped to, as the processor finds it: Large in a large   *)
(* page, of which vm_get_physical_addr knows nothing.                      *)
Translation(root, page) == Down(TableOf(root, page, 1), page[4])

Tables == DOMAIN table

Below(ts) == {table[t][i] : t \in ts, i \in Indexes} \ NoTable

TablesAt == <<Below(Below(Below(Roots))), Below(Below(Roots)), Below(Roots), Roots>>

Page == Head(call.todo).page

Index == Page[5 - call.level]

Entry == table[call.at][Index]

Mapping == call.fn = "vm_map_page"

Unmapping == call.fn = "vm_unmap_page"

InProgress == call \notin {Idle, Lost}

AtTable == InProgress /\ call.level > 1

AtPage == InProgress /\ call.level = 1

-----------------------------------------------------------------------------
(* Calls.  A call works through its pages one after another.               *)

Call(fn, todo, present) ==
  [fn |-> fn, todo |-> todo, present |-> present, level |-> 4, at |-> current_pml4]

Begin(fn, todo, present) ==
  /\ call = Idle
  /\ call' = Call(fn, todo, present)
  /\ UNCHANGED <<vars, table, current_pml4, tlb>>

NextPage ==
  call' = IF Len(call.todo) = 1 THEN Idle
          ELSE Call(call.fn, Tail(call.todo), call.present)

Mapped == Below(TablesAt[1])

(* What callers may map: a device, a frame they own, or a kernel frame.  A *)
(* frame is mapped once: vm_unmap_page gives it back whoever else has it,  *)
(* since mapping does not count references.                                *)
Mappable ==
  Devices \cup ((owned \cup {f \in KernelFrames : f # 0 /\ Unspent(f)}) \ (Tables \cup Mapped))

vm_map_page ==
  \E page \in Pages, physical \in Mappable, present \in BOOLEAN :
    Begin("vm_map_page", <<[page |-> page, physical |-> physical]>>, present)

vm_unmap_page ==
  \E page \in Pages :
    Begin("vm_unmap_page", <<[page |-> page, physical |-> NotPresent]>>, TRUE)

(* The area always starts at the same address: a second mapping replaces   *)
(* the first, page by page.                                                *)
memory_map_physical ==
  \E physical \in Devices, pages \in 1..Len(Area) :
    physical..(physical + pages - 1) \subseteq Devices /\
    Begin("vm_map_page",
          [n \in 1..pages |-> [page |-> Area[n], physical |-> physical + n - 1]], TRUE)

memory_unmap_physical ==
  \E pages \in 1..Len(Area) :
    Begin("vm_unmap_page",
          [n \in 1..pages |-> [page |-> Area[n], physical |-> NotPresent]], TRUE)

-----------------------------------------------------------------------------
(* What vm_map_page and vm_unmap_page do at a level.                       *)

Enter(t) ==
  [fn |-> call.fn, todo |-> call.todo, present |-> call.present,
   level |-> call.level - 1, at |-> t]

descend ==
  /\ AtTable /\ Entry \notin NoTable
  /\ call' = Enter(Entry)
  /\ UNCHANGED <<vars, table, current_pml4, tlb>>

(* PAGE_HUGE is not looked at: the memory in the large page is walked as a *)
(* PML1, and written to.                                                   *)
walk_large_page ==
  /\ AtTable /\ Entry = Large
  /\ call' = Lost
  /\ UNCHANGED <<vars, table, current_pml4, tlb>>

(* The next table is not mapped at KERNEL_BASE: it cannot be read, or, if  *)
(* it is new, not be cleared, and its frame is not linked yet.             *)
access_faults ==
  /\ AtTable
  /\ \/ Entry \notin NoTable /\ UNCHANGED vars
     \/ Entry = NotPresent /\ Mapping /\ free_page_list # <<>> /\ allocate_page_frame
  /\ call' = Lost
  /\ UNCHANGED <<table, current_pml4, tlb>>

(* Faulty variant: the new table is not cleared and keeps what the frame   *)
(* was mapped with before, here the table above it.                        *)
AddTableUncleared(frame) ==
  table' = [t \in Tables \cup {frame} |->
              IF t = frame THEN [Zeroed EXCEPT ![0] = call.at]
              ELSE IF t = call.at THEN [table[t] EXCEPT ![Index] = frame]
              ELSE table[t]]

AddTable(frame) ==
  table' = [t \in Tables \cup {frame} |->
              IF t = frame THEN Zeroed
              ELSE IF t = call.at THEN [table[t] EXCEPT ![Index] = frame]
              ELSE table[t]]

add_table ==
  /\ AtTable /\ Entry = NotPresent /\ Mapping
  /\ free_page_list # <<>>
  /\ allocate_page_frame
  /\ AddTable(Head(free_page_list))
  /\ call' = Enter(Head(free_page_list))
  /\ UNCHANGED <<current_pml4, tlb>>

(* No frame is left: the tables linked so far stay, the pages mapped so    *)
(* far too, and the rest of the pages is given up.                         *)
map_fails ==
  /\ AtTable /\ Entry = NotPresent /\ Mapping
  /\ free_page_list = <<>>
  /\ allocate_page_frame
  /\ call' = Idle
  /\ UNCHANGED <<table, current_pml4, tlb>>

nothing_to_unmap ==
  /\ InProgress /\ Entry = NotPresent /\ Unmapping
  /\ NextPage
  /\ UNCHANGED <<vars, table, current_pml4, tlb>>

(* Faulty variant: the cached translation stays.                           *)
vm_invalidate_nothing(page) == UNCHANGED tlb

vm_invalidate_page(page) == tlb' = {c \in tlb : c.page # page}

map_page ==
  /\ AtPage /\ Mapping
  /\ table' = [table EXCEPT ![call.at][Index] =
                 IF call.present THEN Head(call.todo).physical ELSE NotPresent]
  /\ vm_invalidate_page(Page)
  /\ NextPage
  /\ UNCHANGED <<vars, current_pml4>>

(* Faulty variant: the frame that is given back is that of the table.      *)
release_table(physical) == free_page_frame(call.at)

(* Under the bound on releases of PageFrames, which Mappable keeps.  A     *)
(* number without a frame is ignored: that of a device, and, as only the   *)
(* low bits are masked, that of a page mapped with PAGE_NX.                *)
release_page(physical) ==
  IF physical \in Frames THEN Unspent(physical) /\ free_page_frame(physical)
  ELSE UNCHANGED vars

unmap_page ==
  /\ AtPage /\ Entry # NotPresent /\ Unmapping
  /\ release_page(Entry)
  /\ table' = [table EXCEPT ![call.at][Index] = NotPresent]
  /\ vm_invalidate_page(Page)
  /\ NextPage
  /\ UNCHANGED current_pml4

(* Writing CR3 empties the cache.                                          *)
vm_switch_pagetable ==
  /\ call = Idle
  /\ current_pml4' \in Roots \ {current_pml4}
  /\ tlb' = {}
  /\ UNCHANGED <<vars, table, call>>

-----------------------------------------------------------------------------

(* The processor caches a translation it finds, and forgets another.       *)
Cache(page) ==
  /\ call # Lost
  /\ Translation(current_pml4, page) # NotPresent
  /\ tlb' = {[page |-> page, physical |-> Translation(current_pml4, page)]}
  /\ UNCHANGED <<vars, table, current_pml4, call>>

(* The other callers of the page frames.                                   *)
AllocateFrame ==
  call = Idle /\ allocate_page_frame /\ UNCHANGED vmvars

FreeFrame ==
  /\ call = Idle
  /\ \E f \in Frames \ (Tables \cup Mapped) : f \notin KernelFrames /\ free_page_frame(f)
  /\ UNCHANGED vmvars

Calls == vm_map_page \/ vm_unmap_page \/ memory_map_physical \/ memory_unmap_physical

Levels ==
  \/ descend \/ walk_large_page \/ access_faults
  \/ add_table \/ map_fails \/ map_page
  \/ nothing_to_unmap \/ unmap_page

Ended == call = Lost /\ UNCHANGED <<vars, vmvars>>

VmInit == Init /\ vm_init

VmNext ==
  \/ Calls \/ Levels \/ vm_switch_pagetable
  \/ AllocateFrame \/ FreeFrame \/ Ended
  \/ \E page \in Pages : Cache(page)

VmSpec == VmInit /\ [][VmNext]_<<vars, vmvars>>

-----------------------------------------------------------------------------
(* Properties.                                                             *)

Links == {l \in (Tables \ TablesAt[1]) \X Indexes : table[l[1]][l[2]] \notin NoTable}

(* The tables are trees, but for the PML3 of boot.asm: every frame that    *)
(* became a table, in a call that succeeded or in one that ran out of      *)
(* frames, hangs on one entry of one table above, at one level, and no     *)
(* caller gets it while it does.  The large pages stay those of boot.asm:  *)
(* none is split, and no other entry becomes one.                          *)
TablesApart ==
  /\ \A l, m \in 1..4 : l # m => TablesAt[l] \cap TablesAt[m] = {}
  /\ \A a, b \in Links :
       table[a[1]][a[2]] = table[b[1]][b[2]] => a = b \/ {a, b} \subseteq Roots \X Doubled
  /\ UNION {TablesAt[l] : l \in 1..4} = Tables
  /\ \A t \in Tables : ~is_free[t] /\ t \notin Mapped
  /\ \A t \in Tables, i \in Indexes : table[t][i] = Large <=> t \in Pml2Tables

(* The page with the same tables in the other of the doubled halves.       *)
Twin(page) == [page EXCEPT ![1] = IF @ = 0 THEN HIGH ELSE 0]

(* The pages whose entry is that of the page of the call in progress: the  *)
(* doubled halves are one, and the same in all PML4s.                      *)
SamePlace(root, page) ==
  \/ root = current_pml4 /\ page = Page
  \/ Page[1] \in Doubled /\ page \in {Page, Twin(Page)}

AskedChange ==
  \A root \in Roots, page \in Pages :
    Translation(root, page)' # Translation(root, page) =>
      /\ InProgress /\ SamePlace(root, page)
      /\ Translation(root, page)' =
           IF Mapping /\ call.present THEN Head(call.todo).physical ELSE NotPresent

(* A step changes what a page is mapped to only for the page of the call   *)
(* in progress, and in the doubled halves of boot.asm for its twin and in  *)
(* the other PML4s, and only to what the call asked for: no other page of  *)
(* any table loses its mapping or gets another.                            *)
OnlyAskedChanges == [][AskedChange]_<<vars, vmvars>>

OutOfDate(c) == Translation(current_pml4, c.page) # c.physical

StaleByTwin ==
  \A c \in tlb' : OutOfDate(c)' =>
    /\ c \in tlb
    /\ OutOfDate(c) \/ (InProgress /\ Page[1] \in Doubled /\ c.page = Twin(Page))

(* Nothing the processor has cached goes out of date, when a page is       *)
(* mapped anew or unmapped or the tables are switched, but one way: in the *)
(* doubled halves vm_invalidate_page forgets the page it is given and not  *)
(* its twin, whose mapping has changed too.                                *)
CacheStaysFresh == [][StaleByTwin]_<<vars, vmvars>>
=============================================================================
