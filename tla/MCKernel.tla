------------------------------ MODULE MCKernel ------------------------------
(* Constants of the model-checked instance of Kernel: information of up to *)
(* three tags, without the memory map, without the framebuffer, without an *)
(* end, with something behind the end, and with a tag of size zero.        *)
EXTENDS Kernel

Tag(type) == [type |-> type, size |-> 1]

Empty == [type |-> "other", size |-> 0]

MCInfos ==
  {NoInfo} \cup
  {<<>>, <<Tag("end")>>, <<Tag("framebuffer"), Tag("end")>>,
   <<Tag("mmap"), Tag("end")>>,
   <<Tag("framebuffer"), Tag("mmap"), Tag("end")>>,
   <<Tag("mmap"), Tag("other"), Tag("framebuffer")>>,
   <<Tag("framebuffer"), Tag("end"), Tag("mmap")>>,
   <<Tag("mmap"), Empty, Tag("end")>>,
   <<Tag("framebuffer"), Empty, Tag("mmap")>>}

Drive(kind, bad) == [kind |-> kind, bad |-> bad]

MCDrives ==
  {Drive("absent", {}), Drive("busy", {})}
  \cup {Drive("ready", bad) : bad \in {{}, {2}, {3}, {4}, {5}, {9}}}

Image(magic, log_block_size, blocks_count, blocks_per_group) ==
  [magic |-> magic, log_block_size |-> log_block_size, blocks_count |-> blocks_count,
   blocks_per_group |-> blocks_per_group]

(* Tables of one block and of two (of 1024 bytes) for 33 groups, the last  *)
(* of which is not full, and superblocks that cannot be mounted.           *)
MCImages ==
  {Image(TRUE, log, count, 8) : log \in 0..3, count \in {0, 8, 257}}
  \cup {Image(FALSE, 0, 8, 8), Image(TRUE, 0, 8, 0)}

(* Texts of kpanic: none, 16, 17, -1 and x, which is code 0.               *)
MCPanicArgs ==
  {<<>>, <<ZERO + 1, ZERO + 6>>, <<ZERO + 1, ZERO + 7>>, <<MINUS, ZERO + 1>>, <<letter.x>>}

MCRegisters == {<<255, 16, 1, 0, -1, -16, 171>>, <<0, 3>>}
=============================================================================
