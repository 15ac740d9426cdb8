------------------------------ MODULE Ext2File ------------------------------
(***************************************************************************)
(* Reading a file in sys/fs/ext2/ext2.c: the map from the blocks of a file *)
(* to the blocks of the disk through up to three levels of pointer blocks, *)
(* and ext2_read, while reads of the disk fail and the heap runs out.  The *)
(* kernel runs one task, so one step is one call of ext2_read.             *)
(*                                                                         *)
(* Sizes are counted in units of a block pointer.  A block of the disk is  *)
(* named by the path of pointer indices that leads to it from the inode, a *)
(* unit of data by the path of its block and its offset there; the empty   *)
(* path is the null pointer and the zero unit.  So every pointer and every *)
(* unit of a file differ, and misplaced data is told from missing data.    *)
(***************************************************************************)
EXTENDS Integers, Sequences, SequencesExt, FiniteSetsExt

CONSTANTS
  g_block_size,   \* units in a block: 256 to 1024 in the build
  NDIRECT,        \* direct pointers of an inode: 12 in the build
  Sizes,          \* file sizes explored
  Lengths         \* lengths callers ask ext2_read for

ASSUME Ext2Assumption ==
  /\ g_block_size \in Nat \ {0}
  /\ NDIRECT \in Nat
  /\ Sizes \subseteq Nat
  /\ Lengths \subseteq Nat

EXT2_ERR_IO == -1
EXT2_ERR_UNSUPPORTED == -3

Null == << >>

-----------------------------------------------------------------------------
(* The disk (external): the pointers of a complete tree, some made null.   *)

Slots == 0..(g_block_size - 1)

Leaves == {<<i>> : i \in 0..(NDIRECT - 1)}
          \cup {<<NDIRECT, a>> : a \in Slots}
          \cup {<<NDIRECT + 1, a, b>> : a, b \in Slots}
          \cup {<<NDIRECT + 2, a, b, c>> : a, b, c \in Slots}

Blocks == (UNION {Prefixes(leaf) : leaf \in Leaves}) \ {Null}

VARIABLES
  holes,   \* the paths whose pointer is null on the disk
  size,    \* size_lo and size_high of the inode
  pos,     \* file->pos
  last     \* the last call: where it began, what was asked and faulty, what
           \* it returned and stored in buf

vars == <<holes, size, pos, last>>

Pointer(blk, index) ==
  LET p == Append(blk, index) IN IF p \in holes THEN Null ELSE p

Unit(blk, offset) == Append(blk, offset)

(* What may go wrong in one call.  bad: the blocks the device fails to     *)
(* read.  room: how many block buffers the heap has room for; a call has   *)
(* block_buf and at most one buffer for pointers allocated at a time, so   *)
(* the second is there for the whole call or never.  Bound: one kind of    *)
(* fault and one failing block per call.                                   *)
NoFault == [bad |-> {}, room |-> 2]
Faults == {[bad |-> b, room |-> 2] : b \in {{}} \cup {{blk} : blk \in Blocks}}
          \cup {[bad |-> {}, room |-> r] : r \in 0..1}

-----------------------------------------------------------------------------
(* kget_file_block.                                                        *)

blocks_per_indirect == g_block_size
single_indirect_end == NDIRECT + blocks_per_indirect
double_indirect_end ==
  single_indirect_end + blocks_per_indirect * blocks_per_indirect
max_blocks ==
  double_indirect_end
    + blocks_per_indirect * blocks_per_indirect * blocks_per_indirect

(* Entry index of the pointer block blk, read into a buffer of its own.    *)
Fetch(blk, index, fault) ==
  IF blk = Null \/ fault.room < 2 \/ blk \in fault.bad
  THEN Null ELSE Pointer(blk, index)

Single(offset, fault) == Fetch(Pointer(Null, NDIRECT), offset, fault)

Double(offset, fault) ==
  LET single == Fetch(Pointer(Null, NDIRECT + 1),
                      offset \div blocks_per_indirect, fault)
  IN  Fetch(single, offset % blocks_per_indirect, fault)

(* A bug to compare with: the two lower levels take each other's index.    *)
TripleSwapped(offset, fault) ==
  LET square == blocks_per_indirect * blocks_per_indirect
      double == Fetch(Pointer(Null, NDIRECT + 2), offset \div square, fault)
      single == Fetch(double, offset % blocks_per_indirect, fault)
  IN  Fetch(single, (offset % square) \div blocks_per_indirect, fault)

Triple(offset, fault) ==
  LET square == blocks_per_indirect * blocks_per_indirect
      double == Fetch(Pointer(Null, NDIRECT + 2), offset \div square, fault)
      single == Fetch(double, (offset % square) \div blocks_per_indirect, fault)
  IN  Fetch(single, offset % blocks_per_indirect, fault)

kget_file_block(logical_block, fault) ==
  CASE logical_block < NDIRECT -> Pointer(Null, logical_block)
    [] logical_block \in NDIRECT..(single_indirect_end - 1) ->
         Single(logical_block - NDIRECT, fault)
    [] logical_block \in single_indirect_end..(double_indirect_end - 1) ->
         Double(logical_block - single_indirect_end, fault)
    [] logical_block \in double_indirect_end..(max_blocks - 1) ->
         Triple(logical_block - double_indirect_end, fault)
    [] OTHER -> Null

-----------------------------------------------------------------------------
(* ext2_read.  A progress record has the position reached, the units       *)
(* stored so far, how many remain, and rc, 0 or the error that ended it.   *)

(* A bug to compare with: file->pos moves on to the next block.            *)
DeliverRounded(st, chunk) ==
  [st EXCEPT !.pos = (@ \div g_block_size + 1) * g_block_size,
             !.data = @ \o chunk, !.remaining = @ - Len(chunk)]

(* The chunk goes to buf, and file->pos with it.                           *)
Deliver(st, chunk) ==
  [pos |-> st.pos + Len(chunk), data |-> st.data \o chunk,
   remaining |-> st.remaining - Len(chunk), rc |-> st.rc]

(* A bug to compare with: the zeros of a hole are not cut at its end.      *)
ChunkUncut(st, blk) ==
  LET off == st.pos % g_block_size
      room == IF blk = Null THEN st.remaining ELSE g_block_size - off
  IN  [k \in 1..Min({room, st.remaining}) |->
         IF blk = Null THEN Null ELSE Unit(blk, off + k - 1)]

(* The units of blk, or zeros for none, up to the end of the block.        *)
Chunk(st, blk) ==
  LET off == st.pos % g_block_size
  IN  [k \in 1..Min({g_block_size - off, st.remaining}) |->
         IF blk = Null THEN Null ELSE Unit(blk, off + k - 1)]

(* A bug to compare with: the buffer of the last block is used once more   *)
(* when a read fails.                                                      *)
CopyChunkUntested(st, fault) ==
  LET block_idx == st.pos \div g_block_size
      blk_id == kget_file_block(block_idx, fault)
  IN  IF block_idx >= max_blocks THEN [st EXCEPT !.rc = EXT2_ERR_UNSUPPORTED]
      ELSE IF blk_id \in fault.bad
      THEN Deliver(st, Chunk(st, kget_file_block(Max({0, block_idx - 1}), fault)))
      ELSE Deliver(st, Chunk(st, blk_id))

CopyChunk(st, fault) ==
  LET block_idx == st.pos \div g_block_size
      blk_id == kget_file_block(block_idx, fault)
  IN  IF block_idx >= max_blocks THEN [st EXCEPT !.rc = EXT2_ERR_UNSUPPORTED]
      ELSE IF blk_id \in fault.bad THEN [st EXCEPT !.rc = EXT2_ERR_IO]
      ELSE Deliver(st, Chunk(st, blk_id))

(* The loop: every round moves on by a chunk, so that this many do.        *)
Copy(start, fault) ==
  FoldLeft(LAMBDA st, k : IF st.remaining = 0 \/ st.rc # 0 THEN st
                          ELSE CopyChunk(st, fault),
           start, [k \in 1..(start.remaining \div g_block_size + 2) |-> k])

Clamped(len) == Min({len, size - pos})

ext2_read(len, fault) ==
  LET start == [pos |-> pos, data |-> << >>, remaining |-> Clamped(len),
                rc |-> 0]
      end == IF pos >= size THEN [start EXCEPT !.remaining = 0]
             ELSE IF fault.room = 0 THEN [start EXCEPT !.rc = EXT2_ERR_IO]
             ELSE Copy(start, fault)
  IN  /\ pos' = end.pos
      /\ last' = [from |-> pos, len |-> len, faulty |-> fault # NoFault,
                  data |-> end.data,
                  ret |-> IF end.rc # 0 THEN end.rc
                          ELSE IF pos >= size THEN 0 ELSE Clamped(len)]
      /\ UNCHANGED <<holes, size>>

(* ext2_open has found the inode.  Bound: a file has at most one null      *)
(* pointer, which takes all that is below it with it.                      *)
Init ==
  /\ holes \in {{}} \cup {{blk} : blk \in Blocks}
  /\ size \in Sizes
  /\ pos = 0
  /\ last = [from |-> 0, len |-> 0, faulty |-> FALSE, data |-> << >>, ret |-> 0]

Next == \E len \in Lengths, fault \in Faults : ext2_read(len, fault)

Spec == Init /\ [][Next]_vars

-----------------------------------------------------------------------------
(* Properties.                                                             *)

(* The contents of the file: its leaves in the order of their paths.       *)
Before(p, q) ==
  \E n \in 1..Min({Len(p), Len(q)}) :
    SubSeq(p, 1, n - 1) = SubSeq(q, 1, n - 1) /\ p[n] < q[n]

LeafSeq ==
  [i \in 1..Cardinality(Leaves) |->
     CHOOSE p \in Leaves : Cardinality({q \in Leaves : Before(q, p)}) = i - 1]

InHole(leaf) == \E h \in holes : IsPrefix(h, leaf)

LeafAt(unit) == LeafSeq[unit \div g_block_size + 1]

FileUnit(unit) ==
  IF InHole(LeafAt(unit)) THEN Null ELSE Unit(LeafAt(unit), unit % g_block_size)

(* kget_file_block finds, for each block of the file the inode can name,   *)
(* the leaf at that place of the tree, and no block under a null pointer   *)
(* of any level (ext2.c, 433-591).                                         *)
MapIsTree ==
  \A i \in 1..Len(LeafSeq) :
    kget_file_block(i - 1, NoFault) =
      (IF InHole(LeafSeq[i]) THEN Null ELSE LeafSeq[i])

(* A call of ext2_read in which nothing fails returns what was asked for,  *)
(* cut at the end of the file, and exactly these units of it; only blocks  *)
(* past the triple indirect ones are refused, after all that come before.  *)
ReadsTheFile ==
  LET asked == Min({last.len, size - last.from})
      reach == Min({last.from + asked, Max({last.from, max_blocks * g_block_size})})
  IN  ~last.faulty =>
        /\ last.data = [k \in 1..(reach - last.from) |-> FileUnit(last.from + k - 1)]
        /\ last.ret = IF reach < last.from + asked THEN EXT2_ERR_UNSUPPORTED
                      ELSE asked

(* Whatever fails, ext2_read stores no data of another place of the file,  *)
(* only the right units or zeros.                                          *)
NoMisplacedData ==
  \A k \in 1..Len(last.data) :
    last.data[k] \in {Null, FileUnit(last.from + k - 1)}

(* file->pos moves by exactly what was stored, on the error paths too, so  *)
(* that the next call goes on behind it; what a successful call returns is *)
(* what it stored.                                                         *)
PosIsDelivered ==
  /\ pos = last.from + Len(last.data)
  /\ last.ret >= 0 => last.ret = Len(last.data)

(* A zero of a successful call is a hole of the file: "Sparse region --    *)
(* treat as zero" (ext2.c, 632).                                           *)
ZeroOnlyForHoles ==
  last.ret >= 0 =>
    \A k \in 1..Len(last.data) :
      last.data[k] = Null => InHole(LeafAt(last.from + k - 1))
=============================================================================
