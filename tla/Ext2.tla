-------------------------------- MODULE Ext2 --------------------------------
(***************************************************************************)
(* Inodes and directories of sys/fs/ext2/ext2.c on what Mount has left,    *)
(* while reads of the disk fail and the heap runs out.                     *)
(*                                                                         *)
(* A path is a sequence of characters, as in Strings.  An inode on the     *)
(* disk is a run of units, <<n, k>> for unit k of inode n: its mode is in  *)
(* the first, its block pointers in the last.  A directory block is the    *)
(* sequence of its entries; what is wrong with the length of an entry is   *)
(* its shape.                                                              *)
(***************************************************************************)
EXTENDS Strings, Mount

CONSTANTS
  Inodes,            \* number -> [dir, block]: dir blocks of a directory
  DirBlocks,         \* dir block -> sequence of [inode, name, shape]
  inodes_per_group, inode_size, g_block_size,   \* of the file system
  INODE,             \* units of an ext2_inode_t, 128 bytes in the build
  NDIRECT,           \* direct pointers of an inode: 12 in the build
  PATH_SIZE          \* sizeof(tmp): 256 in the build

ASSUME Ext2Assumption ==
  /\ {inodes_per_group, inode_size, g_block_size, INODE} \subseteq Nat \ {0}
  /\ INODE <= inode_size /\ INODE <= g_block_size
  /\ {NDIRECT, PATH_SIZE} \subseteq Nat

EXT2_ROOT_INODE == 2

Shapes == {"fits", "zero", "too_long"}

(* What mkfs makes of a disk: the root is a directory, the entries of the  *)
(* directories are of inodes that are on the disk, or 0, and no name has a *)
(* slash.                                                                  *)
ASSUME DiskAssumption ==
  /\ DOMAIN Inodes \subseteq Nat \ {0}
  /\ EXT2_ROOT_INODE \in DOMAIN Inodes /\ Inodes[EXT2_ROOT_INODE].dir
  /\ \A n \in DOMAIN Inodes : Inodes[n].block \in Seq(DOMAIN DirBlocks \cup {""})
  /\ \A b \in DOMAIN DirBlocks :
       DirBlocks[b] \in Seq([inode : DOMAIN Inodes \cup {0}, name : Seq(Nat \ {SLASH}),
                             shape : Shapes])

VARIABLES
  g_superblock,   \* both as in the Outcome of ext2_mount
  g_group_desc

mountvars == <<g_superblock, g_group_desc>>

-----------------------------------------------------------------------------
(* What may go wrong in one command.  bad, table: the directory blocks and *)
(* the blocks of the inode tables the device fails to read, at most one as *)
(* a bound; room: whether the heap has a buffer of a block left.  A        *)
(* command frees each buffer before it asks for the next: all or none fit. *)

TableBlocks ==
  {<<n \div inodes_per_group,
     ((n % inodes_per_group) * inode_size + k) \div g_block_size>> :
     n \in {m - 1 : m \in DOMAIN Inodes}, k \in {0, INODE - 1}}

NoFault == [bad |-> {}, table |-> {}, room |-> TRUE]
Faults == {NoFault, [NoFault EXCEPT !.room = FALSE]}
          \cup {[NoFault EXCEPT !.table = {b}] : b \in TableBlocks}
          \cup {[NoFault EXCEPT !.bad = {b}] : b \in DOMAIN DirBlocks}

(* Unit u of the inode table of a group (external).                        *)
TableUnit(group, u) ==
  <<group * inodes_per_group + u \div inode_size + 1, u % inode_size>>

(* The first division of kread_inode: the superblock of no disk is zero,   *)
(* that of another system may have a zero in this place.                   *)
DivisorMayBeZero == g_superblock # "read"

-----------------------------------------------------------------------------
(* kread_inode of an inode number that is on the disk: [rc, copy], where   *)
(* copy is what it has put in the inode.                                   *)

Failed(rc) == [rc |-> rc, copy |-> << >>]

(* A bug to compare with: an inode that spans two blocks is cut.           *)
SpanForgotten(group, offset, fault) ==
  LET blk == offset \div g_block_size
  IN  IF <<group, blk>> \in fault.table THEN Failed(EXT2_ERR_IO)
      ELSE [rc |-> EXT2_OK,
            copy |-> [k \in 1..INODE |->
                        TableUnit(group, blk * g_block_size
                                           + ((offset + k - 1) % g_block_size))]]

(* The units of one block, or of two if the inode goes on in the next.     *)
CopyInode(group, offset, fault) ==
  LET blk == offset \div g_block_size
      off == offset % g_block_size
      spans == g_block_size - off < INODE
  IN  IF \/ <<group, blk>> \in fault.table
         \/ spans /\ <<group, blk + 1>> \in fault.table
      THEN Failed(EXT2_ERR_IO)
      ELSE [rc |-> EXT2_OK,
            copy |-> [k \in 1..INODE |->
                        TableUnit(group, blk * g_block_size + off + k - 1)]]

kread_inode(ino, fault) ==
  IF ino = 0 \/ g_group_desc = "null" THEN Failed(EXT2_ERR_INVALID)
  ELSE IF ~fault.room THEN Failed(EXT2_ERR_IO)
  ELSE CopyInode((ino - 1) \div inodes_per_group,
                 ((ino - 1) % inodes_per_group) * inode_size, fault)

IsDir(copy) == Inodes[copy[1][1]].dir
Pointers(copy) == Inodes[copy[INODE][1]].block

-----------------------------------------------------------------------------
(* Directories.                                                            *)

(* The blocks in the order of the direct pointers, null ones skipped.      *)
DirectBlocks(copy) ==
  LET block == Pointers(copy)
  IN  FlattenSeq([i \in 1..Min({NDIRECT, Len(block)}) |->
                    IF block[i] = "" THEN <<>> ELSE <<block[i]>>])

(* The entries before the first one that satisfies Stop.                   *)
EntriesBefore(entries, Stop(_)) ==
  LET stops == {i \in DOMAIN entries : Stop(entries[i])}
  IN  IF stops = {} THEN entries ELSE SubSeq(entries, 1, Min(stops) - 1)

(* What the search of a name steps over: an entry that says it is longer   *)
(* than the block is still compared, and is the last.                      *)
Searched(b) == EntriesBefore(DirBlocks[b], LAMBDA ent : ent.shape = "zero")

(* A bug to compare with: entries that were deleted are listed.            *)
ListedDeleted(b) ==
  LET entries == EntriesBefore(DirBlocks[b],
                   LAMBDA ent : ent.shape \in {"zero", "too_long"})
  IN  [i \in DOMAIN entries |-> entries[i].name]

(* kprocess_dir_block: the names a listing prints of a block.              *)
Listed(b) ==
  LET entries == EntriesBefore(DirBlocks[b],
                   LAMBDA ent : \/ ent.shape \in {"zero", "too_long"}
                                \/ ent.inode # 0 /\ ent.name = << >>)
  IN  FlattenSeq([i \in DOMAIN entries |->
                    IF entries[i].inode = 0 THEN <<>> ELSE <<entries[i].name>>])

(* The loop over the direct blocks in ext2_open and ext2_list, up to the   *)
(* first entry in use with this name: its inode number, 0 if none, or -1   *)
(* if a block cannot be read first.                                        *)
Matches(ent, tok) == ent.inode # 0 /\ ent.name = tok

FindIn(b, tok) ==
  LET hits == {i \in DOMAIN Searched(b) : Matches(Searched(b)[i], tok)}
  IN  IF hits = {} THEN 0 ELSE Searched(b)[Min(hits)].inode

Find(copy, tok, fault) ==
  FoldLeft(LAMBDA found, b : IF found # 0 THEN found
                             ELSE IF b \in fault.bad THEN -1
                             ELSE FindIn(b, tok),
           0, DirectBlocks(copy))

-----------------------------------------------------------------------------
(* Paths.                                                                  *)

(* kread_inode as its callers see it: every error of it is an I/O error.   *)
ReadOrFail(ino, fault) ==
  LET r == kread_inode(ino, fault)
  IN  IF r.rc = EXT2_OK THEN r ELSE Failed(EXT2_ERR_IO)

(* A bug to compare with: a block that cannot be read is passed over.      *)
DescendPast(cur, tok, last, fault) ==
  LET ino == Find(cur.copy, tok, fault)
      next == ReadOrFail(ino, fault)
  IN  IF ~fault.room THEN Failed(EXT2_ERR_IO)
      ELSE IF ino \in {-1, 0} THEN Failed(EXT2_ERR_PATH_NOT_FOUND)
      ELSE IF next.rc = EXT2_OK /\ ~last /\ ~IsDir(next.copy)
      THEN Failed(EXT2_ERR_INVALID)
      ELSE next

(* One round of the loop over the tokens: the directory cur has been       *)
(* reached, and tok is looked up in it.                                    *)
Descend(cur, tok, last, fault) ==
  LET ino == Find(cur.copy, tok, fault)
      next == ReadOrFail(ino, fault)
  IN  IF ~fault.room \/ ino = -1 THEN Failed(EXT2_ERR_IO)
      ELSE IF ino = 0 THEN Failed(EXT2_ERR_PATH_NOT_FOUND)
      ELSE IF next.rc = EXT2_OK /\ ~last /\ ~IsDir(next.copy)
      THEN Failed(EXT2_ERR_INVALID)
      ELSE next

Walk(path, fault) ==
  LET toks == Tokens(path)
  IN  IF Len(path) >= PATH_SIZE THEN Failed(EXT2_ERR_INVALID)
      ELSE FoldLeft(LAMBDA cur, i :
                      IF cur.rc # EXT2_OK THEN cur
                      ELSE Descend(cur, toks[i], i = Len(toks), fault),
                    ReadOrFail(EXT2_ROOT_INODE, fault),
                    [i \in 1..Len(toks) |-> i])

(* ext2_open: [rc, copy], the inode it has put in the handle.              *)
ext2_open(path, fault) ==
  IF path = <<SLASH>> THEN ReadOrFail(EXT2_ROOT_INODE, fault)
  ELSE LET r == Walk(path, fault)
       IN  IF r.rc = EXT2_OK /\ Tokens(path) = << >>
           THEN Failed(EXT2_ERR_INVALID) ELSE r

(* klist_dir_entries: [rc, names], the names it has called back with,      *)
(* those before a block that cannot be read included.                      *)
ListEntries(copy, fault) ==
  LET step(got, b) ==
        IF got.rc # EXT2_OK THEN got
        ELSE IF b \in fault.bad THEN [got EXCEPT !.rc = EXT2_ERR_IO]
        ELSE [got EXCEPT !.names = @ \o Listed(b)]
  IN  FoldLeft(step, [rc |-> EXT2_OK, names |-> << >>], DirectBlocks(copy))

ext2_list(path, fault) ==
  LET root == path \in {<<SLASH>>, << >>}
      r == IF root THEN ReadOrFail(EXT2_ROOT_INODE, fault) ELSE Walk(path, fault)
      nothing(rc) == [rc |-> rc, names |-> << >>]
  IN  IF r.rc # EXT2_OK THEN nothing(r.rc)
      ELSE IF (~root /\ Tokens(path) = << >>) \/ ~IsDir(r.copy)
      THEN nothing(EXT2_ERR_INVALID)
      ELSE ListEntries(r.copy, fault)

(* Whether a call gets as far as the division in kread_inode.              *)
ReachesInode(path) == path = <<SLASH>> \/ Len(path) < PATH_SIZE
=============================================================================
