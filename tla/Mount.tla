------------------------------- MODULE Mount -------------------------------
(***************************************************************************)
(* ext2_mount of sys/fs/ext2/ext2.c on the drive of Ata: the superblock,   *)
(* then the table of group descriptors behind it.  An image is what the    *)
(* superblock on the disk says; sizes are in bytes, as in the build.       *)
(***************************************************************************)
EXTENDS Ata

CONSTANT Images

(* The code adds the numbers of blocks in 32 bits: here the sum fits.       *)
ASSUME MountAssumption ==
  \A image \in Images :
    /\ image.magic \in BOOLEAN
    /\ {image.log_block_size, image.blocks_count, image.blocks_per_group} \subseteq Nat
    /\ image.blocks_count + image.blocks_per_group <= 2147483647

SECTOR == 512
SUPERBLOCK == 1024           \* offset and size of the superblock
GROUP_DESC == 32             \* sizeof(ext2_group_desc_t)

EXT2_OK == 0
EXT2_ERR_IO == -1
EXT2_ERR_BAD_MAGIC == -2
EXT2_ERR_UNSUPPORTED == -3
EXT2_ERR_PATH_NOT_FOUND == -4
EXT2_ERR_INVALID == -5

BlocksFor(bytes, size) == (bytes + size - 1) \div size

BlockSize(image) == 1024 * 2^image.log_block_size

(* Of the table, in blocks.                                                *)
TableBlocksOf(image) ==
  LET groups == BlocksFor(image.blocks_count, image.blocks_per_group)
  IN  BlocksFor(groups * GROUP_DESC, BlockSize(image))

(* Faulty variant: the table is in block 2, whatever the size of a block.  *)
AlwaysBlockTwo(image) == 2

FirstTableBlock(image) == IF BlockSize(image) = 1024 THEN 2 ELSE 1

kread_block(drive, image, block) ==
  ata_pio_read(drive, (block * BlockSize(image)) \div SECTOR, BlockSize(image) \div SECTOR)

(* How a mount ends: "returns" with rc, "waits" for a drive, or "divides"  *)
(* by zero; what it leaves in g_superblock ("zero", "foreign" without the  *)
(* magic, "read") and g_group_desc ("null", "unread" after a failure,      *)
(* "read"), and the sectors it has put into the table.                     *)
Outcome(end, rc, superblock, group_desc, table) ==
  [end |-> end, rc |-> rc, superblock |-> superblock, group_desc |-> group_desc,
   table |-> table]

NotMounted == Outcome("returns", EXT2_ERR_IO, "zero", "null", <<>>)

EndOf(read) == IF read.end = "waits" THEN "waits" ELSE "returns"

ReadTable(drive, image) ==
  LET step(read, block) ==
        IF read.end # "data" THEN read
        ELSE LET next == kread_block(drive, image, block)
             IN  [next EXCEPT !.buf = read.buf \o @]
      read == FoldLeft(step, [end |-> "data", buf |-> <<>>],
                       [i \in 1..TableBlocksOf(image) |-> FirstTableBlock(image) + i - 1])
  IN  IF read.end = "data" THEN Outcome("returns", EXT2_OK, "read", "read", read.buf)
      ELSE Outcome(EndOf(read), EXT2_ERR_IO, "read", "unread", read.buf)

(* room: whether kmalloc has the space for the table; for an empty one it  *)
(* gives none.                                                             *)
ext2_mount(drive, image, room) ==
  LET sb == ata_pio_read(drive, SUPERBLOCK \div SECTOR, 2)
      refused(rc) == Outcome("returns", rc, "read", "null", <<>>)
  IN  IF sb.end # "data" THEN [NotMounted EXCEPT !.end = EndOf(sb)]
      ELSE IF ~image.magic
      THEN [refused(EXT2_ERR_BAD_MAGIC) EXCEPT !.superblock = "foreign"]
      ELSE IF image.log_block_size > 2 THEN refused(EXT2_ERR_UNSUPPORTED)
      ELSE IF image.blocks_per_group = 0 THEN [refused(EXT2_ERR_IO) EXCEPT !.end = "divides"]
      ELSE IF ~room \/ TableBlocksOf(image) = 0 THEN refused(EXT2_ERR_IO)
      ELSE ReadTable(drive, image)

-----------------------------------------------------------------------------

(* Where the table starts: at the first block behind the superblock.       *)
TableStart(image) == BlocksFor(2 * SUPERBLOCK, BlockSize(image)) * BlockSize(image)

(* The descriptor of every group, from its first byte to its last, is in   *)
(* the table at the place kread_inode looks for it.                        *)
HasDescriptors(outcome, image) ==
  \A g \in 0..(BlocksFor(image.blocks_count, image.blocks_per_group) - 1) :
    \A byte \in {g * GROUP_DESC, g * GROUP_DESC + GROUP_DESC - 1} :
      /\ byte \div SECTOR < Len(outcome.table)
      /\ outcome.table[byte \div SECTOR + 1] = (TableStart(image) + byte) \div SECTOR

(* A mount says that it worked exactly when the disk is one it can use and *)
(* all it needs could be read, as no sector is whose number takes more     *)
(* than 28 bits, and then has every descriptor; it returns unless the      *)
(* drive stays busy or the superblock says that groups have no blocks.     *)
MountIsComplete ==
  \A drive \in Drives, image \in Images, room \in BOOLEAN :
    LET outcome == ext2_mount(drive, image, room)
        size == BlockSize(image)
        fits == /\ image.magic /\ image.log_block_size <= 2
                /\ image.blocks_per_group > 0 /\ image.blocks_count > 0
        needed == {2, 3} \cup
          {(TableStart(image) + i) \div SECTOR :
             i \in {SECTOR * n : n \in 0..(TableBlocksOf(image) * (size \div SECTOR) - 1)}}
    IN  /\ outcome.end = "returns" /\ outcome.rc = EXT2_OK <=>
             /\ fits /\ room /\ drive.kind = "ready"
             /\ needed \subseteq 0..LBA_LIMIT /\ drive.bad \cap needed = {}
        /\ outcome.rc = EXT2_OK => HasDescriptors(outcome, image)
        /\ outcome.end = "waits" => drive.kind = "busy"
        /\ outcome.group_desc = "read" => outcome.rc = EXT2_OK
=============================================================================
