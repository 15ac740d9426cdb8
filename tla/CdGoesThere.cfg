CONSTANTS
  Inodes <- MCInodes
  DirBlocks <- MCDirBlocks
  Drives <- MCDrives
  Images <- MCImages
  inodes_per_group = 4
  inode_size = 3
  g_block_size = 4
  INODE = 2
  NDIRECT = 3
  PATH_SIZE = 8
  TEMP = 4
  INT_BITS = 7
  LONG_BITS = 9
  WORD = 4
  Args <- MCArgs
  MaxPath = 5
SPECIFICATION FileSpec
INVARIANT CdGoesThere
