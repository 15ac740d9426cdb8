CONSTANTS
  g_block_size = 2
  NDIRECT = 1
  Sizes = {9, 32}
  Lengths = {3, 40}
SPECIFICATION Spec
INVARIANTS
  MapIsTree
  ReadsTheFile
  NoMisplacedData
  PosIsDelivered
