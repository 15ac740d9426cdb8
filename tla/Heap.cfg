\* Header and split threshold in the build's ratio 1 : 2, in units of 32 bytes.
CONSTANTS
  HEAP_BASE = 1
  HEAP_SIZE = 18
  HDR = 1
  MIN_SPLIT = 2
  WORDS = 4096
  Requests = {0, 1, 3, 5}
  Arrays <- MCArrays
SPECIFICATION Spec
INVARIANTS HeapWellFormed HeapCoalesced HeldIsAllocated UsedIsSum AllFreedIsInitial
PROPERTIES ImplementsAllocator
