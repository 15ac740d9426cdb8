CONSTANTS
  KBD_BUFFER_SIZE = 3
  Keys = {30,58}
  Shifts = {42, 54}
  MaxPending = 2
SPECIFICATION FairSpec
INVARIANTS NeverStuck NoPhantomShift
PROPERTIES ImplementsQueue CharactersAreRead
