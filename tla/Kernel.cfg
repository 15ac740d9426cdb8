\* A kernel that has halted, hangs in a loop or ran out of stack stops.
CONSTANTS
  Infos <- MCInfos
  NoInfo = NoInfo
  Idle = Idle
  Vectors = {0, 3, 14}
  PanicArgs <- MCPanicArgs
  seconds_to_reboot = 2
  BUFF = 5
  DUMP = 8
  Garbage = {0, 55}
  Registers <- MCRegisters
  INT_BITS = 6
  LONG_BITS = 9
  Drives <- MCDrives
  Images <- MCImages
  MaxNested = 2
SPECIFICATION Spec
CHECK_DEADLOCK FALSE
INVARIANTS MountReadsDisk ReportShowsNumbers
PROPERTIES PanicIsFinal CrashReboots BootDecides
