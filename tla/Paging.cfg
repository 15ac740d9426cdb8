CONSTANTS
  total_pages = 8
  KERNEL_PAGES = 5
  REF_WRAP = 65536
  MaxReleases = 1
  Indexes = {0, 1, 2}
  Pages <- MCPages
  Area <- MCArea
  Devices = {8, 9}
  Roots = {0, 1}
  boot_pml4 = 0
  pml3_table = 2
  pml2_table <- MCPml2
  HIGH = 1
SPECIFICATION VmSpec
INVARIANTS FreeListExact CountersExact InUseStays TablesApart
PROPERTIES OnlyAskedChanges CacheStaysFresh
