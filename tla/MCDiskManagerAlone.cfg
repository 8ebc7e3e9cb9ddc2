CONSTANTS
  c1 = c1
  c2 = c2
  c3 = c3
  b1 = b1
  b2 = b2
  b3 = b3
  b4 = b4
  Clients = {c1}
  Program <- MCAlone
  DiskTask = DiskTask
  NoRequest = NoRequest
  NULL = NULL
  NumBlocks = 4
  Buffers = {b1, b2, b3, b4}
  Data = {0, 1, 2, 3, 9}
  Disk0 <- MCDisk0
  Memory0 <- MCMemory0
  MainJoins = TRUE
  ReuseFreed = TRUE
SPECIFICATION Spec
INVARIANT WokenIsServed
PROPERTY ImplementsBlockDevice
