SPECIFICATION MemorySpec
CONSTANTS
  BlockSize = 24
  ImageStart = 1
  Uses <- MCHighUses
  Bases <- MCHighBss
  MaxBlocks = 23
  Sizes <- MCSizes
  Slack = 3
  HeapStart = 408
  HeapEnd = 480
  Requests <- MCRequests
  Levels = 4
  Fanout = 3
  LowPages = 23
  FbAddr = 600
  FbSize = 20
  KernelPhys = 1
  KernelVirt = 72
  KernelPages = 2
  MmioBase = 74
  Devices <- MCDevices
INVARIANTS FramesClear BlocksDisjoint FreeListSound KernelMapped
PROPERTIES RefinesFramePool HandsOutUnowned RefinesAddressSpace

CHECK_DEADLOCK FALSE
