SPECIFICATION MemorySpec
CONSTANTS
  BlockSize = 24
  ImageStart = 1
  Uses <- MCAnyUses
  Bases <- MCAnyBss
  MaxBlocks = 16
  Sizes <- MCSizes
  Slack = 3
  HeapStart = 48
  HeapEnd = 120
  Requests <- MCRequests
  Levels = 4
  Fanout = 3
  LowPages = 16
  FbAddr = 600
  FbSize = 20
  KernelPhys = 1
  KernelVirt = 72
  KernelPages = 2
  MmioBase = 74
  Devices <- MCDevices
INVARIANT BitmapSafe
