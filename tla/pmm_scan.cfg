SPECIFICATION ScanSpec
CONSTANTS
  U32 = 64
  KiB = 2
  PMM_BLOCK_SIZE = 4
  ByteBits = 2
  WordBits = 4
  BitmapBits = 13
  LargeBlocks = 2
  mem_lower = 8
  mem_upper = 18
  ModEnds <- MCModEnds
  KERNEL_END_PHYS = 6
  ImageStart = 8
  Regions = {}
  MaxRequest = 3
INVARIANT
  ScansAreClosedForms
