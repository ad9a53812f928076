SPECIFICATION Spec
CONSTANTS
  U32 = 64
  KiB = 2
  PMM_BLOCK_SIZE = 4
  ByteBits = 2
  WordBits = 4
  BitmapBits = 16
  LargeBlocks = 2
  mem_lower = 8
  mem_upper = 16
  ModEnds <- MCModEnds
  KERNEL_END_PHYS = 12
  ImageStart = 12
  Regions <- MCRegions
  MaxRequest = 3
INVARIANTS
  TypeOK
  NoDoubleAllocation
  HeldAreMarked
  BlockZeroReserved
  OnlyUsableGiven
PROPERTIES
  AccountingExact
  ImplementsFrames
