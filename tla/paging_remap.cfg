SPECIFICATION PagingSpec
CONSTANTS
  U32 = 64
  KiB = 4
  PMM_BLOCK_SIZE = 4
  ByteBits = 2
  WordBits = 2
  BitmapBits = 8
  LargeBlocks = 2
  mem_lower = 2
  mem_upper = 6
  ModEnds <- MCNoModules
  KERNEL_END_PHYS = 6
  ImageStart = 4
  Regions <- MCFourFrames
  MaxRequest = 2
  Directory = 3
  Entries = 2
  MaxPages = 3
  Watched = {1}
  Careful = FALSE
PROPERTY
  NoRemapping
