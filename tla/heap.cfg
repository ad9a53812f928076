SPECIFICATION HeapSpec
CONSTANTS
  U32 = 256
  KiB = 18
  PMM_BLOCK_SIZE = 18
  ByteBits = 2
  WordBits = 2
  BitmapBits = 6
  LargeBlocks = 2
  mem_lower = 1
  mem_upper = 5
  ModEnds <- MCModEnds
  KERNEL_END_PHYS = 15
  ImageStart = 10
  Regions <- MCThreePages
  MaxRequest = 2
  sizeof_major = 3
  sizeof_minor = 3
  ALIGNMENT = 2
  ALIGN_INFO = 2
  l_pageSize = 18
  l_pageCount = 1
  Requests = {0, 4, 20}
  Objects <- MCObjects
INVARIANTS
  MajorsLinked
  PagesAccounted
