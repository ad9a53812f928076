SPECIFICATION FairFsSpec
CONSTANTS
  Block = 2
  MAX_RAMDISK_FILES = 3
  Archives <- MCArchives
  Names <- MCNames
  Paths <- MCPaths
  MaxDirectories = 3
INVARIANTS
  FsTypeOK
  LookupResolves
  MountKeepsToTheTree
  ReadsOwnMember
PROPERTIES
  EntriesStay
  LookupEnds
