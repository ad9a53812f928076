SPECIFICATION FairSpec
CONSTANTS
  U32 = 64
  TicksPerSec = 2
  Lines = {0, 1, 8, 12}
  Spurious = {15}
  Sleeps = {1, 2}
  MaxTicks = 7
INVARIANTS
  IrqTypeOK
  InterruptsReachTheirGate
  NothingLeftInService
  SleepNotTooLong
PROPERTIES
  SleepLongEnough
  EveryIrqServed
  KeysRead
  SleepEnds
