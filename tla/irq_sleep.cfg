SPECIFICATION Spec
CONSTANTS
  U32 = 64
  TicksPerSec = 2
  Lines = {0, 1, 8, 12}
  Spurious = {15}
  Sleeps = {0, 1}
  MaxTicks = 7
INVARIANT
  SleepNotTooLong
