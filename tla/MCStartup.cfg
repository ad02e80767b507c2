SPECIFICATION StartupSpec
CONSTANTS
  PAGE = 4
  WRAP = 64
  MB = 16
  BITS = 2
  LOWMEM = 12
  MaxEnd = 9
  BYTE = 4
  SIZES = 64
  SLOTS = 2
  FUNCS = 3
  NBARS = 3
  MAXOUT = 7
  WIDTH = 2
  Times = {7, 1042}
  Bioses <- Regular
INVARIANTS FreeIsExact BitmapIsSafe EveryFunctionFound LogReadsBack BarsExact
CHECK_DEADLOCK FALSE
