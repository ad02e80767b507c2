SPECIFICATION MCSpec
CONSTANTS
  KBDBUF = 3
  CharKeys = {a}
  DeadKeys = {up, down}
  ShiftKeys = {lshift, rshift}
  GreyKeys = {up, down}
  MaxWire = 2
  Prefix = Prefix
  None = None
  Typewriter = {a, lshift}
  Cursors = {lshift, rshift, up, down}
INVARIANT NoStuckShift
PROPERTIES FullDrains ImplementsKeyQueue
