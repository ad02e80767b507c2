SPECIFICATION Spec
CONSTANTS
  max_pages = 8
  WORD = 3
  ReservedMaps <- Maps
  MaxRequest = 3
INVARIANTS TypeOK BitmapExact
PROPERTIES RetryIsExact AllocReturns ImplementsPageAlloc
