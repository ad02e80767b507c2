SPECIFICATION Spec
CONSTANTS
  fileA = fileA
  fileB = fileB
  dataA = dataA
  dataB = dataB
  Names = {fileA, fileB}
  Data = {dataA, dataB}
  Sizes = {1, 2, 3}
  KFS_MAX_FILES = 3
  MAX_CAT = 2
  COUNT = 3
  DiskSectors = 6
  InitialFiles <- ImageFiles
  Blank = Blank
INVARIANTS TypeOK DiskIsPrefix NoOverlap CommittedDataIntact CatShowsTheFile
PROPERTIES CommittedStable
