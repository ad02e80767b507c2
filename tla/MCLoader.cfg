SPECIFICATION Spec
CONSTANTS
  HDR = 1
  BMPHDR = 2
  SECTOR = 3
  PAGE = 6
  COUNT = 4
  max_pages = 7
  Reserved = {0, 4}
  MaxProgram = 16
  Programs <- AllPrograms
  Pictures <- AllPictures
  Others <- Texts
  FBW = 2
  FBH = 2
  Places <- Corners
  NoFile = NoFile
INVARIANTS ImageExact WritesStayNear PagesReturned PictureExact
