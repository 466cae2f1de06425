SPECIFICATION Spec
CONSTANTS
  FlashSectors = 48
  EepromSectors = 2
  SectorsPerCluster = 4
  MediaBlocks = 82
  W = 65536
  AuxSectors = 8
  BootSectors = 8
  Pages = 4
  TickLimit = 255
  Default <- RealDefault
  Layouts <- RealLayouts
  Directories <- RealLayouts
  Leftovers <- Stale
  MaxTotal = 1
  MaxFailures = 1
INVARIANTS
  OnlyItsEntry
