SPECIFICATION Spec
CONSTANTS
  FlashSectors = 2
  EepromSectors = 1
  SectorsPerCluster = 1
  MediaBlocks = 7
  W = 8
  AuxSectors = 1
  BootSectors = 1
  Pages = 2
  TickLimit = 1
  Default <- SmallDefault
  Layouts <- SmallLayouts
  Directories <- SmallDirectories
  Leftovers <- Stale
  MaxTotal = 2
  MaxFailures = 1
INVARIANTS
  TypeOK
  BootLoaderIntact
  UpdateComplete
  ReadsBack
  FilesChained
PROPERTIES
  SettingsUntouched
  ExitAfterQuiet
  EjectEnds
