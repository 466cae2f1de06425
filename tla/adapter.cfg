SPECIFICATION Spec
CONSTANTS
  Instruments <- SomeInstruments
  NoInstrument = NoInstrument
  Blank = Blank
  Internal = Internal
  Cells = 2
  AddrTexts <- SomeAddrTexts
  TermChars = {"etx", "lf"}
  MaxExchanges = 2
  MaxFailures = 2
  MaxCommands = 2
INVARIANTS
  TypeOK
  NamesInv
  ReportedNameIsLast
  SearchFinds
  AddressAsTyped
PROPERTIES
  BootEnds
CHECK_DEADLOCK FALSE
