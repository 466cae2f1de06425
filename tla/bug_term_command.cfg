SPECIFICATION Spec
CONSTANTS
  Instruments <- SomeInstruments
  NoInstrument = NoInstrument
  Blank = Blank
  Internal = Internal
  Cells = 2
  AddrTexts <- SomeAddrTexts
  TermChars = {}
  MaxExchanges = 2
  MaxFailures = 2
  MaxCommands = 2
INVARIANTS
  TermCommandWorks
CHECK_DEADLOCK FALSE
