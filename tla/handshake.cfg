SPECIFICATION Spec
CONSTANTS
  Transactions <- SomeTransactions
  Output <- SomeOutput
  Terminators = {"lf"}
  ByteNames <- AllNames
  MaxStarts = 2
INVARIANTS
  TypeOK
  OneDriver
  IInv
PROPERTIES
  TransferSpec
  EndsWhenExpired
  EndsWithInstrument
CHECK_DEADLOCK FALSE
