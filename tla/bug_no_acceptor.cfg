SPECIFICATION Spec
CONSTANTS
  Transactions <- SomeTransactions
  Output <- SomeOutput
  Terminators = {"lf"}
  ByteNames <- AllNames
  MaxStarts = 2
PROPERTIES
  NdacChecked
CHECK_DEADLOCK FALSE
