CONSTANTS
  Code <- MCCode
  Digit <- MCDigit
  Letter <- MCLetter
  MaxNumber = 20
  MaxEpoch = 15
  Compared <- MCCompared
  Third <- MCThird
SPECIFICATION Spec
INVARIANTS
  AgreesWithPolicy
  IsOrder
  ConstraintsPartition
CHECK_DEADLOCK FALSE
