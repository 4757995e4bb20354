SPECIFICATION Spec
CHECK_DEADLOCK FALSE
CONSTANTS
  Quantities = {1, 2, 3, 5, 9}
  UnitAmounts = {0, 1, 2, 3, 4, 7, 11, 13}
  MaxItems = 3
  Int4Max = 15
  SafeInteger = 16
INVARIANT ExactAmounts
INVARIANT ExactTotal
INVARIANT TokenizedIsValid
INVARIANT RetryIsSafe
