SPECIFICATION Spec
CONSTANTS
  Digits = {0, 1, 2, 5, 7, 8}
  MaxI64 = 127
  MaxI32 = 15
  ExponentCap = 10
  MaxDigits = 5
INVARIANTS
  BigIsTooLarge
CHECK_DEADLOCK FALSE
