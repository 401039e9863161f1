SPECIFICATION Spec
CONSTANTS
  Keys <- MCKeys
  NoKey = 0
  HashOf <- MCHashes
  DefaultCapacity = 4
  MaxEntries = 7
INVARIANTS
  SlotIsFree
PROPERTIES
  ImplementsSet
  CallsEnd
CHECK_DEADLOCK FALSE
