SPECIFICATION Spec
CONSTANTS
  Alphabet <- MCAlphabet
  Literals <- MCLiterals
  RingCapacity = 7
  Indents = {0, 1, 2}
  Strings <- MCStrings
  NumberTexts <- MCNumbers
  MaxWritten = 7
  WrittenDocuments <- MCDocuments
  Longest = 11
INVARIANTS
  PlaceIsKept
  NeverBeyondTheRing
  WrittenIsJson
  IndentFollowsNesting
  InvalidMeansNever
PROPERTIES
  TakesAllThatFits
  BlockedCallEnds
CHECK_DEADLOCK FALSE
