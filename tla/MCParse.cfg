SPECIFICATION ParseSpec
CONSTANTS
  Alphabet <- MCAlphabet
  Literals <- MCLiterals
  Written <- MCWritten
  MaxDoc = 20
  Capacity = 8
  MayWrap = TRUE
  MinRoom = 4
  ChunkSizes = {4}
  MaxKeyBytes = 2
  MaxEntries = 2
  InternThreshold = 2
  NeedsWhitespace = TRUE
  Refusable <- MCRefusable
  LimitChoices <- MCLimits
  Rejecting = {TRUE, FALSE}
  MayReconfigure = TRUE
  MayReset = TRUE
  RetryAfterError = FALSE
  Documents <- MCDocuments
INVARIANTS
  TypeOK
  RingHasSpare
  ParseIsExact
PROPERTIES
  ParseEnds
CHECK_DEADLOCK FALSE
