SPECIFICATION Spec
CONSTANTS
  Alphabet <- MCAlphabet
  Literals <- MCLiterals
  Written <- MCWritten
  MaxDoc = 10
  Capacity = 10
  MayWrap = TRUE
  MinRoom = 4
  ChunkSizes = {4}
  MaxKeyBytes = 3
  MaxEntries = 2
  InternThreshold = 2
  NeedsWhitespace = FALSE
  Refusable = {}
  LimitChoices <- MCLimits
  Rejecting = {FALSE}
  MayReconfigure = FALSE
  MayReset = FALSE
  RetryAfterError = FALSE
  Documents <- MCDocuments
INVARIANTS
  AcceptedIsJson
  RefusedIsNotJson
  BufferHolds
PROPERTIES
  ContentInWholeCharacters
CHECK_DEADLOCK FALSE
