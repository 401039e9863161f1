SPECIFICATION Spec
CONSTANTS
  Alphabet <- MCAlphabet
  Literals <- MCLiterals
  Written <- MCWritten
  MaxDoc = 8
  Capacity = 8
  MayWrap = FALSE
  MinRoom = 4
  ChunkSizes = {4}
  MaxKeyBytes = 2
  MaxEntries = 2
  InternThreshold = 2
  NeedsWhitespace = FALSE
  Refusable = {}
  LimitChoices <- MCLimits
  Rejecting = {FALSE}
  MayReconfigure = FALSE
  MayReset = FALSE
  RetryAfterError = FALSE
PROPERTIES
  ContentEndsAtLocator
CHECK_DEADLOCK FALSE
