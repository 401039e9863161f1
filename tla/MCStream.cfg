SPECIFICATION Spec
CONSTANTS
  Alphabet <- MCAlphabet
  Literals <- MCLiterals
  Written <- MCWritten
  MaxDoc = 40
  Capacity = 8
  MayWrap = TRUE
  MinRoom = 4
  ChunkSizes = {6}
  MaxKeyBytes = 2
  MaxEntries = 2
  InternThreshold = 2
  NeedsWhitespace = TRUE
  Refusable = {}
  LimitChoices <- MCLimits
  Rejecting = {FALSE}
  MayReconfigure = FALSE
  MayReset = TRUE
  RetryAfterError = FALSE
INVARIANTS
  LocatorExact
  LeftoverIsOneToken
  TooSmallOnlyForOneToken
  BytesCountedOnce
PROPERTIES
  EventsExact
CHECK_DEADLOCK FALSE
