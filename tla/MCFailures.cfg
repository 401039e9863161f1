SPECIFICATION Spec
CONSTANTS
  Alphabet <- MCAlphabet
  Literals <- MCLiterals
  Written <- MCWritten
  MaxDoc = 20
  Capacity = 6
  MayWrap = FALSE
  MinRoom = 4
  ChunkSizes = {4, 6}
  MaxKeyBytes = 2
  MaxEntries = 2
  InternThreshold = 2
  NeedsWhitespace = TRUE
  Refusable <- MCRefusable
  LimitChoices <- MCLimits
  Rejecting = {TRUE, FALSE}
  MayReconfigure = TRUE
  MayReset = FALSE
  RetryAfterError = TRUE
INVARIANTS
  StacksAgree
  LocatorExact
  TokensAdvance
  KeysOnlyInObjects
  RoomToDecode
CHECK_DEADLOCK FALSE
