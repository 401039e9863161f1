SPECIFICATION Spec
CONSTANTS
  Alphabet <- MCAlphabet
  Literals <- MCLiterals
  Written <- MCWritten
  MaxDoc = 40
  Capacity = 7
  MayWrap = TRUE
  MinRoom = 4
  ChunkSizes = {4}
  MaxKeyBytes = 2
  MaxEntries = 2
  InternThreshold = 2
  NeedsWhitespace = FALSE
  Refusable = {}
  LimitChoices <- MCLimits
  Rejecting = {TRUE, FALSE}
  MayReconfigure = FALSE
  MayReset = FALSE
  RetryAfterError = FALSE
INVARIANTS
  NoDuplicateKeyDelivered
  InternedKeysAreText
PROPERTIES
  DuplicatesAreDuplicates
CHECK_DEADLOCK FALSE
