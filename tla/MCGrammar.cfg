SPECIFICATION Spec
CONSTANTS
  Alphabet <- MCAlphabet
  Literals <- MCLiterals
  Written <- MCWritten
  MaxDoc = 11
  Capacity = 11
  MayWrap = FALSE
  MinRoom = 4
  ChunkSizes = {4}
  MaxKeyBytes = 2
  MaxEntries = 2
  InternThreshold = 2
  NeedsWhitespace = FALSE
  Refusable = {}
  LimitChoices <- MCLimits
  Rejecting = {FALSE}
  MayReconfigure = FALSE
  MayReset = FALSE
  RetryAfterError = FALSE
  Documents <- MCDocuments
INVARIANTS
  AcceptedIsJson
  RefusedIsNotJson
PROPERTIES
  HandlerProtocol
CHECK_DEADLOCK FALSE
