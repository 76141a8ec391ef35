SPECIFICATION PathSpec
CONSTANTS
  TokenIds = {i1}
  Refreshes = {r1, r2}
  MaxToken = 3
  NoContent = NoContent
  Bases = {b1}
  NoList = NoList
  MaxCalls = 1
  RemoteRetries = 3
  FallbackRetries = 1
  MaxConn = 3
  MaxBuffer = 2
  MaxLines = 3
  MaxLength = 4
INVARIANTS
  AcceptsTheFile
  RotatedOnce
  LocalRunsOnce
  SentWhereServed
  TimedOutDropped
  PolicyDecides
  FramesIntact
PROPERTIES
  RefreshesEnd
  CallsEnd
  HandlersDrain
  ChildEnds
CHECK_DEADLOCK FALSE
