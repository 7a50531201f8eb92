SPECIFICATION LibSpec
CONSTANTS
  Parts = {"xml2syb", "client", "reader", "gateway", "list", "array", "config", "socket", "text", "queue", "forward"}
  MaxSybBinds = 2
  MaxTries = 2
  MaxMsgs = 1
  RetryStatus = {}
  MaxSets = 1
  MaxRows = 2
  MaxRaised = 2
  MaxBinds = 2
  MaxBreaks = 2
  MaxCalls = 2
  Files = {"rows", "failed rows", "params", "status", "bad"}
  Reco <- MCReco
  Letters <- MCLetters
  MaxLength = 2
  MaxString = 6
  MaxChunk = 2
  Timeout = 1
  MaxMessages = 2
  Replies = {"rows", "params", "status", "bad"}
  MaxGxCalls = 2
  MaxGaps = 2
  Data = {d1, d2, d3}
  ArrayKeys = {1, 2, 3}
  MaxAllocatable = 4
  Growth = 2
  InitialSize = 1
  MaxOps = 7
  Lines <- MCLines
  MaxLines = 3
  Sections = {"s"}
  ParamNames = {"a"}
  Prefixed <- MCPrefixed
  NumberWords = {"1", "2"}
  MaxOpens = 2
  RetryLimits = {0, 1, 3}
  MessageLength = 3
  MaxSockCalls = 3
  Alphabets <- MCAlphabets
  MaxText = 7
  TableSize = 2
  MaxTexts = 2
  MaxItems = 3
  QueueBound = 2
  MaxErrors = 2
  MaxTroubles = 2
  MaxForwards = 2
  ResponseLength = 4
  TailLength = 3
  Window = 2
  MaxFaults = 1
INVARIANTS LibTypeOK ResponsesParse OneExecution NoMessageLost GxReportIsOwn
INVARIANTS ContainersAreTrue SocketsAreTrue InputIsTrue CallsAreKept AnswerIsOwn
PROPERTY CallsEnd
CHECK_DEADLOCK FALSE
