SPECIFICATION MCSpec
CONSTANTS
  Root = "/"
  RoutePaths <- MCRoutePaths
  UriPaths <- MCUriPaths
  Handlers = {h1, h2}
  PathWords <- MCWords
  WordsOf <- MCWordsOf
  Matches <- MCMatches
  BadRegex <- MCBadRegex
  ParamType <- MCParamType
  ValueType <- MCValueType
  MaxRoutes = 3
  MaxRequest = 6
  MaxLines = 4
  Heads <- MCHeads
  UrlChars = {"x", "y", "?", ";", "="}
  MaxUrl = 7
  Buffer = 9
  Sizes = {0, 1, 2}
  Requests <- MCRequests
  Files <- MCFiles
  PathSize = 3
  Notice = 4
  MaxCalls = 3
INVARIANTS
  RoutesAnswer
  RequestRead
  
CHECK_DEADLOCK FALSE
