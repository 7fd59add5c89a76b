SPECIFICATION MCSpec
CONSTANTS
  Clients = {c, d}  MaxConnections = 2  MaxInflight = 2
  Singles = {s}  Entries = 2  BatchConcurrency = 1
  LoopServers = {"a", "b", "c"}  TransportOf <- MCTransport  MaxLines = 2
  Conns = {c, d}  MaxSent = 1  Peered = {s, t, u}  MaxSize = 2
  MinBody = 2  MaxInput = 7  ReadSize = 2  MaxOverlap = 2  MaxPending = 4
  AllRunes <- MCRunes  Height <- MCHeight  PatternTrees <- MCTrees  KeyTree <- MCKeyTree  KeyWords <- MCKeyWords  Words <- MCWords
  FoldsTo <- MCFoldsTo  EscapeOf <- MCEscapeOf  Invisible = {"~"}
  MaxPureLits = 4  MaxTriggerSets = 2  MinLiteral = 2
  Scanners = {x, y}  Payloads = {"d"}  Patterns = {1, 2}  PatternName <- MCPatternName
  Weight <- MCWeight  Hits <- MCHits  Defaults <- MCDefaults
  Configs <- MCConfigs  NoPolicies <- MCNoPolicies  MaxRiskScore = 100  DefaultWeight = 50
  Watchers = {w}  OnDarwin = FALSE  MaxLoops = 2
  Listeners = {l, m}
  Asks = {x, y}  AskHosts <- MCAskHosts  BuiltIn <- MCBuiltIn  ProviderFiles <- MCProviderFiles
  ValidNames = {"mine", "anthropic", "other"}  Broken = broken  Malformed = malformed
  AskBodies <- MCAskBodies  MaxItems = 3
  ResultBlocks <- MCResultBlocks  MaxBlocks = 2  Structured <- MCStructured  MinCap = 2  CapSlack = 1
  Caps = {0, 1, 3}  Searched = {1, 2}  QueryLengths = {0, 2, 3, 144}
  WordHits = {0, 2, 3, 143, 144}  Limits = {1, 2}

  
PROPERTIES
  NothingIsCutShort 
CHECK_DEADLOCK FALSE
