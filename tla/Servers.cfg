SPECIFICATION MCSpec
CONSTANTS
  Configs = {"a", "a2", "c"}  NameOf <- MCName  KindOf <- MCKind  PoolCallers = {x}  NoServer = none
  Ids = {i, j}  Capabilities = {"c", "d"}  Transports = {"stdio", "http"}  Entries <- MCEntries
  Subscribers = {s}  ChannelSize = 1
  Hosts = {h1, h2}  Methods = {"a.x", "a.y"}  SpaceOf <- MCSpace  LastOf <- MCLast
  BatchSize = 1  MaxOffers = 2  NoHost = none
  Peers = {p, q}  FedTools = {t}  FedCallers = {x, y}  NoPeer = none
  ServerIds = {i}  Operators = {x, y}  MaxProcesses = 3
  Readers = {p, q}  MaxFeed = 2  Listing <- MCListing  NoListing = none
  Commanders = {p, q}  ServerNames = {"a", "b"}  Alias <- MCAlias  MaxServers = 2
  Backends <- MCBackends  ToolNames <- MCToolNames  Exposed <- MCExposed  Unlisted = none
  Files <- MCFiles  Schemas = {t, u}  Owners = {o, p}
INVARIANTS
   TablesStaySound
PROPERTIES
  RoutesAreFresh 
CHECK_DEADLOCK FALSE
