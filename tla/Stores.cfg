SPECIFICATION MCSpec
CONSTANTS
  Payers = {x, y}  Amounts = {1, 2}  Daily = 3  ProjectMonthly = 4  ThresholdPct = 50
  Lookers = {l1, l2}  Janitor = janitor  Keys = {"ask", "plan"}  ToolOf <- PromptTools
  MaxEntries = 1  MaxJobs = 1
  StoreUsers = {p, q}  Ids = {a, b}  Vecs = {"near", "far"}  Distance <- VecDistance
  NoVec = none  NoTx = notx  Similarities <- Cosines  MaxRows = 4
  Fetchers = {"g1", "g2"}  Proxies = {"p1", "p2"}  ProxyOf <- OneEach  MaxVersion = 2
  Servers <- Names  Hashes = {"h"}
  Instances = {i, j}  NoFile = none  TornFile = torn
  Tools = {t, u}  Window = 1  Interval = 2  MaxTime = 4
INVARIANTS
  ProjectWithinBudget AccountsAreExact  
PROPERTIES
  ListsGoForward OthersKeepTheirFiles StatusHeals
CHECK_DEADLOCK FALSE
