SPECIFICATION MCSpec
CONSTANTS
  Callers = {a, b}  Threshold = 2  HalfOpenMax = 2  Cooldown = 2
  Workers = {w}  QueueSize = 1  RateMax = 2  Window = 1  Orphan = orphan
  Requests = {r1, r2, r3}  MaxQueue = 2  MaxBatch = 2
  Askers = {a, b, c}  Limiters = {l1, l2, l3, l4}  NoLimiter = none
  Embeds = {d, e}  Bounded = {d}  EmbedWorkers = {w}  EmbedQueue = 1  NoEmbed = noembed
  Users = {u, v}  Conns = {k1, k2}  MaxSize = 1  NoConn = none
INVARIANTS
  TripsOnCount RequestsAreAnsweredOnce OneLimiterRuns ConnectionsAreSound
PROPERTIES
  PoolUsesBreaker NobodyWaitsForEver
CHECK_DEADLOCK FALSE
