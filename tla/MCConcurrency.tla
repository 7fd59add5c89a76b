---------------------------- MODULE MCConcurrency ----------------------------
(***************************************************************************)
(* The modules of pkg/concurrent and pkg/connpool, checked side by side:   *)
(* `part' says which of them a behaviour is about, and the others stay as  *)
(* they began.                                                             *)
(***************************************************************************)
EXTENDS ConcurrentPool, RequestQueues, ConnPool, EmbedderPool

VARIABLE part

mcVars == <<part, concurrentVars, gatherVars, limiterVars, connVars, embedVars>>

MCInit == /\ part \in {"breaker", "pool", "gather", "limiters", "connections", "embedder"}
          /\ CPInit /\ RQInit /\ SLInit /\ CNInit /\ EPInit

MCNext ==
  /\ UNCHANGED part
  /\ \/ part = "breaker" /\ CBNext /\ UNCHANGED <<poolVars, gatherVars, limiterVars, connVars, embedVars>>
     \/ part = "pool" /\ CPNext /\ UNCHANGED <<gatherVars, limiterVars, connVars, embedVars>>
     \/ part = "gather" /\ RQNext /\ UNCHANGED <<concurrentVars, limiterVars, connVars, embedVars>>
     \/ part = "limiters" /\ SLNext /\ UNCHANGED <<concurrentVars, gatherVars, connVars, embedVars>>
     \/ part = "connections" /\ CNNext /\ UNCHANGED <<concurrentVars, gatherVars, limiterVars, embedVars>>
     \/ part = "embedder" /\ EPNext /\ UNCHANGED <<concurrentVars, gatherVars, limiterVars, connVars>>

\* The fairness of the parts speaks of steps that none of them can take as it begins;
\* that callers keep asking holds of the breaker alone.
BreakerFairness == /\ \A c \in Callers : /\ WF_cbVars(part = "breaker" /\ Ask(c))
                                         /\ WF_cbVars(part = "breaker" /\ HalfOpen(c))
                                         /\ WF_cbVars(part = "breaker" /\ Report(c))
                   /\ WF_cbVars(part = "breaker" /\ BreakerTick)

MCSpec == /\ MCInit /\ [][MCNext]_mcVars
          /\ BreakerFairness /\ CPFairness /\ RQFairness /\ CNFairness /\ EPFairness

\* Every request is answered once, and only while somebody waits for the answer: by a worker,
\* out of a queue, or with its batch.
RequestsAreAnsweredOnce == AnswersAreForWaiters /\ RequestsAreKept /\ EmbedsAreSound

\* The promise of the breaker when callers keep asking it.
BreakerLapses == part = "breaker" => OpenLapses

\* Nobody waits for ever: not for a breaker that is open, for an answer, for the workers to
\* leave, in a queue, or for a connection of a pool that has been closed.
NobodyWaitsForEver == /\ BreakerLapses /\ CallsComeBack /\ ShutdownReturns
                      /\ QueuedRequestsEnd /\ CloseWakesWaiters
                      /\ EmbedsComeBack /\ WatchersLeave
=============================================================================
