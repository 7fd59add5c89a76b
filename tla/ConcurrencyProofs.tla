-------------------------- MODULE ConcurrencyProofs --------------------------
(***************************************************************************)
(* Proofs about pkg/concurrent, pkg/connpool and the pool of the embedder, *)
(* for any number of callers, workers, requests and connections and for    *)
(* any thresholds and sizes: module by module, and then for the modules    *)
(* side by side as MCConcurrency puts them.                                *)
(***************************************************************************)
EXTENDS MCConcurrency, FiniteSetTheorems, TLAPS

-----------------------------------------------------------------------------
\* Proofs, for any callers, threshold, number of probes and cool-down.

CBInv == CBTypeOK /\ TripsOnCount

\* What the two reports make of a breaker that satisfies the invariant.
LEMMA FailedIsSound ==
  ASSUME CBInv
  PROVE  /\ Failed \in Breaker
         /\ Failed.state = "closed" <=> Failed.failures < Threshold
         /\ Failed.successes > 0 => Failed.state = "halfOpen"
         /\ Failed.successes < HalfOpenMax
<1> DEFINE n == IF cb.failures < Threshold THEN cb.failures + 1 ELSE Threshold
           trips == cb.state = "halfOpen" \/ n >= Threshold
           s == IF trips THEN "open" ELSE cb.state
           k == IF cb.state = "halfOpen" THEN 0 ELSE cb.successes
<1>0. Failed = [state |-> s, failures |-> n, successes |-> k]
  BY DEF Failed
<1>1. /\ cb.state \in {"closed", "open", "halfOpen"}
      /\ cb.failures \in 0..Threshold /\ cb.successes \in 0..HalfOpenMax
  BY DEF CBInv, CBTypeOK, Breaker
<1>2. n \in 0..Threshold /\ k \in 0..HalfOpenMax /\ s \in {"closed", "open", "halfOpen"}
  BY <1>1, BreakerAssumption
<1>3. s = "closed" <=> n < Threshold
  BY <1>1, BreakerAssumption DEF CBInv, TripsOnCount
<1>4. k = 0 /\ 0 < HalfOpenMax
  BY <1>1, BreakerAssumption DEF CBInv, TripsOnCount
<1> HIDE DEF n, s, k
<1> QED
  BY <1>0, <1>2, <1>3, <1>4, BreakerAssumption DEF Breaker

LEMMA SucceededIsSound ==
  ASSUME CBInv
  PROVE  /\ Succeeded \in Breaker
         /\ Succeeded.state = "closed" <=> Succeeded.failures < Threshold
         /\ Succeeded.successes > 0 => Succeeded.state = "halfOpen"
         /\ Succeeded.successes < HalfOpenMax
<1>1. /\ cb = [state |-> cb.state, failures |-> cb.failures, successes |-> cb.successes]
      /\ cb.state \in {"closed", "open", "halfOpen"}
      /\ cb.failures \in 0..Threshold /\ cb.successes \in 0..HalfOpenMax
  BY DEF CBInv, CBTypeOK, Breaker
<1>2. CASE cb.state = "halfOpen" /\ cb.successes + 1 >= HalfOpenMax
  <2>1. Succeeded = Fresh
    BY <1>1, <1>2, BreakerAssumption DEF Succeeded
  <2> QED
    BY <2>1, BreakerAssumption DEF Fresh, Breaker
<1>3. CASE cb.state = "halfOpen" /\ cb.successes + 1 < HalfOpenMax
  <2>1. Succeeded = [cb EXCEPT !.successes = @ + 1]
    BY <1>3 DEF Succeeded
  <2> QED
    BY <2>1, <1>1, <1>3, BreakerAssumption DEF CBInv, TripsOnCount, Breaker
<1>4. CASE cb.state = "closed"
  <2>1. Succeeded = [cb EXCEPT !.failures = 0]
    BY <1>4 DEF Succeeded
  <2> QED
    BY <2>1, <1>1, <1>4, BreakerAssumption DEF CBInv, TripsOnCount, Breaker
<1>5. CASE cb.state = "open"
  <2>1. Succeeded = cb
    BY <1>5 DEF Succeeded
  <2> QED
    BY <2>1, <1>1, <1>5 DEF CBInv, CBTypeOK, TripsOnCount
<1> QED
  BY <1>1, <1>2, <1>3, <1>4, <1>5, BreakerAssumption

LEMMA BreakerInit == CBInit => CBInv
  BY BreakerAssumption DEF CBInit, CBInv, CBTypeOK, TripsOnCount, Breaker, Fresh

LEMMA BreakerStep == CBInv /\ [CBNext]_cbVars => CBInv'
<1> SUFFICES ASSUME CBInv, [CBNext]_cbVars
             PROVE  CBInv'
  OBVIOUS
<1> USE DEF CBInv, CBTypeOK
<1>1. ASSUME NEW c \in Callers, Ask(c)
      PROVE  CBInv'
  BY <1>1 DEF Ask, TripsOnCount
<1>2. ASSUME NEW c \in Callers, HalfOpen(c)
      PROVE  CBInv'
  <2>1. CASE cb.state = "open"
    <3>1. cb' = [state |-> "halfOpen", failures |-> cb.failures, successes |-> 0]
      BY <1>2, <2>1 DEF HalfOpen
    <3>0. cb = [state |-> cb.state, failures |-> cb.failures, successes |-> cb.successes]
          /\ cb.failures \in 0..Threshold
      BY DEF Breaker
    <3>2. cb' \in Breaker /\ cb'.failures = cb.failures /\ cb'.successes = 0
          /\ cb'.state = "halfOpen"
      BY <3>0, <3>1, BreakerAssumption DEF Breaker
    <3>3. CBTypeOK'
      BY <3>2, <1>2 DEF HalfOpen
    <3> QED
      BY <3>2, <3>3, <2>1, BreakerAssumption DEF TripsOnCount
  <2>2. CASE cb.state # "open"
    BY <1>2, <2>2 DEF HalfOpen, TripsOnCount
  <2> QED
    BY <2>1, <2>2
<1>3. ASSUME NEW c \in Callers, RecordSuccess(c)
      PROVE  CBInv'
  BY <1>3, SucceededIsSound DEF RecordSuccess, Leave, TripsOnCount
<1>4. ASSUME NEW c \in Callers, RecordFailure(c)
      PROVE  CBInv'
  BY <1>4, FailedIsSound, BreakerAssumption DEF RecordFailure, Leave, TripsOnCount
<1>5. ASSUME NEW c \in Callers, Unreported(c)
      PROVE  CBInv'
  BY <1>5 DEF Unreported, Leave, TripsOnCount
<1>6. CASE Reset
  BY <1>6, BreakerAssumption DEF Reset, Fresh, Breaker, TripsOnCount
<1>7. CASE BreakerTick
  BY <1>7, BreakerAssumption DEF BreakerTick, TripsOnCount
<1>8. CASE UNCHANGED cbVars
  BY <1>8 DEF cbVars, TripsOnCount
<1> QED
  BY <1>1, <1>2, <1>3, <1>4, <1>5, <1>6, <1>7, <1>8 DEF CBNext

\* Every state of the breaker is well formed.
THEOREM BreakerTypes == CBSpec => []CBTypeOK
  BY BreakerInit, BreakerStep, PTL DEF CBSpec, CBInv

\* Whatever the order of reports, stale half-openings and resets, the breaker is
\* closed exactly while it has counted fewer failures than its threshold.
THEOREM BreakerTrips == CBSpec => []TripsOnCount
  BY BreakerInit, BreakerStep, PTL DEF CBSpec, CBInv

-----------------------------------------------------------------------------
\* The pool uses the breaker as CircuitBreaker says that callers do.
LEMMA PoolStepsAreBreakerSteps == [CPNext]_concurrentVars => [CBNext]_cbVars
<1> SUFFICES ASSUME [CPNext]_concurrentVars
             PROVE  [CBNext]_cbVars
  OBVIOUS
<1>1. ASSUME NEW c \in Callers, CallStep(c)
      PROVE  [CBNext]_cbVars
  <2>1. CASE Admitted(c) \/ StateReturns(c) \/ Limited(c)
    BY <1>1, <2>1 DEF Admitted, StateReturns, Limited, Limit, CBNext, cbVars
  <2>2. CASE Submit(c) \/ Sent(c)
    BY <1>1, <2>2 DEF Submit, Sent, Send, CBNext, cbVars
  <2>3. CASE Return(c) \/ Cancel(c)
    BY <1>1, <2>3 DEF Return, Cancel, Receive, TimeOut, CBNext
  <2> QED
    BY <1>1, <2>1, <2>2, <2>3 DEF CallStep
<1>2. ASSUME NEW w \in Workers, WorkerStep(w)
      PROVE  [CBNext]_cbVars
  BY <1>2 DEF WorkerStep, Work, WorkerLeaves
<1>3. CASE Shutdown
  BY <1>3 DEF Shutdown
<1>4. CASE PoolTick
  BY <1>4 DEF PoolTick, CBNext, BreakerTick, cbVars
<1>5. CASE UNCHANGED concurrentVars
  BY <1>5 DEF concurrentVars
<1> QED
  BY <1>1, <1>2, <1>3, <1>4, <1>5 DEF CPNext

\* SendRequest asks the breaker, half-opens it and reports to it in the order that the
\* specification of the breaker allows, so that what is proved of the breaker holds in the pool.
THEOREM PoolImplementsBreaker == CPSpec => PoolUsesBreaker
<1>1. CPInit => CBInit
  BY DEF CPInit
<1> QED
  BY <1>1, PoolStepsAreBreakerSteps, PTL DEF CPSpec, CBSpec, PoolUsesBreaker

-----------------------------------------------------------------------------
\* The limiters.

SLInv == SLTypeOK /\ running = {entry} \ {NoLimiter}

LEMMA LimitersStep == SLInv /\ [SLNext]_limiterVars => SLInv'
<1> SUFFICES ASSUME SLInv, [SLNext]_limiterVars
             PROVE  SLInv'
  OBVIOUS
<1> USE DEF SLInv, SLTypeOK
<1>1. ASSUME NEW a \in Askers, GetLimiter(a)
      PROVE  SLInv'
  BY <1>1 DEF GetLimiter, Takes
<1>2. ASSUME NEW a \in Askers, MakeLimiter(a)
      PROVE  SLInv'
  <2>1. CASE entry # NoLimiter
    BY <1>2, <2>1 DEF MakeLimiter, Takes
  <2>2. CASE entry = NoLimiter
    <3>1. PICK l \in Limiters : entry' = l /\ running' = running \cup {l} /\ Takes(a, l)
      BY <1>2, <2>2 DEF MakeLimiter
    <3> QED
      BY <1>2, <2>2, <3>1, LimitersAssumption DEF MakeLimiter, Takes
  <2> QED
    BY <2>1, <2>2
<1>3. ASSUME NEW a \in Askers, Use(a)
      PROVE  SLInv'
  BY <1>3 DEF Use, Takes
<1>4. CASE CloseLimiters
  BY <1>4 DEF CloseLimiters
<1>5. CASE UNCHANGED limiterVars
  BY <1>5 DEF limiterVars
<1> QED
  BY <1>1, <1>2, <1>3, <1>4, <1>5 DEF SLNext

\* Whoever misses the map at once, and wherever Close comes in between: the limiter whose
\* goroutine runs is the one in the map, and there is no other.
THEOREM OneLimiterPerServer == SLSpec => []OneLimiterRuns
<1>1. SLInit => SLInv
  BY DEF SLInit, SLInv, SLTypeOK
<1>2. SLInv => OneLimiterRuns
  BY DEF SLInv, OneLimiterRuns
<1> QED
  BY <1>1, <1>2, LimitersStep, PTL DEF SLSpec

-----------------------------------------------------------------------------
\* What is in a queue, and is in it once.
In(s, e) == \E i \in DOMAIN s : s[i] = e
Once(s, e) == \A i, j \in DOMAIN s : s[i] = e /\ s[j] = e => i = j

LEMMA Appending ==
  ASSUME NEW S, NEW s \in Seq(S), NEW x \in S
  PROVE  /\ Append(s, x) \in Seq(S) /\ Len(Append(s, x)) = Len(s) + 1
         /\ \A e : In(Append(s, x), e) <=> In(s, e) \/ e = x
         /\ \A e : e # x /\ Once(s, e) => Once(Append(s, x), e)
         /\ ~In(s, x) => Once(Append(s, x), x)
<1>1. /\ Append(s, x) \in Seq(S) /\ Len(s) \in Nat /\ Len(Append(s, x)) = Len(s) + 1
      /\ DOMAIN s = 1 .. Len(s) /\ DOMAIN Append(s, x) = 1 .. Len(s) + 1
      /\ \A i \in 1 .. Len(s) : Append(s, x)[i] = s[i]
      /\ Append(s, x)[Len(s) + 1] = x
  OBVIOUS
<1>2. \A i : i \in 1 .. Len(s) + 1 <=> i \in 1 .. Len(s) \/ i = Len(s) + 1
  BY <1>1
<1> DEFINE t == Append(s, x)
<1> HIDE DEF t
<1>3. /\ \A e : In(t, e) <=> In(s, e) \/ e = x
      /\ \A e : e # x /\ Once(s, e) => Once(t, e)
      /\ ~In(s, x) => Once(t, x)
  BY <1>1, <1>2 DEF In, Once, t
<1> QED
  BY <1>1, <1>3 DEF t

LEMMA TakingHead ==
  ASSUME NEW S, NEW s \in Seq(S), s # <<>>
  PROVE  /\ Head(s) \in S /\ In(s, Head(s)) /\ Tail(s) \in Seq(S) /\ Len(Tail(s)) = Len(s) - 1
         /\ \A e : Once(s, e) => Once(Tail(s), e) /\ (In(Tail(s), e) <=> In(s, e) /\ e # Head(s))
<1>1. /\ Tail(s) \in Seq(S) /\ Len(s) \in Nat \ {0} /\ Len(Tail(s)) = Len(s) - 1
      /\ DOMAIN s = 1 .. Len(s) /\ DOMAIN Tail(s) = 1 .. Len(s) - 1
      /\ \A i \in 1 .. Len(s) - 1 : Tail(s)[i] = s[i + 1] /\ i + 1 \in 1 .. Len(s)
      /\ Head(s) = s[1] /\ 1 \in 1 .. Len(s) /\ s[1] \in S
  OBVIOUS
<1>2. \A i \in 1 .. Len(s) : i = 1 \/ (i - 1 \in 1 .. Len(s) - 1 /\ i - 1 + 1 = i /\ i \in Nat)
  BY <1>1
<1>3. \A i \in 1 .. Len(s) - 1 : i + 1 # 1
  BY <1>1
<1>4. \A i, j \in 1 .. Len(s) - 1 : i + 1 = j + 1 => i = j
  BY <1>1
<1> DEFINE t == Tail(s)  h == Head(s)
<1> HIDE DEF t, h
<1>5. ASSUME NEW e, Once(s, e)
      PROVE  Once(t, e)
  BY <1>1, <1>4, <1>5 DEF Once, t
<1>6. ASSUME NEW e, Once(s, e), In(t, e)
      PROVE  In(s, e) /\ e # h
  BY <1>1, <1>3, <1>6 DEF Once, In, t, h
<1>7. ASSUME NEW e, In(s, e), e # h
      PROVE  In(t, e)
  <2>1. PICK i \in 1 .. Len(s) : s[i] = e
    BY <1>1, <1>7 DEF In
  <2>2. i - 1 \in DOMAIN t /\ i - 1 + 1 = i
    BY <1>1, <1>2, <1>7, <2>1 DEF h, t
  <2>3. t[i - 1] = e
    BY <1>1, <2>1, <2>2 DEF t
  <2> QED
    BY <2>2, <2>3 DEF In
<1>8. h \in S /\ In(s, h)
  BY <1>1 DEF In, h
<1>9. \A e : Once(s, e) => Once(t, e) /\ (In(t, e) <=> In(s, e) /\ e # h)
  BY <1>5, <1>6, <1>7
<1> QED
  BY <1>1, <1>8, <1>9, Zenon DEF t, h

LEMMA Counting ==
  ASSUME NEW s, NEW e, Once(s, e)
  PROVE  Cardinality({i \in DOMAIN s : s[i] = e}) = IF In(s, e) THEN 1 ELSE 0
<1>1. CASE In(s, e)
  <2>1. PICK i \in DOMAIN s : s[i] = e
    BY <1>1 DEF In
  <2>2. {j \in DOMAIN s : s[j] = e} = {i}
    BY <2>1 DEF Once
  <2> QED
    BY <1>1, <2>2, FS_Singleton
<1>2. CASE ~In(s, e)
  <2>1. {j \in DOMAIN s : s[j] = e} = {}
    BY <1>2 DEF In
  <2> QED
    BY <1>2, <2>1, FS_EmptySet
<1> QED
  BY <1>1, <1>2

LEMMA Containing == ASSUME NEW S, NEW s \in Seq(S), NEW e PROVE Contains(s, e) <=> In(s, e)
  BY DEF Contains, In

-----------------------------------------------------------------------------
\* The calls of the pool: those that wait unanswered are the ones in the queue.
CallsInv ==
  /\ pc \in [Callers -> Steps] /\ reply \in [Callers -> BOOLEAN]
  /\ queue \in Seq(Callers \cup {Orphan})
  /\ \A c \in Callers : /\ reply[c] => pc[c] = "waiting"
                        /\ Once(queue, c)
                        /\ In(queue, c) <=> pc[c] = "waiting" /\ ~reply[c]

LEMMA CallsLeave ==
  ASSUME CallsInv, NEW c \in Callers, At(c, "waiting", "idle"), Abandon(c)
  PROVE  CallsInv'
<1>1. /\ queue' \in Seq(Callers \cup {Orphan}) /\ DOMAIN queue' = DOMAIN queue
      /\ \A i \in DOMAIN queue : queue'[i] = IF queue[i] = c THEN Orphan ELSE queue[i]
  BY DEF Abandon, ReplaceAll, CallsInv
<1>2. ASSUME NEW d \in Callers
      PROVE  Once(queue', d) /\ (In(queue', d) <=> In(queue, d) /\ d # c)
  BY <1>1, ConcurrentPoolAssumption DEF CallsInv, Once, In
<1>3. pc' \in [Callers -> Steps] /\ reply' \in [Callers -> BOOLEAN]
  BY DEF CallsInv, At, Abandon, Steps
<1>4. \A d \in Callers : pc'[d] = (IF d = c THEN "idle" ELSE pc[d])
                         /\ reply'[d] = (IF d = c THEN FALSE ELSE reply[d])
  BY DEF CallsInv, At, Abandon
<1> QED
  BY <1>1, <1>2, <1>3, <1>4 DEF CallsInv

\* Before it is sent an item is not in the queue, wherever its call goes.
LEMMA CallsMove ==
  ASSUME CallsInv, NEW c \in Callers, NEW here, NEW there \in Steps \ {"waiting"},
         here # "waiting", At(c, here, there), UNCHANGED <<reply, queue>>
  PROVE  CallsInv'
  BY DEF CallsInv, At

LEMMA CallsStep == CallsInv /\ [CPNext]_concurrentVars => CallsInv'
<1> SUFFICES ASSUME CallsInv, [CPNext]_concurrentVars
             PROVE  CallsInv'
  OBVIOUS
<1>1. ASSUME NEW c \in Callers, Admitted(c) \/ Limited(c) \/ Submit(c)
      PROVE  CallsInv'
  <2>1. UNCHANGED <<reply, queue>>
    BY <1>1 DEF Admitted, Limited, Submit
  <2>2. PICK here \in Steps \ {"waiting"}, there \in Steps \ {"waiting"} : At(c, here, there)
    BY <1>1 DEF Admitted, Limited, Limit, Submit, Steps
  <2> QED
    BY <2>1, <2>2, CallsMove
<1>2. ASSUME NEW c \in Callers, StateReturns(c)
      PROVE  CallsInv'
  BY <1>2 DEF StateReturns, poolVars, CallsInv
<1>3. ASSUME NEW c \in Callers, Sent(c)
      PROVE  CallsInv'
  <2>1. CASE UNCHANGED queue
    <3>1. PICK there \in Steps \ {"waiting"} : At(c, "send", there)
      <4>1. CASE At(c, "send", "panicked") \/ At(c, "send", "idle")
        BY <4>1 DEF Steps
      <4>2. CASE At(c, "send", "waiting") /\ queue' = Append(queue, c)
        BY <2>1, <4>2 DEF CallsInv
      <4> QED
        BY <1>3, <4>1, <4>2 DEF Sent, Send
    <3> QED
      BY <1>3, <2>1, <3>1, CallsMove DEF Sent
  <2>2. CASE At(c, "send", "waiting") /\ queue' = Append(queue, c)
    <3>1. /\ queue' \in Seq(Callers \cup {Orphan})
          /\ \A e : In(queue', e) <=> In(queue, e) \/ e = c
          /\ \A e : e # c /\ Once(queue, e) => Once(queue', e)
          /\ ~In(queue, c) => Once(queue', c)
      BY <2>2, Appending DEF CallsInv
    <3>2. pc[c] = "send" /\ ~In(queue, c) /\ ~reply[c]
      BY <2>2 DEF At, CallsInv
    <3>3. /\ pc' \in [Callers -> Steps] /\ reply' = reply
          /\ \A d \in Callers : pc'[d] = (IF d = c THEN "waiting" ELSE pc[d])
      BY <1>3, <2>2 DEF Sent, At, CallsInv, Steps
    <3> QED
      BY <3>1, <3>2, <3>3 DEF CallsInv
  <2> QED
    BY <1>3, <2>1, <2>2 DEF Sent, Send
<1>4. ASSUME NEW c \in Callers, Return(c) \/ Cancel(c)
      PROVE  CallsInv'
  BY <1>4, CallsLeave DEF Return, Cancel, Receive, TimeOut
<1>5. ASSUME NEW w \in Workers, Work(w)
      PROVE  CallsInv'
  <2>1. /\ Head(queue) \in Callers \cup {Orphan} /\ In(queue, Head(queue))
        /\ queue' \in Seq(Callers \cup {Orphan})
        /\ \A e : Once(queue, e) => Once(queue', e) /\ (In(queue', e) <=> In(queue, e) /\ e # Head(queue))
    BY <1>5, TakingHead DEF Work, CallsInv
  <2>2. /\ reply' \in [Callers -> BOOLEAN] /\ pc' = pc
        /\ \A c \in Callers : reply'[c] = (IF c = Head(queue) THEN TRUE ELSE reply[c])
    BY <1>5, <2>1, ConcurrentPoolAssumption DEF Work, CallsInv
  <2> QED
    BY <2>1, <2>2 DEF CallsInv
<1>6. ASSUME NEW w \in Workers, WorkerLeaves(w)
      PROVE  CallsInv'
  BY <1>6 DEF WorkerLeaves, CallsInv
<1>7. CASE Shutdown \/ PoolTick \/ UNCHANGED concurrentVars
  BY <1>7 DEF Shutdown, PoolTick, concurrentVars, poolVars, CallsInv
<1> QED
  BY <1>1, <1>2, <1>3, <1>4, <1>5, <1>6, <1>7 DEF CPNext, CallStep, WorkerStep

LEMMA CallsInitially == CPInit => CallsInv
  BY DEF CPInit, CallsInv, Steps, In, Once

LEMMA CallsAreAnswered == CallsInv => AnswersAreForWaiters
<1> SUFFICES ASSUME CallsInv, NEW c \in Callers
             PROVE  /\ reply[c] => pc[c] = "waiting"
                    /\ Cardinality({i \in DOMAIN queue : queue[i] = c})
                         = (IF pc[c] = "waiting" /\ ~reply[c] THEN 1 ELSE 0)
  BY DEF AnswersAreForWaiters
<1>1. /\ reply[c] => pc[c] = "waiting"
      /\ Once(queue, c)
      /\ In(queue, c) <=> pc[c] = "waiting" /\ ~reply[c]
  BY DEF CallsInv
<1>2. Cardinality({i \in DOMAIN queue : queue[i] = c}) = IF In(queue, c) THEN 1 ELSE 0
  BY <1>1, Counting
<1> QED
  BY ONLY <1>1, <1>2

\* However calls time out, are cancelled or come back while workers take their items, for
\* any number of them and any queue: an answer is there only for the call that waits for it,
\* and a waiting call that has none is in the queue once.
THEOREM AnswersReachWaiters == CPSpec => []AnswersAreForWaiters
  BY CallsInitially, CallsStep, CallsAreAnswered, PTL DEF CPSpec

-----------------------------------------------------------------------------
\* The queue: as many goroutines are on their way as there are requests.
QueueInv ==
  /\ items \in Seq(Requests) /\ runs \in Nat
  /\ starting \subseteq Requests /\ IsFiniteSet(starting)
  /\ fate \in [Requests -> {"new", "queued"} \cup Ended]
  /\ \A r \in starting : fate[r] # "new"
  /\ NoRequestIsStranded

LEMMA QueueStep == QueueInv /\ [RQNext]_gatherVars => QueueInv'
<1> SUFFICES ASSUME QueueInv, [RQNext]_gatherVars
             PROVE  QueueInv'
  OBVIOUS
<1>0. Cardinality(starting) \in Nat /\ Len(items) \in Nat
  BY FS_CardinalityType DEF QueueInv
<1>1. ASSUME NEW r \in Requests, Enqueue(r)
      PROVE  QueueInv'
  <2>1. CASE Len(items) >= MaxQueue
    BY <1>1, <2>1 DEF Enqueue, QueueInv, Ended, NoRequestIsStranded
  <2>2. CASE ~(Len(items) >= MaxQueue)
    <3>1. r \notin starting
      BY <1>1 DEF Enqueue, QueueInv
    <3>2. starting' = starting \cup {r} /\ IsFiniteSet(starting')
          /\ Cardinality(starting') = Cardinality(starting) + 1
      BY <1>1, <2>2, <3>1, FS_AddElement DEF Enqueue, QueueInv
    <3>3. items' \in Seq(Requests) /\ Len(items') = Len(items) + 1
      BY <1>1, <2>2, Appending DEF Enqueue, QueueInv
    <3>4. NoRequestIsStranded'
      BY <1>0, <1>1, <3>2, <3>3 DEF Enqueue, QueueInv, NoRequestIsStranded
    <3>5. fate' = [fate EXCEPT ![r] = "queued"] /\ runs' = runs
      BY <1>1, <2>2 DEF Enqueue
    <3> QED
      BY <3>2, <3>3, <3>4, <3>5 DEF QueueInv
  <2> QED
    BY <2>1, <2>2
<1>2. ASSUME NEW r \in Requests, Start(r)
      PROVE  QueueInv'
  <2>1. starting' = starting \ {r} /\ IsFiniteSet(starting')
        /\ Cardinality(starting') = Cardinality(starting) - 1
    BY <1>2, FS_RemoveElement DEF Start, QueueInv
  <2>2. NoRequestIsStranded'
    BY <1>0, <1>2, <2>1 DEF Start, QueueInv, NoRequestIsStranded
  <2> QED
    BY <1>2, <2>1, <2>2 DEF Start, QueueInv
<1>3. CASE ProcessQueue
  <2>1. CASE items = <<>>
    <3>1. UNCHANGED <<items, fate, starting>> /\ runs' \in Nat
      BY <1>3, <2>1 DEF ProcessQueue, QueueInv
    <3>2. NoRequestIsStranded'
      BY <1>0, <2>1, <3>1 DEF NoRequestIsStranded
    <3> QED
      BY <3>1, <3>2 DEF QueueInv
  <2>2. CASE items # <<>>
    <3>1. /\ Head(items) \in Requests /\ items' \in Seq(Requests) /\ Len(items') = Len(items) - 1
          /\ runs' = runs - 1 /\ runs > 0 /\ starting' = starting
      BY <1>3, <2>2, TakingHead DEF ProcessQueue, QueueInv
    <3>2. PICK f \in {"answered", "timedOut"} : fate' = [fate EXCEPT ![Head(items)] = f]
      BY <1>3, <2>2 DEF ProcessQueue
    <3>3. /\ fate' \in [Requests -> {"new", "queued"} \cup Ended]
          /\ \A r \in starting' : fate'[r] # "new"
      BY <3>1, <3>2 DEF QueueInv, Ended
    <3>4. NoRequestIsStranded' /\ runs' \in Nat
      BY <1>0, <3>1 DEF QueueInv, NoRequestIsStranded
    <3> QED
      BY <3>1, <3>3, <3>4 DEF QueueInv
  <2> QED
    BY <2>1, <2>2
<1>4. CASE ClearQueue
  <2>1. items' = <<>> /\ UNCHANGED <<starting, runs>>
        /\ fate' = [r \in Requests |-> IF Contains(items, r) THEN "cleared" ELSE fate[r]]
    BY <1>4 DEF ClearQueue
  <2>2. items' \in Seq(Requests) /\ Len(items') = 0
    BY <2>1
  <2>3. NoRequestIsStranded'
    BY <1>0, <2>1, <2>2 DEF QueueInv, NoRequestIsStranded
  <2> QED
    BY <2>1, <2>2, <2>3 DEF QueueInv, Ended
<1>5. CASE UNCHANGED queueVars
  BY <1>5 DEF queueVars, QueueInv, NoRequestIsStranded
<1> QED
  BY <1>1, <1>2, <1>3, <1>4, <1>5 DEF RQNext, gatherVars, AddRequest, Flush, ProcessBatch

-----------------------------------------------------------------------------
\* The batcher: no request is in two batches.
Apart(s, t) == \A r \in Requests : ~(In(s, r) /\ In(t, r))

BatchInv ==
  /\ batch \in Seq(Requests) /\ flushed \subseteq Seq(Requests)
  /\ answers \in [Requests -> {"unmade", "pending", "refused", "once", "again"}]
  /\ \A r \in Requests : /\ answers[r] # "again"
                         /\ answers[r] = "pending" <=> In(batch, r) \/ \E b \in flushed : In(b, r)
  /\ \A b \in flushed : Apart(b, batch)
  /\ \A b, d \in flushed : b # d => Apart(b, d)

LEMMA BatchSaysOnce == BatchInv => AnsweredOnce
<1> SUFFICES ASSUME BatchInv, NEW r \in Requests
             PROVE  /\ answers[r] # "again"
                    /\ answers[r] = "pending" <=> Contains(batch, r) \/ \E b \in flushed : Contains(b, r)
  BY DEF AnsweredOnce
<1>1. Contains(batch, r) <=> In(batch, r)
  BY Containing DEF BatchInv
<1>2. \A b \in flushed : Contains(b, r) <=> In(b, r)
  BY Containing DEF BatchInv
<1> QED
  BY <1>1, <1>2 DEF BatchInv

\* Answering a batch that is with nobody else answers each of its requests for the first time.
LEMMA Answering ==
  ASSUME BatchInv, NEW s \in Seq(Requests), s = batch \/ s \in flushed
  PROVE  \A r \in Requests : Answered(s)[r] = IF In(s, r) THEN "once" ELSE answers[r]
<1> SUFFICES ASSUME NEW r \in Requests
             PROVE  Answered(s)[r] = IF In(s, r) THEN "once" ELSE answers[r]
  OBVIOUS
<1>1. Answered(s)[r] = IF ~In(s, r) THEN answers[r]
                       ELSE IF answers[r] = "pending" THEN "once" ELSE "again"
  BY Containing DEF Answered
<1>2. In(s, r) => answers[r] = "pending"
  BY DEF BatchInv
<1> QED
  BY <1>1, <1>2

LEMMA EmptyBatch == \A r : ~In(<<>>, r)
  BY DEF In

LEMMA AddingRequest == ASSUME BatchInv, NEW r \in Requests, AddRequest(r) PROVE BatchInv'
<1>0. ~In(batch, r) /\ \A b \in flushed : ~In(b, r)
  BY DEF AddRequest, BatchInv
<1>1. CASE answers' = [answers EXCEPT ![r] = "refused"] /\ UNCHANGED batch
  <2>1. flushed' = flushed /\ answers[r] = "unmade"
    BY DEF AddRequest
  <2> QED
    BY <1>0, <1>1, <2>1 DEF BatchInv
<1>2. CASE batch' = Append(batch, r) /\ answers' = Pending(r)
  <2>1. flushed' = flushed
    BY DEF AddRequest
  <2>2. /\ batch' \in Seq(Requests)
        /\ \A e : In(batch', e) <=> In(batch, e) \/ e = r
    BY <1>2, Appending DEF BatchInv
  <2>3. /\ answers' \in [Requests -> {"unmade", "pending", "refused", "once", "again"}]
        /\ \A e \in Requests : answers'[e] = IF e = r THEN "pending" ELSE answers[e]
    BY <1>2 DEF BatchInv, Pending
  <2> QED
    BY <1>0, <2>1, <2>2, <2>3 DEF BatchInv, Apart
<1>3. CASE batch' = <<>> /\ answers' = [Answered(batch) EXCEPT ![r] = "once"]
  <2>1. flushed' = flushed
    BY DEF AddRequest
  <2>2. batch' \in Seq(Requests) /\ \A e : ~In(batch', e)
    BY <1>3, EmptyBatch
  <2>3. \A e \in Requests : Answered(batch)[e] = IF In(batch, e) THEN "once" ELSE answers[e]
    BY Answering DEF BatchInv
  <2>4. DOMAIN Answered(batch) = Requests /\ Answered(batch) = [e \in Requests |-> Answered(batch)[e]]
    BY DEF Answered
  <2>5. \A e \in Requests : answers'[e] = IF e = r \/ In(batch, e) THEN "once" ELSE answers[e]
    BY <1>3, <2>3, <2>4
  <2>6. answers' \in [Requests -> {"unmade", "pending", "refused", "once", "again"}]
    BY <1>3, <2>3, <2>4 DEF BatchInv
  <2> QED
    BY <1>0, <2>1, <2>2, <2>5, <2>6 DEF BatchInv, Apart
<1> QED
  BY <1>1, <1>2, <1>3 DEF AddRequest

LEMMA BatchStep == BatchInv /\ [RQNext]_gatherVars => BatchInv'
<1> SUFFICES ASSUME BatchInv, [RQNext]_gatherVars
             PROVE  BatchInv'
  OBVIOUS
<1>1. ASSUME NEW r \in Requests, AddRequest(r)
      PROVE  BatchInv'
  BY <1>1, AddingRequest
<1>2. CASE Flush
  <2>1. flushed' = flushed \cup {batch} /\ batch' = <<>> /\ answers' = answers
    BY <1>2 DEF Flush
  <2>2. batch' \in Seq(Requests) /\ \A e : ~In(batch', e)
    BY <2>1, EmptyBatch
  <2> QED
    BY <2>1, <2>2 DEF BatchInv, Apart
<1>3. CASE ProcessBatch
  <2>1. PICK b \in flushed : answers' = Answered(b) /\ flushed' = flushed \ {b}
    BY <1>3 DEF ProcessBatch
  <2>2. batch' = batch
    BY <1>3 DEF ProcessBatch
  <2>3. \A r \in Requests : answers'[r] = IF In(b, r) THEN "once" ELSE answers[r]
    BY <2>1, Answering DEF BatchInv
  <2>4. answers' \in [Requests -> {"unmade", "pending", "refused", "once", "again"}]
    BY <2>1, <2>3 DEF Answered, BatchInv
  <2>5. \A r \in Requests : In(b, r) => ~In(batch, r) /\ \A d \in flushed' : ~In(d, r)
    BY <2>1 DEF BatchInv, Apart
  <2> QED
    BY <2>1, <2>2, <2>3, <2>4, <2>5 DEF BatchInv
<1>4. CASE UNCHANGED batchVars
  BY <1>4 DEF batchVars, BatchInv
<1> QED
  BY <1>1, <1>2, <1>3, <1>4 DEF RQNext, gatherVars, Enqueue, Start, ProcessQueue, ClearQueue

LEMMA GatherInitially == RQInit => QueueInv /\ BatchInv
<1> SUFFICES ASSUME RQInit
             PROVE  QueueInv /\ BatchInv
  OBVIOUS
<1>1. QueueInv
  BY FS_EmptySet DEF RQInit, QueueInv, NoRequestIsStranded, Ended
<1>2. BatchInv
  BY EmptyBatch DEF RQInit, BatchInv
<1> QED
  BY <1>1, <1>2

\* For any number of requests and any sizes of the queue and the batches, wherever clearing
\* and flushing come in between: a goroutine is on its way for every queued request, and the
\* batcher answers none twice and forgets none.
THEOREM GatheredRequestsAreKept == RQSpec => []RequestsAreKept
<1>1. QueueInv /\ BatchInv => RequestsAreKept
  BY BatchSaysOnce DEF QueueInv, RequestsAreKept
<1> QED
  BY <1>1, GatherInitially, QueueStep, BatchStep, PTL DEF RQSpec

-----------------------------------------------------------------------------
\* The embedder: a job that was taken in is in one place.
Handled(j) == \E w \in EmbedWorkers : worker[w] = j
Answer(j) == outcome[j] # "none"
Submitted(j) == caller[j] \in {"waits", "told", "gaveUp"}

EmbedInv ==
  /\ embedPool \in {"open", "cancelled", "quitting", "closed"}
  /\ caller \in [Embeds -> {"new", "loaded", "skipped", "waits", "told", "gaveUp"}]
  /\ outcome \in [Embeds -> {"none", "embedded", "failed", "full"}]
  /\ jobs \in Seq(Embeds) /\ left \subseteq EmbedWorkers /\ calling \subseteq Embeds
  /\ worker \in [EmbedWorkers -> Embeds \cup {NoEmbed}]
  /\ \A j \in Embeds :
       /\ Once(jobs, j)
       /\ \A v, w \in EmbedWorkers : worker[v] = j /\ worker[w] = j => v = w
       /\ Submitted(j) => In(jobs, j) \/ Handled(j) \/ Answer(j)
       /\ In(jobs, j) => Submitted(j) /\ ~Handled(j) /\ ~Answer(j)
       /\ Handled(j) => Submitted(j) /\ ~Answer(j)
       /\ Answer(j) => Submitted(j)
  /\ \A j \in calling : Handled(j)
  /\ \A w \in left : worker[w] = NoEmbed
  /\ embedPool = "closed" => left = EmbedWorkers

LEMMA EmbedInvIsEnough == EmbedInv => EmbedsAreSound
<1> SUFFICES ASSUME EmbedInv
             PROVE  EmbedsAreSound
  OBVIOUS
<1>1. ASSUME NEW j \in Embeds, Submitted(j)
      PROVE  Cardinality({i \in DOMAIN jobs : jobs[i] = j}) + Cardinality({w \in EmbedWorkers : worker[w] = j})
               + (IF outcome[j] = "none" THEN 0 ELSE 1) = 1
  <2>1. Cardinality({i \in DOMAIN jobs : jobs[i] = j}) = IF In(jobs, j) THEN 1 ELSE 0
    BY Counting DEF EmbedInv
  <2>2. Cardinality({w \in EmbedWorkers : worker[w] = j}) = IF Handled(j) THEN 1 ELSE 0
    <3>1. CASE Handled(j)
      <4>1. PICK w \in EmbedWorkers : worker[w] = j
        BY <3>1 DEF Handled
      <4>2. {v \in EmbedWorkers : worker[v] = j} = {w}
        BY <4>1 DEF EmbedInv
      <4> QED
        BY <3>1, <4>2, FS_Singleton
    <3>2. CASE ~Handled(j)
      <4>1. {w \in EmbedWorkers : worker[w] = j} = {}
        BY <3>2 DEF Handled
      <4> QED
        BY <3>2, <4>1, FS_EmptySet
    <3> QED
      BY <3>1, <3>2
  <2> QED
    BY <1>1, <2>1, <2>2 DEF EmbedInv, Answer
<1>2. EmbedderIsUnused
  BY EmbedderAssumption DEF EmbedInv, EmbedderIsUnused, Handled
<1> QED
  BY <1>1, <1>2 DEF EmbedsAreSound, JobsAreKept, Submitted

\* A caller that goes on without touching the jobs keeps its place.
LEMMA CallerMoves ==
  ASSUME EmbedInv, NEW j \in Embeds,
         NEW s \in {"new", "loaded", "skipped", "waits", "told", "gaveUp"},
         CallerIs(j, s), Submitted(j) <=> s \in {"waits", "told", "gaveUp"},
         UNCHANGED <<embedPool, jobVars>>
  PROVE  EmbedInv'
<1>1. UNCHANGED <<embedPool, outcome, jobs, worker, left, calling>>
  BY DEF jobVars
<1>2. caller' \in [Embeds -> {"new", "loaded", "skipped", "waits", "told", "gaveUp"}]
      /\ \A k \in Embeds : Submitted(k)' <=> Submitted(k)
  BY DEF CallerIs, EmbedInv, Submitted
<1> QED
  BY <1>1, <1>2 DEF EmbedInv, Handled, Answer

LEMMA EmbedStep == EmbedInv /\ [EPNext]_embedVars => EmbedInv'
<1> SUFFICES ASSUME EmbedInv, [EPNext]_embedVars
             PROVE  EmbedInv'
  OBVIOUS
<1>1. ASSUME NEW j \in Embeds, LoadPool(j)
      PROVE  EmbedInv'
  <2>1. UNCHANGED <<embedPool, jobVars>> /\ caller[j] = "new"
    BY <1>1 DEF LoadPool, poolState
  <2>2. PICK s \in {"loaded", "skipped"} : CallerIs(j, s)
    BY <1>1 DEF LoadPool
  <2> QED
    BY <2>1, <2>2, CallerMoves DEF Submitted
<1>2. ASSUME NEW j \in Embeds, Embed(j)
      PROVE  EmbedInv'
  <2>1. /\ ~Submitted(j) /\ ~In(jobs, j) /\ ~Handled(j) /\ ~Answer(j)
        /\ caller' \in [Embeds -> {"new", "loaded", "skipped", "waits", "told", "gaveUp"}]
        /\ \A k \in Embeds : Submitted(k)' <=> k = j \/ Submitted(k)
        /\ UNCHANGED <<embedPool, worker, left, calling>>
    BY <1>2 DEF Embed, CallerIs, EmbedInv, Submitted, poolState
  <2>2. CASE Len(jobs) < EmbedQueue
    <3>0. outcome' = outcome /\ jobs' = Append(jobs, j) /\ jobs \in Seq(Embeds)
      BY <1>2, <2>2 DEF Embed, EmbedInv
    <3>1. /\ jobs' \in Seq(Embeds)
          /\ \A e : In(jobs', e) <=> In(jobs, e) \/ e = j
          /\ \A e : e # j /\ Once(jobs, e) => Once(jobs', e)
          /\ Once(jobs', j)
      BY <2>1, <3>0, Appending
    <3>2. \A k \in Embeds : (Handled(k)' <=> Handled(k)) /\ (Answer(k)' <=> Answer(k))
      BY <2>1, <3>0 DEF Handled, Answer
    <3>3. \A k \in calling' : Handled(k)'
      BY <2>1 DEF EmbedInv, Handled
    <3> QED
      BY <2>1, <3>0, <3>1, <3>2, <3>3 DEF EmbedInv
  <2>3. CASE ~(Len(jobs) < EmbedQueue)
    <3>1. outcome' = [outcome EXCEPT ![j] = "full"] /\ jobs' = jobs
      BY <1>2, <2>3 DEF Embed
    <3>2. /\ outcome' \in [Embeds -> {"none", "embedded", "failed", "full"}]
          /\ \A k \in Embeds : (Handled(k)' <=> Handled(k)) /\ (Answer(k)' <=> k = j \/ Answer(k))
      BY <2>1, <3>1 DEF Handled, Answer, EmbedInv
    <3>3. \A k \in calling' : Handled(k)'
      BY <2>1 DEF EmbedInv, Handled
    <3> QED
      BY <2>1, <3>1, <3>2, <3>3 DEF EmbedInv
  <2> QED
    BY <2>2, <2>3
<1>3. ASSUME NEW j \in Embeds, TakeOutcome(j) \/ EmbedTimeOut(j)
      PROVE  EmbedInv'
  <2>1. UNCHANGED <<embedPool, jobVars>> /\ caller[j] = "waits"
    BY <1>3 DEF TakeOutcome, EmbedTimeOut, poolState
  <2>2. PICK s \in {"told", "gaveUp"} : CallerIs(j, s)
    BY <1>3 DEF TakeOutcome, EmbedTimeOut
  <2> QED
    BY <2>1, <2>2, CallerMoves DEF Submitted
<1>4. ASSUME NEW w \in EmbedWorkers, TakeJob(w)
      PROVE  EmbedInv'
  <2>1. /\ worker[w] = NoEmbed /\ w \notin left
        /\ UNCHANGED <<embedPool, caller, outcome, left, calling>>
    BY <1>4 DEF TakeJob, Free, poolState
  <2> DEFINE h == Head(jobs)
  <2>2. /\ h \in Embeds /\ In(jobs, h) /\ jobs' \in Seq(Embeds)
        /\ \A e : Once(jobs, e) => Once(jobs', e) /\ (In(jobs', e) <=> In(jobs, e) /\ e # h)
    BY <1>4, TakingHead DEF TakeJob, EmbedInv
  <2>3. worker' = [worker EXCEPT ![w] = h]
    BY <1>4 DEF TakeJob
  <2> HIDE DEF h
  <2>4. ~Handled(h) /\ Submitted(h) /\ ~Answer(h)
    BY <2>2 DEF EmbedInv
  <2>5. /\ worker' \in [EmbedWorkers -> Embeds \cup {NoEmbed}]
        /\ \A v \in EmbedWorkers : worker'[v] = IF v = w THEN h ELSE worker[v]
    BY <2>2, <2>3 DEF EmbedInv
  <2>6. \A k \in Embeds : /\ Handled(k)' <=> k = h \/ Handled(k)
                          /\ Submitted(k)' <=> Submitted(k)
                          /\ Answer(k)' <=> Answer(k)
    BY <2>1, <2>5, EmbedderAssumption DEF Handled, Submitted, Answer
  <2>7. \A k \in Embeds : \A v, u \in EmbedWorkers : worker'[v] = k /\ worker'[u] = k => v = u
    BY <2>4, <2>5 DEF EmbedInv, Handled
  <2>8. (\A k \in calling' : Handled(k)') /\ (\A v \in left' : worker'[v] = NoEmbed)
    BY <2>1, <2>5, EmbedderAssumption DEF EmbedInv, Handled
  <2> QED
    BY <2>1, <2>2, <2>4, <2>5, <2>6, <2>7, <2>8 DEF EmbedInv
<1>5. ASSUME NEW w \in EmbedWorkers, LeavePool(w)
      PROVE  EmbedInv'
  <2>1. /\ worker[w] = NoEmbed /\ left' = left \cup {w} /\ left' \subseteq EmbedWorkers
        /\ UNCHANGED <<embedPool, caller, outcome, jobs, worker, calling>>
    BY <1>5 DEF LeavePool, Free, poolState, EmbedInv
  <2> QED
    BY <2>1 DEF EmbedInv, Handled, Submitted, Answer
<1>6. ASSUME NEW w \in EmbedWorkers, CallProvider(w)
      PROVE  EmbedInv'
  <2>1. /\ calling' = calling \cup {worker[w]} /\ worker[w] # NoEmbed
        /\ UNCHANGED <<embedPool, caller, outcome, jobs, worker, left>>
    BY <1>6 DEF CallProvider, poolState
  <2> QED
    BY <2>1 DEF EmbedInv, Handled, Submitted, Answer
<1>7. ASSUME NEW w \in EmbedWorkers, FinishJob(w)
      PROVE  EmbedInv'
  <2> DEFINE j == worker[w]
  <2>1. /\ worker' = [worker EXCEPT ![w] = NoEmbed] /\ calling' = calling \ {j}
        /\ UNCHANGED <<embedPool, caller, jobs, left>>
    BY <1>7 DEF FinishJob, EndsJob, poolState
  <2>2. PICK o \in {"embedded", "failed"} : outcome' = [outcome EXCEPT ![j] = o]
    BY <1>7 DEF FinishJob
  <2> HIDE DEF j
  <2>3. /\ worker' \in [EmbedWorkers -> Embeds \cup {NoEmbed}]
        /\ \A v \in EmbedWorkers : worker'[v] = IF v = w THEN NoEmbed ELSE worker[v]
    BY <2>1 DEF EmbedInv
  <2>4. /\ outcome' \in [Embeds -> {"none", "embedded", "failed", "full"}]
        /\ \A k \in Embeds : Answer(k)' <=> k = j \/ Answer(k)
    BY <2>2 DEF EmbedInv, Answer
  <2>5. \A k \in Embeds : /\ Handled(k)' <=> Handled(k) /\ k # j
                          /\ Submitted(k)' <=> Submitted(k)
    BY <2>1, <2>3, EmbedderAssumption DEF Handled, Submitted, EmbedInv, j
  <2>6. j \in Embeds => Handled(j)
    BY DEF j, Handled
  <2>7. \A k \in Embeds : \A v, u \in EmbedWorkers : worker'[v] = k /\ worker'[u] = k => v = u
    BY <2>3, EmbedderAssumption DEF EmbedInv
  <2>9. (\A k \in calling' : Handled(k)') /\ (\A v \in left' : worker'[v] = NoEmbed)
    BY <2>1, <2>3, <2>5 DEF EmbedInv
  <2> QED
    BY <2>1, <2>3, <2>4, <2>5, <2>6, <2>7, <2>9 DEF EmbedInv
<1>8. CASE \E j \in Embeds : EndWatch(j)
  BY <1>8 DEF EndWatch, poolState, jobVars, EmbedInv, Handled, Submitted, Answer
<1>9. CASE Swap \/ CancelAll \/ CloseQuit \/ CloseEmbedder
  <2>1. UNCHANGED <<caller, outcome, jobs, worker, left, calling>>
    BY <1>9 DEF Swap, CancelAll, CloseQuit, CloseEmbedder, CloseStep, jobVars
  <2>2. /\ embedPool' \in {"open", "cancelled", "quitting", "closed"}
        /\ embedPool' = "closed" => left = EmbedWorkers
    BY <1>9 DEF Swap, CancelAll, CloseQuit, CloseEmbedder, CloseStep, EmbedInv
  <2> QED
    BY <2>1, <2>2 DEF EmbedInv, Handled, Submitted, Answer
<1>10. CASE UNCHANGED embedVars
  BY <1>10 DEF embedVars, EmbedInv, Handled, Submitted, Answer
<1> QED
  BY <1>1, <1>2, <1>3, <1>4, <1>5, <1>6, <1>7, <1>8, <1>9, <1>10 DEF EPNext

LEMMA EmbedInitially == EPInit => EmbedInv
<1> SUFFICES ASSUME EPInit PROVE EmbedInv
  OBVIOUS
<1>1. \A j : ~In(jobs, j) /\ Once(jobs, j)
  BY DEF EPInit, In, Once
<1> QED
  BY <1>1, EmbedderAssumption DEF EPInit, EmbedInv, Handled, Submitted, Answer

\* However lookups time out and the pool is replaced and closed, with any number of workers:
\* a job that was taken in is queued, handled by one worker, or answered, never two of them
\* and never none; and the provider is not asked once the embedder has been closed.
THEOREM EmbedsStaySound == EPSpec => []EmbedsAreSound
  BY EmbedInitially, EmbedStep, EmbedInvIsEnough, PTL DEF EPSpec

-----------------------------------------------------------------------------
\* The proof that connections stay sound.  What users know on their way is needed too: who
\* has a connection, that one about to become idle is healthy and no longer counted, and
\* that nothing of an earlier ServerPool is counted in this one.
NoneIsIdleTwice == \A i, j \in DOMAIN available : available[i] = available[j] => i = j

IdleIsSound == /\ Idle \cap (Held \cup active) = {}
               /\ \A k \in Idle : healthy[k] /\ (client[k] = "open" \/ k \in old)

Whereabouts ==
  /\ \A u \in Users : conn[u] # NoConn <=> at[u] \in {"add", "use", "return", "remove", "put"}
  /\ \A u \in Users : at[u] = "put" => healthy[conn[u]] /\ conn[u] \notin active
  /\ \A u \in Users : ~current[u] => conn[u] \notin active
  /\ ~open => available = <<>> /\ active = {} /\ \A u \in Users : ~current[u]

CNInv == CNTypeOK /\ NoneIsIdleTwice /\ IdleIsSound /\ ClientsAreAccountedFor /\ Whereabouts

\* What a receive and a send do to the idle connections.
LEMMA TakingIdle ==
  ASSUME NEW s \in Seq(Conns), s # <<>>, \A i, j \in DOMAIN s : s[i] = s[j] => i = j
  PROVE  /\ Head(s) \in Conns /\ Tail(s) \in Seq(Conns) /\ Len(Tail(s)) < Len(s)
         /\ Head(s) \in {s[i] : i \in DOMAIN s}
         /\ {Tail(s)[i] : i \in DOMAIN Tail(s)} = {s[i] : i \in DOMAIN s} \ {Head(s)}
         /\ \A i, j \in DOMAIN Tail(s) : Tail(s)[i] = Tail(s)[j] => i = j
<1>1. /\ Len(s) \in Nat \ {0} /\ DOMAIN s = 1 .. Len(s) /\ Head(s) = s[1] /\ s[1] \in Conns
      /\ Tail(s) \in Seq(Conns) /\ Len(Tail(s)) = Len(s) - 1
      /\ DOMAIN Tail(s) = 1 .. (Len(s) - 1)
      /\ \A i \in 1 .. (Len(s) - 1) : Tail(s)[i] = s[i + 1]
  OBVIOUS
<1>2. ASSUME NEW k \in {s[i] : i \in DOMAIN s}, k # Head(s)
      PROVE  k \in {Tail(s)[i] : i \in DOMAIN Tail(s)}
  <2>1. PICK i \in 1 .. Len(s) : k = s[i]
    BY <1>1
  <2>2. i - 1 \in 1 .. (Len(s) - 1) /\ (i - 1) + 1 = i
    BY <1>1, <1>2, <2>1
  <2>3. Tail(s)[i - 1] = k
    BY <1>1, <2>1, <2>2
  <2> QED
    BY <1>1, <2>2, <2>3
<1>3. ASSUME NEW k \in {Tail(s)[i] : i \in DOMAIN Tail(s)}
      PROVE  k \in {s[i] : i \in DOMAIN s} /\ k # Head(s)
  <2>1. PICK i \in 1 .. (Len(s) - 1) : k = Tail(s)[i]
    BY <1>1, <1>3
  <2>2. i + 1 \in DOMAIN s /\ i + 1 # 1 /\ 1 \in DOMAIN s /\ k = s[i + 1]
    BY <1>1, <2>1
  <2> QED
    BY <1>1, <2>2
<1>4. Head(s) \in {s[i] : i \in DOMAIN s}
  BY <1>1
<1>5. \A i, j \in DOMAIN Tail(s) : Tail(s)[i] = Tail(s)[j] => i = j
  BY <1>1
<1> QED
  BY <1>1, <1>2, <1>3, <1>4, <1>5

LEMMA AddingIdle ==
  ASSUME NEW s \in Seq(Conns), NEW k \in Conns, k \notin {s[i] : i \in DOMAIN s},
         \A i, j \in DOMAIN s : s[i] = s[j] => i = j
  PROVE  /\ Append(s, k) \in Seq(Conns) /\ Len(Append(s, k)) = Len(s) + 1
         /\ {Append(s, k)[i] : i \in DOMAIN Append(s, k)} = {s[i] : i \in DOMAIN s} \cup {k}
         /\ \A i, j \in DOMAIN Append(s, k) : Append(s, k)[i] = Append(s, k)[j] => i = j
<1>1. /\ Len(s) \in Nat /\ DOMAIN s = 1 .. Len(s) /\ Append(s, k) \in Seq(Conns)
      /\ Len(Append(s, k)) = Len(s) + 1 /\ DOMAIN Append(s, k) = 1 .. (Len(s) + 1)
      /\ \A i \in 1 .. Len(s) : Append(s, k)[i] = s[i]
      /\ Append(s, k)[Len(s) + 1] = k
  OBVIOUS
<1>2. \A i \in 1 .. (Len(s) + 1) : i \in 1 .. Len(s) \/ i = Len(s) + 1
  BY <1>1
<1>3. Len(s) + 1 \in 1 .. (Len(s) + 1) /\ \A i \in 1 .. Len(s) : i \in 1 .. (Len(s) + 1)
  BY <1>1
<1>4. ASSUME NEW x \in {Append(s, k)[i] : i \in DOMAIN Append(s, k)}
      PROVE  x \in {s[i] : i \in DOMAIN s} \cup {k}
  BY <1>1, <1>2, <1>4
<1>5. ASSUME NEW x \in {s[i] : i \in DOMAIN s} \cup {k}
      PROVE  x \in {Append(s, k)[i] : i \in DOMAIN Append(s, k)}
  <2>1. CASE x = k
    BY <1>1, <1>3, <2>1
  <2>2. CASE x # k
    BY <1>1, <1>3, <1>5, <2>2
  <2> QED
    BY <2>1, <2>2
<1>6. \A i, j \in DOMAIN Append(s, k) : Append(s, k)[i] = Append(s, k)[j] => i = j
  BY <1>1, <1>2
<1> QED
  BY <1>1, <1>4, <1>5, <1>6

\* A channel in which nothing is twice has as many connections as places taken.
LEMMA IdleAreCounted ==
  ASSUME NEW s \in Seq(Conns), \A i, j \in DOMAIN s : s[i] = s[j] => i = j
  PROVE  Cardinality({s[i] : i \in DOMAIN s}) = Len(s)
<1> DEFINE T == {s[i] : i \in DOMAIN s}
<1>1. Len(s) \in Nat /\ DOMAIN s = 1 .. Len(s)
  OBVIOUS
<1>2. IsFiniteSet(1 .. Len(s)) /\ Cardinality(1 .. Len(s)) = Len(s)
  BY <1>1, FS_Interval, SMTT(60)
<1>3. s \in Bijection(1 .. Len(s), T)
  <2>1. s \in [1 .. Len(s) -> T]
    BY <1>1
  <2> QED
    BY <1>1, <2>1 DEF Bijection, Injection, Surjection, IsInjective
<1>4. ExistsBijection(1 .. Len(s), T)
  BY <1>3 DEF ExistsBijection
<1> QED
  BY <1>2, <1>4, FS_Bijection

LEMMA CNInitially == CNInit => CNInv
  BY ConnPoolAssumption DEF CNInit, CNInv, CNTypeOK, NoneIsIdleTwice, IdleIsSound, Whereabouts,
     ClientsAreAccountedFor, Idle, Held, Places

\* What a user that takes or gives back a connection does to those that are held.
LEMMA HeldChanges ==
  ASSUME CNTypeOK, ClientsAreAccountedFor, NEW u \in Users, NEW k \in Conns \cup {NoConn},
         conn' = [conn EXCEPT ![u] = k]
  PROVE  /\ Held' = (Held \ {conn[u]}) \cup ({k} \ {NoConn})
         /\ \A v \in Users \ {u} : conn'[v] = conn[v]
         /\ conn'[u] = k /\ conn' \in [Users -> Conns \cup {NoConn}]
<1>1. conn'[u] = k /\ (\A v \in Users \ {u} : conn'[v] = conn[v]) /\ conn' \in [Users -> Conns \cup {NoConn}]
  BY DEF CNTypeOK
<1>2. \A v \in Users \ {u} : conn[v] # NoConn => conn[v] # conn[u]
  BY DEF ClientsAreAccountedFor
<1> QED
  BY <1>1, <1>2 DEF Held

\* A step that neither takes nor returns, nor touches what is idle.
LEMMA Moving ==
  ASSUME CNInv, NEW u \in Users, NEW here \in Places, NEW there \in Places,
         Goes(u, here, there), UNCHANGED <<open, available, active, client, healthy, old, current, conn>>,
         here \in {"add", "use", "return", "remove", "put"} <=> there \in {"add", "use", "return", "remove", "put"},
         there # "put"
  PROVE  CNInv'
<1>1. Idle' = Idle /\ Held' = Held
  BY DEF Idle, Held
<1>2. CNTypeOK' /\ NoneIsIdleTwice'
  BY DEF CNInv, CNTypeOK, NoneIsIdleTwice, Goes
<1>3. IdleIsSound' /\ ClientsAreAccountedFor'
  BY <1>1 DEF CNInv, IdleIsSound, ClientsAreAccountedFor
<1>4. Whereabouts'
  BY DEF CNInv, CNTypeOK, Whereabouts, Goes
<1> QED
  BY <1>2, <1>3, <1>4 DEF CNInv

LEMMA Receiving ==
  ASSUME CNInv, NEW u \in Users, NEW here \in {"get", "wait"}, NEW there \in {"wait", "count"},
         Received(u, here, there), UNCHANGED <<open, active, healthy, old, current>>
  PROVE  CNInv'
<1>1. CASE ~current[u]
  <2>1. Goes(u, here, "out") /\ UNCHANGED <<available, client, conn>>
    BY <1>1 DEF Received
  <2> QED
    BY <2>1, Moving DEF Places
<1>2. CASE current[u]
  <2>1. available # <<>> /\ available' = Tail(available) /\ available \in Seq(Conns)
    BY <1>2 DEF Received, CNInv, CNTypeOK
  <2> DEFINE k == Head(available)
  <2>2. /\ k \in Conns /\ k \in Idle /\ available' \in Seq(Conns) /\ Len(available') < Len(available)
        /\ Idle' = Idle \ {k} /\ NoneIsIdleTwice'
    <3> HIDE DEF k
    <3>1. \A i, j \in DOMAIN available : available[i] = available[j] => i = j
      BY DEF CNInv, NoneIsIdleTwice
    <3>2. /\ k \in Conns /\ Tail(available) \in Seq(Conns) /\ Len(Tail(available)) < Len(available)
          /\ k \in {available[i] : i \in DOMAIN available}
          /\ {Tail(available)[i] : i \in DOMAIN Tail(available)}
               = {available[i] : i \in DOMAIN available} \ {k}
          /\ \A i, j \in DOMAIN Tail(available) :
               Tail(available)[i] = Tail(available)[j] => i = j
      BY <2>1, <3>1, TakingIdle DEF k
    <3> QED
      BY <2>1, <3>2 DEF Idle, NoneIsIdleTwice
  <2>3. healthy[k] /\ (client[k] = "open" \/ k \in old) /\ k \notin Held /\ k \notin active
    BY <2>2 DEF CNInv, IdleIsSound
  <2>4. Goes(u, here, "add") /\ conn' = [conn EXCEPT ![u] = k] /\ UNCHANGED client
    BY <1>2, <2>3 DEF Received
  <2>5. conn[u] = NoConn /\ at[u] = here /\ at' = [at EXCEPT ![u] = "add"]
    BY <2>4 DEF Goes, CNInv, Whereabouts
  <2>6. /\ Held' = Held \cup {k} /\ (\A v \in Users \ {u} : conn'[v] = conn[v])
        /\ conn'[u] = k /\ conn' \in [Users -> Conns \cup {NoConn}]
    <3> HIDE DEF k
    <3>1. CNTypeOK /\ ClientsAreAccountedFor /\ k \in Conns \cup {NoConn} /\ k # NoConn
      BY <2>2, ConnPoolAssumption DEF CNInv
    <3>2. /\ Held' = (Held \ {conn[u]}) \cup ({k} \ {NoConn})
          /\ \A v \in Users \ {u} : conn'[v] = conn[v]
          /\ conn'[u] = k /\ conn' \in [Users -> Conns \cup {NoConn}]
      BY <2>4, <3>1, HeldChanges
    <3>3. NoConn \notin Held
      BY DEF Held
    <3> QED
      BY <2>5, <3>1, <3>2, <3>3
  <2>7. CNTypeOK'
    BY <2>2, <2>4, <2>5, <2>6, ConnPoolAssumption DEF CNInv, CNTypeOK, Places
  <2>8. IdleIsSound'
    BY <2>2, <2>3, <2>4, <2>6 DEF CNInv, IdleIsSound
  <2>9. ClientsAreAccountedFor'
    <3>1. \A v \in Users : v # u => conn[v] # k
      BY <2>2, <2>3, ConnPoolAssumption DEF Held
    <3> QED
      BY <2>2, <2>3, <2>4, <2>6, <3>1 DEF CNInv, ClientsAreAccountedFor
  <2>10. Whereabouts'
    <3>1. open
      BY <1>2 DEF CNInv, Whereabouts
    <3> QED
      BY <2>2, <2>3, <2>5, <2>6, <3>1, ConnPoolAssumption, SMTT(60) DEF CNInv, CNTypeOK, Whereabouts
  <2> QED
    BY <2>2, <2>7, <2>8, <2>9, <2>10 DEF CNInv
<1> QED
  BY <1>1, <1>2

LEMMA CreatingOne == ASSUME CNInv, NEW u \in Users, CreateNewClient(u) PROVE CNInv'
<1>1. CASE Goes(u, "create", "out") /\ UNCHANGED <<client, healthy, old, conn>>
  BY <1>1, Moving DEF CreateNewClient, Places
<1>2. ASSUME NEW k \in Unused, Goes(u, "create", "add"), client' = [client EXCEPT ![k] = "open"],
             healthy' = [healthy EXCEPT ![k] = TRUE], old' = old \ {k}, conn' = [conn EXCEPT ![u] = k]
      PROVE  CNInv'
  <2>1. k \in Conns /\ k \notin Idle /\ k \notin active /\ k \notin Held /\ k # NoConn
    BY ConnPoolAssumption DEF Unused
  <2>2. conn[u] = NoConn /\ at[u] = "create" /\ at' = [at EXCEPT ![u] = "add"]
    BY <1>2 DEF Goes, CNInv, Whereabouts
  <2>3. UNCHANGED <<open, available, active, current>> /\ Idle' = Idle
    BY DEF CreateNewClient, Idle
  <2>4. /\ Held' = Held \cup {k} /\ (\A v \in Users \ {u} : conn'[v] = conn[v])
        /\ conn'[u] = k /\ conn' \in [Users -> Conns \cup {NoConn}]
    <3>1. /\ Held' = (Held \ {conn[u]}) \cup ({k} \ {NoConn})
          /\ \A v \in Users \ {u} : conn'[v] = conn[v]
          /\ conn'[u] = k /\ conn' \in [Users -> Conns \cup {NoConn}]
      BY <1>2, <2>1, HeldChanges DEF CNInv
    <3>2. NoConn \notin Held
      BY DEF Held
    <3> QED
      BY <2>1, <2>2, <3>1, <3>2
  <2>5. /\ client'[k] = "open" /\ \A x \in Conns \ {k} : client'[x] = client[x] /\ healthy'[x] = healthy[x]
    BY <1>2, <2>1 DEF CNInv, CNTypeOK
  <2>6. CNTypeOK' /\ NoneIsIdleTwice'
    BY <1>2, <2>1, <2>2, <2>3, <2>4 DEF CNInv, CNTypeOK, Places, NoneIsIdleTwice
  <2>7. Idle \subseteq Conns /\ Held \subseteq Conns
    BY DEF CNInv, CNTypeOK, Idle, Held
  <2>8. IdleIsSound'
    BY <1>2, <2>1, <2>3, <2>4, <2>5, <2>7 DEF CNInv, IdleIsSound
  <2>9. ClientsAreAccountedFor'
    <3>1. \A v \in Users : v # u => conn[v] # k
      BY <2>1 DEF Held
    <3> QED
      BY <1>2, <2>1, <2>3, <2>4, <2>5, <2>7, <3>1 DEF CNInv, ClientsAreAccountedFor
  <2>10. Whereabouts'
    <3>1. \A v \in Users \ {u} : at[v] = "put" => conn[v] \in Conns \ {k}
      BY <2>1 DEF CNInv, Whereabouts, CNTypeOK, Held
    <3> QED
      BY <2>1, <2>2, <2>3, <2>4, <2>5, <3>1 DEF CNInv, CNTypeOK, Whereabouts
  <2> QED
    BY <2>6, <2>8, <2>9, <2>10 DEF CNInv
<1> QED
  BY <1>1, <1>2 DEF CreateNewClient

LEMMA Dropping ==
  ASSUME CNTypeOK, ClientsAreAccountedFor, NEW u \in Users, Drops(u)
  PROVE  /\ Held' = Held \ {conn[u]} /\ (\A v \in Users \ {u} : conn'[v] = conn[v])
         /\ conn'[u] = NoConn /\ conn' \in [Users -> Conns \cup {NoConn}]
<1>1. NoConn \in Conns \cup {NoConn} /\ conn' = [conn EXCEPT ![u] = NoConn]
  BY DEF Drops
<1>2. /\ Held' = (Held \ {conn[u]}) \cup ({NoConn} \ {NoConn})
      /\ \A v \in Users \ {u} : conn'[v] = conn[v]
      /\ conn'[u] = NoConn /\ conn' \in [Users -> Conns \cup {NoConn}]
  BY <1>1, HeldChanges
<1> QED
  BY <1>2

\* The steps of a user that gives its connection back, or closes it.
LEMMA Closing ==
  ASSUME CNInv, NEW u \in Users, NEW here \in {"return", "remove", "put"}, Goes(u, here, "out"),
         CloseClient({conn[u]}), Drops(u), UNCHANGED <<open, available, healthy, old, current>>,
         active' = active \ {conn[u]}
  PROVE  CNInv'
<1> DEFINE k == conn[u]
<1>1. at[u] = here /\ at' = [at EXCEPT ![u] = "out"] /\ k # NoConn /\ k \in Conns /\ k \in Held
  BY DEF Goes, CNInv, CNTypeOK, Whereabouts, Held
<1>2. Idle' = Idle /\ k \notin Idle
  BY <1>1 DEF CNInv, IdleIsSound, Idle
<1>3. /\ Held' = Held \ {k} /\ (\A v \in Users \ {u} : conn'[v] = conn[v])
      /\ conn'[u] = NoConn /\ conn' \in [Users -> Conns \cup {NoConn}]
  BY Dropping DEF CNInv
<1>4. /\ client' \in [Conns -> {"none", "open", "closed"}] /\ client'[k] = "closed"
      /\ \A x \in Conns \ {k} : client'[x] = client[x]
  BY <1>1 DEF CloseClient, CNInv, CNTypeOK
<1>5. Idle \subseteq Conns /\ Held \subseteq Conns
  BY DEF CNInv, CNTypeOK, Idle, Held
<1>6. CNTypeOK' /\ NoneIsIdleTwice'
  BY <1>1, <1>3, <1>4 DEF CNInv, CNTypeOK, Places, NoneIsIdleTwice
<1>7. IdleIsSound'
  BY <1>1, <1>2, <1>3, <1>4, <1>5 DEF CNInv, IdleIsSound
<1>8. ClientsAreAccountedFor'
  BY <1>1, <1>2, <1>3, <1>4, <1>5 DEF CNInv, ClientsAreAccountedFor
<1>9. Whereabouts'
  BY <1>1, <1>3, ConnPoolAssumption DEF CNInv, CNTypeOK, Whereabouts
<1> QED
  BY <1>6, <1>7, <1>8, <1>9 DEF CNInv

LEMMA Adding == ASSUME CNInv, NEW u \in Users, Add(u) PROVE CNInv'
<1>1. /\ at[u] = "add" /\ at' = [at EXCEPT ![u] = "use"] /\ conn[u] \in Conns /\ conn[u] \in Held
      /\ UNCHANGED <<open, available, client, healthy, old, current, conn>>
  BY DEF Add, Goes, CNInv, CNTypeOK, Whereabouts, Held
<1>2. Idle' = Idle /\ Held' = Held
  BY <1>1 DEF Idle, Held
<1>3. active' = IF current[u] THEN active \cup {conn[u]} ELSE active
  BY DEF Add
<1>4. CNTypeOK' /\ NoneIsIdleTwice'
  BY <1>1, <1>3 DEF CNInv, CNTypeOK, Places, NoneIsIdleTwice
<1>5. IdleIsSound' /\ ClientsAreAccountedFor'
  BY <1>1, <1>2, <1>3 DEF CNInv, IdleIsSound, ClientsAreAccountedFor
<1>6. Whereabouts'
  <2>1. \A v \in Users \ {u} : conn[v] # conn[u]
    BY <1>1, ConnPoolAssumption DEF CNInv, ClientsAreAccountedFor
  <2> QED
    BY <1>1, <1>3, <2>1 DEF CNInv, CNTypeOK, Whereabouts
<1> QED
  BY <1>4, <1>5, <1>6 DEF CNInv

LEMMA Calling == ASSUME CNInv, NEW u \in Users, Call(u) PROVE CNInv'
<1>1. /\ at[u] = "use" /\ at' = [at EXCEPT ![u] = "return"] /\ conn[u] \in Conns /\ conn[u] \in Held
      /\ UNCHANGED <<open, available, active, client, old, current, conn>>
  BY DEF Call, Goes, CNInv, CNTypeOK, Whereabouts, Held
<1>2. Idle' = Idle /\ Held' = Held
  BY <1>1 DEF Idle, Held
<1>3. PICK ok \in BOOLEAN : healthy' = [healthy EXCEPT ![conn[u]] = @ /\ ok]
  BY DEF Call
<1>4. healthy' \in [Conns -> BOOLEAN] /\ \A k \in Conns \ {conn[u]} : healthy'[k] = healthy[k]
  BY <1>1, <1>3 DEF CNInv, CNTypeOK
<1>5. CNTypeOK' /\ NoneIsIdleTwice'
  BY <1>1, <1>4 DEF CNInv, CNTypeOK, Places, NoneIsIdleTwice
<1>6. IdleIsSound' /\ ClientsAreAccountedFor'
  <2>1. Idle \subseteq Conns \ {conn[u]}
    BY <1>1 DEF CNInv, CNTypeOK, IdleIsSound, Idle
  <2> QED
    BY <1>1, <1>2, <1>4, <2>1 DEF CNInv, IdleIsSound, ClientsAreAccountedFor
<1>7. Whereabouts'
  <2>1. \A v \in Users \ {u} : at[v] = "put" => conn[v] \in Conns \ {conn[u]}
    BY <1>1, ConnPoolAssumption DEF CNInv, CNTypeOK, Whereabouts, ClientsAreAccountedFor
  <2> QED
    BY <1>1, <1>4, <2>1 DEF CNInv, CNTypeOK, Whereabouts
<1> QED
  BY <1>5, <1>6, <1>7 DEF CNInv

LEMMA Returning == ASSUME CNInv, NEW u \in Users, ReturnClient(u) PROVE CNInv'
<1>1. CASE open
  <2>1. /\ at[u] = "return" /\ at' = [at EXCEPT ![u] = "remove"] /\ current' = [current EXCEPT ![u] = TRUE]
        /\ UNCHANGED <<open, available, active, client, healthy, old, conn>>
    BY <1>1 DEF ReturnClient, Goes
  <2>2. Idle' = Idle /\ Held' = Held
    BY <2>1 DEF Idle, Held
  <2>3. CNTypeOK' /\ NoneIsIdleTwice'
    BY <2>1 DEF CNInv, CNTypeOK, Places, NoneIsIdleTwice
  <2>4. IdleIsSound' /\ ClientsAreAccountedFor'
    BY <2>1, <2>2 DEF CNInv, IdleIsSound, ClientsAreAccountedFor
  <2>5. Whereabouts'
    BY <1>1, <2>1 DEF CNInv, CNTypeOK, Whereabouts
  <2> QED
    BY <2>3, <2>4, <2>5 DEF CNInv
<1>2. CASE ~open
  <2>1. active' = active \ {conn[u]}
    BY <1>2 DEF ReturnClient, CNInv, Whereabouts
  <2> QED
    BY <1>2, <2>1, Closing DEF ReturnClient
<1> QED
  BY <1>1, <1>2

LEMMA Unlisting == ASSUME CNInv, NEW u \in Users, Unlist(u) PROVE CNInv'
<1>1. active' = active \ {conn[u]}
  BY DEF Unlist, CNInv, Whereabouts
<1>2. CASE current[u] /\ healthy[conn[u]]
  <2>1. /\ at[u] = "remove" /\ at' = [at EXCEPT ![u] = "put"]
        /\ UNCHANGED <<open, available, client, healthy, old, current, conn>>
    BY <1>2 DEF Unlist, Goes
  <2>2. Idle' = Idle /\ Held' = Held
    BY <2>1 DEF Idle, Held
  <2>3. CNTypeOK' /\ NoneIsIdleTwice'
    BY <1>1, <2>1 DEF CNInv, CNTypeOK, Places, NoneIsIdleTwice
  <2>4. IdleIsSound' /\ ClientsAreAccountedFor'
    BY <1>1, <2>1, <2>2 DEF CNInv, IdleIsSound, ClientsAreAccountedFor
  <2>5. Whereabouts'
    BY <1>1, <1>2, <2>1 DEF CNInv, CNTypeOK, Whereabouts
  <2> QED
    BY <2>3, <2>4, <2>5 DEF CNInv
<1>3. CASE ~(current[u] /\ healthy[conn[u]])
  BY <1>1, <1>3, Closing DEF Unlist
<1> QED
  BY <1>2, <1>3

LEMMA Putting == ASSUME CNInv, NEW u \in Users, Put(u) PROVE CNInv'
<1> DEFINE k == conn[u]
<1>1. at[u] = "put" /\ k # NoConn /\ k \in Conns /\ k \in Held /\ k \notin active /\ healthy[k]
  BY DEF Put, Goes, CNInv, CNTypeOK, Whereabouts, Held
<1>2. CASE current[u] /\ Len(available) < MaxSize
  <2>1. /\ available' = Append(available, k) /\ at' = [at EXCEPT ![u] = "out"] /\ Drops(u)
        /\ UNCHANGED <<open, active, client, healthy, old, current>>
    BY <1>2 DEF Put, Goes
  <2>2. k \notin Idle /\ available \in Seq(Conns)
    BY <1>1 DEF CNInv, CNTypeOK, IdleIsSound
  <2>3. /\ available' \in Seq(Conns) /\ Len(available') = Len(available) + 1
        /\ Idle' = Idle \cup {k} /\ NoneIsIdleTwice'
    <3> HIDE DEF k
    <3>1. k \notin {available[i] : i \in DOMAIN available}
      BY <2>2 DEF Idle
    <3>2. \A i, j \in DOMAIN available : available[i] = available[j] => i = j
      BY DEF CNInv, NoneIsIdleTwice
    <3>3. /\ Append(available, k) \in Seq(Conns) /\ Len(Append(available, k)) = Len(available) + 1
          /\ {Append(available, k)[i] : i \in DOMAIN Append(available, k)}
               = {available[i] : i \in DOMAIN available} \cup {k}
          /\ \A i, j \in DOMAIN Append(available, k) :
               Append(available, k)[i] = Append(available, k)[j] => i = j
      BY <1>1, <2>2, <3>1, <3>2, AddingIdle
    <3> QED
      BY <2>1, <3>3 DEF Idle, NoneIsIdleTwice
  <2>4. /\ Held' = Held \ {k} /\ (\A v \in Users \ {u} : conn'[v] = conn[v])
        /\ conn'[u] = NoConn /\ conn' \in [Users -> Conns \cup {NoConn}]
    BY <2>1, Dropping DEF CNInv
  <2>5. CNTypeOK'
    <3>1. Len(available') <= MaxSize
      BY <1>2, <2>2, <2>3, ConnPoolAssumption
    <3> QED
      BY <2>1, <2>3, <2>4, <3>1 DEF CNInv, CNTypeOK, Places
  <2>6. IdleIsSound' /\ ClientsAreAccountedFor'
    BY <1>1, <2>1, <2>3, <2>4 DEF CNInv, IdleIsSound, ClientsAreAccountedFor
  <2>7. Whereabouts'
    <3>1. open
      BY <1>2 DEF CNInv, Whereabouts
    <3> QED
      BY <1>1, <2>1, <2>4, <3>1, ConnPoolAssumption, SMTT(60) DEF CNInv, CNTypeOK, Whereabouts
  <2> QED
    BY <2>3, <2>5, <2>6, <2>7 DEF CNInv
<1>3. CASE ~(current[u] /\ Len(available) < MaxSize)
  <2>1. active' = active \ {conn[u]}
    BY <1>1 DEF Put
  <2> QED
    BY <1>3, <2>1, Closing DEF Put
<1> QED
  BY <1>2, <1>3

\* The end of a ServerPool: what was out belongs to it from now on.
LEMMA Unregistering == ASSUME CNInv, UnregisterServer PROVE CNInv'
<1>1. /\ open' = FALSE /\ available' = <<>> /\ active' = {} /\ old' = old \cup Idle \cup active \cup Held
      /\ current' = [u \in Users |-> FALSE] /\ UNCHANGED <<healthy, at, conn>>
      /\ client' = [k \in Conns |-> IF k \in Idle \cup active THEN "closed" ELSE client[k]]
  BY DEF UnregisterServer, CloseClient
<1>2. Idle' = {} /\ Held' = Held /\ NoneIsIdleTwice'
  BY <1>1 DEF Idle, Held, NoneIsIdleTwice
<1>3. Idle \subseteq Conns /\ Held \subseteq Conns
  BY DEF CNInv, CNTypeOK, Idle, Held
<1>4. CNTypeOK'
  <2>1. client' \in [Conns -> {"none", "open", "closed"}] /\ current' \in [Users -> BOOLEAN]
    BY <1>1 DEF CNInv, CNTypeOK
  <2>2. available' \in Seq(Conns) /\ Len(available') <= MaxSize
    BY <1>1, ConnPoolAssumption
  <2>3. active' \subseteq Conns /\ old' \subseteq Conns
    BY <1>1, <1>3 DEF CNInv, CNTypeOK
  <2> QED
    BY <1>1, <2>1, <2>2, <2>3 DEF CNInv, CNTypeOK
<1>5. IdleIsSound' /\ ClientsAreAccountedFor'
  BY <1>1, <1>2, <1>3 DEF CNInv, IdleIsSound, ClientsAreAccountedFor
<1>6. Whereabouts'
  BY <1>1 DEF CNInv, Whereabouts
<1> QED
  BY <1>2, <1>4, <1>5, <1>6 DEF CNInv

LEMMA CNStep == CNInv /\ [CNNext]_connVars => CNInv'
<1> SUFFICES ASSUME CNInv, [CNNext]_connVars
             PROVE  CNInv'
  OBVIOUS
<1>1. ASSUME NEW u \in Users, Lookup(u)
      PROVE  CNInv'
  <2>1. Idle' = Idle /\ Held' = Held
    BY <1>1 DEF Lookup, Idle, Held
  <2>2. CNTypeOK' /\ NoneIsIdleTwice'
    BY <1>1 DEF Lookup, Goes, CNInv, CNTypeOK, Places, NoneIsIdleTwice
  <2>3. IdleIsSound' /\ ClientsAreAccountedFor'
    BY <1>1, <2>1 DEF Lookup, CNInv, IdleIsSound, ClientsAreAccountedFor
  <2>4. Whereabouts'
    BY <1>1 DEF Lookup, Goes, CNInv, CNTypeOK, Whereabouts
  <2> QED
    BY <2>2, <2>3, <2>4 DEF CNInv
<1>2. ASSUME NEW u \in Users, GetClient(u)
      PROVE  CNInv'
  <2>1. CASE Received(u, "get", "wait")
    BY <1>2, <2>1, Receiving DEF GetClient
  <2>2. CASE Goes(u, "get", "count") /\ UNCHANGED <<available, client, conn>>
    BY <1>2, <2>2, Moving DEF GetClient, Places
  <2> QED
    BY <1>2, <2>1, <2>2 DEF GetClient
<1>3. ASSUME NEW u \in Users, Count(u)
      PROVE  CNInv'
  <2>1. PICK there \in {"create", "wait"} : Goes(u, "count", there)
    BY <1>3 DEF Count
  <2> QED
    BY <1>3, <2>1, Moving DEF Count, Places
<1>4. ASSUME NEW u \in Users, WaitForClient(u)
      PROVE  CNInv'
  BY <1>4, Receiving DEF WaitForClient
<1>5. ASSUME NEW u \in Users, WaitTimeout(u)
      PROVE  CNInv'
  BY <1>5, Moving DEF WaitTimeout, Places
<1>6. CASE RegisterServer
  <2>1. Idle' = Idle /\ Held' = Held
    BY <1>6 DEF RegisterServer, Idle, Held
  <2>2. CNTypeOK' /\ NoneIsIdleTwice'
    BY <1>6 DEF RegisterServer, CNInv, CNTypeOK, NoneIsIdleTwice
  <2>3. IdleIsSound' /\ ClientsAreAccountedFor'
    BY <1>6, <2>1 DEF RegisterServer, CNInv, IdleIsSound, ClientsAreAccountedFor
  <2>4. Whereabouts'
    BY <1>6 DEF RegisterServer, CNInv, Whereabouts
  <2> QED
    BY <2>2, <2>3, <2>4 DEF CNInv
<1>7. CASE UNCHANGED connVars
  BY <1>7 DEF connVars, CNInv, CNTypeOK, NoneIsIdleTwice, IdleIsSound, Whereabouts,
     ClientsAreAccountedFor, Idle, Held
<1> QED
  BY <1>1, <1>2, <1>3, <1>4, <1>5, <1>6, <1>7, CreatingOne, Adding, Calling, Returning,
     Unlisting, Putting, Unregistering DEF CNNext, UserStep

\* Every variable has its type in every reachable state.
THEOREM ConnPoolTypes == CNSpec => []CNTypeOK
  BY CNInitially, CNStep, PTL DEF CNSpec, CNInv

\* However creating, using, returning and closing overlap, for any number of users and
\* connections and any size of the pool: idle connections are usable and idle once, none has
\* two users, and none is open that nobody will return.
THEOREM ConnectionsStaySound == CNSpec => []ConnectionsAreSound
<1>1. CNInv => ConnectionsAreSound
  BY IdleAreCounted DEF CNInv, CNTypeOK, NoneIsIdleTwice, IdleIsSound, ConnectionsAreSound,
     IdleIsUsable, Idle
<1> QED
  BY <1>1, CNInitially, CNStep, PTL DEF CNSpec

-----------------------------------------------------------------------------
\* Side by side: a step of one part is a step of that part, and leaves the others alone.
LEMMA OnePartSteps ==
  ASSUME [MCNext]_mcVars
  PROVE  /\ [CBNext]_cbVars /\ ([CPNext]_concurrentVars \/ UNCHANGED poolVars)
         /\ [RQNext]_gatherVars /\ [SLNext]_limiterVars /\ [CNNext]_connVars /\ [EPNext]_embedVars
<1>1. CASE part = "breaker" /\ CBNext /\ UNCHANGED <<poolVars, gatherVars, limiterVars, connVars, embedVars>>
  BY <1>1
<1>2. CASE part = "pool" /\ CPNext /\ UNCHANGED <<gatherVars, limiterVars, connVars, embedVars>>
  BY <1>2, PoolStepsAreBreakerSteps
<1>3. CASE UNCHANGED concurrentVars
  <2>1. UNCHANGED cbVars /\ UNCHANGED poolVars
    BY <1>3 DEF concurrentVars
  <2>2. \/ RQNext /\ UNCHANGED <<limiterVars, connVars, embedVars>>
        \/ SLNext /\ UNCHANGED <<gatherVars, connVars, embedVars>>
        \/ CNNext /\ UNCHANGED <<gatherVars, limiterVars, embedVars>>
        \/ EPNext /\ UNCHANGED <<gatherVars, limiterVars, connVars>>
        \/ UNCHANGED <<gatherVars, limiterVars, connVars, embedVars>>
    BY <1>3 DEF MCNext, mcVars
  <2> QED
    BY <2>1, <2>2
<1> QED
  BY <1>1, <1>2, <1>3 DEF MCNext, mcVars

\* Each request is answered once, and only to a caller that waits for it: by a worker of the
\* pool, out of a queue, with its batch, or by the embedder.
THEOREM RequestsStayAnsweredOnce == MCSpec => []RequestsAreAnsweredOnce
<1> DEFINE I == CallsInv /\ QueueInv /\ BatchInv /\ EmbedInv
<1>1. MCInit => I
  BY CallsInitially, GatherInitially, EmbedInitially DEF MCInit
<1>2. I /\ [MCNext]_mcVars => I'
  <2> SUFFICES ASSUME I, [MCNext]_mcVars PROVE I'
    OBVIOUS
  <2>1. UNCHANGED poolVars => CallsInv'
    BY DEF poolVars, CallsInv
  <2>2. CallsInv'
    BY <2>1, OnePartSteps, CallsStep
  <2> QED
    BY <2>2, OnePartSteps, QueueStep, BatchStep, EmbedStep
<1>3. I => RequestsAreAnsweredOnce
  BY CallsAreAnswered, BatchSaysOnce, EmbedInvIsEnough
     DEF QueueInv, RequestsAreAnsweredOnce, RequestsAreKept
<1> HIDE DEF I
<1> QED
  BY <1>1, <1>2, <1>3, PTL DEF MCSpec
=============================================================================
