---------------------------- MODULE RequestQueues ----------------------------
(***************************************************************************)
(* What pkg/concurrent keeps per server.  The queue of QueueManager        *)
(* (ratelimit.go), where each Enqueue starts a goroutine that takes        *)
(* whatever is at the head by then; the Batcher (batch.go); and the rate   *)
(* limiters, one for each server, that MultiServerRateLimiter.GetLimiter   *)
(* hands out as CircuitBreakerGroup.Get and QueueManager.GetOrCreateQueue  *)
(* hand out theirs.  Each request is made once.                            *)
(*                                                                         *)
(* The map of limiters is looked at under the read lock and, on a miss,    *)
(* again under the write lock before one is made.  A limiter has a         *)
(* goroutine of its own, which Close stops; limiters that are stopped and  *)
(* unused may be taken again.  They are modelled for one server.           *)
(***************************************************************************)
EXTENDS Naturals, FiniteSets, Sequences, SequencesExt

CONSTANTS Requests, MaxQueue, MaxBatch,
          Askers, Limiters, NoLimiter

ASSUME LimitersAssumption == NoLimiter \notin Limiters

VARIABLES items,     \* RequestQueue.items
          starting,  \* the requests whose Enqueue has yet to start its goroutine
          runs,      \* the processQueue goroutines that have yet to take an item
          fate,      \* what became of each request to the queue
          batch,     \* the batch of the server; <<>> is none
          flushed,   \* the batches that Flush has removed and not answered yet
          answers    \* how often each request to the batcher was answered

queueVars == <<items, starting, runs, fate>>
batchVars == <<batch, flushed, answers>>
gatherVars == <<queueVars, batchVars>>

Ended == {"refused", "answered", "timedOut", "cleared"}
RQTypeOK == /\ items \in Seq(Requests) /\ Len(items) <= MaxQueue
            /\ starting \subseteq Requests /\ runs \in Nat
            /\ fate \in [Requests -> {"new", "queued"} \cup Ended]
            /\ batch \in Seq(Requests) /\ flushed \subseteq Seq(Requests)
            /\ answers \in [Requests -> {"unmade", "pending", "refused", "once", "again"}]

RQInit == /\ items = <<>> /\ starting = {} /\ runs = 0
          /\ fate = [r \in Requests |-> "new"]
          /\ batch = <<>> /\ flushed = {} /\ answers = [r \in Requests |-> "unmade"]

-----------------------------------------------------------------------------
\* Enqueue, under the lock of the queue; its goroutine is started after it.
Enqueue(r) == /\ fate[r] = "new"
              /\ IF Len(items) >= MaxQueue
                 THEN fate' = [fate EXCEPT ![r] = "refused"] /\ UNCHANGED <<items, starting>>
                 ELSE /\ fate' = [fate EXCEPT ![r] = "queued"]
                      /\ items' = Append(items, r) /\ starting' = starting \cup {r}
              /\ UNCHANGED <<runs, batchVars>>
Start(r) == /\ r \in starting /\ starting' = starting \ {r} /\ runs' = runs + 1
            /\ UNCHANGED <<items, fate, batchVars>>

\* processQueue: the head, if there still is one, is answered, or told it is too late.
ProcessQueue == /\ runs > 0 /\ runs' = runs - 1
                /\ \/ items = <<>> /\ UNCHANGED <<items, fate>>
                   \/ /\ items # <<>> /\ items' = Tail(items)
                      /\ \E f \in {"answered", "timedOut"} : fate' = [fate EXCEPT ![Head(items)] = f]
                /\ UNCHANGED <<starting, batchVars>>

\* ClearQueue drops what is queued without a word to the callers.
ClearQueue == /\ items # <<>> /\ items' = <<>>
              /\ fate' = [r \in Requests |-> IF Contains(items, r) THEN "cleared" ELSE fate[r]]
              /\ UNCHANGED <<starting, runs, batchVars>>

-----------------------------------------------------------------------------
Answered(rs) == [r \in Requests |-> IF ~Contains(rs, r) THEN answers[r]
                                    ELSE IF answers[r] = "pending" THEN "once" ELSE "again"]
Pending(r) == [answers EXCEPT ![r] = "pending"]

\* AddRequest: the first request opens a batch whatever its size may be; the one that
\* fills it answers the whole batch under the lock; a full batch takes no more.
AddRequest(r) ==
  /\ answers[r] = "unmade"
  /\ \/ /\ batch # <<>> /\ Len(batch) >= MaxBatch
        /\ answers' = [answers EXCEPT ![r] = "refused"] /\ UNCHANGED batch
     \/ /\ batch = <<>> \/ Len(batch) + 1 < MaxBatch
        /\ batch' = Append(batch, r) /\ answers' = Pending(r)
     \/ /\ batch # <<>> /\ Len(batch) + 1 = MaxBatch
        /\ batch' = <<>>
        /\ answers' = [Answered(batch) EXCEPT ![r] = "once"]
  /\ UNCHANGED <<queueVars, flushed>>

\* Mutant: Flush leaves the batch in the map while it answers it.
FlushCopies == batch # <<>> /\ flushed' = flushed \cup {batch} /\ UNCHANGED <<queueVars, batch, answers>>
\* Flush takes the batch under the lock and answers it after.
Flush == /\ batch # <<>>
         /\ flushed' = flushed \cup {batch} /\ batch' = <<>> /\ UNCHANGED <<queueVars, answers>>
ProcessBatch == /\ \E b \in flushed : answers' = Answered(b) /\ flushed' = flushed \ {b}
                /\ UNCHANGED <<queueVars, batch>>

RQNext == \/ \E r \in Requests : Enqueue(r) \/ Start(r) \/ AddRequest(r)
          \/ ProcessQueue \/ ClearQueue \/ Flush \/ ProcessBatch
RQSpec == RQInit /\ [][RQNext]_gatherVars

\* Goroutines that were started run; nothing makes anybody flush or clear.
RQFairness == /\ \A r \in Requests : WF_gatherVars(Start(r))
                  /\ WF_gatherVars(ProcessQueue)

-----------------------------------------------------------------------------
\* There is a goroutine on its way for every queued request, though none is meant for
\* it: a goroutine that finds the queue empty is one whose request another has taken.
NoRequestIsStranded == Len(items) <= runs + Cardinality(starting)

\* So each request that was taken in ends: answered, told of the time-out, or cleared.
QueuedRequestsEnd == \A r \in Requests : fate[r] = "queued" ~> fate[r] \in Ended

\* A request that fills a batch while the batch is being flushed is answered by one of
\* the two, and no request by both.
AnsweredOnce == \A r \in Requests :
  /\ answers[r] # "again"
  /\ answers[r] = "pending" <=> Contains(batch, r) \/ \E b \in flushed : Contains(b, r)

\* Both ways of gathering requests keep them: none is stranded, none answered twice.
RequestsAreKept == NoRequestIsStranded /\ AnsweredOnce

-----------------------------------------------------------------------------
\* The limiters.
VARIABLES entry,     \* the entry of the map
          running,   \* the limiters whose cleanupLoop runs
          missed,    \* the askers between the two looks
          has        \* the limiter each asker works with

limiterVars == <<entry, running, missed, has>>

SLTypeOK == /\ entry \in Limiters \cup {NoLimiter} /\ running \subseteq Limiters
            /\ missed \subseteq Askers /\ has \in [Askers -> Limiters \cup {NoLimiter}]

SLInit == /\ entry = NoLimiter /\ running = {} /\ missed = {}
          /\ has = [a \in Askers |-> NoLimiter]

Takes(a, l) == has' = [has EXCEPT ![a] = l]

GetLimiter(a) == /\ a \notin missed /\ has[a] = NoLimiter
                 /\ IF entry # NoLimiter THEN Takes(a, entry) /\ UNCHANGED missed
                                         ELSE missed' = missed \cup {a} /\ UNCHANGED has
                 /\ UNCHANGED <<entry, running>>

\* Mutant: no second look.
MakeUnchecked(a) == /\ a \in missed /\ missed' = missed \ {a}
                    /\ \E l \in Limiters \ (running \cup {has[b] : b \in Askers}) :
                         entry' = l /\ running' = running \cup {l} /\ Takes(a, l)
MakeLimiter(a) == /\ a \in missed /\ missed' = missed \ {a}
                  /\ IF entry # NoLimiter THEN Takes(a, entry) /\ UNCHANGED <<entry, running>>
                     ELSE \E l \in Limiters \ (running \cup {has[b] : b \in Askers}) :
                            entry' = l /\ running' = running \cup {l} /\ Takes(a, l)

\* Allow, on whatever limiter the asker has: a closed one still counts.
Use(a) == has[a] # NoLimiter /\ Takes(a, NoLimiter) /\ UNCHANGED <<entry, running, missed>>

CloseLimiters == /\ entry # NoLimiter
                 /\ running' = running \ {entry} /\ entry' = NoLimiter
                 /\ UNCHANGED <<missed, has>>

SLNext == \/ \E a \in Askers : GetLimiter(a) \/ MakeLimiter(a) \/ Use(a)
          \/ CloseLimiters
SLSpec == SLInit /\ [][SLNext]_limiterVars

-----------------------------------------------------------------------------
\* A limiter runs exactly while it is the one in the map, so that Close misses none;
\* askers that came between the same two Closes count against the same limiter.
OneLimiterRuns == /\ running = {entry} \ {NoLimiter}
                  /\ \A a, b \in Askers : has[a] \in running /\ has[b] \in running => has[a] = has[b]
=============================================================================
