--------------------------- MODULE ConcurrentPool ---------------------------
(***************************************************************************)
(* pkg/concurrent: StdioPool.SendRequest (doc.go) for one server, with the *)
(* parts it goes through: the circuit breaker (CircuitBreaker), the        *)
(* sliding window of the RateLimiter, and the queue and the workers of     *)
(* WorkerPool, which Close shuts down.  The pool has workers               *)
(* (WorkerCount > 0).                                                      *)
(*                                                                         *)
(* Each caller makes one call after another.  A call that gives up leaves  *)
(* its item in the queue, with a channel nobody reads any more: such an    *)
(* item is written Orphan.                                                 *)
(***************************************************************************)
EXTENDS CircuitBreaker, Sequences, SequencesExt, FiniteSets

CONSTANTS Workers, QueueSize, RateMax, Window, Orphan

ASSUME ConcurrentPoolAssumption == Orphan \notin Callers

VARIABLES pc,       \* where each caller is in SendRequest
          reply,    \* resultCh of the caller's call: has it a response?
          recent,   \* the calls the limiter let through in the last Window ticks, by age
          queue,    \* workCh
          workers,  \* the workers that still run
          shut      \* how far Shutdown has come

poolVars == <<pc, reply, recent, queue, workers, shut>>
concurrentVars == <<cbVars, poolVars>>

Steps == {"idle", "limit", "submit", "send", "waiting", "panicked"}
Ages == 0..Window

CPTypeOK == /\ CBTypeOK
            /\ pc \in [Callers -> Steps] /\ reply \in [Callers -> BOOLEAN]
            /\ \A a \in Ages : recent[a] \in 0..RateMax
            /\ queue \in Seq(Callers \cup {Orphan}) /\ Len(queue) <= QueueSize
            /\ workers \subseteq Workers
            /\ shut \in {"no", "cancelled", "closed", "done"}

CPInit == /\ CBInit
          /\ pc = [c \in Callers |-> "idle"] /\ reply = [c \in Callers |-> FALSE]
          /\ recent = [a \in Ages |-> 0]
          /\ queue = <<>> /\ workers = Workers /\ shut = "no"

At(c, here, there) == pc[c] = here /\ pc' = [pc EXCEPT ![c] = there]

-----------------------------------------------------------------------------
\* SendRequest: the state of the breaker is read, and a lapsed one half-opened ...
Admitted(c) == Ask(c) /\ At(c, "idle", "limit") /\ UNCHANGED <<reply, recent, queue, workers, shut>>
StateReturns(c) == HalfOpen(c) /\ UNCHANGED poolVars

\* ... then the limiter is asked: a call it refuses is not reported to the breaker.
InWindow == FoldFunction(+, 0, recent)
Limit(c) == asks[c] = "in" /\ IF InWindow >= RateMax
              THEN At(c, "limit", "idle") /\ Unreported(c) /\ UNCHANGED recent
              ELSE At(c, "limit", "submit") /\ UNCHANGED cbVars /\ recent' = [recent EXCEPT ![0] = @ + 1]
Limited(c) == Limit(c) /\ UNCHANGED <<reply, queue, workers, shut>>

\* WorkerPool.Submit: the flag is looked at first, the channel is sent on later.  A
\* send on a channel closed in between panics, full or not.
Submit(c) == /\ IF shut # "no" THEN At(c, "submit", "idle") /\ RecordFailure(c)
                               ELSE At(c, "submit", "send") /\ UNCHANGED cbVars
             /\ UNCHANGED <<reply, recent, queue, workers, shut>>

Closed == shut \in {"closed", "done"}
Send(c) == \/ Closed /\ At(c, "send", "panicked") /\ UNCHANGED <<cbVars, queue>>
           \/ ~Closed /\ Len(queue) < QueueSize /\ At(c, "send", "waiting")
                /\ queue' = Append(queue, c) /\ UNCHANGED cbVars
           \/ ~Closed /\ Len(queue) >= QueueSize /\ At(c, "send", "idle")
                /\ RecordFailure(c) /\ UNCHANGED queue
Sent(c) == Send(c) /\ UNCHANGED <<reply, recent, workers, shut>>

\* The select of SendRequest.  A success is counted, but not told to the breaker.
\* Mutant: the result channel outlives the call.
AbandonKeepsReply(c) == queue' = ReplaceAll(queue, c, Orphan) /\ UNCHANGED reply
Abandon(c) == queue' = ReplaceAll(queue, c, Orphan) /\ reply' = [reply EXCEPT ![c] = FALSE]
\* Mutant: a success resets the breaker, whatever its state.
ReceiveResets(c) == reply[c] /\ Leave(c) /\ cb' = Fresh /\ UNCHANGED age /\ Abandon(c)
Receive(c) == reply[c] /\ Unreported(c) /\ Abandon(c)
TimeOut(c) == RecordFailure(c) /\ Abandon(c)
Return(c) == /\ At(c, "waiting", "idle")
             /\ Receive(c) \/ TimeOut(c)
             /\ UNCHANGED <<recent, workers, shut>>
\* The caller's context ends, which it need not.
Cancel(c) == /\ At(c, "waiting", "idle")
             /\ Unreported(c) /\ Abandon(c)
             /\ UNCHANGED <<recent, workers, shut>>

\* worker and processWorkItem: the answer goes to a channel that has room for one.
\* A cancelled worker takes one more item or leaves, as select chooses.
Work(w) == /\ w \in workers /\ queue # <<>>
           /\ queue' = Tail(queue)
           /\ reply' = IF Head(queue) = Orphan THEN reply
                       ELSE [reply EXCEPT ![Head(queue)] = TRUE]
           /\ UNCHANGED <<cbVars, pc, recent, workers, shut>>
\* Mutant: a worker looks at the flag only when it has an item.
WorkerLeavesBusy(w) == /\ w \in workers /\ shut # "no" /\ queue # <<>>
                       /\ workers' = workers \ {w}
                       /\ UNCHANGED <<cbVars, pc, reply, recent, queue, shut>>
WorkerLeaves(w) == /\ w \in workers /\ shut # "no"
                   /\ workers' = workers \ {w}
                   /\ UNCHANGED <<cbVars, pc, reply, recent, queue, shut>>

\* Shutdown: the flag and the context, then the channel, then the wait.
Shutdown == /\ \/ shut = "no" /\ shut' = "cancelled"
               \/ shut = "cancelled" /\ shut' = "closed"
               \/ shut = "closed" /\ workers = {} /\ shut' = "done"
            /\ UNCHANGED <<cbVars, pc, reply, recent, queue, workers>>

\* Time passes for the breaker and for the limiter, whose oldest calls leave the
\* window.  With nothing to age there is nothing to see.
PoolTick == /\ age < Cooldown \/ InWindow > 0
            /\ age' = IF age < Cooldown THEN age + 1 ELSE age
            /\ recent' = [a \in Ages |-> IF a = 0 THEN 0 ELSE recent[a - 1]]
            /\ UNCHANGED <<cb, asks, pc, reply, queue, workers, shut>>

CallStep(c) == Admitted(c) \/ StateReturns(c) \/ Limited(c) \/ Submit(c) \/ Sent(c) \/ Return(c) \/ Cancel(c)
WorkerStep(w) == Work(w) \/ WorkerLeaves(w)
CPNext == \/ \E c \in Callers : CallStep(c)
          \/ \E w \in Workers : WorkerStep(w)
          \/ Shutdown \/ PoolTick

CPSpec == CPInit /\ [][CPNext]_concurrentVars

\* Calls go on, their timers fire; a worker that has been told to leave leaves (its
\* select is fair among what is ready); Shutdown, once begun, is carried through.
OnCall(c) == StateReturns(c) \/ Limited(c) \/ Submit(c) \/ Sent(c) \/ Return(c)
OnShutdown == shut # "no" /\ Shutdown
CPFairness ==
  /\ \A c \in Callers : WF_concurrentVars(OnCall(c))
  /\ \A w \in Workers : /\ WF_concurrentVars(Work(w))
                        /\ SF_concurrentVars(WorkerLeaves(w))
  /\ WF_concurrentVars(OnShutdown)

-----------------------------------------------------------------------------
\* A response waits only for the call that is in its select, and that call is not in
\* the queue any more: a worker never answers a call twice, or one that gave up.
AnswersAreForWaiters ==
  \A c \in Callers : /\ reply[c] => pc[c] = "waiting"
                     /\ Cardinality({i \in DOMAIN queue : queue[i] = c}) = (IF pc[c] = "waiting" /\ ~reply[c] THEN 1 ELSE 0)

\* A call that is queued when the pool shuts down may never be answered, but every
\* call returns unless its submission panicked.
CallsComeBack == \A c \in Callers : pc[c] # "idle" ~> pc[c] \in {"idle", "panicked"}

\* Shutdown returns: a worker that is waiting on an empty queue, or has a full one
\* before it, hears of it.
ShutdownReturns == shut # "no" ~> shut = "done"

\* The pool uses the breaker as CircuitBreaker says callers do.
PoolUsesBreaker == CBSpec
=============================================================================
