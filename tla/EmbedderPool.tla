---------------------------- MODULE EmbedderPool ----------------------------
(***************************************************************************)
(* The workers that embed tool calls: Pool of pkg/cache/embedder/pool.go   *)
(* and its two callers.  A lookup in the prompt cache (embedForCache of    *)
(* cmd/serve.go) waits for the outcome until its time-out; the copy of an  *)
(* outgoing call (EmbedToolCall of pkg/bouncer/embed.go) has no time-out   *)
(* and leaves a goroutine that waits.  SetupEmbedder puts another pool in  *)
(* place and closes this one, which callers may hold by then.              *)
(***************************************************************************)
EXTENDS Naturals, FiniteSets, Sequences, SequencesExt

CONSTANTS Embeds, Bounded,    \* the calls, and those of them with a time-out
          EmbedWorkers, EmbedQueue, NoEmbed

ASSUME EmbedderAssumption == Bounded \subseteq Embeds /\ NoEmbed \notin Embeds

VARIABLES inPlace,    \* the pool is the one in globalEmbedPool
          embedPool,  \* how far Close has come
          caller,     \* [Embeds -> what the caller does]
          outcome,    \* [Embeds -> what was sent to job.out, "none" so far]
          jobs,       \* the queue
          worker,     \* [EmbedWorkers -> the job it handles, or NoEmbed]
          left,       \* the workers that have returned
          calling,    \* the jobs that are with the provider
          cancelled,  \* the jobs whose context is done
          watched     \* the jobs whose goroutine waits for the shutdown

embedVars == <<inPlace, embedPool, caller, outcome, jobs, worker, left, calling, cancelled, watched>>
jobVars == <<outcome, jobs, worker, left, calling>>
poolState == <<inPlace, embedPool>>

EPTypeOK == /\ inPlace \in BOOLEAN /\ embedPool \in {"open", "cancelled", "quitting", "closed"}
            /\ caller \in [Embeds -> {"new", "loaded", "skipped", "waits", "told", "gaveUp"}]
            /\ outcome \in [Embeds -> {"none", "embedded", "failed", "full"}]
            /\ jobs \in Seq(Embeds) /\ Len(jobs) <= EmbedQueue
            /\ worker \in [EmbedWorkers -> Embeds \cup {NoEmbed}] /\ left \subseteq EmbedWorkers
            /\ cancelled \subseteq Embeds /\ watched \subseteq Embeds /\ calling \subseteq Embeds

EPInit == /\ inPlace = TRUE /\ embedPool = "open"
          /\ caller = [j \in Embeds |-> "new"] /\ outcome = [j \in Embeds |-> "none"]
          /\ jobs = <<>> /\ worker = [w \in EmbedWorkers |-> NoEmbed] /\ left = {}
          /\ calling = {} /\ cancelled = {} /\ watched = {}

CallerIs(j, s) == caller' = [caller EXCEPT ![j] = s]

-----------------------------------------------------------------------------
\* A call that has no tool, or is too large, is not embedded, nor is any without a pool.
LoadPool(j) == /\ caller[j] = "new"
               /\ \/ inPlace /\ CallerIs(j, "loaded")
                  \/ CallerIs(j, "skipped")
               /\ UNCHANGED <<poolState, jobVars, cancelled, watched>>

\* A full queue answers at once; otherwise a goroutine ties the job to the shutdown.
Embed(j) ==
  /\ caller[j] = "loaded" /\ CallerIs(j, "waits")
  /\ IF Len(jobs) < EmbedQueue
     THEN jobs' = Append(jobs, j) /\ watched' = watched \cup {j} /\ UNCHANGED <<outcome, cancelled>>
     ELSE /\ outcome' = [outcome EXCEPT ![j] = "full"] /\ cancelled' = cancelled \cup {j}
          /\ UNCHANGED <<jobs, watched>>
  /\ UNCHANGED <<poolState, worker, left, calling>>

\* The caller has the outcome ...
TakeOutcome(j) == /\ caller[j] = "waits" /\ outcome[j] # "none" /\ CallerIs(j, "told")
                  /\ cancelled' = cancelled \cup (Bounded \cap {j})
                  /\ UNCHANGED <<poolState, jobVars, watched>>
\* ... or its time is up.
EmbedTimeOut(j) == /\ caller[j] = "waits" /\ j \in Bounded /\ CallerIs(j, "gaveUp")
                   /\ cancelled' = cancelled \cup {j} /\ UNCHANGED <<poolState, jobVars, watched>>

-----------------------------------------------------------------------------
Free(w) == worker[w] = NoEmbed /\ w \notin left

\* A worker that finds both a job and the end of the pool takes either.
TakeJob(w) == /\ Free(w) /\ jobs # <<>>
              /\ worker' = [worker EXCEPT ![w] = Head(jobs)] /\ jobs' = Tail(jobs)
              /\ UNCHANGED <<poolState, caller, outcome, left, calling, cancelled, watched>>
LeavePool(w) == /\ Free(w) /\ embedPool \in {"quitting", "closed"} /\ left' = left \cup {w}
                /\ UNCHANGED <<poolState, caller, outcome, jobs, worker, calling, cancelled, watched>>

\* handleJob asks the provider unless nobody waits any more; the provider answers, or fails,
\* as it does for a context that is done.
CallProvider(w) == /\ worker[w] # NoEmbed /\ worker[w] \notin calling \cup cancelled
                   /\ calling' = calling \cup {worker[w]}
                   /\ UNCHANGED <<poolState, caller, outcome, jobs, worker, left, cancelled, watched>>

EndsJob(w) == /\ worker' = [worker EXCEPT ![w] = NoEmbed] /\ calling' = calling \ {worker[w]}
              /\ cancelled' = cancelled \cup {worker[w]}
              /\ UNCHANGED <<poolState, caller, jobs, left, watched>>
\* Mutant: a job that is cancelled before the call is dropped.
DropJob(w) == /\ worker[w] \in calling \cup cancelled /\ EndsJob(w)
              /\ \E o \in {"embedded", "failed"} :
                   outcome' = IF worker[w] \in calling THEN [outcome EXCEPT ![worker[w]] = o] ELSE outcome
FinishJob(w) == /\ worker[w] \in calling \cup cancelled /\ EndsJob(w)
                /\ \E o \in {"embedded", "failed"} :
                     /\ o = "embedded" => worker[w] \in calling
                     /\ outcome' = [outcome EXCEPT ![worker[w]] = o]

\* The goroutine of a job ends with the job or with the pool.
EndWatch(j) == /\ j \in watched /\ (j \in cancelled \/ embedPool # "open")
               /\ watched' = watched \ {j} /\ cancelled' = cancelled \cup {j}
               /\ UNCHANGED <<poolState, caller, jobVars>>

-----------------------------------------------------------------------------
\* SetupEmbedder with another pool; Close cancels what is under way, tells the workers to
\* leave, and waits for them before it closes the embedder.
Swap == inPlace /\ inPlace' = FALSE /\ UNCHANGED <<embedPool, caller, jobVars, cancelled, watched>>
CloseStep(from, to) == /\ embedPool = from /\ embedPool' = to
                       /\ UNCHANGED <<inPlace, caller, jobVars, cancelled, watched>>
CancelAll == ~inPlace /\ CloseStep("open", "cancelled")
CloseQuit == CloseStep("cancelled", "quitting")
CloseEmbedder == left = EmbedWorkers /\ CloseStep("quitting", "closed")

EPNext == \/ \E j \in Embeds : \/ LoadPool(j) \/ Embed(j) \/ TakeOutcome(j) \/ EmbedTimeOut(j) \/ EndWatch(j)
          \/ \E w \in EmbedWorkers : TakeJob(w) \/ LeavePool(w) \/ CallProvider(w) \/ FinishJob(w)
          \/ Swap \/ CancelAll \/ CloseQuit \/ CloseEmbedder

EPSpec == EPInit /\ [][EPNext]_embedVars

\* Goroutines run, time-outs come, and the provider's client has a time-out of its own.
EPFairness == /\ \A j \in Embeds : /\ WF_embedVars(Embed(j)) /\ WF_embedVars(TakeOutcome(j))
                                   /\ WF_embedVars(EmbedTimeOut(j)) /\ WF_embedVars(EndWatch(j))
              /\ \A w \in EmbedWorkers :
                   /\ WF_embedVars(TakeJob(w) \/ LeavePool(w))
                   /\ WF_embedVars(CallProvider(w) \/ FinishJob(w))
              /\ WF_embedVars(CancelAll) /\ WF_embedVars(CloseQuit) /\ WF_embedVars(CloseEmbedder)

-----------------------------------------------------------------------------
\* A job that was taken in is in the queue, with one worker, or answered, cancelled or not;
\* and the provider is asked for no more jobs than there are workers.
JobsAreKept ==
  \A j \in Embeds : caller[j] \in {"waits", "told", "gaveUp"} =>
    Cardinality({i \in DOMAIN jobs : jobs[i] = j}) + Cardinality({w \in EmbedWorkers : worker[w] = j})
      + (IF outcome[j] = "none" THEN 0 ELSE 1) = 1

\* The embedder is closed after its last call: jobs that were taken late, or that nobody
\* takes any more, do not reach it.
EmbedderIsUnused == embedPool = "closed" => calling = {} /\ \A w \in EmbedWorkers : worker[w] = NoEmbed

EmbedsAreSound == JobsAreKept /\ EmbedderIsUnused

\* A lookup comes back, whatever becomes of the pool, and so does the goroutine of an
\* outgoing call as long as the pool is not replaced; Close returns.
EmbedsComeBack == /\ \A j \in Embeds : caller[j] = "waits" ~> (caller[j] # "waits" \/ (j \notin Bounded /\ ~inPlace))
                  /\ ~inPlace ~> embedPool = "closed"

\* No goroutine that watches a job outlives it and the pool.
WatchersLeave == \A j \in Embeds : j \in watched ~> j \notin watched

\* The goroutine of an outgoing call ends.
OutgoingCopiesEnd == \A j \in Embeds \ Bounded : caller[j] = "waits" ~> caller[j] # "waits"
=============================================================================
