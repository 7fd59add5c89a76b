----------------------------- MODULE StdioServer -----------------------------
(***************************************************************************)
(* The life cycle of one stdio MCP server (pkg/pool/server.go,             *)
(* StdioServerV2): a child process that is spawned, dies, is stopped,      *)
(* restarted on demand and respawned after a crash.                        *)
(*                                                                         *)
(* Every spawn starts a GENERATION: the process, a stop channel and three  *)
(* goroutines (waitForExit, readResponses, runRequestLoop), all registered *)
(* with the wait group.  restartMu serialises the code that stops and      *)
(* spawns; only its holder runs the steps "stop" .. "verify" below, so one *)
(* pair (holder, cs) is the program counter of that code.  The crash path  *)
(* (waitForExit, then a scheduleRestart goroutine) runs outside restartMu  *)
(* until its timer has fired.                                              *)
(***************************************************************************)
EXTENDS Naturals, Integers, FiniteSets

CONSTANTS
  Restarters,   \* goroutines that call RestartServer (requests, health checks)
  Requests,     \* processRequest goroutines that may be in flight
  MaxGen,       \* bound: process generations explored
  MaxStops,     \* bound: stop() calls waiting for restartMu at the same time
  MaxRestarts,  \* reconnect.max_restart_attempts
  MaxBackoff,   \* the cap on the backoff, as an exponent of the initial one
  AutoRestart,  \* reconnect.enabled
  Stable,       \* a generation may outlive reconnect.stable_window
  Prompt        \* nobody spawns while a goroutine is between two adjacent steps

ASSUME BoundsAssumption ==
  /\ MaxGen \in Nat \ {0}
  /\ MaxStops \in Nat
  /\ MaxRestarts \in Nat \ {0}
  /\ MaxBackoff \in Nat
  /\ {AutoRestart, Stable, Prompt} \subseteq BOOLEAN

VARIABLES
  state,        \* s.state, read and written atomically, often without a lock
  generation,   \* s.generation: how many processes have been started
  proc,         \* the child process of each generation
  stopCh,       \* generations whose stop channel is closed
  waiter,       \* the waitForExit goroutine of each generation
  reader,       \* the readResponses goroutine of each generation
  loop,         \* the runRequestLoop goroutine of each generation
  request,      \* the processRequest goroutines
  sched,        \* how many scheduleRestart goroutines are at each step
  restartCount, \* crash restarts charged to the budget
  backoff,      \* s.backoff, as an exponent of the initial backoff
  exhausted,    \* s.autoRestartExhausted
  holder,       \* who holds restartMu
  cs,           \* the step its holder is at
  gen0,         \* the generation each waiting restart() read, or NotWaiting
  stopWait,     \* stop() calls waiting for restartMu
  closed,       \* s.closed
  pool          \* what the pool knows of this server

lifeVars  == <<state, generation, proc, stopCh>>
goVars    == <<waiter, reader, loop, request>>
schedVars == <<sched, restartCount, backoff, exhausted>>
muVars    == <<holder, cs>>
callVars  == <<gen0, stopWait, closed, pool>>
vars      == <<lifeVars, goVars, schedVars, muVars, callVars>>

Gens       == 1 .. MaxGen
NotWaiting == -1
SchedSteps == {"check", "decide", "storeErr", "timer"}

ServerStates == {"idle", "busy", "stopping", "stopped", "starting", "error"}

TypeOK ==
  /\ state \in ServerStates
  /\ generation \in 0 .. MaxGen
  /\ proc \in [Gens -> {"none", "alive", "killed", "exited"}]
  /\ stopCh \in SUBSET Gens
  /\ waiter \in [Gens -> {"none", "waiting", "exited", "done"}]
  /\ reader \in [Gens -> {"none", "reading", "failing", "done"}]
  /\ loop \in [Gens -> {"none", "running", "done"}]
  /\ request \in [Requests -> {"none", "dispatched", "claimed", "unclaimed"}]
  /\ sched \in [SchedSteps -> Nat]
  /\ restartCount \in Nat
  /\ backoff \in 0 .. MaxBackoff
  /\ exhausted \in BOOLEAN
  /\ holder \in {"free", "start", "sched", "restart", "stop", "close"}
  /\ cs \in {"none", "stop", "wait", "grace", "stopped",
             "spawn", "starting", "verify"}
  /\ gen0 \in [Restarters -> {NotWaiting} \cup (0 .. MaxGen)]
  /\ stopWait \in 0 .. MaxStops
  /\ closed \in BOOLEAN
  /\ pool \in {"starting", "failed", "serving", "closing", "closed"}

-----------------------------------------------------------------------------
(* Reading the state. *)

Healthy == state \in {"idle", "busy"}        \* isHealthy

Deliberate == state \in {"stopping", "stopped"}

\* s.mu is held from "starting" to the outcome of cmd.Start.
MuFree == cs # "starting"

\* s.wg is at zero: every goroutine registered by a generation has returned.
WaitGroupZero ==
  /\ \A g \in 1 .. generation :
       waiter[g] = "done" /\ reader[g] = "done" /\ loop[g] = "done"
  /\ \A r \in Requests : request[r] = "none"

\* No goroutine is between two steps that the code takes back to back.
Quiet ==
  /\ \A p \in {"check", "decide", "storeErr"} : sched[p] = 0
  /\ \A g \in Gens : waiter[g] # "exited" /\ reader[g] # "failing"

Release == holder' = "free" /\ cs' = "none"

Add(p)     == [sched EXCEPT ![p] = @ + 1]
Move(p, q) == [sched EXCEPT ![p] = @ - 1, ![q] = @ + 1]
Drop(p)    == [sched EXCEPT ![p] = @ - 1]

-----------------------------------------------------------------------------
(* NewStdioPool has created the server object and StartServer calls spawn. *)

Init ==
  /\ state = "idle" /\ generation = 0
  /\ proc = [g \in Gens |-> "none"] /\ stopCh = {}
  /\ waiter = [g \in Gens |-> "none"]
  /\ reader = [g \in Gens |-> "none"]
  /\ loop = [g \in Gens |-> "none"]
  /\ request = [r \in Requests |-> "none"]
  /\ sched = [p \in SchedSteps |-> 0]
  /\ restartCount = 0 /\ backoff = 0 /\ exhausted = FALSE
  /\ holder = "start" /\ cs = "spawn"
  /\ gen0 = [r \in Restarters |-> NotWaiting] /\ stopWait = 0
  /\ closed = FALSE /\ pool = "starting"

-----------------------------------------------------------------------------
(* spawnLocked *)

\* Mutant: a failed respawn is not re-armed.
SpawnErrorForgotten ==
  /\ Release
  /\ pool' = IF holder = "start" THEN "failed" ELSE pool
  /\ UNCHANGED sched

\* What the caller of spawnLocked does with an error: StartServer never
\* registers the server, scheduleRestart re-arms, restart returns the error.
SpawnReturnsError ==
  /\ Release
  /\ pool' = IF holder = "start" THEN "failed" ELSE pool
  /\ sched' = IF holder = "sched" THEN Add("check") ELSE sched

\* spawnLocked refuses a busy or starting server; SpawnNeverRefused says that
\* this does not happen.
SpawnBegin ==
  /\ cs = "spawn" /\ state \notin {"busy", "starting"}
  /\ Prompt => Quiet
  /\ state' = "starting" /\ cs' = "starting"
  /\ UNCHANGED <<generation, proc, stopCh, goVars, schedVars, holder, callVars>>

\* A pipe or cmd.Start fails: no process was created.
SpawnFails ==
  /\ cs = "starting"
  /\ state' = "error"
  /\ SpawnReturnsError
  /\ UNCHANGED <<generation, proc, stopCh, goVars, restartCount, backoff,
                 exhausted, gen0, stopWait, closed>>

\* The process runs: a new generation with its own stop channel and
\* goroutines; the backoff returns to its initial value.
SpawnStarts ==
  /\ cs = "starting" /\ generation < MaxGen
  /\ LET g == generation + 1 IN
       /\ generation' = g
       /\ proc' = [proc EXCEPT ![g] = "alive"]
       /\ waiter' = [waiter EXCEPT ![g] = "waiting"]
       /\ reader' = [reader EXCEPT ![g] = "reading"]
       /\ loop' = [loop EXCEPT ![g] = "running"]
  /\ state' = "idle" /\ backoff' = 0 /\ cs' = "verify"
  /\ UNCHANGED <<stopCh, request, sched, restartCount, exhausted, holder, callVars>>

\* Signal(0) finds the process: it has not been reaped yet.
VerifyAlive ==
  /\ cs = "verify" /\ waiter[generation] = "waiting"
  /\ Release
  /\ pool' = IF holder = "start" THEN "serving" ELSE pool
  /\ UNCHANGED <<lifeVars, goVars, schedVars, gen0, stopWait, closed>>

\* Signal(0) fails: the process was reaped already.  The generation is torn
\* down and the spawn reports an error.
VerifyDead ==
  /\ cs = "verify" /\ waiter[generation] # "waiting"
  /\ stopCh' = stopCh \cup {generation}
  /\ state' = "error"
  /\ SpawnReturnsError
  /\ UNCHANGED <<generation, proc, goVars, restartCount, backoff, exhausted,
                 gen0, stopWait, closed>>

-----------------------------------------------------------------------------
(* The process and the goroutines of a generation *)

\* The child exits: a crash, SIGTERM, or its own decision.  A SIGKILL is the
\* only signal it cannot ignore.
ProcExits(g) ==
  /\ proc[g] \in {"alive", "killed"}
  /\ proc' = [proc EXCEPT ![g] = "exited"]
  /\ UNCHANGED <<state, generation, stopCh, goVars, schedVars, muVars, callVars>>

\* waitForExit: Wait returns and the stop channel is closed.
WaiterReaps(g) ==
  /\ waiter[g] = "waiting" /\ proc[g] = "exited"
  /\ waiter' = [waiter EXCEPT ![g] = "exited"]
  /\ stopCh' = stopCh \cup {g}
  /\ UNCHANGED <<state, generation, proc, reader, loop, request, schedVars,
                 muVars, callVars>>

\* waitForExit under s.mu: a stop was asked for, or this is a crash, which
\* starts a scheduleRestart goroutine.  A generation that lived longer than
\* the stable window gives the restart budget back first.
WaiterCommits(g) ==
  /\ waiter[g] = "exited" /\ MuFree
  /\ waiter' = [waiter EXCEPT ![g] = "done"]
  /\ \/ /\ state = "stopping"
        /\ state' = "stopped"
        /\ UNCHANGED schedVars
     \/ /\ state # "stopping"
        /\ state' = "error"
        /\ \/ Stable /\ restartCount' = 0
           \/ UNCHANGED restartCount
        /\ sched' = Add("check")
        /\ UNCHANGED <<backoff, exhausted>>
  /\ UNCHANGED <<generation, proc, stopCh, reader, loop, request, muVars, callVars>>

\* readResponses returns at EOF or once it sees the closed stop channel.
ReaderReturns(g) ==
  /\ reader[g] = "reading"
  /\ proc[g] = "exited" \/ g \in stopCh
  /\ reader' = [reader EXCEPT ![g] = "done"]
  /\ UNCHANGED <<lifeVars, waiter, loop, request, schedVars, muVars, callVars>>

\* handleReadFailure: a line over the size limit, or the pipe closed by Wait
\* under the reader, while the stop channel is still open ...
ReaderFails(g) ==
  /\ reader[g] = "reading" /\ g \notin stopCh
  /\ reader' = [reader EXCEPT ![g] = "failing"]
  /\ UNCHANGED <<lifeVars, waiter, loop, request, schedVars, muVars, callVars>>

\* ... kills the process s.process points to by the time it takes s.mu.
ReaderKills(g) ==
  /\ reader[g] = "failing" /\ MuFree
  /\ reader' = [reader EXCEPT ![g] = "done"]
  /\ proc' = [proc EXCEPT ![generation] = IF @ = "alive" THEN "killed" ELSE @]
  /\ UNCHANGED <<state, generation, stopCh, waiter, loop, request, schedVars,
                 muVars, callVars>>

LoopReturns(g) ==
  /\ loop[g] = "running" /\ g \in stopCh
  /\ loop' = [loop EXCEPT ![g] = "done"]
  /\ UNCHANGED <<lifeVars, waiter, reader, request, schedVars, muVars, callVars>>

\* runRequestLoop starts a processRequest goroutine.  With the stop channel
\* closed its select may still pick the request.
Dispatch(g, r) ==
  /\ loop[g] = "running" /\ request[r] = "none"
  /\ request' = [request EXCEPT ![r] = "dispatched"]
  /\ UNCHANGED <<lifeVars, waiter, reader, loop, schedVars, muVars, callVars>>

\* processRequest claims an idle server.
Claim(r) ==
  /\ request[r] = "dispatched"
  /\ \/ /\ state = "idle"
        /\ state' = "busy"
        /\ request' = [request EXCEPT ![r] = "claimed"]
     \/ /\ state # "idle"
        /\ request' = [request EXCEPT ![r] = "unclaimed"]
        /\ UNCHANGED state
  /\ UNCHANGED <<generation, proc, stopCh, waiter, reader, loop, schedVars,
                 muVars, callVars>>

\* Mutant: a request that claimed the server always gives back "idle".
CompleteAlways(r) ==
  /\ request[r] \in {"claimed", "unclaimed"} /\ MuFree
  /\ request' = [request EXCEPT ![r] = "none"]
  /\ state' = IF request[r] = "claimed" THEN "idle" ELSE state
  /\ UNCHANGED <<generation, proc, stopCh, waiter, reader, loop, schedVars,
                 muVars, callVars>>

\* processRequest has its response, a timeout, or saw the closed stop channel;
\* only a claim that still stands is given back.
Complete(r) ==
  /\ request[r] \in {"claimed", "unclaimed"} /\ MuFree
  /\ request' = [request EXCEPT ![r] = "none"]
  /\ state' = IF request[r] = "claimed" /\ state = "busy" THEN "idle" ELSE state
  /\ UNCHANGED <<generation, proc, stopCh, waiter, reader, loop, schedVars,
                 muVars, callVars>>

\* checkIdleTimeout on the request loop: stop() runs in a goroutine of its own.
IdleTimeout(g) ==
  /\ loop[g] = "running" /\ MuFree
  /\ state = "idle" /\ \A r \in Requests : request[r] = "none"
  /\ stopWait < MaxStops
  /\ stopWait' = stopWait + 1
  /\ UNCHANGED <<lifeVars, goVars, schedVars, muVars, gen0, closed, pool>>

-----------------------------------------------------------------------------
(* scheduleRestart *)

SchedChecks ==
  /\ sched["check"] > 0
  /\ sched' = IF Deliberate THEN Drop("check") ELSE Move("check", "decide")
  /\ UNCHANGED <<lifeVars, goVars, restartCount, backoff, exhausted, muVars, callVars>>

\* Mutant: one attempt more than the budget.
SchedDecidesOneMore ==
  /\ sched["decide"] > 0 /\ MuFree
  /\ \/ /\ ~ AutoRestart
        /\ sched' = Move("decide", "storeErr")
        /\ UNCHANGED <<restartCount, backoff, exhausted>>
     \/ /\ AutoRestart
        /\ restartCount' = restartCount + 1
        /\ \/ /\ restartCount' > MaxRestarts + 1
              /\ exhausted' = TRUE
              /\ sched' = Move("decide", "storeErr")
              /\ UNCHANGED backoff
           \/ /\ restartCount' <= MaxRestarts + 1
              /\ backoff' = IF backoff < MaxBackoff THEN backoff + 1 ELSE backoff
              /\ sched' = Move("decide", "timer")
              /\ UNCHANGED exhausted
  /\ UNCHANGED <<lifeVars, goVars, muVars, callVars>>

\* Under s.mu: automatic restarts are off, the budget is spent, or a timer is
\* armed with the current backoff, which doubles up to its cap.
SchedDecides ==
  /\ sched["decide"] > 0 /\ MuFree
  /\ \/ /\ ~ AutoRestart
        /\ sched' = Move("decide", "storeErr")
        /\ UNCHANGED <<restartCount, backoff, exhausted>>
     \/ /\ AutoRestart
        /\ restartCount' = restartCount + 1
        /\ \/ /\ restartCount' > MaxRestarts
              /\ exhausted' = TRUE
              /\ sched' = Move("decide", "storeErr")
              /\ UNCHANGED backoff
           \/ /\ restartCount' <= MaxRestarts
              /\ backoff' = IF backoff < MaxBackoff THEN backoff + 1 ELSE backoff
              /\ sched' = Move("decide", "timer")
              /\ UNCHANGED exhausted
  /\ UNCHANGED <<lifeVars, goVars, muVars, callVars>>

\* The error state is stored after s.mu was released.
SchedStoresError ==
  /\ sched["storeErr"] > 0
  /\ state' = "error"
  /\ sched' = Drop("storeErr")
  /\ UNCHANGED <<generation, proc, stopCh, goVars, restartCount, backoff,
                 exhausted, muVars, callVars>>

\* Mutant: the respawn does not look at the state again.
SchedLocksBlindly ==
  /\ sched["timer"] > 0 /\ holder = "free"
  /\ sched' = Drop("timer")
  /\ holder' = "sched" /\ cs' = "spawn"
  /\ UNCHANGED <<lifeVars, goVars, restartCount, backoff, exhausted, callVars>>

\* The timer has fired and restartMu is taken: respawn only a server that is
\* still in the error state.
SchedLocks ==
  /\ sched["timer"] > 0 /\ holder = "free"
  /\ sched' = Drop("timer")
  /\ \/ /\ state = "error"
        /\ holder' = "sched" /\ cs' = "spawn"
     \/ /\ state # "error"
        /\ UNCHANGED muVars
  /\ UNCHANGED <<lifeVars, goVars, restartCount, backoff, exhausted, callVars>>

-----------------------------------------------------------------------------
(* restart, stop, Close *)

RestartCalled(c) ==
  /\ pool = "serving" /\ gen0[c] = NotWaiting
  /\ gen0' = [gen0 EXCEPT ![c] = generation]
  /\ UNCHANGED <<lifeVars, goVars, schedVars, muVars, stopWait, closed, pool>>

\* restart() has restartMu: it gives up on a closed server, does nothing when
\* another caller has recovered it meanwhile, and else resets the budget.
RestartLocks(c) ==
  /\ gen0[c] # NotWaiting /\ holder = "free"
  /\ gen0' = [gen0 EXCEPT ![c] = NotWaiting]
  /\ \/ /\ closed \/ (generation # gen0[c] /\ Healthy)
        /\ UNCHANGED <<muVars, restartCount, backoff, exhausted>>
     \/ /\ ~ closed /\ (generation = gen0[c] \/ ~ Healthy)
        /\ restartCount' = 0 /\ backoff' = 0 /\ exhausted' = FALSE
        /\ holder' = "restart" /\ cs' = "stop"
  /\ UNCHANGED <<lifeVars, goVars, sched, stopWait, closed, pool>>

StopCalled ==
  /\ pool = "serving" /\ stopWait < MaxStops
  /\ stopWait' = stopWait + 1
  /\ UNCHANGED <<lifeVars, goVars, schedVars, muVars, gen0, closed, pool>>

StopLocks ==
  /\ stopWait > 0 /\ holder = "free"
  /\ stopWait' = stopWait - 1
  /\ holder' = "stop" /\ cs' = "stop"
  /\ UNCHANGED <<lifeVars, goVars, schedVars, gen0, closed, pool>>

CloseCalled ==
  /\ pool = "serving"
  /\ closed' = TRUE /\ pool' = "closing"
  /\ UNCHANGED <<lifeVars, goVars, schedVars, muVars, gen0, stopWait>>

CloseLocks ==
  /\ pool = "closing" /\ holder = "free"
  /\ holder' = "close" /\ cs' = "stop"
  /\ UNCHANGED <<lifeVars, goVars, schedVars, callVars>>

\* stopLocked: nothing to do for a server that is stopping or stopped; else
\* the stop channel is closed and the process gets SIGTERM.
StopBegins ==
  /\ cs = "stop"
  /\ \/ /\ Deliberate
        /\ cs' = "stopped"
        /\ UNCHANGED lifeVars
     \/ /\ ~ Deliberate
        /\ state' = "stopping"
        /\ stopCh' = stopCh \cup {generation}
        /\ cs' = "wait"
        /\ UNCHANGED <<generation, proc>>
  /\ UNCHANGED <<goVars, schedVars, holder, callVars>>

\* Mutant: stopLocked does not wait again after the SIGKILL.
StopWaitsOnce ==
  /\ cs \in {"wait", "grace"} /\ (cs = "wait" => WaitGroupZero)
  /\ cs' = "stopped"
  /\ UNCHANGED <<lifeVars, goVars, schedVars, holder, callVars>>

StopWaits ==
  /\ cs \in {"wait", "grace"} /\ WaitGroupZero
  /\ cs' = "stopped"
  /\ UNCHANGED <<lifeVars, goVars, schedVars, holder, callVars>>

\* Mutant: no escalation to SIGKILL.
StopKillsNothing ==
  /\ cs = "wait" /\ ~ WaitGroupZero
  /\ cs' = "grace"
  /\ UNCHANGED <<lifeVars, goVars, schedVars, holder, callVars>>

\* The grace period is over: SIGKILL.
StopKills ==
  /\ cs = "wait" /\ ~ WaitGroupZero
  /\ proc' = [proc EXCEPT ![generation] = IF @ = "alive" THEN "killed" ELSE @]
  /\ cs' = "grace"
  /\ UNCHANGED <<state, generation, stopCh, goVars, schedVars, holder, callVars>>

StopReturns ==
  /\ cs = "stopped" /\ holder \in {"stop", "close"}
  /\ Release
  /\ pool' = IF holder = "close" THEN "closed" ELSE pool
  /\ UNCHANGED <<lifeVars, goVars, schedVars, gen0, stopWait, closed>>

\* restart() after its pause of 200 ms.
RestartSpawns ==
  /\ cs = "stopped" /\ holder = "restart"
  /\ state' = IF state = "stopping" THEN "stopped" ELSE state
  /\ cs' = "spawn"
  /\ UNCHANGED <<generation, proc, stopCh, goVars, schedVars, holder, callVars>>

-----------------------------------------------------------------------------
Spawning == \/ SpawnBegin \/ SpawnFails \/ SpawnStarts
            \/ VerifyAlive \/ VerifyDead

Stopping == StopBegins \/ StopWaits \/ StopKills \/ StopReturns \/ RestartSpawns

Generation(g) ==
  \/ ProcExits(g) \/ WaiterReaps(g) \/ WaiterCommits(g)
  \/ ReaderReturns(g) \/ ReaderFails(g) \/ ReaderKills(g)
  \/ LoopReturns(g) \/ IdleTimeout(g)
  \/ \E r \in Requests : Dispatch(g, r)

Scheduler == SchedChecks \/ SchedDecides \/ SchedStoresError \/ SchedLocks

Callers ==
  \/ \E c \in Restarters : RestartCalled(c) \/ RestartLocks(c)
  \/ StopCalled \/ StopLocks \/ CloseCalled \/ CloseLocks

Next ==
  \/ Spawning \/ Stopping \/ Scheduler \/ Callers
  \/ \E g \in Gens : Generation(g)
  \/ \E r \in Requests : Claim(r) \/ Complete(r)

Spec == Init /\ [][Next]_vars

\* What a generation does by itself once its process is killed or gone.
WindsDown(g) ==
  \/ proc[g] = "killed" /\ ProcExits(g)
  \/ WaiterReaps(g)
  \/ proc[g] = "exited" /\ ReaderReturns(g)
  \/ LoopReturns(g)

(***************************************************************************)
(* Every goroutine that can run does, a killed process dies, a process     *)
(* that has exited closes its pipes, and a Go mutex does not starve a      *)
(* waiter.  Nothing makes a process crash, a caller call, or a child obey  *)
(* SIGTERM.                                                                *)
(***************************************************************************)
Fairness ==
  /\ WF_vars(Spawning) /\ WF_vars(Stopping)
  /\ WF_vars(SchedChecks) /\ SF_vars(SchedDecides)
  /\ WF_vars(SchedStoresError) /\ SF_vars(SchedLocks)
  /\ \A c \in Restarters : SF_vars(RestartLocks(c))
  /\ SF_vars(StopLocks) /\ SF_vars(CloseLocks)
  /\ \A g \in Gens :
       WF_vars(WindsDown(g)) /\ SF_vars(WaiterCommits(g) \/ ReaderKills(g))
  /\ \A r \in Requests : WF_vars(Claim(r)) /\ SF_vars(Complete(r))

FairSpec == Spec /\ Fairness

-----------------------------------------------------------------------------
(* Safety *)

Live == {g \in Gens : proc[g] \in {"alive", "killed"}}

(***************************************************************************)
(* A server reported healthy has a current generation whose waitForExit    *)
(* goroutine has not finished: no late completion of a request brings back *)
(* the state of a process whose death was already recorded, which would    *)
(* leave a dead server healthy and never restarted (processRequest).       *)
(***************************************************************************)
DeadNeverHealthy ==
  Healthy /\ generation > 0 => waiter[generation] # "done"

(***************************************************************************)
(* Concurrent restarts, crash respawns and stops never leave two processes *)
(* of one server running (the comments on spawn and restart).              *)
(***************************************************************************)
OneProcess == \A g, h \in Live : g = h

(***************************************************************************)
(* A server that reports "stopped" has no process, and no goroutine of any *)
(* of its generations still waits for one (stopLocked, waitForExit).       *)
(***************************************************************************)
StoppedIsDead ==
  state = "stopped" =>
    Live = {} /\ \A g \in Gens : waiter[g] \in {"none", "done"}

(***************************************************************************)
(* Whoever holds restartMu and is about to spawn finds a server that may   *)
(* be spawned: no request of an earlier generation claims it, or gives a   *)
(* claim back, in between, so the respawn is never refused (spawnLocked).  *)
(***************************************************************************)
SpawnNeverRefused == cs = "spawn" => state \notin {"busy", "starting"}

(***************************************************************************)
(* The restart budget bounds crash respawns: without a deliberate restart  *)
(* and without a generation that outlives the stable window, a server is   *)
(* started at most MaxRestarts times after its first start, however many   *)
(* scheduleRestart goroutines one crash leaves behind.                     *)
(***************************************************************************)
BudgetBoundsRespawns ==
  Restarters = {} /\ ~ Stable => generation <= MaxRestarts + 1

(***************************************************************************)
(* A server that StartServer failed to start has no process: nothing runs  *)
(* outside the pool's view (the comment on the post-spawn check).          *)
(***************************************************************************)
FailedStartLeavesNoProcess == pool = "failed" => Live = {}

-----------------------------------------------------------------------------
(* Liveness *)

(***************************************************************************)
(* A stop that waits for the generation to wind down ends, even when the   *)
(* child ignores SIGTERM: it never waits for a goroutine that waits for it.*)
(***************************************************************************)
StopTerminates == cs \in {"wait", "grace"} ~> cs = "stopped"

(***************************************************************************)
(* The death of the current process is noticed: the server does not stay   *)
(* healthy on a dead process.                                              *)
(***************************************************************************)
DeathNoticed ==
  \A g \in Gens :
    (generation = g /\ proc[g] = "exited" /\ Healthy)
      ~> (~ Healthy \/ generation # g)

(***************************************************************************)
(* A crashed server in the pool does not stay in the error state while its *)
(* restart budget lasts: a failed respawn re-arms the retry.  (A deliberate *)
(* restart whose spawn fails reports the error to its caller and re-arms   *)
(* nothing, so the runs of this property have no Restarters.)              *)
(***************************************************************************)
CrashRecovers ==
  (state = "error" /\ pool = "serving") ~> (state # "error" \/ exhausted)

(***************************************************************************)
(* A crash is noticed and then repaired.                                   *)
(***************************************************************************)
CrashesAreHandled == DeathNoticed /\ CrashRecovers
=============================================================================
