-------------------------- MODULE StdioServerProofs --------------------------
(***************************************************************************)
(* Safety of StdioServer for every number of generations, callers and      *)
(* requests: types, DeadNeverHealthy, SpawnNeverRefused and the restart    *)
(* budget without any assumption on scheduling; OneProcess and             *)
(* StoppedIsDead under the timing assumption Prompt.                       *)
(***************************************************************************)
EXTENDS StdioServer, TLAPS

-----------------------------------------------------------------------------
(* Types.  A generation exists before anything but StartServer runs. *)

FirstSpawn ==
  generation = 0 =>
    /\ holder = "start" \/ cs = "none"
    /\ cs \in {"none", "spawn", "starting"}
    /\ pool \in {"starting", "failed"}
    /\ stopWait = 0
    /\ \A c \in Restarters : gen0[c] = NotWaiting
    /\ \A r \in Requests : request[r] = "none"
    /\ \A p \in SchedSteps : sched[p] = 0

\* restartMu is held exactly while its holder is at a step; StartServer holds
\* it only for the spawn, and the pool shows the server only after that.
HolderOK ==
  /\ holder = "free" <=> cs = "none"
  /\ holder = "start" => cs \in {"spawn", "starting", "verify"} /\ pool = "starting"
  /\ holder = "sched" => cs \in {"spawn", "starting", "verify"}
  /\ holder \in {"stop", "close"} => cs \in {"stop", "wait", "grace", "stopped"}

\* Generations beyond the current one do not exist yet.
FutureUnborn ==
  \A g \in Gens : g > generation =>
    /\ waiter[g] = "none" /\ proc[g] = "none"
    /\ reader[g] = "none" /\ loop[g] = "none"

TypeInv == TypeOK /\ HolderOK /\ FirstSpawn /\ FutureUnborn

LEMMA TypeInit == Init => TypeInv
<1> SUFFICES ASSUME Init PROVE TypeInv
  OBVIOUS
<1> USE BoundsAssumption DEF Init, Gens, SchedSteps, NotWaiting, ServerStates
<1>1. TypeOK
  <2>1. exhausted \in BOOLEAN /\ closed \in BOOLEAN
    OBVIOUS
  <2>2. generation \in 0 .. MaxGen /\ backoff \in 0 .. MaxBackoff /\ stopWait \in 0 .. MaxStops
    OBVIOUS
  <2>3. gen0 \in [Restarters -> {NotWaiting} \cup (0 .. MaxGen)]
    OBVIOUS
  <2>4. proc \in [Gens -> {"none", "alive", "killed", "exited"}]
    OBVIOUS
  <2>5. sched \in [SchedSteps -> Nat]
    OBVIOUS
  <2>6. restartCount \in Nat
    OBVIOUS
  <2> QED BY <2>1, <2>2, <2>3, <2>4, <2>5, <2>6 DEF TypeOK
<1>2. HolderOK /\ FutureUnborn BY DEF HolderOK, FutureUnborn
<1>3. FirstSpawn BY DEF FirstSpawn
<1> QED BY <1>1, <1>2, <1>3 DEF TypeInv

LEMMA TypeNext == TypeInv /\ [Next]_vars => TypeInv'
<1> SUFFICES ASSUME TypeInv, [Next]_vars PROVE TypeInv'
  OBVIOUS
<1> USE BoundsAssumption DEF TypeInv, TypeOK, HolderOK, FirstSpawn, FutureUnborn, lifeVars,
      goVars, schedVars, muVars, callVars, Gens, SchedSteps, NotWaiting,
      ServerStates, Add, Move, Drop, Release
<1>1. CASE Spawning
  <2>1. CASE SpawnBegin BY <2>1 DEF SpawnBegin
  <2>2. CASE SpawnFails BY <2>2 DEF SpawnFails, SpawnReturnsError
  <2>3. CASE SpawnStarts BY <2>3 DEF SpawnStarts
  <2>4. CASE VerifyAlive BY <2>4 DEF VerifyAlive
  <2>5. CASE VerifyDead BY <2>5 DEF VerifyDead, SpawnReturnsError
  <2> QED BY <1>1, <2>1, <2>2, <2>3, <2>4, <2>5 DEF Spawning
<1>2. CASE Stopping
  <2>1. CASE StopBegins
    <3>1. generation \in Gens BY <2>1 DEF StopBegins
    <3>2. stopCh' \subseteq Gens BY <2>1, <3>1, ZenonT(60) DEF StopBegins
    <3> QED BY <2>1, <3>1, <3>2 DEF StopBegins
  <2>2. CASE StopWaits BY <2>2 DEF StopWaits
  <2>3. CASE StopKills BY <2>3 DEF StopKills
  <2>4. CASE StopReturns BY <2>4 DEF StopReturns
  <2>5. CASE RestartSpawns BY <2>5 DEF RestartSpawns
  <2> QED BY <1>2, <2>1, <2>2, <2>3, <2>4, <2>5 DEF Stopping
<1>3. CASE Scheduler
  <2>1. CASE SchedChecks BY <2>1, SMTT(60) DEF SchedChecks
  <2>2. CASE SchedDecides
    <3>1. sched["decide"] > 0 BY <2>2 DEF SchedDecides
    <3>2. sched' \in [SchedSteps -> Nat]
      <4>1. Move("decide", "storeErr") \in [SchedSteps -> Nat] BY <3>1
      <4>2. Move("decide", "timer") \in [SchedSteps -> Nat] BY <3>1
      <4> QED BY <2>2, <4>1, <4>2 DEF SchedDecides
    <3>3. restartCount' \in Nat /\ backoff' \in 0 .. MaxBackoff
      BY <2>2, SMTT(60) DEF SchedDecides
    <3>4. exhausted' \in BOOLEAN
      BY <2>2, Zenon DEF SchedDecides
    <3> QED BY <2>2, <3>1, <3>2, <3>3, <3>4, SMTT(60) DEF SchedDecides
  <2>3. CASE SchedStoresError BY <2>3 DEF SchedStoresError
  <2>4. CASE SchedLocks BY <2>4 DEF SchedLocks
  <2> QED BY <1>3, <2>1, <2>2, <2>3, <2>4 DEF Scheduler
<1>4. CASE Callers
  <2>1. ASSUME NEW c \in Restarters, RestartCalled(c) PROVE TypeInv' BY <2>1 DEF RestartCalled
  <2>2. ASSUME NEW c \in Restarters, RestartLocks(c) PROVE TypeInv'
    <3>1. gen0' \in [Restarters -> {NotWaiting} \cup (0 .. MaxGen)]
      BY <2>2 DEF RestartLocks
    <3>2. generation # 0 BY <2>2 DEF RestartLocks
    <3>3. restartCount' \in Nat /\ backoff' \in 0 .. MaxBackoff
      BY <2>2, SMTT(60) DEF RestartLocks
    <3>4. exhausted' \in BOOLEAN
      BY <2>2, Zenon DEF RestartLocks
    <3>5. TypeOK' BY <2>2, <3>1, <3>3, <3>4, SMTT(60) DEF RestartLocks
    <3> QED BY <2>2, <3>2, <3>5, SMTT(60) DEF RestartLocks
  <2>3. CASE StopCalled BY <2>3 DEF StopCalled
  <2>4. CASE StopLocks BY <2>4 DEF StopLocks
  <2>5. CASE CloseCalled BY <2>5 DEF CloseCalled
  <2>6. CASE CloseLocks BY <2>6 DEF CloseLocks
  <2> QED BY <1>4, <2>1, <2>2, <2>3, <2>4, <2>5, <2>6 DEF Callers
<1>5. ASSUME NEW g \in Gens, Generation(g) PROVE TypeInv'
  <2>1. CASE ProcExits(g) BY <2>1 DEF ProcExits
  <2>2. CASE WaiterReaps(g) BY <2>2 DEF WaiterReaps
  <2>3. CASE WaiterCommits(g) BY <2>3, SMTT(60) DEF WaiterCommits
  <2>4. CASE ReaderReturns(g) BY <2>4 DEF ReaderReturns
  <2>5. CASE ReaderFails(g) BY <2>5 DEF ReaderFails
  <2>6. CASE ReaderKills(g) BY <2>6 DEF ReaderKills
  <2>7. CASE LoopReturns(g) BY <2>7 DEF LoopReturns
  <2>8. CASE IdleTimeout(g) BY <2>8 DEF IdleTimeout
  <2>9. ASSUME NEW r \in Requests, Dispatch(g, r) PROVE TypeInv' BY <2>9 DEF Dispatch
  <2> QED BY <1>5, <2>1, <2>2, <2>3, <2>4, <2>5, <2>6, <2>7, <2>8, <2>9 DEF Generation
<1>6. ASSUME NEW r \in Requests, Claim(r) \/ Complete(r) PROVE TypeInv'
  <2>1. CASE Claim(r) BY <2>1, SMTT(60) DEF Claim
  <2>2. CASE Complete(r) BY <2>2 DEF Complete
  <2> QED BY <1>6, <2>1, <2>2
<1>7. CASE UNCHANGED vars BY <1>7 DEF vars
<1> QED BY <1>1, <1>2, <1>3, <1>4, <1>5, <1>6, <1>7 DEF Next

\* Every variable is of its type in every reachable state (all actions).
THEOREM TypeCorrect == Spec => []TypeOK
<1>1. Init => TypeInv BY TypeInit
<1>2. TypeInv /\ [Next]_vars => TypeInv' BY TypeNext
<1>3. TypeInv => TypeOK BY DEF TypeInv
<1> QED BY <1>1, <1>2, <1>3, PTL DEF Spec

-----------------------------------------------------------------------------
(* Generations *)

\* A completed request leaves a crash or a stop alone, whatever the scheduling.
LEMMA DeathNext ==
  TypeInv /\ DeadNeverHealthy /\ [Next]_vars => DeadNeverHealthy'
<1> SUFFICES ASSUME TypeInv, DeadNeverHealthy, [Next]_vars
             PROVE  DeadNeverHealthy'
  OBVIOUS
<1> USE BoundsAssumption DEF TypeInv, TypeOK, FutureUnborn, DeadNeverHealthy,
      Healthy, lifeVars, goVars, schedVars, muVars, callVars, Gens
<1>1. CASE Spawning
  <2>1. CASE SpawnBegin BY <2>1 DEF SpawnBegin
  <2>2. CASE SpawnFails BY <2>2 DEF SpawnFails, SpawnReturnsError
  <2>3. CASE SpawnStarts BY <2>3 DEF SpawnStarts
  <2>4. CASE VerifyAlive BY <2>4 DEF VerifyAlive
  <2>5. CASE VerifyDead BY <2>5 DEF VerifyDead, SpawnReturnsError
  <2> QED BY <1>1, <2>1, <2>2, <2>3, <2>4, <2>5 DEF Spawning
<1>2. CASE Stopping
  <2>1. CASE StopBegins BY <2>1 DEF StopBegins
  <2>2. CASE StopWaits BY <2>2 DEF StopWaits
  <2>3. CASE StopKills BY <2>3 DEF StopKills
  <2>4. CASE StopReturns BY <2>4 DEF StopReturns
  <2>5. CASE RestartSpawns BY <2>5 DEF RestartSpawns
  <2> QED BY <1>2, <2>1, <2>2, <2>3, <2>4, <2>5 DEF Stopping
<1>3. CASE Scheduler
  <2>1. CASE SchedChecks BY <2>1 DEF SchedChecks
  <2>2. CASE SchedDecides BY <2>2 DEF SchedDecides
  <2>3. CASE SchedStoresError BY <2>3 DEF SchedStoresError
  <2>4. CASE SchedLocks BY <2>4 DEF SchedLocks
  <2> QED BY <1>3, <2>1, <2>2, <2>3, <2>4 DEF Scheduler
<1>4. CASE Callers
  <2>1. ASSUME NEW c \in Restarters, RestartCalled(c) PROVE DeadNeverHealthy' BY <2>1 DEF RestartCalled
  <2>2. ASSUME NEW c \in Restarters, RestartLocks(c) PROVE DeadNeverHealthy' BY <2>2 DEF RestartLocks
  <2>3. CASE StopCalled BY <2>3 DEF StopCalled
  <2>4. CASE StopLocks BY <2>4 DEF StopLocks
  <2>5. CASE CloseCalled BY <2>5 DEF CloseCalled
  <2>6. CASE CloseLocks BY <2>6 DEF CloseLocks
  <2> QED BY <1>4, <2>1, <2>2, <2>3, <2>4, <2>5, <2>6 DEF Callers
<1>5. ASSUME NEW g \in Gens, Generation(g) PROVE DeadNeverHealthy'
  <2>1. CASE ProcExits(g) BY <2>1 DEF ProcExits
  <2>2. CASE WaiterReaps(g) BY <2>2 DEF WaiterReaps
  <2>3. CASE WaiterCommits(g) BY <2>3 DEF WaiterCommits
  <2>4. CASE ReaderReturns(g) BY <2>4 DEF ReaderReturns
  <2>5. CASE ReaderFails(g) BY <2>5 DEF ReaderFails
  <2>6. CASE ReaderKills(g) BY <2>6 DEF ReaderKills
  <2>7. CASE LoopReturns(g) BY <2>7 DEF LoopReturns
  <2>8. CASE IdleTimeout(g) BY <2>8 DEF IdleTimeout
  <2>9. ASSUME NEW r \in Requests, Dispatch(g, r) PROVE DeadNeverHealthy' BY <2>9 DEF Dispatch
  <2> QED BY <1>5, <2>1, <2>2, <2>3, <2>4, <2>5, <2>6, <2>7, <2>8, <2>9 DEF Generation
<1>6. ASSUME NEW r \in Requests, Claim(r) \/ Complete(r) PROVE DeadNeverHealthy'
  <2>1. CASE Claim(r) BY <2>1 DEF Claim
  <2>2. CASE Complete(r) BY <2>2 DEF Complete
  <2> QED BY <1>6, <2>1, <2>2
<1>7. CASE UNCHANGED vars BY <1>7 DEF vars
<1> QED BY <1>1, <1>2, <1>3, <1>4, <1>5, <1>6, <1>7 DEF Next

\* A server reported healthy has a live waitForExit goroutine (processRequest,
\* waitForExit), however late any goroutine runs.
THEOREM NeverHealthyWhenDead == Spec => []DeadNeverHealthy
<1>1. Init => TypeInv /\ DeadNeverHealthy
  BY TypeInit DEF Init, DeadNeverHealthy
<1>2. TypeInv /\ DeadNeverHealthy /\ [Next]_vars => (TypeInv /\ DeadNeverHealthy)'
  BY TypeNext, DeathNext
<1> QED BY <1>1, <1>2, PTL DEF Spec

\* Every generation has its waitForExit, which has not seen the exit while the
\* process lives, and has closed the stop channel once it has.
WaiterTracksProcess ==
  \A g \in Gens :
    /\ g <= generation => waiter[g] # "none"
    /\ proc[g] \in {"alive", "killed"} => waiter[g] = "waiting"
    /\ waiter[g] \in {"exited", "done"} => g \in stopCh

OldAreDone == \A g \in Gens : g < generation => waiter[g] = "done"

CurrentReaped == generation \in Gens => waiter[generation] # "waiting"
CurrentDone   == generation \in Gens => waiter[generation] = "done"

NoPendingSched == \A p \in {"check", "decide", "storeErr"} : sched[p] = 0

ProcessInv ==
  /\ WaiterTracksProcess
  /\ OldAreDone
  /\ cs = "starting" => CurrentDone /\ NoPendingSched
  /\ cs = "stopped" => CurrentDone
  /\ cs = "spawn" => CurrentReaped
  /\ state = "error" => CurrentReaped
  /\ Deliberate /\ cs \notin {"wait", "grace"} => CurrentDone
  /\ state = "stopped" => CurrentDone
  /\ ~ CurrentReaped => NoPendingSched

\* The state seen by the holder of restartMu on its way to a spawn.
RefusalInv ==
  /\ state = "starting" => cs = "starting"
  /\ cs \in {"wait", "grace", "stopped"} => state \in {"stopping", "stopped", "error"}
  /\ cs = "spawn" => IF generation = 0 THEN state = "idle"
                     ELSE state \in {"stopping", "stopped", "error"}

SafeInv == TypeInv /\ ProcessInv

LEMMA ProcessNext == Prompt /\ TypeInv /\ ProcessInv /\ [Next]_vars => ProcessInv'
<1> SUFFICES ASSUME Prompt, TypeInv, ProcessInv, [Next]_vars PROVE ProcessInv'
  OBVIOUS
<1> USE BoundsAssumption DEF TypeInv, TypeOK, HolderOK, FirstSpawn, FutureUnborn,
      ProcessInv, WaiterTracksProcess, OldAreDone, CurrentReaped, CurrentDone,
      NoPendingSched, Deliberate, Quiet,
      lifeVars, goVars, schedVars, muVars, callVars, Gens, SchedSteps,
      Add, Move, Drop, Release
<1>1. CASE Spawning
  <2>1. CASE SpawnBegin BY <2>1 DEF SpawnBegin
  <2>2. CASE SpawnFails BY <2>2 DEF SpawnFails, SpawnReturnsError
  <2>3. CASE SpawnStarts BY <2>3 DEF SpawnStarts
  <2>4. CASE VerifyAlive BY <2>4 DEF VerifyAlive
  <2>5. CASE VerifyDead BY <2>5 DEF VerifyDead, SpawnReturnsError
  <2> QED BY <1>1, <2>1, <2>2, <2>3, <2>4, <2>5 DEF Spawning
<1>2. CASE Stopping
  <2>1. CASE StopBegins BY <2>1 DEF StopBegins
  <2>2. CASE StopWaits BY <2>2 DEF StopWaits, WaitGroupZero
  <2>3. CASE StopKills BY <2>3 DEF StopKills
  <2>4. CASE StopReturns BY <2>4 DEF StopReturns
  <2>5. CASE RestartSpawns BY <2>5 DEF RestartSpawns
  <2> QED BY <1>2, <2>1, <2>2, <2>3, <2>4, <2>5 DEF Stopping
<1>3. CASE Scheduler
  <2>1. CASE SchedChecks BY <2>1 DEF SchedChecks
  <2>2. CASE SchedDecides BY <2>2 DEF SchedDecides
  <2>3. CASE SchedStoresError BY <2>3 DEF SchedStoresError
  <2>4. CASE SchedLocks BY <2>4 DEF SchedLocks
  <2> QED BY <1>3, <2>1, <2>2, <2>3, <2>4 DEF Scheduler
<1>4. CASE Callers
  <2>1. ASSUME NEW c \in Restarters, RestartCalled(c) PROVE ProcessInv' BY <2>1 DEF RestartCalled
  <2>2. ASSUME NEW c \in Restarters, RestartLocks(c) PROVE ProcessInv' BY <2>2 DEF RestartLocks
  <2>3. CASE StopCalled BY <2>3 DEF StopCalled
  <2>4. CASE StopLocks BY <2>4 DEF StopLocks
  <2>5. CASE CloseCalled BY <2>5 DEF CloseCalled
  <2>6. CASE CloseLocks BY <2>6 DEF CloseLocks
  <2> QED BY <1>4, <2>1, <2>2, <2>3, <2>4, <2>5, <2>6 DEF Callers
<1>5. ASSUME NEW g \in Gens, Generation(g) PROVE ProcessInv'
  <2>1. CASE ProcExits(g) BY <2>1 DEF ProcExits
  <2>2. CASE WaiterReaps(g) BY <2>2 DEF WaiterReaps
  <2>3. CASE WaiterCommits(g) BY <2>3 DEF WaiterCommits
  <2>4. CASE ReaderReturns(g) BY <2>4 DEF ReaderReturns
  <2>5. CASE ReaderFails(g) BY <2>5 DEF ReaderFails
  <2>6. CASE ReaderKills(g) BY <2>6 DEF ReaderKills
  <2>7. CASE LoopReturns(g) BY <2>7 DEF LoopReturns
  <2>8. CASE IdleTimeout(g) BY <2>8 DEF IdleTimeout
  <2>9. ASSUME NEW r \in Requests, Dispatch(g, r) PROVE ProcessInv' BY <2>9 DEF Dispatch
  <2> QED BY <1>5, <2>1, <2>2, <2>3, <2>4, <2>5, <2>6, <2>7, <2>8, <2>9 DEF Generation
<1>6. ASSUME NEW r \in Requests, Claim(r) \/ Complete(r) PROVE ProcessInv'
  <2>1. CASE Claim(r) BY <2>1 DEF Claim
  <2>2. CASE Complete(r) BY <2>2 DEF Complete
  <2> QED BY <1>6, <2>1, <2>2
<1>7. CASE UNCHANGED vars BY <1>7 DEF vars
<1> QED BY <1>1, <1>2, <1>3, <1>4, <1>5, <1>6, <1>7 DEF Next

LEMMA RefusalNext == TypeInv /\ RefusalInv /\ [Next]_vars => RefusalInv'
<1> SUFFICES ASSUME TypeInv, RefusalInv, [Next]_vars PROVE RefusalInv'
  OBVIOUS
<1> USE BoundsAssumption DEF TypeInv, TypeOK, HolderOK, FirstSpawn, FutureUnborn,
      RefusalInv, Deliberate, lifeVars, goVars, schedVars, muVars, callVars,
      Gens, SchedSteps, Release
<1>1. CASE Spawning
  <2>1. CASE SpawnBegin BY <2>1 DEF SpawnBegin
  <2>2. CASE SpawnFails BY <2>2 DEF SpawnFails, SpawnReturnsError
  <2>3. CASE SpawnStarts BY <2>3 DEF SpawnStarts
  <2>4. CASE VerifyAlive BY <2>4 DEF VerifyAlive
  <2>5. CASE VerifyDead BY <2>5 DEF VerifyDead, SpawnReturnsError
  <2> QED BY <1>1, <2>1, <2>2, <2>3, <2>4, <2>5 DEF Spawning
<1>2. CASE Stopping
  <2>1. CASE StopBegins BY <2>1 DEF StopBegins
  <2>2. CASE StopWaits BY <2>2 DEF StopWaits
  <2>3. CASE StopKills BY <2>3 DEF StopKills
  <2>4. CASE StopReturns BY <2>4 DEF StopReturns
  <2>5. CASE RestartSpawns BY <2>5 DEF RestartSpawns
  <2> QED BY <1>2, <2>1, <2>2, <2>3, <2>4, <2>5 DEF Stopping
<1>3. CASE Scheduler
  <2>1. CASE SchedChecks BY <2>1 DEF SchedChecks
  <2>2. CASE SchedDecides BY <2>2 DEF SchedDecides
  <2>3. CASE SchedStoresError BY <2>3 DEF SchedStoresError
  <2>4. CASE SchedLocks BY <2>4 DEF SchedLocks
  <2> QED BY <1>3, <2>1, <2>2, <2>3, <2>4 DEF Scheduler
<1>4. CASE Callers
  <2>1. ASSUME NEW c \in Restarters, RestartCalled(c) PROVE RefusalInv' BY <2>1 DEF RestartCalled
  <2>2. ASSUME NEW c \in Restarters, RestartLocks(c) PROVE RefusalInv' BY <2>2 DEF RestartLocks
  <2>3. CASE StopCalled BY <2>3 DEF StopCalled
  <2>4. CASE StopLocks BY <2>4 DEF StopLocks
  <2>5. CASE CloseCalled BY <2>5 DEF CloseCalled
  <2>6. CASE CloseLocks BY <2>6 DEF CloseLocks
  <2> QED BY <1>4, <2>1, <2>2, <2>3, <2>4, <2>5, <2>6 DEF Callers
<1>5. ASSUME NEW g \in Gens, Generation(g) PROVE RefusalInv'
  <2>1. CASE ProcExits(g) BY <2>1 DEF ProcExits
  <2>2. CASE WaiterReaps(g) BY <2>2 DEF WaiterReaps
  <2>3. CASE WaiterCommits(g) BY <2>3 DEF WaiterCommits
  <2>4. CASE ReaderReturns(g) BY <2>4 DEF ReaderReturns
  <2>5. CASE ReaderFails(g) BY <2>5 DEF ReaderFails
  <2>6. CASE ReaderKills(g) BY <2>6 DEF ReaderKills
  <2>7. CASE LoopReturns(g) BY <2>7 DEF LoopReturns
  <2>8. CASE IdleTimeout(g) BY <2>8 DEF IdleTimeout
  <2>9. ASSUME NEW r \in Requests, Dispatch(g, r) PROVE RefusalInv' BY <2>9 DEF Dispatch
  <2> QED BY <1>5, <2>1, <2>2, <2>3, <2>4, <2>5, <2>6, <2>7, <2>8, <2>9 DEF Generation
<1>6. ASSUME NEW r \in Requests, Claim(r) \/ Complete(r) PROVE RefusalInv'
  <2>1. CASE Claim(r) BY <2>1 DEF Claim
  <2>2. CASE Complete(r) BY <2>2 DEF Complete
  <2> QED BY <1>6, <2>1, <2>2
<1>7. CASE UNCHANGED vars BY <1>7 DEF vars
<1> QED BY <1>1, <1>2, <1>3, <1>4, <1>5, <1>6, <1>7 DEF Next

LEMMA SafeInit == Init => SafeInv
BY TypeInit, BoundsAssumption
   DEF Init, SafeInv, ProcessInv, WaiterTracksProcess, OldAreDone, CurrentReaped,
       CurrentDone, NoPendingSched, Deliberate, Gens, SchedSteps

LEMMA SafeNext == Prompt /\ SafeInv /\ [Next]_vars => SafeInv'
BY TypeNext, ProcessNext DEF SafeInv

\* When nobody spawns between two adjacent steps of another goroutine,
\* concurrent restarts, stops and crash respawns never run two processes
\* (spawn, restart, scheduleRestart).
THEOREM OneProcessAtATime == Prompt => (Spec => []OneProcess)
<1> SUFFICES ASSUME Prompt PROVE Spec => []OneProcess
  OBVIOUS
<1>1. SafeInv => OneProcess
  BY DEF SafeInv, TypeInv, TypeOK, FutureUnborn, ProcessInv, WaiterTracksProcess,
         OldAreDone, OneProcess, Live, Gens
<1>2. SafeInv /\ [Next]_vars => SafeInv'
  BY SafeNext
<1> QED BY SafeInit, <1>1, <1>2, PTL DEF Spec

\* Under the same assumption "stopped" means that no process is left
\* (stopLocked).
THEOREM StoppedMeansDead == Prompt => (Spec => []StoppedIsDead)
<1> SUFFICES ASSUME Prompt PROVE Spec => []StoppedIsDead
  OBVIOUS
<1>1. SafeInv => StoppedIsDead
  BY DEF SafeInv, TypeInv, TypeOK, FutureUnborn, ProcessInv, WaiterTracksProcess,
         OldAreDone, CurrentDone, StoppedIsDead, Live, Gens
<1>2. SafeInv /\ [Next]_vars => SafeInv'
  BY SafeNext
<1> QED BY SafeInit, <1>1, <1>2, PTL DEF Spec

\* spawnLocked never refuses a respawn, whatever the scheduling.
THEOREM RespawnNeverRefused == Spec => []SpawnNeverRefused
<1>1. Init => TypeInv /\ RefusalInv
  BY TypeInit DEF Init, RefusalInv
<1>2. TypeInv /\ RefusalInv /\ [Next]_vars => (TypeInv /\ RefusalInv)'
  BY TypeNext, RefusalNext
<1>3. RefusalInv => SpawnNeverRefused
  BY DEF RefusalInv, SpawnNeverRefused
<1> QED BY <1>1, <1>2, <1>3, PTL DEF Spec

-----------------------------------------------------------------------------
(* The restart budget *)

SpawnDue == IF holder \in {"start", "sched"} /\ cs \in {"spawn", "starting"} THEN 1 ELSE 0

Charged == IF restartCount <= MaxRestarts THEN restartCount ELSE MaxRestarts

BudgetInv ==
  Restarters = {} /\ ~ Stable =>
    /\ holder # "restart"
    /\ generation + sched["timer"] + SpawnDue <= 1 + Charged

LEMMA BudgetNext == TypeInv /\ BudgetInv /\ [Next]_vars => BudgetInv'
<1> SUFFICES ASSUME TypeInv, BudgetInv, [Next]_vars, Restarters = {}, ~ Stable
             PROVE  BudgetInv'
  BY DEF BudgetInv
<1> USE BoundsAssumption DEF TypeInv, TypeOK, HolderOK, BudgetInv, SpawnDue, Charged,
      lifeVars, goVars, schedVars, muVars, callVars, Gens, SchedSteps,
      Add, Move, Drop, Release
<1>1. CASE Spawning
  <2>1. CASE SpawnBegin BY <2>1 DEF SpawnBegin
  <2>2. CASE SpawnFails BY <2>2 DEF SpawnFails, SpawnReturnsError
  <2>3. CASE SpawnStarts BY <2>3 DEF SpawnStarts
  <2>4. CASE VerifyAlive BY <2>4 DEF VerifyAlive
  <2>5. CASE VerifyDead BY <2>5 DEF VerifyDead, SpawnReturnsError
  <2> QED BY <1>1, <2>1, <2>2, <2>3, <2>4, <2>5 DEF Spawning
<1>2. CASE Stopping
  <2>1. CASE StopBegins BY <2>1 DEF StopBegins
  <2>2. CASE StopWaits BY <2>2 DEF StopWaits
  <2>3. CASE StopKills BY <2>3 DEF StopKills
  <2>4. CASE StopReturns BY <2>4 DEF StopReturns
  <2>5. CASE RestartSpawns BY <2>5 DEF RestartSpawns
  <2> QED BY <1>2, <2>1, <2>2, <2>3, <2>4, <2>5 DEF Stopping
<1>3. CASE Scheduler
  <2>1. CASE SchedChecks BY <2>1 DEF SchedChecks
  <2>2. CASE SchedDecides BY <2>2, SMTT(60) DEF SchedDecides
  <2>3. CASE SchedStoresError BY <2>3 DEF SchedStoresError
  <2>4. CASE SchedLocks BY <2>4 DEF SchedLocks
  <2> QED BY <1>3, <2>1, <2>2, <2>3, <2>4 DEF Scheduler
<1>4. CASE Callers
  <2>1. ASSUME NEW c \in Restarters, RestartCalled(c) PROVE BudgetInv' BY <2>1 DEF RestartCalled
  <2>2. ASSUME NEW c \in Restarters, RestartLocks(c) PROVE BudgetInv' BY <2>2 DEF RestartLocks
  <2>3. CASE StopCalled BY <2>3 DEF StopCalled
  <2>4. CASE StopLocks BY <2>4 DEF StopLocks
  <2>5. CASE CloseCalled BY <2>5 DEF CloseCalled
  <2>6. CASE CloseLocks BY <2>6 DEF CloseLocks
  <2> QED BY <1>4, <2>1, <2>2, <2>3, <2>4, <2>5, <2>6 DEF Callers
<1>5. ASSUME NEW g \in Gens, Generation(g) PROVE BudgetInv'
  <2>1. CASE ProcExits(g) BY <2>1 DEF ProcExits
  <2>2. CASE WaiterReaps(g) BY <2>2 DEF WaiterReaps
  <2>3. CASE WaiterCommits(g) BY <2>3, ZenonT(60) DEF WaiterCommits
  <2>4. CASE ReaderReturns(g) BY <2>4 DEF ReaderReturns
  <2>5. CASE ReaderFails(g) BY <2>5 DEF ReaderFails
  <2>6. CASE ReaderKills(g) BY <2>6 DEF ReaderKills
  <2>7. CASE LoopReturns(g) BY <2>7 DEF LoopReturns
  <2>8. CASE IdleTimeout(g) BY <2>8 DEF IdleTimeout
  <2>9. ASSUME NEW r \in Requests, Dispatch(g, r) PROVE BudgetInv' BY <2>9 DEF Dispatch
  <2> QED BY <1>5, <2>1, <2>2, <2>3, <2>4, <2>5, <2>6, <2>7, <2>8, <2>9 DEF Generation
<1>6. ASSUME NEW r \in Requests, Claim(r) \/ Complete(r) PROVE BudgetInv'
  <2>1. CASE Claim(r) BY <2>1 DEF Claim
  <2>2. CASE Complete(r) BY <2>2 DEF Complete
  <2> QED BY <1>6, <2>1, <2>2
<1>7. CASE UNCHANGED vars BY <1>7 DEF vars
<1> QED BY <1>1, <1>2, <1>3, <1>4, <1>5, <1>6, <1>7 DEF Next

\* However many scheduleRestart goroutines a crash leaves behind, the crash
\* path starts at most MaxRestarts processes (scheduleRestart).
THEOREM BudgetHolds == Spec => []BudgetBoundsRespawns
<1>1. Init => TypeInv /\ BudgetInv
  BY TypeInit, BoundsAssumption DEF Init, BudgetInv, SpawnDue, Charged, SchedSteps
<1>2. TypeInv /\ BudgetInv /\ [Next]_vars => (TypeInv /\ BudgetInv)'
  BY TypeNext, BudgetNext
<1>3. TypeInv /\ BudgetInv => BudgetBoundsRespawns
  BY BoundsAssumption DEF TypeInv, TypeOK, BudgetInv, BudgetBoundsRespawns,
     SpawnDue, Charged, SchedSteps
<1> QED BY <1>1, <1>2, <1>3, PTL DEF Spec

=============================================================================
