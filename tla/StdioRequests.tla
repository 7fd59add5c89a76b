---------------------------- MODULE StdioRequests ----------------------------
(***************************************************************************)
(* The request path of one stdio server (pkg/pool/server.go, pool.go): a   *)
(* caller puts its request into requestCh, the runRequestLoop goroutine of *)
(* a generation takes it out and starts processRequest, which registers a  *)
(* wire ID, writes a frame to the child and waits for the response that    *)
(* the readResponses goroutine routes back by wire ID.                     *)
(*                                                                         *)
(* The life cycle is reduced to what this path sees of it: a generation    *)
(* dies or is stopped, its stop channel closes, and a later one is spawned *)
(* (StdioServer has the details).  requestCh, the pending table, the load  *)
(* counter and the dispatch slots outlive generations.                     *)
(***************************************************************************)
EXTENDS Naturals, Integers, Sequences, SequencesExt, FiniteSets, TLC

CONSTANTS
  Requests,       \* requests, one per caller
  MaxConcurrent,  \* capacity of requestCh and number of dispatch slots
  MaxGen,         \* bound: process generations explored
  None            \* no request

ASSUME RequestsAssumption ==
  /\ MaxConcurrent \in Nat \ {0} /\ MaxGen \in Nat \ {0}
  /\ None \notin Requests /\ IsFiniteSet(Requests)

VARIABLES
  gen,        \* the current generation
  state,      \* healthy ("up"), after a crash ("error") or a stop ("stopped")
  alive,      \* generations whose process runs
  stopCh,     \* generations whose stop channel is closed
  stopping,   \* a stop waits for the goroutines
  idleStop,   \* the idle check has started a stop that has not begun
  loop,       \* the runRequestLoop of each generation
  reader,     \* the readResponses of each generation
  held,       \* the request each loop has taken out but not dispatched
  queue,      \* requestCh
  load,       \* currentLoad
  slots,      \* dispatchSem
  caller,     \* where each caller is
  answer,     \* what was put into each request's ResultCh
  work,       \* the processRequest goroutine of each request
  via,        \* the generation whose stop channel it watches
  stdin,      \* the generation whose stdin it writes to
  wire,       \* its wire ID
  nextID,     \* nextRequestID
  pending,    \* the table of waiters: <<wire ID, request>>
  sent,       \* frames the children have read: <<generation, wire ID, request>>
  out,        \* responses not yet read: <<generation, wire ID, request>>
  delivering, \* <<waiter, response>> a reader has matched, or <<>>
  respCh      \* the response buffered for each request

lifeVars == <<gen, state, alive, stopCh, stopping, idleStop>>
loopVars == <<loop, held, queue, load, slots>>
callVars == <<caller, answer>>
workVars == <<work, via, stdin, wire, nextID, pending>>
wireVars == <<reader, sent, out, delivering, respCh>>
vars     == <<lifeVars, loopVars, callVars, workVars, wireVars>>

Gens    == 1 .. MaxGen
Up      == state = "up"    \* isHealthy

TypeOK ==
  /\ gen \in Gens /\ state \in {"up", "error", "stopped"}
  /\ stopping \in BOOLEAN /\ idleStop \in BOOLEAN
  /\ alive \in SUBSET Gens /\ stopCh \in SUBSET Gens
  /\ loop \in [Gens -> {"none", "select", "held", "done"}]
  /\ reader \in [Gens -> {"none", "scan", "done"}]
  /\ held \in [Gens -> Requests \cup {None}]
  /\ queue \in Seq(Requests) /\ Len(queue) <= MaxConcurrent
  /\ load \in Int /\ slots \in Int /\ slots <= MaxConcurrent
  /\ caller \in [Requests -> {"new", "admitted", "waiting", "rejected", "gone"}]
  /\ answer \in [Requests -> {<<>>} \cup ({"result"} \X Requests)
                              \cup {<<"stopping">>, <<"error">>}]
  /\ work \in [Requests -> {"none", "dispatched", "registered", "written",
                            "returning"}]
  /\ via \in [Requests -> 0 .. MaxGen] /\ stdin \in [Requests -> 0 .. MaxGen]
  /\ wire \in [Requests -> Nat] /\ nextID \in Nat
  /\ pending \in SUBSET (Nat \X Requests)
  /\ sent \in SUBSET (Gens \X Nat \X Requests)
  /\ out \in SUBSET sent
  /\ delivering \in [Gens -> {<<>>} \cup (Requests \X Requests)]
  /\ respCh \in [Requests -> Requests \cup {None}]

Init ==
  /\ gen = 1 /\ state = "up" /\ alive = {1} /\ stopCh = {}
  /\ stopping = FALSE /\ idleStop = FALSE
  /\ loop = [g \in Gens |-> IF g = 1 THEN "select" ELSE "none"]
  /\ held = [g \in Gens |-> None] /\ queue = <<>> /\ load = 0 /\ slots = 0
  /\ caller = [r \in Requests |-> "new"] /\ answer = [r \in Requests |-> <<>>]
  /\ work = [r \in Requests |-> "none"]
  /\ via = [r \in Requests |-> 0] /\ stdin = [r \in Requests |-> 0]
  /\ wire = [r \in Requests |-> 0] /\ nextID = 0
  /\ pending = {}
  /\ reader = [g \in Gens |-> IF g = 1 THEN "scan" ELSE "none"]
  /\ sent = {} /\ out = {} /\ delivering = [g \in Gens |-> <<>>]
  /\ respCh = [r \in Requests |-> None]

-----------------------------------------------------------------------------
(* Callers: SendRequestToServerWithID and PutRequest *)

\* PutRequest finds a healthy server and asks canAcceptRequest ...
Admit(r) ==
  /\ caller[r] = "new" /\ Up
  /\ caller' = [caller EXCEPT ![r] = IF load < MaxConcurrent THEN "admitted"
                                                             ELSE "rejected"]
  /\ UNCHANGED <<lifeVars, loopVars, answer, workVars, wireVars>>

\* ... and sends on requestCh, blocking while it is full.
Enqueue(r) ==
  /\ caller[r] = "admitted" /\ Len(queue) < MaxConcurrent
  /\ queue' = Append(queue, r)
  /\ caller' = [caller EXCEPT ![r] = "waiting"]
  /\ UNCHANGED <<lifeVars, loop, held, load, slots, answer, workVars, wireVars>>

\* The caller's own timer, or its context, ends the wait.
GiveUp(r) ==
  /\ caller[r] \in {"admitted", "waiting"} /\ answer[r] = <<>>
  /\ caller' = [caller EXCEPT ![r] = "gone"]
  /\ UNCHANGED <<lifeVars, loopVars, answer, workVars, wireVars>>

-----------------------------------------------------------------------------
(* runRequestLoop *)

\* ResultCh has room for one answer; a second one is discarded.
Answered(rs, a) ==
  [r \in Requests |-> IF r \in rs /\ answer[r] = <<>> THEN a ELSE answer[r]]

\* With the stop channel closed its select may still pick a request.
Dequeue(g) ==
  /\ loop[g] = "select" /\ queue # <<>>
  /\ held' = [held EXCEPT ![g] = Head(queue)]
  /\ queue' = Tail(queue)
  /\ load' = load + 1
  /\ loop' = [loop EXCEPT ![g] = "held"]
  /\ UNCHANGED <<lifeVars, slots, callVars, workVars, wireVars>>

Dispatch(g) ==
  /\ loop[g] = "held" /\ slots < MaxConcurrent
  /\ slots' = slots + 1
  /\ work' = [work EXCEPT ![held[g]] = "dispatched"]
  /\ via' = [via EXCEPT ![held[g]] = g]
  /\ held' = [held EXCEPT ![g] = None]
  /\ loop' = [loop EXCEPT ![g] = "select"]
  /\ UNCHANGED <<lifeVars, queue, load, callVars, stdin, wire, nextID, pending,
                 wireVars>>

\* Mutant: the load claim of an abandoned request is kept.
AbandonKeepsLoad(g) ==
  /\ loop[g] = "held" /\ g \in stopCh
  /\ answer' = Answered({held[g]} \cup ToSet(queue), <<"stopping">>)
  /\ queue' = <<>>
  /\ held' = [held EXCEPT ![g] = None]
  /\ loop' = [loop EXCEPT ![g] = "done"]
  /\ UNCHANGED <<lifeVars, load, slots, caller, workVars, wireVars>>

\* releaseAndFail: shutdown comes before a slot; the rest of the queue is
\* answered too.
Abandon(g) ==
  /\ loop[g] = "held" /\ g \in stopCh
  /\ load' = load - 1
  /\ answer' = Answered({held[g]} \cup ToSet(queue), <<"stopping">>)
  /\ queue' = <<>>
  /\ held' = [held EXCEPT ![g] = None]
  /\ loop' = [loop EXCEPT ![g] = "done"]
  /\ UNCHANGED <<lifeVars, slots, caller, workVars, wireVars>>

\* drainRequests, and the loop returns.
Drain(g) ==
  /\ loop[g] = "select" /\ g \in stopCh
  /\ answer' = Answered(ToSet(queue), <<"stopping">>)
  /\ queue' = <<>>
  /\ loop' = [loop EXCEPT ![g] = "done"]
  /\ UNCHANGED <<lifeVars, held, load, slots, caller, workVars, wireVars>>

\* checkIdleTimeout: stop() runs in a goroutine of its own.
IdleCheck(g) ==
  /\ loop[g] = "select" /\ Up /\ load = 0 /\ ~ idleStop
  /\ idleStop' = TRUE
  /\ UNCHANGED <<gen, state, alive, stopCh, stopping, loopVars, callVars, workVars,
                 wireVars>>

-----------------------------------------------------------------------------
(* processRequest and sendRequest *)

\* A fresh wire ID; the current stdin; the waiter is in the table before the
\* frame is written.
Register(r) ==
  /\ work[r] = "dispatched"
  /\ nextID' = nextID + 1
  /\ wire' = [wire EXCEPT ![r] = nextID + 1]
  /\ pending' = pending \cup {<<nextID + 1, r>>}
  /\ stdin' = [stdin EXCEPT ![r] = gen]
  /\ work' = [work EXCEPT ![r] = "registered"]
  /\ UNCHANGED <<lifeVars, loopVars, callVars, via, wireVars>>

\* The child reads the frame.  It may also not read, and the write blocks.
Write(r) ==
  /\ work[r] = "registered" /\ stdin[r] \in alive
  /\ sent' = sent \cup {<<stdin[r], wire[r], r>>}
  /\ work' = [work EXCEPT ![r] = "written"]
  /\ UNCHANGED <<lifeVars, loopVars, callVars, via, stdin, wire, nextID, pending,
                 reader, out, delivering, respCh>>

\* sendRequest returns: its table entry goes, the result goes to the caller.
Return(r, a) ==
  /\ pending' = {e \in pending : e[1] # wire[r]}
  /\ answer' = Answered({r}, a)
  /\ work' = [work EXCEPT ![r] = "returning"]
  /\ UNCHANGED <<lifeVars, loopVars, caller, via, stdin, wire, nextID, wireVars>>

WriteFails(r) ==
  /\ work[r] = "registered" /\ stdin[r] \notin alive
  /\ Return(r, <<"error">>)

Receive(r) ==
  /\ work[r] = "written" /\ respCh[r] # None
  /\ Return(r, <<"result", respCh[r]>>)

\* Mutant: a request that was not answered in time is sent again.
TimeOutRetries(r) ==
  /\ work[r] = "written"
  /\ work' = [work EXCEPT ![r] = "dispatched"]
  /\ pending' = {e \in pending : e[1] # wire[r]}
  /\ UNCHANGED <<lifeVars, loopVars, callVars, via, stdin, wire, nextID, wireVars>>

TimeOut(r) ==
  /\ work[r] = "written"
  /\ Return(r, <<"error">>)

\* Mutant: the stop channel of the current generation is watched.
SeeStopOfCurrent(r) ==
  /\ work[r] = "written" /\ gen \in stopCh
  /\ Return(r, <<"stopping">>)

SeeStop(r) ==
  /\ work[r] = "written" /\ via[r] \in stopCh
  /\ Return(r, <<"stopping">>)

\* The deferred calls of the goroutine: load, slot, wait group.
Finish(r) ==
  /\ work[r] = "returning"
  /\ work' = [work EXCEPT ![r] = "none"]
  /\ load' = load - 1 /\ slots' = slots - 1
  /\ UNCHANGED <<lifeVars, loop, held, queue, callVars, via, stdin, wire, nextID,
                 pending, wireVars>>

-----------------------------------------------------------------------------
(* The child, and readResponses *)

\* A child may answer late, out of order, and more than once.
ChildAnswers(m) ==
  /\ m \in sent \ out /\ m[1] \in alive
  /\ out' = out \cup {m}
  /\ UNCHANGED <<lifeVars, loopVars, callVars, workVars, reader, sent, delivering,
                 respCh>>

\* The stop channel is looked at between lines: a reader that waits in Scan when
\* it closes still handles the next line.
NextLine(g) == [reader EXCEPT ![g] = IF g \in stopCh THEN "done" ELSE "scan"]

\* Mutant: the entry stays in the table until the waiter returns.
MatchKeepsEntry(m) ==
  LET g == m[1]
  IN /\ m \in out /\ reader[g] = "scan" /\ delivering[g] = <<>>
     /\ out' = out \ {m}
     /\ \/ /\ \A e \in pending : e[1] # m[2]
           /\ reader' = NextLine(g)
           /\ UNCHANGED delivering
        \/ \E e \in pending :
             /\ e[1] = m[2]
             /\ delivering' = [delivering EXCEPT ![g] = <<e[2], m[3]>>]
             /\ UNCHANGED reader
     /\ UNCHANGED <<lifeVars, loopVars, callVars, workVars, sent, respCh>>

\* deliverResponse looks the wire ID up, drops the line when nobody waits, and
\* otherwise removes the entry ...
Match(m) ==
  LET g == m[1]
  IN /\ m \in out /\ reader[g] = "scan" /\ delivering[g] = <<>>
     /\ out' = out \ {m}
     /\ \/ /\ \A e \in pending : e[1] # m[2]
           /\ reader' = NextLine(g)
           /\ UNCHANGED <<pending, delivering>>
        \/ \E e \in pending :
             /\ e[1] = m[2]
             /\ pending' = pending \ {e}
             /\ delivering' = [delivering EXCEPT ![g] = <<e[2], m[3]>>]
             /\ UNCHANGED reader
     /\ UNCHANGED <<lifeVars, loopVars, callVars, work, via, stdin, wire, nextID,
                    sent, respCh>>

\* ... and sends on the waiter's channel, which has room for one response.
Deliver(g) ==
  /\ delivering[g] # <<>> /\ respCh[delivering[g][1]] = None
  /\ respCh' = [respCh EXCEPT ![delivering[g][1]] = delivering[g][2]]
  /\ delivering' = [delivering EXCEPT ![g] = <<>>]
  /\ reader' = NextLine(g)
  /\ UNCHANGED <<lifeVars, loopVars, callVars, workVars, sent, out>>

\* Wait closes the pipe of a dead process; lines it still holds are lost.
ReaderEnds(g) ==
  /\ reader[g] = "scan" /\ delivering[g] = <<>> /\ g \notin alive
  /\ reader' = [reader EXCEPT ![g] = "done"]
  /\ UNCHANGED <<lifeVars, loopVars, callVars, workVars, sent, out, delivering,
                 respCh>>

-----------------------------------------------------------------------------
(* Generations *)

\* The process exits; what it had written is still in the pipe.
Exits(g) ==
  /\ g \in alive
  /\ alive' = alive \ {g}
  /\ UNCHANGED <<gen, state, stopCh, stopping, idleStop, loopVars, callVars, workVars,
                 wireVars>>

\* waitForExit: the stop channel is closed and a crash leaves the error state.
NoticeExit(g) ==
  /\ g \in 1 .. gen /\ g \notin alive \cup stopCh
  /\ stopCh' = stopCh \cup {g}
  /\ state' = IF state = "up" THEN "error" ELSE state
  /\ UNCHANGED <<gen, alive, stopping, idleStop, loopVars, callVars, workVars,
                 wireVars>>

\* stopLocked does nothing to a server that is stopped; a running child gets
\* SIGTERM and later SIGKILL.
StopLocked ==
  /\ state # "stopped"
  /\ state' = "stopped" /\ stopping' = TRUE /\ stopCh' = stopCh \cup {gen}

Stop ==
  /\ ~ stopping /\ StopLocked
  /\ UNCHANGED <<gen, alive, idleStop, loopVars, callVars, workVars, wireVars>>

IdleStops ==
  /\ idleStop /\ ~ stopping
  /\ idleStop' = FALSE
  /\ \/ StopLocked
     \/ state = "stopped" /\ UNCHANGED <<state, stopping, stopCh>>
  /\ UNCHANGED <<gen, alive, loopVars, callVars, workVars, wireVars>>

Stopped ==
  /\ stopping /\ alive = {}
  /\ \A g \in 1 .. gen : loop[g] = "done" /\ reader[g] = "done"
  /\ \A r \in Requests : work[r] = "none"
  /\ stopping' = FALSE
  /\ UNCHANGED <<gen, state, alive, stopCh, idleStop, loopVars, callVars, workVars,
                 wireVars>>

\* Mutant: wire IDs start again with every generation.
RespawnReusesIDs ==
  /\ ~ Up /\ ~ stopping /\ gen < MaxGen /\ gen \in stopCh \ alive
  /\ gen' = gen + 1 /\ state' = "up" /\ nextID' = 0
  /\ alive' = alive \cup {gen + 1}
  /\ loop' = [loop EXCEPT ![gen + 1] = "select"]
  /\ reader' = [reader EXCEPT ![gen + 1] = "scan"]
  /\ UNCHANGED <<stopCh, stopping, idleStop, held, queue, load, slots, callVars,
                 work, via, stdin, wire, pending, sent, out, delivering, respCh>>

\* A crash respawn does not wait for the goroutines of the crashed generation.
Respawn ==
  /\ ~ Up /\ ~ stopping /\ gen < MaxGen /\ gen \in stopCh \ alive
  /\ gen' = gen + 1 /\ state' = "up"
  /\ alive' = alive \cup {gen + 1}
  /\ loop' = [loop EXCEPT ![gen + 1] = "select"]
  /\ reader' = [reader EXCEPT ![gen + 1] = "scan"]
  /\ UNCHANGED <<stopCh, stopping, idleStop, held, queue, load, slots, callVars,
                 workVars, sent, out, delivering, respCh>>

-----------------------------------------------------------------------------
Calls(r) == Admit(r) \/ Enqueue(r) \/ GiveUp(r)

Works(r) == \/ Register(r) \/ Write(r) \/ WriteFails(r) \/ Receive(r)
            \/ TimeOut(r) \/ SeeStop(r) \/ Finish(r)

Loops(g) == Dequeue(g) \/ Dispatch(g) \/ Abandon(g) \/ Drain(g) \/ IdleCheck(g)

Reads(g) == \/ \E m \in sent : m[1] = g /\ (ChildAnswers(m) \/ Match(m))
            \/ Deliver(g) \/ ReaderEnds(g)

Lives(g) == Exits(g) \/ NoticeExit(g)

Next ==
  \/ \E r \in Requests : Calls(r) \/ Works(r)
  \/ \E g \in Gens : Loops(g) \/ Reads(g) \/ Lives(g)
  \/ Stop \/ IdleStops \/ Stopped \/ Respawn

Spec == Init /\ [][Next]_vars

(***************************************************************************)
(* Goroutines that can run do, and a child whose generation is being torn  *)
(* down dies (it is dead already, or gets SIGKILL after the grace period). *)
(* A live child reads its stdin; it need not answer, and no timer need     *)
(* fire.                                                                   *)
(***************************************************************************)
Fairness ==
  /\ \A r \in Requests : WF_vars(Register(r) \/ Write(r) \/ WriteFails(r)
                                         \/ SeeStop(r) \/ Finish(r))
  /\ \A g \in Gens :
       /\ WF_vars(Dispatch(g) \/ Abandon(g) \/ Drain(g))
       /\ WF_vars(g \in stopCh /\ Exits(g)) /\ WF_vars(NoticeExit(g))
       /\ WF_vars(Deliver(g))

FairSpec == Spec /\ Fairness

-----------------------------------------------------------------------------
(* Safety *)

(***************************************************************************)
(* A response reaches only the request it answers, although responses come *)
(* late, twice, out of order or from an earlier generation (the comments   *)
(* on pending and sendRequest).                                            *)
(***************************************************************************)
NoCrossDelivery ==
  \A r \in Requests : answer[r] # <<>> /\ answer[r][1] = "result" => answer[r][2] = r

(***************************************************************************)
(* The table of waiters holds exactly waits in progress: an entry whose    *)
(* request has returned would never be removed (sendRequest's defer).      *)
(***************************************************************************)
PendingAreWaiting ==
  \A e \in pending :
    wire[e[2]] = e[1] /\ work[e[2]] \in {"registered", "written"}

(***************************************************************************)
(* A reader never blocks on the channel of a waiter, which would stop all  *)
(* responses of the server (the comment in deliverResponse).               *)
(***************************************************************************)
DeliverNeverBlocks ==
  \A g \in Gens : delivering[g] # <<>> => respCh[delivering[g][1]] = None

(***************************************************************************)
(* currentLoad counts the requests that are out of the queue and not       *)
(* finished, and the dispatch slots those being processed: a leak of one   *)
(* would wedge the idle reaper or the dispatch (the comment in             *)
(* enqueueRequest), a surplus stop a busy server.                          *)
(***************************************************************************)
LoadIsExact ==
  /\ load = Cardinality({g \in Gens : held[g] # None})
             + Cardinality({r \in Requests : work[r] # "none"})
  /\ slots = Cardinality({r \in Requests : work[r] # "none"})

-----------------------------------------------------------------------------
(* What callers see of all this: refinement of RpcCalls *)

Told(r) == CASE caller[r] = "new" -> <<"new">>
             [] caller[r] = "rejected" -> <<"refused">>
             [] caller[r] = "gone" -> <<"left">>
             [] caller[r] \in {"admitted", "waiting"} ->
                  IF answer[r] = <<>> THEN <<"open">> ELSE answer[r]

Outcome == [r \in Requests |-> Told(r)]

Executions == [r \in Requests |-> Cardinality({m \in sent : m[3] = r})]

Promise == INSTANCE RpcCalls WITH outcome <- Outcome, executions <- Executions

(***************************************************************************)
(* Whatever dies, stops, respawns or comes late, a request is executed at  *)
(* most once, and its caller is told one outcome, of its own request.      *)
(***************************************************************************)
KeepsPromise == Promise!Spec

-----------------------------------------------------------------------------
(* Liveness *)

\* Out of the queue when its generation is torn down.
Caught(r) ==
  \/ \E g \in stopCh : held[g] = r
  \/ work[r] \in {"dispatched", "registered", "written"} /\ via[r] \in stopCh

(***************************************************************************)
(* A request in flight when its generation is torn down is answered        *)
(* without waiting for a timeout (docs/configuration.md, Stop-then-restart; *)
(* the comment on failRequest).                                            *)
(***************************************************************************)
FailsFast == \A r \in Requests : Caught(r) ~> answer[r] # <<>>

\* The requests are alike, for TLC.
Symmetry == Permutations(Requests)
=============================================================================
