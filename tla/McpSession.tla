------------------------------ MODULE McpSession ------------------------------
(***************************************************************************)
(* One stdio server as the MCP handlers (pkg/mcp) and the health checker   *)
(* (pkg/pool/health.go) use it: an MCP session must be initialised once    *)
(* per process, before any tool call; requests revive a server that is     *)
(* down; the checker restarts one that no longer answers.                  *)
(*                                                                         *)
(* A restart is one step here (StdioServer has the details), and so is the *)
(* way of a request through the queue (StdioRequests).  A request gives    *)
(* its load back in the step that answers it.                              *)
(***************************************************************************)
EXTENDS Integers, FiniteSets

CONSTANTS
  Callers,      \* MCP requests, each handled by a goroutine
  Kinds,        \* the handlers they may run
  Checker,      \* the health checker, as a sender of requests
  MaxGen,       \* bound: process generations
  MaxFailures,  \* health_check_failures
  Served        \* bound: the errors that the best error rate here has room for

ASSUME SessionAssumption ==
  /\ Kinds \subseteq {"direct", "invoke", "refresh", "schema"}
  /\ Checker \notin Callers
  /\ MaxGen \in Nat \ {0} /\ MaxFailures \in Nat \ {0} /\ Served \in Nat

VARIABLES
  gen,          \* the current process generation
  state,        \* up (idle, running, busy), stopped, or error
  initialized,  \* mcpInitialized
  session,      \* what each process knows of its session
  wedged,       \* the process no longer answers
  failed,       \* failedSinceSpawn: LastErrorAt is after lastSpawnAt
  slack,        \* how many more errors until the error rate passes 10 percent
  flying,       \* requests a process has: <<sender, what, generation>>
  reply,        \* what processRequest gave to a sender that waits
  pc, kind,     \* where each caller is, and which handler it runs
  what,         \* which request it sends: initialize, or its own
  seen,         \* the generation it saw when it asked for a restart
  tries,        \* restart attempts of its handler
  outcome,      \* what the MCP client got
  cache,        \* the result cache, for the one tool and arguments used here
  probe,        \* where the health checker is
  failures,     \* consecutiveFailures
  restart,      \* the goroutine of triggerRestart
  slipped       \* history: a process went away between a sender's look and its step

serverVars == <<gen, state, initialized, session, wedged, slipped>>
statVars   == <<failed, slack>>
wireVars   == <<flying, reply>>
callVars   == <<pc, kind, what, seen, tries, outcome, cache>>
checkVars  == <<probe, failures, restart>>
vars       == <<serverVars, statVars, wireVars, callVars, checkVars>>

Gens     == 1 .. MaxGen
Senders  == Callers \cup {Checker}
Up       == state = "up"                 \* GetServer succeeds
Degraded == slack < 0                    \* an error rate of more than 10 %
Idle     == Up /\ \A m \in flying : m[3] # gen   \* isIdle

TypeOK ==
  /\ gen \in Gens /\ state \in {"up", "stopped", "error"}
  /\ initialized \in BOOLEAN /\ wedged \in BOOLEAN /\ failed \in BOOLEAN
  /\ session \in [Gens -> {"none", "fresh", "ready"}]
  /\ slack \in -1 .. Served /\ slipped \in BOOLEAN
  /\ flying \in SUBSET (Senders \X {"initialize", "request"} \X Gens)
  /\ reply \in [Senders -> {"none", "ok", "toolError", "failed"}]
  /\ pc \in [Callers -> {"new", "state", "restart", "check", "initCheck", "send",
                         "revive", "dispatch", "await", "mark",
                         "markAgain", "done"}]
  /\ kind \in [Callers -> {"direct", "invoke", "refresh", "schema"}]
  /\ what \in [Callers -> {"initialize", "request"}]
  /\ seen \in [Senders -> Gens] /\ tries \in [Callers -> 0 .. 2]
  /\ outcome \in [Callers -> {"none", "ok", "toolError", "error", "empty"}]
  /\ cache \in {"none", "ok", "toolError"}
  /\ probe \in {"idle", "ping", "await"}
  /\ failures \in 0 .. MaxFailures
  /\ restart \in {"none", "validate", "go"}

Init ==
  /\ gen = 1 /\ state = "up" /\ initialized = FALSE /\ wedged = FALSE
  /\ session = [g \in Gens |-> IF g = 1 THEN "fresh" ELSE "none"]
  /\ failed = FALSE /\ slack \in 0 .. Served /\ slipped = FALSE
  /\ flying = {} /\ reply = [s \in Senders |-> "none"]
  /\ pc = [c \in Callers |-> "new"] /\ kind = [c \in Callers |-> "direct"]
  /\ what = [c \in Callers |-> "initialize"]
  /\ seen = [s \in Senders |-> 1] /\ tries = [c \in Callers |-> 0]
  /\ outcome = [c \in Callers |-> "none"] /\ cache = "none"
  /\ probe = "idle" /\ failures = 0 /\ restart = "none"

-----------------------------------------------------------------------------
(* The process and its generations *)

ToolCall(c) == kind[c] \in {"direct", "invoke"}

\* Caller c has found the session initialised, or has its initialize answered,
\* and has not acted on it; or the checker is about to ping.
Gap(c) ==
  \/ pc[c] \in {"mark", "markAgain"}
  \/ pc[c] = "send" /\ what[c] = "request"
  \/ pc[c] = "await" /\ what[c] = "initialize" /\ reply[c] # "none"

ProcessGoes == slipped' = (slipped \/ probe = "ping" \/ \E c \in Callers : Gap(c))
ProcessStays == slipped' = slipped

Waiting(m) == IF m[1] = Checker THEN probe = "await"
                                ELSE pc[m[1]] = "await" /\ what[m[1]] = m[2]

\* The requests ms end, with result a for whoever still waits.
Answer(ms, a) ==
  /\ flying' = flying \ ms
  /\ reply' = [s \in Senders |-> IF \E m \in ms : m[1] = s /\ Waiting(m) THEN a
                                                                        ELSE reply[s]]

\* Statistics after n more requests and e more errors: nine requests make up
\* for an error, of which slack only shows the whole ones.
Count(n, e) ==
  \E earned \in 0 .. IF n = 0 THEN 0 ELSE IF slack = Served THEN e ELSE 1 :
    LET left == slack - e + earned
    IN slack' = IF left > Served THEN Served ELSE IF left < -1 THEN -1 ELSE left

Spawn ==
  /\ gen < MaxGen
  /\ gen' = gen + 1 /\ state' = "up" /\ initialized' = FALSE /\ wedged' = FALSE
  /\ session' = [session EXCEPT ![gen + 1] = "fresh"]
  /\ failed' = FALSE

\* stop ends every request that is under way.
StopForRestart ==
  /\ IF Up THEN ProcessGoes ELSE ProcessStays
  /\ Answer(flying, "failed")
  /\ Count(Cardinality(flying), Cardinality(flying))

\* RestartServer.  When another restart has come since s asked for one, and the
\* server is up, it is taken as one's own.
Restarts(s) ==
  \/ Up /\ gen # seen[s] /\ UNCHANGED <<serverVars, statVars, wireVars>>
  \/ StopForRestart /\ Spawn

RestartFails ==
  /\ StopForRestart
  /\ state' = "error"
  /\ UNCHANGED <<gen, initialized, session, wedged, failed>>

\* The process exits; waitForExit, and a reader that fails, count an error.
Crash ==
  /\ Up /\ ProcessGoes
  /\ state' = "error" /\ failed' = TRUE
  /\ \E e \in 0 .. 2 : Count(0, e)
  /\ UNCHANGED <<gen, initialized, session, wedged, wireVars, callVars, checkVars>>

Respawn ==
  /\ state = "error" /\ Spawn
  /\ UNCHANGED <<slack, slipped, wireVars, callVars, checkVars>>

IdleStop ==
  /\ Idle /\ ProcessGoes
  /\ state' = "stopped"
  /\ UNCHANGED <<gen, initialized, session, wedged, statVars, wireVars, callVars,
                 checkVars>>

Wedge ==
  /\ Up /\ ~ wedged /\ wedged' = TRUE
  /\ UNCHANGED <<gen, state, initialized, session, slipped, statVars, wireVars,
                 callVars, checkVars>>

-----------------------------------------------------------------------------
(* Requests that a process has (processRequest) *)

Alive(m) == Up /\ m[3] = gen /\ ~ wedged

\* A process accepts the first initialize of its session (or refuses it); a
\* second one it may refuse.  What it answers to other requests is its own
\* affair; a tool may also report an error within a result.
ChildSucceeds(m) ==
  /\ m \in flying /\ Alive(m)
  /\ IF m[2] = "initialize"
     THEN /\ session' = [session EXCEPT ![gen] = "ready"]
          /\ Answer({m}, "ok")
     ELSE /\ \E a \in {"ok", "toolError"} : Answer({m}, a)
          /\ UNCHANGED session
  /\ Count(1, 0)
  /\ UNCHANGED <<gen, state, initialized, wedged, slipped, failed, callVars, checkVars>>

ChildRefuses(m) ==
  /\ m \in flying /\ Alive(m)
  /\ Answer({m}, "failed")
  /\ Count(1, 1) /\ failed' = TRUE
  /\ UNCHANGED <<serverVars, callVars, checkVars>>

\* The request timer, or the stop channel of a process that is gone.  The
\* process may have accepted an initialize all the same.
NoAnswer(m) ==
  /\ m \in flying
  /\ Answer({m}, "failed")
  /\ Count(1, 1) /\ failed' = TRUE
  /\ \/ UNCHANGED session
     \/ m[2] = "initialize" /\ Alive(m) /\ session' = [session EXCEPT ![gen] = "ready"]
  /\ UNCHANGED <<gen, state, initialized, wedged, slipped, callVars, checkVars>>

-----------------------------------------------------------------------------
(* Callers: handleToolsCall (direct), handleInvokeTool (invoke), one server *)
(* of refreshToolCacheFromServers (refresh), handleGetToolSchema (schema)   *)

Goto(c, step)    == pc' = [pc EXCEPT ![c] = step]
SendNext(c, w)   == Goto(c, "send") /\ what' = [what EXCEPT ![c] = w]
Finish(c, o)     == /\ Goto(c, "done") /\ outcome' = [outcome EXCEPT ![c] = o]
                    /\ what' = [what EXCEPT ![c] = "initialize"]
Looks(s)         == seen' = [seen EXCEPT ![s] = gen]
Forgets(s)       == seen' = [seen EXCEPT ![s] = 1]
Takes(s)         == flying' = flying /\ reply' = [reply EXCEPT ![s] = "none"]
Session          == Up /\ initialized     \* IsServerMCPInitialized

\* A tool call looks into the result cache; invoke_tool and the refresh look at
\* the state of the server.
Begin(c) ==
  /\ pc[c] = "new"
  /\ \E k \in Kinds :
       /\ kind' = [kind EXCEPT ![c] = k]
       /\ IF k \in {"direct", "invoke"} /\ cache # "none"
          THEN Finish(c, cache)
          ELSE /\ Goto(c, CASE k = "direct" -> "check" [] k = "schema" -> "initCheck"
                            [] OTHER -> "state")
               /\ UNCHANGED <<what, outcome>>
  /\ UNCHANGED <<serverVars, statVars, wireVars, seen, tries, cache, checkVars>>

AfterState(c) == Goto(c, IF kind[c] = "invoke" THEN "check" ELSE "initCheck")

CheckState(c) ==
  /\ pc[c] = "state"
  /\ IF Up THEN AfterState(c) /\ UNCHANGED seen
           ELSE Goto(c, "restart") /\ Looks(c)
  /\ UNCHANGED <<serverVars, statVars, wireVars, kind, what, tries, outcome, cache,
                 checkVars>>

\* Mutant: a failed attempt is not counted.
RestartServerForever(c) ==
  /\ pc[c] = "restart"
  /\ \/ Restarts(c) /\ AfterState(c) /\ Forgets(c)
     \/ RestartFails /\ Looks(c) /\ UNCHANGED pc
  /\ UNCHANGED <<kind, what, tries, outcome, cache, checkVars>>

\* Up to three attempts.
RestartServer(c) ==
  /\ pc[c] = "restart"
  /\ \/ Restarts(c) /\ AfterState(c) /\ Forgets(c)
        /\ tries' = [tries EXCEPT ![c] = 0] /\ UNCHANGED <<what, outcome>>
     \/ RestartFails /\ tries[c] < 2 /\ Looks(c)
        /\ tries' = [tries EXCEPT ![c] = @ + 1] /\ UNCHANGED <<pc, what, outcome>>
     \/ RestartFails /\ tries[c] = 2 /\ Forgets(c)
        /\ tries' = [tries EXCEPT ![c] = 0] /\ Finish(c, "error")
  /\ UNCHANGED <<kind, cache, checkVars>>

\* The check of the tool call handlers ...
CheckSession(c) ==
  /\ pc[c] = "check"
  /\ IF Session THEN SendNext(c, "request") ELSE Goto(c, "initCheck") /\ UNCHANGED what
  /\ UNCHANGED <<serverVars, statVars, wireVars, kind, seen, tries, outcome, cache,
                 checkVars>>

\* ... and that of initializeServer.
InitializeServer(c) ==
  /\ pc[c] = "initCheck"
  /\ IF ~ Session THEN SendNext(c, "initialize")
     ELSE IF ToolCall(c) THEN Goto(c, "markAgain") /\ UNCHANGED what
     ELSE SendNext(c, "request")
  /\ UNCHANGED <<serverVars, statVars, wireVars, kind, seen, tries, outcome, cache,
                 checkVars>>

\* Mutant: a tool call goes on without its handshake, as tools/list does.
RequestFailsOn(c) ==
  IF what[c] = "request" THEN Finish(c, "error")
  ELSE SendNext(c, "request") /\ UNCHANGED outcome

\* A handshake that fails ends a tool call; tools/list is sent without it.
RequestFails(c) ==
  IF ToolCall(c) \/ what[c] = "request" THEN Finish(c, "error")
  ELSE SendNext(c, "request") /\ UNCHANGED outcome

\* PutRequest: a server that is down is restarted first; the rate limiter, the
\* load or a full queue may refuse the request.
Put(c) ==
  \/ /\ flying' = flying \cup {<<c, what[c], gen>>}
     /\ reply' = [reply EXCEPT ![c] = "none"]
     /\ Goto(c, "await")
     /\ UNCHANGED <<what, outcome>>
  \/ RequestFails(c) /\ UNCHANGED wireVars

Send(c) ==
  /\ pc[c] = "send"
  /\ IF Up THEN Put(c) /\ UNCHANGED seen
           ELSE /\ Goto(c, "revive") /\ Looks(c)
                /\ UNCHANGED <<wireVars, what, outcome>>
  /\ UNCHANGED <<serverVars, statVars, kind, tries, cache, checkVars>>

Revive(c) ==
  /\ pc[c] = "revive"
  /\ \/ Restarts(c) /\ Goto(c, "dispatch") /\ UNCHANGED <<what, outcome>>
     \/ RestartFails /\ RequestFails(c)
  /\ Forgets(c)
  /\ UNCHANGED <<kind, tries, cache, checkVars>>

Dispatch(c) ==
  /\ pc[c] = "dispatch"
  /\ IF Up THEN Put(c) ELSE RequestFails(c) /\ UNCHANGED wireVars
  /\ UNCHANGED <<serverVars, statVars, kind, seen, tries, cache, checkVars>>

\* The caller's timer, or its context.
GiveUp(c) ==
  /\ pc[c] = "await" /\ reply[c] = "none"
  /\ RequestFails(c)
  /\ UNCHANGED <<serverVars, statVars, wireVars, kind, seen, tries, cache, checkVars>>

\* Mutant: isError is not looked at.
ReceiveKeepsAll(c) ==
  /\ pc[c] = "await" /\ reply[c] # "none"
  /\ \/ /\ reply[c] # "failed" /\ what[c] = "initialize"
        /\ Goto(c, "mark") /\ UNCHANGED <<what, outcome, cache>>
     \/ /\ reply[c] # "failed" /\ what[c] = "request"
        /\ Finish(c, reply[c])
        /\ cache' = IF ToolCall(c) THEN reply[c] ELSE cache
     \/ reply[c] = "failed" /\ RequestFails(c) /\ UNCHANGED cache
     \/ /\ reply[c] = "failed" /\ what[c] = "request" /\ ToolCall(c)
        /\ Finish(c, "empty") /\ UNCHANGED cache
  /\ Takes(c)
  /\ UNCHANGED <<serverVars, statVars, kind, seen, tries, checkVars>>

\* An answer arrives on ResultCh; an error also on ErrorCh, and the select of
\* SendRequestToServerWithID takes either.  From ResultCh it comes as a response
\* with its Error set, which the tool call handlers do not look at.  A result is
\* cached unless it has isError.
Receive(c) ==
  /\ pc[c] = "await" /\ reply[c] # "none"
  /\ \/ /\ reply[c] # "failed" /\ what[c] = "initialize"
        /\ Goto(c, "mark") /\ UNCHANGED <<what, outcome, cache>>
     \/ /\ reply[c] # "failed" /\ what[c] = "request"
        /\ Finish(c, reply[c])
        /\ cache' = IF ToolCall(c) /\ reply[c] = "ok" THEN "ok" ELSE cache
     \/ reply[c] = "failed" /\ RequestFails(c) /\ UNCHANGED cache
     \/ /\ reply[c] = "failed" /\ what[c] = "request" /\ ToolCall(c)
        /\ Finish(c, "empty") /\ UNCHANGED cache
  /\ Takes(c)
  /\ UNCHANGED <<serverVars, statVars, kind, seen, tries, checkVars>>

\* MarkServerMCPInitialized, after the initialized notification.
Marked == initialized' = (initialized \/ Up)

Mark(c) ==
  /\ pc[c] = "mark" /\ Marked
  /\ IF ToolCall(c) THEN Goto(c, "markAgain") /\ UNCHANGED what
                    ELSE SendNext(c, "request")
  /\ UNCHANGED <<gen, state, session, wedged, slipped, statVars, wireVars, kind, seen, tries,
                 outcome, cache, checkVars>>

\* The tool call handlers mark the server too, whoever did the handshake.
MarkAgain(c) ==
  /\ pc[c] = "markAgain" /\ Marked
  /\ SendNext(c, "request")
  /\ UNCHANGED <<gen, state, session, wedged, slipped, statVars, wireVars, kind, seen, tries,
                 outcome, cache, checkVars>>

\* The TTL of the cached result ends.
Expire ==
  /\ cache # "none" /\ cache' = "none"
  /\ UNCHANGED <<serverVars, statVars, wireVars, pc, kind, what, seen, tries, outcome,
                 checkVars>>

-----------------------------------------------------------------------------
(* The health checker *)

Healthy   == failures' = 0 /\ UNCHANGED restart
Unhealthy ==
  IF failures + 1 < MaxFailures
  THEN failures' = failures + 1 /\ UNCHANGED restart
  ELSE failures' = 0 /\ restart' = IF restart = "none" THEN "validate" ELSE restart

\* Mutant: a session that was never initialised is taken as healthy.
ProbeTrustsFresh ==
  /\ probe = "idle" /\ restart # "validate"
  /\ \/ (Session => Degraded \/ ~ Idle) /\ Healthy /\ UNCHANGED probe
     \/ Session /\ ~ Degraded /\ probe' = "ping" /\ UNCHANGED <<failures, restart>>
  /\ UNCHANGED <<serverVars, statVars, wireVars, callVars>>

\* Mutant: the count starts anew with each ping.
ProbeResets ==
  /\ probe = "idle" /\ restart # "validate"
  /\ \/ (Up => ~ initialized /\ ~ failed) /\ Healthy /\ UNCHANGED probe
     \/ Up /\ ~ initialized /\ failed /\ Unhealthy /\ UNCHANGED probe
     \/ Session /\ (Degraded \/ ~ Idle) /\ Healthy /\ UNCHANGED probe
     \/ Session /\ ~ Degraded /\ probe' = "ping" /\ Healthy
  /\ UNCHANGED <<serverVars, statVars, wireVars, callVars>>

\* CheckServer up to the ping.  A server that is down, degraded or busy is none
\* of the checker's business (of several requests the first to end takes the
\* busy state with it); before the handshake failing requests count.  The
\* goroutine of triggerRestart has taken its look long before the next tick.
Probe ==
  /\ probe = "idle" /\ restart # "validate"
  /\ \/ (Up => ~ initialized /\ ~ failed) /\ Healthy /\ UNCHANGED probe
     \/ Up /\ ~ initialized /\ failed /\ Unhealthy /\ UNCHANGED probe
     \/ Session /\ (Degraded \/ ~ Idle) /\ Healthy /\ UNCHANGED probe
     \/ Session /\ ~ Degraded /\ probe' = "ping" /\ UNCHANGED <<failures, restart>>
  /\ UNCHANGED <<serverVars, statVars, wireVars, callVars>>

\* A failed ping counts unless the server has become busy.
PingFails == (IF Idle THEN Unhealthy ELSE Healthy) /\ probe' = "idle"

\* The ping goes through PutRequest, which may restart or refuse.
Ping ==
  /\ probe = "ping"
  /\ \/ /\ Up
        /\ flying' = flying \cup {<<Checker, "request", gen>>}
        /\ reply' = [reply EXCEPT ![Checker] = "none"]
        /\ probe' = "await"
        /\ UNCHANGED <<serverVars, statVars, failures, restart>>
     \/ Up /\ PingFails /\ UNCHANGED <<serverVars, statVars, wireVars>>
     \/ ~ Up /\ StopForRestart /\ Spawn /\ UNCHANGED checkVars
     \/ ~ Up /\ RestartFails /\ Healthy /\ probe' = "idle"
  /\ UNCHANGED callVars

Pinged ==
  /\ probe = "await"
  /\ \/ reply[Checker] \in {"ok", "toolError"} /\ Healthy /\ probe' = "idle"
     \/ reply[Checker] = "failed" /\ PingFails
  /\ Takes(Checker)
  /\ UNCHANGED <<serverVars, statVars, callVars>>

\* triggerRestart looks again, at a healthy and idle server only ...
Validate ==
  /\ restart = "validate"
  /\ restart' = IF Idle THEN "go" ELSE "none"
  /\ IF Idle THEN Looks(Checker) ELSE Forgets(Checker)
  /\ UNCHANGED <<serverVars, statVars, wireVars, pc, kind, what, tries, outcome, cache,
                 probe, failures>>

\* ... and restarts what it finds then.
HealthRestart ==
  /\ restart = "go"
  /\ Restarts(Checker) \/ RestartFails
  /\ restart' = "none" /\ Forgets(Checker)
  /\ UNCHANGED <<pc, kind, what, tries, outcome, cache, probe, failures>>

-----------------------------------------------------------------------------
Calls(c) ==
  \/ Begin(c) \/ CheckState(c) \/ RestartServer(c) \/ CheckSession(c)
  \/ InitializeServer(c) \/ Send(c) \/ Revive(c) \/ Dispatch(c) \/ GiveUp(c)
  \/ Receive(c) \/ Mark(c) \/ MarkAgain(c)

Ends(m) == ChildSucceeds(m) \/ ChildRefuses(m) \/ NoAnswer(m)

Checks   == Probe \/ Ping \/ Pinged
Restores == Validate \/ HealthRestart

Next ==
  \/ \E c \in Callers : Calls(c)
  \/ \E m \in flying : Ends(m)
  \/ Checks \/ Restores
  \/ Crash \/ Respawn \/ IdleStop \/ Wedge \/ Expire

Spec == Init /\ [][Next]_vars

(***************************************************************************)
(* Goroutines that can run do, and a request whose process does not answer *)
(* ends by its timer.  Nothing is assumed of the child or of the caller's  *)
(* own timers; callers need not begin.                                     *)
(***************************************************************************)
Fairness ==
  /\ \A c \in Callers : WF_vars(Calls(c) /\ ~ Begin(c))
  /\ \A s \in Senders : WF_vars(\E m \in flying : m[1] = s /\ NoAnswer(m))
  /\ WF_vars(Checks) /\ WF_vars(Restores)

FairSpec == Spec /\ Fairness

-----------------------------------------------------------------------------
(* Safety *)

(***************************************************************************)
(* A server that is marked has a session: its current process has accepted *)
(* an initialize (the comment on initializeServer: a server that restarts  *)
(* is re-initialised "rather than silently left unhandshaken").  Unless a  *)
(* process went away between an answer to initialize and the mark, which   *)
(* the code leaves open.                                                   *)
(***************************************************************************)
MarkMeansHandshake == Session /\ ~ slipped => session[gen] = "ready"

(***************************************************************************)
(* No process is asked to run a tool, or pinged, before its handshake ("the *)
(* MCP protocol requires initialize + notifications/initialized before any *)
(* tool call", handleInvokeTool; "pings are only valid on an initialized   *)
(* session", CheckServer), with the same exception.                        *)
(***************************************************************************)
CallsFollowHandshake ==
  ~ slipped =>
  \A m \in flying :
    m[2] = "request" /\ (m[1] = Checker \/ ToolCall(m[1])) => session[m[3]] = "ready"

(***************************************************************************)
(* A transient failure is never replayed from the result cache, whoever    *)
(* stored it (the comment on storeToolResult).                             *)
(***************************************************************************)
FailuresAreNotReplayed ==
  [][\A c \in Callers : pc[c] = "new" /\ pc'[c] = "done" => outcome'[c] = "ok"]_vars

(***************************************************************************)
(* A process gets one initialize: "MCP allows exactly one initialize per   *)
(* session, and a spec-compliant server rejects the second" (the comment   *)
(* on initializeServer and its test).                                      *)
(***************************************************************************)
InitializeOnce ==
  \A m, n \in flying : m[2] = "initialize" =>
    /\ session[m[3]] # "ready"
    /\ n[2] = "initialize" /\ n[3] = m[3] => n = m

(***************************************************************************)
(* A tool call that failed is answered with an error (docs/architecture.md, *)
(* JSON-RPC Errors).                                                       *)
(***************************************************************************)
ErrorsAreReported == \A c \in Callers : outcome[c] # "empty"

-----------------------------------------------------------------------------
(* Liveness *)

\* The server is down, or has another process, than generation g.
Replaced(g) == ~ Up \/ gen # g

(***************************************************************************)
(* A server that fails requests before its handshake does not stay so: it  *)
(* is initialised after all or restarted (the comment in CheckServer).     *)
(***************************************************************************)
StuckSessionEnds ==
  \A g \in Gens :
    Up /\ gen = g /\ ~ initialized /\ failed ~> Replaced(g) \/ initialized

(***************************************************************************)
(* A process that no longer answers is restarted, unless the error rate of *)
(* its server has come to more than ten percent.                           *)
(***************************************************************************)
WedgedIsRestarted ==
  \A g \in Gens : Session /\ gen = g /\ wedged ~> Replaced(g) \/ Degraded

(***************************************************************************)
(* The same as documented, without the exception (docs/configuration.md,   *)
(* Liveness probe).                                                        *)
(***************************************************************************)
LivenessProbe ==
  \A g \in Gens : Session /\ gen = g /\ wedged ~> Replaced(g)

(***************************************************************************)
(* Every MCP request is answered, whatever becomes of the server.          *)
(***************************************************************************)
CallsReturn == \A c \in Callers : pc[c] # "new" ~> pc[c] = "done"
=============================================================================
