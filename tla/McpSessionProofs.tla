--------------------------- MODULE McpSessionProofs ---------------------------
(***************************************************************************)
(* The handshake of McpSession and what its result cache answers, for any  *)
(* number of callers and processes.                                        *)
(***************************************************************************)
EXTENDS McpSession, TLAPS

-----------------------------------------------------------------------------
(* The inductive invariant *)

Ready == Up /\ session[gen] = "ready"

\* The types that the handshake depends on.
ShapeOK ==
  /\ gen \in Gens
  /\ session \in [Gens -> {"none", "fresh", "ready"}]
  /\ flying \subseteq Senders \X {"initialize", "request"} \X Gens
  /\ pc \in [Callers -> {"new", "state", "restart", "check", "initCheck", "send",
                         "revive", "dispatch", "await", "mark",
                         "markAgain", "done"}]
  /\ kind \in [Callers -> {"direct", "invoke", "refresh", "schema"}]
  /\ what \in [Callers -> {"initialize", "request"}]
  /\ reply \in [Senders -> {"none", "ok", "toolError", "failed"}]

\* Requests belong to processes that were started and to callers that began.
FlightsOK == \A m \in flying : m[3] <= gen /\ (m[1] \in Callers => pc[m[1]] # "new")

\* Who is about to rely on the session relies on a process that has one.
ActsOn(c) ==
  \/ pc[c] \in {"mark", "markAgain"}
  \/ pc[c] = "send" /\ what[c] = "request" /\ ToolCall(c)
  \/ pc[c] = "await" /\ what[c] = "initialize" /\ reply[c] \notin {"none", "failed"}
ActsOK == \A c \in Callers : ActsOn(c) => slipped \/ Ready
PingOK == probe = "ping" => slipped \/ Ready

\* A tool call that has to revive its server has lost it in a gap.
LostOK ==
  \A c \in Callers :
    pc[c] \in {"revive", "dispatch"} /\ what[c] = "request" /\ ToolCall(c) => slipped

HandshakeInv ==
  /\ MarkMeansHandshake /\ CallsFollowHandshake
  /\ FlightsOK /\ ActsOK /\ PingOK /\ LostOK

-----------------------------------------------------------------------------
(* What a restart may do *)

RestartKeeps ==
  /\ gen' \in Gens /\ gen' >= gen
  /\ session' \in [Gens -> {"none", "fresh", "ready"}]
  /\ \A g \in Gens : g <= gen => session'[g] = session[g]
  /\ flying' \subseteq flying
  /\ reply' \in [Senders -> {"none", "ok", "toolError", "failed"}]
  /\ \A s \in Senders : reply'[s] \in {reply[s], "failed"}
  /\ slipped => slipped'
  /\ Session' => Session /\ gen' = gen
  /\ Ready /\ (probe = "ping" \/ \E c \in Callers : Gap(c)) => slipped' \/ Ready'

LEMMA RestartEffect ==
  ASSUME ShapeOK, NEW s \in Senders, Restarts(s) \/ RestartFails
  PROVE  RestartKeeps
<1> USE SessionAssumption DEF ShapeOK, Gens, Session, Up, Ready, RestartKeeps
<1>1. CASE Up /\ gen # seen[s] /\ UNCHANGED <<serverVars, statVars, wireVars>>
  BY <1>1 DEF serverVars, statVars, wireVars
<1>2. ASSUME StopForRestart
      PROVE  /\ flying' \subseteq flying
             /\ reply' \in [Senders -> {"none", "ok", "toolError", "failed"}]
             /\ \A t \in Senders : reply'[t] \in {reply[t], "failed"}
             /\ slipped => slipped'
             /\ Up /\ (probe = "ping" \/ \E c \in Callers : Gap(c)) => slipped'
  BY <1>2 DEF StopForRestart, Answer, ProcessGoes, ProcessStays
<1>3. CASE StopForRestart /\ Spawn
  BY <1>2, <1>3 DEF Spawn
<1>4. CASE RestartFails
  BY <1>2, <1>4 DEF RestartFails
<1> QED
  BY <1>1, <1>3, <1>4 DEF Restarts

-----------------------------------------------------------------------------
(* The proof *)

LEMMA ShapeInit == Init => ShapeOK /\ HandshakeInv
BY SessionAssumption DEF Init, ShapeOK, HandshakeInv, MarkMeansHandshake,
   CallsFollowHandshake, FlightsOK, ActsOK, PingOK, LostOK, Gens, Senders, Session,
   Up, Ready, ActsOn, ToolCall

LEMMA ShapeStep == ShapeOK /\ [Next]_vars => ShapeOK'
<1> SUFFICES ASSUME ShapeOK, [Next]_vars PROVE ShapeOK'
  OBVIOUS
<1> USE SessionAssumption DEF ShapeOK, Gens, Senders
<1>1. ASSUME NEW c \in Callers, Begin(c) PROVE ShapeOK'
  BY <1>1, SMTT(60) DEF Begin, Finish, Goto, ToolCall, serverVars, statVars, wireVars,
      callVars, checkVars
<1>2. ASSUME NEW c \in Callers, CheckState(c) PROVE ShapeOK'
  BY <1>2 DEF CheckState, AfterState, Goto, Looks, serverVars, statVars,
      wireVars, callVars, checkVars
<1>3. ASSUME NEW c \in Callers, RestartServer(c) PROVE ShapeOK'
  <2>1. RestartKeeps /\ UNCHANGED kind
    BY <1>3, RestartEffect DEF RestartServer
  <2>2. /\ pc' \in [Callers -> {"new", "state", "restart", "check", "initCheck",
                               "send", "revive", "dispatch", "await", "mark",
                               "markAgain", "done"}]
        /\ what' \in [Callers -> {"initialize", "request"}]
    <3>1. CASE AfterState(c) /\ UNCHANGED what
      BY <3>1 DEF AfterState, Goto
    <3>2. CASE UNCHANGED <<pc, what>>
      BY <3>2
    <3>3. CASE Finish(c, "error")
      BY <3>3 DEF Finish, Goto
    <3> QED
      BY <1>3, <3>1, <3>2, <3>3 DEF RestartServer
  <2> QED
    BY <2>1, <2>2 DEF RestartKeeps
<1>4. ASSUME NEW c \in Callers, CheckSession(c) PROVE ShapeOK'
  BY <1>4 DEF CheckSession, Session, SendNext, Goto, serverVars, statVars,
      wireVars, callVars, checkVars
<1>5. ASSUME NEW c \in Callers, InitializeServer(c) PROVE ShapeOK'
  BY <1>5 DEF InitializeServer, Session, SendNext, Goto, ToolCall, serverVars,
      statVars, wireVars, callVars, checkVars
<1>6. ASSUME NEW c \in Callers, Send(c) PROVE ShapeOK'
  BY <1>6 DEF Send, Put, RequestFails, Finish, SendNext, Goto, ToolCall,
      Looks, serverVars, statVars, wireVars, callVars, checkVars
<1>7. ASSUME NEW c \in Callers, Revive(c) PROVE ShapeOK'
  BY <1>7, RestartEffect, SMTT(60) DEF Revive, RestartKeeps, Gap, RequestFails, Finish,
      SendNext, Goto, ToolCall, Forgets, checkVars
<1>8. ASSUME NEW c \in Callers, Dispatch(c) PROVE ShapeOK'
  BY <1>8 DEF Dispatch, Put, RequestFails, Finish, SendNext, Goto, ToolCall,
      serverVars, statVars, wireVars, callVars, checkVars
<1>9. ASSUME NEW c \in Callers, GiveUp(c) PROVE ShapeOK'
  BY <1>9, SMTT(60) DEF GiveUp, RequestFails, Finish, SendNext, Goto, ToolCall,
      serverVars, statVars, wireVars, callVars, checkVars
<1>10. ASSUME NEW c \in Callers, Receive(c) PROVE ShapeOK'
  BY <1>10, ZenonT(60) DEF Receive, RequestFails, Finish, SendNext, Goto, ToolCall, Takes,
      serverVars, statVars, wireVars, callVars, checkVars
<1>11. ASSUME NEW c \in Callers, Mark(c) PROVE ShapeOK'
  BY <1>11 DEF Mark, Marked, SendNext, Goto, ToolCall, serverVars, statVars,
      wireVars, callVars, checkVars
<1>12. ASSUME NEW c \in Callers, MarkAgain(c) PROVE ShapeOK'
  BY <1>12 DEF MarkAgain, Marked, SendNext, Goto, serverVars, statVars,
      wireVars, callVars, checkVars
<1>13. ASSUME NEW m \in flying, ChildSucceeds(m) PROVE ShapeOK'
  BY <1>13 DEF ChildSucceeds, Answer, Alive, Waiting, serverVars, statVars,
      wireVars, callVars, checkVars
<1>14. ASSUME NEW m \in flying, ChildRefuses(m) PROVE ShapeOK'
  BY <1>14 DEF ChildRefuses, Answer, Alive, Waiting, serverVars, statVars,
      wireVars, callVars, checkVars
<1>15. ASSUME NEW m \in flying, NoAnswer(m) PROVE ShapeOK'
  BY <1>15 DEF NoAnswer, Answer, Alive, Waiting, serverVars, statVars,
      wireVars, callVars, checkVars
<1>16. ASSUME Probe PROVE ShapeOK'
  BY <1>16 DEF Probe, Session, serverVars, statVars, wireVars, callVars,
      checkVars
<1>17. ASSUME Ping PROVE ShapeOK'
  BY <1>17 DEF Ping, PingFails, Restarts, RestartFails, StopForRestart, Spawn,
      Answer, Waiting, ProcessGoes, ProcessStays, Gap, serverVars, statVars,
      wireVars, callVars, checkVars
<1>18. ASSUME Pinged PROVE ShapeOK'
  BY <1>18 DEF Pinged, Takes, PingFails, serverVars, statVars, wireVars,
      callVars, checkVars
<1>19. ASSUME Validate PROVE ShapeOK'
  BY <1>19 DEF Validate, Looks, Forgets, Idle, serverVars, statVars, wireVars,
      callVars, checkVars
<1>20. ASSUME HealthRestart PROVE ShapeOK'
  BY <1>20, RestartEffect DEF HealthRestart, RestartKeeps, Gap, Forgets
<1>21. ASSUME Crash PROVE ShapeOK'
  BY <1>21 DEF Crash, ProcessGoes, Gap, serverVars, statVars, wireVars,
      callVars, checkVars
<1>22. ASSUME Respawn PROVE ShapeOK'
  BY <1>22 DEF Respawn, Spawn, serverVars, statVars, wireVars, callVars,
      checkVars
<1>23. ASSUME IdleStop PROVE ShapeOK'
  BY <1>23 DEF IdleStop, ProcessGoes, Gap, Idle, serverVars, statVars,
      wireVars, callVars, checkVars
<1>24. ASSUME Wedge PROVE ShapeOK'
  BY <1>24 DEF Wedge, serverVars, statVars, wireVars, callVars, checkVars
<1>25. ASSUME Expire PROVE ShapeOK'
  BY <1>25 DEF Expire, serverVars, statVars, wireVars, callVars, checkVars
<1>26. CASE UNCHANGED vars
  BY <1>26, SMTT(60) DEF vars, serverVars, statVars, wireVars, callVars, checkVars
<1> QED
  BY <1>1, <1>2, <1>3, <1>4, <1>5, <1>6, <1>7, <1>8, <1>9, <1>10, <1>11,
      <1>12, <1>13, <1>14, <1>15, <1>16, <1>17, <1>18, <1>19, <1>20, <1>21,
      <1>22, <1>23, <1>24, <1>25, <1>26 DEF Next, Calls, Ends, Checks,
      Restores

LEMMA HandshakeStep == ShapeOK /\ ShapeOK' /\ HandshakeInv /\ [Next]_vars => HandshakeInv'
<1> SUFFICES ASSUME ShapeOK, ShapeOK', HandshakeInv, [Next]_vars PROVE HandshakeInv'
  OBVIOUS
<1> USE SessionAssumption DEF ShapeOK, HandshakeInv, MarkMeansHandshake,
      CallsFollowHandshake, FlightsOK, ActsOK, PingOK, LostOK, Gens, Senders,
      Session, Up, Ready, ActsOn, ToolCall
<1>1. ASSUME NEW c \in Callers, Begin(c) PROVE HandshakeInv'
  BY <1>1 DEF Begin, Finish, Goto, ToolCall, serverVars, statVars, wireVars,
      callVars, checkVars
<1>2. ASSUME NEW c \in Callers, CheckState(c) PROVE HandshakeInv'
  BY <1>2 DEF CheckState, AfterState, Goto, Looks, serverVars, statVars,
      wireVars, callVars, checkVars
<1>3. ASSUME NEW c \in Callers, RestartServer(c) PROVE HandshakeInv'
  BY <1>3, RestartEffect DEF RestartServer, RestartKeeps, Gap, AfterState,
      Goto, Finish, Forgets, Looks, checkVars
<1>4. ASSUME NEW c \in Callers, CheckSession(c) PROVE HandshakeInv'
  BY <1>4 DEF CheckSession, Session, SendNext, Goto, serverVars, statVars,
      wireVars, callVars, checkVars
<1>5. ASSUME NEW c \in Callers, InitializeServer(c) PROVE HandshakeInv'
  BY <1>5 DEF InitializeServer, Session, SendNext, Goto, ToolCall, serverVars,
      statVars, wireVars, callVars, checkVars
<1>6. ASSUME NEW c \in Callers, Send(c) PROVE HandshakeInv'
  BY <1>6 DEF Send, Put, RequestFails, Finish, SendNext, Goto, ToolCall,
      Looks, serverVars, statVars, wireVars, callVars, checkVars
<1>7. ASSUME NEW c \in Callers, Revive(c) PROVE HandshakeInv'
  BY <1>7, RestartEffect, SMTT(60) DEF Revive, RestartKeeps, Gap, RequestFails, Finish,
      SendNext, Goto, ToolCall, Forgets, checkVars
<1>8. ASSUME NEW c \in Callers, Dispatch(c) PROVE HandshakeInv'
  BY <1>8, SMTT(60) DEF Dispatch, Put, RequestFails, Finish, SendNext, Goto, ToolCall,
      serverVars, statVars, wireVars, callVars, checkVars
<1>9. ASSUME NEW c \in Callers, GiveUp(c) PROVE HandshakeInv'
  <2>1. CASE Finish(c, "error")
    BY <1>9, <2>1 DEF GiveUp, Finish, Goto, serverVars, statVars, wireVars, checkVars
  <2>2. CASE ~ ToolCall(c) /\ SendNext(c, "request")
    BY <1>9, <2>2 DEF GiveUp, SendNext, Goto, serverVars, statVars, wireVars, checkVars
  <2> QED
    BY <1>9, <2>1, <2>2 DEF GiveUp, RequestFails
<1>10. ASSUME NEW c \in Callers, Receive(c) PROVE HandshakeInv'
  BY <1>10 DEF Receive, RequestFails, Finish, SendNext, Goto, ToolCall, Takes,
      serverVars, statVars, wireVars, callVars, checkVars
<1>11. ASSUME NEW c \in Callers, Mark(c) PROVE HandshakeInv'
  BY <1>11 DEF Mark, Marked, SendNext, Goto, ToolCall, serverVars, statVars,
      wireVars, callVars, checkVars
<1>12. ASSUME NEW c \in Callers, MarkAgain(c) PROVE HandshakeInv'
  BY <1>12 DEF MarkAgain, Marked, SendNext, Goto, serverVars, statVars,
      wireVars, callVars, checkVars
<1>13. ASSUME NEW m \in flying, ChildSucceeds(m) PROVE HandshakeInv'
  BY <1>13 DEF ChildSucceeds, Answer, Alive, Waiting, serverVars, statVars,
      wireVars, callVars, checkVars
<1>14. ASSUME NEW m \in flying, ChildRefuses(m) PROVE HandshakeInv'
  BY <1>14 DEF ChildRefuses, Answer, Alive, Waiting, serverVars, statVars,
      wireVars, callVars, checkVars
<1>15. ASSUME NEW m \in flying, NoAnswer(m) PROVE HandshakeInv'
  BY <1>15 DEF NoAnswer, Answer, Alive, Waiting, serverVars, statVars,
      wireVars, callVars, checkVars
<1>16. ASSUME Probe PROVE HandshakeInv'
  BY <1>16 DEF Probe, Session, serverVars, statVars, wireVars, callVars,
      checkVars
<1>17. ASSUME Ping PROVE HandshakeInv'
  BY <1>17 DEF Ping, PingFails, Restarts, RestartFails, StopForRestart, Spawn,
      Answer, Waiting, ProcessGoes, ProcessStays, Gap, serverVars, statVars,
      wireVars, callVars, checkVars
<1>18. ASSUME Pinged PROVE HandshakeInv'
  BY <1>18 DEF Pinged, Takes, PingFails, serverVars, statVars, wireVars,
      callVars, checkVars
<1>19. ASSUME Validate PROVE HandshakeInv'
  BY <1>19 DEF Validate, Looks, Forgets, Idle, serverVars, statVars, wireVars,
      callVars, checkVars
<1>20. ASSUME HealthRestart PROVE HandshakeInv'
  BY <1>20, RestartEffect DEF HealthRestart, RestartKeeps, Gap, Forgets
<1>21. ASSUME Crash PROVE HandshakeInv'
  BY <1>21, ZenonT(60) DEF Crash, ProcessGoes, Gap, serverVars, statVars, wireVars,
      callVars, checkVars
<1>22. ASSUME Respawn PROVE HandshakeInv'
  BY <1>22 DEF Respawn, Spawn, serverVars, statVars, wireVars, callVars,
      checkVars
<1>23. ASSUME IdleStop PROVE HandshakeInv'
  BY <1>23, ZenonT(60) DEF IdleStop, ProcessGoes, Gap, Idle, serverVars, statVars,
      wireVars, callVars, checkVars
<1>24. ASSUME Wedge PROVE HandshakeInv'
  BY <1>24 DEF Wedge, serverVars, statVars, wireVars, callVars, checkVars
<1>25. ASSUME Expire PROVE HandshakeInv'
  BY <1>25 DEF Expire, serverVars, statVars, wireVars, callVars, checkVars
<1>26. CASE UNCHANGED vars
  BY <1>26 DEF vars, serverVars, statVars, wireVars, callVars, checkVars
<1> QED
  BY <1>1, <1>2, <1>3, <1>4, <1>5, <1>6, <1>7, <1>8, <1>9, <1>10, <1>11,
      <1>12, <1>13, <1>14, <1>15, <1>16, <1>17, <1>18, <1>19, <1>20, <1>21,
      <1>22, <1>23, <1>24, <1>25, <1>26 DEF Next, Calls, Ends, Checks,
      Restores

(***************************************************************************)
(* In every reachable state a marked server has a session and tool calls   *)
(* and pings are under way only to processes that have one, unless a       *)
(* process went away in one of the gaps (toolcall.go, dispatch.go,         *)
(* health.go), for any number of callers and generations.                  *)
(***************************************************************************)
THEOREM HandshakeFirst == Spec => [](MarkMeansHandshake /\ CallsFollowHandshake)
<1>1. Init => ShapeOK /\ HandshakeInv
  BY ShapeInit
<1>2. ShapeOK /\ HandshakeInv /\ [Next]_vars => (ShapeOK /\ HandshakeInv)'
  BY ShapeStep, HandshakeStep
<1>3. HandshakeInv => MarkMeansHandshake /\ CallsFollowHandshake
  BY DEF HandshakeInv
<1> QED BY <1>1, <1>2, <1>3, PTL DEF Spec

-----------------------------------------------------------------------------
(* The result cache holds nothing but good results *)

CacheInv ==
  /\ cache \in {"none", "ok"}
  /\ outcome \in [Callers -> {"none", "ok", "toolError", "error", "empty"}]
Replays(c) == pc[c] = "new" /\ pc'[c] = "done"

\* What a failure does to the caller it hits, and to no other.
LEMMA FailureEffect ==
  ASSUME ShapeOK, CacheInv, NEW c \in Callers, RequestFails(c) \/ Finish(c, "error")
  PROVE  /\ outcome' \in [Callers -> {"none", "ok", "toolError", "error", "empty"}]
         /\ \A d \in Callers \ {c} : pc'[d] = pc[d]
  BY DEF ShapeOK, CacheInv, RequestFails, Finish, SendNext, Goto

LEMMA CacheStep == ShapeOK /\ CacheInv /\ [Next]_vars => CacheInv' /\ \A c \in Callers : Replays(c) => outcome'[c] = "ok"
<1> SUFFICES ASSUME ShapeOK, CacheInv, [Next]_vars
             PROVE  CacheInv' /\ \A c \in Callers : Replays(c) => outcome'[c] = "ok"
  OBVIOUS
\* It is enough that a caller that has begun is the only one to move.
<1>1. ASSUME NEW c \in Callers, pc[c] # "new", \A d \in Callers \ {c} : pc'[d] = pc[d], CacheInv'
      PROVE  CacheInv' /\ \A d \in Callers : Replays(d) => outcome'[d] = "ok"
  BY <1>1 DEF Replays
<1>2. ASSUME NEW c \in Callers, Begin(c) PROVE CacheInv' /\ \A d \in Callers : Replays(d) => outcome'[d] = "ok"
  BY <1>2 DEF Begin, Finish, Goto, ShapeOK, CacheInv, Replays
<1>3. ASSUME NEW c \in Callers, CheckState(c) \/ CheckSession(c) \/ InitializeServer(c) \/ Mark(c) \/ MarkAgain(c)
      PROVE  pc[c] # "new" /\ (\A d \in Callers \ {c} : pc'[d] = pc[d]) /\ CacheInv'
  BY <1>3 DEF CheckState, CheckSession, InitializeServer, Mark, MarkAgain, AfterState, SendNext, Goto, ShapeOK, CacheInv
<1>4. ASSUME NEW c \in Callers, RestartServer(c)
      PROVE  pc[c] # "new" /\ (\A d \in Callers \ {c} : pc'[d] = pc[d]) /\ CacheInv'
  <2>1. CASE AfterState(c) /\ UNCHANGED <<what, outcome>>
    BY <1>4, <2>1 DEF RestartServer, AfterState, Goto, ShapeOK, CacheInv
  <2>2. CASE UNCHANGED <<pc, what, outcome>>
    BY <1>4, <2>2 DEF RestartServer, CacheInv
  <2>3. CASE Finish(c, "error")
    BY <1>4, <2>3, FailureEffect DEF RestartServer, CacheInv
  <2> QED
    BY <1>4, <2>1, <2>2, <2>3 DEF RestartServer
<1>5. ASSUME NEW c \in Callers, Send(c) \/ Dispatch(c) \/ Revive(c) \/ GiveUp(c)
      PROVE  pc[c] # "new" /\ (\A d \in Callers \ {c} : pc'[d] = pc[d]) /\ CacheInv'
  <2>1. cache' = cache /\ pc[c] # "new"
    BY <1>5 DEF Send, Dispatch, Revive, GiveUp
  <2>2. RequestFails(c) \/ \E step \in {"await", "revive", "dispatch"} : Goto(c, step) /\ UNCHANGED outcome
    BY <1>5 DEF Send, Dispatch, Revive, GiveUp, Put
  <2>3. CASE RequestFails(c)
    BY <2>1, <2>3, FailureEffect DEF CacheInv
  <2>4. CASE \E step \in {"await", "revive", "dispatch"} : Goto(c, step) /\ UNCHANGED outcome
    BY <2>1, <2>4 DEF Goto, ShapeOK, CacheInv
  <2> QED
    BY <2>2, <2>3, <2>4
<1>6. ASSUME NEW c \in Callers, Receive(c)
      PROVE  pc[c] # "new" /\ (\A d \in Callers \ {c} : pc'[d] = pc[d]) /\ CacheInv'
  <2>1. pc[c] # "new" /\ cache' \in {"none", "ok"} /\ reply[c] \in {"ok", "toolError", "failed"}
    BY <1>6 DEF Receive, ShapeOK, CacheInv, Senders
  <2>2. \/ RequestFails(c)
        \/ Goto(c, "mark") /\ UNCHANGED outcome
        \/ \E o \in {"ok", "toolError", "empty"} : Finish(c, o)
    BY <1>6, <2>1 DEF Receive
  <2>3. CASE RequestFails(c)
    BY <2>1, <2>3, FailureEffect DEF CacheInv
  <2>4. CASE \/ Goto(c, "mark") /\ UNCHANGED outcome
             \/ \E o \in {"ok", "toolError", "empty"} : Finish(c, o)
    BY <2>1, <2>4 DEF Finish, Goto, ShapeOK, CacheInv
  <2> QED
    BY <2>2, <2>3, <2>4
<1>7. ASSUME UNCHANGED pc, UNCHANGED outcome, cache' \in {cache, "none"}
      PROVE  CacheInv' /\ \A d \in Callers : Replays(d) => outcome'[d] = "ok"
  BY <1>7 DEF CacheInv, Replays
<1>8. ASSUME NEW m \in flying, Ends(m) PROVE UNCHANGED callVars
  BY <1>8 DEF Ends, ChildSucceeds, ChildRefuses, NoAnswer
<1>9. CASE Checks \/ Restores \/ Crash \/ Respawn \/ IdleStop \/ Wedge \/ Expire
  <2>1. UNCHANGED <<pc, outcome>> /\ cache' \in {cache, "none"}
    BY <1>9 DEF Checks, Probe, Ping, Pinged, Restores, Validate, HealthRestart,
       Crash, Respawn, IdleStop, Wedge, Expire, callVars
  <2> QED
    BY <1>7, <2>1
<1>10. CASE UNCHANGED vars
  BY <1>7, <1>10 DEF vars, callVars
<1> QED
  BY <1>1, <1>2, <1>3, <1>4, <1>5, <1>6, <1>7, <1>8, <1>9, <1>10 DEF Next, Calls, callVars

(***************************************************************************)
(* A failure is never replayed (storeToolResult caches no result that has  *)
(* isError): whoever is answered out of the cache gets a good result, for  *)
(* any number of callers, however the calls overlap and results expire.    *)
(***************************************************************************)
THEOREM FailuresStayUncached == Spec => FailuresAreNotReplayed
<1>1. Init => ShapeOK /\ CacheInv
  BY ShapeInit DEF Init, CacheInv
<1>2. ShapeOK /\ CacheInv /\ [Next]_vars => (ShapeOK /\ CacheInv)'
  BY ShapeStep, CacheStep
<1>3. ShapeOK /\ CacheInv /\ [Next]_vars
        => [\A c \in Callers : pc[c] = "new" /\ pc'[c] = "done" => outcome'[c] = "ok"]_vars
  BY CacheStep DEF Replays
<1> QED
  BY <1>1, <1>2, <1>3, PTL DEF Spec, FailuresAreNotReplayed
=============================================================================
