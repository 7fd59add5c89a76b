----------------------------- MODULE RemoteServer -----------------------------
(***************************************************************************)
(* A remote MCP server (pkg/pool/http_pool.go and sse_pool.go, which share *)
(* this logic): callers use one MCP client together, reconnect it after a  *)
(* transport error and retry once; the pool registers and closes it.       *)
(*                                                                         *)
(* s.mu protects single reads and writes of mcpClient and state, so each   *)
(* of them is a step.  reconnectMu is held from Acquire to the return of   *)
(* ensureConnected.  An mcp-go client is external: it may lose its         *)
(* connection at any time, and closing it makes the calls on it fail.      *)
(***************************************************************************)
EXTENDS Naturals

CONSTANTS
  Callers,     \* goroutines that use the server
  MaxClients,  \* bound: MCP clients built
  Stream,      \* TRUE for SSE, whose client reports a lost connection
  NoCaller

ASSUME RemoteAssumption ==
  /\ MaxClients \in Nat /\ Stream \in BOOLEAN /\ NoCaller \notin Callers

VARIABLES
  current,     \* s.mcpClient, 0 for nil
  state,       \* s.state
  registered,  \* the pool's map has the server
  closing,     \* how far the pool's Close has come
  taken,       \* the client Close has taken out of the server
  client,      \* the connection of each client
  notice,      \* the OnConnectionLost callback of each client
  built,       \* number of clients built
  dialed,      \* the client each caller is connecting
  lock,        \* holder of reconnectMu
  pc,          \* where each caller is
  stage,       \* which ensureConnected of its request a caller runs
  using        \* the client a caller got from ensureConnected

serverVars == <<current, state>>
poolVars   == <<registered, closing, taken>>
clientVars == <<client, notice, built>>
callerVars == <<pc, stage, using>>
vars == <<serverVars, poolVars, clientVars, dialed, lock, callerVars>>

Clients == 1 .. MaxClients
NoClient == 0

TypeOK ==
  /\ current \in Clients \cup {NoClient}
  /\ state \in {"starting", "running", "disconnected", "error", "stopped"}
  /\ registered \in BOOLEAN
  /\ closing \in {"no", "closeClient", "setStopped", "done"}
  /\ taken \in Clients \cup {NoClient}
  /\ client \in [Clients -> {"none", "open", "lost", "closed"}]
  /\ notice \in [Clients -> {"none", "check", "mark"}]
  /\ built \in 0 .. MaxClients
  /\ dialed \in [Callers -> Clients \cup {NoClient}]
  /\ lock \in Callers \cup {NoCaller}
  /\ pc \in [Callers -> {"idle", "mark", "check", "lock", "drop", "dial",
                         "announce", "send"}]
  /\ stage \in [Callers -> {"only", "connect", "first", "retry"}]
  /\ using \in [Callers -> Clients \cup {NoClient}]

Init ==
  /\ current = NoClient /\ state = "starting"
  /\ registered = FALSE /\ closing = "no" /\ taken = NoClient
  /\ client = [k \in Clients |-> "none"] /\ notice = [k \in Clients |-> "none"]
  /\ built = 0 /\ lock = NoCaller
  /\ dialed = [c \in Callers |-> NoClient]
  /\ pc = [c \in Callers |-> "idle"]
  /\ stage = [c \in Callers |-> "only"]
  /\ using = [c \in Callers |-> NoClient]

-----------------------------------------------------------------------------
(* Requests.  The stage tells what follows ensureConnected: "only" returns *)
(* (Initialize, and an initialize request, which is answered locally),     *)
(* "connect" is the check at the start of SendRequestToServerWithID,       *)
(* "first" and "retry" are the two attempts of CallTool and ListTools.     *)

Goto(c, step) == pc' = [pc EXCEPT ![c] = step]

\* The pool's map can be read: Close holds p.mu while it closes the servers.
Visible == registered /\ closing = "no"

\* StartServer registers the server and initialises it in a goroutine.
StartServer(c) ==
  /\ pc[c] = "idle" /\ ~registered /\ closing = "no"
  /\ registered' = TRUE
  /\ stage' = [stage EXCEPT ![c] = "only"]
  /\ Goto(c, "check")
  /\ UNCHANGED <<serverVars, closing, taken, clientVars, dialed, lock, using>>

\* SendRequestToServerWithID (a tool request or initialize) or SendRequest,
\* which goes to CallTool at once.
Call(c) ==
  /\ pc[c] = "idle" /\ Visible
  /\ \E s \in {"only", "connect", "first"} : stage' = [stage EXCEPT ![c] = s]
  /\ Goto(c, "check")
  /\ UNCHANGED <<serverVars, poolVars, clientVars, dialed, lock, using>>

\* RestartServer has found the server in the map.
Restart(c) ==
  /\ pc[c] = "idle" /\ Visible
  /\ stage' = [stage EXCEPT ![c] = "only"]
  /\ Goto(c, "mark")
  /\ UNCHANGED <<serverVars, poolVars, clientVars, dialed, lock, using>>

\* Mutant: a transport error does not mark the server.
MarkForgets(c) ==
  /\ pc[c] = "mark"
  /\ Goto(c, "check")
  /\ UNCHANGED <<serverVars, poolVars, clientVars, dialed, lock, stage, using>>

\* setState(StateDisconnected), by RestartServer or after a transport error.
Mark(c) ==
  /\ pc[c] = "mark"
  /\ state' = "disconnected"
  /\ Goto(c, "check")
  /\ UNCHANGED <<current, poolVars, clientVars, dialed, lock, stage, using>>

-----------------------------------------------------------------------------
(* ensureConnected *)

Usable == current # NoClient /\ state \notin {"disconnected", "error"}

\* ensureConnected returns client k.
Connected(c, k) ==
  /\ using' = [using EXCEPT ![c] = k]
  /\ \/ stage[c] = "only" /\ Goto(c, "idle") /\ UNCHANGED stage
     \/ /\ stage[c] = "connect" /\ Goto(c, "check")
        /\ stage' = [stage EXCEPT ![c] = "first"]
     \/ stage[c] \in {"first", "retry"} /\ Goto(c, "send") /\ UNCHANGED stage

\* The fast path: client and state are read under one lock.
FastPath(c) ==
  /\ pc[c] = "check" /\ Usable /\ state # "stopped"
  /\ Connected(c, current)
  /\ UNCHANGED <<serverVars, poolVars, clientVars, dialed, lock>>

SlowPath(c) ==
  /\ pc[c] = "check" /\ ~(Usable /\ state # "stopped")
  /\ Goto(c, "lock")
  /\ UNCHANGED <<serverVars, poolVars, clientVars, dialed, lock, stage, using>>

\* reconnectMu is free; another caller may have reconnected, or the server may
\* have been closed: then the deferred Unlock follows at once.
Acquire(c) ==
  /\ pc[c] = "lock" /\ lock = NoCaller
  /\ \/ /\ state = "stopped"
        /\ Goto(c, "idle") /\ UNCHANGED <<lock, stage, using>>
     \/ /\ state # "stopped" /\ Usable
        /\ Connected(c, current) /\ UNCHANGED lock
     \/ /\ state # "stopped" /\ ~Usable
        /\ lock' = c
        /\ Goto(c, "drop") /\ UNCHANGED <<stage, using>>
  /\ UNCHANGED <<serverVars, poolVars, clientVars, dialed>>

\* Close of a client; its read loop ends and reports that (SSE).
Closed(k) == [client EXCEPT ![k] = "closed"]
Reported(k) ==
  [notice EXCEPT ![k] = IF Stream /\ client[k] = "open" THEN "check" ELSE @]

\* Mutant: the reconnecting caller overwrites the client without closing it.
DropForgets(c) ==
  /\ pc[c] = "drop"
  /\ current' = NoClient
  /\ Goto(c, "dial")
  /\ UNCHANGED <<state, poolVars, clientVars, dialed, lock, stage, using>>

\* closeClient
Drop(c) ==
  /\ pc[c] = "drop"
  /\ current' = NoClient
  /\ IF current = NoClient
       THEN UNCHANGED <<client, notice>>
       ELSE client' = Closed(current) /\ notice' = Reported(current)
  /\ Goto(c, "dial")
  /\ UNCHANGED <<state, poolVars, built, dialed, lock, stage, using>>

\* Mutant: the state is announced before the client is installed.
BuildAnnounces(c) ==
  /\ pc[c] = "dial" /\ dialed[c] = NoClient /\ built < MaxClients
  /\ built' = built + 1
  /\ dialed' = [dialed EXCEPT ![c] = built + 1]
  /\ client' = [client EXCEPT ![built + 1] = "open"]
  /\ state' = "running"
  /\ UNCHANGED <<current, poolVars, notice, lock, callerVars>>

\* buildClient and Start
Build(c) ==
  /\ pc[c] = "dial" /\ dialed[c] = NoClient /\ built < MaxClients
  /\ built' = built + 1
  /\ dialed' = [dialed EXCEPT ![c] = built + 1]
  /\ client' = [client EXCEPT ![built + 1] = "open"]
  /\ UNCHANGED <<serverVars, poolVars, notice, lock, callerVars>>

\* Mutant: a failed dial returns without releasing reconnectMu.
DialFailsLocked(c) ==
  /\ pc[c] = "dial"
  /\ state' = "error"
  /\ IF dialed[c] = NoClient
       THEN UNCHANGED <<client, notice>>
       ELSE client' = Closed(dialed[c]) /\ notice' = Reported(dialed[c])
  /\ dialed' = [dialed EXCEPT ![c] = NoClient]
  /\ Goto(c, "idle")
  /\ UNCHANGED <<current, poolVars, built, lock, stage, using>>

\* buildClient, Start or Initialize fails, or the context is done: the client,
\* if there is one, is closed.
DialFails(c) ==
  /\ pc[c] = "dial"
  /\ state' = "error"
  /\ IF dialed[c] = NoClient
       THEN UNCHANGED <<client, notice>>
       ELSE client' = Closed(dialed[c]) /\ notice' = Reported(dialed[c])
  /\ dialed' = [dialed EXCEPT ![c] = NoClient]
  /\ lock' = NoCaller
  /\ Goto(c, "idle")
  /\ UNCHANGED <<current, poolVars, built, stage, using>>

\* Initialize has been answered: the client becomes the current one,
Install(c) ==
  /\ pc[c] = "dial" /\ dialed[c] # NoClient
  /\ current' = dialed[c]
  /\ Goto(c, "announce")
  /\ UNCHANGED <<state, poolVars, clientVars, dialed, lock, stage, using>>

\* and, in a second critical section, the state follows.
Announce(c) ==
  /\ pc[c] = "announce"
  /\ state' = "running"
  /\ dialed' = [dialed EXCEPT ![c] = NoClient]
  /\ lock' = NoCaller
  /\ Connected(c, dialed[c])
  /\ UNCHANGED <<current, poolVars, clientVars>>

-----------------------------------------------------------------------------
(* The request itself, on the client that ensureConnected returned *)

\* An answer, an error of the server (never retried), or the caller gives up.
Finish(c) ==
  /\ pc[c] = "send"
  /\ Goto(c, "idle")
  /\ UNCHANGED <<serverVars, poolVars, clientVars, dialed, lock, stage, using>>

\* A transport error: the client is lost or closed, or this call timed out.
\* After the first attempt the server is marked and the request retried.
Fail(c) ==
  /\ pc[c] = "send"
  /\ IF stage[c] = "first"
       THEN Goto(c, "mark") /\ stage' = [stage EXCEPT ![c] = "retry"]
       ELSE Goto(c, "idle") /\ UNCHANGED stage
  /\ UNCHANGED <<serverVars, poolVars, clientVars, dialed, lock, using>>

-----------------------------------------------------------------------------
(* The connection, and the callback that an SSE client runs when its read  *)
(* loop ends: it compares the client under s.mu, then sets the state.      *)

Lose(k) ==
  /\ client[k] = "open"
  /\ client' = [client EXCEPT ![k] = "lost"]
  /\ notice' = Reported(k)
  /\ UNCHANGED <<serverVars, poolVars, built, dialed, lock, callerVars>>

NoticeChecks(k) ==
  /\ notice[k] = "check"
  /\ notice' = [notice EXCEPT ![k] = IF current = k THEN "mark" ELSE "none"]
  /\ UNCHANGED <<serverVars, poolVars, client, built, dialed, lock, callerVars>>

NoticeMarks(k) ==
  /\ notice[k] = "mark"
  /\ notice' = [notice EXCEPT ![k] = "none"]
  /\ state' = "disconnected"
  /\ UNCHANGED <<current, poolVars, client, built, dialed, lock, callerVars>>

-----------------------------------------------------------------------------
(* Close of the pool: closeClient, which does not take reconnectMu, then   *)
(* setState(StateStopped), then the map is emptied.                        *)

CloseTakes ==
  /\ registered /\ closing = "no"
  /\ taken' = current /\ current' = NoClient
  /\ closing' = "closeClient"
  /\ UNCHANGED <<state, registered, clientVars, dialed, lock, callerVars>>

CloseCloses ==
  /\ closing = "closeClient"
  /\ IF taken = NoClient
       THEN UNCHANGED <<client, notice>>
       ELSE client' = Closed(taken) /\ notice' = Reported(taken)
  /\ taken' = NoClient
  /\ closing' = "setStopped"
  /\ UNCHANGED <<serverVars, registered, built, dialed, lock, callerVars>>

CloseStops ==
  /\ closing = "setStopped"
  /\ state' = "stopped"
  /\ registered' = FALSE
  /\ closing' = "done"
  /\ UNCHANGED <<current, taken, clientVars, dialed, lock, callerVars>>

-----------------------------------------------------------------------------
Running(c) ==
  \/ Mark(c) \/ FastPath(c) \/ SlowPath(c) \/ Drop(c) \/ Build(c)
  \/ DialFails(c) \/ Install(c) \/ Announce(c) \/ Finish(c) \/ Fail(c)

Next ==
  \/ \E c \in Callers : StartServer(c) \/ Call(c) \/ Restart(c) \/ Acquire(c)
                          \/ Running(c)
  \/ \E k \in Clients : Lose(k) \/ NoticeChecks(k) \/ NoticeMarks(k)
  \/ CloseTakes \/ CloseCloses \/ CloseStops

Spec == Init /\ [][Next]_vars

\* Every dial and every request has a timeout, and reconnectMu is handed over
\* in order to the goroutines that wait for it.
FairSpec ==
  /\ Spec
  /\ \A c \in Callers : WF_vars(Running(c)) /\ SF_vars(Acquire(c))

-----------------------------------------------------------------------------
(* Properties *)

Open(k) == client[k] \in {"open", "lost"}

\* No connection is leaked: whatever reconnects, failures and Close overlap, a
\* client that has not been closed is the current one, the one being connected
\* under reconnectMu, or the one Close is about to close.
NoClientLeaks ==
  \A k \in Clients : Open(k) => \/ k \in {current, taken}
                                \/ \E c \in Callers : dialed[c] = k

\* Reconnects do not overlap: apart from the client that Close is closing there
\* is never more than one connection to the server.
OneConnection ==
  \A j, k \in Clients : Open(j) /\ Open(k) /\ taken \notin {j, k} => j = k

\* Until the server is closed, a state that tells the health check and the fast
\* path "running" is backed by a client.
RunningHasClient ==
  closing = "no" /\ state = "running" => current # NoClient

\* The retry is not sent on the connection that failed: between the failed
\* attempt and the retry some caller has reconnected.  (The exceptions are real:
\* the first client serves calls while the state is still "starting", and the
\* state that Announce stores then hides the failure; a Close in progress
\* stores over it as well.)
RetryReconnects ==
  [][\A c \in Callers :
       pc[c] # "send" /\ pc'[c] = "send" /\ stage'[c] = "retry"
         => using'[c] # using[c] \/ using[c] = 1 \/ closing' # "no"]_vars

\* Every request returns, whatever happens to the connection, and reconnectMu
\* never stays locked.
RequestsReturn == \A c \in Callers : pc[c] # "idle" ~> pc[c] = "idle"

\* "A deliberately closed server must never be resurrected by an in-flight
\* request racing shutdown" (http_pool.go:143): no client is installed once
\* Close has returned.
ClosedStaysClosed == [][closing = "done" => current' = current]_vars

=============================================================================
