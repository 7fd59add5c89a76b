------------------------------ MODULE SocketServer ------------------------------
(***************************************************************************)
(* The socket of pkg/proxy/socket: a loop that accepts, a goroutine for    *)
(* each connection that reads lines with a deadline of half a second, a    *)
(* goroutine for each line that authenticates it, runs its method and      *)
(* writes the answer, and Shutdown; and the cache of sessions of           *)
(* pkg/proxy.                                                              *)
(***************************************************************************)
EXTENDS Naturals, Sequences, FiniteSets

CONSTANTS Conns,
          MaxSent,      \* bound: lines that a client sends
          Peered,       \* the servers that have sessions
          MaxSize       \* of the cache of sessions

ASSUME SocketAssumption == MaxSent \in Nat /\ MaxSize \in Nat \ {0}

\* What becomes of a line: "run" and "shutdown" are methods that are registered, "fails" one
\* whose handler fails, and the others do not get that far.
SockLines == {"run", "fails", "shutdown", "unauthorized", "unknown", "unparsable", "large"}

VARIABLES
  accepts,   \* acceptLoop: "open", "closed" (the listener), "over"
  over,        \* the context has been cancelled
  link,        \* each connection: "before", "backlog", "accepted", "open", "closed"
  toServer,    \* lines on their way, and the one that has been read
  requests,    \* the goroutines of handleRequest: <<connection, kind, step>>
  tally,       \* of each connection: sent, answered, lost
  shutdown,    \* Shutdown: "no", "cancel", "wait", "done"
  lastUse      \* the sessions, and when they were used last: 0 for none

socketVars == <<accepts, over, link, toServer, requests, tally, shutdown, lastUse>>
linkVars == <<accepts, over, link, toServer, requests, tally, shutdown>>

SSInit == /\ accepts = "open" /\ over = FALSE
          /\ link = [c \in Conns |-> "before"] /\ toServer = [c \in Conns |-> <<>>]
          /\ requests = {} /\ shutdown = "no"
          /\ tally = [c \in Conns |-> [sent |-> 0, answered |-> 0, lost |-> 0]]
          /\ lastUse = [s \in Peered |-> 0]

Counts(c, what, n) == tally' = [tally EXCEPT ![c][what] = @ + n]

-----------------------------------------------------------------------------
(* Clients.                                                                 *)

Reach(c) == /\ link[c] = "before" /\ accepts = "open" /\ link' = [link EXCEPT ![c] = "backlog"]
           /\ UNCHANGED <<accepts, over, toServer, requests, tally, shutdown, lastUse>>

SendLine(c) ==
  /\ link[c] # "before" /\ link[c] # "closed" /\ tally[c].sent < MaxSent
  /\ \E kind \in SockLines : toServer' = [toServer EXCEPT ![c] = Append(@, kind)]
  /\ Counts(c, "sent", 1)
  /\ UNCHANGED <<accepts, over, link, requests, shutdown, lastUse>>

-----------------------------------------------------------------------------
(* The server.                                                              *)

\* acceptLoop: a connection that is accepted counts a little later.  Once the listener is
\* closed the loop ends, and what was in the backlog is refused.
AcceptConn(c) ==
  /\ link[c] = "backlog" /\ accepts = "open" /\ link' = [link EXCEPT ![c] = "accepted"]
  /\ UNCHANGED <<accepts, over, toServer, requests, tally, shutdown, lastUse>>
CountConn(c) ==
  /\ link[c] = "accepted" /\ link' = [link EXCEPT ![c] = "open"]
  /\ UNCHANGED <<accepts, over, toServer, requests, tally, shutdown, lastUse>>
StopAccepting ==
  /\ accepts = "closed" /\ accepts' = "over"
  /\ link' = [c \in Conns |-> IF link[c] = "backlog" THEN "closed" ELSE link[c]]
  /\ tally' = [c \in Conns |-> IF link[c] # "backlog" THEN tally[c]
                               ELSE [tally[c] EXCEPT !.lost = @ + Len(toServer[c])]]
  /\ toServer' = [c \in Conns |-> IF link[c] = "backlog" THEN <<>> ELSE toServer[c]]
  /\ UNCHANGED <<over, requests, shutdown, lastUse>>

\* The connection is closed: because the client has gone, or because a read has come to its
\* end or its deadline and the context is done.  What was not read is lost.
CloseConn(c) ==
  /\ link[c] = "open"
  /\ link' = [link EXCEPT ![c] = "closed"] /\ toServer' = [toServer EXCEPT ![c] = <<>>]
  /\ Counts(c, "lost", Len(toServer[c]))
  /\ UNCHANGED <<accepts, over, requests, shutdown, lastUse>>

\* Mutant: the context is not looked at.
TakeLineAnyway(c) ==
  /\ link[c] = "open" /\ toServer[c] # <<>>
  /\ requests' = requests \cup {<<c, Head(toServer[c]), tally[c].sent - Len(toServer[c])>>}
  /\ toServer' = [toServer EXCEPT ![c] = Tail(@)]
  /\ UNCHANGED <<accepts, over, link, tally, shutdown, lastUse>>

\* A line is read and given to a goroutine of its own.  One whose sender has paused for half
\* a second in its middle has lost its first half, and cannot be parsed; one that is too long
\* is answered at once.
TakeLine(c) ==
  /\ link[c] = "open" /\ ~ over /\ toServer[c] # <<>>
  /\ \E kind \in {Head(toServer[c]), "unparsable"} :
       IF kind = "large"
         THEN Counts(c, "answered", 1) /\ UNCHANGED requests
         ELSE /\ requests' = requests \cup {<<c, kind, tally[c].sent - Len(toServer[c])>>}
              /\ UNCHANGED tally
  /\ toServer' = [toServer EXCEPT ![c] = Tail(@)]
  /\ UNCHANGED <<accepts, over, link, shutdown, lastUse>>

\* Mutant: an error is written and the method is run all the same.
AnswerTwice(r) ==
  /\ Counts(r[1], "answered", IF link[r[1]] = "closed" THEN 0
                              ELSE IF r[2] = "unauthorized" THEN 2 ELSE 1)
  /\ requests' = requests \ {r}
  /\ UNCHANGED <<accepts, over, link, toServer, shutdown, lastUse>>

\* handleRequest: whatever becomes of the line, there is one answer, in any order, unless the
\* connection has been closed in the meantime.  The shutdown method starts Shutdown.
HandleSocketRequest(r) ==
  /\ Counts(r[1], IF link[r[1]] = "closed" THEN "lost" ELSE "answered", 1)
  /\ requests' = requests \ {r}
  /\ shutdown' = IF r[2] = "shutdown" /\ shutdown = "no" THEN "cancel" ELSE shutdown
  /\ UNCHANGED <<accepts, over, link, toServer, lastUse>>

\* Shutdown cancels the context, closes the listener and waits for the connections, but not
\* for the requests.
CallShutdown == /\ shutdown = "no" /\ shutdown' = "cancel"
                /\ UNCHANGED <<accepts, over, link, toServer, requests, tally, lastUse>>
CancelServer ==
  /\ shutdown = "cancel" /\ shutdown' = "wait" /\ over' = TRUE /\ accepts' = "closed"
  /\ UNCHANGED <<link, toServer, requests, tally, lastUse>>
ShutdownEnds ==
  /\ shutdown = "wait" /\ \A c \in Conns : link[c] # "open"
  /\ shutdown' = "done"
  /\ UNCHANGED <<accepts, over, link, toServer, requests, tally, lastUse>>

-----------------------------------------------------------------------------
(* SessionCache.  Times are kept in the order in which sessions were used.  *)

Sessions == {s \in Peered : lastUse[s] > 0}

\* The session becomes the one that was used last; the others keep their order.
Use(used, s) ==
  [t \in Peered |-> IF t = s THEN Cardinality({u \in Peered : used[u] > 0 /\ u # s}) + 1
                    ELSE IF used[t] = 0 THEN 0
                    ELSE Cardinality({u \in Peered : used[u] \in 1 .. used[t] /\ u # s})]

\* Mutant: room is made only when there is more than MaxSize.
EvictLate(used) ==
  IF Cardinality({s \in Peered : used[s] > 0}) > MaxSize
    THEN [s \in Peered |-> IF used[s] = 0 THEN 0 ELSE used[s] - 1] ELSE used

\* evictOldestLocked, when the cache is full.
Evict(used) ==
  IF Cardinality({s \in Peered : used[s] > 0}) >= MaxSize
    THEN [s \in Peered |-> IF used[s] = 0 THEN 0 ELSE used[s] - 1] ELSE used

\* A session that has not expired is used again, one that has is replaced.
GetOrCreateSession(s) ==
  /\ lastUse' = IF lastUse[s] > 0
                  THEN Use(lastUse, s) ELSE Use(Evict(lastUse), s)
  /\ UNCHANGED linkVars

\* RestoreSession makes room even if the server has a session that it replaces.
RestoreSession(s) == /\ lastUse' = Use(Evict(lastUse), s)
                     /\ UNCHANGED linkVars

RemoveSession(s) ==
  /\ lastUse[s] > 0
  /\ lastUse' = [t \in Peered |-> IF t = s THEN 0
                                  ELSE IF lastUse[t] > lastUse[s] THEN lastUse[t] - 1
                                  ELSE lastUse[t]]
  /\ UNCHANGED linkVars
ClearSessions == lastUse' = [s \in Peered |-> 0] /\ UNCHANGED linkVars

SSNext ==
  \/ \E c \in Conns : \/ Reach(c) \/ SendLine(c) \/ AcceptConn(c) \/ CountConn(c)
                      \/ CloseConn(c) \/ TakeLine(c)
  \/ \E r \in requests : HandleSocketRequest(r)
  \/ StopAccepting \/ CallShutdown \/ CancelServer \/ ShutdownEnds
  \/ \E s \in Peered : GetOrCreateSession(s) \/ RestoreSession(s) \/ RemoveSession(s)
  \/ ClearSessions

\* Go runs its goroutines, and a read ends with its deadline.
SSFairness ==
  /\ \A c \in Conns : WF_socketVars(CountConn(c)) /\ WF_socketVars(over /\ CloseConn(c))
  /\ WF_socketVars(CancelServer) /\ WF_socketVars(ShutdownEnds)

SSSpec == SSInit /\ [][SSNext]_socketVars /\ SSFairness

-----------------------------------------------------------------------------
\* A line is answered once or lost, and lost only with its connection; and the cache holds no
\* more sessions than it may.
SocketIsSound ==
  /\ \A c \in Conns :
       LET t == tally[c]
       IN /\ t.sent = t.answered + t.lost + Len(toServer[c])
                        + Cardinality({r \in requests : r[1] = c})
          /\ link[c] # "closed" => t.lost = 0
  /\ Cardinality(Sessions) <= MaxSize

\* No request is started once Shutdown has returned.
ShutdownIsFinal ==
  [][shutdown = "done" => requests' \subseteq requests]_socketVars

\* Shutdown returns although clients stay connected and are silent.
ShutdownEndsIt == (shutdown = "cancel") ~> (shutdown = "done")
=============================================================================
