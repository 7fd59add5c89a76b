--------------------------------- MODULE Serve ---------------------------------
(***************************************************************************)
(* The listener of `serve': the accept loop with its semaphore of          *)
(* connections, the read loop of each connection with its semaphore of     *)
(* requests, the goroutines that answer them over one locked writer, the   *)
(* end of a connection and the signal handler that ends the process.       *)
(*                                                                         *)
(* What happens to a request between the two is RequestPipeline.           *)
(***************************************************************************)
EXTENDS Naturals, Sequences, FiniteSets

CONSTANTS Clients,
          MaxConnections,     \* --max-connections
          MaxInflight         \* --max-inflight-per-conn

ASSUME ServeAssumption == MaxConnections \in Nat \ {0} /\ MaxInflight \in Nat \ {0}

VARIABLES
  listener,    \* "open", "closed"
  accepting,   \* the accept loop: "acquire", "accept", "parked"
  slots,       \* how many slots of connSem are taken
  backlog,     \* the connections that the kernel holds
  conn,        \* the connections that are served
  peer,        \* the other end: "away", "talks", "deaf" (reads nothing), "gone"
  stopping     \* the signal handler: "no", "listener", "pools", "exited"

serveVars == <<listener, accepting, slots, backlog, conn, peer, stopping>>
acceptVars == <<listener, accepting, slots, backlog, stopping>>

None == [pc |-> "none"]
Fresh == [pc |-> "reading", work |-> 0, write |-> 0, owed |-> 0]

Runs == stopping # "exited"

SVInit == /\ listener = "open" /\ accepting = "acquire" /\ slots = 0
          /\ backlog = <<>> /\ conn = [c \in Clients |-> None]
          /\ peer = [c \in Clients |-> "away"] /\ stopping = "no"

-----------------------------------------------------------------------------
(* The clients.                                                             *)

Call(c) == /\ peer[c] = "away" /\ conn[c].pc = "none" /\ listener = "open"
           /\ peer' = [peer EXCEPT ![c] = "talks"]
           /\ backlog' = Append(backlog, c)
           /\ UNCHANGED <<listener, accepting, slots, conn, stopping>>

\* A client stops reading, reads again, or closes its end.
Behave(c) == /\ \/ peer[c] = "talks" /\ \E b \in {"deaf", "gone"} : peer' = [peer EXCEPT ![c] = b]
                \/ peer[c] = "deaf" /\ \E b \in {"talks", "gone"} : peer' = [peer EXCEPT ![c] = b]
             /\ UNCHANGED <<acceptVars, conn>>

-----------------------------------------------------------------------------
(* The accept loop.                                                         *)

Acquire == /\ Runs /\ accepting = "acquire" /\ slots < MaxConnections
           /\ slots' = slots + 1 /\ accepting' = "accept"
           /\ UNCHANGED <<listener, backlog, conn, peer, stopping>>

Accept == /\ Runs /\ accepting = "accept" /\ backlog # <<>> /\ listener = "open"
          /\ conn' = [conn EXCEPT ![Head(backlog)] = Fresh]
          /\ backlog' = Tail(backlog)
          /\ accepting' = "acquire"
          /\ UNCHANGED <<listener, slots, peer, stopping>>

\* An error of Accept gives the slot back: the loop goes on after a delay,
AcceptFails == /\ Runs /\ accepting = "accept" /\ listener = "open"
               /\ slots' = slots - 1 /\ accepting' = "acquire"
               /\ UNCHANGED <<listener, backlog, conn, peer, stopping>>

\* or parks, when the listener has been closed.
Park == /\ Runs /\ accepting = "accept" /\ listener = "closed"
        /\ slots' = slots - 1 /\ accepting' = "parked"
        /\ UNCHANGED <<listener, backlog, conn, peer, stopping>>

-----------------------------------------------------------------------------
(* One connection.                                                          *)

\* The read loop has a line; `owed' counts the lines that are not answered.
TakeInput(c) ==
  /\ Runs /\ conn[c].pc = "reading" /\ peer[c] \in {"talks", "deaf"}
  /\ conn' = [conn EXCEPT ![c].pc = "holding", ![c].owed = @ + 1]
  /\ UNCHANGED <<acceptVars, peer>>

\* sem <- struct{}{}: the goroutine of the line starts when there is room.
StartLine(c) ==
  /\ Runs /\ conn[c].pc = "holding" /\ conn[c].work + conn[c].write < MaxInflight
  /\ conn' = [conn EXCEPT ![c].pc = "reading", ![c].work = @ + 1]
  /\ UNCHANGED <<acceptVars, peer>>

\* The request has its answer, which waits for the writer.
FinishLine(c) ==
  /\ Runs /\ conn[c].pc # "none" /\ conn[c].work > 0
  /\ conn' = [conn EXCEPT ![c].work = @ - 1, ![c].write = @ + 1]
  /\ UNCHANGED <<acceptVars, peer>>

\* Mutant: the goroutine of a line that could not be written keeps its place.
WriteLineLeaks(c) ==
  /\ Runs /\ conn[c].pc # "none" /\ conn[c].write > 0 /\ peer[c] = "talks"
  /\ conn' = [conn EXCEPT ![c].write = @ - 1, ![c].owed = @ - 1]
  /\ UNCHANGED <<acceptVars, peer>>

\* writeLineLocked returns once the client has read, or when it is gone.
WriteLine(c) ==
  /\ Runs /\ conn[c].pc # "none" /\ conn[c].write > 0 /\ peer[c] # "deaf"
  /\ conn' = [conn EXCEPT ![c].write = @ - 1, ![c].owed = @ - 1]
  /\ UNCHANGED <<acceptVars, peer>>

\* The read loop ends at the end of the input, on an error, when the client has been silent
\* for too long, or at a line that is too long, which is answered first.
StopReading(c) ==
  /\ Runs /\ conn[c].pc = "reading"
  /\ \/ conn' = [conn EXCEPT ![c].pc = "draining"]
     \/ /\ peer[c] # "gone"
        /\ conn' = [conn EXCEPT ![c].pc = "draining", ![c].write = @ + 1, ![c].owed = @ + 1]
  /\ UNCHANGED <<acceptVars, peer>>

\* Mutant: handleConnection does not wait for its goroutines.
CloseAtOnce(c) ==
  /\ Runs /\ conn[c].pc = "draining"
  /\ conn' = [conn EXCEPT ![c] = None]
  /\ peer' = [peer EXCEPT ![c] = "away"]
  /\ slots' = slots - 1
  /\ UNCHANGED <<listener, accepting, backlog, stopping>>

\* wg.Wait, then the connection is closed and its slot given back.
CloseConnection(c) ==
  /\ Runs /\ conn[c].pc = "draining" /\ conn[c].work = 0 /\ conn[c].write = 0
  /\ conn' = [conn EXCEPT ![c] = None]
  /\ peer' = [peer EXCEPT ![c] = "away"]
  /\ slots' = slots - 1
  /\ UNCHANGED <<listener, accepting, backlog, stopping>>

-----------------------------------------------------------------------------
(* The signal handler.                                                      *)

\* The first SIGINT or SIGTERM: the health checker is stopped, the status file removed,
Signal == /\ stopping = "no" /\ stopping' = "listener"
          /\ UNCHANGED <<listener, accepting, slots, backlog, conn, peer>>
\* the listener is closed, and the connections that nobody accepted with it,
CloseListener == /\ stopping = "listener" /\ stopping' = "pools"
                 /\ listener' = "closed" /\ backlog' = <<>>
                 /\ peer' = [c \in Clients |-> IF \E i \in DOMAIN backlog : backlog[i] = c
                                                 THEN "away" ELSE peer[c]]
                 /\ UNCHANGED <<accepting, slots, conn>>
\* the pools are closed and the process exits, whatever the connections are doing.
Exit == /\ stopping = "pools" /\ stopping' = "exited"
        /\ UNCHANGED <<listener, accepting, slots, backlog, conn, peer>>

SVNext == \/ \E c \in Clients : \/ Call(c) \/ Behave(c) \/ TakeInput(c) \/ StartLine(c)
                                \/ FinishLine(c) \/ WriteLine(c) \/ StopReading(c)
                                \/ CloseConnection(c)
          \/ Acquire \/ Accept \/ AcceptFails \/ Park \/ Signal \/ CloseListener \/ Exit

\* A read ends when the client is gone, requests end because every call of the pools does, and
\* the handler of the signal goes on.  A client may stay for ever.
SVFairness ==
  /\ \A c \in Clients : /\ WF_serveVars(StartLine(c)) /\ WF_serveVars(FinishLine(c))
                        /\ WF_serveVars(WriteLine(c)) /\ WF_serveVars(CloseConnection(c))
                        /\ WF_serveVars(StopReading(c) /\ peer[c] = "gone")
  /\ WF_serveVars(CloseListener) /\ WF_serveVars(Exit)

SVSpec == SVInit /\ [][SVNext]_serveVars /\ SVFairness

-----------------------------------------------------------------------------
\* connSem counts the connections that are served and the one the loop is about to accept:
\* none is forgotten by an error, and there are never more of them than allowed.
SlotsAreExact ==
  /\ slots = Cardinality({c \in Clients : conn[c].pc # "none"})
               + (IF accepting = "accept" THEN 1 ELSE 0)
  /\ slots <= MaxConnections

\* However a connection ends while the process runs, every line read from it has been
\* answered by then, or its client had gone.
AnsweredBeforeClose ==
  [][\A c \in Clients : conn[c].pc # "none" /\ conn'[c].pc = "none"
        => conn[c].owed = 0 \/ peer[c] = "gone"]_serveVars

\* A client that goes away gives its slot back, however many of its requests are under way
\* and whoever waits for the writer; and a signal ends the process.
SlotsComeBack == \A c \in Clients : conn[c].pc # "none" /\ peer[c] = "gone"
                                      ~> conn[c].pc = "none" \/ stopping = "exited"
SignalsEnd == stopping = "listener" ~> stopping = "exited"
=============================================================================
