---------------------------- MODULE ServerProcesses ----------------------------
(***************************************************************************)
(* The processes of pkg/registry/lifecycle.go: a table from the id of a    *)
(* server to its process, Start, Stop, Kill and Restart, the goroutine     *)
(* that waits for each process, and the reaper.                            *)
(*                                                                         *)
(* Stop and Kill look the process up under the lock and signal it without; *)
(* Kill and the goroutines delete by id, whatever has the id by then.      *)
(***************************************************************************)
EXTENDS Naturals, FiniteSets

CONSTANTS ServerIds, Operators,
          MaxProcesses    \* bound: processes that are ever started

ASSUME ProcessesAssumption == MaxProcesses \in Nat

Processes == 1 .. MaxProcesses
NoProcess == 0

VARIABLES
  entryOf,   \* servers: the process of each id, or NoProcess
  process,   \* [id, state]: "new", "running", "exited", "waited" (by waitForExit, which is
             \* about to take the lock) and "gone"
  started,   \* how many processes have been started
  operator,  \* what each caller is in the middle of
  killed,    \* the ids whose process has been killed
  stopping   \* whether Close has been called, and the reaper has returned

procVars == <<entryOf, process, started, operator, killed, stopping>>

NoOperation == [step |-> "idle"]

PRInit == /\ entryOf = [i \in ServerIds |-> NoProcess]
          /\ process = [n \in Processes |-> [id |-> "", state |-> "new"]]
          /\ started = 0 /\ operator = [c \in Operators |-> NoOperation]
          /\ killed = {} /\ stopping = FALSE

Ended(c) == operator' = [operator EXCEPT ![c] = NoOperation]

\* Start, all of it under the lock: the id is taken, the command cannot be started, or there
\* is a new process.
StartProcess(i) ==
  \/ UNCHANGED <<entryOf, process, started>>
  \/ /\ entryOf[i] = NoProcess /\ started < MaxProcesses
     /\ started' = started + 1
     /\ process' = [process EXCEPT ![started + 1] = [id |-> i, state |-> "running"]]
     /\ entryOf' = [entryOf EXCEPT ![i] = started + 1]

StartServer(c) ==
  /\ operator[c].step = "idle"
  /\ \E i \in ServerIds : StartProcess(i)
  /\ UNCHANGED <<operator, killed, stopping>>

\* A process ends by itself, by a signal, or with the context it was started with.
ProcessEnds(n) ==
  /\ process[n].state = "running"
  /\ process' = [process EXCEPT ![n].state = "exited"]
  /\ UNCHANGED <<entryOf, started, operator, killed, stopping>>

\* waitForExit: Wait returns, and then the entry of the id is deleted.
ProcessIsWaited(n) ==
  /\ process[n].state = "exited"
  /\ process' = [process EXCEPT ![n].state = "waited"]
  /\ UNCHANGED <<entryOf, started, operator, killed, stopping>>
WaitForExit(n) ==
  /\ process[n].state = "waited"
  /\ process' = [process EXCEPT ![n].state = "gone"]
  /\ entryOf' = [entryOf EXCEPT ![process[n].id] = NoProcess]
  /\ UNCHANGED <<started, operator, killed, stopping>>

-----------------------------------------------------------------------------
(* Stop, Kill and Restart.                                                  *)

\* What there is under the id, if anything.
LookUp(c) ==
  /\ operator[c].step = "idle"
  /\ \E op \in {"stop", "kill", "restart"}, i \in ServerIds :
       /\ entryOf[i] # NoProcess
       /\ operator' = [operator EXCEPT ![c] =
            [step |-> IF op = "restart" THEN "stop" ELSE "signal", op |-> op, id |-> i,
             process |-> entryOf[i]]]
  /\ UNCHANGED <<entryOf, process, started, killed, stopping>>

\* Restart calls Stop, which looks again and may find nothing, or another process.
LookUpAgain(c) ==
  /\ operator[c].step = "stop"
  /\ LET n == entryOf[operator[c].id]
     IN operator' = [operator EXCEPT ![c].process = n,
                                     ![c].step = IF n = NoProcess THEN "start" ELSE "signal"]
  /\ UNCHANGED <<entryOf, process, started, killed, stopping>>

Running(c) == process[operator[c].process].state \in {"running", "exited"}

\* SIGTERM may be ignored; a process that has been waited for cannot be signalled.
Terminate(c) ==
  /\ operator[c].step = "signal" /\ operator[c].op # "kill"
  /\ process' \in {process, IF Running(c)
                              THEN [process EXCEPT ![operator[c].process].state = "exited"]
                              ELSE process}
  /\ IF operator[c].op = "restart"
       THEN operator' = [operator EXCEPT ![c].step = "start"] ELSE Ended(c)
  /\ UNCHANGED <<entryOf, started, killed, stopping>>

\* Mutant: the entry is deleted although the process could not be signalled.
KillAnyway(c) ==
  /\ operator[c].step = "signal" /\ operator[c].op = "kill"
  /\ process' = IF Running(c) THEN [process EXCEPT ![operator[c].process].state = "exited"]
                              ELSE process
  /\ operator' = [operator EXCEPT ![c].step = "delete"]
  /\ killed' = IF Running(c) THEN killed \cup {operator[c].id} ELSE killed
  /\ UNCHANGED <<entryOf, started, stopping>>

Kill(c) ==
  /\ operator[c].step = "signal" /\ operator[c].op = "kill"
  /\ IF Running(c)
       THEN /\ process' = [process EXCEPT ![operator[c].process].state = "exited"]
            /\ operator' = [operator EXCEPT ![c].step = "delete"]
            /\ killed' = killed \cup {operator[c].id}
       ELSE Ended(c) /\ UNCHANGED <<process, killed>>
  /\ UNCHANGED <<entryOf, started, stopping>>

DeleteKilled(c) ==
  /\ operator[c].step = "delete"
  /\ entryOf' = [entryOf EXCEPT ![operator[c].id] = NoProcess]
  /\ Ended(c)
  /\ UNCHANGED <<process, started, killed, stopping>>

\* Restart starts after 100 ms, whether or not the process has gone by then.
StartAgain(c) ==
  /\ operator[c].step = "start"
  /\ StartProcess(operator[c].id) /\ Ended(c)
  /\ UNCHANGED <<killed, stopping>>

\* Reap looks for entries whose process has been waited for; waitForExit, which sets that
\* state, deletes the entry under the same lock, so it finds none.
Reap ==
  /\ ~ stopping
  /\ entryOf' = [i \in ServerIds |-> IF entryOf[i] # NoProcess
                                          /\ process[entryOf[i]].state = "gone"
                                       THEN NoProcess ELSE entryOf[i]]
  /\ UNCHANGED <<process, started, operator, killed, stopping>>

\* Close ends the reaper and nothing else.
CloseManager == /\ ~ stopping /\ stopping' = TRUE
                /\ UNCHANGED <<entryOf, process, started, operator, killed>>

PRNext ==
  \/ \E n \in Processes : ProcessEnds(n) \/ ProcessIsWaited(n) \/ WaitForExit(n)
  \/ \E c \in Operators : \/ StartServer(c) \/ LookUp(c) \/ LookUpAgain(c) \/ Terminate(c)
                          \/ Kill(c) \/ DeleteKilled(c) \/ StartAgain(c)
  \/ Reap \/ CloseManager

PRSpec == PRInit /\ [][PRNext]_procVars

-----------------------------------------------------------------------------
\* A process that runs can be found and stopped, and an id has one process at the most, as
\* long as none of that id was killed: however many restarts, stops and starts overlap, the
\* entry of a process stays until it has been waited for.  The reaper never finds anything.
ProcessesAreKnown ==
  /\ \A n \in Processes :
       process[n].state = "running" => entryOf[process[n].id] = n \/ process[n].id \in killed
  /\ \A i \in ServerIds : entryOf[i] # NoProcess => process[entryOf[i]].state # "gone"

\* A process that runs can be found.
NoStrayProcess ==
  \A n \in Processes : process[n].state = "running" => entryOf[process[n].id] = n
=============================================================================
