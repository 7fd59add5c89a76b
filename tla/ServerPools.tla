------------------------------ MODULE ServerPools ------------------------------
(***************************************************************************)
(* The pools of `serve': StdioPool with its table of subprocesses, the     *)
(* tables of HTTPClientPool and SSEPool, and UnifiedPool in front of the   *)
(* three, which looks for the pool that has a server or tries one after    *)
(* the other.                                                              *)
(*                                                                         *)
(* What a server does on the inside is in StdioServer, StdioRequests and   *)
(* RemoteServer; here it is up, down or stopped.  A configuration is       *)
(* started once, and two configurations may bear one name.                 *)
(***************************************************************************)
EXTENDS Naturals, Sequences, FiniteSets

CONSTANTS Configs, NameOf, KindOf,    \* what is configured
          PoolCallers,
          NoServer

Pools == <<"stdio", "http", "sse">>
PoolKinds == {"stdio", "http", "sse"}

ASSUME PoolsAssumption ==
  NoServer \notin Configs /\ KindOf \in [Configs -> PoolKinds] /\ DOMAIN NameOf = Configs

PoolNames == {NameOf[s] : s \in Configs}

VARIABLES
  start,     \* StartServer of each configuration
  starting,  \* the names with a spawn in flight
  server,    \* "none", "up", "down" (it may recover), "stopped"
  table,     \* which server each pool has under a name
  limiter,   \* the rate limiter made for each server: "none", "open", "closed"
  closing,   \* which of the pools are closed, and whether Close has begun
  call       \* the calls under way in UnifiedPool

poolsVars == <<start, starting, server, table, limiter, closing, call>>
tableVars == <<start, starting, server, table, limiter, closing>>

NoCall == [step |-> "idle"]

SPInit ==
  /\ start = [s \in Configs |-> "before"] /\ starting = {}
  /\ server = [s \in Configs |-> "none"] /\ limiter = [s \in Configs |-> "none"]
  /\ table = [k \in PoolKinds |-> [n \in PoolNames |-> NoServer]]
  /\ closing = {} /\ call = [c \in PoolCallers |-> NoCall]

Has(k, n) == table[k][n] # NoServer
HealthyIn(k, n) == Has(k, n) /\ server[table[k][n]] = "up"

-----------------------------------------------------------------------------
(* Servers.                                                                 *)

\* StdioPool.StartServer reserves the name, unless it is healthy or already starting.
Reserve(s) ==
  /\ KindOf[s] = "stdio" /\ start[s] = "before"
  /\ IF HealthyIn("stdio", NameOf[s]) \/ NameOf[s] \in starting
       THEN start' = [start EXCEPT ![s] = "done"] /\ UNCHANGED starting
       ELSE start' = [start EXCEPT ![s] = "spawn"] /\ starting' = starting \cup {NameOf[s]}
  /\ UNCHANGED <<server, table, limiter, closing, call>>

\* The process is spawned outside the lock, or it cannot be.
SpawnServer(s) ==
  /\ start[s] = "spawn"
  /\ \/ /\ server' = [server EXCEPT ![s] = "up"]
        /\ start' = [start EXCEPT ![s] = "register"]
        /\ UNCHANGED starting
     \/ /\ start' = [start EXCEPT ![s] = "done"] /\ starting' = starting \ {NameOf[s]}
        /\ UNCHANGED server
  /\ UNCHANGED <<table, limiter, closing, call>>

\* Whatever has the name by now is replaced, and its limiter with it.
RegisterServer(s) ==
  /\ start[s] = "register"
  /\ table' = [table EXCEPT !["stdio"][NameOf[s]] = s]
  /\ limiter' = [limiter EXCEPT ![s] = "open"]
  /\ start' = [start EXCEPT ![s] = "done"] /\ starting' = starting \ {NameOf[s]}
  /\ UNCHANGED <<server, closing, call>>

\* The remote pools take the first server of a name, which connects in the background.
StartRemote(s) ==
  /\ KindOf[s] # "stdio" /\ start[s] = "before"
  /\ start' = [start EXCEPT ![s] = "done"]
  /\ IF Has(KindOf[s], NameOf[s])
       THEN UNCHANGED <<table, server>>
       ELSE /\ table' = [table EXCEPT ![KindOf[s]][NameOf[s]] = s]
            /\ server' = [server EXCEPT ![s] = "down"]
  /\ UNCHANGED <<starting, limiter, closing, call>>

\* A server fails, or is respawned or reconnected by its own timer.
Fails(s) == /\ server[s] = "up" /\ server' = [server EXCEPT ![s] = "down"]
            /\ UNCHANGED <<start, starting, table, limiter, closing, call>>
Recovers(s) == /\ server[s] = "down" /\ server' = [server EXCEPT ![s] = "up"]
               /\ UNCHANGED <<start, starting, table, limiter, closing, call>>

\* Close stops what the pool has, closes the limiters and empties the table; StdioPool is
\* closed first and SSEPool last.
ClosePool(k) ==
  /\ k \notin closing /\ (k = "http" => "stdio" \in closing) /\ (k = "sse" => "http" \in closing)
  /\ closing' = closing \cup {k}
  /\ LET mine == {table[k][n] : n \in PoolNames} \ {NoServer}
     IN /\ server' = [s \in Configs |-> IF s \in mine THEN "stopped" ELSE server[s]]
        /\ limiter' = [s \in Configs |-> IF s \in mine /\ limiter[s] = "open"
                                           THEN "closed" ELSE limiter[s]]
  /\ table' = [table EXCEPT ![k] = [n \in PoolNames |-> NoServer]]
  /\ UNCHANGED <<start, starting, call>>

-----------------------------------------------------------------------------
(* UnifiedPool.  `ran' is the set of the servers that took the request.     *)

\* SendRequestToServer looks for the pool first; SendRequest, RestartServer and
\* SendServerNotification try them one after the other.
Operations == {"sendTo", "send", "restart", "notify"}
Sends(c) == call[c].op \in {"sendTo", "send"}

BeginCall(c) ==
  /\ call[c].step = "idle"
  /\ \E op \in Operations, n \in PoolNames :
       call' = [call EXCEPT ![c] = [step |-> IF op = "sendTo" THEN "look" ELSE "ask",
                                    op |-> op, name |-> n, at |-> 1, ran |-> {}]]
  /\ UNCHANGED tableVars

\* The answer is read by the one who asked.
EndCall(c) == /\ call[c].step = "over"
              /\ call' = [call EXCEPT ![c] = NoCall]
              /\ UNCHANGED tableVars

Here(c) == Pools[call[c].at]
Found(c) == Has(Here(c), call[c].name)
Asked(c) == table[Here(c)][call[c].name]

Over(c, how, ran) ==
  call' = [call EXCEPT ![c] = [step |-> "over", op |-> @.op, how |-> how, ran |-> ran]]

GoesOn(c, ran) ==
  call' = [call EXCEPT ![c] = [step |-> IF @.step = "look" THEN "look" ELSE "ask", op |-> @.op,
                               name |-> @.name, at |-> @.at + 1, ran |-> ran]]

\* Mutant: SendRequestToServer goes on to the next pool like the others.
FailedAnyhow(c, ran) ==
  IF call[c].at < Len(Pools)
    THEN GoesOn(c, ran)
    ELSE Over(c, "error", ran)

\* The pool has failed: an operation that tries them in turn forgets why and goes on.
Failed(c, ran) ==
  IF call[c].at < Len(Pools) /\ (call[c].op # "sendTo" \/ call[c].step = "look")
    THEN GoesOn(c, ran)
    ELSE Over(c, "error", ran)

LookFor(c) == /\ call[c].step = "look"
              /\ IF Found(c) THEN call' = [call EXCEPT ![c].step = "ask"] ELSE Failed(c, {})
              /\ UNCHANGED tableVars

\* The pool is asked for the server, under its lock.
TakeServer(c) ==
  /\ call[c].step = "ask" /\ Found(c) /\ (call[c].op = "notify" => Here(c) = "stdio")
  /\ call' = [call EXCEPT ![c] = [step |-> "use", op |-> @.op, name |-> @.name, at |-> @.at,
                                  ran |-> @.ran, server |-> Asked(c)]]
  /\ UNCHANGED tableVars

\* It has no such server (any more); a notification is well received by the remote pools,
\* whatever they have, and goes no further.
NotThere(c) ==
  /\ call[c].step = "ask"
  /\ IF call[c].op = "notify" /\ Here(c) # "stdio"
       THEN Over(c, "done", call[c].ran)
       ELSE ~ Found(c) /\ Failed(c, call[c].ran)
  /\ UNCHANGED tableVars

\* GetOrStartServer restarts a server that is down, ensureConnected connects it, and
\* RestartServer does so in any case; or that fails, as it must once the server is closed.
Revive(c) ==
  /\ call[c].step = "use"
  /\ LET s == call[c].server
     IN /\ (Sends(c) /\ server[s] # "up") \/ call[c].op = "restart"
        /\ \/ /\ server[s] # "stopped" /\ server' = [server EXCEPT ![s] = "up"]
              /\ IF Sends(c) THEN UNCHANGED call ELSE Over(c, "done", {})
           \/ /\ server' = [server EXCEPT ![s] = IF @ = "stopped" THEN @ ELSE "down"]
              /\ Failed(c, call[c].ran)
  /\ UNCHANGED <<start, starting, table, limiter, closing>>

\* PutRequest, CallTool, sendNotification: the limiter, a full queue or a broken pipe keep the
\* request from the server; or it runs, and fails, times out or succeeds.
Send(c) ==
  /\ call[c].step = "use" /\ call[c].op # "restart"
  /\ LET s == call[c].server
         ran == call[c].ran \cup {s}
     IN \/ server[s] # "up" /\ ~ Sends(c) /\ Failed(c, call[c].ran)
        \/ server[s] = "up" /\ (Failed(c, call[c].ran) \/ Failed(c, ran) \/ Over(c, "done", ran))
  /\ UNCHANGED tableVars

SPNext ==
  \/ \E s \in Configs : \/ Reserve(s) \/ SpawnServer(s) \/ RegisterServer(s) \/ StartRemote(s)
                        \/ Fails(s) \/ Recovers(s)
  \/ \E k \in PoolKinds : ClosePool(k)
  \/ \E c \in PoolCallers : \/ BeginCall(c) \/ LookFor(c) \/ TakeServer(c) \/ NotThere(c) \/ Revive(c)
                            \/ Send(c) \/ EndCall(c)

SPSpec == SPInit /\ [][SPNext]_poolsVars

-----------------------------------------------------------------------------
\* A request that SendRequestToServer has routed is run by one server at the most, and never
\* again by another pool, although tables and servers change between the two looks at them;
\* one that SendRequest offers to the pools in turn runs at most once for each pool that has
\* its name.
CallsRunOnce ==
  \A c \in PoolCallers : call[c].step = "over" =>
    /\ call[c].op = "sendTo" => Cardinality(call[c].ran) <= 1
    /\ \A s, t \in call[c].ran : s # t => KindOf[s] # KindOf[t] /\ NameOf[s] = NameOf[t]

\* A table holds servers of its kind under their own name, one spawn at most is in flight for a
\* name, and nothing is admitted by a server that was never started.
TablesAreSound ==
  /\ \A k \in PoolKinds, n \in PoolNames :
       Has(k, n) => KindOf[table[k][n]] = k /\ NameOf[table[k][n]] = n
  /\ \A n \in PoolNames : Cardinality({s \in Configs : start[s] \in {"spawn", "register"}
                                                        /\ NameOf[s] = n}) <= 1
  /\ \A s \in Configs : limiter[s] = "open" => start[s] = "done"

\* A notification that is said to be delivered has reached a server.
NotificationsArrive ==
  \A c \in PoolCallers : call[c].step = "over" /\ call[c].op = "notify" /\ call[c].how = "done"
                           => call[c].ran # {}
=============================================================================
