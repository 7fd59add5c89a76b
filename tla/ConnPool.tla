------------------------------ MODULE ConnPool ------------------------------
(***************************************************************************)
(* pkg/connpool/pool.go: the connections to one server, its ServerPool and *)
(* the registration of the server in the ConnectionPool.  Each lock is     *)
(* held for one look or one change, so a call goes through many steps; it  *)
(* keeps the ServerPool it looked up, although the server may have been    *)
(* unregistered, and even registered again, since then.                    *)
(*                                                                         *)
(* Connections are taken from Conns and taken again when they are closed   *)
(* and nothing refers to them.                                             *)
(***************************************************************************)
EXTENDS Naturals, FiniteSets, Sequences

CONSTANTS Users, Conns, MaxSize, NoConn

ASSUME ConnPoolAssumption == MaxSize \in Nat \ {0} /\ NoConn \notin Conns

VARIABLES open,       \* the server is registered; its ServerPool is not closed
          available,  \* the channel of idle connections
          active,     \* the connections counted as in use
          client,     \* each connection's client: "none", "open" or "closed"
          healthy,    \* ... and its flag
          old,        \* connections of a ServerPool that has been closed
          at,         \* where each user is
          current,    \* is the ServerPool it works with the present one?
          conn        \* the connection it has

connVars == <<open, available, active, client, healthy, old, at, current, conn>>

Places == {"out", "get", "count", "create", "add", "wait", "use", "return", "remove", "put"}
CNTypeOK == /\ open \in BOOLEAN /\ available \in Seq(Conns) /\ Len(available) <= MaxSize
            /\ active \subseteq Conns /\ old \subseteq Conns
            /\ client \in [Conns -> {"none", "open", "closed"}] /\ healthy \in [Conns -> BOOLEAN]
            /\ at \in [Users -> Places] /\ current \in [Users -> BOOLEAN]
            /\ conn \in [Users -> Conns \cup {NoConn}]

CNInit == /\ open = TRUE /\ available = <<>> /\ active = {} /\ old = {}
          /\ client = [k \in Conns |-> "none"] /\ healthy = [k \in Conns |-> TRUE]
          /\ at = [u \in Users |-> "out"] /\ current = [u \in Users |-> FALSE]
          /\ conn = [u \in Users |-> NoConn]

Idle == {available[i] : i \in DOMAIN available}
Held == {conn[u] : u \in Users} \ {NoConn}
Unused == Conns \ (Idle \cup active \cup Held)

Goes(u, here, there) == at[u] = here /\ at' = [at EXCEPT ![u] = there]
Drops(u) == conn' = [conn EXCEPT ![u] = NoConn]
CloseClient(ks) == client' = [k \in Conns |-> IF k \in ks THEN "closed" ELSE client[k]]

-----------------------------------------------------------------------------
\* ConnectionPool.GetClient looks the server up ...
Lookup(u) == /\ open /\ Goes(u, "out", "get") /\ current' = [current EXCEPT ![u] = TRUE]
             /\ UNCHANGED <<open, available, active, client, healthy, old, conn>>

\* What a receive on the channel gives: an error from a closed pool, a connection,
\* or, when its connection is not healthy, what `Else' does next.
Received(u, here, Else) ==
  \/ ~current[u] /\ Goes(u, here, "out") /\ UNCHANGED <<available, client, conn>>
  \/ /\ current[u] /\ available # <<>> /\ available' = Tail(available)
     /\ IF healthy[Head(available)]
        THEN /\ Goes(u, here, "add") /\ conn' = [conn EXCEPT ![u] = Head(available)]
             /\ UNCHANGED client
        ELSE Goes(u, here, Else) /\ CloseClient({Head(available)}) /\ UNCHANGED conn

\* ... and ServerPool.GetClient takes an idle connection, or counts those in use ...
GetClient(u) == /\ \/ Received(u, "get", "wait")
                   \/ /\ current[u] /\ available = <<>> /\ Goes(u, "get", "count")
                      /\ UNCHANGED <<available, client, conn>>
                /\ UNCHANGED <<open, active, healthy, old, current>>
InUse(u) == IF current[u] THEN Cardinality(active) ELSE 0
Count(u) == /\ Goes(u, "count", IF InUse(u) < MaxSize THEN "create" ELSE "wait")
            /\ UNCHANGED <<open, available, active, client, healthy, old, current, conn>>

\* ... to create one, with no lock held, or to wait.
CreateNewClient(u) == /\ \/ /\ Goes(u, "create", "add")
                            /\ \E k \in Unused : /\ client' = [client EXCEPT ![k] = "open"]
                                                 /\ healthy' = [healthy EXCEPT ![k] = TRUE]
                                                 /\ old' = old \ {k} /\ conn' = [conn EXCEPT ![u] = k]
                         \/ Goes(u, "create", "out") /\ UNCHANGED <<client, healthy, old, conn>>
                      /\ UNCHANGED <<open, available, active, current>>
WaitForClient(u) == Received(u, "wait", "count") /\ UNCHANGED <<open, active, healthy, old, current>>
WaitTimeout(u) == /\ Goes(u, "wait", "out")
                  /\ UNCHANGED <<open, available, active, client, healthy, old, current, conn>>
Add(u) == /\ Goes(u, "add", "use")
          /\ active' = IF current[u] THEN active \cup {conn[u]} ELSE active
          /\ UNCHANGED <<open, available, client, healthy, old, current, conn>>

\* SendToolRequest: a call that fails leaves the connection unhealthy.
Call(u) == /\ Goes(u, "use", "return")
           /\ \E ok \in BOOLEAN : healthy' = [healthy EXCEPT ![conn[u]] = @ /\ ok]
           /\ UNCHANGED <<open, available, active, client, old, current, conn>>

\* ConnectionPool.ReturnClient goes to the pool that has the name now.
ReturnClient(u) == /\ IF open
                      THEN /\ Goes(u, "return", "remove") /\ current' = [current EXCEPT ![u] = TRUE]
                           /\ UNCHANGED <<client, conn>>
                      ELSE /\ Goes(u, "return", "out") /\ CloseClient({conn[u]}) /\ Drops(u)
                           /\ UNCHANGED current
                   /\ UNCHANGED <<open, available, active, healthy, old>>
Unlist(u) == /\ at[u] = "remove"
             /\ active' = IF current[u] THEN active \ {conn[u]} ELSE active
             /\ IF current[u] /\ healthy[conn[u]]
                THEN Goes(u, "remove", "put") /\ UNCHANGED <<client, conn>>
                ELSE Goes(u, "remove", "out") /\ CloseClient({conn[u]}) /\ Drops(u)
             /\ UNCHANGED <<open, available, healthy, old, current>>
\* Mutant: the pool is not asked again whether it is closed.
PutUnchecked(u) == /\ Goes(u, "put", "out") /\ Drops(u)
                   /\ available' = IF current[u] /\ Len(available) < MaxSize
                                   THEN Append(available, conn[u]) ELSE available
                   /\ UNCHANGED <<open, active, client, healthy, old, current>>
\* ... it is idle again, unless the pool was closed meanwhile or has enough of them.
Put(u) == /\ Goes(u, "put", "out") /\ Drops(u)
          /\ IF current[u] /\ Len(available) < MaxSize
             THEN available' = Append(available, conn[u]) /\ UNCHANGED client
             ELSE CloseClient({conn[u]}) /\ UNCHANGED available
          /\ UNCHANGED <<open, active, healthy, old, current>>

\* UnregisterServer, or Close: the idle connections and those in use are closed.
UnregisterServer == /\ open /\ open' = FALSE
                    /\ CloseClient(Idle \cup active)
                    /\ available' = <<>> /\ active' = {}
                    /\ old' = old \cup Idle \cup active \cup Held
                    /\ current' = [u \in Users |-> FALSE]
                    /\ UNCHANGED <<healthy, at, conn>>
RegisterServer == /\ ~open /\ open' = TRUE
                  /\ UNCHANGED <<available, active, client, healthy, old, at, current, conn>>

UserStep(u) == \/ GetClient(u) \/ Count(u) \/ CreateNewClient(u) \/ WaitForClient(u) \/ Add(u)
               \/ Call(u) \/ ReturnClient(u) \/ Unlist(u) \/ Put(u)
CNNext == \/ \E u \in Users : Lookup(u) \/ UserStep(u) \/ WaitTimeout(u)
          \/ UnregisterServer \/ RegisterServer
CNSpec == CNInit /\ [][CNNext]_connVars

\* What a user has begun goes on; the timer of the wait is left out on purpose.
CNFairness == \A u \in Users : WF_connVars(UserStep(u))

-----------------------------------------------------------------------------
\* An idle connection is healthy, is idle once, and nobody has it; its client is open,
\* unless the connection belongs to an earlier registration of the server, whose end
\* closed it while it was out.
IdleIsUsable ==
  /\ Cardinality(Idle) = Len(available)
  /\ Idle \cap (Held \cup active) = {}
  /\ \A k \in Idle : healthy[k] /\ (client[k] = "open" \/ k \in old)

\* No connection has two users; a client is closed under its user only by the end of
\* its pool; and there is no open client that is neither idle nor with somebody who
\* will return it, however closing the pool, creating and returning overlap.
ClientsAreAccountedFor ==
  /\ \A u, v \in Users : u # v /\ conn[u] = conn[v] => conn[u] = NoConn
  /\ \A k \in Held : client[k] = "open" \/ k \in old
  /\ \A k \in Conns : client[k] = "open" => k \in Idle \cup Held
  /\ active \subseteq Held

\* The two together: what closing, creating, using and returning connections may not break.
ConnectionsAreSound == IdleIsUsable /\ ClientsAreAccountedFor

\* Users that wait for a connection hear that the pool was closed: they do not sit
\* there until their timers fire.
CloseWakesWaiters == \A u \in Users : at[u] = "wait" /\ ~current[u] ~> at[u] # "wait"

\* With nobody holding, creating or returning a connection, nobody waits for one.
NobodyWaitsAlone == ~ \E u \in Users : /\ at[u] = "wait" /\ current[u] /\ available = <<>>
                                       /\ \A v \in Users \ {u} : at[v] = "out"
=============================================================================
