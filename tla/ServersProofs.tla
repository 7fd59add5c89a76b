---------------------------- MODULE ServersProofs ----------------------------
(***************************************************************************)
(* Proofs about the servers the proxy knows: that every property the run   *)
(* of MCServers checks holds for every number of configurations, callers,  *)
(* identifiers, readers, peers, hosts, commands and tools.  Each part has  *)
(* an inductive invariant of its own, and the last section composes them.  *)
(***************************************************************************)
EXTENDS MCServers, FiniteSetTheorems, WellFoundedInduction, SequenceTheorems, TLAPS

-----------------------------------------------------------------------------
\* Among some subsets of a finite set, one has none of the others within it.
LEMMA SmallestSubset ==
  ASSUME NEW S, IsFiniteSet(S), NEW X \in SUBSET SUBSET S, X # {}
  PROVE  \E s \in X : \A r \in X : r \subseteq s => r = s
<1>1. IsWellFoundedOn(StrictSubsetOrdering(S), SUBSET S)
  BY FS_StrictSubsetOrderingWellFounded, FS_FiniteSubsetsOfFinite
<1>2. PICK s \in X : \A r \in X : ~(<<r, s>> \in StrictSubsetOrdering(S))
  BY <1>1, WFMin
<1>3. \A r \in X : r \subseteq s => r = s
  BY <1>2 DEF StrictSubsetOrdering
<1> QED
  BY <1>2, <1>3

\* A set of numbers with a bound has a largest element.
LEMMA BoundedMaximum ==
  ASSUME NEW bound \in Nat, NEW S \in SUBSET (0 .. bound), S # {}
  PROVE  \E m \in S : \A n \in S : n <= m
<1> DEFINE D == 0 .. bound
           above == {m \in D : \A n \in S : n <= m}
           X == {0 .. m : m \in above}
<1>1. X \in SUBSET SUBSET D /\ X # {}
  <2>1. bound \in above
    OBVIOUS
  <2> QED
    BY <2>1
<1>2. PICK s \in X : \A r \in X : r \subseteq s => r = s
  <2>1. IsFiniteSet(D)
    BY FS_Interval
  <2> HIDE DEF X, D
  <2> QED
    BY ONLY <1>1, <2>1, SmallestSubset
<1>3. PICK m \in above : s = 0 .. m
  BY <1>2
<1>4. m \in S
  <2> SUFFICES ASSUME m \notin S PROVE FALSE
    OBVIOUS
  <2>1. \A n \in S : n \in Nat /\ m \in Nat /\ n <= m /\ n # m
    BY <1>3
  <2>5. PICK n \in S : TRUE
    OBVIOUS
  <2>6. m - 1 \in D /\ \A k \in S : k <= m - 1
    BY <1>3, <2>1, <2>5
  <2>2. m - 1 \in above
    BY <2>6
  <2>3. 0 .. (m - 1) \in X /\ 0 .. (m - 1) \subseteq 0 .. m
    BY <1>3, <2>2
  <2>4. 0 .. (m - 1) = 0 .. m
    BY <1>2, <1>3, <2>3
  <2> QED
    BY <1>3, <2>4
<1> QED
  BY <1>3, <1>4

-----------------------------------------------------------------------------
\* The tables of the pools: who is about to be registered is of the pool's kind and has its name
\* reserved, and nobody else has it reserved.
Spawning(s) == start[s] \in {"spawn", "register"}
PoolTablesInv ==
  /\ start \in [Configs -> {"before", "spawn", "register", "done"}]
  /\ limiter \in [Configs -> {"none", "open", "closed"}]
  /\ table \in [PoolKinds -> [PoolNames -> Configs \cup {NoServer}]]
  /\ server \in [Configs -> {"none", "up", "down", "stopped"}]
  /\ \A k \in PoolKinds, n \in PoolNames :
       table[k][n] # NoServer => KindOf[table[k][n]] = k /\ NameOf[table[k][n]] = n
  /\ \A s \in Configs : Spawning(s) => KindOf[s] = "stdio" /\ NameOf[s] \in starting
  /\ \A s, t \in Configs : Spawning(s) /\ Spawning(t) /\ NameOf[s] = NameOf[t] => s = t
  /\ \A s \in Configs : limiter[s] = "open" => start[s] = "done"

\* The pools begin with empty tables.
LEMMA PoolTablesInitially == SPInit => PoolTablesInv
  BY PoolsAssumption DEF SPInit, PoolTablesInv, Spawning

\* Every step of the pools keeps the tables right: whoever reserves a name finds it free.
LEMMA PoolTablesStep == PoolTablesInv /\ [SPNext]_poolsVars => PoolTablesInv'
<1> SUFFICES ASSUME PoolTablesInv, [SPNext]_poolsVars
             PROVE  PoolTablesInv'
  OBVIOUS
<1> USE PoolsAssumption
<1>0. \A s \in Configs : NameOf[s] \in PoolNames /\ KindOf[s] \in PoolKinds
  BY DEF PoolNames
<1>1. ASSUME NEW s \in Configs, Reserve(s)
      PROVE  PoolTablesInv'
  <2>1. CASE start' = [start EXCEPT ![s] = "done"] /\ UNCHANGED starting
    <3>1. \A t \in Configs : Spawning(t)' => Spawning(t)
      BY <1>1, <2>1 DEF Reserve, PoolTablesInv, Spawning
    <3>2. /\ start' \in [Configs -> {"before", "spawn", "register", "done"}]
          /\ \A t \in Configs : limiter[t] = "open" => start'[t] = "done"
      BY <1>1, <2>1 DEF Reserve, PoolTablesInv
    <3> QED
      BY <1>1, <2>1, <3>1, <3>2 DEF Reserve, PoolTablesInv
  <2>2. CASE /\ NameOf[s] \notin starting
             /\ start' = [start EXCEPT ![s] = "spawn"] /\ starting' = starting \cup {NameOf[s]}
    <3>1. \A t \in Configs : Spawning(t)' => Spawning(t) \/ t = s
      BY <1>1, <2>2 DEF Reserve, PoolTablesInv, Spawning
    <3>2. /\ start' \in [Configs -> {"before", "spawn", "register", "done"}]
          /\ \A t \in Configs : limiter[t] = "open" => start'[t] = "done"
      BY <1>1, <2>2 DEF Reserve, PoolTablesInv
    <3>3. \A t \in Configs : Spawning(t) => NameOf[t] # NameOf[s]
      BY <2>2 DEF PoolTablesInv
    <3> QED
      BY <1>1, <2>2, <3>1, <3>2, <3>3 DEF Reserve, PoolTablesInv
  <2> QED
    BY <1>1, <2>1, <2>2 DEF Reserve
<1>2. ASSUME NEW s \in Configs, SpawnServer(s)
      PROVE  PoolTablesInv'
  <2>1. /\ start' \in [Configs -> {"before", "spawn", "register", "done"}]
        /\ server' \in [Configs -> {"none", "up", "down", "stopped"}]
        /\ \A t \in Configs : limiter[t] = "open" => start'[t] = "done"
    <3>1. /\ start' \in [Configs -> {"before", "spawn", "register", "done"}]
          /\ server' \in [Configs -> {"none", "up", "down", "stopped"}]
      <4>1. /\ start \in [Configs -> {"before", "spawn", "register", "done"}]
            /\ server \in [Configs -> {"none", "up", "down", "stopped"}]
        BY DEF PoolTablesInv
      <4>2. /\ \/ start' = [start EXCEPT ![s] = "register"]
               \/ start' = [start EXCEPT ![s] = "done"]
            /\ server' = server \/ server' = [server EXCEPT ![s] = "up"]
        BY <1>2 DEF SpawnServer
      <4> QED
        BY <4>1, <4>2
    <3>2. /\ start[s] = "spawn"
          /\ \A t \in Configs : t # s => start'[t] = start[t]
      BY <1>2 DEF SpawnServer, PoolTablesInv
    <3> QED
      BY <3>1, <3>2 DEF PoolTablesInv
  <2>2. \/ starting' = starting /\ \A t \in Configs : Spawning(t)' => Spawning(t)
        \/ /\ starting' = starting \ {NameOf[s]}
           /\ \A t \in Configs : Spawning(t)' => Spawning(t) /\ t # s
    BY <1>2 DEF SpawnServer, PoolTablesInv, Spawning
  <2>3. Spawning(s)
    BY <1>2 DEF SpawnServer, Spawning
  <2>4. \A t \in Configs : Spawning(t)' => Spawning(t) /\ NameOf[t] \in starting'
    BY <2>2, <2>3 DEF PoolTablesInv
  <2>5. UNCHANGED <<table, limiter>>
    BY <1>2 DEF SpawnServer
  <2>6. \A t, u \in Configs : Spawning(t)' /\ Spawning(u)' /\ NameOf[t] = NameOf[u] => t = u
    BY <2>4 DEF PoolTablesInv
  <2>7. \A t \in Configs : Spawning(t)' => KindOf[t] = "stdio" /\ NameOf[t] \in starting'
    BY <2>4 DEF PoolTablesInv
  <2> QED
    BY <2>1, <2>5, <2>6, <2>7 DEF PoolTablesInv
<1>3. ASSUME NEW s \in Configs, RegisterServer(s)
      PROVE  PoolTablesInv'
  <2>1. /\ Spawning(s) /\ KindOf[s] = "stdio" /\ NameOf[s] \in PoolNames
        /\ table' = [table EXCEPT !["stdio"] = [table["stdio"] EXCEPT ![NameOf[s]] = s]]
    BY <1>0, <1>3 DEF RegisterServer, PoolTablesInv, Spawning
  <2>2. \A k \in PoolKinds, n \in PoolNames :
          table'[k][n] = IF k = "stdio" /\ n = NameOf[s] THEN s ELSE table[k][n]
    BY <2>1 DEF PoolTablesInv, PoolKinds
  <2>3. table' \in [PoolKinds -> [PoolNames -> Configs \cup {NoServer}]]
    BY <2>1 DEF PoolTablesInv, PoolKinds
  <2>4. \A k \in PoolKinds, n \in PoolNames :
          table'[k][n] # NoServer => KindOf[table'[k][n]] = k /\ NameOf[table'[k][n]] = n
    BY <2>1, <2>2 DEF PoolTablesInv
  <2>5. /\ start' \in [Configs -> {"before", "spawn", "register", "done"}]
        /\ limiter' \in [Configs -> {"none", "open", "closed"}]
        /\ \A t \in Configs : limiter'[t] = "open" => start'[t] = "done"
        /\ \A t \in Configs : Spawning(t)' => Spawning(t) /\ t # s
    BY <1>3 DEF RegisterServer, PoolTablesInv, Spawning
  <2> QED
    BY <1>3, <2>1, <2>3, <2>4, <2>5 DEF RegisterServer, PoolTablesInv
<1>4. ASSUME NEW s \in Configs, StartRemote(s)
      PROVE  PoolTablesInv'
  <2> DEFINE K == KindOf[s]
             N == NameOf[s]
  <2>0. K \in PoolKinds /\ N \in PoolNames
    BY <1>0
  <2>1. \/ UNCHANGED <<table, server>>
        \/ /\ table' = [table EXCEPT ![K] = [table[K] EXCEPT ![N] = s]]
           /\ server' = [server EXCEPT ![s] = "down"]
    BY <1>4 DEF StartRemote
  <2>2. /\ table' \in [PoolKinds -> [PoolNames -> Configs \cup {NoServer}]]
        /\ server' \in [Configs -> {"none", "up", "down", "stopped"}]
    <3>1. /\ table \in [PoolKinds -> [PoolNames -> Configs \cup {NoServer}]]
          /\ server \in [Configs -> {"none", "up", "down", "stopped"}]
      BY DEF PoolTablesInv
    <3>2. table[K] \in [PoolNames -> Configs \cup {NoServer}]
      BY <2>0, <3>1
    <3>3. [table[K] EXCEPT ![N] = s] \in [PoolNames -> Configs \cup {NoServer}]
      BY <2>0, <3>2
    <3>4. [table EXCEPT ![K] = [table[K] EXCEPT ![N] = s]]
            \in [PoolKinds -> [PoolNames -> Configs \cup {NoServer}]]
      BY <2>0, <3>1, <3>3
    <3>5. [server EXCEPT ![s] = "down"] \in [Configs -> {"none", "up", "down", "stopped"}]
      BY <3>1
    <3> QED
      BY <2>1, <3>1, <3>4, <3>5
  <2>3. \A k \in PoolKinds, n \in PoolNames :
          \/ table'[k][n] = table[k][n]
          \/ k = K /\ n = N /\ table'[k][n] = s
    BY <2>0, <2>1 DEF PoolTablesInv
  <2>4. \A k \in PoolKinds, n \in PoolNames :
          table'[k][n] # NoServer => KindOf[table'[k][n]] = k /\ NameOf[table'[k][n]] = n
    BY <2>3 DEF PoolTablesInv
  <2>5. /\ start' \in [Configs -> {"before", "spawn", "register", "done"}]
        /\ \A t \in Configs : limiter[t] = "open" => start'[t] = "done"
        /\ \A t \in Configs : Spawning(t)' => Spawning(t)
    BY <1>4 DEF StartRemote, PoolTablesInv, Spawning
  <2> QED
    BY <1>4, <2>2, <2>4, <2>5 DEF StartRemote, PoolTablesInv
<1>5. ASSUME NEW s \in Configs, Fails(s) \/ Recovers(s)
      PROVE  PoolTablesInv'
  BY <1>5, SMTT(60) DEF Fails, Recovers, PoolTablesInv, Spawning
<1>6. ASSUME NEW k \in PoolKinds, ClosePool(k)
      PROVE  PoolTablesInv'
  <2>1. /\ table' \in [PoolKinds -> [PoolNames -> Configs \cup {NoServer}]]
        /\ \A j \in PoolKinds, n \in PoolNames : table'[j][n] \in {NoServer, table[j][n]}
    BY <1>6 DEF ClosePool, PoolTablesInv
  <2>2. /\ server' \in [Configs -> {"none", "up", "down", "stopped"}]
        /\ limiter' \in [Configs -> {"none", "open", "closed"}]
        /\ \A s \in Configs : limiter'[s] = "open" => limiter[s] = "open"
        /\ UNCHANGED <<start, starting>>
    BY <1>6 DEF ClosePool, PoolTablesInv
  <2>3. \A j \in PoolKinds, n \in PoolNames :
          table'[j][n] # NoServer => KindOf[table'[j][n]] = j /\ NameOf[table'[j][n]] = n
    BY <2>1 DEF PoolTablesInv
  <2> QED
    BY <2>1, <2>2, <2>3 DEF PoolTablesInv, Spawning
<1>7. ASSUME NEW c \in PoolCallers, Revive(c)
      PROVE  PoolTablesInv'
  <2>1. server' \in [Configs -> {"none", "up", "down", "stopped"}]
    BY <1>7 DEF Revive, PoolTablesInv
  <2> QED
    BY <1>7, <2>1 DEF Revive, PoolTablesInv, Spawning
<1>8. ASSUME UNCHANGED tableVars
      PROVE  PoolTablesInv'
  BY <1>8 DEF tableVars, PoolTablesInv, Spawning
<1>9. ASSUME NEW c \in PoolCallers,
             BeginCall(c) \/ LookFor(c) \/ TakeServer(c) \/ NotThere(c) \/ Send(c) \/ EndCall(c)
      PROVE  PoolTablesInv'
  BY <1>8, <1>9 DEF BeginCall, LookFor, TakeServer, NotThere, Send, EndCall
<1>10. CASE UNCHANGED poolsVars
  BY <1>8, <1>10 DEF poolsVars, tableVars
<1> QED
  BY <1>1, <1>2, <1>3, <1>4, <1>5, <1>6, <1>7, <1>9, <1>10 DEF SPNext

\* What the invariant says of the tables is enough for what the run checks.
LEMMA TablesFollow == PoolTablesInv => TablesAreSound
<1> SUFFICES ASSUME PoolTablesInv PROVE TablesAreSound
  OBVIOUS
<1>1. ASSUME NEW n \in PoolNames
      PROVE  Cardinality({s \in Configs : start[s] \in {"spawn", "register"} /\ NameOf[s] = n}) <= 1
  <2> DEFINE X == {s \in Configs : start[s] \in {"spawn", "register"} /\ NameOf[s] = n}
  <2>1. \A s, t \in X : s = t
    BY DEF PoolTablesInv, Spawning
  <2>2. CASE X = {}
    BY <2>2, FS_EmptySet
  <2>3. CASE X # {}
    <3>1. PICK s \in X : X = {s}
      BY <2>1, <2>3
    <3>2. Cardinality({s}) = 1
      BY FS_Singleton
    <3> QED
      BY ONLY <3>1, <3>2
  <2> QED
    BY <2>2, <2>3
<1> QED
  BY <1>1 DEF PoolTablesInv, TablesAreSound, Has

-----------------------------------------------------------------------------
\* The calls of the pools.  The servers that a call has run on so far bear its name, are in pools
\* that it has left behind, and are one for each pool; a routed call has run nowhere before it is over.
Going == [step : {"look", "ask"}, op : Operations, name : PoolNames, at : 1 .. 3, ran : SUBSET Configs]
Using == [step : {"use"}, op : Operations, name : PoolNames, at : 1 .. 3, ran : SUBSET Configs,
          server : Configs]
OverCalls == [step : {"over"}, op : Operations, how : {"done", "error"}, ran : SUBSET Configs]
CallTypes == {NoCall} \cup Going \cup Using \cup OverCalls

Passed(at) == {Pools[i] : i \in 1 .. at - 1}
OneEach(ran) == \A s, t \in ran : s # t => KindOf[s] # KindOf[t] /\ NameOf[s] = NameOf[t]
RanRight(name, kinds, ran) ==
  OneEach(ran) /\ \A s \in ran : NameOf[s] = name /\ KindOf[s] \in kinds
CallRight(r) ==
  /\ r.step \in {"look", "ask", "use"} => /\ RanRight(r.name, Passed(r.at), r.ran)
                                          /\ r.op = "sendTo" => r.ran = {}
  /\ r.step = "look" => r.op = "sendTo"
  /\ r.step = "use" => NameOf[r.server] = r.name /\ KindOf[r.server] = Pools[r.at]
  /\ r.step = "over" => OneEach(r.ran) /\ (r.op = "sendTo" => \E s : r.ran \subseteq {s})
PoolCallsInv == call \in [PoolCallers -> CallTypes] /\ \A c \in PoolCallers : CallRight(call[c])

\* Nobody has called yet.
LEMMA PoolCallsInitially == SPInit => PoolCallsInv
  BY DEF SPInit, PoolCallsInv, CallTypes, CallRight, NoCall

\* One caller changes its call, to one that is right again.
LEMMA OneCallChanges ==
  ASSUME PoolCallsInv, NEW c \in PoolCallers, NEW r \in CallTypes, CallRight(r),
         call' = [call EXCEPT ![c] = r]
  PROVE  PoolCallsInv'
<1>1. call \in [PoolCallers -> CallTypes]
  BY DEF PoolCallsInv
<1>2. call' \in [PoolCallers -> CallTypes]
  BY <1>1
<1>3. \A d \in PoolCallers : call'[d] = IF d = c THEN r ELSE call[d]
  BY <1>1
<1>4. \A d \in PoolCallers : CallRight(call'[d])
  BY <1>3 DEF PoolCallsInv
<1> QED
  BY <1>2, <1>4 DEF PoolCallsInv

\* The three pools, in the order in which a call comes to them, are different.
LEMMA PoolsInOrder ==
  /\ Pools[1] = "stdio" /\ Pools[2] = "http" /\ Pools[3] = "sse"
  /\ \A at \in 1 .. 3 : /\ Pools[at] \notin Passed(at)
                        /\ Passed(at) \cup {Pools[at]} = Passed(at + 1)
                        /\ Pools[at] \in PoolKinds
<1>1. Pools[1] = "stdio" /\ Pools[2] = "http" /\ Pools[3] = "sse"
  BY DEF Pools
<1>2. /\ 1 .. (1 - 1) = {} /\ 1 .. (2 - 1) = {1} /\ 1 .. (3 - 1) = {1, 2} /\ 1 .. (4 - 1) = {1, 2, 3}
      /\ 1 + 1 = 2 /\ 2 + 1 = 3 /\ 3 + 1 = 4 /\ 1 .. 3 = {1, 2, 3}
  OBVIOUS
<1>3. /\ Passed(1) = {} /\ Passed(2) = {"stdio"} /\ Passed(3) = {"stdio", "http"}
      /\ Passed(4) = {"stdio", "http", "sse"}
  BY <1>1, <1>2 DEF Passed
<1> QED
  BY <1>1, <1>2, <1>3 DEF PoolKinds

\* A call whose pool has failed, having run or not.
LEMMA FailedIsRight ==
  ASSUME PoolCallsInv, NEW c \in PoolCallers, call[c].step \in {"look", "ask", "use"},
         NEW ran \in SUBSET Configs, Failed(c, ran),
         RanRight(call[c].name, Passed(call[c].at + 1), ran),
         call[c].op = "sendTo" => \E s : ran \subseteq {s},
         call[c].step = "look" => ran = {}
  PROVE  PoolCallsInv'
<1> DEFINE r == call[c]
<1>1. r \in Going \cup Using /\ CallRight(r)
  BY DEF PoolCallsInv, CallTypes, NoCall, OverCalls
<1>2. /\ r.op \in Operations /\ r.name \in PoolNames /\ r.at \in 1 .. 3
      /\ r.step = "look" => r.op = "sendTo"
  BY <1>1 DEF Going, Using, CallRight
<1>3. CASE Over(c, "error", ran)
  <2> DEFINE next == [step |-> "over", op |-> r.op, how |-> "error", ran |-> ran]
  <2>1. next \in CallTypes
    BY <1>2 DEF CallTypes, OverCalls
  <2>2. CallRight(next)
    BY DEF CallRight, RanRight
  <2>3. call' = [call EXCEPT ![c] = next]
    BY <1>3 DEF Over
  <2> HIDE DEF next
  <2> QED
    BY <2>1, <2>2, <2>3, OneCallChanges
<1>4. CASE GoesOn(c, ran) /\ r.at < Len(Pools) /\ (r.op # "sendTo" \/ r.step = "look")
  <2> DEFINE next == [step |-> IF r.step = "look" THEN "look" ELSE "ask", op |-> r.op,
                      name |-> r.name, at |-> r.at + 1, ran |-> ran]
  <2>1. r.at + 1 \in 1 .. 3
    BY <1>2, <1>4 DEF Pools
  <2>2. next \in CallTypes
    BY <1>2, <2>1 DEF CallTypes, Going
  <2>3. CallRight(next)
    BY <1>2, <1>4 DEF CallRight
  <2>4. call' = [call EXCEPT ![c] = next]
    BY <1>4 DEF GoesOn
  <2> HIDE DEF next
  <2> QED
    BY <2>2, <2>3, <2>4, OneCallChanges
<1> QED
  BY <1>3, <1>4 DEF Failed

\* A call that is over is right where it has run one configuration of each pool, and, when
\* it was sent, one at most.
LEMMA OverIsRight ==
  ASSUME PoolCallsInv, NEW c \in PoolCallers, call[c].step \in {"look", "ask", "use"},
         NEW ran \in SUBSET Configs, Over(c, "done", ran), OneEach(ran),
         call[c].op = "sendTo" => \E s : ran \subseteq {s}
  PROVE  PoolCallsInv'
<1> DEFINE next == [step |-> "over", op |-> call[c].op, how |-> "done", ran |-> ran]
<1>1. call[c] \in Going \cup Using
  BY DEF PoolCallsInv, CallTypes, NoCall, OverCalls
<1>2. next \in CallTypes
  BY <1>1 DEF CallTypes, OverCalls, Going, Using
<1>3. CallRight(next)
  BY DEF CallRight
<1>4. call' = [call EXCEPT ![c] = next]
  BY DEF Over
<1> HIDE DEF next
<1> QED
  BY <1>2, <1>3, <1>4, OneCallChanges

\* Every step of a call leaves the pools that it has passed and the ones it has run in right.
LEMMA PoolCallsStep == PoolTablesInv /\ PoolCallsInv /\ [SPNext]_poolsVars => PoolCallsInv'
<1> SUFFICES ASSUME PoolTablesInv, PoolCallsInv, [SPNext]_poolsVars
             PROVE  PoolCallsInv'
  OBVIOUS
<1>0. /\ call \in [PoolCallers -> CallTypes]
      /\ \A c \in PoolCallers : CallRight(call[c])
  BY DEF PoolCallsInv
<1>g. ASSUME NEW c \in PoolCallers, call[c].step \in {"look", "ask", "use"}
      PROVE  /\ call[c].op \in Operations /\ call[c].name \in PoolNames /\ call[c].at \in 1 .. 3
             /\ call[c].ran \in SUBSET Configs
             /\ RanRight(call[c].name, Passed(call[c].at), call[c].ran)
             /\ RanRight(call[c].name, Passed(call[c].at + 1), call[c].ran)
             /\ call[c].op = "sendTo" => call[c].ran = {}
             /\ call[c].step \in {"look", "ask"} => call[c] \in Going
             /\ call[c].step = "use" => call[c] \in Using
  <2>1. /\ call[c].step \in {"look", "ask"} => call[c] \in Going
        /\ call[c].step = "use" => call[c] \in Using
        /\ call[c] \in Going \cup Using
    BY <1>0, <1>g DEF CallTypes, NoCall, OverCalls, Going, Using
  <2>2. /\ call[c].op \in Operations /\ call[c].name \in PoolNames /\ call[c].at \in 1 .. 3
        /\ call[c].ran \in SUBSET Configs
    BY <2>1 DEF Going, Using
  <2>3. /\ RanRight(call[c].name, Passed(call[c].at), call[c].ran)
        /\ call[c].op = "sendTo" => call[c].ran = {}
    BY <1>0, <1>g DEF CallRight
  <2>4. Passed(call[c].at) \subseteq Passed(call[c].at + 1)
    BY <2>2, PoolsInOrder
  <2>5. RanRight(call[c].name, Passed(call[c].at + 1), call[c].ran)
    BY <2>3, <2>4 DEF RanRight
  <2> QED
    BY <2>1, <2>2, <2>3, <2>5
<1>1. ASSUME call' = call PROVE PoolCallsInv'
  BY <1>0, <1>1 DEF PoolCallsInv
<1>2. ASSUME NEW s \in Configs,
             Reserve(s) \/ SpawnServer(s) \/ RegisterServer(s) \/ StartRemote(s) \/ Fails(s) \/ Recovers(s)
      PROVE  PoolCallsInv'
  BY <1>1, <1>2 DEF Reserve, SpawnServer, RegisterServer, StartRemote, Fails, Recovers
<1>3. ASSUME NEW k \in PoolKinds, ClosePool(k)
      PROVE  PoolCallsInv'
  BY <1>1, <1>3 DEF ClosePool
<1>4. ASSUME NEW c \in PoolCallers, BeginCall(c)
      PROVE  PoolCallsInv'
  <2>1. PICK op \in Operations, n \in PoolNames :
          call' = [call EXCEPT ![c] = [step |-> IF op = "sendTo" THEN "look" ELSE "ask",
                                       op |-> op, name |-> n, at |-> 1, ran |-> {}]]
    BY <1>4 DEF BeginCall
  <2> DEFINE next == [step |-> IF op = "sendTo" THEN "look" ELSE "ask",
                      op |-> op, name |-> n, at |-> 1, ran |-> {}]
  <2>2. next \in CallTypes
    BY DEF CallTypes, Going
  <2>3. CallRight(next)
    BY DEF CallRight, RanRight, OneEach
  <2>4. call' = [call EXCEPT ![c] = next]
    BY <2>1
  <2> HIDE DEF next
  <2> QED
    BY <2>2, <2>3, <2>4, OneCallChanges
<1>5. ASSUME NEW c \in PoolCallers, EndCall(c)
      PROVE  PoolCallsInv'
  <2>1. NoCall \in CallTypes /\ CallRight(NoCall)
    BY DEF CallTypes, CallRight, NoCall
  <2> QED
    BY <1>5, <2>1, OneCallChanges DEF EndCall
<1>6. ASSUME NEW c \in PoolCallers, LookFor(c)
      PROVE  PoolCallsInv'
  <2>1. call[c].step = "look"
    BY <1>6 DEF LookFor
  <2>2. CASE call' = [call EXCEPT ![c].step = "ask"]
    <3> DEFINE next == [call[c] EXCEPT !.step = "ask"]
    <3>1. next \in CallTypes
      BY <1>g, <2>1 DEF CallTypes, Going
    <3>2. /\ next.step = "ask" /\ next.op = call[c].op /\ next.name = call[c].name
          /\ next.at = call[c].at /\ next.ran = call[c].ran
      BY <1>g, <2>1 DEF Going
    <3>3. call' = [call EXCEPT ![c] = next]
      BY <1>0, <2>2
    <3> HIDE DEF next
    <3>4. CallRight(next)
      BY <1>g, <2>1, <3>2 DEF CallRight
    <3> QED
      BY <3>1, <3>3, <3>4, OneCallChanges
  <2>3. CASE Failed(c, {})
    <3>1. RanRight(call[c].name, Passed(call[c].at + 1), {})
      BY DEF RanRight, OneEach
    <3> QED
      BY <2>1, <2>3, <3>1, FailedIsRight
  <2> QED
    BY <1>6, <2>2, <2>3 DEF LookFor
<1>7. ASSUME NEW c \in PoolCallers, TakeServer(c)
      PROVE  PoolCallsInv'
  <2> DEFINE next == [step |-> "use", op |-> call[c].op, name |-> call[c].name, at |-> call[c].at,
                      ran |-> call[c].ran, server |-> Asked(c)]
  <2>1. call[c].step = "ask" /\ call' = [call EXCEPT ![c] = next]
        /\ table[Pools[call[c].at]][call[c].name] # NoServer
    BY <1>7 DEF TakeServer, Found, Has, Here
  <2>2. /\ Asked(c) \in Configs
        /\ KindOf[Asked(c)] = Pools[call[c].at] /\ NameOf[Asked(c)] = call[c].name
    <3>1. Pools[call[c].at] \in PoolKinds /\ call[c].name \in PoolNames
      BY <1>g, <2>1, PoolsInOrder
    <3> HIDE DEF next
    <3> QED
      BY <2>1, <3>1 DEF PoolTablesInv, Asked, Here
  <2>3. next \in CallTypes
    BY <1>g, <2>1, <2>2 DEF CallTypes, Using
  <2>4. CallRight(next)
    BY <1>g, <2>1, <2>2 DEF CallRight
  <2> HIDE DEF next
  <2> QED
    BY <2>1, <2>3, <2>4, OneCallChanges
<1>8. ASSUME NEW c \in PoolCallers, NotThere(c)
      PROVE  PoolCallsInv'
  <2>1. call[c].step = "ask"
        /\ (Over(c, "done", call[c].ran) \/ Failed(c, call[c].ran))
    BY <1>8 DEF NotThere
  <2>2. /\ call[c].op = "sendTo" => \E s : call[c].ran \subseteq {s}
        /\ OneEach(call[c].ran)
    BY <1>g, <2>1 DEF RanRight
  <2> QED
    BY <1>g, <2>1, <2>2, OverIsRight, FailedIsRight
<1>9. ASSUME NEW c \in PoolCallers, Revive(c)
      PROVE  PoolCallsInv'
  <2>1. /\ call[c].step = "use"
        /\ \/ call' = call
           \/ Over(c, "done", {})
           \/ Failed(c, call[c].ran)
    BY <1>9 DEF Revive
  <2>2. /\ call[c].op = "sendTo" => \E s : call[c].ran \subseteq {s}
        /\ OneEach({}) /\ {} \in SUBSET Configs /\ \E s : {} \subseteq {s}
    BY <1>g, <2>1 DEF RanRight, OneEach
  <2> QED
    BY <1>1, <1>g, <2>1, <2>2, OverIsRight, FailedIsRight
<1>10. ASSUME NEW c \in PoolCallers, Send(c)
       PROVE  PoolCallsInv'
  <2> DEFINE ran == call[c].ran \cup {call[c].server}
  <2>1. /\ call[c].step = "use"
        /\ \/ Failed(c, call[c].ran)
           \/ Failed(c, ran)
           \/ Over(c, "done", ran)
    BY <1>10 DEF Send
  <2>2. /\ call[c].server \in Configs /\ NameOf[call[c].server] = call[c].name
        /\ KindOf[call[c].server] = Pools[call[c].at]
    BY <1>0, <1>g, <2>1 DEF Using, CallRight
  <2>3. ran \in SUBSET Configs
    BY <1>g, <2>1, <2>2
  <2>4. RanRight(call[c].name, Passed(call[c].at + 1), ran)
    <3>1. /\ Pools[call[c].at] \notin Passed(call[c].at)
          /\ Pools[call[c].at] \in Passed(call[c].at + 1)
      BY <1>g, <2>1, PoolsInOrder
    <3>2. /\ RanRight(call[c].name, Passed(call[c].at), call[c].ran)
          /\ RanRight(call[c].name, Passed(call[c].at + 1), call[c].ran)
      BY <1>g, <2>1
    <3> QED
      BY <2>2, <3>1, <3>2 DEF RanRight, OneEach
  <2>5. /\ call[c].op = "sendTo" => \E s : ran \subseteq {s}
        /\ call[c].op = "sendTo" => \E s : call[c].ran \subseteq {s}
    BY <1>g, <2>1
  <2>6. OneEach(ran)
    BY <2>4 DEF RanRight
  <2> HIDE DEF ran
  <2> QED
    BY <1>g, <2>1, <2>3, <2>4, <2>5, <2>6, OverIsRight, FailedIsRight
<1>11. CASE UNCHANGED poolsVars
  BY <1>1, <1>11 DEF poolsVars
<1> QED
  BY <1>2, <1>3, <1>4, <1>5, <1>6, <1>7, <1>8, <1>9, <1>10, <1>11 DEF SPNext

\* A call that was sent has run once at most; one to all pools, once in each.
LEMMA CallsFollow == PoolCallsInv => CallsRunOnce
<1> SUFFICES ASSUME PoolCallsInv, NEW c \in PoolCallers, call[c].step = "over"
             PROVE  /\ call[c].op = "sendTo" => Cardinality(call[c].ran) <= 1
                    /\ \A s, t \in call[c].ran : s # t => KindOf[s] # KindOf[t] /\ NameOf[s] = NameOf[t]
  BY DEF CallsRunOnce
<1>1. /\ OneEach(call[c].ran)
      /\ call[c].op = "sendTo" => \E s : call[c].ran \subseteq {s}
  BY DEF PoolCallsInv, CallRight
<1>2. ASSUME NEW ran, NEW s, ran \subseteq {s}
      PROVE  Cardinality(ran) <= 1
  <2>1. ran = {} \/ ran = {s}
    BY <1>2
  <2>2. Cardinality({}) = 0 /\ Cardinality({s}) = 1
    BY FS_EmptySet, FS_Singleton
  <2> QED
    BY <2>1, <2>2
<1> QED
  BY <1>1, <1>2 DEF OneEach

-----------------------------------------------------------------------------
EntryType == [caps : SUBSET Capabilities, trans : Transports, health : Healths, load : 0 .. 100]

\* The entries and the file hold servers, one under each identifier, and the indexes are exact.
RegistryInv ==
  /\ \A id \in DOMAIN entries : entries[id] \in EntryType
  /\ \A x \in saved : x[2] \in EntryType
  /\ \A x, y \in saved : x[1] = y[1] => x[2] = y[2]
  /\ IndexesAreExact

\* The registry begins empty, and so do its indexes and its file.
LEMMA RegistryInitially == SRInit => RegistryInv
  BY DEF SRInit, RegistryInv, IndexesAreExact

\* Whatever is registered, updated, removed, saved or loaded, the indexes follow the entries.
LEMMA RegistryStep == RegistryInv /\ [SRNext]_registryVars => RegistryInv'
<1> SUFFICES ASSUME RegistryInv, [SRNext]_registryVars
             PROVE  RegistryInv'
  OBVIOUS
<1> USE RegistryAssumption
<1>0. \A e \in Entries : e \in EntryType
  BY DEF EntryType
<1>1. ASSUME NEW id \in Ids, NEW e \in Entries, Register(id, e)
      PROVE  RegistryInv'
  <2>1. /\ DOMAIN entries' = DOMAIN entries \cup {id} /\ entries'[id] = e
        /\ \A i \in DOMAIN entries : entries'[i] = entries[i] /\ i # id
        /\ saved' = saved
    BY <1>1 DEF Register, With
  <2>2. /\ \A c \in Capabilities : byCap'[c] = byCap[c] \cup (IF c \in e.caps THEN {id} ELSE {})
        /\ \A t \in Transports : byTrans'[t] = byTrans[t] \cup (IF t = e.trans THEN {id} ELSE {})
    BY <1>1 DEF Register, Indexed, Nothing, Keys
  <2>3. \A i \in DOMAIN entries' : entries'[i] \in EntryType
    BY <1>0, <2>1 DEF RegistryInv
  <2>4. IndexesAreExact'
    <3>1. ASSUME NEW c \in Capabilities
          PROVE  byCap'[c] = {i \in DOMAIN entries' : c \in entries'[i].caps}
      <4>1. byCap[c] = {i \in DOMAIN entries : c \in entries[i].caps}
        BY DEF RegistryInv, IndexesAreExact
      <4> QED
        BY <2>1, <2>2, <4>1
    <3>2. ASSUME NEW t \in Transports
          PROVE  byTrans'[t] = {i \in DOMAIN entries' : entries'[i].trans = t}
      <4>1. byTrans[t] = {i \in DOMAIN entries : entries[i].trans = t}
        BY DEF RegistryInv, IndexesAreExact
      <4> QED
        BY <2>1, <2>2, <4>1
    <3> QED
      BY <3>1, <3>2 DEF IndexesAreExact
  <2> QED
    BY <2>1, <2>3, <2>4 DEF RegistryInv
<1>2. ASSUME NEW id \in Ids, NEW e \in Entries, Update(id, e)
      PROVE  RegistryInv'
  <2>1. /\ id \in DOMAIN entries
        /\ DOMAIN entries' = DOMAIN entries /\ entries'[id] = e
        /\ \A i \in DOMAIN entries : i # id => entries'[i] = entries[i]
        /\ saved' = saved
    BY <1>2 DEF Update, With
  <2>2. /\ \A c \in Capabilities :
             byCap'[c] = (byCap[c] \ (IF c \in entries[id].caps THEN {id} ELSE {}))
                            \cup (IF c \in e.caps THEN {id} ELSE {})
        /\ \A t \in Transports :
             byTrans'[t] = (byTrans[t] \ (IF t = entries[id].trans THEN {id} ELSE {}))
                              \cup (IF t = e.trans THEN {id} ELSE {})
    BY <1>2 DEF Update, Indexed, Keys
  <2>3. \A i \in DOMAIN entries' : entries'[i] \in EntryType
    BY <1>0, <2>1 DEF RegistryInv
  <2>4. IndexesAreExact'
    <3>1. ASSUME NEW c \in Capabilities
          PROVE  byCap'[c] = {i \in DOMAIN entries' : c \in entries'[i].caps}
      <4>1. byCap[c] = {i \in DOMAIN entries : c \in entries[i].caps}
        BY DEF RegistryInv, IndexesAreExact
      <4> QED
        BY <2>1, <2>2, <4>1
    <3>2. ASSUME NEW t \in Transports
          PROVE  byTrans'[t] = {i \in DOMAIN entries' : entries'[i].trans = t}
      <4>1. byTrans[t] = {i \in DOMAIN entries : entries[i].trans = t}
        BY DEF RegistryInv, IndexesAreExact
      <4> QED
        BY <2>1, <2>2, <4>1
    <3> QED
      BY <3>1, <3>2 DEF IndexesAreExact
  <2> QED
    BY <2>1, <2>3, <2>4 DEF RegistryInv
<1>3. ASSUME NEW id \in Ids, Unregister(id)
      PROVE  RegistryInv'
  <2>1. /\ id \in DOMAIN entries
        /\ DOMAIN entries' = DOMAIN entries \ {id}
        /\ \A i \in DOMAIN entries' : entries'[i] = entries[i]
        /\ saved' = saved
    BY <1>3 DEF Unregister
  <2>2. /\ \A c \in Capabilities :
             byCap'[c] = byCap[c] \ (IF c \in entries[id].caps THEN {id} ELSE {})
        /\ \A t \in Transports :
             byTrans'[t] = byTrans[t] \ (IF t = entries[id].trans THEN {id} ELSE {})
    BY <1>3 DEF Unregister, Indexed, Nothing, Keys
  <2>3. \A i \in DOMAIN entries' : entries'[i] \in EntryType
    BY <2>1 DEF RegistryInv
  <2>4. IndexesAreExact'
    <3>1. ASSUME NEW c \in Capabilities
          PROVE  byCap'[c] = {i \in DOMAIN entries' : c \in entries'[i].caps}
      <4>1. byCap[c] = {i \in DOMAIN entries : c \in entries[i].caps}
        BY DEF RegistryInv, IndexesAreExact
      <4> QED
        BY <2>1, <2>2, <4>1
    <3>2. ASSUME NEW t \in Transports
          PROVE  byTrans'[t] = {i \in DOMAIN entries' : entries'[i].trans = t}
      <4>1. byTrans[t] = {i \in DOMAIN entries : entries[i].trans = t}
        BY DEF RegistryInv, IndexesAreExact
      <4> QED
        BY <2>1, <2>2, <4>1
    <3> QED
      BY <3>1, <3>2 DEF IndexesAreExact
  <2> QED
    BY <2>1, <2>3, <2>4 DEF RegistryInv
<1>4. ASSUME NEW id \in Ids, NEW h \in Healths, UpdateHealth(id, h)
      PROVE  RegistryInv'
  <2>1. /\ DOMAIN entries' = DOMAIN entries
        /\ \A i \in DOMAIN entries : /\ entries'[i] \in EntryType
                                     /\ entries'[i].caps = entries[i].caps
                                     /\ entries'[i].trans = entries[i].trans
        /\ UNCHANGED <<byCap, byTrans, saved>>
    BY <1>4 DEF UpdateHealth, RegistryInv, EntryType
  <2>2. IndexesAreExact'
    BY <2>1 DEF RegistryInv, IndexesAreExact
  <2> QED
    BY <2>1, <2>2 DEF RegistryInv
<1>5. ASSUME Save
      PROVE  RegistryInv'
  <2>1. /\ saved' = {} \/ saved' = {<<id, entries[id]>> : id \in DOMAIN entries}
        /\ UNCHANGED serverVars
    BY <1>5 DEF Save
  <2>2. /\ \A x \in saved' : x[2] \in EntryType
        /\ \A x, y \in saved' : x[1] = y[1] => x[2] = y[2]
    BY <2>1 DEF RegistryInv
  <2>3. IndexesAreExact'
    BY <2>1 DEF serverVars, RegistryInv, IndexesAreExact
  <2> QED
    BY <2>1, <2>2, <2>3 DEF RegistryInv, serverVars
<1>6. ASSUME Load
      PROVE  RegistryInv'
  <2> DEFINE loaded(id) == {s[2] : s \in {x \in saved : x[1] = id}}
  <2>1. /\ DOMAIN entries' = DOMAIN entries \cup {s[1] : s \in saved}
        /\ \A id \in DOMAIN entries \cup {s[1] : s \in saved} :
             entries'[id] = IF loaded(id) # {} THEN CHOOSE e \in loaded(id) : TRUE ELSE entries[id]
        /\ saved' = saved
    BY <1>6 DEF Load
  <2>2. \A s \in saved : entries'[s[1]] = s[2]
    <3> SUFFICES ASSUME NEW s \in saved PROVE entries'[s[1]] = s[2]
      OBVIOUS
    <3>1. \A x \in saved : x[1] = s[1] => x[2] = s[2]
      BY DEF RegistryInv
    <3>2. s[2] \in loaded(s[1]) /\ \A e \in loaded(s[1]) : e = s[2]
      BY <3>1
    <3>3. s[1] \in DOMAIN entries \cup {x[1] : x \in saved}
      OBVIOUS
    <3>4. entries'[s[1]] = CHOOSE e \in loaded(s[1]) : TRUE
      BY <2>1, <3>2, <3>3
    <3> HIDE DEF loaded
    <3>5. (CHOOSE e \in loaded(s[1]) : TRUE) \in loaded(s[1])
      BY <3>2
    <3> QED
      BY <3>2, <3>4, <3>5
  <2>3. \A id \in DOMAIN entries : (\A s \in saved : s[1] # id) => entries'[id] = entries[id]
    BY <2>1
  <2>4. \A id \in DOMAIN entries' : entries'[id] \in EntryType
    BY <2>1, <2>2, <2>3 DEF RegistryInv
  <2>5. /\ \A c \in Capabilities :
             byCap'[c] = {id \in byCap[c] : ~ (/\ id \in DOMAIN entries /\ loaded(id) # {}
                                               /\ c \in entries[id].caps)}
                            \cup {s[1] : s \in {x \in saved : c \in x[2].caps}}
        /\ \A t \in Transports :
             byTrans'[t] = {id \in byTrans[t] : ~ (/\ id \in DOMAIN entries /\ loaded(id) # {}
                                                   /\ t = entries[id].trans)}
                              \cup {s[1] : s \in {x \in saved : t = x[2].trans}}
    BY <1>6 DEF Load
  <2>6. IndexesAreExact'
    <3>1. ASSUME NEW c \in Capabilities
          PROVE  byCap'[c] = {id \in DOMAIN entries' : c \in entries'[id].caps}
      <4>1. byCap[c] = {id \in DOMAIN entries : c \in entries[id].caps}
        BY DEF RegistryInv, IndexesAreExact
      <4>2. byCap'[c] = {id \in DOMAIN entries : c \in entries[id].caps /\ \A s \in saved : s[1] # id}
                           \cup {s[1] : s \in {x \in saved : c \in x[2].caps}}
        BY <2>5, <4>1
      <4> QED
        BY <2>1, <2>2, <2>3, <4>2
    <3>2. ASSUME NEW t \in Transports
          PROVE  byTrans'[t] = {id \in DOMAIN entries' : entries'[id].trans = t}
      <4>1. byTrans[t] = {id \in DOMAIN entries : entries[id].trans = t}
        BY DEF RegistryInv, IndexesAreExact
      <4>2. byTrans'[t] = {id \in DOMAIN entries : /\ entries[id].trans = t
                                                   /\ \A s \in saved : s[1] # id}
                             \cup {s[1] : s \in {x \in saved : t = x[2].trans}}
        BY <2>5, <4>1
      <4> QED
        BY <2>1, <2>2, <2>3, <4>2
    <3> QED
      BY <3>1, <3>2 DEF IndexesAreExact
  <2> QED
    BY <2>1, <2>4, <2>6 DEF RegistryInv
<1>7. ASSUME UNCHANGED serverVars, saved' = saved
      PROVE  RegistryInv'
  BY <1>7 DEF serverVars, RegistryInv, IndexesAreExact
<1>8. ASSUME NEW s \in Subscribers, Subscribe(s) \/ ReadEvent(s)
      PROVE  RegistryInv'
  BY <1>7, <1>8 DEF Subscribe, ReadEvent
<1>9. CASE UNCHANGED registryVars
  BY <1>7, <1>9 DEF registryVars, serverVars
<1> QED
  BY <1>1, <1>2, <1>3, <1>4, <1>5, <1>6, <1>8, <1>9 DEF SRNext

\* The candidates that suit are the servers that suit, and of these some have the best score.
LEMMA BestFollows == RegistryInv => BestIsFound
<1> SUFFICES ASSUME RegistryInv, NEW want \in Wanted
             PROVE  LET suited == {id \in DOMAIN entries : want.caps \subseteq entries[id].caps
                                                          /\ Suits(entries[id], want)}
                    IN /\ FindBest(want) \subseteq suited
                       /\ suited # {} => /\ FindBest(want) # {}
                                         /\ \A id \in FindBest(want), other \in suited :
                                              Score(entries[other]) <= Score(entries[id])
  BY DEF BestIsFound
<1> DEFINE suited == {id \in DOMAIN entries : want.caps \subseteq entries[id].caps
                                              /\ Suits(entries[id], want)}
           best == {id \in suited : \A other \in suited : Score(entries[other]) <= Score(entries[id])}
<1>1. want.caps \subseteq Capabilities
  BY DEF Wanted
<1>2. \A c \in want.caps : byCap[c] = {id \in DOMAIN entries : c \in entries[id].caps}
  BY <1>1 DEF RegistryInv, IndexesAreExact
<1>3. Candidates(want.caps) = {id \in DOMAIN entries : want.caps \subseteq entries[id].caps}
  <2>1. CASE want.caps = {}
    BY <2>1 DEF Candidates
  <2>2. CASE want.caps # {}
    BY <1>2, <2>2 DEF Candidates
  <2> QED
    BY <2>1, <2>2
<1>4. {id \in Candidates(want.caps) : Suits(entries[id], want)} = suited
  BY <1>3
<1>5. FindBest(want) = best
  BY ONLY <1>4 DEF FindBest
<1>6. ASSUME suited # {}
      PROVE  best # {}
  <2> DEFINE scores == {Score(entries[id]) : id \in suited}
  <2>1. \A id \in suited : Score(entries[id]) \in 0 .. 150
    BY DEF RegistryInv, EntryType, Score
  <2>2. scores \in SUBSET (0 .. 150) /\ scores # {} /\ 150 \in Nat
    BY <1>6, <2>1
  <2>3. PICK m \in scores : \A n \in scores : n <= m
    <3> HIDE DEF scores
    <3> QED
      BY <2>2, BoundedMaximum
  <2>4. PICK id \in suited : m = Score(entries[id])
    BY <2>3
  <2>5. \A other \in suited : Score(entries[other]) \in scores
    OBVIOUS
  <2>6. \A other \in suited : Score(entries[other]) <= Score(entries[id])
    BY <2>3, <2>4, <2>5
  <2> QED
    BY <2>4, <2>6
<1> QED
  BY <1>5, <1>6

-----------------------------------------------------------------------------
\* A process that has been started is its id's entry until it has been waited for, or the id is one
\* of those killed; and a caller that is about to delete an entry has killed it.
Alive == {"running", "exited", "waited"}
ProcessTypes == [id : ServerIds \cup {""}, state : {"running", "exited", "waited", "new", "gone"}]
ProcTypes == /\ entryOf \in [ServerIds -> Processes \cup {NoProcess}]
             /\ process \in [Processes -> ProcessTypes]
             /\ started \in Nat
StartedAre ==
  \A n \in Processes : /\ n > started => process[n].state = "new"
                       /\ n <= started => process[n].state # "new" /\ process[n].id \in ServerIds
EntriesAre ==
  /\ \A n \in Processes : process[n].state \in Alive
                            => entryOf[process[n].id] = n \/ process[n].id \in killed
  /\ \A i \in ServerIds : entryOf[i] # NoProcess
                            => process[entryOf[i]].id = i /\ process[entryOf[i]].state \in Alive
OperatorsAre ==
  /\ DOMAIN operator = Operators
  /\ \A c \in Operators : /\ "step" \in DOMAIN operator[c]
                          /\ operator[c].step = "delete" => operator[c].id \in killed
                          /\ operator[c].step \in {"signal", "stop", "delete", "start"}
                               => operator[c].id \in ServerIds /\ "id" \in DOMAIN operator[c]
ProcInv == ProcTypes /\ StartedAre /\ EntriesAre /\ OperatorsAre

\* The processes are numbered from 1, and no process has the number of none.
LEMMA ProcNumbers == /\ \A n \in Processes : n \in Nat /\ n > 0
                     /\ NoProcess \notin Processes
  BY ProcessesAssumption DEF Processes, NoProcess

\* Nothing has been started.
LEMMA ProcInitially == PRInit => ProcInv
<1> SUFFICES ASSUME PRInit PROVE ProcInv
  OBVIOUS
<1>1. ProcTypes
  BY DEF PRInit, ProcTypes, ProcessTypes
<1>2. StartedAre
  <2>1. started = 0 /\ \A n \in Processes : process[n].state = "new"
    BY DEF PRInit
  <2>2. \A n \in Processes : ~ (n <= 0)
    BY ProcNumbers
  <2> QED
    BY <2>1, <2>2 DEF StartedAre
<1>3. EntriesAre
  BY DEF PRInit, EntriesAre, Alive
<1>4. OperatorsAre
  BY DEF PRInit, OperatorsAre, NoOperation
<1> QED
  BY <1>1, <1>2, <1>3, <1>4 DEF ProcInv

\* Processes that have changed their states, from one of those of a process that lives to another.
Aged == \A m \in Processes : /\ process'[m].id = process[m].id
                             /\ process'[m].state \in Alive <=> process[m].state \in Alive
                             /\ process'[m].state = "new" <=> process[m].state = "new"

\* A step that gives a process, at most, another of those states.
LEMMA ProcessAges ==
  ASSUME process \in [Processes -> ProcessTypes], NEW n, process[n].state \in Alive,
         NEW state \in Alive, process' = [process EXCEPT ![n].state = state]
  PROVE  process' \in [Processes -> ProcessTypes] /\ Aged
<1>1. process' \in [Processes -> ProcessTypes]
  BY DEF ProcessTypes, Alive
<1>2. \A m \in Processes : /\ process'[m].id = process[m].id
                           /\ m # n => process'[m] = process[m]
                           /\ m = n => process'[m].state = state
  BY DEF ProcessTypes
<1>3. "new" \notin Alive
  BY DEF Alive
<1> QED
  BY <1>1, <1>2, <1>3 DEF Aged

\* What the invariant says of the processes follows where they have only aged.
LEMMA ProcKept ==
  ASSUME ProcInv, UNCHANGED <<entryOf, started>>, killed \subseteq killed',
         process' \in [Processes -> ProcessTypes], Aged, OperatorsAre'
  PROVE  ProcInv'
<1>1. ProcTypes'
  BY DEF ProcInv, ProcTypes
<1>2. StartedAre'
  BY DEF ProcInv, StartedAre, Aged
<1>3. EntriesAre'
  <2>1. EntriesAre /\ entryOf \in [ServerIds -> Processes \cup {NoProcess}]
    BY DEF ProcInv, ProcTypes
  <2> QED
    BY <2>1 DEF EntriesAre, Aged
<1> QED
  BY <1>1, <1>2, <1>3 DEF ProcInv

\* Start gives an id that has no entry a process that is new.
LEMMA ProcStarted ==
  ASSUME ProcInv, NEW i \in ServerIds, StartProcess(i), UNCHANGED killed, OperatorsAre'
  PROVE  ProcInv'
<1>0. ProcTypes /\ StartedAre /\ EntriesAre
  BY DEF ProcInv
<1>1. CASE UNCHANGED <<entryOf, process, started>>
  <2>1. process' \in [Processes -> ProcessTypes] /\ Aged
    BY <1>0, <1>1 DEF ProcTypes, Aged
  <2> QED
    BY <1>1, <2>1, ProcKept
<1>2. CASE /\ entryOf[i] = NoProcess /\ started < MaxProcesses
           /\ started' = started + 1
           /\ process' = [process EXCEPT ![started + 1] = [id |-> i, state |-> "running"]]
           /\ entryOf' = [entryOf EXCEPT ![i] = started + 1]
  <2> DEFINE new == started + 1
  <2>1. new \in Processes /\ started' = new /\ new \in Nat
    BY <1>0, <1>2, ProcessesAssumption DEF ProcTypes, Processes
  <2>2. /\ process' \in [Processes -> ProcessTypes]
        /\ process'[new].id = i /\ process'[new].state = "running"
        /\ \A n \in Processes : n # new => process'[n] = process[n]
    <3>1. [id |-> i, state |-> "running"] \in ProcessTypes
      BY DEF ProcessTypes
    <3>2. process' = [process EXCEPT ![new] = [id |-> i, state |-> "running"]]
      BY <1>2
    <3> HIDE DEF new
    <3> QED
      BY <1>0, <2>1, <3>1, <3>2 DEF ProcTypes
  <2>3. /\ entryOf' \in [ServerIds -> Processes \cup {NoProcess}]
        /\ entryOf'[i] = new
        /\ \A j \in ServerIds : j # i => entryOf'[j] = entryOf[j]
    BY <1>0, <1>2, <2>1 DEF ProcTypes
  <2>4. ProcTypes'
    BY <2>1, <2>2, <2>3 DEF ProcTypes
  <2>5. StartedAre'
    <3>1. \A n \in Processes : n > new => n > started /\ n # new
      BY <1>0, ProcNumbers DEF ProcTypes
    <3>2. \A n \in Processes : n <= new => n <= started \/ n = new
      BY <1>0, ProcNumbers DEF ProcTypes
    <3> HIDE DEF new
    <3> QED
      BY <1>0, <2>1, <2>2, <3>1, <3>2 DEF StartedAre
  <2>6. \A n \in Processes : process[n].state \in Alive => process[n].id \in ServerIds /\ n # new
    <3>1. new > started
      BY <1>0 DEF ProcTypes
    <3>2. \A n \in Processes : n <= started \/ n > started
      BY <1>0, ProcNumbers DEF ProcTypes
    <3>3. "new" \notin Alive
      BY DEF Alive
    <3> QED
      BY <1>0, <3>1, <3>2, <3>3 DEF StartedAre
  <2>7. EntriesAre'
    <3>1. ASSUME NEW n \in Processes, process'[n].state \in Alive
          PROVE  entryOf'[process'[n].id] = n \/ process'[n].id \in killed'
      <4>1. CASE n = new
        BY <2>2, <2>3, <4>1
      <4>2. CASE n # new
        <5>1. process'[n] = process[n] /\ process[n].state \in Alive
          BY <2>2, <3>1, <4>2
        <5>2. entryOf[process[n].id] = n \/ process[n].id \in killed
          BY <1>0, <5>1 DEF EntriesAre
        <5>3. process[n].id = i => entryOf[process[n].id] # n
          BY <1>2, ProcNumbers
        <5> QED
          BY <2>3, <2>6, <5>1, <5>2, <5>3
      <4> QED
        BY <4>1, <4>2
    <3>2. ASSUME NEW j \in ServerIds, entryOf'[j] # NoProcess
          PROVE  process'[entryOf'[j]].id = j /\ process'[entryOf'[j]].state \in Alive
      <4>1. CASE j = i
        BY <2>2, <2>3, <4>1 DEF Alive
      <4>2. CASE j # i
        <5>1. entryOf'[j] = entryOf[j] /\ entryOf[j] \in Processes
          BY <1>0, <2>3, <3>2, <4>2 DEF ProcTypes
        <5>2. process[entryOf[j]].id = j /\ process[entryOf[j]].state \in Alive
          BY <1>0, <3>2, <5>1 DEF EntriesAre
        <5> QED
          BY <2>2, <2>6, <5>1, <5>2
      <4> QED
        BY <4>1, <4>2
    <3> QED
      BY <3>1, <3>2 DEF EntriesAre
  <2> QED
    BY <2>4, <2>5, <2>7 DEF ProcInv
<1> QED
  BY <1>1, <1>2 DEF StartProcess

\* An entry is deleted where the process has been waited for, or where the id has been killed.
LEMMA ProcDeleted ==
  ASSUME ProcInv, NEW i \in ServerIds, UNCHANGED <<started, killed>>,
         entryOf' = [entryOf EXCEPT ![i] = NoProcess],
         process' \in [Processes -> ProcessTypes],
         \A m \in Processes : /\ process'[m].id = process[m].id
                              /\ process'[m].state = "new" <=> process[m].state = "new"
                              /\ process'[m].state = process[m].state \/ process[m].id = i,
         i \in killed
           \/ \A m \in Processes : process[m].id = i => process'[m].state \notin Alive,
         OperatorsAre'
  PROVE  ProcInv'
<1>0. ProcTypes /\ StartedAre /\ EntriesAre
  BY DEF ProcInv
<1>1. /\ entryOf' \in [ServerIds -> Processes \cup {NoProcess}]
      /\ entryOf'[i] = NoProcess
      /\ \A j : j # i => entryOf'[j] = entryOf[j]
  BY <1>0 DEF ProcTypes
<1>2. ProcTypes'
  BY <1>0, <1>1 DEF ProcTypes
<1>3. StartedAre'
  BY <1>0 DEF StartedAre
<1>4. EntriesAre'
  <2>1. ASSUME NEW n \in Processes, process'[n].state \in Alive
        PROVE  entryOf'[process'[n].id] = n \/ process'[n].id \in killed'
    <3>1. CASE process[n].id = i
      BY <2>1, <3>1
    <3>2. CASE process[n].id # i
      <4>1. process'[n].state = process[n].state
        BY <3>2
      <4>2. entryOf[process[n].id] = n \/ process[n].id \in killed
        BY <1>0, <2>1, <4>1 DEF EntriesAre
      <4> QED
        BY <1>1, <3>2, <4>2
    <3> QED
      BY <3>1, <3>2
  <2>2. ASSUME NEW j \in ServerIds, entryOf'[j] # NoProcess
        PROVE  process'[entryOf'[j]].id = j /\ process'[entryOf'[j]].state \in Alive
    <3>1. j # i /\ entryOf'[j] = entryOf[j] /\ entryOf[j] \in Processes
      BY <1>0, <1>1, <2>2 DEF ProcTypes
    <3>2. process[entryOf[j]].id = j /\ process[entryOf[j]].state \in Alive
      BY <1>0, <2>2, <3>1 DEF EntriesAre
    <3> QED
      BY <3>1, <3>2
  <2> QED
    BY <2>1, <2>2 DEF EntriesAre
<1> QED
  BY <1>2, <1>3, <1>4 DEF ProcInv

\* Every step of the manager or of a process keeps what the table knows right.
LEMMA ProcStep == ProcInv /\ [PRNext]_procVars => ProcInv'
<1> SUFFICES ASSUME ProcInv, [PRNext]_procVars
             PROVE  ProcInv'
  OBVIOUS
<1>0. /\ ProcTypes /\ StartedAre /\ EntriesAre /\ OperatorsAre
      /\ process \in [Processes -> ProcessTypes]
  BY DEF ProcInv, ProcTypes
<1>k. ASSUME OperatorsAre', killed' = killed, UNCHANGED <<entryOf, process, started>>
      PROVE  ProcInv'
  <2>1. process' \in [Processes -> ProcessTypes] /\ Aged
    BY <1>0, <1>k DEF Aged
  <2> QED
    BY <1>k, <2>1, ProcKept
<1>o. ASSUME UNCHANGED <<operator, killed>>
      PROVE  OperatorsAre'
  BY <1>0, <1>o DEF OperatorsAre
<1>1. ASSUME NEW n \in Processes, ProcessEnds(n) \/ ProcessIsWaited(n)
      PROVE  ProcInv'
  <2>1. /\ process[n].state \in Alive
        /\ UNCHANGED <<entryOf, started, operator, killed>>
        /\ \E state \in Alive : process' = [process EXCEPT ![n].state = state]
    BY <1>1 DEF ProcessEnds, ProcessIsWaited, Alive
  <2>2. process' \in [Processes -> ProcessTypes] /\ Aged
    BY <1>0, <2>1, ProcessAges
  <2> QED
    BY <1>o, <2>1, <2>2, ProcKept
<1>2. ASSUME NEW n \in Processes, WaitForExit(n)
      PROVE  ProcInv'
  <2>1. /\ process[n].state = "waited"
        /\ process' = [process EXCEPT ![n].state = "gone"]
        /\ entryOf' = [entryOf EXCEPT ![process[n].id] = NoProcess]
        /\ UNCHANGED <<started, operator, killed>>
    BY <1>2 DEF WaitForExit
  <2>2. /\ process' \in [Processes -> ProcessTypes]
        /\ \A m \in Processes : /\ process'[m].id = process[m].id
                                /\ m # n => process'[m] = process[m]
        /\ process'[n].state = "gone"
    BY <1>0, <2>1 DEF ProcessTypes
  <2>3. process[n].id \in ServerIds
    <3>1. n <= started \/ n > started
      BY <1>0, ProcNumbers DEF ProcTypes
    <3>2. process[n].state # "new"
      BY <2>1
    <3> QED
      BY <1>0, <3>1, <3>2 DEF StartedAre
  <2>4. \/ process[n].id \in killed
        \/ \A m \in Processes : process[m].id = process[n].id => process'[m].state \notin Alive
    <3>1. process[n].state \in Alive /\ "gone" \notin Alive
      BY <2>1 DEF Alive
    <3>2. entryOf[process[n].id] = n \/ process[n].id \in killed
      BY <1>0, <3>1 DEF EntriesAre
    <3>3. \A m \in Processes : m # n /\ process'[m].state \in Alive
                                 => entryOf[process[m].id] = m \/ process[m].id \in killed
      BY <1>0, <2>2 DEF EntriesAre
    <3> QED
      BY <2>2, <3>1, <3>2, <3>3
  <2>5. \A m \in Processes : /\ process'[m].id = process[m].id
                             /\ process'[m].state = "new" <=> process[m].state = "new"
                             /\ process'[m].state = process[m].state \/ process[m].id = process[n].id
    BY <2>1, <2>2
  <2> QED
    BY <1>o, <2>1, <2>2, <2>3, <2>4, <2>5, ProcDeleted
<1>3. ASSUME NEW c \in Operators, StartServer(c)
      PROVE  ProcInv'
  <2>1. PICK i \in ServerIds : StartProcess(i) /\ UNCHANGED <<operator, killed>>
    BY <1>3 DEF StartServer
  <2> QED
    BY <1>o, <2>1, ProcStarted
<1>4. ASSUME NEW c \in Operators, LookUp(c)
      PROVE  ProcInv'
  <2>1. /\ UNCHANGED <<entryOf, process, started, killed>>
        /\ \E step \in {"stop", "signal"}, op \in {"stop", "kill", "restart"}, i \in ServerIds :
             operator' = [operator EXCEPT ![c] = [step |-> step, op |-> op, id |-> i,
                                                  process |-> entryOf[i]]]
    BY <1>4 DEF LookUp
  <2>2. OperatorsAre'
    BY <1>0, <2>1 DEF OperatorsAre
  <2> QED
    BY <1>k, <2>1, <2>2
<1>5. ASSUME NEW c \in Operators, LookUpAgain(c)
      PROVE  ProcInv'
  <2> DEFINE m == entryOf[operator[c].id]
             next == IF m = NoProcess THEN "start" ELSE "signal"
  <2>1. /\ UNCHANGED <<entryOf, process, started, killed>> /\ operator[c].step = "stop"
        /\ operator' = [operator EXCEPT ![c].process = m, ![c].step = next]
    BY <1>5 DEF LookUpAgain
  <2>2. next \in {"start", "signal"}
    OBVIOUS
  <2>3. OperatorsAre'
    <3> HIDE DEF next, m
    <3>0. operator[c].step = "stop" => c \in DOMAIN operator
      BY <1>0 DEF OperatorsAre
    <3>1. /\ DOMAIN operator' = DOMAIN operator
          /\ operator'[c].step = next /\ operator'[c].id = operator[c].id
          /\ \A d \in Operators : d # c => operator'[d] = operator[d]
      BY <1>0, <2>1 DEF OperatorsAre
    <3> QED
      BY <1>0, <2>1, <2>2, <3>1 DEF OperatorsAre
  <2> QED
    BY <1>k, <2>1, <2>3
<1>6. ASSUME NEW c \in Operators, Terminate(c) \/ Kill(c)
      PROVE  ProcInv'
  <2> DEFINE n == operator[c].process
  <2>1. /\ operator[c].step = "signal" /\ UNCHANGED <<entryOf, started>>
        /\ \/ process' = process
           \/ process[n].state \in Alive /\ process' = [process EXCEPT ![n].state = "exited"]
        /\ killed \subseteq killed'
    BY <1>6 DEF Terminate, Kill, Running, Alive
  <2>2. \/ operator' = [operator EXCEPT ![c] = NoOperation]
        \/ operator' = [operator EXCEPT ![c].step = "start"]
        \/ operator' = [operator EXCEPT ![c].step = "delete"] /\ operator[c].id \in killed'
    BY <1>6 DEF Terminate, Kill, Ended
  <2>3. OperatorsAre'
    <3>1. c \in DOMAIN operator /\ {"step", "id"} \subseteq DOMAIN operator[c]
      BY <1>0, <2>1 DEF OperatorsAre
    <3>2. CASE operator' = [operator EXCEPT ![c] = NoOperation]
      BY <1>0, <2>1, <3>1, <3>2 DEF OperatorsAre, NoOperation
    <3>3. CASE operator' = [operator EXCEPT ![c].step = "start"]
      <4>1. operator'[c].step = "start" /\ operator'[c].id = operator[c].id
        BY <3>1, <3>3
      <4> QED
        BY <1>0, <2>1, <3>1, <3>3, <4>1 DEF OperatorsAre
    <3>4. CASE operator' = [operator EXCEPT ![c].step = "delete"] /\ operator[c].id \in killed'
      <4>1. operator'[c].id = operator[c].id
        BY <3>1, <3>4
      <4> QED
        BY <1>0, <2>1, <3>1, <3>4, <4>1 DEF OperatorsAre
    <3> QED
      BY <2>2, <3>2, <3>3, <3>4
  <2>4. process' \in [Processes -> ProcessTypes] /\ Aged
    <3>1. CASE process' = process
      BY <1>0, <3>1 DEF Aged
    <3>2. CASE process[n].state \in Alive /\ process' = [process EXCEPT ![n].state = "exited"]
      <4>1. "exited" \in Alive
        BY DEF Alive
      <4> HIDE DEF n
      <4> QED
        BY <1>0, <3>2, <4>1, ProcessAges
    <3> QED
      BY <2>1, <3>1, <3>2
  <2> QED
    BY <2>1, <2>3, <2>4, ProcKept
<1>7. ASSUME NEW c \in Operators, DeleteKilled(c)
      PROVE  ProcInv'
  <2>1. /\ operator[c].step = "delete" /\ operator[c].id \in killed /\ operator[c].id \in ServerIds
        /\ entryOf' = [entryOf EXCEPT ![operator[c].id] = NoProcess]
        /\ UNCHANGED <<process, started, killed>>
    BY <1>0, <1>7 DEF DeleteKilled, OperatorsAre
  <2>2. OperatorsAre'
    BY <1>0, <1>7 DEF DeleteKilled, Ended, NoOperation, OperatorsAre
  <2> QED
    BY <1>0, <2>1, <2>2, ProcDeleted
<1>8. ASSUME NEW c \in Operators, StartAgain(c)
      PROVE  ProcInv'
  <2>1. /\ operator[c].id \in ServerIds /\ StartProcess(operator[c].id) /\ UNCHANGED killed
    BY <1>0, <1>8 DEF StartAgain, OperatorsAre
  <2>2. OperatorsAre'
    BY <1>0, <1>8 DEF StartAgain, Ended, NoOperation, OperatorsAre
  <2> QED
    BY <2>1, <2>2, ProcStarted
<1>9. ASSUME Reap
      PROVE  ProcInv'
  <2>1. /\ entryOf' = [i \in ServerIds |-> IF entryOf[i] # NoProcess
                                                /\ process[entryOf[i]].state = "gone"
                                             THEN NoProcess ELSE entryOf[i]]
        /\ UNCHANGED <<process, started, operator, killed>>
    BY <1>9 DEF Reap
  <2>2. \A i \in ServerIds : entryOf[i] # NoProcess => process[entryOf[i]].state # "gone"
    BY <1>0 DEF EntriesAre, Alive
  <2>3. entryOf' = entryOf
    BY <1>0, <2>1, <2>2 DEF ProcTypes
  <2> QED
    BY <1>k, <1>o, <2>1, <2>3
<1>10. ASSUME CloseManager
       PROVE  ProcInv'
  BY <1>k, <1>o, <1>10 DEF CloseManager
<1>11. CASE UNCHANGED procVars
  BY <1>k, <1>o, <1>11 DEF procVars
<1> QED
  BY <1>1, <1>2, <1>3, <1>4, <1>5, <1>6, <1>7, <1>8, <1>9, <1>10, <1>11 DEF PRNext

\* A process that lives is known by its identifier, or was killed.
LEMMA ProcessesFollow == ProcInv => ProcessesAreKnown
  BY DEF ProcInv, EntriesAre, ProcessesAreKnown, Alive

-----------------------------------------------------------------------------
\* What a number is worth is one of the values of the steps.
LEMMA WorthIsOneOf ==
  ASSUME NEW n \in Int, NEW k \in Nat, NEW steps, DOMAIN steps = 1 .. k, NEW rest, NEW values,
         \A i \in 1 .. k : steps[i][1] \in Int /\ steps[i][2] \in values, rest \in values
  PROVE  Worth(n, steps, rest) \in values
<1> DEFINE First(i) == n < steps[i][1] /\ \A j \in 1 .. i - 1 : n >= steps[j][1]
           S == {k - i : i \in {j \in 1 .. k : n < steps[j][1]}}
<1>1. ASSUME \E i \in 1 .. k : n < steps[i][1]
      PROVE  \E i \in 1 .. k : First(i)
  <2>1. S \in SUBSET (0 .. k) /\ S # {}
    BY <1>1
  <2>2. PICK m \in S : \A l \in S : l <= m
    <3> HIDE DEF S
    <3> QED
      BY <2>1, BoundedMaximum
  <2>3. PICK i \in 1 .. k : n < steps[i][1] /\ m = k - i
    BY <2>2
  <2>4. ASSUME NEW j \in 1 .. i - 1
        PROVE  n >= steps[j][1]
    <3>1. j \in 1 .. k /\ k - j > m
      BY <2>3
    <3>2. k - j \notin S
      <4>1. m \in Int
        BY <2>1, <2>2
      <4> HIDE DEF S
      <4> QED
        BY <2>2, <3>1, <4>1
    <3> QED
      BY <3>1, <3>2
  <2> QED
    BY <2>3, <2>4
<1>2. Worth(n, steps, rest) = IF \E i \in 1 .. k : n < steps[i][1]
                                THEN steps[CHOOSE i \in 1 .. k : First(i)][2] ELSE rest
  BY DEF Worth
<1> HIDE DEF First
<1> QED
  BY <1>1, <1>2

\* An entry that comes without a score is given one from 0 to 100.
LEMMA TrustIsBounded ==
  ASSUME NEW e \in [trust : Int, days : Int, issues : Int, downloads : Int, described : BOOLEAN],
         e.trust <= 0
  PROVE  CalculateTrustScore(e) \in 0 .. 100
<1>1. /\ e.days \in Int /\ e.issues \in Int /\ e.downloads \in Int
  OBVIOUS
<1>2. ReleaseRecencyScore(e.days) \in 0 .. 30
  <2> DEFINE steps == << <<31, 30>>, <<91, 20>>, <<366, 10>> >>
             k == 3
             rest == 0
             values == 0 .. 30
             n == e.days
  <2>1. /\ n \in Int /\ k \in Nat /\ DOMAIN steps = 1 .. k /\ rest \in values
        /\ \A i \in 1 .. k : steps[i][1] \in Int /\ steps[i][2] \in values
    BY <1>1
  <2>2. ReleaseRecencyScore(e.days) = Worth(n, steps, rest)
    BY DEF ReleaseRecencyScore
  <2> HIDE DEF steps, k, rest, values, n
  <2>3. Worth(n, steps, rest) \in values
    BY ONLY <2>1, WorthIsOneOf
  <2> QED
    BY <2>2, <2>3 DEF values
<1>3. IssueScore(e.issues) \in 0 .. 25
  <2> DEFINE steps == << <<5, 25>>, <<20, 15>>, <<100, 5>> >>
             k == 3
             rest == 0
             values == 0 .. 25
             n == e.issues
  <2>1. /\ n \in Int /\ k \in Nat /\ DOMAIN steps = 1 .. k /\ rest \in values
        /\ \A i \in 1 .. k : steps[i][1] \in Int /\ steps[i][2] \in values
    BY <1>1
  <2>2. IssueScore(e.issues) = Worth(n, steps, rest)
    BY DEF IssueScore
  <2> HIDE DEF steps, k, rest, values, n
  <2>3. Worth(n, steps, rest) \in values
    BY ONLY <2>1, WorthIsOneOf
  <2> QED
    BY <2>2, <2>3 DEF values
<1>4. DownloadScore(e.downloads) \in 0 .. 25
  <2> DEFINE steps == << <<100, 5>>, <<1000, 10>>, <<10000, 15>>, <<100000, 20>> >>
             k == 4
             rest == 25
             values == 0 .. 25
             n == e.downloads
  <2>1. /\ n \in Int /\ k \in Nat /\ DOMAIN steps = 1 .. k /\ rest \in values
        /\ \A i \in 1 .. k : steps[i][1] \in Int /\ steps[i][2] \in values
    BY <1>1
  <2>2. DownloadScore(e.downloads) = Worth(n, steps, rest)
    BY DEF DownloadScore
  <2> HIDE DEF steps, k, rest, values, n
  <2>3. Worth(n, steps, rest) \in values
    BY ONLY <2>1, WorthIsOneOf
  <2> QED
    BY <2>2, <2>3 DEF values
<1> QED
  BY <1>2, <1>3, <1>4 DEF CalculateTrustScore

\* What an entry scores is a number.
LEMMA TrustIsNumber ==
  ASSUME NEW e \in [trust : Int, days : Int, issues : Int, downloads : Int, described : BOOLEAN]
  PROVE  CalculateTrustScore(e) \in Int
<1>1. CASE e.trust > 0
  BY <1>1 DEF CalculateTrustScore
<1>2. CASE e.trust <= 0
  BY <1>2, TrustIsBounded
<1> QED
  BY <1>1, <1>2
-----------------------------------------------------------------------------
\* As long as the temporary file was never shared, one process at the most is between opening it
\* and renaming it, under the name it was opened by, and has written all of its version once it is
\* about to rename.
SyncStates ==
  {NotSyncing} \cup [step : {"compare"}, version : 1 .. MaxFeed]
    \cup [step : {"open"}, version : 1 .. MaxFeed, changed : BOOLEAN]
    \cup [step : {"write", "rename"}, version : 1 .. MaxFeed, changed : BOOLEAN,
          at : {"tmp", "index", "none"}]
FeedTypes ==
  /\ upstream \in 1 .. MaxFeed
  /\ sync \in [Readers -> SyncStates]
  /\ memo \in [Readers -> (0 .. MaxFeed) \cup {Unread}]
  /\ index \in 0 .. TornIndex /\ tmp \in 0 .. TornIndex
FilesAre ==
  /\ index = TornIndex => collided
  /\ collided \in BOOLEAN
  /\ ~ collided => /\ \A p, q \in Readers : Writing(p) /\ Writing(q) => p = q
                   /\ \A p \in Readers : Writing(p) => sync[p].at = "tmp"
                   /\ \A p \in Readers : sync[p].step = "rename" => tmp = sync[p].version
AddedAre ==
  \A e \in added : /\ e # NoListing /\ CalculateTrustScore(e) >= 40
                   /\ e.trust <= 0 => CalculateTrustScore(e) <= 100
FeedInv == FeedTypes /\ FilesAre /\ AddedAre

\* The versions of the feed, and the numbers that stand for no index, for a torn one and for one
\* that has not been read, are all different.
LEMMA FeedNumbers ==
  /\ MaxFeed \in Nat /\ 1 \in 1 .. MaxFeed
  /\ TornIndex \in 0 .. TornIndex /\ TornIndex # 0 /\ NoIndex = 0 /\ NoIndex \in 0 .. TornIndex
  /\ TornIndex \notin 1 .. MaxFeed /\ TornIndex # Unread /\ Unread \notin 0 .. TornIndex
  /\ 0 .. TornIndex = (1 .. MaxFeed) \cup {NoIndex, TornIndex}
  /\ 0 .. MaxFeed = (1 .. MaxFeed) \cup {NoIndex}
  BY FeedAssumption DEF TornIndex, Unread, NoIndex

\* There is no index yet, and nobody has added a server from it.
LEMMA FeedInitially == RFInit => FeedInv
<1> SUFFICES ASSUME RFInit PROVE FeedInv
  OBVIOUS
<1>1. FeedTypes
  BY FeedNumbers DEF RFInit, FeedTypes, SyncStates
<1>2. FilesAre
  BY FeedNumbers DEF RFInit, FilesAre, Writing, NotSyncing
<1>3. AddedAre
  BY DEF RFInit, AddedAre
<1> QED
  BY <1>1, <1>2, <1>3 DEF FeedInv

\* Every step of a reader keeps the two files right while no two writers have met on one name.
LEMMA FeedStep == FeedInv /\ [RFNext]_feedVars => FeedInv'
<1> SUFFICES ASSUME FeedInv, [RFNext]_feedVars
             PROVE  FeedInv'
  OBVIOUS
<1> USE FeedNumbers
<1>0. FeedTypes /\ FilesAre /\ AddedAre
  BY DEF FeedInv
<1>a. ASSUME added' = added PROVE AddedAre'
  BY <1>0, <1>a DEF AddedAre
\* A process that comes to be before the writing, or goes back to it.
<1>b. ASSUME NEW p \in Readers, NEW next \in SyncStates, next.step \notin {"write", "rename"},
             SyncIs(p, next), UNCHANGED <<index, tmp, collided>>
      PROVE  FilesAre'
  <2>1. /\ sync'[p] = next
        /\ \A q \in Readers : q # p => sync'[q] = sync[q]
    BY <1>0, <1>b DEF FeedTypes, SyncIs
  <2>2. \A q \in Readers : Writing(q)' => q # p /\ Writing(q) /\ sync'[q] = sync[q]
    BY <1>b, <2>1 DEF Writing
  <2>3. \A q \in Readers : sync'[q].step = "rename" => q # p /\ sync'[q] = sync[q]
    BY <1>b, <2>1
  <2> QED
    BY <1>0, <1>b, <2>2, <2>3 DEF FilesAre
<1>c. ASSUME NEW p \in Readers, NEW next \in SyncStates, SyncIs(p, next)
      PROVE  sync' \in [Readers -> SyncStates]
  BY <1>0, <1>c DEF FeedTypes, SyncIs
<1>1. ASSUME Publish
      PROVE  FeedInv'
  <2>1. FeedTypes'
    BY <1>0, <1>1 DEF Publish, FeedTypes
  <2>2. FilesAre'
    BY <1>0, <1>1 DEF Publish, FilesAre, Writing
  <2> QED
    BY <1>1, <1>a, <2>1, <2>2 DEF Publish, FeedInv
<1>2. ASSUME NEW p \in Readers, Fetch(p)
      PROVE  FeedInv'
  <2> DEFINE next == [step |-> "compare", version |-> upstream]
  <2>1. /\ SyncIs(p, next) /\ UNCHANGED <<upstream, index, tmp, memo, collided, added>>
        /\ next \in SyncStates /\ next.step \notin {"write", "rename"}
    BY <1>0, <1>2 DEF Fetch, SyncStates, FeedTypes
  <2> HIDE DEF next
  <2>2. FilesAre' /\ sync' \in [Readers -> SyncStates]
    BY <1>b, <1>c, <2>1
  <2> QED
    BY <1>0, <1>a, <2>1, <2>2 DEF FeedInv, FeedTypes
<1>3. ASSUME NEW p \in Readers, Compare(p)
      PROVE  FeedInv'
  <2> DEFINE next == [step |-> "open", version |-> sync[p].version,
                      changed |-> index # sync[p].version]
  <2>1. sync[p].version \in 1 .. MaxFeed
    BY <1>0, <1>3 DEF Compare, FeedTypes, SyncStates, NotSyncing
  <2>2. /\ SyncIs(p, next) /\ UNCHANGED <<upstream, index, tmp, memo, collided, added>>
        /\ next \in SyncStates /\ next.step \notin {"write", "rename"}
    BY <1>3, <2>1 DEF Compare, SyncStates
  <2> HIDE DEF next
  <2>3. FilesAre' /\ sync' \in [Readers -> SyncStates]
    BY <1>b, <1>c, <2>2
  <2> QED
    BY <1>0, <1>a, <2>2, <2>3 DEF FeedInv, FeedTypes
<1>4. ASSUME NEW p \in Readers, Open(p)
      PROVE  FeedInv'
  <2> DEFINE next == Opened(p, "tmp")
  <2>1. sync[p] \in [step : {"open"}, version : 1 .. MaxFeed, changed : BOOLEAN]
    BY <1>0, <1>4 DEF Open, FeedTypes, SyncStates, NotSyncing
  <2>2. next \in SyncStates /\ next.step = "write" /\ next.at = "tmp"
    BY <2>1 DEF Opened, SyncStates
  <2>3. /\ SyncIs(p, next) /\ UNCHANGED <<upstream, index, memo, added>> /\ tmp' = TornIndex
        /\ collided' = (collided \/ \E q \in Readers : Writing(q))
    BY <1>4 DEF Open
  <2> HIDE DEF next
  <2>4. /\ sync'[p] = next
        /\ \A q \in Readers : q # p => sync'[q] = sync[q]
    BY <1>0, <2>3 DEF FeedTypes, SyncIs
  <2>5. FilesAre'
    <3>1. collided' \in BOOLEAN /\ (index' = TornIndex => collided')
      BY <1>0, <2>3 DEF FilesAre
    <3>2. ASSUME ~ collided', NEW q \in Readers, Writing(q)'
          PROVE  q = p
      BY <2>3, <2>4, <3>2 DEF Writing
    <3>3. ASSUME ~ collided', NEW q \in Readers, sync'[q].step = "rename"
          PROVE  FALSE
      BY <2>2, <2>4, <3>2, <3>3 DEF Writing
    <3> QED
      BY <2>2, <2>4, <3>1, <3>2, <3>3 DEF FilesAre
  <2> QED
    BY <1>0, <1>a, <1>c, <2>2, <2>3, <2>5 DEF FeedInv, FeedTypes
<1>5. ASSUME NEW p \in Readers, Store(p)
      PROVE  FeedInv'
  <2>1. sync[p] \in [step : {"write", "rename"}, version : 1 .. MaxFeed, changed : BOOLEAN,
                     at : {"tmp", "index", "none"}]
    BY <1>0, <1>5 DEF Store, FeedTypes, SyncStates, NotSyncing
  <2>2. CASE SyncIs(p, NotSyncing) /\ UNCHANGED <<index, tmp>>
    <3>1. NotSyncing \in SyncStates /\ NotSyncing.step \notin {"write", "rename"}
      BY DEF SyncStates, NotSyncing
    <3>2. UNCHANGED <<upstream, memo, collided, added>>
      BY <1>5 DEF Store
    <3>3. FilesAre' /\ sync' \in [Readers -> SyncStates]
      BY <1>b, <1>c, <2>2, <3>1, <3>2
    <3> QED
      BY <1>0, <1>a, <2>2, <3>2, <3>3 DEF FeedInv, FeedTypes
  <2>3. CASE /\ SyncIs(p, [sync[p] EXCEPT !.step = "rename"])
             /\ \E written \in {sync[p].version} \cup (IF collided THEN {TornIndex} ELSE {}) :
                  /\ index' = IF sync[p].at = "index" THEN written ELSE index
                  /\ tmp' = IF sync[p].at = "tmp" THEN written ELSE tmp
    <3> DEFINE next == [sync[p] EXCEPT !.step = "rename"]
    <3>1. next \in SyncStates /\ next.step = "rename" /\ next.at = sync[p].at
          /\ next.version = sync[p].version
      BY <2>1 DEF SyncStates
    <3> HIDE DEF next
    <3>2. /\ SyncIs(p, next) /\ UNCHANGED <<upstream, memo, collided, added>>
      BY <1>5, <2>3 DEF Store, next
    <3>3. /\ sync'[p] = next
          /\ \A q \in Readers : q # p => sync'[q] = sync[q]
      BY <1>0, <3>2 DEF FeedTypes, SyncIs
    <3>4. \A q \in Readers : Writing(q)' <=> Writing(q)
      BY <1>5, <3>1, <3>3 DEF Store, Writing
    <3>5. /\ index' \in 0 .. TornIndex /\ tmp' \in 0 .. TornIndex
          /\ index' = TornIndex => collided'
      BY <1>0, <2>1, <2>3, <3>2 DEF FeedTypes, FilesAre
    <3>6. ASSUME ~ collided
          PROVE  /\ \A q \in Readers : Writing(q) => q = p
                 /\ sync[p].at = "tmp" /\ tmp' = sync[p].version
      <4>1. Writing(p)
        BY <1>5 DEF Store, Writing
      <4>2. /\ \A q \in Readers : Writing(q) => q = p
            /\ sync[p].at = "tmp"
        BY <1>0, <3>6, <4>1 DEF FilesAre
      <4> QED
        BY <2>3, <3>6, <4>2
    <3>7. FilesAre'
      <4>1. \A q \in Readers : sync'[q].step = "rename" => q = p \/ Writing(q)
        BY <3>3 DEF Writing
      <4>2. collided' = collided /\ collided \in BOOLEAN
        BY <1>0, <3>2 DEF FilesAre
      <4> QED
        BY <3>1, <3>3, <3>4, <3>5, <3>6, <4>1, <4>2 DEF FilesAre
    <3> QED
      BY <1>0, <1>a, <1>c, <3>1, <3>2, <3>5, <3>7 DEF FeedInv, FeedTypes
  <2> QED
    BY <1>5, <2>2, <2>3 DEF Store
<1>6. ASSUME NEW p \in Readers, RenameIndex(p)
      PROVE  FeedInv'
  <2>1. /\ sync[p] \in [step : {"write", "rename"}, version : 1 .. MaxFeed, changed : BOOLEAN,
                        at : {"tmp", "index", "none"}]
        /\ sync[p].step = "rename" /\ Writing(p)
    BY <1>0, <1>6 DEF RenameIndex, FeedTypes, SyncStates, NotSyncing, Writing
  <2>2. PICK names \in [{"tmp", "index", "none"} -> {"tmp", "index", "none"}] :
          sync' = Moved(p, names)
    BY <1>6 DEF RenameIndex
  <2>3. sync' \in [Readers -> SyncStates]
    <3>1. ASSUME NEW q \in Readers, Writing(q)
          PROVE  [sync[q] EXCEPT !.at = names[@]] \in SyncStates
      <4>1. sync[q] \in [step : {"write", "rename"}, version : 1 .. MaxFeed, changed : BOOLEAN,
                         at : {"tmp", "index", "none"}]
        BY <1>0, <3>1 DEF FeedTypes, SyncStates, NotSyncing, Writing
      <4> QED
        BY <4>1 DEF SyncStates
    <3>2. NotSyncing \in SyncStates
      BY DEF SyncStates
    <3>3. \A q \in Readers : sync[q] \in SyncStates
      BY <1>0 DEF FeedTypes
    <3> QED
      BY <2>2, <3>1, <3>2, <3>3 DEF Moved
  <2>4. UNCHANGED <<upstream, collided, added>>
    BY <1>6 DEF RenameIndex
  <2>5. /\ memo' \in [Readers -> (0 .. MaxFeed) \cup {Unread}]
        /\ index' = index \/ index' = tmp
        /\ tmp' = NoIndex
    BY <1>0, <1>6, <2>1 DEF RenameIndex, FeedTypes
  <2>6. FeedTypes'
    BY <1>0, <2>3, <2>4, <2>5 DEF FeedTypes
  <2>7. ASSUME ~ collided
        PROVE  /\ index' # TornIndex
               /\ \A q \in Readers : sync'[q].step \notin {"write", "rename"}
    <3>1. /\ \A q \in Readers : Writing(q) => q = p
          /\ tmp \in 1 .. MaxFeed /\ index # TornIndex
      BY <1>0, <2>1, <2>7 DEF FilesAre
    <3>2. \A q \in Readers : sync'[q] = IF q = p THEN NotSyncing ELSE sync[q]
      BY <2>2, <3>1 DEF Moved
    <3> QED
      BY <2>5, <3>1, <3>2 DEF NotSyncing, Writing
  <2>8. FilesAre'
    BY <1>0, <2>4, <2>7 DEF FilesAre, Writing
  <2> QED
    BY <1>a, <2>4, <2>6, <2>8 DEF FeedInv
<1>7. ASSUME NEW p \in Readers, LoadCache(p)
      PROVE  FeedInv'
  <2>1. /\ memo' \in [Readers -> (0 .. MaxFeed) \cup {Unread}]
        /\ UNCHANGED <<upstream, index, tmp, sync, collided, added>>
    BY <1>0, <1>7 DEF LoadCache, FeedTypes
  <2>2. FeedTypes' /\ FilesAre'
    BY <1>0, <2>1 DEF FeedTypes, FilesAre, Writing
  <2> QED
    BY <1>a, <2>1, <2>2 DEF FeedInv
<1>8. ASSUME NEW p \in Readers, Leaves(p)
      PROVE  FeedInv'
  <2>1. NotSyncing \in SyncStates /\ NotSyncing.step \notin {"write", "rename"}
    BY DEF SyncStates, NotSyncing
  <2>2. /\ SyncIs(p, NotSyncing) /\ UNCHANGED <<upstream, index, tmp, collided, added>>
        /\ memo' \in [Readers -> (0 .. MaxFeed) \cup {Unread}]
    BY <1>0, <1>8 DEF Leaves, FeedTypes
  <2>3. FilesAre' /\ sync' \in [Readers -> SyncStates]
    BY <1>b, <1>c, <2>1, <2>2
  <2> QED
    BY <1>0, <1>a, <2>2, <2>3 DEF FeedInv, FeedTypes
<1>9. ASSUME NEW p \in Readers, AddFromIndex(p)
      PROVE  FeedInv'
  <2>1. UNCHANGED <<upstream, index, tmp, sync, memo, collided>>
    BY <1>9 DEF AddFromIndex
  <2>2. FeedTypes' /\ FilesAre'
    BY <1>0, <2>1 DEF FeedTypes, FilesAre, Writing
  <2>3. AddedAre'
    <3> DEFINE e == Listing[memo[p]]
    <3>1. \/ added' = added
          \/ /\ added' = added \cup {e} /\ memo[p] \in 1 .. MaxFeed
             /\ e # NoListing /\ ~ IsLowTrust(CalculateTrustScore(e))
      BY <1>9 DEF AddFromIndex, Passes
    <3>2. CASE added' = added
      BY <1>a, <3>2
    <3>3. CASE /\ added' = added \cup {e} /\ memo[p] \in 1 .. MaxFeed
               /\ e # NoListing /\ ~ IsLowTrust(CalculateTrustScore(e))
      <4>1. e \in [trust : Int, days : Int, issues : Int, downloads : Int, described : BOOLEAN]
        BY <3>3, FeedAssumption
      <4> HIDE DEF e
      <4>2. CalculateTrustScore(e) \in Int /\ (e.trust <= 0 => CalculateTrustScore(e) \in 0 .. 100)
        BY <4>1, TrustIsNumber, TrustIsBounded
      <4>3. CalculateTrustScore(e) >= 40 /\ (e.trust <= 0 => CalculateTrustScore(e) <= 100)
        BY <3>3, <4>2 DEF IsLowTrust
      <4> QED
        BY <1>0, <3>3, <4>3 DEF AddedAre
    <3> QED
      BY <3>1, <3>2, <3>3
  <2> QED
    BY <2>2, <2>3 DEF FeedInv
<1>10. CASE UNCHANGED feedVars
  <2>1. UNCHANGED <<upstream, index, tmp, sync, memo, collided, added>>
    BY <1>10 DEF feedVars
  <2>2. FeedTypes' /\ FilesAre'
    BY <1>0, <2>1 DEF FeedTypes, FilesAre, Writing
  <2> QED
    BY <1>a, <2>1, <2>2 DEF FeedInv
<1> QED
  BY <1>1, <1>2, <1>3, <1>4, <1>5, <1>6, <1>7, <1>8, <1>9, <1>10 DEF RFNext

\* No reader remembers a torn index, and what was added had the score to be added.
LEMMA FeedFollows == FeedInv => FeedIsSound
<1> SUFFICES ASSUME FeedInv PROVE FeedIsSound
  OBVIOUS
<1>1. \A p \in Readers : memo[p] # TornIndex
  BY FeedNumbers DEF FeedInv, FeedTypes
<1> QED
  BY <1>1 DEF FeedInv, FilesAre, AddedAre, FeedIsSound

-----------------------------------------------------------------------------
\* A walk comes to every node, and to the last of those it looks for.
LEMMA WalksAreWhole ==
  ASSUME NEW cfg, IsFiniteSet(cfg), NEW walk \in Walks(cfg)
  PROVE  /\ Cardinality(cfg) \in Nat
         /\ walk \in [1 .. Cardinality(cfg) -> cfg]
         /\ \A x \in cfg : \E i \in DOMAIN walk : walk[i] = x
<1> DEFINE D == 1 .. Cardinality(cfg)
<1>1. Cardinality(cfg) \in Nat
  BY FS_CardinalityType
<1>2. walk \in [D -> cfg] /\ \A i, j \in D : i # j => walk[i] # walk[j]
  BY DEF Walks, SetToSeqs
<1>3. walk \in Injection(D, cfg)
  BY <1>2 DEF Injection, IsInjective
<1>4. Cardinality(D) = Cardinality(cfg)
  BY <1>1, FS_Interval
<1>5. walk \in Surjection(D, cfg)
  <2> HIDE DEF D
  <2> QED
    BY <1>3, <1>4, FS_Injection
<1> QED
  BY <1>1, <1>2, <1>5 DEF Surjection

\* The last of some places of a walk is one of them: a finite set of places has a largest one.
LEMMA LastIsWalked ==
  ASSUME NEW cfg, IsFiniteSet(cfg), NEW walk \in Walks(cfg),
         NEW places \in SUBSET DOMAIN walk, places # {}
  PROVE  \E i \in places : LastWalked(walk, places) = walk[i]
<1> DEFINE n == Cardinality(cfg)
<1>1. n \in Nat /\ places \in SUBSET (0 .. n)
  BY WalksAreWhole
<1>2. \E m \in places : \A k \in places : k <= m
  <2> HIDE DEF n
  <2> QED
    BY <1>1, BoundedMaximum
<1>3. Max(places) \in places
  BY <1>1, <1>2 DEF Max
<1> QED
  BY <1>3 DEF LastWalked

-----------------------------------------------------------------------------
\* The namespaces are those of the file, and the space of a server is the name of a node that
\* lists it.
SpacesAre ==
  /\ spaceFile \in Files \cup {{}}
  /\ DOMAIN spaces = NamesIn(spaceFile) /\ DOMAIN serverSpace = ServersIn(spaceFile)
  /\ \A name \in NamesIn(spaceFile) : spaces[name] \in spaceFile /\ spaces[name].name = name
  /\ \A s \in ServersIn(spaceFile) :
       \E x \in spaceFile : s \in x.servers /\ serverSpace[s] = x.name
NamespaceInv == SpacesAre /\ SchemasAreOfTools

\* No namespaces are loaded.
LEMMA NamespacesInitially == NSInit => NamespaceInv
  BY DEF NSInit, NamespaceInv, SpacesAre, SchemasAreOfTools, NoSpaces, NamesIn, ServersIn

\* Loading a file gives every namespace and every server a node of this file, the last walked.
LEMMA SpacesLoaded ==
  ASSUME NEW cfg \in Files, LoadSpaces(cfg)
  PROVE  SpacesAre'
<1>1. PICK walk \in Walks(cfg) :
        /\ spaces' = [name \in NamesIn(cfg) |-> LastWalked(walk, Named(walk, name))]
        /\ serverSpace' = [s \in ServersIn(cfg) |-> LastWalked(walk, Claiming(walk, s)).name]
        /\ spaceFile' = cfg
  BY DEF LoadSpaces
<1>2. /\ IsFiniteSet(cfg)
      /\ \A i \in DOMAIN walk : walk[i] \in cfg
      /\ \A x \in cfg : \E i \in DOMAIN walk : walk[i] = x
  BY NamespacesAssumption, WalksAreWhole
<1>3. ASSUME NEW name \in NamesIn(cfg)
      PROVE  spaces'[name] \in cfg /\ spaces'[name].name = name
  <2>1. Named(walk, name) \in SUBSET DOMAIN walk /\ Named(walk, name) # {}
    BY <1>2 DEF NamesIn, Named
  <2>2. PICK i \in Named(walk, name) : LastWalked(walk, Named(walk, name)) = walk[i]
    BY <1>2, <2>1, LastIsWalked
  <2> QED
    BY <1>1, <1>2, <2>2 DEF Named
<1>4. ASSUME NEW s \in ServersIn(cfg)
      PROVE  \E x \in cfg : s \in x.servers /\ serverSpace'[s] = x.name
  <2>1. Claiming(walk, s) \in SUBSET DOMAIN walk /\ Claiming(walk, s) # {}
    BY <1>2 DEF ServersIn, Claiming
  <2>2. PICK i \in Claiming(walk, s) : LastWalked(walk, Claiming(walk, s)) = walk[i]
    BY <1>2, <2>1, LastIsWalked
  <2> QED
    BY <1>1, <1>2, <2>2 DEF Claiming
<1> QED
  BY <1>1, <1>3, <1>4 DEF SpacesAre

\* Every load or discovery keeps the namespaces those of one file.
LEMMA NamespaceStep == NamespaceInv /\ [NSNext]_namespaceVars => NamespaceInv'
<1> SUFFICES ASSUME NamespaceInv, [NSNext]_namespaceVars
             PROVE  NamespaceInv'
  OBVIOUS
<1>1. ASSUME NEW cfg \in Files, LoadSpaces(cfg)
      PROVE  NamespaceInv'
  <2>1. SpacesAre'
    BY <1>1, SpacesLoaded
  <2>2. SchemasAreOfTools'
    BY <1>1 DEF LoadSpaces, NamespaceInv, SchemasAreOfTools
  <2> QED
    BY <2>1, <2>2 DEF NamespaceInv
<1>2. ASSUME UNCHANGED <<spaces, serverSpace, spaceFile>>
      PROVE  SpacesAre'
  BY <1>2 DEF NamespaceInv, SpacesAre
<1>3. ASSUME NEW t \in Schemas, NEW o \in Owners, NEW withSchema \in BOOLEAN,
             RegisterSchema(t, o, withSchema)
      PROVE  NamespaceInv'
  BY <1>2, <1>3 DEF RegisterSchema, NamespaceInv, SchemasAreOfTools
<1>4. ASSUME NEW t \in Schemas, NEW o \in Owners, UnregisterSchema(t, o)
      PROVE  NamespaceInv'
  BY <1>2, <1>4 DEF UnregisterSchema, NamespaceInv, SchemasAreOfTools
<1>5. CASE UNCHANGED namespaceVars
  BY <1>2, <1>5 DEF namespaceVars, NamespaceInv, SchemasAreOfTools
<1> QED
  BY <1>1, <1>3, <1>4, <1>5 DEF NSNext

\* Where the names of a file are unambiguous, every server is in the namespace it is said to be
\* in, and every namespace collects the servers of those below it.
LEMMA NamespacesFollow == NamespaceInv => NamespacesAreSound
<1> SUFFICES ASSUME NamespaceInv, Unambiguous
             PROVE  /\ DOMAIN spaces = NamesIn(spaceFile)
                    /\ \A s \in DOMAIN serverSpace :
                         /\ s \in spaces[serverSpace[s]].servers
                         /\ \A name \in DOMAIN spaces :
                              Undotted /\ serverSpace[s] \in GetChildNamespaces(name)
                                => s \in CollectServers(spaces[name])
                    /\ \A name \in DOMAIN spaces : spaces[name].servers \subseteq DOMAIN serverSpace
  BY DEF NamespaceInv, NamespacesAreSound, ServersAreInTheirSpace
<1>1. SpacesAre
  BY DEF NamespaceInv
<1>2. ASSUME NEW s \in DOMAIN serverSpace
      PROVE  /\ s \in spaces[serverSpace[s]].servers
             /\ \A name \in DOMAIN spaces :
                  Undotted /\ serverSpace[s] \in GetChildNamespaces(name)
                    => s \in CollectServers(spaces[name])
  <2>1. PICK x \in spaceFile : s \in x.servers /\ serverSpace[s] = x.name
    BY <1>1, <1>2 DEF SpacesAre
  <2>2. spaces[x.name] = x
    BY <1>1 DEF SpacesAre, Unambiguous, NamesIn
  <2>3. ASSUME NEW name \in DOMAIN spaces, Undotted, x.name \in GetChildNamespaces(name)
        PROVE  s \in CollectServers(spaces[name])
    <3>1. /\ spaces[name] \in spaceFile /\ spaces[name].name = name
          /\ IsStrictPrefix(name, x.name)
      BY <1>1, <2>3 DEF SpacesAre, GetChildNamespaces
    <3>2. Len(name) \in Nat /\ Len(x.name) \in Nat /\ Len(name) <= Len(x.name)
      <4>1. \A y \in spaceFile : Len(y.name) \in Nat
        <5>1. \A y \in spaceFile : y.name \in Seq(UNION {ToSet(z.name) : z \in spaceFile})
          BY <1>1, NamespacesAssumption DEF SpacesAre
        <5> QED
          BY <5>1, LenProperties
      <4> QED
        BY <3>1, <4>1 DEF IsStrictPrefix, IsPrefix
    <3>3. /\ spaces[name].ends = 1 .. Len(name)
          /\ {k \in x.ends : k <= Len(name)} = 1 .. Len(name)
      BY <2>3, <3>1, <3>2 DEF Undotted
    <3>4. Above(spaces[name], x)
      BY <3>1, <3>3 DEF Above
    <3> QED
      BY <2>1, <3>4 DEF CollectServers, ServersIn
  <2> QED
    BY <2>1, <2>2, <2>3
<1>3. \A name \in DOMAIN spaces : spaces[name].servers \subseteq DOMAIN serverSpace
  BY <1>1 DEF SpacesAre, ServersIn
<1> QED
  BY <1>1, <1>2, <1>3 DEF SpacesAre

-----------------------------------------------------------------------------
\* The two indexes of the tools are functions over the methods and the namespaces, and name the same
\* tools.
RoutingTypes == /\ serverOf \in [Methods -> Hosts \cup {NoHost}]
                /\ inSpace \in [Spaces -> SUBSET Methods]
                /\ live \subseteq Hosts /\ fit \subseteq Hosts
SpacesAgree == \A m \in Methods : m \in inSpace[SpaceOf[m]] <=> serverOf[m] # NoHost
SlotTypes == [method : Methods, at : {"namespace", "server", "name", "owner", "done"},
              host : Hosts \cup {NoHost}]
SlotsAre == (routed = <<>> /\ DOMAIN routed = {}) \/ routed \in [1 .. BatchSize -> SlotTypes]
OffersAre == offers \in [Methods -> [Hosts -> Nat]]
RoutingInv == RoutingTypes /\ SpacesAgree /\ SlotsAre /\ OffersAre

\* A batch of nothing has no slots.
LEMMA NoSlots == DOMAIN <<>> = {}
  OBVIOUS

\* Nothing is registered and no batch is under way.
LEMMA RoutingInitially == TRInit => RoutingInv
<1> SUFFICES ASSUME TRInit PROVE RoutingInv
  OBVIOUS
<1>1. RoutingTypes
  BY DEF TRInit, RoutingTypes
<1>2. SpacesAgree
  BY DEF TRInit, SpacesAgree, Spaces
<1>3. SlotsAre
  BY NoSlots DEF TRInit, SlotsAre
<1>4. OffersAre
  BY DEF TRInit, OffersAre
<1> QED
  BY <1>1, <1>2, <1>3, <1>4 DEF RoutingInv

\* What a step of the batch leaves in its slots.
SlotStep == \/ StartBatch \/ EndBatch
            \/ \E i \in 1 .. BatchSize : \/ RouteByNamespace(i) \/ GetServer(i)
                                         \/ RouteByName(i) \/ GetOwner(i)

\* A step of one slot of the batch leaves every slot well formed.
LEMMA BatchGoesOn == RoutingTypes /\ SlotsAre /\ SlotStep => SlotsAre'
<1> SUFFICES ASSUME RoutingTypes, SlotsAre, SlotStep PROVE SlotsAre'
  OBVIOUS
<1>1. ASSUME NEW i \in 1 .. BatchSize, i \in DOMAIN routed,
             NEW at \in {"namespace", "server", "name", "owner", "done"},
             NEW h \in Hosts \cup {NoHost},
             routed' = [routed EXCEPT ![i].at = at, ![i].host = h]
      PROVE  SlotsAre'
  <2>1. routed \in [1 .. BatchSize -> SlotTypes]
    BY <1>1 DEF SlotsAre
  <2> QED
    BY <1>1, <2>1 DEF SlotsAre, SlotTypes
<1>2. ASSUME NEW i \in 1 .. BatchSize, i \in DOMAIN routed,
             NEW at \in {"namespace", "server", "name", "owner", "done"},
             routed' = [routed EXCEPT ![i].at = at]
      PROVE  SlotsAre'
  <2>1. routed \in [1 .. BatchSize -> SlotTypes]
    BY <1>2, SMTT(60) DEF SlotsAre
  <2> QED
    BY <1>2, <2>1 DEF SlotsAre, SlotTypes
<1>3. ASSUME NEW i \in 1 .. BatchSize, RouteByNamespace(i) PROVE SlotsAre'
  <2>1. i \in DOMAIN routed /\ routed \in [1 .. BatchSize -> SlotTypes]
    BY <1>3 DEF SlotsAre, RouteByNamespace
  <2>2. FindByNamespace(SpaceOf[routed[i].method]) \subseteq Hosts
    <3>1. routed[i].method \in Methods
      BY <2>1 DEF SlotTypes
    <3>2. inSpace[SpaceOf[routed[i].method]] \subseteq Methods
      BY <3>1 DEF RoutingTypes, Spaces
    <3> QED
      BY <3>2 DEF FindByNamespace, RoutingTypes
  <2>3. \/ routed' = [routed EXCEPT ![i].at = "name"]
        \/ \E h \in Hosts : routed' = [routed EXCEPT ![i].at = "server", ![i].host = h]
    BY <1>3, <2>2 DEF RouteByNamespace
  <2> QED
    BY <1>1, <1>2, <2>1, <2>3
<1>4. ASSUME NEW i \in 1 .. BatchSize, GetServer(i) PROVE SlotsAre'
  BY <1>2, <1>4 DEF GetServer
<1>5. ASSUME NEW i \in 1 .. BatchSize, RouteByName(i) PROVE SlotsAre'
  <2>1. i \in DOMAIN routed /\ routed \in [1 .. BatchSize -> SlotTypes]
    BY <1>5 DEF SlotsAre, RouteByName
  <2>2. serverOf[routed[i].method] \in Hosts \cup {NoHost}
    BY <2>1 DEF SlotTypes, RoutingTypes
  <2> QED
    BY <1>1, <1>5, <2>1, <2>2 DEF RouteByName
<1>6. ASSUME NEW i \in 1 .. BatchSize, GetOwner(i) PROVE SlotsAre'
  <2>1. i \in DOMAIN routed /\ routed \in [1 .. BatchSize -> SlotTypes]
    BY <1>6 DEF SlotsAre, GetOwner
  <2> DEFINE h == IF routed[i].host \in live THEN routed[i].host ELSE NoHost
  <2>2. h \in Hosts \cup {NoHost}
    BY DEF RoutingTypes
  <2>3. routed' = [routed EXCEPT ![i].at = "done", ![i].host = h]
    BY <1>6, <2>1 DEF GetOwner, SlotTypes
  <2> HIDE DEF h
  <2> QED
    BY <1>1, <2>1, <2>2, <2>3
<1>7. CASE StartBatch
  BY <1>7 DEF StartBatch, SlotsAre, SlotTypes
<1>8. CASE EndBatch
  BY <1>8, NoSlots DEF EndBatch, SlotsAre
<1> QED
  BY <1>3, <1>4, <1>5, <1>6, <1>7, <1>8 DEF SlotStep

\* Whatever is registered or withdrawn, the two indexes name the same tools.
LEMMA RoutingStep == RoutingInv /\ [TRNext]_routingVars => RoutingInv'
<1> SUFFICES ASSUME RoutingInv, [TRNext]_routingVars PROVE RoutingInv'
  OBVIOUS
<1>0. RoutingTypes /\ SpacesAgree /\ SlotsAre /\ OffersAre
  BY DEF RoutingInv
<1>1. ASSUME UNCHANGED <<serverOf, inSpace, offers, live, fit>>, SlotsAre' PROVE RoutingInv'
  BY <1>0, <1>1 DEF RoutingInv, RoutingTypes, SpacesAgree, OffersAre
<1>2. ASSUME NEW l \in SUBSET Hosts, NEW f \in SUBSET Hosts, live' = l, fit' = f,
             UNCHANGED <<serverOf, inSpace, offers, routed>>
      PROVE  RoutingInv'
  BY <1>0, <1>2 DEF RoutingInv, RoutingTypes, SpacesAgree, OffersAre, SlotsAre
<1>3. ASSUME NEW m \in Methods, NEW h \in Hosts \cup {NoHost}, NEW names \in SUBSET Methods,
             serverOf' = [serverOf EXCEPT ![m] = h],
             inSpace' = [inSpace EXCEPT ![SpaceOf[m]] = names],
             \A x \in Methods : x # m => (x \in names <=> x \in inSpace[SpaceOf[m]]),
             m \in names <=> h # NoHost,
             UNCHANGED <<offers, live, fit, routed>>
      PROVE  RoutingInv'
  <2>1. SpaceOf[m] \in Spaces /\ \A x \in Methods : SpaceOf[x] \in Spaces
    BY DEF Spaces
  <2>2. RoutingTypes'
    BY <1>0, <1>3, <2>1 DEF RoutingTypes
  <2>3. SpacesAgree'
    <3>1. \A x \in Methods : x # m => serverOf'[x] = serverOf[x]
      BY <1>0, <1>3 DEF RoutingTypes
    <3>2. serverOf'[m] = h
      BY <1>0, <1>3 DEF RoutingTypes
    <3>3. \A n \in Spaces : inSpace'[n] = IF n = SpaceOf[m] THEN names ELSE inSpace[n]
      BY <1>0, <1>3 DEF RoutingTypes
    <3> QED
      BY <1>0, <1>3, <2>1, <3>1, <3>2, <3>3 DEF SpacesAgree
  <2> QED
    BY <1>0, <1>3, <2>2, <2>3 DEF RoutingInv, OffersAre, SlotsAre
<1>4. ASSUME NEW h \in Hosts, Enlist(h) \/ Dismiss(h) \/ Ails(h) PROVE RoutingInv'
  <2>1. /\ live' \in SUBSET Hosts /\ fit' \in SUBSET Hosts
        /\ UNCHANGED <<serverOf, inSpace, offers, routed>>
    BY <1>0, <1>4 DEF Enlist, Dismiss, Ails, RoutingTypes
  <2> QED
    BY <1>2, <2>1
<1>5. ASSUME NEW h \in Hosts, NEW m \in Methods, RegisterMethod(m, h) PROVE RoutingInv'
  <2> DEFINE names == inSpace[SpaceOf[m]] \cup {m}
  <2>1. SpaceOf[m] \in Spaces /\ names \in SUBSET Methods
    BY <1>0 DEF Spaces, RoutingTypes
  <2>2. h # NoHost
    BY RoutingAssumption
  <2> QED
    BY <1>0, <1>3, <1>5, <2>1, <2>2 DEF RegisterMethod, RoutingTypes
<1>6. ASSUME NEW m \in Methods, UnregisterMethod(m) PROVE RoutingInv'
  <2> DEFINE names == inSpace[SpaceOf[m]] \ {m}
  <2>1. SpaceOf[m] \in Spaces /\ names \in SUBSET Methods
    BY <1>0 DEF Spaces, RoutingTypes
  <2> QED
    BY <1>0, <1>3, <1>6, <2>1 DEF UnregisterMethod, RoutingTypes
<1>7. ASSUME NEW h \in Hosts, NEW m \in Methods, RegisterTool(h, m) \/ UnregisterTool(h, m)
      PROVE  RoutingInv'
  <2>1. OffersAre'
    BY <1>0, <1>7 DEF RegisterTool, UnregisterTool, OffersAre
  <2>2. UNCHANGED <<serverOf, inSpace, live, fit, routed>>
    BY <1>7 DEF RegisterTool, UnregisterTool
  <2> QED
    BY <1>0, <2>1, <2>2 DEF RoutingInv, RoutingTypes, SpacesAgree, SlotsAre
<1>8. CASE UNCHANGED routingVars
  BY <1>0, <1>1, <1>8 DEF routingVars, SlotsAre
<1>9. CASE SlotStep
  <2>1. SlotsAre'
    BY <1>0, <1>9, BatchGoesOn
  <2>2. UNCHANGED <<serverOf, inSpace, offers, live, fit>>
    BY <1>9 DEF SlotStep, StartBatch, EndBatch, RouteByNamespace, GetServer, RouteByName, GetOwner
  <2> QED
    BY <1>1, <2>1, <2>2
<1> QED
  BY <1>4, <1>5, <1>6, <1>7, <1>8, <1>9 DEF TRNext, SlotStep

\* What is invoked on a server is what the indexes say that it offers.
LEMMA RoutesFollow == RoutingInv => RoutesAreSound
<1> SUFFICES ASSUME RoutingInv PROVE RoutesAreSound
  OBVIOUS
<1>1. SpacesAgree /\ RoutingTypes
  BY DEF RoutingInv
<1> QED
  BY <1>1, RoutingAssumption DEF RoutesAreSound, SpacesAgree, RoutingTypes, Invoked

\* A method's way ends at a server that is there, or because the one it was to end at is not; and a
\* server is not found for a tool that it has withdrawn.
RouteIsFresh ==
  /\ \A i \in DOMAIN routed \cap DOMAIN routed' :
          routed[i].at # "done" /\ routed'[i].at = "done"
            => IF routed'[i].host = NoHost THEN routed[i].host \notin live
                                           ELSE routed'[i].host \in live
  /\ \A h \in Hosts, m \in Methods :
          offers'[m][h] < offers[m][h] => h \notin GetToolServer(m)'

\* No step ends a way at a server that is not there, or finds one for a tool it has withdrawn.
LEMMA RoutesStayFresh == RoutingInv /\ [TRNext]_routingVars => [RouteIsFresh]_routingVars
<1> SUFFICES ASSUME RoutingInv, TRNext PROVE RouteIsFresh
  OBVIOUS
<1>0. RoutingTypes /\ SlotsAre /\ OffersAre
  BY DEF RoutingInv
<1> DEFINE Ways == \A i \in DOMAIN routed \cap DOMAIN routed' :
                     routed[i].at # "done" /\ routed'[i].at = "done"
                       => IF routed'[i].host = NoHost THEN routed[i].host \notin live
                                                      ELSE routed'[i].host \in live
<1>1. ASSUME NEW i \in 1 .. BatchSize, \/ RouteByNamespace(i) \/ GetServer(i)
                                       \/ RouteByName(i) \/ GetOwner(i)
      PROVE  Ways
  <2>1. i \in DOMAIN routed /\ routed \in [1 .. BatchSize -> SlotTypes]
    BY <1>0, <1>1 DEF SlotsAre, RouteByNamespace, GetServer, RouteByName, GetOwner
  <2>2. \A j \in DOMAIN routed : j # i => routed'[j] = routed[j]
    BY <1>1, <2>1 DEF RouteByNamespace, GetServer, RouteByName, GetOwner
  <2>3. NoHost \notin live
    BY <1>0, RoutingAssumption DEF RoutingTypes
  <2>4. CASE RouteByNamespace(i) \/ RouteByName(i)
    <3>1. routed'[i].at # "done"
      BY <2>1, <2>4, ZenonT(60) DEF RouteByNamespace, RouteByName, SlotTypes
    <3> QED
      BY <2>2, <3>1
  <2>5. CASE GetServer(i)
    <3>1. routed'[i].at = "done" => routed'[i].host = routed[i].host /\ routed[i].host \in live
      BY <2>1, <2>5 DEF GetServer, SlotTypes
    <3> QED
      BY <2>2, <2>3, <3>1
  <2>6. CASE GetOwner(i)
    <3>1. routed'[i].host = IF routed[i].host \in live THEN routed[i].host ELSE NoHost
      BY <2>1, <2>6 DEF GetOwner, SlotTypes
    <3> QED
      BY <2>2, <2>3, <3>1
  <2> QED
    BY <1>1, <2>4, <2>5, <2>6
<1>2. ASSUME StartBatch \/ EndBatch PROVE Ways
  <2>1. routed = <<>> \/ routed' = <<>>
    BY <1>2 DEF StartBatch, EndBatch
  <2> QED
    BY <2>1, NoSlots
<1>3. ASSUME UNCHANGED routed PROVE Ways
  BY <1>3
<1>4. Ways
  <2>1. CASE SlotStep
    BY <1>1, <1>2, <2>1 DEF SlotStep
  <2>2. CASE ~ SlotStep
    <3>1. UNCHANGED routed
      BY <2>2 DEF SlotStep, TRNext, Enlist, Dismiss, Ails, RegisterMethod, UnregisterMethod,
                  RegisterTool, UnregisterTool
    <3> QED
      BY <1>3, <3>1
  <2> QED
    BY <2>1, <2>2
<1>5. \A h \in Hosts, m \in Methods : offers'[m][h] < offers[m][h] => h \notin GetToolServer(m)'
  <2>1. CASE UNCHANGED offers
    BY <1>0, <2>1 DEF OffersAre
  <2>2. ASSUME NEW h \in Hosts, NEW m \in Methods, RegisterTool(h, m)
        PROVE  \A k \in Hosts, x \in Methods : ~ (offers'[x][k] < offers[x][k])
    BY <1>0, <2>2 DEF OffersAre, RegisterTool
  <2>3. ASSUME NEW h \in Hosts, NEW m \in Methods, UnregisterTool(h, m)
        PROVE  \A k \in Hosts, x \in Methods : offers'[x][k] < offers[x][k] => offers'[x][k] = 0
    BY <1>0, <2>3 DEF OffersAre, UnregisterTool
  <2>4. CASE \E h \in Hosts, m \in Methods : UnregisterTool(h, m)
    BY <2>3, <2>4 DEF GetToolServer
  <2>5. CASE \E h \in Hosts, m \in Methods : RegisterTool(h, m)
    BY <2>2, <2>5
  <2>6. CASE ~ \E h \in Hosts, m \in Methods : RegisterTool(h, m) \/ UnregisterTool(h, m)
    <3>1. UNCHANGED offers
      BY <2>6 DEF TRNext, Enlist, Dismiss, Ails, RegisterMethod, UnregisterMethod,
        StartBatch, EndBatch, RouteByNamespace, GetServer, RouteByName, GetOwner
    <3> QED
      BY <2>1, <3>1
  <2> QED
    BY <2>4, <2>5, <2>6
<1> QED
  BY <1>4, <1>5 DEF RouteIsFresh

-----------------------------------------------------------------------------
\* The calls between peers.  A call that is at a peer and has not asked it yet has left it out of the
\* peers to visit, and neither run the tool there nor given it up; what is left to visit has not been
\* tried.  A call gets to ask a peer only once the peer has answered, and a peer that has answered is
\* never unknown again.
FedOps == {"connect", "discover", "route", "invoke"}
FedSteps == {"index", "next", "status", "health", "list", "visit", "run", "mark"}
OverSteps == [step : {"over"}, how : {"done", "error"}, op : FedOps, left : SUBSET Peers]
FedGoing == [op : FedOps, step : FedSteps, peer : Peers \cup {NoPeer}, tool : FedTools \cup {NoPeer},
             left : SUBSET Peers, first : Peers \cup {NoPeer}, ran : SUBSET Peers,
             failed : SUBSET Peers]
FedCallTypes == {NoFedCall} \cup FedGoing \cup OverSteps

StepsOf(op) == CASE op = "connect" -> {"health"}
                 [] op = "discover" -> {"status", "health", "list"}
                 [] op = "route" -> {"index", "next", "status", "health", "list"}
                 [] op = "invoke" -> {"visit", "status", "health", "run", "mark"}
GoingRight(r) ==
  /\ r.step \in StepsOf(r.op)
  /\ r.step \in {"status", "health", "list", "run", "mark"} => r.peer \in Peers
  /\ r.step = "index" => r.tool \in FedTools
  /\ r.op # "invoke" => r.ran = {} /\ r.failed = {}
  /\ r.left \cap (r.ran \cup r.failed) = {}
  /\ r.op = "invoke" /\ r.step \in {"status", "health", "run"}
       => r.peer \notin r.left \cup r.ran \cup r.failed
  /\ r.op = "invoke" /\ r.step = "mark" => r.peer \notin r.left
FedRight(r) == /\ r.step \in FedSteps => GoingRight(r)
               /\ r.step = "over" /\ r.op = "invoke" => r.how = "done" \/ r.left = {}
Asks(r, status) == r.step \in {"list", "run"} => status[r.peer] # "unknown"

FedTypes == /\ peerStatus \in [Peers -> Statuses]
            /\ toolIdx \in [FedTools -> Peers \cup {NoPeer}]
            /\ fedCall \in [FedCallers -> FedCallTypes]
IndexKnown == \A t \in FedTools : toolIdx[t] # NoPeer => peerStatus[toolIdx[t]] # "unknown"
FedCallsAre == \A c \in FedCallers : FedRight(fedCall[c]) /\ Asks(fedCall[c], peerStatus)
FedInv == FedTypes /\ IndexKnown /\ FedCallsAre

\* No peer is known and nobody has called.
LEMMA FedInitially == FDInit => FedInv
<1> SUFFICES ASSUME FDInit PROVE FedInv
  OBVIOUS
<1>1. FedTypes
  BY DEF FDInit, FedTypes, Statuses, FedCallTypes
<1>2. IndexKnown
  BY DEF FDInit, IndexKnown
<1>3. FedCallsAre
  BY DEF FDInit, FedCallsAre, FedRight, Asks, NoFedCall, FedSteps
<1> QED
  BY <1>1, <1>2, <1>3 DEF FedInv

\* Statuses change, but none goes back to unknown.
Learns == /\ peerStatus' \in [Peers -> Statuses]
          /\ \A p \in Peers : peerStatus[p] # "unknown" => peerStatus'[p] # "unknown"

\* One call changes, to one that is right again, while the peers only become known.
LEMMA OneFedCallChanges ==
  ASSUME FedInv, NEW c \in FedCallers, NEW r \in FedCallTypes, FedRight(r), Asks(r, peerStatus'),
         fedCall' = [fedCall EXCEPT ![c] = r], Learns,
         toolIdx' \in [FedTools -> Peers \cup {NoPeer}], IndexKnown'
  PROVE  FedInv'
<1>0. FedTypes /\ FedCallsAre
  BY DEF FedInv
<1>1. FedTypes'
  BY <1>0 DEF FedTypes, Learns
<1>2. \A d \in FedCallers : fedCall'[d] = IF d = c THEN r ELSE fedCall[d]
  BY <1>0 DEF FedTypes
<1>3. ASSUME NEW d \in FedCallers, d # c PROVE FedRight(fedCall'[d]) /\ Asks(fedCall'[d], peerStatus')
  <2>1. fedCall'[d] = fedCall[d] /\ fedCall[d] \in FedCallTypes
    BY <1>0, <1>2, <1>3 DEF FedTypes
  <2>2. FedRight(fedCall[d]) /\ Asks(fedCall[d], peerStatus)
    BY <1>0 DEF FedCallsAre
  <2>3. fedCall[d].step \in {"list", "run"} => fedCall[d].peer \in Peers
    BY <2>2 DEF FedRight, GoingRight, FedSteps
  <2> QED
    BY <2>1, <2>2, <2>3 DEF Asks, Learns
<1> QED
  BY <1>1, <1>2, <1>3 DEF FedInv, FedCallsAre

\* A call that only goes on, or ends, while nothing else changes.
LEMMA FedCallGoes ==
  ASSUME FedInv, NEW c \in FedCallers, NEW r \in FedCallTypes, FedRight(r), Asks(r, peerStatus),
         fedCall' = [fedCall EXCEPT ![c] = r], UNCHANGED <<peerStatus, toolIdx>>
  PROVE  FedInv'
<1>1. Learns /\ toolIdx' \in [FedTools -> Peers \cup {NoPeer}] /\ IndexKnown'
  BY DEF FedInv, FedTypes, Learns, IndexKnown
<1> QED
  BY <1>1, OneFedCallChanges

\* A call that is under way has the fields of one that is.
LEMMA FedCallsUnder ==
  ASSUME FedInv, NEW c \in FedCallers, fedCall[c].step \in FedSteps
  PROVE  fedCall[c] \in FedGoing /\ GoingRight(fedCall[c])
<1>1. fedCall[c] \in FedCallTypes /\ FedRight(fedCall[c])
  BY DEF FedInv, FedTypes, FedCallsAre
<1>2. fedCall[c] # NoFedCall /\ fedCall[c] \notin OverSteps
  BY DEF NoFedCall, OverSteps, FedSteps
<1> QED
  BY <1>1, <1>2 DEF FedCallTypes, FedRight

\* A call that goes on keeps everything but the place where it is.
LEMMA GoesRight ==
  ASSUME FedInv, NEW c \in FedCallers, fedCall[c].step \in FedSteps, NEW step \in FedSteps,
         Goes(c, step)
  PROVE  /\ [fedCall[c] EXCEPT !.step = step] \in FedCallTypes
         /\ fedCall' = [fedCall EXCEPT ![c] = [fedCall[c] EXCEPT !.step = step]]
<1>1. fedCall[c] \in FedGoing
  BY FedCallsUnder
<1>2. [fedCall[c] EXCEPT !.step = step] \in FedGoing
  BY <1>1 DEF FedGoing
<1> QED
  BY <1>2 DEF FedCallTypes, Goes

\* A call that is over, done or with nothing left to visit.
LEMMA FedOverRight ==
  ASSUME FedInv, NEW c \in FedCallers, fedCall[c].step \in FedSteps, NEW how \in {"done", "error"},
         FedOver(c, how), fedCall[c].op = "invoke" => how = "done" \/ fedCall[c].left = {}
  PROVE  \E r \in FedCallTypes : /\ FedRight(r) /\ r.step = "over"
                                 /\ fedCall' = [fedCall EXCEPT ![c] = r]
<1>1. fedCall[c] \in FedGoing
  BY FedCallsUnder
<1> DEFINE r == [step |-> "over", how |-> how, op |-> fedCall[c].op, left |-> fedCall[c].left]
<1>2. r \in FedCallTypes
  BY <1>1 DEF FedCallTypes, OverSteps, FedGoing
<1>3. FedRight(r) /\ r.step = "over"
  BY DEF FedRight, FedSteps
<1>4. fedCall' = [fedCall EXCEPT ![c] = r]
  BY DEF FedOver
<1> QED
  BY <1>2, <1>3, <1>4

\* A peer that cannot be asked: the call goes on where it may, and is over where it may not.
LEMMA GivesRight ==
  ASSUME FedInv, NEW c \in FedCallers, fedCall[c].step \in {"health", "list"}, Gives(c)
  PROVE  \E r \in FedCallTypes : /\ FedRight(r) /\ r.step \notin {"list", "run"}
                                 /\ fedCall' = [fedCall EXCEPT ![c] = r]
<1>0. fedCall[c].step \in FedSteps
  BY DEF FedSteps
<1>1. fedCall[c] \in FedGoing /\ GoingRight(fedCall[c])
  BY <1>0, FedCallsUnder
<1>2. CASE fedCall[c].op \in {"connect", "discover"}
  BY <1>0, <1>2, FedOverRight DEF Gives
<1>3. CASE fedCall[c].op = "route"
  <2> DEFINE r == [fedCall[c] EXCEPT !.step = "next"]
  <2>1. Goes(c, "next")
    BY <1>3 DEF Gives
  <2>2. r \in FedCallTypes /\ fedCall' = [fedCall EXCEPT ![c] = r]
    BY <1>0, <2>1, GoesRight DEF FedSteps
  <2>3. FedRight(r) /\ r.step \notin {"list", "run"}
    BY <1>1, <1>3 DEF FedRight, GoingRight, StepsOf, FedGoing, FedSteps
  <2> QED
    BY <2>2, <2>3
<1>4. CASE fedCall[c].op = "invoke"
  <2> DEFINE r == [fedCall[c] EXCEPT !.step = "mark"]
  <2>1. Goes(c, "mark")
    BY <1>4 DEF Gives
  <2>2. r \in FedCallTypes /\ fedCall' = [fedCall EXCEPT ![c] = r]
    BY <1>0, <2>1, GoesRight DEF FedSteps
  <2>3. FedRight(r) /\ r.step \notin {"list", "run"}
    BY <1>1, <1>4 DEF FedRight, GoingRight, StepsOf, FedGoing, FedSteps
  <2> QED
    BY <2>2, <2>3
<1> QED
  BY <1>1, <1>2, <1>3, <1>4 DEF FedGoing, FedOps

\* A call begins, of one of the four operations.
LEMMA FedBegins ==
  ASSUME FedInv, NEW c \in FedCallers, BeginFedCall(c) PROVE FedInv'
<1>1. ASSUME NEW r \in FedGoing, GoingRight(r), r.step \notin {"list", "run", "over"},
             fedCall' = [fedCall EXCEPT ![c] = r]
      PROVE  FedInv'
  <2>1. r \in FedCallTypes /\ FedRight(r) /\ Asks(r, peerStatus)
    BY <1>1 DEF FedCallTypes, FedRight, Asks
  <2>2. UNCHANGED <<peerStatus, toolIdx>>
    BY DEF BeginFedCall
  <2> QED
    BY <1>1, <2>1, <2>2, FedCallGoes
<1>2. ASSUME NEW p \in Peers, NEW op \in {"connect", "discover"},
             fedCall' = [fedCall EXCEPT ![c] =
                        [op |-> op, step |-> IF op = "connect" THEN "health" ELSE "status",
                         peer |-> p, tool |-> NoPeer, left |-> {}, first |-> NoPeer,
                         ran |-> {}, failed |-> {}]]
      PROVE  FedInv'
  <2> DEFINE r == [op |-> op, step |-> IF op = "connect" THEN "health" ELSE "status",
                   peer |-> p, tool |-> NoPeer, left |-> {}, first |-> NoPeer,
                   ran |-> {}, failed |-> {}]
  <2>1. r \in FedGoing
    BY DEF FedGoing, FedOps, FedSteps
  <2>2. GoingRight(r) /\ r.step \notin {"list", "run", "over"}
    BY DEF GoingRight, StepsOf
  <2>3. fedCall' = [fedCall EXCEPT ![c] = r]
    BY <1>2
  <2> HIDE DEF r
  <2> QED
    BY <1>1, <2>1, <2>2, <2>3
<1>3. ASSUME NEW t \in FedTools,
             fedCall' = [fedCall EXCEPT ![c] =
                        [op |-> "route", step |-> "index", peer |-> NoPeer, tool |-> t,
                         left |-> {}, first |-> NoPeer, ran |-> {}, failed |-> {}]]
      PROVE  FedInv'
  <2> DEFINE r == [op |-> "route", step |-> "index", peer |-> NoPeer, tool |-> t,
                   left |-> {}, first |-> NoPeer, ran |-> {}, failed |-> {}]
  <2>1. r \in FedGoing
    BY DEF FedGoing, FedOps, FedSteps
  <2>2. GoingRight(r) /\ r.step \notin {"list", "run", "over"}
    BY DEF GoingRight, StepsOf
  <2>3. fedCall' = [fedCall EXCEPT ![c] = r]
    BY <1>3
  <2> HIDE DEF r
  <2> QED
    BY <1>1, <2>1, <2>2, <2>3
<1> QED
  BY <1>2, <1>3 DEF BeginFedCall

\* The call turns to the failover, at the peer that Route has found.
LEMMA FedTurns ==
  ASSUME FedInv, NEW c \in FedCallers, fedCall[c].step \in FedSteps, fedCall[c].op = "route",
         NEW p \in Peers,
         fedCall' = [fedCall EXCEPT ![c].op = "invoke", ![c].step = "visit", ![c].left = Peers,
                                    ![c].first = p]
  PROVE  \E r \in FedCallTypes : /\ FedRight(r) /\ r.step \notin {"list", "run"}
                                 /\ fedCall' = [fedCall EXCEPT ![c] = r]
<1>1. fedCall[c] \in FedGoing /\ GoingRight(fedCall[c])
  BY FedCallsUnder
<1> DEFINE r == [fedCall[c] EXCEPT !.op = "invoke", !.step = "visit", !.left = Peers, !.first = p]
<1>2. r \in FedGoing
  BY <1>1 DEF FedGoing, FedOps, FedSteps
<1>3. GoingRight(r) /\ r.step \notin {"list", "run", "over"}
  BY <1>1 DEF GoingRight, StepsOf, FedGoing
<1>4. fedCall' = [fedCall EXCEPT ![c] = r]
  OBVIOUS
<1> HIDE DEF r
<1> QED
  BY <1>2, <1>3, <1>4 DEF FedCallTypes, FedRight

\* The call visits a peer that is left, or passes it over.
LEMMA FedVisits ==
  ASSUME FedInv, NEW c \in FedCallers, fedCall[c].step \in FedSteps,
         NEW p \in fedCall[c].left, NEW back \in {"next", "visit"}, fedCall[c].step = back,
         NEW step \in {"status", back},
         fedCall' = [fedCall EXCEPT ![c].left = @ \ {p}, ![c].peer = p, ![c].step = step],
         UNCHANGED <<peerStatus, toolIdx>>
  PROVE  FedInv'
<1>1. fedCall[c] \in FedGoing /\ GoingRight(fedCall[c])
  BY FedCallsUnder
<1> DEFINE r == [fedCall[c] EXCEPT !.left = @ \ {p}, !.peer = p, !.step = step]
<1>2. r \in FedGoing
  BY <1>1 DEF FedGoing, FedSteps
<1>3. GoingRight(r) /\ r.step \notin {"list", "run", "over"}
  <2>1. /\ r.op = fedCall[c].op /\ r.step = step /\ r.peer = p /\ r.left = fedCall[c].left \ {p}
        /\ r.ran = fedCall[c].ran /\ r.failed = fedCall[c].failed
    BY <1>1 DEF FedGoing
  <2>2. p \in Peers /\ p \notin fedCall[c].ran \cup fedCall[c].failed
    BY <1>1 DEF GoingRight, FedGoing
  <2>3. fedCall[c].op \in {"route", "invoke"} /\ step \in StepsOf(fedCall[c].op)
    BY <1>1 DEF GoingRight, StepsOf, FedGoing, FedOps
  <2> HIDE DEF r
  <2> QED
    BY <1>1, <2>1, <2>2, <2>3 DEF GoingRight
<1>4. fedCall' = [fedCall EXCEPT ![c] = r]
  OBVIOUS
<1> HIDE DEF r
<1> QED
  BY <1>2, <1>3, <1>4, FedCallGoes DEF FedCallTypes, FedRight, Asks

\* The call asks the peer it is at, which has answered.
LEMMA FedAsks ==
  ASSUME FedInv, NEW c \in FedCallers, fedCall[c].step \in {"status", "health"},
         fedCall[c].op # "connect",
         Goes(c, IF fedCall[c].op = "invoke" THEN "run" ELSE "list")
  PROVE  \E r \in FedCallTypes : /\ FedRight(r) /\ r.peer = fedCall[c].peer
                                 /\ fedCall' = [fedCall EXCEPT ![c] = r]
<1> DEFINE step == IF fedCall[c].op = "invoke" THEN "run" ELSE "list"
           r == [fedCall[c] EXCEPT !.step = step]
<1>0. fedCall[c].step \in FedSteps /\ step \in FedSteps
  BY DEF FedSteps
<1>1. fedCall[c] \in FedGoing /\ GoingRight(fedCall[c])
  BY <1>0, FedCallsUnder
<1>2. r \in FedCallTypes /\ fedCall' = [fedCall EXCEPT ![c] = r]
  <2> HIDE DEF step
  <2> QED
    BY <1>0, GoesRight DEF step
<1>3. FedRight(r) /\ r.peer = fedCall[c].peer
  BY <1>1 DEF FedRight, GoingRight, StepsOf, FedGoing, FedSteps, FedOps
<1> QED
  BY <1>2, <1>3

\* Every step of a call between peers, or of a peer, keeps the calls right.
LEMMA FedStep == FedInv /\ [FDNext]_fedVars => FedInv'
<1> SUFFICES ASSUME FedInv, [FDNext]_fedVars PROVE FedInv'
  OBVIOUS
<1>0. FedTypes /\ IndexKnown /\ FedCallsAre
  BY DEF FedInv
<1>1. CASE UNCHANGED <<peerStatus, toolIdx, fedCall>>
  BY <1>0, <1>1 DEF FedInv, FedTypes, IndexKnown, FedCallsAre
<1>u. ASSUME NEW c \in FedCallers, fedCall[c].step \in FedSteps
      PROVE  fedCall[c] \in FedGoing /\ GoingRight(fedCall[c])
  BY <1>u, FedCallsUnder
\* Nothing but the call changes, to one that does not ask.
<1>g. ASSUME NEW c \in FedCallers, UNCHANGED <<peerStatus, toolIdx>>,
             \E r \in FedCallTypes : /\ FedRight(r) /\ r.step \notin {"list", "run"}
                                     /\ fedCall' = [fedCall EXCEPT ![c] = r]
      PROVE  FedInv'
  BY <1>g, FedCallGoes DEF Asks
<1>2. ASSUME NEW c \in FedCallers, LookInIndex(c) PROVE FedInv'
  <2>0. fedCall[c].step = "index" /\ fedCall[c].step \in FedSteps
    BY <1>2 DEF LookInIndex, FedSteps
  <2>1. fedCall[c] \in FedGoing /\ GoingRight(fedCall[c]) /\ fedCall[c].op = "route"
    BY <1>u, <2>0 DEF GoingRight, StepsOf, FedGoing, FedOps
  <2>2. toolIdx[fedCall[c].tool] \in Peers \cup {NoPeer}
    BY <1>0, <2>0, <2>1 DEF GoingRight, FedTypes
  <2>3. UNCHANGED <<peerStatus, toolIdx>>
    BY <1>2, SMTT(60) DEF LookInIndex
  <2>4. CASE toolIdx[fedCall[c].tool] # NoPeer
    <3> DEFINE p == toolIdx[fedCall[c].tool]
    <3>1. p \in Peers /\ fedCall' = [fedCall EXCEPT ![c].op = "invoke", ![c].step = "visit",
                                                   ![c].left = Peers, ![c].first = p]
      BY <1>2, <2>2, <2>4 DEF LookInIndex
    <3> HIDE DEF p
    <3> QED
      BY <1>g, <2>0, <2>1, <2>3, <3>1, FedTurns
  <2>5. CASE toolIdx[fedCall[c].tool] = NoPeer
    <3> DEFINE r == [fedCall[c] EXCEPT !.step = "next", !.left = Peers]
    <3>1. r \in FedCallTypes
      BY <2>1 DEF FedGoing, FedCallTypes, FedSteps
    <3>2. FedRight(r) /\ r.step \notin {"list", "run"}
      BY <2>1 DEF FedRight, GoingRight, StepsOf, FedGoing, FedSteps
    <3>3. fedCall' = [fedCall EXCEPT ![c] = r]
      BY <1>2, <2>5 DEF LookInIndex
    <3> QED
      BY <1>g, <2>3, <3>1, <3>2, <3>3
  <2> QED
    BY <2>4, <2>5
<1>3. ASSUME NEW c \in FedCallers, RouteNext(c) \/ Visit(c) PROVE FedInv'
  <2>0. fedCall[c].step \in {"next", "visit"} /\ fedCall[c].step \in FedSteps
    BY <1>3 DEF RouteNext, Visit, FedSteps
  <2>3. UNCHANGED <<peerStatus, toolIdx>>
    BY <1>3 DEF RouteNext, Visit
  <2>4. CASE fedCall[c].left = {}
    <3>1. FedOver(c, "error")
      BY <1>3, <2>4, SMTT(60) DEF RouteNext, Visit
    <3> QED
      BY <1>g, <2>0, <2>3, <2>4, <3>1, FedOverRight
  <2>5. CASE fedCall[c].left # {}
    <3> DEFINE back == fedCall[c].step
    <3>1. PICK p \in fedCall[c].left : fedCall' = [fedCall EXCEPT ![c].left = @ \ {p}, ![c].peer = p,
                          ![c].step = IF peerStatus[p] = "online" THEN "status" ELSE back]
      BY <1>3, <2>5 DEF RouteNext, Visit
    <3> DEFINE step == IF peerStatus[p] = "online" THEN "status" ELSE back
    <3>2. step \in {"status", back}
      OBVIOUS
    <3> HIDE DEF step
    <3> QED
      BY <2>0, <2>3, <3>1, <3>2, FedVisits, ZenonT(60) DEF step
  <2> QED
    BY <2>4, <2>5
<1>4. ASSUME NEW c \in FedCallers, ReadStatus(c) PROVE FedInv'
  <2>0. fedCall[c].step = "status" /\ fedCall[c].step \in FedSteps
    BY <1>4 DEF ReadStatus, FedSteps
  <2>1. fedCall[c] \in FedGoing /\ GoingRight(fedCall[c]) /\ fedCall[c].op # "connect"
    BY <1>u, <2>0 DEF GoingRight, StepsOf
  <2>3. UNCHANGED <<peerStatus, toolIdx>>
    BY <1>4 DEF ReadStatus
  <2>4. CASE peerStatus[fedCall[c].peer] # "online"
    <3> DEFINE r == [fedCall[c] EXCEPT !.step = "health"]
    <3>1. Goes(c, "health")
      BY <1>4, <2>4 DEF ReadStatus
    <3>2. r \in FedCallTypes /\ fedCall' = [fedCall EXCEPT ![c] = r]
      BY <2>0, <3>1, GoesRight DEF FedSteps
    <3>3. FedRight(r) /\ r.step \notin {"list", "run"}
      BY <2>0, <2>1 DEF FedRight, GoingRight, StepsOf, FedGoing, FedSteps, FedOps
    <3> QED
      BY <1>g, <2>3, <3>2, <3>3
  <2>5. CASE peerStatus[fedCall[c].peer] = "online"
    <3>1. Goes(c, IF fedCall[c].op = "invoke" THEN "run" ELSE "list")
      BY <1>4, <2>5 DEF ReadStatus
    <3>2. PICK r \in FedCallTypes : /\ FedRight(r) /\ r.peer = fedCall[c].peer
                                    /\ fedCall' = [fedCall EXCEPT ![c] = r]
      BY <2>0, <2>1, <3>1, FedAsks
    <3>3. Asks(r, peerStatus)
      BY <2>5, <3>2 DEF Asks
    <3> QED
      BY <2>3, <3>2, <3>3, FedCallGoes
  <2> QED
    BY <2>4, <2>5
<1>5. ASSUME NEW c \in FedCallers, Connect(c) PROVE FedInv'
  <2>0. fedCall[c].step = "health" /\ fedCall[c].step \in FedSteps
    BY <1>5 DEF Connect, FedSteps
  <2>1. fedCall[c] \in FedGoing /\ GoingRight(fedCall[c]) /\ fedCall[c].peer \in Peers
    BY <1>u, <2>0 DEF GoingRight
  <2>2. PICK status \in {"online", "offline", "error"} :
          /\ peerStatus' = [peerStatus EXCEPT ![fedCall[c].peer] = status]
          /\ IF status # "online" THEN Gives(c)
             ELSE IF fedCall[c].op = "connect" THEN FedOver(c, "done")
             ELSE Goes(c, IF fedCall[c].op = "invoke" THEN "run" ELSE "list")
    BY <1>5 DEF Connect
  <2>3. Learns /\ peerStatus'[fedCall[c].peer] = status
    BY <1>0, <2>1, <2>2 DEF Learns, FedTypes, Statuses
  <2>4. toolIdx' \in [FedTools -> Peers \cup {NoPeer}] /\ IndexKnown'
    BY <1>0, <1>5, <2>3 DEF Connect, FedTypes, IndexKnown, Learns
  <2>5. \E r \in FedCallTypes : /\ FedRight(r) /\ Asks(r, peerStatus')
                                /\ fedCall' = [fedCall EXCEPT ![c] = r]
    <3>1. CASE status # "online"
      BY <2>0, <2>2, <3>1, GivesRight DEF Asks
    <3>2. CASE status = "online" /\ fedCall[c].op = "connect"
      BY <2>0, <2>2, <3>2, FedOverRight DEF Asks
    <3>3. CASE status = "online" /\ fedCall[c].op # "connect"
      <4>1. Goes(c, IF fedCall[c].op = "invoke" THEN "run" ELSE "list")
        BY <2>2, <3>3
      <4> QED
        BY <2>0, <2>3, <3>3, <4>1, FedAsks DEF Asks
    <3> QED
      BY <3>1, <3>2, <3>3
  <2> QED
    BY <2>3, <2>4, <2>5, OneFedCallChanges
<1>6. ASSUME NEW c \in FedCallers, DiscoverTools(c) PROVE FedInv'
  <2> DEFINE p == fedCall[c].peer
  <2>0. fedCall[c].step = "list" /\ fedCall[c].step \in FedSteps
    BY <1>6 DEF DiscoverTools, FedSteps
  <2>1. /\ fedCall[c] \in FedGoing /\ GoingRight(fedCall[c]) /\ p \in Peers
        /\ fedCall[c].op \in {"discover", "route"}
    BY <1>u, <2>0 DEF GoingRight, StepsOf, FedGoing, FedOps
  <2>2. peerStatus[p] # "unknown"
    BY <1>0, <2>0 DEF FedCallsAre, Asks
  <2>3. Learns
    BY <1>0, <1>6 DEF DiscoverTools, Learns, FedTypes
  <2>4. toolIdx' \in [FedTools -> Peers \cup {NoPeer}] /\ IndexKnown'
    <3>1. \A t \in FedTools : toolIdx'[t] \in {toolIdx[t], p}
      BY <1>6 DEF DiscoverTools
    <3>2. toolIdx' = toolIdx \/ toolIdx' = [t \in FedTools |-> IF t \in offersNow[p] THEN p
                                                               ELSE toolIdx[t]]
      BY <1>6 DEF DiscoverTools
    <3>3. UNCHANGED peerStatus
      BY <1>6 DEF DiscoverTools
    <3>4. toolIdx' \in [FedTools -> Peers \cup {NoPeer}]
      BY <1>0, <2>1, <3>2 DEF FedTypes
    <3> QED
      BY <1>0, <2>2, <3>1, <3>3, <3>4 DEF IndexKnown
  <2>5. \E r \in FedCallTypes : /\ FedRight(r) /\ r.step \notin {"list", "run"}
                                /\ fedCall' = [fedCall EXCEPT ![c] = r]
    <3>1. CASE Gives(c)
      BY <2>0, <3>1, GivesRight
    <3>2. CASE FedOver(c, "done")
      <4>1. PICK r \in FedCallTypes : /\ FedRight(r) /\ r.step = "over"
                                      /\ fedCall' = [fedCall EXCEPT ![c] = r]
        BY <2>0, <3>2, FedOverRight
      <4> QED
        BY <4>1
    <3>3. CASE fedCall[c].op = "route" /\ Goes(c, "next")
      <4> DEFINE r == [fedCall[c] EXCEPT !.step = "next"]
      <4>1. r \in FedCallTypes /\ fedCall' = [fedCall EXCEPT ![c] = r]
        BY <2>0, <3>3, GoesRight DEF FedSteps
      <4>2. FedRight(r) /\ r.step \notin {"list", "run"}
        BY <2>1, <3>3 DEF FedRight, GoingRight, StepsOf, FedGoing, FedSteps
      <4> QED
        BY <4>1, <4>2
    <3>4. CASE /\ fedCall[c].op = "route"
               /\ fedCall' = [fedCall EXCEPT ![c].op = "invoke", ![c].step = "visit",
                                             ![c].left = Peers, ![c].first = p]
      <4> HIDE DEF p
      <4> QED
        BY <2>0, <2>1, <3>4, FedTurns
    <3> QED
      BY <1>6, <3>1, <3>2, <3>3, <3>4 DEF DiscoverTools
  <2> QED
    BY <2>3, <2>4, <2>5, OneFedCallChanges DEF Asks
<1>7. ASSUME NEW c \in FedCallers, Invoke(c) PROVE FedInv'
  <2>0. fedCall[c].step = "run" /\ fedCall[c].step \in FedSteps
    BY <1>7 DEF Invoke, FedSteps
  <2>1. /\ fedCall[c] \in FedGoing /\ GoingRight(fedCall[c]) /\ fedCall[c].peer \in Peers
        /\ fedCall[c].op = "invoke"
    BY <1>u, <2>0 DEF GoingRight, StepsOf, FedGoing, FedOps
  <2>3. UNCHANGED <<peerStatus, toolIdx>>
    BY <1>7 DEF Invoke
  <2>4. ASSUME NEW ran \in {fedCall[c].ran, fedCall[c].ran \cup {fedCall[c].peer}},
               fedCall' = [fedCall EXCEPT ![c] = [fedCall[c] EXCEPT !.step = "mark", !.ran = ran]]
        PROVE  FedInv'
    <3> DEFINE r == [fedCall[c] EXCEPT !.step = "mark", !.ran = ran]
    <3>1. r \in FedCallTypes
      BY <2>1 DEF FedCallTypes, FedGoing, FedSteps
    <3>2. /\ r.op = "invoke" /\ r.step = "mark" /\ r.peer = fedCall[c].peer /\ r.ran = ran
          /\ r.left = fedCall[c].left /\ r.failed = fedCall[c].failed
      BY <2>1 DEF FedGoing
    <3>3. fedCall' = [fedCall EXCEPT ![c] = r]
      BY <2>4
    <3> HIDE DEF r
    <3>4. FedRight(r)
      BY <2>0, <2>1, <3>2 DEF FedRight, GoingRight, StepsOf
    <3> QED
      BY <1>g, <2>3, <3>1, <3>2, <3>3, <3>4
  <2>5. CASE Goes(c, "mark")
    <3>1. [fedCall[c] EXCEPT !.step = "mark", !.ran = fedCall[c].ran]
            = [fedCall[c] EXCEPT !.step = "mark"]
      BY <2>1 DEF FedGoing
    <3> QED
      BY <2>4, <2>5, <3>1 DEF Goes
  <2>6. CASE fedCall' = [fedCall EXCEPT ![c].step = "mark",
                                        ![c].ran = fedCall[c].ran \cup {fedCall[c].peer}]
    BY <2>4, <2>6
  <2>7. CASE FedOver(c, "done")
    <3>1. PICK r \in FedCallTypes : /\ FedRight(r) /\ r.step = "over"
                                    /\ fedCall' = [fedCall EXCEPT ![c] = r]
      BY <2>0, <2>7, FedOverRight
    <3> QED
      BY <1>g, <2>3, <3>1
  <2> QED
    BY <1>7, <2>5, <2>6, <2>7 DEF Invoke, FedOver
<1>8. ASSUME NEW c \in FedCallers, MarkPeerOffline(c) PROVE FedInv'
  <2>0. fedCall[c].step = "mark" /\ fedCall[c].step \in FedSteps
    BY <1>8 DEF MarkPeerOffline, FedSteps
  <2>1. /\ fedCall[c] \in FedGoing /\ GoingRight(fedCall[c]) /\ fedCall[c].peer \in Peers
        /\ fedCall[c].op = "invoke"
    BY <1>u, <2>0 DEF GoingRight, StepsOf, FedGoing, FedOps
  <2> DEFINE r == [fedCall[c] EXCEPT !.step = "visit", !.failed = @ \cup {fedCall[c].peer}]
  <2>2. r \in FedCallTypes
    BY <2>1 DEF FedCallTypes, FedGoing, FedSteps
  <2>3. /\ r.op = "invoke" /\ r.step = "visit" /\ r.ran = fedCall[c].ran /\ r.left = fedCall[c].left
        /\ r.failed = fedCall[c].failed \cup {fedCall[c].peer}
    BY <2>1 DEF FedGoing
  <2>4. fedCall' = [fedCall EXCEPT ![c] = r]
    BY <1>8 DEF MarkPeerOffline
  <2>5. Learns /\ toolIdx' \in [FedTools -> Peers \cup {NoPeer}] /\ IndexKnown'
    BY <1>0, <1>8, <2>1 DEF MarkPeerOffline, Learns, FedTypes, IndexKnown, Statuses
  <2> HIDE DEF r
  <2>6. FedRight(r) /\ Asks(r, peerStatus')
    BY <2>0, <2>1, <2>3 DEF FedRight, GoingRight, StepsOf, Asks
  <2> QED
    BY <2>2, <2>4, <2>5, <2>6, OneFedCallChanges
<1>9. ASSUME NEW c \in FedCallers, EndFedCall(c) PROVE FedInv'
  <2>1. NoFedCall \in FedCallTypes /\ FedRight(NoFedCall) /\ Asks(NoFedCall, peerStatus)
    BY DEF FedCallTypes, FedRight, Asks, NoFedCall, FedSteps
  <2> QED
    BY <1>9, <2>1, FedCallGoes DEF EndFedCall
<1>10. CASE UNCHANGED fedVars
  BY <1>1, <1>10 DEF fedVars
<1>11. ASSUME NEW p \in Peers, PeerChanges(p) PROVE FedInv'
  BY <1>1, <1>11 DEF PeerChanges
<1> QED
  BY <1>2, <1>3, <1>4, <1>5, <1>6, <1>7, <1>8, <1>9, <1>10, <1>11, FedBegins DEF FDNext

\* A failover asks no peer twice, and gives up only when none is left.
LEMMA FailoverFollows == FedInv => FailoverIsSound
<1> SUFFICES ASSUME FedInv PROVE FailoverIsSound
  OBVIOUS
<1>1. ASSUME NEW c \in FedCallers
      PROVE  /\ fedCall[c].step = "run" => fedCall[c].peer \notin fedCall[c].ran \cup fedCall[c].failed
             /\ fedCall[c].step = "over" /\ fedCall[c].op = "invoke"
                  => fedCall[c].how = "done" \/ fedCall[c].left = {}
  <2>1. FedRight(fedCall[c])
    BY DEF FedInv, FedCallsAre
  <2>2. CASE fedCall[c].step = "run"
    <3>1. fedCall[c].step \in FedSteps
      BY <2>2 DEF FedSteps
    <3>2. fedCall[c] \in FedGoing /\ GoingRight(fedCall[c])
      BY <3>1, FedCallsUnder
    <3> QED
      BY <2>2, <3>2 DEF GoingRight, StepsOf, FedGoing, FedOps
  <2> QED
    BY <2>1, <2>2 DEF FedRight
<1> QED
  BY <1>1 DEF FailoverIsSound, FedInv, IndexKnown

-----------------------------------------------------------------------------
\* What follows the name of the server in a stub is the name of the tool.
LEMMA StubSplits ==
  ASSUME NEW s \in Seq(STRING), NEW t \in Seq(STRING)
  PROVE  SubSeq(Stub(s, t), Len(s) + 1, Len(Stub(s, t))) = t
<1> DEFINE n == s \o t
           rest == SubSeq(n, Len(s) + 1, Len(n))
<1>1. /\ n \in Seq(STRING) /\ Len(n) = Len(s) + Len(t)
      /\ \A i \in 1 .. Len(t) : n[Len(s) + i] = t[i]
  BY ConcatProperties
<1>2. Len(s) \in Nat /\ Len(t) \in Nat
  OBVIOUS
<1>3. /\ rest \in Seq(STRING) /\ Len(rest) = Len(t)
      /\ \A i \in 1 .. Len(t) : rest[i] = n[Len(s) + i]
  <2> HIDE DEF n
  <2>1. CASE Len(t) = 0
    BY <1>1, <1>2, <2>1
  <2>2. CASE Len(t) > 0
    BY <1>1, <1>2, <2>2
  <2> QED
    BY <1>2, <2>1, <2>2
<1> HIDE DEF n, rest
<1>4. rest = t
  BY <1>1, <1>2, <1>3, SeqEqual
<1> QED
  BY <1>4 DEF rest, n, Stub

\* A name that has been taken apart at its first part comes together again.
LEMMA ParsedAgain ==
  ASSUME NEW n \in Seq(STRING), n # <<>>
  PROVE  Stub(ParsedServer(n), ParsedTool(n)) = n
<1> DEFINE h == <<Head(n)>>
           t == Tail(n)
<1>1. h \in Seq(STRING) /\ Len(h) = 1 /\ h[1] = n[1]
  BY HeadTailProperties
<1>2. t \in Seq(STRING) /\ Len(t) = Len(n) - 1 /\ \A i \in 1 .. Len(t) : t[i] = n[i + 1]
  BY HeadTailProperties
<1> HIDE DEF h, t
<1>3. /\ h \o t \in Seq(STRING) /\ Len(h \o t) = Len(n) /\ (h \o t)[1] = n[1]
      /\ \A i \in 1 .. Len(t) : (h \o t)[1 + i] = n[1 + i]
  <2>1. /\ h \o t \in Seq(STRING) /\ Len(h \o t) = 1 + Len(t)
        /\ \A i \in 1 .. 1 + Len(t) : (h \o t)[i] = IF i <= 1 THEN h[i] ELSE t[i - 1]
    <3>1. /\ h \o t \in Seq(STRING) /\ Len(h \o t) = Len(h) + Len(t)
          /\ \A i \in 1 .. Len(h) + Len(t) : (h \o t)[i] = IF i <= Len(h) THEN h[i] ELSE t[i - Len(h)]
      <4>1. h \in Seq(STRING) /\ t \in Seq(STRING)
        BY <1>1, <1>2
      <4> QED
        BY ONLY <4>1, ConcatProperties
    <3> QED
      BY ONLY <1>1, <3>1
  <2>2. Len(t) \in Nat /\ Len(n) \in Nat
    BY <1>2
  <2>3. (h \o t)[1] = h[1]
    BY <2>1, <2>2
  <2>4. ASSUME NEW i \in 1 .. Len(t) PROVE (h \o t)[1 + i] = n[1 + i]
    <3>1. 1 + i \in 1 .. Len(h \o t) /\ ~ (1 + i <= 1) /\ (1 + i) - 1 = i /\ 1 + i = i + 1
      BY <2>1, <2>2, <2>4
    <3>2. (h \o t)[1 + i] = t[i]
      BY <2>1, <3>1
    <3> QED
      BY <1>2, <2>4, <3>1, <3>2
  <2> QED
    BY <1>1, <1>2, <2>1, <2>2, <2>3, <2>4
<1>4. h \o t = n
  <2>1. \A i \in 1 .. Len(n) : (h \o t)[i] = n[i]
    <3> SUFFICES ASSUME NEW i \in 1 .. Len(n) PROVE (h \o t)[i] = n[i]
      OBVIOUS
    <3>1. CASE i = 1
      BY <1>3, <3>1
    <3>2. CASE i # 1
      <4>1. Len(n) \in Nat /\ Len(t) = Len(n) - 1
        BY <1>2
      <4> DEFINE j == i - 1
      <4>2. j \in 1 .. Len(t) /\ 1 + j = i
        BY <3>2, <4>1
      <4> HIDE DEF j
      <4> QED
        BY <1>3, <4>2
    <3> QED
      BY <3>1, <3>2
  <2> QED
    BY <1>3, <2>1, SeqEqual
<1> QED
  BY <1>4 DEF h, t, Stub, ParsedServer, ParsedTool

\* The names that tools are listed under are not empty.
LEMMA StubsAreNames == \A n \in Stubs : n \in Seq(STRING) /\ n # <<>>
<1> SUFFICES ASSUME NEW n \in Stubs PROVE n \in Seq(STRING) /\ n # <<>>
  OBVIOUS
<1>0. PICK s \in BackendSet, t \in ToolNames : n = s \o t
  BY DEF Stubs, Stub
<1>1. PICK i \in DOMAIN Backends : s = Backends[i]
  BY DEF BackendSet, ToSet
<1>2. Backends[i] \in Seq(STRING) /\ Backends[i] # <<>>
  BY DiscoveryAssumption
<1>3. t \in Seq(STRING)
  BY DiscoveryAssumption
<1> QED
  <2>1. s \in Seq(STRING) /\ Len(s) > 0 /\ Len(s) \in Nat /\ Len(t) \in Nat
    BY <1>1, <1>2, <1>3
  <2>2. s \o t \in Seq(STRING) /\ Len(s \o t) = Len(s) + Len(t)
    BY <1>3, <2>1, ConcatProperties
  <2>3. Len(s \o t) > 0
    BY <2>1, <2>2
  <2> QED
    BY <1>0, <2>2, <2>3

-----------------------------------------------------------------------------
\* What is listed and cached has passed the filter, and is cached under its own name.
ListedRight(lists) == \A s \in BackendSet : ListIn(lists, s) \subseteq Exposed[s]
Shown(r) == r.server \in BackendSet /\ r.tool \in Exposed[r.server]
Described(n, r) == Shown(r) /\ Stub(r.server, r.tool) = n
ToldRight(answer, lists) ==
  \A r \in answer.tools : /\ Shown(r)
                          /\ answer.surface \in {"schema", "call"}
                               => Stub(r.server, r.tool) = answer.asked
                          /\ answer.surface = "invoke" /\ answer.asked \in ListIn(lists, r.server)
                               => r.tool = answer.asked
ListsAre == DOMAIN listed = BackendSet /\ listed = [s \in BackendSet |-> listed[s]]
            /\ ListedRight(listed)
SchemasAre == \A n \in DOMAIN schemas : Described(n, schemas[n])
NamesInv == ListsAre /\ SchemasAre /\ ToldRight(told, listed)

\* Nothing has been listed, cached or told.
LEMMA NamesInitially == TDInit => NamesInv
<1> SUFFICES ASSUME TDInit PROVE NamesInv
  OBVIOUS
<1>1. ListsAre
  BY DEF TDInit, ListsAre, ListedRight, ListIn
<1>2. SchemasAre
  <2>1. DOMAIN <<>> = {}
    OBVIOUS
  <2> QED
    BY <2>1 DEF TDInit, SchemasAre
<1>3. ToldRight(told, listed)
  BY DEF TDInit, ToldRight, NoAnswer
<1> QED
  BY <1>1, <1>2, <1>3 DEF NamesInv

\* A refusal names no tool, and so none that it should not.
LEMMA NoAnswerIsRight == told' = NoAnswer => ToldRight(told, listed)'
  BY DEF ToldRight, NoAnswer

\* The schema that is cached under a name which some list claims is that of a tool of this name.
LEMMA CachedIsRight ==
  ASSUME NEW lists, ListedRight(lists), NEW n \in Stubs, Claims(lists, n) # {}
  PROVE  Described(n, Cached(lists, n))
<1>1. \A i \in DOMAIN Backends : Backends[i] \in Seq(STRING) /\ Backends[i] \in BackendSet
  BY DiscoveryAssumption DEF BackendSet, ToSet
<1> DEFINE C == Claims(lists, n)
<1>2. C \in SUBSET (0 .. Len(Backends)) /\ Len(Backends) \in Nat
  BY DiscoveryAssumption DEF Claims
<1>3. \E i \in C : \A j \in C : j <= i
  <2> HIDE DEF C
  <2> QED
    BY <1>2, BoundedMaximum DEF C
<1> DEFINE i == CHOOSE x \in C : \A j \in C : j <= x
<1>4. i \in C
  BY <1>3
<1>5. PICK t \in ListIn(lists, Backends[i]) : Stub(Backends[i], t) = n
  BY <1>4 DEF Claims
<1>6. Backends[i] \in Seq(STRING) /\ Backends[i] \in BackendSet
  BY <1>1, <1>4 DEF Claims
<1>7. t \in Exposed[Backends[i]]
  BY <1>5, <1>6 DEF ListedRight
<1>8. t \in Seq(STRING)
  BY <1>6, <1>7, DiscoveryAssumption DEF BackendSet
<1>9. SubSeq(n, Len(Backends[i]) + 1, Len(n)) = t
  BY <1>5, <1>6, <1>8, StubSplits
<1>10. Cached(lists, n) = Tool(Backends[i], SubSeq(n, Len(Backends[i]) + 1, Len(n)))
  BY DEF Cached
<1> HIDE DEF i
<1>11. Cached(lists, n) = [server |-> Backends[i], tool |-> t]
  BY <1>9, <1>10 DEF Tool
<1> QED
  BY <1>5, <1>6, <1>7, <1>11 DEF Described, Shown

\* A listing may be of lists that have just been fetched.
LEMMA ListsAreRight ==
  ASSUME ListsAre, NEW empty \in BOOLEAN, listed' \in Lists(empty) PROVE ListsAre'
<1>1. CASE listed' = listed
  BY <1>1 DEF ListsAre, ListedRight, ListIn
<1>2. ASSUME NEW up \in SUBSET BackendSet,
             listed' = [s \in BackendSet |-> IF s \in up THEN Filtered(s) ELSE listed[s]]
      PROVE  ListsAre'
  BY <1>2 DEF ListsAre, ListedRight, ListIn, Filtered
<1> QED
  BY <1>1, <1>2 DEF Lists

\* Every list, schema and answer shows only what the filter lets through.
LEMMA NamesStep == NamesInv /\ [TDNext]_discoveryVars => NamesInv'
<1> SUFFICES ASSUME NamesInv, [TDNext]_discoveryVars PROVE NamesInv'
  OBVIOUS
<1>0. ListsAre /\ SchemasAre /\ ToldRight(told, listed)
  BY DEF NamesInv
<1>s. UNCHANGED schemas => SchemasAre'
  BY <1>0 DEF SchemasAre
<1>l. UNCHANGED listed => ListsAre'
  BY <1>0 DEF ListsAre, ListedRight, ListIn
<1>1. ASSUME NEW s \in BackendSet, StoreTools(s) PROVE NamesInv'
  <2>1. ListsAre'
    BY <1>0, <1>1 DEF StoreTools, ListsAre, ListedRight, ListIn, Filtered
  <2> QED
    BY <1>1, <1>s, <2>1, NoAnswerIsRight DEF StoreTools, NamesInv
<1>2. ASSUME NEW s \in BackendSet, ListTools(s) PROVE NamesInv'
  <2>1. ListsAre'
    BY <1>0, <1>2, ListsAreRight DEF ListTools
  <2>2. ToldRight(told, listed)'
    <3>1. told' = [surface |-> "list", asked |-> <<>>, tools |-> {Tool(s, t) : t \in ListIn(listed', s)}]
      BY <1>2 DEF ListTools, Tells
    <3>2. \A t \in ListIn(listed', s) : Shown(Tool(s, t))
      BY <2>1 DEF ListsAre, ListedRight, Shown, Tool
    <3>3. told'.surface = "list" /\ \A r \in told'.tools : Shown(r)
      BY <3>1, <3>2
    <3> QED
      BY <3>3 DEF ToldRight
  <2> QED
    BY <1>2, <1>s, <2>1, <2>2 DEF ListTools, NamesInv
<1>3. CASE ToolsList
  <2>1. ListsAre'
    BY <1>0, <1>3, ListsAreRight DEF ToolsList
  <2>2. ToldRight(told, listed)'
    <3>1. told' = [surface |-> "list", asked |-> <<>>,
                   tools |-> UNION {{Tool(s, t) : t \in ListIn(listed', s)} : s \in BackendSet}]
      BY <1>3 DEF ToolsList, Tells
    <3>2. \A s \in BackendSet : \A t \in ListIn(listed', s) : Shown(Tool(s, t))
      BY <2>1 DEF ListsAre, ListedRight, Shown, Tool
    <3>3. told'.surface = "list" /\ \A r \in told'.tools : Shown(r)
      BY <3>1, <3>2
    <3> QED
      BY <3>3 DEF ToldRight
  <2>3. SchemasAre'
    <3> DEFINE names == {n \in Stubs : Claims(listed', n) # {}}
    <3>1. schemas' = [n \in names \cup DOMAIN schemas |->
                      IF n \in names THEN Cached(listed', n) ELSE schemas[n]]
      BY <1>3 DEF ToolsList
    <3>2. \A n \in names : Described(n, Cached(listed', n))
      BY <2>1, CachedIsRight DEF ListsAre
    <3> HIDE DEF names
    <3> QED
      BY <1>0, <3>1, <3>2 DEF SchemasAre
  <2> QED
    BY <2>1, <2>2, <2>3 DEF NamesInv
<1>4. ASSUME NEW s \in BackendSet, NEW t \in ToolNames, UpstreamChanges(s, t) PROVE NamesInv'
  BY <1>4, <1>s, <1>l, NoAnswerIsRight DEF UpstreamChanges, NamesInv
<1>5. ASSUME NEW n \in Stubs, SchemaExpires(n) PROVE NamesInv'
  <2>1. SchemasAre'
    BY <1>0, <1>5 DEF SchemaExpires, SchemasAre
  <2> QED
    BY <1>5, <1>l, <2>1, NoAnswerIsRight DEF SchemaExpires, NamesInv
<1>6. ASSUME NEW n \in Stubs, GetToolSchema(n) PROVE NamesInv'
  <2>1. ASSUME NEW r, Described(n, r), Tells("schema", n, {r}) PROVE ToldRight(told, listed)'
    BY <2>1 DEF Described, Tells, ToldRight
  <2>2. CASE n \in DOMAIN schemas /\ Tells("schema", n, {schemas[n]}) /\ UNCHANGED schemas
    <3>1. Described(n, schemas[n])
      BY <1>0, <2>2 DEF SchemasAre
    <3> QED
      BY <1>6, <1>s, <1>l, <2>1, <2>2, <3>1 DEF GetToolSchema, NamesInv
  <2>3. CASE /\ n \notin DOMAIN schemas /\ FetchSchema(n)
             /\ LET found == Tool(ParsedServer(n), ParsedTool(n))
                IN /\ Tells("schema", n, {found})
                   /\ schemas' = [m \in DOMAIN schemas \cup {n} |->
                                    IF m = n THEN found ELSE schemas[m]]
    <3> DEFINE found == Tool(ParsedServer(n), ParsedTool(n))
    <3>1. Stub(ParsedServer(n), ParsedTool(n)) = n
      BY StubsAreNames, ParsedAgain
    <3>2. Described(n, found)
      BY <2>3, <3>1 DEF Described, Shown, Tool, FetchSchema, Gate
    <3>3. /\ Tells("schema", n, {found})
          /\ schemas' = [m \in DOMAIN schemas \cup {n} |-> IF m = n THEN found ELSE schemas[m]]
      BY <2>3
    <3> HIDE DEF found
    <3>4. SchemasAre'
      BY <1>0, <3>2, <3>3 DEF SchemasAre
    <3> QED
      BY <1>6, <1>l, <2>1, <3>2, <3>3, <3>4 DEF GetToolSchema, NamesInv
  <2>4. CASE n \notin DOMAIN schemas /\ told' = NoAnswer /\ UNCHANGED schemas
    BY <1>6, <1>s, <1>l, <2>4, NoAnswerIsRight DEF GetToolSchema, NamesInv
  <2> QED
    BY <1>6, <2>2, <2>3, <2>4 DEF GetToolSchema
<1>7. ASSUME NEW n \in Stubs, ToolsCall(n) PROVE NamesInv'
  <2> DEFINE r == Tool(ParsedServer(n), ParsedTool(n))
  <2>1. CASE told' = NoAnswer
    BY <1>7, <1>s, <1>l, <2>1, NoAnswerIsRight DEF ToolsCall, NamesInv
  <2>2. CASE /\ Gate(ParsedServer(n), ParsedTool(n)) /\ ParsedServer(n) \in BackendSet
             /\ Tells("call", n, {r})
    <3>1. Stub(ParsedServer(n), ParsedTool(n)) = n
      BY StubsAreNames, ParsedAgain
    <3>2. Described(n, r)
      BY <2>2, <3>1 DEF Described, Shown, Tool, Gate
    <3> HIDE DEF r
    <3>3. ToldRight(told, listed)'
      BY <2>2, <3>2 DEF Described, Tells, ToldRight
    <3> QED
      BY <1>7, <1>s, <1>l, <3>3 DEF ToolsCall, NamesInv
  <2> QED
    BY <1>7, <2>1, <2>2 DEF ToolsCall
<1>8. ASSUME NEW s \in BackendSet, NEW n, InvokeTool(s, n) PROVE NamesInv'
  <2> DEFINE t == Trimmed(s, n)
  <2>1. CASE told' = NoAnswer
    BY <1>8, <1>s, <1>l, <2>1, NoAnswerIsRight DEF InvokeTool, NamesInv
  <2>2. CASE Gate(s, t) /\ Tells("invoke", n, {Tool(s, t)})
    <3>1. Shown(Tool(s, t)) /\ Tool(s, t).server = s /\ Tool(s, t).tool = t
      BY <2>2 DEF Gate, Shown, Tool
    <3>2. n \in ListIn(listed, s) => t = n
      BY DEF Trimmed, Listed
    <3>3. ListIn(listed, s)' = ListIn(listed, s)
      BY <1>8 DEF InvokeTool, ListIn
    <3> HIDE DEF t
    <3>4. ToldRight(told, listed)'
      BY <2>2, <3>1, <3>2, <3>3 DEF Tells, ToldRight
    <3> QED
      BY <1>8, <1>s, <1>l, <3>4 DEF InvokeTool, NamesInv
  <2> QED
    BY <1>8, <2>1, <2>2 DEF InvokeTool
<1>9. CASE UNCHANGED discoveryVars
  BY <1>0, <1>9, <1>s, <1>l DEF discoveryVars, NamesInv, ToldRight, ListIn
<1> QED
  BY <1>1, <1>2, <1>3, <1>4, <1>5, <1>6, <1>7, <1>8, <1>9 DEF TDNext

\* What is cached and told is what the run checks of it.
LEMMA NamesFollow == NamesInv => NamesAreSound
  BY DEF NamesInv, SchemasAre, Described, Shown, ToldRight, NamesAreSound, Listed

-----------------------------------------------------------------------------
\* What a command has read and not written yet keeps the servers of the file, but for the one it is
\* about, as long as nobody has written the file since.
EntryTypes == [name : ServerNames, ok : BOOLEAN, on : BOOLEAN]
FileTypes == [kind : {"whole", "absent", "torn"}, servers : Seq(EntryTypes), extra : BOOLEAN]
Installs == {c \in Commands : c.op = "install"}
Readying == [step : {"load"}, cmd : Commands] \cup [step : {"look", "install"}, cmd : Installs]
Rewriting == [step : {"truncate", "rename", "fill"}, cmd : Commands, fresh : BOOLEAN, next : FileTypes]
RunTypes == {NoCommand} \cup Readying \cup Rewriting
KeepsWhatItRead(r, servers) ==
  r.step \in {"truncate", "rename"} /\ r.fresh => Keeps(servers, r.next.servers, r.cmd)
ConfigTypes == file \in FileTypes /\ run \in [Commanders -> RunTypes]
ConfigInv == ConfigTypes /\ \A p \in Commanders : KeepsWhatItRead(run[p], file.servers)

\* No command runs, and the file is one that commands could have left.
LEMMA ConfigInitially == CFInit => ConfigInv
<1> SUFFICES ASSUME CFInit PROVE ConfigInv
  OBVIOUS
<1>1. ConfigTypes
  <2>1. file \in FileTypes
    <3>1. Absent \in FileTypes
      BY DEF Absent, FileTypes
    <3>2. ASSUME NEW n \in ServerNames
          PROVE  Config(<<[name |-> n, ok |-> TRUE, on |-> TRUE]>>, TRUE) \in FileTypes
      <4>1. [name |-> n, ok |-> TRUE, on |-> TRUE] \in EntryTypes
        BY DEF EntryTypes
      <4>2. <<[name |-> n, ok |-> TRUE, on |-> TRUE]>> \in Seq(EntryTypes)
        BY <4>1
      <4> QED
        BY <4>2 DEF Config, FileTypes
    <3> QED
      BY <3>1, <3>2 DEF CFInit
  <2> QED
    BY <2>1 DEF CFInit, ConfigTypes, RunTypes
<1>2. \A p \in Commanders : KeepsWhatItRead(run[p], file.servers)
  BY DEF CFInit, KeepsWhatItRead, NoCommand
<1> QED
  BY <1>1, <1>2 DEF ConfigInv

\* The index of a server is one at which it is found, or 0.
LEMMA IndexFinds ==
  ASSUME file \in FileTypes, NEW n
  PROVE  Index(n) # 0 => Index(n) \in DOMAIN file.servers /\ file.servers[Index(n)].name = n
<1> DEFINE s == file.servers
           I == {i \in 1 .. Len(s) : s[i].name = n}
           bound == Len(s)
<1>0. bound \in Nat /\ DOMAIN s = 1 .. bound
  BY DEF FileTypes
<1>1. Index(n) = IF I # {} THEN Min(I) ELSE 0
  BY DEF Index, SelectInSeq
<1>2. ASSUME I # {} PROVE Min(I) \in I
  <2> DEFINE J == {bound - i : i \in I}
  <2>1. J \in SUBSET (0 .. bound) /\ J # {}
    <3>1. \A i \in I : i \in 1 .. bound
      OBVIOUS
    <3>2. \A i \in 1 .. bound : bound - i \in 0 .. bound
      <4> HIDE DEF bound
      <4> QED
        BY <1>0
    <3> HIDE DEF I, bound
    <3> QED
      BY <1>2, <3>1, <3>2
  <2>2. PICK m \in J : \A k \in J : k <= m
    <3> HIDE DEF J, bound
    <3> QED
      BY ONLY <1>0, <2>1, BoundedMaximum
  <2>3. \E x \in I : \A y \in I : x <= y
    <3>1. PICK x \in I : m = bound - x
      OBVIOUS
    <3>2. ASSUME NEW y \in I PROVE x <= y
      <4>1. bound - y \in J
        OBVIOUS
      <4>2. bound - y <= bound - x
        BY <2>2, <3>1, <4>1
      <4>3. x \in Nat /\ y \in Nat /\ bound \in Nat
        BY <1>0
      <4> HIDE DEF bound
      <4> QED
        BY <4>2, <4>3
    <3> QED
      BY <3>1, <3>2
  <2> HIDE DEF I
  <2> QED
    BY <2>3 DEF Min
<1> QED
  BY <1>0, <1>1, <1>2

\* One command changes its state, the file stays.
LEMMA OneCommandGoesOn ==
  ASSUME ConfigInv, NEW p \in Commanders, NEW r \in RunTypes, KeepsWhatItRead(r, file.servers),
         run' = [run EXCEPT ![p] = r], UNCHANGED file
  PROVE  ConfigInv'
<1>1. ConfigTypes'
  BY DEF ConfigInv, ConfigTypes
<1>2. \A q \in Commanders : run'[q] = IF q = p THEN r ELSE run[q]
  BY DEF ConfigInv, ConfigTypes
<1> QED
  BY <1>1, <1>2 DEF ConfigInv

\* A command that leaves the file as it is and ends has nothing to keep.
LEMMA CommandLeaves ==
  ASSUME ConfigInv, NEW p \in Commanders, Leave(p), UNCHANGED file PROVE ConfigInv'
<1>1. NoCommand \in RunTypes /\ KeepsWhatItRead(NoCommand, file.servers)
  BY DEF RunTypes, KeepsWhatItRead, NoCommand
<1> QED
  BY <1>1, OneCommandGoesOn DEF Leave

\* A command that has read the file and changed it in memory keeps what it is not about.
LEMMA ReadyKeeps ==
  ASSUME ConfigInv, NEW p \in Commanders, run[p].step \in {"load", "install"},
         NEW applies \in BOOLEAN, NEW step \in {"truncate", "rename"}, NEW servers, NEW extra \in BOOLEAN,
         applies => servers \in Seq(EntryTypes) /\ Keeps(file.servers, servers, run[p].cmd),
         Ready(p, applies, step, servers, extra)
  PROVE  ConfigInv'
<1>0. run[p] \in Readying /\ run[p].cmd \in Commands
  <2>1. run[p] \in RunTypes
    BY DEF ConfigInv, ConfigTypes
  <2>2. run[p] \in Readying
    BY <2>1 DEF RunTypes, Rewriting, NoCommand
  <2> QED
    BY <2>2 DEF Readying, Installs
<1>1. CASE applies /\ Len(servers) <= MaxServers
  <2> DEFINE next == Config(servers, extra)
             r == [step |-> step, cmd |-> run[p].cmd, fresh |-> TRUE, next |-> next]
  <2>1. next \in FileTypes /\ next.servers = servers
    BY <1>1 DEF Config, FileTypes
  <2>2. run' = [run EXCEPT ![p] = r] /\ UNCHANGED file
    BY <1>1 DEF Ready
  <2> HIDE DEF next
  <2>3. r \in RunTypes
    BY <1>0, <2>1 DEF RunTypes, Rewriting
  <2>4. KeepsWhatItRead(r, file.servers)
    BY <1>1, <2>1 DEF KeepsWhatItRead
  <2> HIDE DEF r
  <2> QED
    BY <2>2, <2>3, <2>4, OneCommandGoesOn
<1>2. CASE ~ (applies /\ Len(servers) <= MaxServers)
  BY <1>2, CommandLeaves DEF Ready
<1> QED
  BY <1>1, <1>2

\* An entry added at the end of the file leaves all the others.
LEMMA AppendKeeps ==
  ASSUME file \in FileTypes, NEW e \in EntryTypes, NEW c
  PROVE  /\ Append(file.servers, e) \in Seq(EntryTypes)
         /\ Keeps(file.servers, Append(file.servers, e), c)
<1> DEFINE s == file.servers
           new == Append(s, e)
<1>1. s \in Seq(EntryTypes)
  BY DEF FileTypes
<1> HIDE DEF s
<1>2. /\ new \in Seq(EntryTypes) /\ Len(new) = Len(s) + 1 /\ \A i \in 1 .. Len(s) : new[i] = s[i]
      /\ Len(s) \in Nat /\ DOMAIN s = 1 .. Len(s) /\ DOMAIN new = 1 .. Len(new)
  BY <1>1, AppendProperties
<1> HIDE DEF new
<1>3. \A i \in DOMAIN s : i \in DOMAIN new
  BY <1>2
<1>4. Keeps(s, new, c)
  BY <1>2, <1>3 DEF Keeps
<1> QED
  BY <1>2, <1>4 DEF s, new

\* The removal of an entry removes the one that the command is about.
LEMMA RemoveKeeps ==
  ASSUME file \in FileTypes, NEW c, c.op = "remove", Index(c.name) # 0
  PROVE  /\ RemoveAt(file.servers, Index(c.name)) \in Seq(EntryTypes)
         /\ Keeps(file.servers, RemoveAt(file.servers, Index(c.name)), c)
<1> DEFINE s == file.servers
           i == Index(c.name)
           new == RemoveAt(s, i)
           before == SubSeq(s, 1, i - 1)
           after == SubSeq(s, i + 1, Len(s))
<1>1. s \in Seq(EntryTypes) /\ i \in DOMAIN s /\ s[i].name = c.name
  BY IndexFinds DEF FileTypes
<1> HIDE DEF s, i
<1>2. i \in 1 .. Len(s) /\ Len(s) \in Nat /\ DOMAIN s = 1 .. Len(s)
  BY <1>1
<1>3. /\ before \in Seq(EntryTypes) /\ Len(before) = i - 1
      /\ \A j \in 1 .. i - 1 : before[j] = s[j]
  BY <1>1, <1>2
<1>4. /\ after \in Seq(EntryTypes) /\ Len(after) = Len(s) - i
      /\ \A j \in 1 .. Len(s) - i : after[j] = s[i + j]
  BY <1>1, <1>2, SMTT(60)
<1> HIDE DEF before, after
<1>5. new = before \o after
  BY DEF new, RemoveAt, before, after
<1>6. /\ before \o after \in Seq(EntryTypes)
      /\ Len(before \o after) = Len(before) + Len(after)
      /\ \A j \in 1 .. Len(before) + Len(after) :
           (before \o after)[j] = IF j <= Len(before) THEN before[j] ELSE after[j - Len(before)]
  <2>1. before \in Seq(EntryTypes) /\ after \in Seq(EntryTypes)
    BY <1>3, <1>4
  <2> QED
    BY ONLY <2>1, ConcatProperties
<1> HIDE DEF new
<1>7. new \in Seq(EntryTypes) /\ Len(new) = Len(s) - 1 /\ DOMAIN new = 1 .. Len(s) - 1
  <2>1. new \in Seq(EntryTypes) /\ Len(new) = (i - 1) + (Len(s) - i)
    BY <1>3, <1>4, <1>5, <1>6
  <2> QED
    BY <1>2, <2>1
<1>8. ASSUME NEW j \in DOMAIN s, j # i PROVE \E k \in DOMAIN new : new[k] = s[j]
  <2>1. CASE j < i
    <3>1. j \in 1 .. i - 1 /\ j \in 1 .. Len(s) - 1 /\ j \in 1 .. Len(before) + Len(after)
          /\ j <= Len(before)
      BY <1>2, <1>3, <1>4, <1>8, <2>1
    <3>2. new[j] = s[j]
      BY <1>3, <1>5, <1>6, <3>1
    <3> QED
      BY <1>7, <3>1, <3>2
  <2>2. CASE j > i
    <3> DEFINE k == j - 1
               l == j - i
    <3>1. /\ k \in 1 .. Len(s) - 1 /\ k \in 1 .. Len(before) + Len(after) /\ ~ (k <= Len(before))
          /\ k - Len(before) = l /\ l \in 1 .. Len(s) - i /\ i + l = j
      BY <1>2, <1>3, <1>4, <1>8, <2>2, SMTT(60)
    <3> HIDE DEF k, l
    <3>2. new[k] = s[j]
      BY <1>4, <1>5, <1>6, <3>1
    <3> QED
      BY <1>7, <3>1, <3>2
  <2> QED
    BY <1>2, <1>8, <2>1, <2>2
<1>9. Keeps(s, new, c)
  BY <1>1, <1>8 DEF Keeps
<1> QED
  BY <1>7, <1>9 DEF s, i, new

\* An entry is changed where it stands.
LEMMA ExceptKeeps ==
  ASSUME file \in FileTypes, NEW c, Index(c.name) # 0, NEW e \in EntryTypes,
         \/ c.op = "install" /\ c.how = "force"
         \/ /\ c.op \in {"enable", "disable"}
            /\ e = [file.servers[Index(c.name)] EXCEPT !.on = (c.op = "enable")]
  PROVE  /\ [file.servers EXCEPT ![Index(c.name)] = e] \in Seq(EntryTypes)
         /\ Keeps(file.servers, [file.servers EXCEPT ![Index(c.name)] = e], c)
<1> DEFINE s == file.servers
           i == Index(c.name)
           new == [s EXCEPT ![i] = e]
<1>1. s \in Seq(EntryTypes) /\ i \in DOMAIN s /\ s[i].name = c.name
  BY IndexFinds DEF FileTypes
<1>2. \/ c.op = "install" /\ c.how = "force"
      \/ c.op \in {"enable", "disable"} /\ e = [s[i] EXCEPT !.on = (c.op = "enable")]
  OBVIOUS
<1> HIDE DEF s, i
<1>3. new \in Seq(EntryTypes) /\ DOMAIN new = DOMAIN s
  BY <1>1
<1>4. new[i] = e /\ \A j \in DOMAIN s : j # i => new[j] = s[j]
  BY <1>1
<1> HIDE DEF new
<1>5. ASSUME NEW j \in DOMAIN s
      PROVE  \/ \E k \in DOMAIN new : new[k] = s[j]
             \/ /\ s[j].name = c.name
                /\ \/ c.op = "remove"
                   \/ c.op = "install" /\ c.how = "force"
                   \/ /\ c.op \in {"enable", "disable"}
                      /\ \E k \in DOMAIN new : new[k] = [s[j] EXCEPT !.on = (c.op = "enable")]
  BY <1>1, <1>2, <1>3, <1>4, <1>5
<1>6. Keeps(s, new, c)
  BY <1>5 DEF Keeps
<1> QED
  BY <1>3, <1>6 DEF s, i, new

\* The index of a server is a position, counted from 1, or 0.
LEMMA IndexIsPositive ==
  ASSUME file \in FileTypes, NEW n PROVE Index(n) > 0 <=> Index(n) # 0
<1>1. Index(n) # 0 => Index(n) \in 1 .. Len(file.servers) /\ Len(file.servers) \in Nat
  BY IndexFinds DEF FileTypes
<1> QED
  BY <1>1

\* What a command writes of a server is an entry.
LEMMA EntriesAreTyped ==
  ASSUME NEW c \in Commands, NEW n \in ServerNames
  PROVE  NewEntry(c, n) \in EntryTypes
  BY DEF Commands, NewEntry, EntryTypes

\* Every command is about a server.
LEMMA CommandsName == \A c \in Commands : c.name \in ServerNames
  BY DEF Commands

\* A file can be loaded or it cannot.
LEMMA LoadableIsBoolean == Loadable \in BOOLEAN
  BY DEF Loadable

\* The file is written: whoever has read it before is no longer fresh.
LEMMA WriteKeeps ==
  ASSUME ConfigInv, NEW p \in Commanders, NEW content \in FileTypes, NEW then \in RunTypes,
         then.step \notin {"truncate", "rename"}, Write(p, content, then)
  PROVE  ConfigInv'
<1>0. file' = content /\ run \in [Commanders -> RunTypes]
  BY DEF Write, ConfigInv, ConfigTypes
<1>1. ASSUME NEW q \in Commanders PROVE run'[q] \in RunTypes /\ KeepsWhatItRead(run'[q], file'.servers)
  <2>0. run[q] \in RunTypes
    BY <1>0
  <2>1. run'[q] = IF q = p THEN then
                  ELSE IF run[q].step \in {"truncate", "rename", "fill"}
                         THEN [run[q] EXCEPT !.fresh = FALSE] ELSE run[q]
    BY DEF Write
  <2>2. CASE q = p
    BY <2>1, <2>2 DEF KeepsWhatItRead
  <2>3. CASE q # p /\ run[q].step \in {"truncate", "rename", "fill"}
    <3>1. run[q] \in Rewriting
      BY <2>0, <2>3 DEF RunTypes, Readying, NoCommand
    <3>2. [run[q] EXCEPT !.fresh = FALSE] \in Rewriting /\ ~ [run[q] EXCEPT !.fresh = FALSE].fresh
      BY <3>1 DEF Rewriting
    <3> QED
      BY <2>1, <2>3, <3>2 DEF RunTypes, KeepsWhatItRead
  <2>4. CASE q # p /\ run[q].step \notin {"truncate", "rename", "fill"}
    BY <2>0, <2>1, <2>4 DEF KeepsWhatItRead
  <2> QED
    BY <2>2, <2>3, <2>4
<1>2. run' \in [Commanders -> RunTypes]
  <2>1. run' = [q \in Commanders |-> run'[q]]
    BY DEF Write
  <2> QED
    BY <1>1, <2>1
<1> QED
  BY <1>0, <1>1, <1>2 DEF ConfigInv, ConfigTypes

\* Every step of a command keeps what the others have read and what they hold of the file.
LEMMA ConfigStep == ConfigInv /\ [CFNext]_configVars => ConfigInv'
<1> SUFFICES ASSUME ConfigInv, [CFNext]_configVars PROVE ConfigInv'
  OBVIOUS
<1>0. file \in FileTypes /\ run \in [Commanders -> RunTypes]
  BY DEF ConfigInv, ConfigTypes
<1>f. file.servers \in Seq(EntryTypes) /\ file.extra \in BOOLEAN
  BY <1>0 DEF FileTypes
<1>u. ASSUME NEW p \in Commanders, run[p].step \in {"load", "look", "install"}
      PROVE  /\ run[p] \in Readying /\ run[p].cmd \in Commands
             /\ run[p].cmd.name \in ServerNames
             /\ run[p].step \in {"look", "install"} => run[p].cmd.op = "install"
  <2>1. run[p] \in Readying
    BY <1>0, <1>u DEF RunTypes, Readying, Rewriting, NoCommand
  <2>2. /\ run[p].cmd \in Commands
        /\ run[p].step \in {"look", "install"} => run[p].cmd.op = "install"
    BY <2>1 DEF Readying, Installs
  <2> QED
    BY <2>1, <2>2, CommandsName
<1>w. ASSUME NEW p \in Commanders, run[p].step \in {"truncate", "rename", "fill"}
      PROVE  run[p] \in Rewriting /\ run[p].next \in FileTypes
  <2>1. run[p] \in Rewriting
    BY <1>0, <1>w DEF RunTypes, Readying, Rewriting, NoCommand
  <2> QED
    BY <2>1 DEF Rewriting
<1>1. ASSUME NEW p \in Commanders, Type(p) PROVE ConfigInv'
  <2>1. PICK c \in Commands :
          run' = [run EXCEPT ![p] = [step |-> IF c.op = "install" THEN "look" ELSE "load", cmd |-> c]]
    BY <1>1 DEF Type
  <2> DEFINE r == [step |-> IF c.op = "install" THEN "look" ELSE "load", cmd |-> c]
  <2>2. r \in RunTypes /\ KeepsWhatItRead(r, file.servers)
    BY DEF RunTypes, Readying, Installs, KeepsWhatItRead
  <2>3. run' = [run EXCEPT ![p] = r]
    BY <2>1
  <2> HIDE DEF r
  <2> QED
    BY <1>1, <2>2, <2>3, OneCommandGoesOn DEF Type
<1>2. ASSUME NEW p \in Commanders, AddServer(p) PROVE ConfigInv'
  <2> DEFINE c == run[p].cmd
             e == NewEntry(c, c.name)
             applies == Loadable /\ Index(c.name) = 0
  <2>1. run[p].step = "load" /\ Ready(p, applies, "truncate", Append(file.servers, e), file.extra)
    BY <1>2 DEF AddServer, Loads
  <2>2. e \in EntryTypes
    BY <1>u, <2>1, EntriesAreTyped
  <2>3. applies \in BOOLEAN
    OBVIOUS
  <2> HIDE DEF e, applies
  <2>4. Append(file.servers, e) \in Seq(EntryTypes) /\ Keeps(file.servers, Append(file.servers, e), c)
    BY <1>0, <2>2, AppendKeeps
  <2> QED
    BY <1>f, <2>1, <2>3, <2>4, ReadyKeeps
<1>3. ASSUME NEW p \in Commanders, RemoveServer(p) PROVE ConfigInv'
  <2> DEFINE c == run[p].cmd
             applies == Loadable /\ Index(c.name) > 0
             new == RemoveAt(file.servers, Index(c.name))
  <2>1. /\ run[p].step = "load" /\ c.op = "remove"
        /\ Ready(p, applies, "truncate", new, file.extra)
    BY <1>3 DEF RemoveServer, Loads
  <2>2. applies \in BOOLEAN
    OBVIOUS
  <2>3. applies => new \in Seq(EntryTypes) /\ Keeps(file.servers, new, c)
    BY <1>0, <2>1, IndexIsPositive, RemoveKeeps
  <2> HIDE DEF applies, new
  <2> QED
    BY <1>f, <2>1, <2>2, <2>3, ReadyKeeps
<1>4. ASSUME NEW p \in Commanders, SwitchServer(p) PROVE ConfigInv'
  <2> DEFINE c == run[p].cmd
             i == Index(c.name)
             applies == Loadable /\ i > 0
             e == [file.servers[i] EXCEPT !.on = (c.op = "enable")]
             new == [file.servers EXCEPT ![i].on = (c.op = "enable")]
  <2>1. /\ run[p].step = "load" /\ c.op \in {"enable", "disable"}
        /\ Ready(p, applies, "truncate", new, file.extra)
    BY <1>4 DEF SwitchServer, Loads
  <2>2. applies \in BOOLEAN
    OBVIOUS
  <2>3. ASSUME applies PROVE new \in Seq(EntryTypes) /\ Keeps(file.servers, new, c)
    <3>1. i # 0 /\ i \in DOMAIN file.servers
      BY <1>0, <2>3, IndexIsPositive, IndexFinds
    <3>2. e \in EntryTypes
      <4>1. file.servers[i] \in EntryTypes
        BY <1>f, <3>1
      <4> QED
        BY <4>1 DEF EntryTypes
    <3>3. new = [file.servers EXCEPT ![i] = e]
      OBVIOUS
    <3> QED
      BY <1>0, <2>1, <3>1, <3>2, <3>3, ExceptKeeps, SMTT(60)
  <2> HIDE DEF applies, new
  <2> QED
    BY <1>f, <2>1, <2>2, <2>3, ReadyKeeps
<1>5. ASSUME NEW p \in Commanders, Import(p) PROVE ConfigInv'
  <2> DEFINE c == run[p].cmd
             n == IF Index(c.name) > 0 THEN Alias[c.name] ELSE c.name
             e == NewEntry(c, n)
  <2>1. run[p].step = "load" /\ Ready(p, TRUE, "truncate", Append(file.servers, e), FALSE)
    BY <1>5 DEF Import, Loads
  <2>2. n \in ServerNames
    BY <1>u, <2>1, ConfigAssumption
  <2>3. e \in EntryTypes
    <3> HIDE DEF n
    <3> QED
      BY <1>u, <2>1, <2>2, EntriesAreTyped
  <2> HIDE DEF e
  <2>4. Append(file.servers, e) \in Seq(EntryTypes) /\ Keeps(file.servers, Append(file.servers, e), c)
    BY <1>0, <2>3, AppendKeeps
  <2> QED
    BY <2>1, <2>4, ReadyKeeps
<1>6. ASSUME NEW p \in Commanders, Look(p) PROVE ConfigInv'
  <2> DEFINE c == run[p].cmd
             force == c.how = "force" \/ (Index(c.name) > 0 /\ c.how = "yes")
             d == [c EXCEPT !.how = IF force THEN "force" ELSE "ask"]
             r == [step |-> "install", cmd |-> d]
  <2>0. run[p].step = "look" /\ UNCHANGED file
    BY <1>6 DEF Look
  <2>1. CASE Leave(p)
    BY <2>0, <2>1, CommandLeaves
  <2>2. CASE run' = [run EXCEPT ![p] = r] /\ c.op = "install"
    <3>1. c \in Commands
      BY <1>u, <2>0
    <3>2. d \in Installs
      <4>1. c \in [op : {"install"}, name : ServerNames, ok : {TRUE}, how : {"ask", "yes", "force"}]
        BY <2>2, <3>1 DEF Commands
      <4> HIDE DEF force
      <4>2. d \in [op : {"install"}, name : ServerNames, ok : {TRUE}, how : {"ask", "yes", "force"}]
        BY <4>1
      <4> QED
        BY <4>2 DEF Commands, Installs
    <3> HIDE DEF d
    <3>3. r \in RunTypes /\ KeepsWhatItRead(r, file.servers)
      BY <3>2 DEF RunTypes, Readying, KeepsWhatItRead
    <3> HIDE DEF r
    <3> QED
      BY <2>0, <2>2, <3>3, OneCommandGoesOn
  <2>3. c.op = "install"
    BY <1>u, <2>0
  <2> QED
    BY <1>6, <2>1, <2>2, <2>3 DEF Look
<1>7. ASSUME NEW p \in Commanders, Install(p) PROVE ConfigInv'
  <2> DEFINE c == run[p].cmd
             e == NewEntry(c, c.name)
             applies == Loadable /\ (Index(c.name) = 0 \/ c.how = "force")
  <2>1. run[p].step = "install" /\ Ready(p, applies, "rename", Installed(c), file.extra)
    BY <1>7 DEF Install
  <2>2. e \in EntryTypes
    BY <1>u, <2>1, EntriesAreTyped
  <2>3. applies \in BOOLEAN
    OBVIOUS
  <2>4. ASSUME applies PROVE Installed(c) \in Seq(EntryTypes) /\ Keeps(file.servers, Installed(c), c)
    <3>1. CASE Index(c.name) = 0
      <4>1. Installed(c) = Append(file.servers, e)
        BY <1>0, <3>1, IndexIsPositive DEF Installed
      <4> HIDE DEF e
      <4> QED
        BY <1>0, <2>2, <4>1, AppendKeeps
    <3>2. CASE Index(c.name) # 0 /\ c.op = "install"
      <4>1. Installed(c) = [file.servers EXCEPT ![Index(c.name)] = e]
        BY <1>0, <3>2, IndexIsPositive DEF Installed
      <4>2. c.how = "force"
        BY <2>4, <3>2
      <4> HIDE DEF e
      <4> QED
        BY <1>0, <2>2, <3>2, <4>1, <4>2, ExceptKeeps, SMTT(60)
    <3> QED
      BY <1>u, <2>1, <3>1, <3>2
  <2> HIDE DEF applies
  <2> QED
    BY <1>f, <2>1, <2>3, <2>4, ReadyKeeps
<1>8. ASSUME NEW p \in Commanders, Truncate(p) PROVE ConfigInv'
  <2>1. run[p].step = "truncate" /\ Write(p, Torn, [run[p] EXCEPT !.step = "fill"])
    BY <1>8 DEF Truncate
  <2>2. Torn \in FileTypes
    BY DEF Torn, FileTypes
  <2>3. [run[p] EXCEPT !.step = "fill"] \in Rewriting /\ [run[p] EXCEPT !.step = "fill"].step = "fill"
    BY <1>w, <2>1 DEF Rewriting
  <2> QED
    BY <2>1, <2>2, <2>3, WriteKeeps DEF RunTypes
<1>9. ASSUME NEW p \in Commanders, Fill(p) \/ Rename(p) PROVE ConfigInv'
  <2>1. run[p].step \in {"fill", "rename"} /\ Write(p, run[p].next, NoCommand)
    BY <1>9 DEF Fill, Rename
  <2>2. NoCommand \in RunTypes /\ NoCommand.step \notin {"truncate", "rename"}
    BY DEF RunTypes, NoCommand
  <2> QED
    BY <1>w, <2>1, <2>2, WriteKeeps
<1>10. ASSUME NEW p \in Commanders, GiveUp(p) PROVE ConfigInv'
  BY <1>10, CommandLeaves DEF GiveUp
<1>11. CASE UNCHANGED configVars
  BY <1>11 DEF configVars, ConfigInv, ConfigTypes
<1> QED
  BY <1>1, <1>2, <1>3, <1>4, <1>5, <1>6, <1>7, <1>8, <1>9, <1>10, <1>11 DEF CFNext

\* What OnlyOverlapsLose says of a step.
OverlapsLose ==
  \A p \in Commanders :
       /\ run[p].step \in {"truncate", "rename"} /\ run[p].fresh
       /\ file.kind = "whole" /\ file' # file /\ run'[p] # run[p]
       => Keeps(file.servers, run[p].next.servers, run[p].cmd)

\* What OnlyOverlapsLose says of a step follows from what the commands keep.
LEMMA OverlapsFollow == ConfigInv => OverlapsLose
  BY DEF ConfigInv, KeepsWhatItRead, OverlapsLose

-----------------------------------------------------------------------------
\* Side by side: a step of one part is a step of that part, and leaves the others alone.
LEMMA EachPartSteps ==
  ASSUME [MCNext]_mcVars
  PROVE  /\ [SPNext]_poolsVars /\ [SRNext]_registryVars /\ [TRNext]_routingVars
         /\ [FDNext]_fedVars /\ [PRNext]_procVars /\ [RFNext]_feedVars
         /\ [CFNext]_configVars /\ [TDNext]_discoveryVars /\ [NSNext]_namespaceVars
<1>1. CASE UNCHANGED mcVars
  BY <1>1 DEF mcVars
<1>2. CASE MCNext
  BY <1>2 DEF MCNext
<1> QED
  BY <1>1, <1>2

\* The inductive invariant of the nine parts: each one's own, which no step of another touches.
ServersInv == /\ PoolTablesInv /\ PoolCallsInv /\ RegistryInv /\ ProcInv /\ FeedInv
              /\ NamespaceInv /\ RoutingInv /\ FedInv /\ NamesInv /\ ConfigInv

\* Every part begins right.
LEMMA ServersInitially == MCInit => ServersInv
  BY PoolTablesInitially, PoolCallsInitially, RegistryInitially, ProcInitially, FeedInitially,
     NamespacesInitially, RoutingInitially, FedInitially, NamesInitially, ConfigInitially
     DEF MCInit, ServersInv

\* Every step of any part keeps them all right.
LEMMA ServersStep == ServersInv /\ [MCNext]_mcVars => ServersInv'
  BY EachPartSteps, PoolTablesStep, PoolCallsStep, RegistryStep, ProcStep, FeedStep,
     NamespaceStep, RoutingStep, FedStep, NamesStep, ConfigStep
     DEF ServersInv

\* What the proxy knows of its servers agrees with itself and with what runs, for any number of
\* configurations, identifiers, operators and readers: the tables of the pools, the indexes of
\* the registry, the processes of its manager, the index of the marketplace, the namespaces.
THEOREM TablesKeepSound == MCSpec => []TablesStaySound
<1>1. ServersInv => TablesStaySound
  BY TablesFollow, ProcessesFollow, FeedFollows, NamespacesFollow
     DEF ServersInv, RegistryInv, TablesStaySound
<1> QED
  BY <1>1, ServersInitially, ServersStep, PTL DEF MCSpec

\* A request goes where it should and no more often than it should, for any number of callers,
\* servers and peers: each pool is asked at most once, the registry finds the best of those
\* that suit, a routed name leads to a server that has it, no peer is asked twice, and a tool
\* has one name, which no filter lets through elsewhere.
THEOREM RequestsKeepRight == MCSpec => []RequestsGoRight
<1>1. ServersInv => RequestsGoRight
  BY CallsFollow, BestFollows, RoutesFollow, FailoverFollows, NamesFollow
     DEF ServersInv, RequestsGoRight
<1> QED
  BY <1>1, ServersInitially, ServersStep, PTL DEF MCSpec

\* A route is found only to a server that is registered when it is found, and refused only
\* when the server it was found to has gone; a server that offers a method less often is no
\* longer found by it.
THEOREM RoutesKeepFresh == MCSpec => RoutesAreFresh
<1>1. ServersInv /\ [MCNext]_mcVars => [RouteIsFresh]_routingVars
  BY EachPartSteps, RoutesStayFresh DEF ServersInv
<1> QED
  BY <1>1, ServersInitially, ServersStep, PTL DEF MCSpec, RoutesAreFresh, RouteIsFresh

\* A command that finds the file as it read it loses no server but its own, for any number of
\* commands side by side.
THEOREM OverlapsOnlyLose == MCSpec => OnlyOverlapsLose
<1>1. ServersInv /\ [MCNext]_mcVars => [OverlapsLose]_configVars
  BY OverlapsFollow DEF ServersInv
<1> QED
  BY <1>1, ServersInitially, ServersStep, PTL DEF MCSpec, OnlyOverlapsLose, OverlapsLose
=============================================================================
