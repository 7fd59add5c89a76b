------------------------- MODULE StdioRequestsProofs -------------------------
(***************************************************************************)
(* Safety of StdioRequests for every number of requests, generations and   *)
(* dispatch slots.                                                         *)
(***************************************************************************)
EXTENDS StdioRequests, FiniteSetTheorems, TLAPS

-----------------------------------------------------------------------------
(* Types.  A loop holds a request exactly between Dequeue and its outcome. *)

HeldOK == \A g \in Gens : loop[g] = "held" <=> held[g] # None

\* Later generations have not begun.
Unborn == \A g \in Gens : g > gen => loop[g] = "none"

TypeInv == TypeOK /\ HeldOK /\ Unborn

LEMMA TypeInit == Init => TypeInv
<1> SUFFICES ASSUME Init PROVE TypeInv
  OBVIOUS
<1> USE RequestsAssumption DEF Init, Gens
<1>1. queue \in Seq(Requests) /\ Len(queue) <= MaxConcurrent
  OBVIOUS
<1>2. answer \in [Requests -> {<<>>} \cup ({"result"} \X Requests)
                               \cup {<<"stopping">>, <<"error">>}]
  OBVIOUS
<1>3. delivering \in [Gens -> {<<>>} \cup (Requests \X Requests)]
  OBVIOUS
<1>4. pending \in SUBSET (Nat \X Requests) /\ out \in SUBSET sent
  OBVIOUS
<1>5. sent \in SUBSET (Gens \X Nat \X Requests)
  OBVIOUS
<1>6. /\ wire \in [Requests -> Nat] /\ nextID \in Nat /\ load \in Int /\ slots \in Int
      /\ slots <= MaxConcurrent
  OBVIOUS
<1>7. gen \in Gens /\ stopCh \in SUBSET Gens
  OBVIOUS
<1>8. /\ state \in {"up", "error", "stopped"}
       /\ stopping \in BOOLEAN /\ idleStop \in BOOLEAN
  OBVIOUS
<1>9. alive \in SUBSET Gens
  <2>1. 1 \in Gens OBVIOUS
  <2> QED BY <2>1
<1>10. /\ loop \in [Gens -> {"none", "select", "held", "done"}]
      /\ reader \in [Gens -> {"none", "scan", "done"}]
      /\ held \in [Gens -> Requests \cup {None}]
  OBVIOUS
<1>11. /\ caller \in [Requests -> {"new", "admitted", "waiting", "rejected", "gone"}]
      /\ work \in [Requests -> {"none", "dispatched", "registered", "written",
                                "returning"}]
      /\ via \in [Requests -> 0 .. MaxGen] /\ stdin \in [Requests -> 0 .. MaxGen]
      /\ respCh \in [Requests -> Requests \cup {None}]
  OBVIOUS
<1>12. TypeOK BY <1>1, <1>2, <1>3, <1>4, <1>6, <1>7, <1>10, <1>11, <1>5, <1>9, <1>8, Zenon
    DEF TypeOK
<1>13. HeldOK /\ Unborn BY DEF HeldOK, Unborn
<1> QED BY <1>12, <1>13 DEF TypeInv

LEMMA TypeNext == TypeInv /\ [Next]_vars => TypeInv'
<1> SUFFICES ASSUME TypeInv, [Next]_vars PROVE TypeInv'
  OBVIOUS
<1> USE RequestsAssumption DEF TypeInv, TypeOK, HeldOK, Unborn, lifeVars, loopVars,
      callVars, workVars, wireVars, Gens, Up

<1>1. ASSUME NEW r \in Requests, Calls(r) PROVE TypeInv'
  <2>1. CASE Admit(r) BY <2>1 DEF Admit
  <2>2. CASE Enqueue(r) BY <2>2, SMTT(60) DEF Enqueue
  <2>3. CASE GiveUp(r) BY <2>3 DEF GiveUp
  <2> QED BY <1>1, <2>1, <2>2, <2>3 DEF Calls
<1>2. ASSUME NEW r \in Requests, Works(r) PROVE TypeInv'
  <2>1. CASE Register(r)
    <3>1. pending' \in SUBSET (Nat \X Requests)
      BY <2>1 DEF Register
    <3>2. wire' \in [Requests -> Nat] /\ nextID' \in Nat
      BY <2>1 DEF Register
    <3>3. /\ stdin' \in [Requests -> 0 .. MaxGen]
          /\ work' \in [Requests -> {"none", "dispatched", "registered", "written", "returning"}]
      BY <2>1 DEF Register
    <3> QED BY <2>1, <3>1, <3>2, <3>3 DEF Register
  <2>2. CASE Write(r)
    <3>1. <<stdin[r], wire[r], r>> \in Gens \X Nat \X Requests
      <4>1. stdin[r] \in Gens BY <2>2 DEF Write
      <4> QED BY <4>1
    <3>2. sent' \in SUBSET (Gens \X Nat \X Requests) /\ out' \in SUBSET sent'
      BY <2>2, <3>1 DEF Write
    <3> QED BY <2>2, <3>2 DEF Write
  <2>3. CASE WriteFails(r) BY <2>3 DEF WriteFails, Return, Answered
  <2>4. CASE Receive(r) BY <2>4, ZenonT(60) DEF Receive, Return, Answered
  <2>5. CASE TimeOut(r) BY <2>5 DEF TimeOut, Return, Answered
  <2>6. CASE SeeStop(r) BY <2>6 DEF SeeStop, Return, Answered
  <2>7. CASE Finish(r)
    <3>1. load' \in Int /\ slots' \in Int /\ slots' <= MaxConcurrent
      BY <2>7 DEF Finish
    <3>2. work' \in [Requests -> {"none", "dispatched", "registered", "written", "returning"}]
      BY <2>7 DEF Finish
    <3> QED BY <2>7, <3>1, <3>2 DEF Finish
  <2> QED BY <1>2, <2>1, <2>2, <2>3, <2>4, <2>5, <2>6, <2>7 DEF Works
<1>3. ASSUME NEW g \in Gens, Loops(g) PROVE TypeInv'
  <2>1. CASE Dequeue(g)
    <3>1. /\ Head(queue) \in Requests /\ Tail(queue) \in Seq(Requests)
          /\ Len(Tail(queue)) <= MaxConcurrent
      BY <2>1, SMTT(60) DEF Dequeue
    <3>2. held' \in [Gens -> Requests \cup {None}] /\ load' \in Int
      BY <2>1, <3>1, SMTT(60) DEF Dequeue
    <3>3. HeldOK' /\ Unborn' BY <2>1, <3>1, SMTT(60) DEF Dequeue
    <3> QED BY <2>1, <3>1, <3>2, <3>3 DEF Dequeue
  <2>2. CASE Dispatch(g)
    <3>1. held[g] \in Requests BY <2>2 DEF Dispatch
    <3>2. slots' \in Int /\ slots' <= MaxConcurrent
      BY <2>2 DEF Dispatch
    <3>3. HeldOK' /\ Unborn' BY <2>2 DEF Dispatch
    <3>4. /\ work' \in [Requests -> {"none", "dispatched", "registered", "written", "returning"}]
          /\ via' \in [Requests -> 0 .. MaxGen]
      BY <2>2, <3>1 DEF Dispatch
    <3> QED BY <2>2, <3>2, <3>3, <3>4 DEF Dispatch
  <2>3. CASE Abandon(g)
    <3>1. answer' \in [Requests -> {<<>>} \cup ({"result"} \X Requests)
                                    \cup {<<"stopping">>, <<"error">>}]
      BY <2>3 DEF Abandon, Answered
    <3>2. queue' \in Seq(Requests) /\ Len(queue') <= MaxConcurrent /\ load' \in Int
      BY <2>3 DEF Abandon
    <3>3. HeldOK' /\ Unborn' BY <2>3 DEF Abandon
    <3> QED BY <2>3, <3>1, <3>2, <3>3 DEF Abandon
  <2>4. CASE Drain(g)
    <3>1. answer' \in [Requests -> {<<>>} \cup ({"result"} \X Requests)
                                    \cup {<<"stopping">>, <<"error">>}]
      BY <2>4 DEF Drain, Answered
    <3>2. queue' \in Seq(Requests) /\ Len(queue') <= MaxConcurrent
      BY <2>4 DEF Drain
    <3>3. HeldOK' /\ Unborn' BY <2>4 DEF Drain
    <3> QED BY <2>4, <3>1, <3>2, <3>3 DEF Drain
  <2>5. CASE IdleCheck(g) BY <2>5 DEF IdleCheck
  <2> QED BY <1>3, <2>1, <2>2, <2>3, <2>4, <2>5 DEF Loops
<1>4. ASSUME NEW g \in Gens, Lives(g) PROVE TypeInv'
  <2>1. CASE Exits(g) BY <2>1 DEF Exits
  <2>2. CASE NoticeExit(g) BY <2>2, ZenonT(60) DEF NoticeExit
  <2> QED BY <1>4, <2>1, <2>2 DEF Lives
<1>5. ASSUME NEW g \in Gens, Reads(g) PROVE TypeInv'
  <2>1. ASSUME NEW m \in sent, m[1] = g, ChildAnswers(m) PROVE TypeInv'
    BY <2>1, ZenonT(60) DEF ChildAnswers
  <2>2. ASSUME NEW m \in sent, m[1] = g, Match(m) PROVE TypeInv'
    <3>1. m \in Gens \X Nat \X Requests OBVIOUS
    <3>2. m[3] \in Requests /\ out' \in SUBSET sent'
      BY <2>2, <3>1 DEF Match
    <3>3. ASSUME reader' = NextLine(g), UNCHANGED <<pending, delivering>>
          PROVE  TypeInv'
      BY <2>2, <3>2, <3>3 DEF Match, NextLine
    <3>4. ASSUME NEW e \in pending, pending' = pending \ {e}, UNCHANGED reader,
                 delivering' = [delivering EXCEPT ![g] = <<e[2], m[3]>>]
          PROVE  TypeInv'
      <4>1. <<e[2], m[3]>> \in Requests \X Requests BY <3>2, SMTT(60)
      <4>2. delivering' \in [Gens -> {<<>>} \cup (Requests \X Requests)]
        BY <4>1, <3>4
      <4> QED BY <2>2, <3>2, <3>4, <4>2 DEF Match
    <3> QED BY <2>2, <3>3, <3>4 DEF Match
  <2>3. CASE Deliver(g) BY <2>3 DEF Deliver, NextLine
  <2>4. CASE ReaderEnds(g) BY <2>4 DEF ReaderEnds
  <2> QED BY <1>5, <2>1, <2>2, <2>3, <2>4 DEF Reads
<1>6. CASE Stop BY <1>6, ZenonT(60) DEF Stop, StopLocked
<1>7. CASE IdleStops BY <1>7, ZenonT(60) DEF IdleStops, StopLocked
<1>8. CASE Stopped BY <1>8 DEF Stopped
<1>9. CASE Respawn
  <2>1. gen + 1 \in Gens BY <1>9 DEF Respawn
  <2>2. HeldOK' /\ Unborn' BY <1>9, <2>1 DEF Respawn
  <2> QED BY <1>9, <2>1, <2>2, ZenonT(60) DEF Respawn
<1>10. CASE UNCHANGED vars BY <1>10 DEF vars
<1> QED BY <1>1, <1>2, <1>3, <1>4, <1>5, <1>6, <1>7, <1>8, <1>9, <1>10 DEF Next

\* Every variable has its type in every reachable state.
THEOREM TypeCorrect == Spec => []TypeOK
<1> TypeInv => TypeOK BY DEF TypeInv
<1> QED BY TypeInit, TypeNext, PTL DEF Spec

-----------------------------------------------------------------------------
(* A request passes this path once: it is queued, held or processed in one *)
(* place only, and has a wire ID only after Register.                      *)

Fresh(r) ==
  caller[r] \in {"waiting", "gone"} /\ work[r] = "none" /\ wire[r] = 0

QueueOnce ==
  /\ \A i \in 1 .. Len(queue) : Fresh(queue[i])
  /\ \A i, j \in 1 .. Len(queue) : queue[i] = queue[j] => i = j

HeldOnce ==
  /\ \A g \in Gens : held[g] # None =>
       Fresh(held[g]) /\ \A i \in 1 .. Len(queue) : queue[i] # held[g]
  /\ \A g, h \in Gens : held[g] # None /\ held[g] = held[h] => g = h

WorkOnce ==
  \A r \in Requests :
    /\ caller[r] \in {"new", "admitted", "rejected"} => work[r] = "none" /\ wire[r] = 0
    /\ work[r] = "dispatched" => wire[r] = 0
    /\ work[r] \in {"registered", "written", "returning"} => wire[r] # 0

OnceInv == QueueOnce /\ HeldOnce /\ WorkOnce

LEMMA OnceInit == Init => OnceInv
BY DEF Init, OnceInv, QueueOnce, HeldOnce, WorkOnce, Gens

\* Steps that take no request out of the queue or a loop's hands.
LEMMA OnceFrame ==
  ASSUME TypeInv, OnceInv, UNCHANGED <<queue, held>>, WorkOnce',
         \A r \in Requests : Fresh(r) => Fresh(r)'
  PROVE  OnceInv'
<1> USE DEF TypeInv, TypeOK, OnceInv
<1>1. \A i \in 1 .. Len(queue) : queue[i] \in Requests
  OBVIOUS
<1>2. QueueOnce' BY <1>1 DEF QueueOnce
<1>3. HeldOnce' BY DEF HeldOnce
<1> QED BY <1>2, <1>3

LEMMA OnceNext == TypeInv /\ OnceInv /\ [Next]_vars => OnceInv'
<1> SUFFICES ASSUME TypeInv, OnceInv, [Next]_vars PROVE OnceInv'
  OBVIOUS
<1>0. /\ queue \in Seq(Requests) /\ Len(queue) \in Nat
      /\ \A i \in 1 .. Len(queue) : queue[i] \in Requests
  BY DEF TypeInv, TypeOK
<1>w. WorkOnce BY DEF OnceInv
<1> USE RequestsAssumption, <1>0, <1>w DEF lifeVars, loopVars, callVars, workVars,
      wireVars, Gens, Up

<1>1. ASSUME NEW r \in Requests, Calls(r) PROVE OnceInv'
  <2>1. CASE Admit(r)
    <3>1. UNCHANGED <<queue, held>> /\ \A q \in Requests : Fresh(q) => Fresh(q)'
      BY <2>1 DEF Admit, Fresh, TypeInv, TypeOK
    <3>2. WorkOnce' BY <2>1 DEF Admit, WorkOnce, TypeInv, TypeOK
    <3> QED BY <3>1, <3>2, OnceFrame
  <2>2. CASE Enqueue(r)
    <3>1. /\ caller[r] = "admitted" /\ UNCHANGED <<work, wire, held>>
          /\ \A q \in Requests : caller'[q] = IF q = r THEN "waiting" ELSE caller[q]
      BY <2>2 DEF Enqueue, TypeInv, TypeOK
    <3>2. queue' = Append(queue, r) BY <2>2 DEF Enqueue
    <3>3. /\ Len(queue') = Len(queue) + 1
          /\ \A i \in 1 .. Len(queue') : queue'[i] = IF i <= Len(queue) THEN queue[i] ELSE r
      BY <3>2
    <3>4. /\ \A i \in 1 .. Len(queue) : Fresh(queue[i])
          /\ \A i, j \in 1 .. Len(queue) : queue[i] = queue[j] => i = j
      BY DEF OnceInv, QueueOnce
    <3>5. \A i \in 1 .. Len(queue) : queue[i] # r
      BY <3>1, <3>4 DEF Fresh
    <3>6. \A q \in Requests : Fresh(q) => Fresh(q)'
      BY <3>1 DEF Fresh
    <3>7. Fresh(r)'
      BY <3>1 DEF Fresh, WorkOnce
    <3>8. QueueOnce' BY <3>3, <3>4, <3>5, <3>6, <3>7, SMTT(60) DEF QueueOnce
    <3>9. \A g \in Gens : held[g] # None => held[g] # r /\ Fresh(held[g])'
      BY <3>1, <3>6, SMTT(60) DEF OnceInv, HeldOnce, Fresh, TypeInv, TypeOK
    <3>10. HeldOnce' BY <3>1, <3>3, <3>9 DEF OnceInv, HeldOnce
    <3>11. WorkOnce' BY <3>1 DEF WorkOnce
    <3> QED BY <3>8, <3>10, <3>11 DEF OnceInv
  <2>3. CASE GiveUp(r)
    <3>1. UNCHANGED <<queue, held>> /\ \A q \in Requests : Fresh(q) => Fresh(q)'
      BY <2>3 DEF GiveUp, Fresh, TypeInv, TypeOK
    <3>2. WorkOnce' BY <2>3 DEF GiveUp, WorkOnce, TypeInv, TypeOK
    <3> QED BY <3>1, <3>2, OnceFrame
  <2> QED BY <1>1, <2>1, <2>2, <2>3 DEF Calls
<1>2. ASSUME NEW r \in Requests, Works(r) PROVE OnceInv'
  <2>1. CASE Register(r)
    <3>1. UNCHANGED <<queue, held>> /\ \A q \in Requests : Fresh(q) => Fresh(q)'
      BY <2>1 DEF Register, Fresh, TypeInv, TypeOK
    <3>2. WorkOnce' BY <2>1 DEF Register, WorkOnce, TypeInv, TypeOK
    <3> QED BY <3>1, <3>2, OnceFrame
  <2>2. CASE Write(r)
    <3>1. UNCHANGED <<queue, held>> /\ \A q \in Requests : Fresh(q) => Fresh(q)'
      BY <2>2 DEF Write, Fresh, TypeInv, TypeOK
    <3>2. WorkOnce' BY <2>2 DEF Write, WorkOnce, TypeInv, TypeOK
    <3> QED BY <3>1, <3>2, OnceFrame
  <2>3. CASE WriteFails(r)
    <3>1. UNCHANGED <<queue, held>> /\ \A q \in Requests : Fresh(q) => Fresh(q)'
      BY <2>3 DEF WriteFails, Return, Answered, Fresh, TypeInv, TypeOK
    <3>2. WorkOnce' BY <2>3 DEF WriteFails, Return, Answered, WorkOnce, TypeInv, TypeOK
    <3> QED BY <3>1, <3>2, OnceFrame
  <2>4. CASE Receive(r)
    <3>1. UNCHANGED <<queue, held>> /\ \A q \in Requests : Fresh(q) => Fresh(q)'
      BY <2>4 DEF Receive, Return, Answered, Fresh, TypeInv, TypeOK
    <3>2. WorkOnce' BY <2>4, SMTT(60) DEF Receive, Return, Answered, WorkOnce, TypeInv, TypeOK
    <3> QED BY <3>1, <3>2, OnceFrame
  <2>5. CASE TimeOut(r)
    <3>1. UNCHANGED <<queue, held>> /\ \A q \in Requests : Fresh(q) => Fresh(q)'
      BY <2>5 DEF TimeOut, Return, Answered, Fresh, TypeInv, TypeOK
    <3>2. WorkOnce' BY <2>5 DEF TimeOut, Return, Answered, WorkOnce, TypeInv, TypeOK
    <3> QED BY <3>1, <3>2, OnceFrame
  <2>6. CASE SeeStop(r)
    <3>1. UNCHANGED <<queue, held>> /\ \A q \in Requests : Fresh(q) => Fresh(q)'
      BY <2>6 DEF SeeStop, Return, Answered, Fresh, TypeInv, TypeOK
    <3>2. WorkOnce' BY <2>6 DEF SeeStop, Return, Answered, WorkOnce, TypeInv, TypeOK
    <3> QED BY <3>1, <3>2, OnceFrame
  <2>7. CASE Finish(r)
    <3>1. UNCHANGED <<queue, held>> /\ \A q \in Requests : Fresh(q) => Fresh(q)'
      BY <2>7 DEF Finish, Fresh, TypeInv, TypeOK
    <3>2. WorkOnce' BY <2>7 DEF Finish, WorkOnce, TypeInv, TypeOK
    <3> QED BY <3>1, <3>2, OnceFrame
  <2> QED BY <1>2, <2>1, <2>2, <2>3, <2>4, <2>5, <2>6, <2>7 DEF Works
<1>3. ASSUME NEW g \in Gens, Loops(g) PROVE OnceInv'
  <2>1. CASE Dequeue(g)
    <3>1. /\ queue # <<>> /\ queue' = Tail(queue) /\ held' = [held EXCEPT ![g] = queue[1]]
          /\ held[g] = None /\ UNCHANGED <<caller, work, wire>>
      BY <2>1 DEF Dequeue, TypeInv, TypeOK, HeldOK
    <3>2. /\ Len(queue') = Len(queue) - 1 /\ Len(queue) \in Nat \ {0}
          /\ \A i \in 1 .. Len(queue') : queue'[i] = queue[i + 1]
      BY <3>1
    <3>3. /\ \A i \in 1 .. Len(queue) : Fresh(queue[i])
          /\ \A i, j \in 1 .. Len(queue) : queue[i] = queue[j] => i = j
      BY DEF OnceInv, QueueOnce
    <3>4. \A q : Fresh(q)' <=> Fresh(q)
      BY <3>1 DEF Fresh
    <3>5. QueueOnce'
      <4>1. \A i \in 1 .. Len(queue') : i + 1 \in 1 .. Len(queue)
        BY <3>2
      <4>2. \A i \in 1 .. Len(queue') : Fresh(queue[i + 1])
        BY <3>3, <4>1
      <4>3. \A i \in 1 .. Len(queue') : (Fresh(queue[i]))'
        BY <3>1, <3>2, <4>2 DEF Fresh
      <4>4. ASSUME NEW i \in 1 .. Len(queue'), NEW j \in 1 .. Len(queue'), queue'[i] = queue'[j]
            PROVE  i = j
        <5>1. i + 1 = j + 1 BY <3>2, <3>3, <4>1, <4>4
        <5> QED BY <5>1
      <4> QED BY <3>1, <4>3, <4>4 DEF QueueOnce, Fresh
    <3>6. \A h \in Gens : held'[h] = IF h = g THEN queue[1] ELSE held[h]
      BY <3>1 DEF TypeInv, TypeOK
    <3>7. \A i \in 1 .. Len(queue') :
            queue'[i] # queue[1] /\ \E j \in 1 .. Len(queue) : queue'[i] = queue[j]
      BY <3>2, <3>3, SMTT(60)
    <3>8. Fresh(queue[1]) /\ \A h \in Gens : held[h] # None => held[h] # queue[1]
      BY <3>2, <3>3 DEF OnceInv, HeldOnce
    <3>9. HeldOnce'
      <4>1. \A h \in Gens : (held[h] # None => Fresh(held[h]))'
        BY <3>1, <3>6, <3>8 DEF OnceInv, HeldOnce, Fresh
      <4>2. \A h \in Gens : held'[h] # None => \A i \in 1 .. Len(queue') : queue'[i] # held'[h]
        <5>1. ASSUME NEW h \in Gens, h # g, held[h] # None
              PROVE  \A i \in 1 .. Len(queue') : queue'[i] # held[h]
          BY <3>7, <5>1 DEF OnceInv, HeldOnce
        <5> QED BY <3>6, <3>7, <5>1
      <4>3. \A h, k \in Gens : held'[h] # None /\ held'[h] = held'[k] => h = k
        BY <3>6, <3>8 DEF OnceInv, HeldOnce
      <4> QED BY <4>1, <4>2, <4>3 DEF HeldOnce, Fresh
    <3>10. WorkOnce' BY <3>1 DEF WorkOnce
    <3> QED BY <3>5, <3>9, <3>10 DEF OnceInv
  <2>2. CASE Dispatch(g)
    <3>1. held[g] \in Requests /\ Fresh(held[g])
      BY <2>2, ZenonT(60) DEF Dispatch, TypeInv, TypeOK, HeldOK, OnceInv, HeldOnce
    <3>2. /\ UNCHANGED <<queue, caller, wire>>
          /\ \A h \in Gens : held'[h] = IF h = g THEN None ELSE held[h]
          /\ \A q \in Requests : work'[q] = IF q = held[g] THEN "dispatched" ELSE work[q]
      BY <2>2 DEF Dispatch, TypeInv, TypeOK
    <3>3. \A q \in Requests : q # held[g] /\ Fresh(q) => Fresh(q)'
      BY <3>2 DEF Fresh
    <3>4. \A i \in 1 .. Len(queue) : queue[i] # held[g] /\ Fresh(queue[i])
      BY <3>1 DEF OnceInv, HeldOnce, QueueOnce
    <3>5. QueueOnce' BY <3>2, <3>3, <3>4 DEF OnceInv, QueueOnce
    <3>6. HeldOnce'
      <4>1. \A h \in Gens : held'[h] # None => h # g /\ held'[h] = held[h] /\ held[h] # held[g]
        BY <3>1, <3>2 DEF OnceInv, HeldOnce
      <4>2. \A h \in Gens : (held[h] # None => Fresh(held[h]))'
        BY <3>2, <4>1, SMTT(60) DEF OnceInv, HeldOnce, TypeInv, TypeOK, Fresh
      <4> QED BY <3>2, <4>1, <4>2 DEF OnceInv, HeldOnce, Fresh
    <3>7. WorkOnce' BY <3>1, <3>2 DEF WorkOnce, Fresh
    <3> QED BY <3>5, <3>6, <3>7 DEF OnceInv
  <2>3. CASE Abandon(g)
    <3>1. /\ queue' = <<>> /\ UNCHANGED <<caller, work, wire>>
          /\ \A h \in Gens : held'[h] = IF h = g THEN None ELSE held[h]
      BY <2>3 DEF Abandon, TypeInv, TypeOK
    <3>2. QueueOnce' BY <3>1 DEF QueueOnce
    <3>3. HeldOnce' BY <3>1 DEF OnceInv, HeldOnce, Fresh
    <3> QED BY <3>1, <3>2, <3>3 DEF OnceInv, WorkOnce
  <2>4. CASE Drain(g)
    <3>1. queue' = <<>> /\ UNCHANGED <<caller, work, wire, held>>
      BY <2>4 DEF Drain
    <3>2. QueueOnce' BY <3>1 DEF QueueOnce
    <3>3. HeldOnce' BY <3>1 DEF OnceInv, HeldOnce, Fresh
    <3> QED BY <3>1, <3>2, <3>3 DEF OnceInv, WorkOnce
  <2>5. CASE IdleCheck(g) BY <2>5, OnceFrame DEF IdleCheck, Fresh, WorkOnce
  <2> QED BY <1>3, <2>1, <2>2, <2>3, <2>4, <2>5 DEF Loops
<1>4. ASSUME NEW g \in Gens, Lives(g) PROVE OnceInv'
  <2>1. CASE Exits(g) BY <2>1, OnceFrame DEF Exits, Fresh, WorkOnce
  <2>2. CASE NoticeExit(g) BY <2>2, OnceFrame DEF NoticeExit, Fresh, WorkOnce
  <2> QED BY <1>4, <2>1, <2>2 DEF Lives
<1>5. ASSUME NEW g \in Gens, Reads(g) PROVE OnceInv'
  <2>1. ASSUME NEW m \in sent, m[1] = g, ChildAnswers(m) PROVE OnceInv'
    BY <2>1, OnceFrame DEF ChildAnswers, Fresh, WorkOnce
  <2>2. ASSUME NEW m \in sent, m[1] = g, Match(m) PROVE OnceInv'
    BY <2>2, OnceFrame DEF Match, NextLine, Fresh, WorkOnce
  <2>3. CASE Deliver(g) BY <2>3, OnceFrame DEF Deliver, NextLine, Fresh, WorkOnce
  <2>4. CASE ReaderEnds(g) BY <2>4, OnceFrame DEF ReaderEnds, Fresh, WorkOnce
  <2> QED BY <1>5, <2>1, <2>2, <2>3, <2>4 DEF Reads
<1>6. CASE Stop BY <1>6, OnceFrame DEF Stop, StopLocked, Fresh, WorkOnce
<1>7. CASE IdleStops BY <1>7, OnceFrame DEF IdleStops, StopLocked, Fresh, WorkOnce
<1>8. CASE Stopped BY <1>8, OnceFrame DEF Stopped, Fresh, WorkOnce
<1>9. CASE Respawn BY <1>9, OnceFrame DEF Respawn, Fresh, WorkOnce
<1>10. CASE UNCHANGED vars BY <1>10, OnceFrame DEF vars, Fresh, WorkOnce
<1> QED BY <1>1, <1>2, <1>3, <1>4, <1>5, <1>6, <1>7, <1>8, <1>9, <1>10 DEF Next

-----------------------------------------------------------------------------
(* Routing.  Wire IDs are never reused, so a frame, its response and its   *)
(* waiter belong together across generations; a waiter is in the table, or *)
(* being delivered to, or has its response, and only one of these.         *)

IDsUnique ==
  /\ \A r \in Requests : wire[r] <= nextID
  /\ \A r, q \in Requests : wire[r] = wire[q] /\ wire[r] # 0 => r = q

SentOwn == \A m \in sent : wire[m[3]] = m[2] /\ m[2] # 0

NotInTable(r) == wire[r] # 0 /\ \A e \in pending : e[2] # r

DeliveryOwn ==
  \A g \in Gens : delivering[g] # <<>> =>
    /\ delivering[g][2] = delivering[g][1]
    /\ NotInTable(delivering[g][1])
    /\ \A h \in Gens : h # g /\ delivering[h] # <<>> => delivering[h][1] # delivering[g][1]

RespOwn ==
  \A r \in Requests : respCh[r] # None => respCh[r] = r /\ NotInTable(r)

RouteInv ==
  /\ IDsUnique /\ SentOwn /\ PendingAreWaiting
  /\ DeliveryOwn /\ DeliverNeverBlocks /\ RespOwn /\ NoCrossDelivery

LEMMA RouteInit == Init => RouteInv
BY SMTT(60) DEF Init, RouteInv, IDsUnique, SentOwn, PendingAreWaiting, DeliveryOwn, NotInTable,
       DeliverNeverBlocks, RespOwn, NoCrossDelivery, Gens

LEMMA RouteNext == TypeInv /\ OnceInv /\ RouteInv /\ [Next]_vars => RouteInv'
<1> SUFFICES ASSUME TypeInv, OnceInv, RouteInv, [Next]_vars PROVE RouteInv'
  OBVIOUS
<1> USE RequestsAssumption DEF TypeInv, TypeOK, HeldOK, WorkOnce, HeldOnce, Fresh, OnceInv,
      RouteInv, IDsUnique, SentOwn, PendingAreWaiting, DeliveryOwn, NotInTable,
      DeliverNeverBlocks, RespOwn, NoCrossDelivery, lifeVars, loopVars, callVars,
      workVars, wireVars, Gens, Up

<1>1. ASSUME NEW r \in Requests, Calls(r) PROVE RouteInv'
  <2>1. CASE Admit(r) BY <2>1 DEF Admit
  <2>2. CASE Enqueue(r) BY <2>2 DEF Enqueue
  <2>3. CASE GiveUp(r) BY <2>3, SMTT(60) DEF GiveUp
  <2> QED BY <1>1, <2>1, <2>2, <2>3 DEF Calls
<1>2. ASSUME NEW r \in Requests, Works(r) PROVE RouteInv'
  <2>1. CASE Register(r) BY <2>1, SMTT(60) DEF Register
  <2>2. CASE Write(r) BY <2>2 DEF Write
  <2>3. CASE WriteFails(r) BY <2>3, SMTT(60) DEF WriteFails, Return, Answered
  <2>4. CASE Receive(r) BY <2>4, SMTT(60) DEF Receive, Return, Answered
  <2>5. CASE TimeOut(r) BY <2>5, SMTT(60) DEF TimeOut, Return, Answered
  <2>6. CASE SeeStop(r) BY <2>6, SMTT(60) DEF SeeStop, Return, Answered
  <2>7. CASE Finish(r) BY <2>7 DEF Finish
  <2> QED BY <1>2, <2>1, <2>2, <2>3, <2>4, <2>5, <2>6, <2>7 DEF Works
<1>3. ASSUME NEW g \in Gens, Loops(g) PROVE RouteInv'
  <2>1. CASE Dequeue(g)
    <3>1. UNCHANGED <<answer, workVars, wireVars>> BY <2>1 DEF Dequeue
    <3> QED BY <3>1, SMTT(60)
  <2>2. CASE Dispatch(g) BY <2>2, SMTT(60) DEF Dispatch
  <2>3. CASE Abandon(g) BY <2>3, SMTT(60) DEF Abandon, Answered
  <2>4. CASE Drain(g) BY <2>4 DEF Drain, Answered
  <2>5. CASE IdleCheck(g) BY <2>5, SMTT(60) DEF IdleCheck
  <2> QED BY <1>3, <2>1, <2>2, <2>3, <2>4, <2>5 DEF Loops
<1>4. ASSUME NEW g \in Gens, Lives(g) PROVE RouteInv'
  <2>1. CASE Exits(g) BY <2>1, SMTT(60) DEF Exits
  <2>2. CASE NoticeExit(g) BY <2>2, SMTT(60) DEF NoticeExit
  <2> QED BY <1>4, <2>1, <2>2 DEF Lives
<1>5. ASSUME NEW g \in Gens, Reads(g) PROVE RouteInv'
  <2>1. ASSUME NEW m \in sent, m[1] = g, ChildAnswers(m) PROVE RouteInv'
    BY <2>1, SMTT(60) DEF ChildAnswers
  <2>2. ASSUME NEW m \in sent, m[1] = g, Match(m) PROVE RouteInv'
    <3>1. m \in sent /\ m \in Gens \X Nat \X Requests /\ wire[m[3]] = m[2]
      BY <2>2 DEF Match
    <3>2. /\ UNCHANGED <<answer, wire, nextID, work, sent, respCh>>
          /\ out' \subseteq out
      BY <2>2 DEF Match
    <3>3. ASSUME UNCHANGED <<pending, delivering>> PROVE RouteInv'
      BY <3>2, <3>3, SMTT(60)
    <3>4. ASSUME NEW e \in pending, e[1] = m[2], pending' = pending \ {e},
                 delivering' = [delivering EXCEPT ![g] = <<e[2], m[3]>>]
          PROVE  RouteInv'
      <4>1. e[2] = m[3] /\ e[2] \in Requests /\ wire[e[2]] = e[1] /\ wire[e[2]] # 0
        BY <3>1, <3>4
      <4>2. \A f \in pending : f[2] = e[2] => f = e
        <5>1. \A f \in pending : f = <<f[1], f[2]>> /\ wire[f[2]] = f[1]
          OBVIOUS
        <5>2. ASSUME NEW f \in pending, f[2] = e[2] PROVE f = e
          <6>1. f[1] = e[1] BY <4>1, <5>1, <5>2
          <6>2. f = <<f[1], f[2]>> /\ e = <<e[1], e[2]>> BY <5>1
          <6> QED BY <6>1, <6>2, <5>2, ZenonT(60)
        <5> QED BY <5>2
      <4>3. \A h \in Gens : h # g /\ delivering[h] # <<>> => delivering[h][1] # e[2]
        OBVIOUS
      <4>4. respCh[e[2]] = None
        <5>1. \A r \in Requests : respCh[r] # None => \A f \in pending : f[2] # r
          OBVIOUS
        <5> QED BY <4>1, <5>1
      <4>5. DeliveryOwn' /\ DeliverNeverBlocks'
        BY <3>2, <3>4, <4>1, <4>2, <4>3, <4>4, SMTT(60)
      <4>6. IDsUnique' /\ SentOwn' /\ PendingAreWaiting' /\ RespOwn' /\ NoCrossDelivery'
        BY <3>2, <3>4
      <4> QED BY <4>5, <4>6
    <3> QED BY <2>2, <3>3, <3>4 DEF Match
  <2>3. CASE Deliver(g) BY <2>3, SMTT(60) DEF Deliver, NextLine
  <2>4. CASE ReaderEnds(g) BY <2>4, SMTT(60) DEF ReaderEnds
  <2> QED BY <1>5, <2>1, <2>2, <2>3, <2>4 DEF Reads
<1>6. CASE Stop BY <1>6 DEF Stop, StopLocked
<1>7. CASE IdleStops BY <1>7 DEF IdleStops, StopLocked
<1>8. CASE Stopped BY <1>8 DEF Stopped
<1>9. CASE Respawn BY <1>9 DEF Respawn
<1>10. CASE UNCHANGED vars BY <1>10 DEF vars
<1> QED BY <1>1, <1>2, <1>3, <1>4, <1>5, <1>6, <1>7, <1>8, <1>9, <1>10 DEF Next

\* A response reaches only the request it answers.
THEOREM ResponsesReachTheirOwner == Spec => []NoCrossDelivery
<1> RouteInv => NoCrossDelivery BY DEF RouteInv
<1> QED BY TypeInit, TypeNext, OnceInit, OnceNext, RouteInit, RouteNext, PTL DEF Spec

\* The table of waiters holds only waits in progress.
THEOREM TableHoldsWaiters == Spec => []PendingAreWaiting
<1> RouteInv => PendingAreWaiting BY DEF RouteInv
<1> QED BY TypeInit, TypeNext, OnceInit, OnceNext, RouteInit, RouteNext, PTL DEF Spec

\* No reader ever blocks on the channel of a waiter.
THEOREM ReadersNeverBlock == Spec => []DeliverNeverBlocks
<1> RouteInv => DeliverNeverBlocks BY DEF RouteInv
<1> QED BY TypeInit, TypeNext, OnceInit, OnceNext, RouteInit, RouteNext, PTL DEF Spec

-----------------------------------------------------------------------------
(* The counters.  currentLoad and the dispatch slots are compared with the *)
(* sets of loops that hold a request and of requests being processed.      *)

Holding == {g \in Gens : held[g] # None}
Working == {r \in Requests : work[r] # "none"}

LEMMA CountsFinite == IsFiniteSet(Holding) /\ IsFiniteSet(Working)
<1>1. IsFiniteSet(Gens) BY FS_Interval, RequestsAssumption DEF Gens
<1>2. Holding \subseteq Gens /\ Working \subseteq Requests BY DEF Holding, Working
<1> QED BY <1>1, <1>2, FS_Subset, RequestsAssumption

LEMMA LoadInit == Init => LoadIsExact
<1> SUFFICES ASSUME Init PROVE LoadIsExact
  OBVIOUS
<1>1. Holding = {} /\ Working = {} BY DEF Init, Holding, Working
<1>2. load = 0 /\ slots = 0 BY DEF Init
<1> QED BY <1>1, <1>2, FS_EmptySet DEF LoadIsExact, Holding, Working

\* Steps that move no request between the queue, a loop and its goroutine.
LEMMA LoadFrame ==
  ASSUME LoadIsExact, UNCHANGED <<load, slots>>, Holding' = Holding, Working' = Working
  PROVE  LoadIsExact'
BY DEF LoadIsExact, Holding, Working

LEMMA LoadNext == TypeInv /\ OnceInv /\ LoadIsExact /\ [Next]_vars => LoadIsExact'
<1> SUFFICES ASSUME TypeInv, OnceInv, LoadIsExact, [Next]_vars PROVE LoadIsExact'
  OBVIOUS
<1>0. /\ load = Cardinality(Holding) + Cardinality(Working)
      /\ slots = Cardinality(Working)
      /\ Cardinality(Holding) \in Nat /\ Cardinality(Working) \in Nat
  BY CountsFinite, FS_CardinalityType DEF LoadIsExact, Holding, Working
<1> USE DEF lifeVars, loopVars, callVars, workVars, wireVars

<1>1. ASSUME NEW r \in Requests, Calls(r) PROVE LoadIsExact'
  <2>1. CASE Admit(r) BY <2>1, LoadFrame DEF Admit, Holding, Working
  <2>2. CASE Enqueue(r) BY <2>2, LoadFrame DEF Enqueue, Holding, Working
  <2>3. CASE GiveUp(r) BY <2>3, LoadFrame DEF GiveUp, Holding, Working
  <2> QED BY <1>1, <2>1, <2>2, <2>3 DEF Calls
<1>2. ASSUME NEW r \in Requests, Works(r) PROVE LoadIsExact'
  <2>1. CASE Register(r)
    <3>1. Working' = Working BY <2>1 DEF Register, Working, TypeInv, TypeOK
    <3> QED BY <2>1, <3>1, LoadFrame DEF Register, Holding
  <2>2. CASE Write(r)
    <3>1. Working' = Working BY <2>2 DEF Write, Working, TypeInv, TypeOK
    <3> QED BY <2>2, <3>1, LoadFrame DEF Write, Holding
  <2>3. CASE WriteFails(r)
    <3>1. Working' = Working BY <2>3 DEF WriteFails, Return, Answered, Working, TypeInv, TypeOK
    <3> QED BY <2>3, <3>1, LoadFrame DEF WriteFails, Return, Answered, Holding
  <2>4. CASE Receive(r)
    <3>1. Working' = Working BY <2>4 DEF Receive, Return, Answered, Working, TypeInv, TypeOK
    <3> QED BY <2>4, <3>1, LoadFrame DEF Receive, Return, Answered, Holding
  <2>5. CASE TimeOut(r)
    <3>1. Working' = Working BY <2>5 DEF TimeOut, Return, Answered, Working, TypeInv, TypeOK
    <3> QED BY <2>5, <3>1, LoadFrame DEF TimeOut, Return, Answered, Holding
  <2>6. CASE SeeStop(r)
    <3>1. Working' = Working BY <2>6 DEF SeeStop, Return, Answered, Working, TypeInv, TypeOK
    <3> QED BY <2>6, <3>1, LoadFrame DEF SeeStop, Return, Answered, Holding
  <2>7. CASE Finish(r)
    <3>1. work[r] # "none" /\ load' = load - 1 /\ slots' = slots - 1
      BY <2>7 DEF Finish
    <3>2. Working' = Working \ {r} /\ r \in Working /\ Holding' = Holding
      BY <2>7 DEF Finish, Working, Holding, TypeInv, TypeOK
    <3>3. Cardinality(Working') = Cardinality(Working) - 1
      BY <3>2, CountsFinite, FS_RemoveElement
    <3>4. /\ load' = Cardinality(Holding') + Cardinality(Working')
          /\ slots' = Cardinality(Working')
      BY <1>0, <3>1, <3>2, <3>3
    <3> QED BY <3>4 DEF LoadIsExact, Holding, Working
  <2> QED BY <1>2, <2>1, <2>2, <2>3, <2>4, <2>5, <2>6, <2>7 DEF Works
<1>3. ASSUME NEW g \in Gens, Loops(g) PROVE LoadIsExact'
  <2>1. CASE Dequeue(g)
    <3>1. load' = load + 1 /\ slots' = slots
      BY <2>1 DEF Dequeue
    <3>2. Head(queue) \in Requests /\ held[g] = None
      BY <2>1 DEF Dequeue, TypeInv, TypeOK, HeldOK
    <3>3. held' = [held EXCEPT ![g] = Head(queue)] /\ work' = work
      BY <2>1 DEF Dequeue
    <3>4. Holding' = Holding \cup {g} /\ g \notin Holding /\ Working' = Working
      BY <3>2, <3>3, RequestsAssumption DEF Holding, Working, TypeInv, TypeOK
    <3>5. Cardinality(Holding') = Cardinality(Holding) + 1
      BY <3>4, CountsFinite, FS_AddElement
    <3>6. /\ load' = Cardinality(Holding') + Cardinality(Working')
          /\ slots' = Cardinality(Working')
      BY <1>0, <3>1, <3>4, <3>5
    <3> QED BY <3>6 DEF LoadIsExact, Holding, Working
  <2>2. CASE Dispatch(g)
    <3>1. load' = load /\ slots' = slots + 1
      BY <2>2 DEF Dispatch
    <3>2. held[g] # None /\ held[g] \in Requests /\ work[held[g]] = "none"
      BY <2>2 DEF Dispatch, TypeInv, TypeOK, HeldOK, OnceInv, HeldOnce, Fresh
    <3>3. Holding' = Holding \ {g} /\ g \in Holding
      BY <2>2, <3>2 DEF Dispatch, Holding, TypeInv, TypeOK
    <3>4. Working' = Working \cup {held[g]} /\ held[g] \notin Working
      BY <2>2, <3>2 DEF Dispatch, Working, TypeInv, TypeOK
    <3>5. /\ Cardinality(Holding') = Cardinality(Holding) - 1
          /\ Cardinality(Working') = Cardinality(Working) + 1
      BY <3>3, <3>4, CountsFinite, FS_RemoveElement, FS_AddElement
    <3>6. /\ load' = Cardinality(Holding') + Cardinality(Working')
          /\ slots' = Cardinality(Working')
      BY <1>0, <3>1, <3>5
    <3> QED BY <3>6 DEF LoadIsExact, Holding, Working
  <2>3. CASE Abandon(g)
    <3>1. load' = load - 1 /\ slots' = slots
      BY <2>3 DEF Abandon
    <3>2. Holding' = Holding \ {g} /\ g \in Holding /\ Working' = Working
      BY <2>3 DEF Abandon, Holding, Working, TypeInv, TypeOK, HeldOK
    <3>3. Cardinality(Holding') = Cardinality(Holding) - 1
      BY <3>2, CountsFinite, FS_RemoveElement
    <3>4. /\ load' = Cardinality(Holding') + Cardinality(Working')
          /\ slots' = Cardinality(Working')
      BY <1>0, <3>1, <3>2, <3>3
    <3> QED BY <3>4 DEF LoadIsExact, Holding, Working
  <2>4. CASE Drain(g) BY <2>4, LoadFrame DEF Drain, Answered, Holding, Working
  <2>5. CASE IdleCheck(g) BY <2>5, LoadFrame DEF IdleCheck, Holding, Working
  <2> QED BY <1>3, <2>1, <2>2, <2>3, <2>4, <2>5 DEF Loops
<1>4. ASSUME NEW g \in Gens, Lives(g) PROVE LoadIsExact'
  <2>1. CASE Exits(g) BY <2>1, LoadFrame DEF Exits, Holding, Working
  <2>2. CASE NoticeExit(g) BY <2>2, LoadFrame DEF NoticeExit, Holding, Working
  <2> QED BY <1>4, <2>1, <2>2 DEF Lives
<1>5. ASSUME NEW g \in Gens, Reads(g) PROVE LoadIsExact'
  <2>1. ASSUME NEW m \in sent, m[1] = g, ChildAnswers(m) PROVE LoadIsExact'
    BY <2>1, LoadFrame DEF ChildAnswers, Holding, Working
  <2>2. ASSUME NEW m \in sent, m[1] = g, Match(m) PROVE LoadIsExact'
    BY <2>2, LoadFrame DEF Match, NextLine, Holding, Working
  <2>3. CASE Deliver(g) BY <2>3, LoadFrame DEF Deliver, NextLine, Holding, Working
  <2>4. CASE ReaderEnds(g) BY <2>4, LoadFrame DEF ReaderEnds, Holding, Working
  <2> QED BY <1>5, <2>1, <2>2, <2>3, <2>4 DEF Reads
<1>6. CASE Stop BY <1>6, LoadFrame DEF Stop, StopLocked, Holding, Working
<1>7. CASE IdleStops BY <1>7, LoadFrame DEF IdleStops, StopLocked, Holding, Working
<1>8. CASE Stopped BY <1>8, LoadFrame DEF Stopped, Holding, Working
<1>9. CASE Respawn BY <1>9, LoadFrame DEF Respawn, Holding, Working
<1>10. CASE UNCHANGED vars BY <1>10, LoadFrame DEF vars, Holding, Working
<1> QED BY <1>1, <1>2, <1>3, <1>4, <1>5, <1>6, <1>7, <1>8, <1>9, <1>10 DEF Next

\* currentLoad and the dispatch slots count exactly the requests out of the
\* queue and in progress, whatever dies, stops and respawns.
THEOREM CountersExact == Spec => []LoadIsExact
<1> QED BY TypeInit, TypeNext, OnceInit, OnceNext, LoadInit, LoadNext, PTL DEF Spec

-----------------------------------------------------------------------------
(* The refinement of RpcCalls.  A request that has not been queued has no  *)
(* answer; one whose response is on its way has been given to a child, and *)
(* once only.                                                              *)

NotAnswered ==
  \A r \in Requests : caller[r] \in {"new", "admitted", "rejected"} => answer[r] = <<>>

SentOnce ==
  /\ \A m, n \in sent : m[3] = n[3] => m = n
  /\ \A m \in sent : work[m[3]] # "registered"

ReplyWasSent ==
  /\ \A r \in Requests : respCh[r] # None => \E m \in sent : m[3] = respCh[r]
  /\ \A g \in Gens : delivering[g] # <<>> => \E m \in sent : m[3] = delivering[g][2]

CallInv == NotAnswered /\ SentOnce /\ ReplyWasSent

LEMMA CallInit == Init => CallInv
BY DEF Init, CallInv, NotAnswered, SentOnce, ReplyWasSent, Gens

LEMMA QueuedAreFresh ==
  ASSUME TypeInv, OnceInv
  PROVE  ToSet(queue) \in SUBSET Requests /\ \A r \in ToSet(queue) : Fresh(r)
<1>1. queue \in Seq(Requests) /\ \A i \in 1 .. Len(queue) : Fresh(queue[i])
  BY DEF TypeInv, TypeOK, OnceInv, QueueOnce
<1>2. ToSet(queue) = {queue[i] : i \in 1 .. Len(queue)} BY <1>1 DEF ToSet
<1> QED BY <1>1, <1>2

LEMMA CallNext == TypeInv /\ OnceInv /\ RouteInv /\ CallInv /\ [Next]_vars => CallInv'
<1> SUFFICES ASSUME TypeInv, OnceInv, RouteInv, CallInv, [Next]_vars PROVE CallInv'
  OBVIOUS
<1> USE RequestsAssumption DEF TypeInv, TypeOK, HeldOK, WorkOnce, HeldOnce, QueueOnce, Fresh,
      OnceInv, RouteInv, SentOwn, CallInv, NotAnswered, SentOnce, ReplyWasSent, lifeVars,
      loopVars, callVars, workVars, wireVars, Gens, Up
<1>1. ASSUME NEW r \in Requests, Calls(r) PROVE CallInv'
  <2>1. CASE Admit(r) BY <2>1 DEF Admit
  <2>2. CASE Enqueue(r) BY <2>2 DEF Enqueue
  <2>3. CASE GiveUp(r) BY <2>3 DEF GiveUp
  <2> QED BY <1>1, <2>1, <2>2, <2>3 DEF Calls
<1>2. ASSUME NEW r \in Requests, Works(r) PROVE CallInv'
  <2>1. CASE Register(r) BY <2>1, SMTT(60) DEF Register
  <2>2. CASE Write(r)
    <3>1. /\ sent' = sent \cup {<<stdin[r], wire[r], r>>} /\ work[r] = "registered"
          /\ \A q \in Requests : work'[q] = IF q = r THEN "written" ELSE work[q]
          /\ UNCHANGED <<caller, answer, respCh, delivering>>
      BY <2>2 DEF Write
    <3>2. \A m \in sent : m[3] # r /\ m[3] \in Requests
      BY <3>1
    <3>5. ASSUME NEW m \in sent', NEW n \in sent', m[3] = n[3] PROVE m = n
      <4>1. CASE m \in sent /\ n \in sent BY <4>1, <3>5
      <4>2. CASE m \notin sent /\ n \notin sent BY <4>2, <3>1, ZenonT(60)
      <4>3. CASE m \in sent /\ n \notin sent BY <4>3, <3>1, <3>2, <3>5
      <4>4. CASE m \notin sent /\ n \in sent BY <4>4, <3>1, <3>2, <3>5
      <4> QED BY <4>1, <4>2, <4>3, <4>4
    <3>6. \A m \in sent' : work'[m[3]] # "registered" BY <3>1, <3>2
    <3>3. SentOnce' BY <3>5, <3>6
    <3>4. ReplyWasSent' BY <3>1
    <3> QED BY <3>1, <3>3, <3>4
  <2>3. CASE WriteFails(r) BY <2>3 DEF WriteFails, Return, Answered
  <2>4. CASE Receive(r) BY <2>4, SMTT(60) DEF Receive, Return, Answered
  <2>5. CASE TimeOut(r) BY <2>5 DEF TimeOut, Return, Answered
  <2>6. CASE SeeStop(r) BY <2>6 DEF SeeStop, Return, Answered
  <2>7. CASE Finish(r) BY <2>7 DEF Finish
  <2> QED BY <1>2, <2>1, <2>2, <2>3, <2>4, <2>5, <2>6, <2>7 DEF Works
<1>3. ASSUME NEW g \in Gens, Loops(g) PROVE CallInv'
  <2>1. CASE Dequeue(g) BY <2>1 DEF Dequeue
  <2>2. CASE Dispatch(g) BY <2>2, SMTT(60) DEF Dispatch
  <2>3. CASE Abandon(g)
    <3>1. Fresh(held[g]) /\ \A r \in ToSet(queue) : Fresh(r)
      BY <2>3, QueuedAreFresh DEF Abandon
    <3> QED BY <2>3, <3>1, SMTT(60) DEF Abandon, Answered
  <2>4. CASE Drain(g)
    <3>1. \A r \in ToSet(queue) : Fresh(r) BY QueuedAreFresh
    <3>2. NotAnswered' BY <2>4, <3>1 DEF Drain, Answered
    <3>3. SentOnce' /\ ReplyWasSent' BY <2>4 DEF Drain
    <3> QED BY <3>2, <3>3
  <2>5. CASE IdleCheck(g) BY <2>5 DEF IdleCheck
  <2> QED BY <1>3, <2>1, <2>2, <2>3, <2>4, <2>5 DEF Loops
<1>4. ASSUME NEW g \in Gens, Lives(g) PROVE CallInv'
  <2>1. CASE Exits(g) BY <2>1 DEF Exits
  <2>2. CASE NoticeExit(g) BY <2>2 DEF NoticeExit
  <2> QED BY <1>4, <2>1, <2>2 DEF Lives
<1>5. ASSUME NEW g \in Gens, Reads(g) PROVE CallInv'
  <2>1. ASSUME NEW m \in sent, m[1] = g, ChildAnswers(m) PROVE CallInv'
    BY <2>1, SMTT(60) DEF ChildAnswers
  <2>2. ASSUME NEW m \in sent, m[1] = g, Match(m) PROVE CallInv'
    BY <2>2, SMTT(60) DEF Match, NextLine
  <2>3. CASE Deliver(g) BY <2>3, SMTT(60) DEF Deliver, NextLine
  <2>4. CASE ReaderEnds(g) BY <2>4 DEF ReaderEnds
  <2> QED BY <1>5, <2>1, <2>2, <2>3, <2>4 DEF Reads
<1>6. CASE Stop BY <1>6 DEF Stop, StopLocked
<1>7. CASE IdleStops BY <1>7 DEF IdleStops, StopLocked
<1>8. CASE Stopped BY <1>8 DEF Stopped
<1>9. CASE Respawn BY <1>9 DEF Respawn
<1>10. CASE UNCHANGED vars BY <1>10 DEF vars
<1> QED BY <1>1, <1>2, <1>3, <1>4, <1>5, <1>6, <1>7, <1>8, <1>9, <1>10 DEF Next

\* Steps that touch neither callers nor answers nor the child's stdin are seen by nobody.
LEMMA Unseen == UNCHANGED <<caller, answer, sent>> => UNCHANGED Promise!callVars
BY DEF Promise!callVars, Outcome, Told, Executions

LEMMA NoFrameNoExecution ==
  ASSUME NEW r \in Requests, \A m \in sent : m[3] # r PROVE Executions[r] = 0
<1>1. {m \in sent : m[3] = r} = {} OBVIOUS
<1> QED BY <1>1, FS_EmptySet DEF Executions

LEMMA OneFrameOneExecution ==
  ASSUME CallInv, NEW r \in Requests, \E m \in sent : m[3] = r PROVE Executions[r] = 1
<1>1. PICK m \in sent : m[3] = r OBVIOUS
<1>2. {n \in sent : n[3] = r} = {m} BY <1>1 DEF CallInv, SentOnce
<1> QED BY <1>2, FS_Singleton DEF Executions

\* What is put into ResultCh is seen by the callers that still wait for it.
LEMMA AnsweredIsTold ==
  ASSUME TypeInv, NEW rs \in SUBSET Requests, NEW a, a # <<>>,
         \A r \in rs : caller[r] \in {"waiting", "gone"},
         UNCHANGED <<caller, sent>>, answer' = Answered(rs, a)
  PROVE  LET S == {r \in rs : caller[r] = "waiting" /\ answer[r] = <<>>}
         IN  Promise!Becomes(S, <<"open">>, a)
<1> DEFINE S == {r \in rs : caller[r] = "waiting" /\ answer[r] = <<>>}
<1>1. \A r \in S : Outcome[r] = <<"open">> BY DEF Outcome, Told
<1>2. \A r \in Requests : Told(r)' = IF r \in S THEN a ELSE Told(r)
  BY DEF Told, Answered, TypeInv, TypeOK
<1>3. Outcome' = [r \in Requests |-> IF r \in S THEN a ELSE Outcome[r]]
  BY <1>2 DEF Outcome
<1>4. UNCHANGED Executions BY DEF Executions
<1> QED BY <1>1, <1>3, <1>4 DEF Promise!Becomes

LEMMA NobodyIsTold ==
  ASSUME NEW from, NEW to, Promise!Becomes({}, from, to) PROVE UNCHANGED Promise!callVars
<1>1. Outcome' = [r \in Requests |-> Outcome[r]] BY DEF Promise!Becomes
<1>2. Outcome' = Outcome BY <1>1 DEF Outcome
<1> QED BY <1>2 DEF Promise!Becomes, Promise!callVars

LEMMA PromiseInit == Init => Promise!Init
<1> SUFFICES ASSUME Init PROVE Promise!Init
  OBVIOUS
<1>1. Outcome = [r \in Requests |-> <<"new">>] BY DEF Init, Outcome, Told
<1>2. \A r \in Requests : Executions[r] = 0 BY NoFrameNoExecution DEF Init
<1>3. Executions = [r \in Requests |-> 0] BY <1>2 DEF Executions
<1> QED BY <1>1, <1>3 DEF Promise!Init

LEMMA PromiseNext ==
  TypeInv /\ OnceInv /\ RouteInv /\ CallInv /\ [Next]_vars => [Promise!Next]_(Promise!callVars)
<1> SUFFICES ASSUME TypeInv, OnceInv, RouteInv, CallInv, [Next]_vars
             PROVE  Promise!Next \/ UNCHANGED Promise!callVars
  OBVIOUS
<1> USE DEF lifeVars, loopVars, callVars, workVars, wireVars
<1>1. ASSUME NEW r \in Requests, Calls(r) PROVE Promise!Next \/ UNCHANGED Promise!callVars
  <2> UNCHANGED Executions /\ UNCHANGED answer
    BY <1>1 DEF Calls, Admit, Enqueue, GiveUp, Executions
  <2>1. CASE Admit(r)
    <3>1. caller[r] = "new" /\ answer[r] = <<>> /\ Outcome[r] = <<"new">>
      BY <2>1 DEF Admit, CallInv, NotAnswered, Outcome, Told
    <3>2. ASSUME load < MaxConcurrent PROVE Promise!Open(r)
      <4>1. \A q \in Requests : Told(q)' = IF q \in {r} THEN <<"open">> ELSE Told(q)
        BY <2>1, <3>1, <3>2 DEF Admit, Told, TypeInv, TypeOK
      <4>2. Outcome' = [q \in Requests |-> IF q \in {r} THEN <<"open">> ELSE Outcome[q]]
        BY <4>1 DEF Outcome
      <4> QED BY <3>1, <4>2 DEF Promise!Open, Promise!Becomes
    <3>3. ASSUME ~ (load < MaxConcurrent) PROVE Promise!Refuse(r)
      <4>1. \A q \in Requests : Told(q)' = IF q \in {r} THEN <<"refused">> ELSE Told(q)
        BY <2>1, <3>1, <3>3 DEF Admit, Told, TypeInv, TypeOK
      <4>2. Outcome' = [q \in Requests |-> IF q \in {r} THEN <<"refused">> ELSE Outcome[q]]
        BY <4>1 DEF Outcome
      <4> QED BY <3>1, <4>2 DEF Promise!Refuse, Promise!Becomes
    <3> QED BY <3>2, <3>3 DEF Promise!Next
  <2>2. CASE Enqueue(r)
    <3>1. \A q \in Requests : Told(q)' = Told(q)
      BY <2>2 DEF Enqueue, Told, TypeInv, TypeOK
    <3> QED BY <3>1 DEF Outcome, Promise!callVars
  <2>3. CASE GiveUp(r)
    <3>1. Outcome[r] = <<"open">>
      BY <2>3 DEF GiveUp, Outcome, Told
    <3>2. \A q \in Requests : Told(q)' = IF q \in {r} THEN <<"left">> ELSE Told(q)
      BY <2>3 DEF GiveUp, Told, TypeInv, TypeOK
    <3>3. Outcome' = [q \in Requests |-> IF q \in {r} THEN <<"left">> ELSE Outcome[q]]
      BY <3>2 DEF Outcome
    <3>4. Promise!Leave(r) BY <3>1, <3>3 DEF Promise!Leave, Promise!Becomes
    <3> QED BY <3>4 DEF Promise!Next
  <2> QED BY <1>1, <2>1, <2>2, <2>3 DEF Calls
<1>2. ASSUME NEW r \in Requests, NEW a \in {<<"error">>, <<"stopping">>, <<"result", r>>},
             work[r] \in {"registered", "written"}, Return(r, a),
             a = <<"result", r>> => Executions[r] = 1
      PROVE  Promise!Next \/ UNCHANGED Promise!callVars
  <2> DEFINE S == {q \in {r} : caller[q] = "waiting" /\ answer[q] = <<>>}
  <2>1. caller[r] \in {"waiting", "gone"}
    BY <1>2 DEF TypeInv, TypeOK, OnceInv, WorkOnce
  <2>5. /\ a # <<>> /\ UNCHANGED <<caller, sent>> /\ answer' = Answered({r}, a)
    BY <1>2 DEF Return
  <2>2. Promise!Becomes(S, <<"open">>, a) BY <2>1, <2>5, AnsweredIsTold
  <2>3. CASE S = {} BY <2>2, <2>3, NobodyIsTold
  <2>4. CASE S = {r}
    <3>1. CASE a = <<"error">> BY <2>2, <2>4, <3>1 DEF Promise!Next, Promise!TellError
    <3>2. CASE a = <<"stopping">> BY <2>2, <2>4, <3>2 DEF Promise!Next, Promise!TellStopping
    <3>3. CASE a = <<"result", r>>
      BY <1>2, <2>2, <2>4, <3>3 DEF Promise!Next, Promise!TellResult
    <3> QED BY <3>1, <3>2, <3>3
  <2> QED BY <2>3, <2>4
<1>3. ASSUME NEW r \in Requests, Works(r) PROVE Promise!Next \/ UNCHANGED Promise!callVars
  <2>1. CASE Register(r) BY <2>1, Unseen DEF Register
  <2>2. CASE Write(r)
    <3>1. \A m \in sent : m[3] # r
      BY <2>2 DEF Write, CallInv, SentOnce
    <3>2. Executions[r] = 0 BY <3>1, NoFrameNoExecution
    <3>3. sent' = sent \cup {<<stdin[r], wire[r], r>>} BY <2>2 DEF Write
    <3>4. {m \in sent' : m[3] = r} = {<<stdin[r], wire[r], r>>}
      BY <3>1, <3>3
    <3>5. Cardinality({m \in sent' : m[3] = r}) = 1 BY <3>4, FS_Singleton
    <3>6. \A q \in Requests : q # r => {m \in sent' : m[3] = q} = {m \in sent : m[3] = q}
      BY <3>3
    <3>7. Executions' = [Executions EXCEPT ![r] = 1]
      BY <3>5, <3>6 DEF Executions
    <3>8. UNCHANGED Outcome BY <2>2 DEF Write, Outcome, Told
    <3>9. caller[r] \in {"waiting", "gone"}
      BY <2>2 DEF Write, TypeInv, TypeOK, OnceInv, WorkOnce
    <3>10. Outcome[r] \notin {<<"new">>, <<"refused">>}
      <4>1. answer[r] \in {<<>>} \cup ({"result"} \X Requests)
                          \cup {<<"stopping">>, <<"error">>}
        BY DEF TypeInv, TypeOK
      <4>2. CASE caller[r] = "gone" BY <4>2 DEF Outcome, Told
      <4>3. CASE caller[r] = "waiting" BY <4>1, <4>3 DEF Outcome, Told
      <4> QED BY <3>9, <4>2, <4>3
    <3>11. Promise!Execute(r) BY <3>2, <3>7, <3>8, <3>10 DEF Promise!Execute
    <3> QED BY <3>11 DEF Promise!Next
  <2>3. CASE WriteFails(r) BY <2>3, <1>2 DEF WriteFails
  <2>4. CASE Receive(r)
    <3>1. respCh[r] = r /\ \E m \in sent : m[3] = r
      BY <2>4 DEF Receive, RouteInv, RespOwn, CallInv, ReplyWasSent
    <3>2. Executions[r] = 1 BY <3>1, OneFrameOneExecution
    <3> QED BY <2>4, <3>1, <3>2, <1>2 DEF Receive
  <2>5. CASE TimeOut(r) BY <2>5, <1>2 DEF TimeOut
  <2>6. CASE SeeStop(r) BY <2>6, <1>2 DEF SeeStop
  <2>7. CASE Finish(r) BY <2>7, Unseen DEF Finish
  <2> QED BY <1>3, <2>1, <2>2, <2>3, <2>4, <2>5, <2>6, <2>7 DEF Works
<1>4. ASSUME NEW rs \in SUBSET Requests, \A r \in rs : Fresh(r),
             UNCHANGED <<caller, sent>>, answer' = Answered(rs, <<"stopping">>)
      PROVE  Promise!Next
  <2>1. PICK S \in SUBSET Requests : Promise!Becomes(S, <<"open">>, <<"stopping">>)
    BY <1>4, AnsweredIsTold DEF Fresh
  <2> QED BY <2>1 DEF Promise!Next, Promise!TellStopping
<1>5. ASSUME NEW g \in Gens, Loops(g) PROVE Promise!Next \/ UNCHANGED Promise!callVars
  <2>1. CASE Dequeue(g) BY <2>1, Unseen DEF Dequeue
  <2>2. CASE Dispatch(g) BY <2>2, Unseen DEF Dispatch
  <2>3. ToSet(queue) \in SUBSET Requests /\ \A r \in ToSet(queue) : Fresh(r)
    BY QueuedAreFresh
  <2>4. CASE Abandon(g)
    <3>1. held[g] \in Requests /\ Fresh(held[g])
      BY <2>4 DEF Abandon, TypeInv, TypeOK, HeldOK, OnceInv, HeldOnce
    <3>2. /\ {held[g]} \cup ToSet(queue) \in SUBSET Requests
          /\ \A r \in {held[g]} \cup ToSet(queue) : Fresh(r)
      BY <2>3, <3>1
    <3> QED BY <2>4, <3>2, <1>4 DEF Abandon
  <2>5. CASE Drain(g) BY <2>5, <2>3, <1>4 DEF Drain
  <2>6. CASE IdleCheck(g) BY <2>6, Unseen DEF IdleCheck
  <2> QED BY <1>5, <2>1, <2>2, <2>4, <2>5, <2>6 DEF Loops
<1>6. ASSUME NEW g \in Gens, Lives(g) \/ Reads(g) PROVE UNCHANGED Promise!callVars
  BY <1>6, Unseen DEF Lives, Exits, NoticeExit, Reads, ChildAnswers, Match, Deliver, ReaderEnds
<1>7. CASE Stop \/ IdleStops \/ Stopped \/ Respawn
  BY <1>7, Unseen DEF Stop, StopLocked, IdleStops, Stopped, Respawn
<1>8. CASE UNCHANGED vars BY <1>8, Unseen DEF vars
<1> QED BY <1>1, <1>3, <1>5, <1>6, <1>7, <1>8 DEF Next

\* A server executes a request at most once and tells its caller one outcome, for any number
\* of requests and generations: the request path implements what RpcCalls promises.
THEOREM PathKeepsPromise == Spec => KeepsPromise
<1> QED BY TypeInit, TypeNext, OnceInit, OnceNext, RouteInit, RouteNext, CallInit, CallNext,
           PromiseInit, PromiseNext, PTL DEF Spec, KeepsPromise, Promise!Spec

=============================================================================
