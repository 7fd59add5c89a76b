-------------------------- MODULE RemoteServerProofs --------------------------
(***************************************************************************)
(* Safety of RemoteServer for any number of callers and clients, with and  *)
(* without a stream.                                                       *)
(***************************************************************************)
EXTENDS RemoteServer, TLAPS

-----------------------------------------------------------------------------
(* Types *)

LEMMA TypeInit == Init => TypeOK
<1> SUFFICES ASSUME Init PROVE TypeOK
  OBVIOUS
<1> USE RemoteAssumption DEF Init, Clients, NoClient
<1>1. /\ current \in Clients \cup {NoClient} /\ taken \in Clients \cup {NoClient}
      /\ state \in {"starting", "running", "disconnected", "error", "stopped"}
      /\ closing \in {"no", "closeClient", "setStopped", "done"}
      /\ built \in 0 .. MaxClients /\ lock \in Callers \cup {NoCaller}
  OBVIOUS
<1>2. /\ client \in [Clients -> {"none", "open", "lost", "closed"}]
      /\ notice \in [Clients -> {"none", "check", "mark"}]
  OBVIOUS
<1>3. /\ pc \in [Callers -> {"idle", "mark", "check", "lock", "drop", "dial",
                             "announce", "send"}]
      /\ stage \in [Callers -> {"only", "connect", "first", "retry"}]
  OBVIOUS
<1>4. /\ dialed \in [Callers -> Clients \cup {NoClient}]
      /\ using \in [Callers -> Clients \cup {NoClient}]
  OBVIOUS
<1>5. registered \in BOOLEAN
  BY Zenon
<1> QED
  BY <1>1, <1>2, <1>3, <1>4, <1>5, Zenon DEF TypeOK

LEMMA TypeStep == TypeOK /\ [Next]_vars => TypeOK'
<1> SUFFICES ASSUME TypeOK, [Next]_vars PROVE TypeOK'
  OBVIOUS
<1> USE RemoteAssumption DEF TypeOK, Clients, NoClient
<1>1. ASSUME NEW c \in Callers, StartServer(c) PROVE TypeOK'
  BY <1>1 DEF StartServer, Goto, serverVars, poolVars, clientVars, callerVars
<1>2. ASSUME NEW c \in Callers, Call(c) PROVE TypeOK'
  BY <1>2 DEF Call, Visible, Goto, serverVars, poolVars, clientVars, callerVars
<1>3. ASSUME NEW c \in Callers, Restart(c) PROVE TypeOK'
  BY <1>3 DEF Restart, Visible, Goto, serverVars, poolVars, clientVars,
      callerVars
<1>4. ASSUME NEW c \in Callers, Acquire(c) PROVE TypeOK'
  BY <1>4, ZenonT(60) DEF Acquire, Connected, Usable, Goto, serverVars, poolVars,
      clientVars, callerVars
<1>5. ASSUME NEW c \in Callers, Mark(c) PROVE TypeOK'
  BY <1>5 DEF Mark, Goto, serverVars, poolVars, clientVars, callerVars
<1>6. ASSUME NEW c \in Callers, FastPath(c) PROVE TypeOK'
  BY <1>6, ZenonT(60) DEF FastPath, Connected, Usable, Goto, serverVars, poolVars,
      clientVars, callerVars
<1>7. ASSUME NEW c \in Callers, SlowPath(c) PROVE TypeOK'
  BY <1>7 DEF SlowPath, Usable, Goto, serverVars, poolVars, clientVars,
      callerVars
<1>8. ASSUME NEW c \in Callers, Drop(c) PROVE TypeOK'
  BY <1>8 DEF Drop, Closed, Reported, Goto, serverVars, poolVars, clientVars,
      callerVars
<1>9. ASSUME NEW c \in Callers, Build(c) PROVE TypeOK'
  BY <1>9 DEF Build, Goto, serverVars, poolVars, clientVars, callerVars
<1>10. ASSUME NEW c \in Callers, DialFails(c) PROVE TypeOK'
  <2> USE <1>10 DEF DialFails
  <2>1. /\ client' \in [Clients -> {"none", "open", "lost", "closed"}]
        /\ notice' \in [Clients -> {"none", "check", "mark"}]
    <3>1. CASE dialed[c] = NoClient
      BY <3>1
    <3>2. CASE dialed[c] # NoClient
      <4>1. client' = Closed(dialed[c]) /\ notice' = Reported(dialed[c])
        BY <3>2
      <4>2. client' \in [Clients -> {"none", "open", "lost", "closed"}]
        BY <4>1 DEF Closed
      <4>3. notice' \in [Clients -> {"none", "check", "mark"}]
        BY <4>1 DEF Reported
      <4> QED
        BY <4>2, <4>3
    <3> QED
      BY <3>1, <3>2
  <2>2. /\ pc' \in [Callers -> {"idle", "mark", "check", "lock", "drop", "dial",
                               "announce", "send"}]
        /\ dialed' \in [Callers -> Clients \cup {NoClient}]
    BY DEF Goto
  <2>3. UNCHANGED <<current, registered, closing, taken, built, stage, using>>
    BY DEF poolVars
  <2>4. state' = "error" /\ lock' = NoCaller
    OBVIOUS
  <2> QED
    BY <2>1, <2>2, <2>3, <2>4
<1>11. ASSUME NEW c \in Callers, Install(c) PROVE TypeOK'
  BY <1>11 DEF Install, Goto, serverVars, poolVars, clientVars, callerVars
<1>12. ASSUME NEW c \in Callers, Announce(c) PROVE TypeOK'
  BY <1>12, ZenonT(60) DEF Announce, Connected, Goto, serverVars, poolVars, clientVars,
      callerVars
<1>13. ASSUME NEW c \in Callers, Finish(c) PROVE TypeOK'
  BY <1>13 DEF Finish, Goto, serverVars, poolVars, clientVars, callerVars
<1>14. ASSUME NEW c \in Callers, Fail(c) PROVE TypeOK'
  BY <1>14 DEF Fail, Goto, serverVars, poolVars, clientVars, callerVars
<1>15. ASSUME NEW k \in Clients, Lose(k) PROVE TypeOK'
  BY <1>15 DEF Lose, Reported, Goto, serverVars, poolVars, clientVars,
      callerVars
<1>16. ASSUME NEW k \in Clients, NoticeChecks(k) PROVE TypeOK'
  BY <1>16 DEF NoticeChecks, Goto, serverVars, poolVars, clientVars, callerVars
<1>17. ASSUME NEW k \in Clients, NoticeMarks(k) PROVE TypeOK'
  BY <1>17 DEF NoticeMarks, Goto, serverVars, poolVars, clientVars, callerVars
<1>18. ASSUME CloseTakes PROVE TypeOK'
  BY <1>18 DEF CloseTakes, Goto, serverVars, poolVars, clientVars, callerVars
<1>19. ASSUME CloseCloses PROVE TypeOK'
  BY <1>19, SMTT(60) DEF CloseCloses, Closed, Reported, Goto, serverVars, poolVars,
      clientVars, callerVars
<1>20. ASSUME CloseStops PROVE TypeOK'
  BY <1>20 DEF CloseStops, Goto, serverVars, poolVars, clientVars, callerVars
<1>21. CASE UNCHANGED vars
  BY <1>21 DEF vars, Goto, serverVars, poolVars, clientVars, callerVars
<1> QED
  BY <1>1, <1>2, <1>3, <1>4, <1>5, <1>6, <1>7, <1>8, <1>9, <1>10, <1>11,
      <1>12, <1>13, <1>14, <1>15, <1>16, <1>17, <1>18, <1>19, <1>20, <1>21 DEF
      Next, Running

\* Types hold throughout.
THEOREM TypeCorrect == Spec => []TypeOK
<1>1. Init => TypeOK
  BY TypeInit
<1>2. TypeOK /\ [Next]_vars => TypeOK'
  BY TypeStep
<1> QED
  BY <1>1, <1>2, PTL DEF Spec

-----------------------------------------------------------------------------
(* The reconnect protocol.  reconnectMu is held exactly from the re-check  *)
(* to the announcement; while a client is connected there is no current    *)
(* one; and between Install and Announce only Close can take it away.      *)

Reconnecting(c) == pc[c] \in {"drop", "dial", "announce"}

LockOK == \A c \in Callers : Reconnecting(c) <=> lock = c

DialOK == \A c \in Callers :
  /\ dialed[c] # NoClient => pc[c] \in {"dial", "announce"}
  /\ pc[c] = "dial" => current = NoClient

InstalledOK == \A c \in Callers : pc[c] = "announce" =>
  /\ dialed[c] # NoClient
  /\ \/ current = dialed[c]
     \/ /\ closing # "no" /\ current = NoClient
        /\ taken = dialed[c] \/ ~Open(dialed[c])

TakenOK == taken # NoClient => closing = "closeClient"

\* Whoever is about to drop or connect a client saw no usable one.
DropOK == \A c \in Callers :
  closing = "no" /\ pc[c] \in {"drop", "dial"} => state # "running"

ConnInv ==
  /\ LockOK /\ DialOK /\ InstalledOK /\ TakenOK /\ DropOK
  /\ NoClientLeaks /\ RunningHasClient

LEMMA ConnInit == Init => ConnInv
BY RemoteAssumption DEF Init, ConnInv, LockOK, Reconnecting, DialOK,
    InstalledOK,
  TakenOK, DropOK, NoClientLeaks, RunningHasClient, Open, NoClient, Clients

LEMMA ConnStep == TypeOK /\ ConnInv /\ [Next]_vars => ConnInv'
<1> SUFFICES ASSUME TypeOK /\ ConnInv, [Next]_vars PROVE ConnInv'
  OBVIOUS
<1> USE RemoteAssumption DEF ConnInv, TypeOK, Clients, NoClient, LockOK,
    Reconnecting, DialOK, InstalledOK, TakenOK, DropOK, NoClientLeaks,
    RunningHasClient, Open
<1>1. ASSUME NEW c \in Callers, StartServer(c) PROVE ConnInv'
  BY <1>1 DEF StartServer, Goto, serverVars, poolVars, clientVars, callerVars
<1>2. ASSUME NEW c \in Callers, Call(c) PROVE ConnInv'
  BY <1>2 DEF Call, Visible, Goto, serverVars, poolVars, clientVars, callerVars
<1>3. ASSUME NEW c \in Callers, Restart(c) PROVE ConnInv'
  BY <1>3 DEF Restart, Visible, Goto, serverVars, poolVars, clientVars,
      callerVars
<1>4. ASSUME NEW c \in Callers, Acquire(c) PROVE ConnInv'
  BY <1>4 DEF Acquire, Connected, Usable, Goto, serverVars, poolVars,
      clientVars, callerVars
<1>5. ASSUME NEW c \in Callers, Mark(c) PROVE ConnInv'
  BY <1>5 DEF Mark, Goto, serverVars, poolVars, clientVars, callerVars
<1>6. ASSUME NEW c \in Callers, FastPath(c) PROVE ConnInv'
  BY <1>6 DEF FastPath, Connected, Usable, Goto, serverVars, poolVars,
      clientVars, callerVars
<1>7. ASSUME NEW c \in Callers, SlowPath(c) PROVE ConnInv'
  BY <1>7 DEF SlowPath, Usable, Goto, serverVars, poolVars, clientVars,
      callerVars
<1>8. ASSUME NEW c \in Callers, Drop(c) PROVE ConnInv'
  BY <1>8 DEF Drop, Closed, Reported, Goto, serverVars, poolVars, clientVars,
      callerVars
<1>9. ASSUME NEW c \in Callers, Build(c) PROVE ConnInv'
  BY <1>9 DEF Build, Goto, serverVars, poolVars, clientVars, callerVars
<1>10. ASSUME NEW c \in Callers, DialFails(c) PROVE ConnInv'
  BY <1>10 DEF DialFails, Closed, Reported, Goto, serverVars, poolVars,
      clientVars, callerVars
<1>11. ASSUME NEW c \in Callers, Install(c) PROVE ConnInv'
  BY <1>11 DEF Install, Goto, serverVars, poolVars, clientVars, callerVars
<1>12. ASSUME NEW c \in Callers, Announce(c) PROVE ConnInv'
  <2> USE <1>12 DEF Announce, Connected, Goto, serverVars, poolVars,
      clientVars, callerVars
  <2>1. LockOK'
    OBVIOUS
  <2>2. DialOK'
    OBVIOUS
  <2>3. InstalledOK'
    OBVIOUS
  <2>4. TakenOK'
    OBVIOUS
  <2>5. DropOK'
    OBVIOUS
  <2>6. NoClientLeaks'
    OBVIOUS
  <2>7. RunningHasClient'
    OBVIOUS
  <2> QED
    BY <2>1, <2>2, <2>3, <2>4, <2>5, <2>6, <2>7
<1>13. ASSUME NEW c \in Callers, Finish(c) PROVE ConnInv'
  BY <1>13 DEF Finish, Goto, serverVars, poolVars, clientVars, callerVars
<1>14. ASSUME NEW c \in Callers, Fail(c) PROVE ConnInv'
  BY <1>14 DEF Fail, Goto, serverVars, poolVars, clientVars, callerVars
<1>15. ASSUME NEW k \in Clients, Lose(k) PROVE ConnInv'
  BY <1>15 DEF Lose, Reported, Goto, serverVars, poolVars, clientVars,
      callerVars
<1>16. ASSUME NEW k \in Clients, NoticeChecks(k) PROVE ConnInv'
  BY <1>16 DEF NoticeChecks, Goto, serverVars, poolVars, clientVars, callerVars
<1>17. ASSUME NEW k \in Clients, NoticeMarks(k) PROVE ConnInv'
  BY <1>17 DEF NoticeMarks, Goto, serverVars, poolVars, clientVars, callerVars
<1>18. ASSUME CloseTakes PROVE ConnInv'
  BY <1>18 DEF CloseTakes, Goto, serverVars, poolVars, clientVars, callerVars
<1>19. ASSUME CloseCloses PROVE ConnInv'
  <2> USE <1>19 DEF CloseCloses, Closed, Reported, Goto, serverVars, poolVars,
      clientVars, callerVars
  <2>1. LockOK'
    OBVIOUS
  <2>2. DialOK'
    OBVIOUS
  <2>3. InstalledOK'
    OBVIOUS
  <2>4. TakenOK'
    OBVIOUS
  <2>5. DropOK'
    OBVIOUS
  <2>6. NoClientLeaks'
    OBVIOUS
  <2>7. RunningHasClient'
    OBVIOUS
  <2> QED
    BY <2>1, <2>2, <2>3, <2>4, <2>5, <2>6, <2>7
<1>20. ASSUME CloseStops PROVE ConnInv'
  BY <1>20 DEF CloseStops, Goto, serverVars, poolVars, clientVars, callerVars
<1>21. CASE UNCHANGED vars
  BY <1>21 DEF vars, Goto, serverVars, poolVars, clientVars, callerVars
<1> QED
  BY <1>1, <1>2, <1>3, <1>4, <1>5, <1>6, <1>7, <1>8, <1>9, <1>10, <1>11,
      <1>12, <1>13, <1>14, <1>15, <1>16, <1>17, <1>18, <1>19, <1>20, <1>21 DEF
      Next, Running

LEMMA Connections == Spec => [](TypeOK /\ ConnInv)
<1>1. Init => TypeOK /\ ConnInv
  BY TypeInit, ConnInit
<1>2. (TypeOK /\ ConnInv) /\ [Next]_vars => (TypeOK /\ ConnInv)'
  BY TypeStep, ConnStep
<1> QED
  BY <1>1, <1>2, PTL DEF Spec

\* A client that is not closed is current, being connected, or being closed by
\* Close (ensureConnected and Close, http_pool.go and sse_pool.go).
THEOREM ClientsDoNotLeak == Spec => []NoClientLeaks
<1>1. ConnInv => NoClientLeaks
  BY DEF ConnInv
<1> QED
  BY Connections, <1>1, PTL

\* Apart from the client Close is closing there is one connection at most.
THEOREM OneConnectionAtATime == Spec => []OneConnection
<1>1. ASSUME TypeOK, ConnInv, NEW j \in Clients, NEW k \in Clients,
             Open(j), Open(k), taken # j, taken # k
      PROVE  j = k
  <2> USE <1>1 DEF ConnInv, Clients, NoClient
  <2>1. CASE \E c \in Callers : dialed[c] # NoClient
    <3>1. PICK c \in Callers : dialed[c] # NoClient
      BY <2>1
    <3>2. \A d \in Callers : dialed[d] # NoClient => d = c
      BY <3>1 DEF LockOK, DialOK, Reconnecting
    <3>3. current \in {NoClient, dialed[c]}
      BY <3>1 DEF DialOK, InstalledOK
    <3> QED
      BY <3>2, <3>3 DEF NoClientLeaks
  <2>2. CASE \A c \in Callers : dialed[c] = NoClient
    BY <2>2 DEF NoClientLeaks
  <2> QED
    BY <2>1, <2>2
<1>2. TypeOK /\ ConnInv => OneConnection
  BY <1>1 DEF OneConnection
<1> QED
  BY Connections, <1>2, PTL

\* Until Close, "running" is backed by a client.
THEOREM RunningIsConnected == Spec => []RunningHasClient
<1>1. ConnInv => RunningHasClient
  BY DEF ConnInv
<1> QED
  BY Connections, <1>1, PTL

-----------------------------------------------------------------------------
(* The retry.  A client later than the first is connected while the state  *)
(* sends every caller to the slow path, so nobody uses it before it is     *)
(* announced; and the state a failed attempt has stored stays until        *)
(* somebody has reconnected.                                               *)

SlowStates == {"disconnected", "error"}

BuiltOK ==
  /\ current <= built
  /\ \A c \in Callers : using[c] <= built /\ dialed[c] <= built

StoppedOK == state = "stopped" => closing # "no"

StartingOK == state = "starting" /\ built # 0 =>
  built = 1 /\ \E c \in Callers : dialed[c] = 1

SlowOK == \A c \in Callers : closing = "no" /\ dialed[c] > 1 => state \in SlowStates

FreshOK == \A a, c \in Callers :
  closing = "no" /\ dialed[a] > 1 => using[c] # dialed[a]

RetryOK == \A c \in Callers :
  /\ closing = "no" /\ using[c] > 1 /\ stage[c] = "retry"
  /\ pc[c] \in {"check", "lock"} \/ Reconnecting(c)
  => current # using[c] \/ state \in SlowStates

RetryInv ==
  BuiltOK /\ StoppedOK /\ StartingOK /\ SlowOK /\ FreshOK /\ RetryOK

LEMMA RetryInit == Init => RetryInv
BY RemoteAssumption DEF Init, RetryInv, BuiltOK, StoppedOK, StartingOK, SlowOK,
  FreshOK, RetryOK, NoClient

LEMMA RetryStep == TypeOK /\ ConnInv /\ RetryInv /\ [Next]_vars => RetryInv'
<1> SUFFICES ASSUME TypeOK /\ ConnInv /\ RetryInv, [Next]_vars PROVE RetryInv'
  OBVIOUS
<1> USE RemoteAssumption DEF ConnInv, TypeOK, Clients, NoClient, LockOK,
    Reconnecting, DialOK, InstalledOK, DropOK, RetryInv, BuiltOK, StoppedOK,
    StartingOK, SlowOK, FreshOK, RetryOK, SlowStates
<1>1. ASSUME NEW c \in Callers, StartServer(c) PROVE RetryInv'
  BY <1>1 DEF StartServer, Goto, serverVars, poolVars, clientVars, callerVars
<1>2. ASSUME NEW c \in Callers, Call(c) PROVE RetryInv'
  BY <1>2 DEF Call, Visible, Goto, serverVars, poolVars, clientVars, callerVars
<1>3. ASSUME NEW c \in Callers, Restart(c) PROVE RetryInv'
  BY <1>3 DEF Restart, Visible, Goto, serverVars, poolVars, clientVars,
      callerVars
<1>4. ASSUME NEW c \in Callers, Acquire(c) PROVE RetryInv'
  <2> USE <1>4 DEF Acquire, Connected, Usable, Goto, serverVars, poolVars,
      clientVars, callerVars
  <2>1. BuiltOK' /\ StoppedOK' /\ StartingOK'
    BY SMTT(60)
  <2>2. SlowOK'
    OBVIOUS
  <2>3. FreshOK'
    OBVIOUS
  <2>4. RetryOK'
    OBVIOUS
  <2> QED
    BY <2>1, <2>2, <2>3, <2>4
<1>5. ASSUME NEW c \in Callers, Mark(c) PROVE RetryInv'
  BY <1>5 DEF Mark, Goto, serverVars, poolVars, clientVars, callerVars
<1>6. ASSUME NEW c \in Callers, FastPath(c) PROVE RetryInv'
  BY <1>6 DEF FastPath, Connected, Usable, Goto, serverVars, poolVars,
      clientVars, callerVars
<1>7. ASSUME NEW c \in Callers, SlowPath(c) PROVE RetryInv'
  BY <1>7 DEF SlowPath, Usable, Goto, serverVars, poolVars, clientVars,
      callerVars
<1>8. ASSUME NEW c \in Callers, Drop(c) PROVE RetryInv'
  BY <1>8 DEF Drop, Closed, Reported, Goto, serverVars, poolVars, clientVars,
      callerVars
<1>9. ASSUME NEW c \in Callers, Build(c) PROVE RetryInv'
  BY <1>9 DEF Build, Goto, serverVars, poolVars, clientVars, callerVars
<1>10. ASSUME NEW c \in Callers, DialFails(c) PROVE RetryInv'
  BY <1>10 DEF DialFails, Closed, Reported, Goto, serverVars, poolVars,
      clientVars, callerVars
<1>11. ASSUME NEW c \in Callers, Install(c) PROVE RetryInv'
  BY <1>11 DEF Install, Goto, serverVars, poolVars, clientVars, callerVars
<1>12. ASSUME NEW c \in Callers, Announce(c) PROVE RetryInv'
  BY <1>12 DEF Announce, Connected, Goto, serverVars, poolVars, clientVars,
      callerVars
<1>13. ASSUME NEW c \in Callers, Finish(c) PROVE RetryInv'
  BY <1>13 DEF Finish, Goto, serverVars, poolVars, clientVars, callerVars
<1>14. ASSUME NEW c \in Callers, Fail(c) PROVE RetryInv'
  BY <1>14 DEF Fail, Goto, serverVars, poolVars, clientVars, callerVars
<1>15. ASSUME NEW k \in Clients, Lose(k) PROVE RetryInv'
  BY <1>15 DEF Lose, Reported, Goto, serverVars, poolVars, clientVars,
      callerVars
<1>16. ASSUME NEW k \in Clients, NoticeChecks(k) PROVE RetryInv'
  BY <1>16 DEF NoticeChecks, Goto, serverVars, poolVars, clientVars, callerVars
<1>17. ASSUME NEW k \in Clients, NoticeMarks(k) PROVE RetryInv'
  BY <1>17 DEF NoticeMarks, Goto, serverVars, poolVars, clientVars, callerVars
<1>18. ASSUME CloseTakes PROVE RetryInv'
  BY <1>18 DEF CloseTakes, Goto, serverVars, poolVars, clientVars, callerVars
<1>19. ASSUME CloseCloses PROVE RetryInv'
  BY <1>19 DEF CloseCloses, Closed, Reported, Goto, serverVars, poolVars,
      clientVars, callerVars
<1>20. ASSUME CloseStops PROVE RetryInv'
  BY <1>20 DEF CloseStops, Goto, serverVars, poolVars, clientVars, callerVars
<1>21. CASE UNCHANGED vars
  BY <1>21 DEF vars, Goto, serverVars, poolVars, clientVars, callerVars
<1> QED
  BY <1>1, <1>2, <1>3, <1>4, <1>5, <1>6, <1>7, <1>8, <1>9, <1>10, <1>11,
      <1>12, <1>13, <1>14, <1>15, <1>16, <1>17, <1>18, <1>19, <1>20, <1>21 DEF
      Next, Running

RetryFresh ==
  \A c \in Callers :
    pc[c] # "send" /\ pc'[c] = "send" /\ stage'[c] = "retry"
      => using'[c] # using[c] \/ using[c] = 1 \/ closing' # "no"

LEMMA FreshStep == TypeOK /\ ConnInv /\ RetryInv /\ [Next]_vars => RetryFresh
<1> SUFFICES ASSUME TypeOK, ConnInv, RetryInv, [Next]_vars PROVE RetryFresh
  OBVIOUS
<1> USE RemoteAssumption DEF ConnInv, TypeOK, Clients, NoClient, LockOK,
    Reconnecting, InstalledOK, RetryFresh, RetryInv, BuiltOK, StoppedOK,
    StartingOK, SlowOK, FreshOK, RetryOK, SlowStates
<1>1. ASSUME NEW c \in Callers, Acquire(c) PROVE RetryFresh
  BY <1>1 DEF Acquire, Connected, Usable, Goto, serverVars, poolVars
<1>2. ASSUME NEW c \in Callers, FastPath(c) PROVE RetryFresh
  BY <1>2 DEF FastPath, Connected, Usable, Goto, serverVars, poolVars
<1>3. ASSUME NEW c \in Callers, Announce(c) PROVE RetryFresh
  BY <1>3 DEF Announce, Connected, Goto, poolVars
<1>4. ASSUME NEW c \in Callers,
             \/ StartServer(c) \/ Call(c) \/ Restart(c) \/ Mark(c) \/ SlowPath(c)
             \/ Drop(c) \/ Build(c) \/ DialFails(c) \/ Install(c) \/ Finish(c)
             \/ Fail(c)
      PROVE  RetryFresh
  BY <1>4 DEF StartServer, Call, Restart, Mark, SlowPath, Drop, Build,
      DialFails, Install, Finish, Fail, Goto, callerVars
<1>5. ASSUME callerVars' = callerVars PROVE RetryFresh
  BY <1>5 DEF callerVars
<1> QED
  BY <1>1, <1>2, <1>3, <1>4, <1>5 DEF Next, Running, Lose, NoticeChecks,
      NoticeMarks, CloseTakes, CloseCloses, CloseStops, vars

\* The retry of a failed attempt goes out on another connection (CallTool and
\* ListTools, http_pool.go:203-212, 235-244), the first client and a Close in
\* progress excepted.
THEOREM RetriesReconnect == Spec => RetryReconnects
<1>1. Init => TypeOK /\ ConnInv /\ RetryInv
  BY TypeInit, ConnInit, RetryInit
<1>2. (TypeOK /\ ConnInv /\ RetryInv) /\ [Next]_vars
        => (TypeOK /\ ConnInv /\ RetryInv)'
  BY TypeStep, ConnStep, RetryStep
<1>3. TypeOK /\ ConnInv /\ RetryInv /\ [Next]_vars => [RetryFresh]_vars
  BY FreshStep
<1> QED
  BY <1>1, <1>2, <1>3, PTL DEF Spec, RetryReconnects, RetryFresh

=============================================================================
