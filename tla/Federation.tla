------------------------------ MODULE Federation ------------------------------
(***************************************************************************)
(* The peers of pkg/federation: PeerManager with the status of each peer   *)
(* and the index of their tools, and FederationRouter, which finds a peer  *)
(* for a tool and moves on to the next when a peer fails.                  *)
(*                                                                         *)
(* No lock is held while a peer is asked, so what was read of it may be    *)
(* old when it is used.  What the peers themselves do is external.         *)
(***************************************************************************)
EXTENDS FiniteSets

CONSTANTS Peers,
          FedTools,       \* the names of the tools of peers
          FedCallers,
          NoPeer

ASSUME FederationAssumption == NoPeer \notin Peers

Statuses == {"unknown", "online", "offline", "error"}

VARIABLES
  peerStatus,   \* Peer.Status
  toolIdx,      \* toolIdx: the peer that last listed each tool
  offersNow,    \* external: the tools each peer has
  fedCall       \* the calls under way, each with the steps it has still to return from

fedVars == <<peerStatus, toolIdx, offersNow, fedCall>>

NoFedCall == [step |-> "idle"]

FDInit == /\ peerStatus = [p \in Peers |-> "unknown"] /\ toolIdx = [t \in FedTools |-> NoPeer]
          /\ offersNow = [p \in Peers |-> {}]
          /\ fedCall = [c \in FedCallers |-> NoFedCall]

\* External: a peer gets other tools.
PeerChanges(p) == /\ \E ts \in SUBSET FedTools : offersNow' = [offersNow EXCEPT ![p] = ts]
                  /\ UNCHANGED <<peerStatus, toolIdx, fedCall>>

-----------------------------------------------------------------------------
(* A call is of Connect, DiscoverTools or InvokeWithFailover.  `peer' is    *)
(* the peer it is at, `left' the ones its loop has still to visit, `first'  *)
(* the one Route found, and `ran' the peers that have run the tool.         *)

BeginFedCall(c) ==
  /\ fedCall[c].step = "idle"
  /\ \/ \E p \in Peers, op \in {"connect", "discover"} :
          fedCall' = [fedCall EXCEPT ![c] =
                        [op |-> op, step |-> IF op = "connect" THEN "health" ELSE "status",
                         peer |-> p, tool |-> NoPeer, left |-> {}, first |-> NoPeer,
                         ran |-> {}, failed |-> {}]]
     \/ \E t \in FedTools :
          fedCall' = [fedCall EXCEPT ![c] =
                        [op |-> "route", step |-> "index", peer |-> NoPeer, tool |-> t,
                         left |-> {}, first |-> NoPeer, ran |-> {}, failed |-> {}]]
  /\ UNCHANGED <<peerStatus, toolIdx, offersNow>>

Goes(c, step) == fedCall' = [fedCall EXCEPT ![c].step = step]

FedOver(c, how) ==
  fedCall' = [fedCall EXCEPT ![c] = [step |-> "over", how |-> how, op |-> @.op,
                                     left |-> @.left]]

\* What has failed: Connect and DiscoverTools return, Route and the failover go on.
Gives(c) == IF fedCall[c].op \in {"connect", "discover"} THEN FedOver(c, "error")
            ELSE IF fedCall[c].op = "route" THEN Goes(c, "next") ELSE Goes(c, "mark")

\* Route: the peer in the index, or else every peer in turn, in any order.
LookInIndex(c) ==
  /\ fedCall[c].step = "index"
  /\ IF toolIdx[fedCall[c].tool] # NoPeer
       THEN fedCall' = [fedCall EXCEPT ![c].op = "invoke", ![c].step = "visit", ![c].left = Peers,
                                       ![c].first = toolIdx[fedCall[c].tool]]
       ELSE fedCall' = [fedCall EXCEPT ![c].step = "next", ![c].left = Peers]
  /\ UNCHANGED <<peerStatus, toolIdx, offersNow>>

\* A peer that is not online is passed over.
RouteNext(c) ==
  /\ fedCall[c].step = "next"
  /\ IF fedCall[c].left = {} THEN FedOver(c, "error")
     ELSE \E p \in fedCall[c].left :
            fedCall' = [fedCall EXCEPT ![c].left = @ \ {p}, ![c].peer = p,
                          ![c].step = IF peerStatus[p] = "online" THEN "status" ELSE "next"]
  /\ UNCHANGED <<peerStatus, toolIdx, offersNow>>

\* DiscoverTools and Invoke read the status again, without the lock, and connect first if the
\* peer is not online any more.
ReadStatus(c) ==
  /\ fedCall[c].step = "status"
  /\ Goes(c, IF peerStatus[fedCall[c].peer] # "online" THEN "health"
             ELSE IF fedCall[c].op = "invoke" THEN "run" ELSE "list")
  /\ UNCHANGED <<peerStatus, toolIdx, offersNow>>

\* Connect: the answer of /health sets the status.
Connect(c) ==
  /\ fedCall[c].step = "health"
  /\ \E status \in {"online", "offline", "error"} :
       /\ peerStatus' = [peerStatus EXCEPT ![fedCall[c].peer] = status]
       /\ IF status # "online" THEN Gives(c)
          ELSE IF fedCall[c].op = "connect" THEN FedOver(c, "done")
          ELSE Goes(c, IF fedCall[c].op = "invoke" THEN "run" ELSE "list")
  /\ UNCHANGED <<toolIdx, offersNow>>

\* The list of tools; Route is done with the peer that has the tool.
DiscoverTools(c) ==
  LET p == fedCall[c].peer
      route == fedCall[c].op = "route"
  IN /\ fedCall[c].step = "list"
     /\ \/ Gives(c) /\ UNCHANGED toolIdx
        \/ /\ toolIdx' = [t \in FedTools |-> IF t \in offersNow[p] THEN p ELSE toolIdx[t]]
           /\ IF ~ route THEN FedOver(c, "done")
              ELSE IF fedCall[c].tool \notin offersNow[p] THEN Goes(c, "next")
              ELSE fedCall' = [fedCall EXCEPT ![c].op = "invoke", ![c].step = "visit",
                                              ![c].left = Peers, ![c].first = p]
     /\ UNCHANGED <<peerStatus, offersNow>>

-----------------------------------------------------------------------------
(* InvokeWithFailover goes round the peers once, from the one Route found.  *)

\* Mutant: the peer stays in the round.
VisitAgain(c) ==
  /\ fedCall[c].step = "visit"
  /\ IF fedCall[c].left = {} THEN FedOver(c, "error")
     ELSE \E p \in IF fedCall[c].first \in fedCall[c].left THEN {fedCall[c].first}
                                                            ELSE fedCall[c].left :
            fedCall' = [fedCall EXCEPT ![c].peer = p, ![c].first = NoPeer,
                          ![c].step = IF peerStatus[p] = "online" THEN "status" ELSE "visit"]
  /\ UNCHANGED <<peerStatus, toolIdx, offersNow>>

Visit(c) ==
  /\ fedCall[c].step = "visit"
  /\ IF fedCall[c].left = {} THEN FedOver(c, "error")
     ELSE \E p \in IF fedCall[c].first \in fedCall[c].left THEN {fedCall[c].first}
                                                            ELSE fedCall[c].left :
            fedCall' = [fedCall EXCEPT ![c].left = @ \ {p}, ![c].peer = p,
                          ![c].step = IF peerStatus[p] = "online" THEN "status" ELSE "visit"]
  /\ UNCHANGED <<peerStatus, toolIdx, offersNow>>

\* The tool is run and answered, or its answer is lost, or the peer does not run it.
Invoke(c) ==
  LET runs == fedCall[c].ran \cup {fedCall[c].peer}
  IN /\ fedCall[c].step = "run"
     /\ \/ Goes(c, "mark")
        \/ fedCall' = [fedCall EXCEPT ![c].step = "mark", ![c].ran = runs]
        \/ fedCall' = [fedCall EXCEPT ![c] = [step |-> "over", how |-> "done", op |-> @.op,
                                              left |-> @.left]]
     /\ UNCHANGED <<peerStatus, toolIdx, offersNow>>

\* markPeerOffline, whatever another caller has found out since.
MarkPeerOffline(c) ==
  /\ fedCall[c].step = "mark"
  /\ peerStatus' = [peerStatus EXCEPT ![fedCall[c].peer] = "offline"]
  /\ fedCall' = [fedCall EXCEPT ![c].step = "visit", ![c].failed = @ \cup {fedCall[c].peer}]
  /\ UNCHANGED <<toolIdx, offersNow>>

EndFedCall(c) == /\ fedCall[c].step = "over"
                 /\ fedCall' = [fedCall EXCEPT ![c] = NoFedCall]
                 /\ UNCHANGED <<peerStatus, toolIdx, offersNow>>

FDNext ==
  \/ \E p \in Peers : PeerChanges(p)
  \/ \E c \in FedCallers :
       \/ BeginFedCall(c) \/ LookInIndex(c) \/ RouteNext(c) \/ ReadStatus(c) \/ Connect(c)
       \/ DiscoverTools(c) \/ Visit(c) \/ Invoke(c) \/ MarkPeerOffline(c) \/ EndFedCall(c)

FDSpec == FDInit /\ [][FDNext]_fedVars

-----------------------------------------------------------------------------
\* A failover sends the tool to no peer twice, and fails only when it has been at each of
\* them; a peer in the index has been connected, whatever became of it.
FailoverIsSound ==
  /\ \A c \in FedCallers : /\ fedCall[c].step = "run"
                                => fedCall[c].peer \notin fedCall[c].ran \cup fedCall[c].failed
                           /\ fedCall[c].step = "over" /\ fedCall[c].op = "invoke"
                                => fedCall[c].how = "done" \/ fedCall[c].left = {}
  /\ \A t \in FedTools : toolIdx[t] # NoPeer => peerStatus[toolIdx[t]] # "unknown"
=============================================================================
