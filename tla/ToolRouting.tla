----------------------------- MODULE ToolRouting -----------------------------
(***************************************************************************)
(* From a method to a server: the registry of tools that the router uses   *)
(* (pkg/router), Route, RouteBatch with its goroutine for each method,     *)
(* InvokeTool of the gateway (pkg/gateway), and the registry of tools of   *)
(* pkg/registry, whose indexes are lists.                                  *)
(*                                                                         *)
(* A method is the full name of a tool; SpaceOf and LastOf are what comes  *)
(* before its first dot and after its last.  The servers are those of the  *)
(* registry that serve fills when it starts.                               *)
(***************************************************************************)
EXTENDS Naturals

CONSTANTS Hosts, Methods, SpaceOf, LastOf,
          BatchSize,
          MaxOffers,    \* bound: how often one server is in the index of one tool
          NoHost

ASSUME RoutingAssumption ==
  /\ NoHost \notin Hosts /\ BatchSize \in Nat
  /\ \A m \in Methods : LastOf[m] \in Methods => LastOf[LastOf[m]] = LastOf[m]

Spaces == {SpaceOf[m] : m \in Methods}

VARIABLES
  live,        \* the servers of the registry
  fit,         \* those that are healthy or of unknown health
  serverOf,    \* tools: the server of each method, or NoHost
  inSpace,     \* byNamespace
  routed,      \* RouteBatch: for each slot its method, how far it is and the server found for it
  offers       \* byToolName of pkg/registry: how often each server is in the list of a method

routingVars == <<live, fit, serverOf, inSpace, routed, offers>>

TRInit == /\ live = {} /\ fit = {}
          /\ serverOf = [m \in Methods |-> NoHost]
          /\ inSpace = [n \in Spaces |-> {}]
          /\ routed = <<>> /\ offers = [m \in Methods |-> [h \in Hosts |-> 0]]

Enlist(h) == /\ h \notin live /\ live' = live \cup {h} /\ fit' = fit \cup {h}
             /\ UNCHANGED <<serverOf, inSpace, routed, offers>>
Dismiss(h) == /\ h \in live /\ live' = live \ {h} /\ fit' = fit \ {h}
              /\ UNCHANGED <<serverOf, inSpace, routed, offers>>
Ails(h) == /\ h \in live /\ fit' \in {fit \cup {h}, fit \ {h}}
           /\ UNCHANGED <<live, serverOf, inSpace, routed, offers>>

\* A method has one server, the last that registered it.
RegisterMethod(m, h) ==
  /\ serverOf' = [serverOf EXCEPT ![m] = h]
  /\ inSpace' = [inSpace EXCEPT ![SpaceOf[m]] = @ \cup {m}]
  /\ UNCHANGED <<live, fit, routed, offers>>

\* Mutant: the name stays in the index of its namespace, and is read without a look at tools.
ForgetMethodOnly(m) ==
  /\ serverOf[m] # NoHost
  /\ serverOf' = [serverOf EXCEPT ![m] = NoHost]
  /\ UNCHANGED <<live, fit, inSpace, routed, offers>>

UnregisterMethod(m) ==
  /\ serverOf[m] # NoHost
  /\ serverOf' = [serverOf EXCEPT ![m] = NoHost]
  /\ inSpace' = [inSpace EXCEPT ![SpaceOf[m]] = @ \ {m}]
  /\ UNCHANGED <<live, fit, routed, offers>>

FindByNamespace(n) == {serverOf[m] : m \in {x \in inSpace[n] : serverOf[x] # NoHost}}

(* RouteBatch routes its methods side by side, while the registries change.  Each asks the   *)
(* registry of tools and then the registry of servers, and does so again if it must; the     *)
(* first server of a namespace is any of them, as the order is that of a map.                *)

StartBatch == /\ routed = <<>>
              /\ \E ms \in [1 .. BatchSize -> Methods] :
                   routed' = [i \in 1 .. BatchSize |->
                                [method |-> ms[i], at |-> "namespace", host |-> NoHost]]
              /\ UNCHANGED <<live, fit, serverOf, inSpace, offers>>

\* A method of a namespace without servers is looked for under its own name.
RouteByNamespace(i) ==
  /\ i \in DOMAIN routed /\ routed[i].at = "namespace"
  /\ LET hosts == FindByNamespace(SpaceOf[routed[i].method])
     IN IF hosts = {}
          THEN routed' = [routed EXCEPT ![i].at = "name"]
          ELSE \E h \in hosts : routed' = [routed EXCEPT ![i].at = "server", ![i].host = h]
  /\ UNCHANGED <<live, fit, serverOf, inSpace, offers>>

\* Mutant: the server is not looked up.
GetServerUnchecked(i) ==
  /\ i \in DOMAIN routed /\ routed[i].at = "server"
  /\ routed' = [routed EXCEPT ![i].at = "done"]
  /\ UNCHANGED <<live, fit, serverOf, inSpace, offers>>

GetServer(i) ==
  /\ i \in DOMAIN routed /\ routed[i].at = "server"
  /\ routed' = [routed EXCEPT ![i].at = IF routed[i].host \in live THEN "done" ELSE "name"]
  /\ UNCHANGED <<live, fit, serverOf, inSpace, offers>>

RouteByName(i) ==
  /\ i \in DOMAIN routed /\ routed[i].at = "name"
  /\ routed' = [routed EXCEPT ![i].at = "owner", ![i].host = serverOf[routed[i].method]]
  /\ UNCHANGED <<live, fit, serverOf, inSpace, offers>>

GetOwner(i) ==
  /\ i \in DOMAIN routed /\ routed[i].at = "owner"
  /\ routed' = [routed EXCEPT ![i].at = "done",
                              ![i].host = IF @ \in live THEN @ ELSE NoHost]
  /\ UNCHANGED <<live, fit, serverOf, inSpace, offers>>

EndBatch == /\ routed # <<>> /\ \A i \in DOMAIN routed : routed[i].at = "done"
            /\ routed' = <<>>
            /\ UNCHANGED <<live, fit, serverOf, inSpace, offers>>

\* InvokeTool: a tool of the server that bears the name, or whose last part is the name; any
\* of them, if there are several.
Invoked(h, name) ==
  IF h \in fit THEN {m \in Methods : serverOf[m] = h /\ name \in {m, LastOf[m]}} ELSE {}

-----------------------------------------------------------------------------
(* pkg/registry: a tool may have several servers there.                     *)

\* A server that registers a tool again is in the list twice.
RegisterTool(h, m) == /\ offers[m][h] < MaxOffers
                      /\ offers' = [offers EXCEPT ![m][h] = @ + 1]
                      /\ UNCHANGED <<live, fit, serverOf, inSpace, routed>>

\* Mutant: one entry of the list is removed.
UnregisterOneTool(h, m) == /\ offers[m][h] > 0
                           /\ offers' = [offers EXCEPT ![m][h] = @ - 1]
                           /\ UNCHANGED <<live, fit, serverOf, inSpace, routed>>

UnregisterTool(h, m) == /\ offers[m][h] > 0
                        /\ offers' = [offers EXCEPT ![m][h] = 0]
                        /\ UNCHANGED <<live, fit, serverOf, inSpace, routed>>

\* GetToolServer: an answer only where there is one entry.
GetToolServer(m) == {h \in Hosts : /\ offers[m][h] = 1
                                   /\ \A k \in Hosts \ {h} : offers[m][k] = 0}

TRNext ==
  \/ \E h \in Hosts : \/ Enlist(h) \/ Dismiss(h) \/ Ails(h)
                      \/ \E m \in Methods : \/ RegisterMethod(m, h)
                                            \/ RegisterTool(h, m) \/ UnregisterTool(h, m)
  \/ \E m \in Methods : UnregisterMethod(m)
  \/ StartBatch \/ EndBatch \/ \E i \in 1 .. BatchSize : \/ RouteByNamespace(i) \/ GetServer(i)
                                                           \/ RouteByName(i) \/ GetOwner(i)

TRSpec == TRInit /\ [][TRNext]_routingVars

-----------------------------------------------------------------------------
\* The two indexes name the same tools, and the gateway invokes on a server what that server
\* offers; the server of a tool in a list is one that registered it and has not left.
RoutesAreSound ==
  /\ \A m \in Methods : m \in inSpace[SpaceOf[m]] <=> serverOf[m] # NoHost
  /\ \A h \in Hosts, m \in Methods :
       \A x \in Invoked(h, LastOf[m]) : serverOf[x] = h /\ LastOf[x] = LastOf[m]

\* A method is routed to a server that is there at that moment, and refused only at a moment
\* when the server that was found for it is not.  A withdrawn tool is not found at the server
\* that withdrew it, however often it was registered.
RoutesAreFresh ==
  [][/\ \A i \in DOMAIN routed \cap DOMAIN routed' :
          routed[i].at # "done" /\ routed'[i].at = "done"
            => IF routed'[i].host = NoHost THEN routed[i].host \notin live
                                           ELSE routed'[i].host \in live
     /\ \A h \in Hosts, m \in Methods :
          offers'[m][h] < offers[m][h] => h \notin GetToolServer(m)']_routingVars

\* A method goes to the server that has the tool, if that server is there.
RoutesToOwner ==
  [][\A i \in DOMAIN routed \cap DOMAIN routed' :
       LET owner == serverOf[routed[i].method]
       IN routed[i].at # "done" /\ routed'[i].at = "done" /\ owner \in live
            => routed'[i].host = owner]_routingVars
=============================================================================
