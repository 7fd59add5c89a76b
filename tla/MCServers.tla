------------------------------ MODULE MCServers ------------------------------
(***************************************************************************)
(* The servers the proxy knows, and how it finds them: the three pools,    *)
(* the registry, the routing of tools, the federation of peers, the        *)
(* processes of the registry's manager, the feed of the marketplace, the   *)
(* configuration file, the names of tools and the namespaces, checked side *)
(* by side.  `part' says which of them a behaviour is about, and the       *)
(* others stay as they began.                                              *)
(***************************************************************************)
EXTENDS ServerPools, ServerRegistry, ToolRouting, Federation, ServerProcesses, RegistryFeed,
        ConfigFile, ToolDiscovery, Namespaces

VARIABLE part

mcVars == <<part, poolsVars, registryVars, routingVars, fedVars, procVars, feedVars, configVars,
            discoveryVars, namespaceVars>>

MCInit == /\ part \in {"pools", "registry", "routing", "peers", "processes", "feed", "config",
                      "names", "spaces"}
          /\ SPInit /\ SRInit /\ TRInit /\ FDInit /\ PRInit /\ RFInit /\ CFInit
          /\ TDInit /\ NSInit
          /\ part # "config" => file = Absent

MCNext ==
  /\ UNCHANGED part
  /\ \/ /\ part = "pools" /\ SPNext
        /\ UNCHANGED <<registryVars, routingVars, fedVars, procVars, feedVars,
                       configVars, discoveryVars, namespaceVars>>
     \/ /\ part = "registry" /\ SRNext
        /\ UNCHANGED <<poolsVars, routingVars, fedVars, procVars, feedVars,
                       configVars, discoveryVars, namespaceVars>>
     \/ /\ part = "routing" /\ TRNext
        /\ UNCHANGED <<poolsVars, registryVars, fedVars, procVars, feedVars,
                       configVars, discoveryVars, namespaceVars>>
     \/ /\ part = "peers" /\ FDNext
        /\ UNCHANGED <<poolsVars, registryVars, routingVars, procVars, feedVars,
                       configVars, discoveryVars, namespaceVars>>
     \/ /\ part = "processes" /\ PRNext
        /\ UNCHANGED <<poolsVars, registryVars, routingVars, fedVars, feedVars,
                       configVars, discoveryVars, namespaceVars>>
     \/ /\ part = "feed" /\ RFNext
        /\ UNCHANGED <<poolsVars, registryVars, routingVars, fedVars, procVars,
                       configVars, discoveryVars, namespaceVars>>
     \/ /\ part = "config" /\ CFNext
        /\ UNCHANGED <<poolsVars, registryVars, routingVars, fedVars, procVars,
                       feedVars, discoveryVars, namespaceVars>>
     \/ /\ part = "names" /\ TDNext
        /\ UNCHANGED <<poolsVars, registryVars, routingVars, fedVars, procVars,
                       feedVars, configVars, namespaceVars>>
     \/ /\ part = "spaces" /\ NSNext
        /\ UNCHANGED <<poolsVars, registryVars, routingVars, fedVars, procVars,
                       feedVars, configVars, discoveryVars>>

MCSpec == MCInit /\ [][MCNext]_mcVars

\* A request goes where it should, and no more often than it should: through the three pools,
\* by the registry's choice, by the name of a tool, and from peer to peer; and a tool
\* has one name, which no filter lets through elsewhere.
RequestsGoRight == /\ CallsRunOnce /\ BestIsFound /\ RoutesAreSound /\ FailoverIsSound
                   /\ NamesAreSound

\* What is known of the servers agrees with itself and with what runs: the tables of the pools,
\* the indexes of the registry, the processes of its manager, the index of the marketplace and the
\* namespaces.
TablesStaySound == TablesAreSound /\ IndexesAreExact /\ ProcessesAreKnown /\ FeedIsSound
                   /\ NamespacesAreSound

\* Three configurations of one name, one of them of another transport; the entries that are
\* registered; the names of the tools; one version of the feed lists the server and one does
\* not.
MCName == [c \in {"a", "a2", "c"} |-> "n"]
MCKind == [c \in {"a", "a2", "c"} |-> IF c = "c" THEN "http" ELSE "stdio"]
MCEntries == {[caps |-> {"c"}, trans |-> "stdio", health |-> "unknown", load |-> 60],
              [caps |-> {"c", "d"}, trans |-> "http", health |-> "unknown", load |-> 20],
              [caps |-> {}, trans |-> "http", health |-> "healthy", load |-> 20]}
MCSpace == [m \in {"a.x", "a.y"} |-> "a"]
MCLast == [m \in {"a.x", "a.y"} |-> IF m = "a.y" THEN "y" ELSE "x"]
MCListing == [v \in 1 .. 2 |->
                IF v = 1 THEN [trust |-> 0, days |-> 40, issues |-> 0, downloads |-> 20000,
                               described |-> TRUE]
                         ELSE NoListing]
MCAlias == [n \in {"a", "b"} |-> "b"]

\* Namespaces three deep, with a server in two of them; a key with a dot that comes to the
\* name of a child, and one that does not.
Space(name, ends, set) == [name |-> name, ends |-> ends, servers |-> set]
MCFiles ==
  {{Space(<<"a">>, {1}, {"s"}), Space(<<"a", "b">>, {1, 2}, {"t"}),
    Space(<<"a", "b", "d">>, {1, 2, 3}, {"u"}), Space(<<"a", "d">>, {1, 2}, {"s"})},
   {Space(<<"a">>, {1}, {"s"}), Space(<<"a", "b">>, {1, 2}, {"t"}),
    Space(<<"a", "b">>, {2}, {"u"}), Space(<<"a", "b", "d">>, {2, 3}, {"t"})},
   {Space(<<"a">>, {1}, {"s", "t"}), Space(<<"a", "b">>, {2}, {"u"}),
    Space(<<"a", "b", "d">>, {2, 3}, {"s"})}}

\* A server whose name begins with the name of another, and tools whose stubs collide.
MCBackends == <<<<"a">>, <<"a", "b">>>>
MCToolNames == {<<"t">>, <<"b", "t">>, <<"a", "t">>}
MCExposed == [s \in {<<"a">>, <<"a", "b">>} |->
                IF s = <<"a">> THEN {<<"t">>, <<"a", "t">>} ELSE {<<"t">>}]
=============================================================================
