---------------------------- MODULE ToolDiscovery ----------------------------
(***************************************************************************)
(* How a client learns of the servers' tools and names them, in pkg/mcp:   *)
(* tools/list with its stubs "server_tool", list_tools, search_tools,      *)
(* get_tool_schema with its cache of schemas, tools/call with a stub's     *)
(* name and invoke_tool with a server and a tool.  The tools filter of the *)
(* configuration hides tools on every one of them.                         *)
(*                                                                         *)
(* A name is the sequence of its parts between underscores, so that a stub *)
(* is the concatenation of two names and can be read in several ways.      *)
(* When the lists are fetched and stored is in ToolStore.                  *)
(***************************************************************************)
EXTENDS Sequences, SequencesExt

CONSTANTS Backends,      \* the configured servers, in the order of their names
          ToolNames,
          Exposed,       \* toolFilters: the tools each server may show
          Unlisted       \* nothing is stored for a server

ASSUME DiscoveryAssumption ==
  /\ Backends \in Seq(Seq(STRING)) /\ ToolNames \subseteq Seq(STRING)
  /\ \A i \in DOMAIN Backends : Backends[i] # <<>>
  /\ DOMAIN Exposed = ToSet(Backends) /\ \A s \in DOMAIN Exposed : Exposed[s] \subseteq ToolNames

BackendSet == ToSet(Backends)
Stub(s, t) == s \o t
Stubs == {Stub(s, t) : s \in BackendSet, t \in ToolNames}

VARIABLES
  offered,   \* external: the tools each server has
  listed,     \* toolCache: the filtered list of each server, or Unlisted
  schemas,    \* lazySchemaCache: whose schema is cached under a name
  told        \* the last answer: what was asked, and the tools that it is about

discoveryVars == <<offered, listed, schemas, told>>

NoAnswer == [surface |-> "none", asked |-> <<>>, tools |-> {}]
Tool(s, t) == [server |-> s, tool |-> t]

TDInit == /\ offered = [s \in BackendSet |-> {}]
          /\ listed = [s \in BackendSet |-> Unlisted]
          /\ schemas = <<>> /\ told = NoAnswer

Tells(surface, asked, tools) == told' = [surface |-> surface, asked |-> asked, tools |-> tools]

\* External: a server gets or loses a tool.
UpstreamChanges(s, t) ==
  /\ offered' = [offered EXCEPT ![s] = IF t \in @ THEN @ \ {t} ELSE @ \cup {t}]
  /\ told' = NoAnswer
  /\ UNCHANGED <<listed, schemas>>

-----------------------------------------------------------------------------
ListIn(lists, s) == IF lists[s] = Unlisted THEN {} ELSE lists[s]
Listed(s) == ListIn(listed, s)

\* storeTools: a list has arrived in the background.
Filtered(s) == offered[s] \cap Exposed[s]
StoreTools(s) == /\ listed' = [listed EXCEPT ![s] = Filtered(s)]
                 /\ told' = NoAnswer
                 /\ UNCHANGED <<offered, schemas>>

\* A listing that finds nothing asks the servers first; some of them answer.
Lists(empty) ==
  IF empty
    THEN {[s \in BackendSet |-> IF s \in up THEN Filtered(s) ELSE listed[s]] :
            up \in SUBSET BackendSet}
    ELSE {listed}

\* The servers whose stub is this name; the last one in the order of names is cached last.
Claims(lists, name) ==
  {i \in DOMAIN Backends : \E t \in ListIn(lists, Backends[i]) : Stub(Backends[i], t) = name}
Cached(lists, name) ==
  LET i == CHOOSE i \in Claims(lists, name) : \A j \in Claims(lists, name) : j <= i
  IN Tool(Backends[i], SubSeq(name, Len(Backends[i]) + 1, Len(name)))

\* tools/list: a stub for every tool, and every schema is cached under the stub's name.
ToolsList ==
  /\ listed' \in Lists(\A s \in BackendSet : listed[s] = Unlisted)
  /\ Tells("list", <<>>, UNION {{Tool(s, t) : t \in ListIn(listed', s)} : s \in BackendSet})
  /\ LET names == {n \in Stubs : Claims(listed', n) # {}}
     IN schemas' = [n \in names \cup DOMAIN schemas |->
                      IF n \in names THEN Cached(listed', n) ELSE schemas[n]]
  /\ UNCHANGED offered

\* list_tools; search_tools and the suggestions of an error show parts of these lists.
ListTools(s) ==
  /\ listed' \in Lists(Listed(s) = {})
  /\ Tells("list", <<>>, {Tool(s, t) : t \in ListIn(listed', s)})
  /\ UNCHANGED <<offered, schemas>>

\* A schema has not been asked for in the time it lives.
SchemaExpires(name) ==
  /\ name \in DOMAIN schemas
  /\ schemas' = [n \in DOMAIN schemas \ {name} |-> schemas[n]]
  /\ told' = NoAnswer
  /\ UNCHANGED <<offered, listed>>

-----------------------------------------------------------------------------
\* parseToolName splits at the first underscore.
ParsedServer(name) == <<Head(name)>>
ParsedTool(name) == Tail(name)

\* gateDispatch: a server without a filter shows everything, even one that is not configured.
Gate(s, t) == s \in BackendSet => t \in Exposed[s]

\* Mutant: the lookup of the schema comes after the gate in the list only.
FetchUngated(name) ==
  /\ ParsedServer(name) \in BackendSet
  /\ ParsedTool(name) \in offered[ParsedServer(name)]

\* get_tool_schema: the gate is passed and the server, asked for its list, has the tool.
FetchSchema(name) ==
  /\ Gate(ParsedServer(name), ParsedTool(name))
  /\ ParsedServer(name) \in BackendSet
  /\ ParsedTool(name) \in offered[ParsedServer(name)]

\* A cached schema is the answer; one that had to be fetched is cached; or there is an error.
GetToolSchema(name) ==
  /\ \/ /\ name \in DOMAIN schemas
        /\ Tells("schema", name, {schemas[name]})
        /\ UNCHANGED schemas
     \/ /\ name \notin DOMAIN schemas /\ FetchSchema(name)
        /\ LET found == Tool(ParsedServer(name), ParsedTool(name))
           IN /\ Tells("schema", name, {found})
              /\ schemas' = [n \in DOMAIN schemas \cup {name} |->
                               IF n = name THEN found ELSE schemas[n]]
     \/ name \notin DOMAIN schemas /\ told' = NoAnswer /\ UNCHANGED schemas
  /\ UNCHANGED <<offered, listed>>

\* tools/call: the request goes to the server that the name begins with.
ToolsCall(name) ==
  /\ LET s == ParsedServer(name)
         t == ParsedTool(name)
     IN IF Gate(s, t) /\ s \in BackendSet
          THEN Tells("call", name, {Tool(s, t)})
          ELSE told' = NoAnswer
  /\ UNCHANGED <<offered, listed, schemas>>

\* Mutant: the prefix is trimmed even if the server has a tool of that very name.
TrimAlways(s, name) ==
  IF IsPrefix(s, name) /\ Len(name) > Len(s)
    THEN SubSeq(name, Len(s) + 1, Len(name)) ELSE name

\* invoke_tool takes "server_tool" for "tool", unless that is a tool it knows.
Trimmed(s, name) ==
  IF IsPrefix(s, name) /\ Len(name) > Len(s) /\ name \notin Listed(s)
    THEN SubSeq(name, Len(s) + 1, Len(name)) ELSE name

InvokeTool(s, name) ==
  /\ LET t == Trimmed(s, name)
     IN IF Gate(s, t) THEN Tells("invoke", name, {Tool(s, t)}) ELSE told' = NoAnswer
  /\ UNCHANGED <<offered, listed, schemas>>

-----------------------------------------------------------------------------
TDNext ==
  \/ \E s \in BackendSet : \/ StoreTools(s) \/ ListTools(s)
                           \/ \E t \in ToolNames : UpstreamChanges(s, t)
                           \/ \E n \in ToolNames \cup Stubs : InvokeTool(s, n)
  \/ ToolsList
  \/ \E n \in Stubs : SchemaExpires(n) \/ GetToolSchema(n) \/ ToolsCall(n)

TDSpec == TDInit /\ [][TDNext]_discoveryVars

-----------------------------------------------------------------------------
\* A tool that the filter hides is neither shown nor described nor called, on any surface and
\* under any of the names by which it could be asked for, whatever has been cached before;
\* and a tool that a client has seen is called by the name it was seen under.
NamesAreSound ==
  /\ \A r \in told.tools : r.tool \in Exposed[r.server]
  /\ \A n \in DOMAIN schemas : schemas[n].tool \in Exposed[schemas[n].server]
  /\ \A r \in told.tools : told.surface \in {"schema", "call"} =>
                             Stub(r.server, r.tool) = told.asked
  /\ \A r \in told.tools : told.surface = "invoke" /\ told.asked \in Listed(r.server) =>
                             r.tool = told.asked

\* Every stub can be called by its name.
StubsAreCallable ==
  \A s \in BackendSet : \A t \in Listed(s) :
    ParsedServer(Stub(s, t)) = s /\ ParsedTool(Stub(s, t)) = t
=============================================================================
