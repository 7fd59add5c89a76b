------------------------------ MODULE Namespaces ------------------------------
(***************************************************************************)
(* The namespaces of pkg/registry, as `namespace list' loads and shows     *)
(* them, and the registry of tool schemas beside them, which nothing but   *)
(* its tests fills.                                                        *)
(*                                                                         *)
(* A name is a sequence of labels, which the code joins by dots.  A key of *)
(* the file may hold dots itself, so that two namespaces may come to one   *)
(* name: a node of the file is its name, the places in the name where a    *)
(* key ends, and its servers.  The maps of a loaded file are walked in any *)
(* order, a namespace before its children, and these before its neighbour. *)
(***************************************************************************)
EXTENDS Integers, Sequences, FiniteSets, FiniteSetsExt, SequencesExt

CONSTANTS Files,          \* each a set of nodes, with name, ends and servers
          Schemas,        \* the tools of the schema registry
          Owners          \* its servers

ASSUME NamespacesAssumption ==
  \A cfg \in Files :
    /\ IsFiniteSet(cfg)
    /\ \A x \in cfg : /\ x.name \in Seq(UNION {ToSet(y.name) : y \in cfg})
                      /\ x.ends \subseteq 1 .. Len(x.name)

VARIABLES spaces,         \* namespaces: [name -> node]
          serverSpace,    \* serverNS: [server -> name]
          spaceFile,      \* the file that was loaded last
          signatures,     \* the tools that are registered
          schemaCache,    \* those with a schema
          byServer        \* [Owners -> the tools listed for the server]

namespaceVars == <<spaces, serverSpace, spaceFile, signatures, schemaCache, byServer>>

NoSpaces == [x \in {} |-> <<>>]

NSInit == /\ spaces = NoSpaces /\ serverSpace = NoSpaces /\ spaceFile = {}
          /\ signatures = {} /\ schemaCache = {} /\ byServer = [o \in Owners |-> {}]

-----------------------------------------------------------------------------
\* The namespace x is the parent of y, or the parent of its parent, and so on.
Above(x, y) == IsStrictPrefix(x.name, y.name) /\ x.ends = {k \in y.ends : k <= Len(x.name)}

\* The orders in which Load and buildToolMapping come to the nodes.
Walks(cfg) ==
  {walk \in SetToSeqs(cfg) :
     \A i, j \in DOMAIN walk : i < j =>
       /\ ~ Above(walk[j], walk[i])
       /\ Above(walk[i], walk[j]) => \A k \in i + 1 .. j : Above(walk[i], walk[k])}

\* What is walked later replaces what was before.
LastWalked(walk, places) == walk[Max(places)]
Named(walk, name) == {i \in DOMAIN walk : walk[i].name = name}
Claiming(walk, s) == {i \in DOMAIN walk : s \in walk[i].servers}

NamesIn(cfg) == {x.name : x \in cfg}
ServersIn(cfg) == UNION {x.servers : x \in cfg}

\* Mutant: a load adds to what was loaded before.
LoadMore(cfg) ==
  \E walk \in Walks(cfg) :
    /\ spaces' = [name \in NamesIn(cfg) \cup DOMAIN spaces |->
                    IF name \in NamesIn(cfg) THEN LastWalked(walk, Named(walk, name)) ELSE spaces[name]]
    /\ serverSpace' = [s \in ServersIn(cfg) \cup DOMAIN serverSpace |->
                         IF s \in ServersIn(cfg) THEN LastWalked(walk, Claiming(walk, s)).name
                                                 ELSE serverSpace[s]]
    /\ spaceFile' = cfg
    /\ UNCHANGED <<signatures, schemaCache, byServer>>

\* A load starts afresh: a namespace replaces one of its name, and claims its servers.
LoadSpaces(cfg) ==
  \E walk \in Walks(cfg) :
    /\ spaces' = [name \in NamesIn(cfg) |-> LastWalked(walk, Named(walk, name))]
    /\ serverSpace' = [s \in ServersIn(cfg) |-> LastWalked(walk, Claiming(walk, s)).name]
    /\ spaceFile' = cfg
    /\ UNCHANGED <<signatures, schemaCache, byServer>>

\* The servers of a namespace and of all below it.
CollectServers(n) == ServersIn({x \in spaceFile : x = n \/ Above(n, x)})

\* Every namespace below a name, at any depth.
GetChildNamespaces(parent) ==
  {name \in DOMAIN spaces : IsStrictPrefix(parent, name)}

-----------------------------------------------------------------------------
\* A tool is registered, by any server and with or without a schema; one without leaves the
\* schema of an earlier registration.
RegisterSchema(t, owner, withSchema) ==
  /\ signatures' = signatures \cup {t}
  /\ schemaCache' = IF withSchema THEN schemaCache \cup {t} ELSE schemaCache
  /\ byServer' = [byServer EXCEPT ![owner] = @ \cup {t}]
  /\ UNCHANGED <<spaces, serverSpace, spaceFile>>

\* A tool is unregistered whoever owns it, and leaves the list of the named server only.
UnregisterSchema(t, owner) ==
  /\ t \in signatures
  /\ signatures' = signatures \ {t} /\ schemaCache' = schemaCache \ {t}
  /\ byServer' = [byServer EXCEPT ![owner] = @ \ {t}]
  /\ UNCHANGED <<spaces, serverSpace, spaceFile>>

NSNext == \/ \E cfg \in Files : LoadSpaces(cfg)
          \/ \E t \in Schemas, o \in Owners : \/ \E withSchema \in BOOLEAN : RegisterSchema(t, o, withSchema)
                                             \/ UnregisterSchema(t, o)

NSSpec == NSInit /\ [][NSNext]_namespaceVars

-----------------------------------------------------------------------------
\* The names of the file that one node only has, and the files whose keys hold no dot.
Unambiguous == \A x, y \in spaceFile : x.name = y.name => x = y
Undotted == \A x \in spaceFile : x.ends = 1 .. Len(x.name)

\* Where the names of a file are unambiguous, in whatever order it is walked, the namespaces
\* are those of this file, and a server lies in one that lists it; where no key holds a dot, a
\* namespace collects the servers of all that its name leads to.
ServersAreInTheirSpace ==
  Unambiguous =>
    /\ DOMAIN spaces = NamesIn(spaceFile)
    /\ \A s \in DOMAIN serverSpace :
         /\ s \in spaces[serverSpace[s]].servers
         /\ \A name \in DOMAIN spaces :
              Undotted /\ serverSpace[s] \in GetChildNamespaces(name)
                => s \in CollectServers(spaces[name])
    /\ \A name \in DOMAIN spaces : spaces[name].servers \subseteq DOMAIN serverSpace

\* Every schema is that of a registered tool, whoever unregistered what.
SchemasAreOfTools == schemaCache \subseteq signatures

NamespacesAreSound == ServersAreInTheirSpace /\ SchemasAreOfTools
=============================================================================
