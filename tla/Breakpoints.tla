---------------------------- MODULE Breakpoints ----------------------------
(***************************************************************************)
(* How `serve' prepares requests for the prompt cache of a provider: the   *)
(* detector of pkg/cache/provider_detector.go, whose patterns SIGHUP       *)
(* reloads, the injector of pkg/cache/breakpoint_injector.go, and the      *)
(* counters of pkg/cache/stats.go.                                         *)
(*                                                                         *)
(* A host is the sequence of its labels, <<>> what has no host.  A body is *)
(* its two blocks, <<>> a block that is absent, empty or no array, and     *)
(* which of two blocks that are there is the larger; an item of a block is *)
(* an object with or without a cache_control, or no object.                *)
(***************************************************************************)
EXTENDS Integers, FiniteSets, Sequences, SequencesExt, Functions, FiniteSetsExt

CONSTANTS Asks,             \* the requests
          AskHosts,         \* the hosts of the servers
          BuiltIn,          \* the host of the built-in pattern
          ProviderFiles,    \* what the configuration may say: sequences of entries
          ValidNames,       \* the names providerNameRe matches
          Broken,           \* a file that cannot be read or parsed, or is too large
          Malformed,        \* a body that is no JSON object
          AskBodies, MaxItems

ASSUME BreakpointsAssumption ==
  /\ IsFiniteSet(Asks) /\ MaxItems \in Nat
  /\ BuiltIn \in Seq(Range(BuiltIn)) \ {<<>>} /\ "anthropic" \in ValidNames
  /\ \A f \in ProviderFiles : f \in Seq(Range(f))

VARIABLES known,      \* the detector's patterns
          provFile,   \* the file
          strategy,   \* the injector's
          ask,        \* [Asks -> what the request has come to]
          counters    \* the counters of the tracker

breakVars == <<known, provFile, strategy, ask, counters>>

BKTypeOK == /\ \A i \in DOMAIN known : known[i].name \in ValidNames
            /\ strategy \in {"off", "aggressive", "balanced"}
            /\ \A x \in Asks : ask[x].at \in {"new", "detected", "sent", "done"}
            /\ counters \in [{"total", "anthropic", "cacheable", "hits", "misses"} -> Nat]

-----------------------------------------------------------------------------
\* A pattern stands for its host and what is below it; the first one that matches counts.
CoversHost(e, host) == \E h \in e.hosts : IsSuffix(h, host)
Detect(list, host) == LET matching == {i \in DOMAIN list : CoversHost(list[i], host)}
                      IN  IF host = <<>> \/ matching = {} THEN "other" ELSE list[Min(matching)].name

Anthropic == [name |-> "anthropic", hosts |-> {BuiltIn}]

\* Mutant: a later entry of a name takes the place of an earlier one.
LoadReplacing(file) ==
  FoldLeft(LAMBDA list, e : IF e.name \notin ValidNames \ {"other"} \/ e.hosts \ {<<>>} = {} THEN list
                            ELSE Append(SelectSeq(list, LAMBDA p : p.name # e.name),
                                        [name |-> e.name, hosts |-> e.hosts \ {<<>>}]),
           <<Anthropic>>, file)

\* Behind the built-in pattern come the entries of the file in their order, except one whose
\* name is not valid, is reserved or has been seen, or that is left without a host.
AddEntry(list, e) ==
  IF \/ e.name \notin ValidNames \ {"other"}
     \/ \E i \in DOMAIN list : list[i].name = e.name
     \/ e.hosts \ {<<>>} = {}
  THEN list
  ELSE Append(list, [name |-> e.name, hosts |-> e.hosts \ {<<>>}])
LoadReader(file) == FoldLeft(AddEntry, <<Anthropic>>, file)

Load(list) == IF provFile = Broken THEN list ELSE LoadReader(provFile)

-----------------------------------------------------------------------------
HasMark(block) == \E i \in DOMAIN block : block[i] = "marked"

\* The last item is marked, if it is an object and the client has marked none.
Mark(block) == IF block # <<>> /\ ~HasMark(block) /\ Last(block) = "plain"
               THEN Front(block) \o <<"marked">> ELSE block
InjectSystem(body) == [body EXCEPT !.system = Mark(@)]
InjectTools(body) == [body EXCEPT !.tools = Mark(@)]

\* One mark, in the larger of two blocks, or in the one block that the client has left to us.
InjectBalanced(body) ==
  LET taken(block) == block = <<>> \/ HasMark(block)
  IN  CASE taken(body.system) -> InjectTools(body)
        [] ~taken(body.system) /\ taken(body.tools) -> InjectSystem(body)
        [] OTHER -> IF body.systemLarger THEN InjectSystem(body) ELSE InjectTools(body)

Inject(how, body) == CASE how = "aggressive" -> InjectTools(InjectSystem(body))
                       [] how = "balanced" -> InjectBalanced(body)
                       [] OTHER -> body

-----------------------------------------------------------------------------
BKInit == /\ provFile \in ProviderFiles \cup {Broken} /\ known = Load(<<Anthropic>>)
          /\ strategy \in {"off", "aggressive", "balanced"}
          /\ ask = [x \in Asks |-> [at |-> "new"]]
          /\ counters = [c \in {"total", "anthropic", "cacheable", "hits", "misses"} |-> 0]

\* The operator writes the file, and sends SIGHUP; a reload that fails keeps what there is.
WriteFile(f) == provFile' = f /\ f # provFile /\ UNCHANGED <<known, strategy, ask, counters>>
Reload == known' = Load(known) /\ UNCHANGED <<provFile, strategy, ask, counters>>

DetectProvider(x) ==
  /\ ask[x].at = "new"
  /\ \E host \in AskHosts, body \in AskBodies :
       ask' = [ask EXCEPT ![x] = [at |-> "detected", host |-> host, given |-> body, body |-> body,
                                  provider |-> Detect(known, host)]]
  /\ UNCHANGED <<known, provFile, strategy, counters>>

\* Counts the requests to the provider, and those the injector has been through.
RecordRequest(through) == counters' = [counters EXCEPT !.total = @ + 1, !.anthropic = @ + 1,
                                                       !.cacheable = @ + IF through THEN 1 ELSE 0]

InjectBreakpoints(x) ==
  LET a == ask[x]
      mine == a.provider = "anthropic"
      through == mine /\ strategy # "off" /\ a.given # Malformed
  IN  /\ a.at = "detected"
      /\ ask' = [ask EXCEPT ![x].at = "sent",
                            ![x].body = IF through THEN Inject(strategy, a.given) ELSE a.given]
      /\ IF mine THEN RecordRequest(through) ELSE UNCHANGED counters
      /\ UNCHANGED <<known, provFile, strategy>>

\* ProcessResponseFor: a result may tell that the provider has read its cache, or filled it.
ProcessResponse(x) ==
  /\ ask[x].at = "sent"
  /\ \E usage \in {"none", "hits", "misses"} :
       /\ ask' = [ask EXCEPT ![x].at = "done"]
       /\ counters' = IF ask[x].provider = "anthropic" /\ usage # "none"
                      THEN [counters EXCEPT ![usage] = @ + 1] ELSE counters
  /\ UNCHANGED <<known, provFile, strategy>>

BKNext == \/ \E f \in ProviderFiles \cup {Broken} : WriteFile(f)
          \/ Reload
          \/ \E x \in Asks : DetectProvider(x) \/ InjectBreakpoints(x) \/ ProcessResponse(x)

BKSpec == BKInit /\ [][BKNext]_breakVars

-----------------------------------------------------------------------------
\* Whatever files are loaded, and however often that fails, the hosts of the built-in
\* provider are its hosts and no others are; no name is there twice, and none is reserved.
DetectionIsStable ==
  /\ \A host \in AskHosts : Detect(known, host) = "anthropic" <=> IsSuffix(BuiltIn, host)
  /\ \A i, j \in DOMAIN known : known[i].name = known[j].name => i = j
  /\ \A i \in DOMAIN known : known[i].name # "other"

\* A request goes out as it came if it is for another provider, and the counters agree with
\* the requests, though the patterns may change while a request is under way.
OnlyOursAreTouched ==
  /\ \A x \in Asks : ask[x].at \in {"sent", "done"} /\ ask[x].body # ask[x].given
                       => IsSuffix(BuiltIn, ask[x].host) /\ strategy # "off"
  /\ counters.anthropic = Cardinality({x \in Asks : /\ ask[x].at \in {"sent", "done"}
                                                    /\ IsSuffix(BuiltIn, ask[x].host)})
  /\ counters.hits + counters.misses <= counters.anthropic /\ counters.cacheable <= counters.anthropic

Blocks == BoundedSeq({"plain", "marked", "scalar"}, MaxItems)
Bodies == [system : Blocks, tools : Blocks, systemLarger : BOOLEAN]
Changed(before, after) == {i \in DOMAIN before : before[i] # after[i]}

\* What the injector may do to a body: mark the last item of a block in which the client has
\* marked none, and nothing else; in balance, one block at most, and the smaller of two only
\* if the client has marked the larger one.
InjectionIsSparing ==
  \A body \in Bodies, how \in {"aggressive", "balanced"} :
    LET out == Inject(how, body)
        Sparing(before, after) ==
          /\ Len(after) = Len(before)
          /\ \A i \in Changed(before, after) :
               i = Len(before) /\ before[i] = "plain" /\ after[i] = "marked" /\ ~HasMark(before)
    IN  /\ Sparing(body.system, out.system) /\ Sparing(body.tools, out.tools)
        /\ how = "balanced" =>
             /\ Changed(body.system, out.system) = {} \/ Changed(body.tools, out.tools) = {}
             /\ Changed(body.tools, out.tools) # {} /\ body.systemLarger =>
                  body.system = <<>> \/ HasMark(body.system)
        /\ how = "aggressive" => Inject(how, out) = out

BreakpointsAreSound == DetectionIsStable /\ OnlyOursAreTouched /\ InjectionIsSparing

\* Injecting twice, as two proxies in a row do, is injecting once.
BalancedOnce == \A body \in Bodies :
  Inject("balanced", Inject("balanced", body)) = Inject("balanced", body)
=============================================================================
