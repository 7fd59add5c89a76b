------------------------------ MODULE MCGateway ------------------------------
(***************************************************************************)
(* The doors of the proxy and what watches over them: the connections of   *)
(* `serve' and its shutdown, the pipeline every request goes through, the  *)
(* loop of `server run --stdio', the socket server with its sessions, the  *)
(* redaction of streams and of documents, the injection classifier, the    *)
(* monitor and the transports of pkg/proxy, and what becomes of the        *)
(* results that are handed to a client, checked side by side.              *)
(* `part' says which of them a behaviour is about, and the others stay as  *)
(* they began.                                                             *)
(***************************************************************************)
EXTENDS Serve, RequestPipeline, StdioLoop, SocketServer, Redactor, Injection,
        PlainTransports, Breakpoints, ToolAnswers

VARIABLE part

doorVars == <<serveVars, pipeVars, loopVars, socketVars>>
watchVars == <<streamVars, filterVars, injectionVars, monitorVars, transportVars, breakVars,
              answerVars>>
mcVars == <<part, doorVars, watchVars>>

MCInit == /\ part \in {"serve", "pipeline", "loop", "socket", "stream", "document", "injection",
                      "monitor", "transport", "breakpoints", "answers", "search"}
          /\ SVInit /\ RPInit /\ SOInit /\ SSInit
          /\ RSInit /\ PFInit /\ INInit /\ HMInit /\ TPInit /\ BKInit /\ TAInit
          /\ part # "pipeline" => ~ sidecar
          /\ part # "breakpoints" => strategy = "off" /\ provFile = Broken

MCNext ==
  /\ UNCHANGED part
  /\ \/ part = "serve" /\ SVNext /\ UNCHANGED <<pipeVars, loopVars, socketVars, watchVars>>
     \/ part = "pipeline" /\ RPNext /\ UNCHANGED <<serveVars, loopVars, socketVars, watchVars>>
     \/ part = "loop" /\ SONext /\ UNCHANGED <<serveVars, pipeVars, socketVars, watchVars>>
     \/ part = "socket" /\ SSNext /\ UNCHANGED <<serveVars, pipeVars, loopVars, watchVars>>
     \/ /\ part = "stream" /\ RSNext
        /\ UNCHANGED <<doorVars, filterVars, injectionVars, monitorVars, transportVars,
                       breakVars, answerVars>>
     \/ /\ part = "document" /\ PFNext
        /\ UNCHANGED <<doorVars, streamVars, injectionVars, monitorVars, transportVars,
                       breakVars, answerVars>>
     \/ /\ part = "injection" /\ INNext
        /\ UNCHANGED <<doorVars, streamVars, filterVars, monitorVars, transportVars,
                       breakVars, answerVars>>
     \/ /\ part = "monitor" /\ HMNext
        /\ UNCHANGED <<doorVars, streamVars, filterVars, injectionVars, transportVars,
                       breakVars, answerVars>>
     \/ /\ part = "transport" /\ TPNext
        /\ UNCHANGED <<doorVars, streamVars, filterVars, injectionVars, monitorVars,
                       breakVars, answerVars>>
     \/ /\ part = "breakpoints" /\ BKNext
        /\ UNCHANGED <<doorVars, streamVars, filterVars, injectionVars, monitorVars, transportVars,
                       answerVars>>
     \/ /\ part \in {"answers", "search"} /\ TANext
        /\ IF part = "answers" THEN UNCHANGED search ELSE UNCHANGED answer
        /\ UNCHANGED <<doorVars, streamVars, filterVars, injectionVars, monitorVars, transportVars,
                       breakVars>>

\* None of the fair steps can be taken as a component begins.
MCSpec == /\ MCInit /\ [][MCNext]_mcVars
          /\ SVFairness /\ RPFairness /\ SSFairness /\ HMFairness /\ TPFairness

\* What comes in is counted, bounded, redacted and answered: the slots of the connections, the
\* requests and their batches, the lines of stdin, and those of the socket; no secret gets
\* through the redactor, and nothing through the classifier that its rules hold back; cache
\* breakpoints are put into the requests of one provider, and sparingly; and of the results of
\* tools a client is told what the cap allows.
TrafficIsSound ==
  /\ NothingUnredactedLeaves /\ BatchesAreBounded /\ SlotsAreExact /\ LoopIsSound /\ SocketIsSound
  /\ StreamIsSound /\ FilterIsSound /\ InjectionIsSound
  /\ RunningIsAlive /\ OneListens /\ BreakpointsAreSound /\ AnswersAreSound

\* No connection of `serve' is closed on a client that waits for an answer, and the socket
\* server starts no request once its Shutdown has returned.
NothingIsCutShort == AnsweredBeforeClose /\ ShutdownIsFinal

\* What each part must bring to its end, and that end.
MustEnd == CASE part = "serve" -> stopping = "listener"
             [] part = "pipeline" -> batch = "running"
             [] part = "socket" -> shutdown = "cancel"
             [] part = "monitor" -> stopChan = "closed"
             [] part = "transport" -> ForwardMustEnd
             [] OTHER -> FALSE
HasEnded == CASE part = "serve" -> stopping = "exited"
              [] part = "pipeline" -> batch = "none"
              [] part = "socket" -> shutdown = "done"
              [] part = "monitor" -> stopChan = "returned"
              [] part = "transport" -> ForwardHasEnded
              [] OTHER -> TRUE

\* Batches are answered, a shutdown of either server, of the monitor and of a forwarding loop
\* ends, the slots of clients that have gone come back, and watchers end with their context.
\* The promises of different parts are one formula, since `part' never changes.
WorkEnds == (MustEnd ~> HasEnded) /\ SlotsComeBack /\ WatchesEnd

MCTransport == [s \in {"a", "b", "c"} |-> IF s = "a" THEN "stdio"
                                          ELSE IF s = "b" THEN "http" ELSE "sse"]

\* Patterns of two or three literals, of classes, of what may repeat or be absent, and in two
\* cases; the runes are two letters, one of them in two cases and escaped, and an invisible one.
Lit(w) == [op |-> "literal", word |-> w, fold |-> FALSE, subs |-> <<>>]
AnyCase(w) == [op |-> "literal", word |-> w, fold |-> TRUE, subs |-> <<>>]
OneOf(set) == [op |-> "class", class |-> set, subs |-> <<>>]
AnyRune == [op |-> "any", subs |-> <<>>]
Cat(ts) == [op |-> "concat", subs |-> ts]
Alt(ts) == [op |-> "alternate", subs |-> ts]
Opt(t) == [op |-> "quest", subs |-> <<t>>]
AtLeast(n, t) == [op |-> "repeat", min |-> n, subs |-> <<t>>]

MCTrees ==
  {Cat(<<OneOf({"a", "b"}), Lit(<<"b">>)>>),
   Cat(<<Lit(<<"a">>), Alt(<<Lit(<<"b">>), Lit(<<"A">>)>>), Opt(Lit(<<"b">>))>>),
   Cat(<<Lit(<<"b">>), AtLeast(1, Lit(<<"a", "b">>))>>),
   Cat(<<Lit(<<"b">>), AtLeast(0, Lit(<<"a", "b">>)), Lit(<<"b">>)>>),
   Alt(<<Cat(<<Lit(<<"a", "b">>), AnyRune>>), Cat(<<AtLeast(0, AnyRune), AnyCase(<<"a", "a">>)>>)>>),
   Cat(<<OneOf({"a", "A", "b"}), OneOf({"a", "b"}), OneOf({"a", "b"})>>)}
MCKeyTree == AnyCase(<<"b", "b">>)
MCNodes == LET below(T) == T \cup UNION {ToSet(t.subs) : t \in T}
           IN below(below(below(MCTrees \cup {MCKeyTree})))
MCHeight[t \in MCNodes] == Max({0} \cup {MCHeight[u] + 1 : u \in ToSet(t.subs)})
MCRunes == {"a", "A", "b", "\\a", "~"}
MCKeyWords == {<<"a">>, <<"b", "b">>, <<"b", "~", "b">>}
MCWords == BoundedSeq(MCRunes, 3)
MCFoldsTo == [r \in {"a", "A"} |-> "A"]
MCEscapeOf == [r \in {"\\a"} |-> "a"]

\* Two patterns of one name, the second with a weight below zero; the rules of an empty
\* configuration, those of an action, and policies that overlap and leave a gap.
MCPatternName == [p \in 1 .. 2 |-> "n"]
MCWeight == [p \in 1 .. 2 |-> IF p = 1 THEN 60 ELSE -1]
MCHits == [p \in 1 .. 2 |-> {"d"}]
MCDefaults == <<1>>
MCNoPolicies == <<>>
MCConfigs ==
  {[policies |-> <<>>, action |-> ""], [policies |-> <<>>, action |-> "redact"],
   [policies |-> <<[minRisk |-> 55, maxRisk |-> 0, action |-> "quarantine"],
                   [minRisk |-> 51, maxRisk |-> 60, action |-> "block"]>>, action |-> "block"]}

\* A host of the built-in provider, one below it and another; files that are empty, that claim
\* those hosts under a name that comes twice and one that is reserved, and that claim the name
\* of the built-in provider; a body whose blocks are taken and free.
MCBuiltIn == <<"api">>
MCAskHosts == {<<"x", "api">>, MCBuiltIn, <<"b">>, <<>>}
Entry(n, hosts) == [name |-> n, hosts |-> hosts]
MCProviderFiles ==
  {<<>>,
   <<Entry("mine", {<<"x", "api">>, <<"b">>}), Entry("mine", {<<"api">>}), Entry("other", {<<"b">>})>>,
   <<Entry("anthropic", {<<"b">>}), Entry("bad name", {<<"b">>}), Entry("mine", {<<>>})>>}
MCAskBodies == {Malformed,
                [system |-> <<"marked", "plain">>, tools |-> <<"plain">>, systemLarger |-> TRUE]}

\* A text of a narrow and a wide rune, a JSON text with whitespace, and an image.
MCResultBlocks == {[kind |-> "text", runes |-> <<1, 2>>, value |-> 0, white |-> 0],
             [kind |-> "json", runes |-> <<1, 1, 1>>, value |-> 1, white |-> 2],
             [kind |-> "other", runes |-> <<>>, value |-> 0, white |-> 0]}
MCStructured == {[value |-> 0, length |-> 0], [value |-> 1, length |-> 1],
                 [value |-> 2, length |-> 5]}
=============================================================================
