--------------------------- MODULE PlainTransports ---------------------------
(***************************************************************************)
(* What pkg/proxy has besides the socket server: the plain transports,     *)
(* outside the command, and the monitor of processes.                      *)
(*                                                                         *)
(* A Proxy dials its upstream and forwards both ways, with ForwardLoop as  *)
(* bytes and with ForwardLoopWithJSONRPC by lines: two goroutines copy,    *)
(* and each of them may find its connection closed by the other.  An       *)
(* HTTPTransport listens once, until it is closed or its context is done.  *)
(* One loop runs at a time on a Proxy, which keeps one connection.  A      *)
(* connection is open, at its end ("eof": the peer has closed it) or       *)
(* closed from this side.                                                  *)
(*                                                                         *)
(* The HealthMonitor checks every registered server at each tick, asking a *)
(* ProcessHealthChecker, and offers the list to a channel with room for    *)
(* one; watchers check on a tick of their own and send what they found,    *)
(* when their reader takes it.  Nothing outside the tests starts the       *)
(* monitor.  What a list says of a server depends on its condition alone:  *)
(* whether it says that it runs, its process ("alive", "zombie", "gone"),  *)
(* and whether its last response is recent.  So the lists are not kept.    *)
(***************************************************************************)
EXTENDS Integers, FiniteSets

CONSTANT Listeners      \* the callers of ListenAndServe and ListenAndServeContext

VARIABLES loop,         \* the forwarding: "off", "bytes", "lines", "returned"
          framing,         \* how it forwards, kept when it has returned
          ide, upstream,          \* the two connections
          up, down,     \* the goroutines: "off", "copy", "done"
          failure,      \* errChan has an error
          ctx,          \* the context of the loop is done
          running,      \* the flag of the HTTPTransport
          server,       \* its http.Server: "idle", "listening", "shut"
          caller      \* [Listeners -> "off", "claimed", "serving", "shutting", "returned", "refused"]

forwardVars == <<loop, framing, ide, upstream, up, down, failure, ctx>>
httpVars == <<running, server, caller>>
transportVars == <<loop, framing, ide, upstream, up, down, failure, ctx, running, server, caller>>

TPInit == /\ loop = "off" /\ framing = "none" /\ ide = "open" /\ upstream = "open"
          /\ up = "off" /\ down = "off" /\ failure = FALSE /\ ctx = FALSE
          /\ running = FALSE /\ server = "idle" /\ caller = [l \in Listeners |-> "off"]

-----------------------------------------------------------------------------
\* The upstream is dialled, which may fail, and the goroutines start.
Forward(k) ==
  /\ loop = "off" /\ framing' = k
  /\ \/ loop' = k /\ up' = "copy" /\ down' = "copy"
     \/ loop' = "returned" /\ up' = "done" /\ down' = "done"
  /\ UNCHANGED <<ide, upstream, failure, ctx, httpVars>>

\* A peer closes its connection, or the caller's context is done.
PeerCloses ==
  /\ loop \in {"bytes", "lines"}
  /\ \/ ide = "open" /\ ide' = "eof" /\ UNCHANGED <<upstream, ctx>>
     \/ upstream = "open" /\ upstream' = "eof" /\ UNCHANGED <<ide, ctx>>
     \/ ~ ctx /\ ctx' = TRUE /\ UNCHANGED <<ide, upstream>>
  /\ UNCHANGED <<loop, framing, up, down, failure, httpVars>>

\* A copy of bytes ends when what it reads has ended, or when it has something to write and
\* cannot; it closes the other connection, so the other copy ends as well.
UpBytesEnd ==
  /\ framing = "bytes" /\ up = "copy" /\ (ide # "open" \/ upstream # "open")
  /\ up' = "done" /\ upstream' = "closed" /\ failure' = TRUE
  /\ UNCHANGED <<loop, framing, ide, down, ctx, httpVars>>

\* Mutant: a copy leaves the other connection as it is.
DownBytesEndOnly ==
  /\ framing = "bytes" /\ down = "copy" /\ (ide # "open" \/ upstream # "open")
  /\ down' = "done" /\ failure' = TRUE
  /\ UNCHANGED <<loop, framing, ide, upstream, up, ctx, httpVars>>

DownBytesEnd ==
  /\ framing = "bytes" /\ down = "copy" /\ (ide # "open" \/ upstream # "open")
  /\ down' = "done" /\ ide' = "closed" /\ failure' = TRUE
  /\ UNCHANGED <<loop, framing, upstream, up, ctx, httpVars>>

\* A goroutine over lines closes nothing.  It ends silently when its peer has closed what it
\* reads, and with an error when that was closed from this side or it cannot write.
UpLinesEnd ==
  /\ framing = "lines" /\ up = "copy" /\ up' = "done"
  /\ \/ ide = "eof" /\ UNCHANGED failure
     \/ upstream # "open" /\ failure' = TRUE
  /\ UNCHANGED <<loop, framing, ide, upstream, down, ctx, httpVars>>

DownLinesEnd ==
  /\ framing = "lines" /\ down = "copy" /\ down' = "done"
  /\ \/ upstream = "eof" /\ UNCHANGED failure
     \/ upstream = "closed" /\ failure' = TRUE
     \/ ide # "open" /\ failure' = TRUE
  /\ UNCHANGED <<loop, framing, ide, upstream, up, ctx, httpVars>>

\* The loop returns with the first error, with its context, or, over lines, when both
\* goroutines have ended; it closes the upstream.
ForwardReturns ==
  /\ loop \in {"bytes", "lines"}
  /\ failure \/ ctx \/ (loop = "lines" /\ up = "done" /\ down = "done")
  /\ loop' = "returned" /\ upstream' = "closed"
  /\ UNCHANGED <<framing, ide, up, down, failure, ctx, httpVars>>

-----------------------------------------------------------------------------
\* The flag is taken before the server listens.
Claim(l) ==
  /\ caller[l] = "off"
  /\ IF running THEN /\ caller' = [caller EXCEPT ![l] = "refused"] /\ UNCHANGED running
     ELSE /\ caller' = [caller EXCEPT ![l] = "claimed"] /\ running' = TRUE
  /\ UNCHANGED <<forwardVars, server>>

\* http.Server listens unless it was shut down, or cannot listen; the flag stays.
Listen(l) ==
  /\ caller[l] = "claimed"
  /\ \/ /\ server # "shut" /\ server' = "listening"
        /\ caller' = [caller EXCEPT ![l] = "serving"]
     \/ caller' = [caller EXCEPT ![l] = "returned"] /\ UNCHANGED server
  /\ UNCHANGED <<forwardVars, running>>

\* The context is done before or after the server listens; the flag stays.
ListenContextDone(l) ==
  /\ caller[l] \in {"claimed", "serving"}
  /\ server' = "shut" /\ caller' = [caller EXCEPT ![l] = "returned"]
  /\ UNCHANGED <<forwardVars, running>>

\* A serve loop returns when the server has been shut down.
ServeReturns(l) ==
  /\ caller[l] = "serving" /\ server = "shut"
  /\ caller' = [caller EXCEPT ![l] = "returned"] /\ UNCHANGED <<forwardVars, running, server>>

\* Close takes the flag back and shuts the server down, in one critical section.
CloseTransport ==
  /\ running /\ running' = FALSE /\ server' = "shut"
  /\ UNCHANGED <<forwardVars, caller>>

TPNext == \/ \E k \in {"bytes", "lines"} : Forward(k)
          \/ PeerCloses \/ UpBytesEnd \/ DownBytesEnd \/ UpLinesEnd \/ DownLinesEnd
          \/ ForwardReturns \/ CloseTransport
          \/ \E l \in Listeners : Claim(l) \/ Listen(l) \/ ListenContextDone(l) \/ ServeReturns(l)

\* A goroutine whose source has ended or was closed sees it; one whose peer only cannot be
\* written to may have nothing to write.
TPFairness ==
  /\ WF_transportVars(ide # "open" /\ (UpBytesEnd \/ UpLinesEnd))
  /\ WF_transportVars(upstream # "open" /\ (DownBytesEnd \/ DownLinesEnd))
  /\ WF_transportVars(ForwardReturns)

TPSpec == TPInit /\ [][TPNext]_transportVars /\ TPFairness

-----------------------------------------------------------------------------
\* At most one caller serves, and after a Close none begins to.
OneListens ==
  /\ Cardinality({l \in Listeners : caller[l] = "serving"}) <= 1
  /\ (\E l \in Listeners : caller[l] = "serving") /\ server = "listening" => running

\* A loop over bytes that has lost a side or its context comes to an end as a whole: it returns,
\* both goroutines end, and both connections are closed.  One over lines returns when both
\* sides have ended, and with its context or an error, and its reader of the upstream ends.
ForwardMustEnd ==
  \/ loop = "bytes" /\ (ide # "open" \/ upstream # "open" \/ ctx)
  \/ loop = "lines" /\ (ctx \/ failure \/ (ide # "open" /\ upstream # "open"))

ForwardHasEnded ==
  /\ loop = "returned" /\ down = "done"
  /\ framing = "bytes" => up = "done" /\ ide = "closed" /\ upstream = "closed"

ForwardEnds == ForwardMustEnd ~> ForwardHasEnded

-----------------------------------------------------------------------------
(* The monitor.                                                             *)

CONSTANTS Watchers,       \* the callers of WatchStatus
          OnDarwin,       \* runtime.GOOS
          MaxLoops        \* how often Start is called

ASSUME MonitorAssumption == OnDarwin \in BOOLEAN /\ MaxLoops \in Nat

VARIABLES loops,        \* the monitor loops that run
          stopChan,     \* "no", "closed", "returned" (Stop has)
          latest,       \* statusChan holds a list
          watcher       \* [Watchers -> where it is, and whether its context is done]

monitorVars == <<loops, stopChan, latest, watcher>>

HMInit == /\ loops = 0 /\ stopChan = "no" /\ latest = FALSE
          /\ watcher = [w \in Watchers |-> [at |-> "off", ctx |-> FALSE]]

-----------------------------------------------------------------------------
\* What the checker finds of a process: whether it is alive, and how its status reads.  Linux
\* reads the memory of the process, which a zombie no longer has.
CheckProcessHealth(p) ==
  IF OnDarwin
  THEN IF p = "gone" THEN [alive |-> FALSE, status |-> "process not found"]
                     ELSE [alive |-> TRUE, status |-> "running"]
  ELSE IF p = "alive" THEN [alive |-> TRUE, status |-> "running"]
                      ELSE [alive |-> p = "zombie", status |-> "cannot read memory"]

\* A dead process is an error, unless its status says that it was not found.
CheckServer(v) ==
  LET health == CheckProcessHealth(v.process)
  IN IF ~ v.says THEN "stopped"
     ELSE IF ~ health.alive /\ health.status # "process not found" THEN "error"
     ELSE IF ~ v.recent THEN "unresponsive"
     ELSE "running"

-----------------------------------------------------------------------------
\* Start runs a loop, and another one each time it is called.
StartMonitor ==
  /\ stopChan = "no" /\ loops < MaxLoops /\ loops' = loops + 1
  /\ UNCHANGED <<stopChan, latest, watcher>>

\* A tick of a loop: its list is dropped if the channel holds an older one.
MonitorTick == loops > 0 /\ latest' = TRUE /\ UNCHANGED <<loops, stopChan, watcher>>

\* A loop finds stopChan closed.
MonitorEnds ==
  /\ loops > 0 /\ stopChan = "closed" /\ loops' = loops - 1
  /\ UNCHANGED <<stopChan, latest, watcher>>

\* Stop closes stopChan, and returns when no loop is left.
Stop ==
  /\ \/ stopChan = "no" /\ stopChan' = "closed"
     \/ stopChan = "closed" /\ loops = 0 /\ stopChan' = "returned"
  /\ UNCHANGED <<loops, latest, watcher>>

\* A watcher waits for its tick, sends a list when its reader takes it, and waits again.
Watch(w, from, to) ==
  /\ watcher[w].at = from /\ watcher' = [watcher EXCEPT ![w].at = to]
  /\ UNCHANGED <<loops, stopChan, latest>>

CancelWatch(w) ==
  /\ watcher[w].at # "off" /\ ~ watcher[w].ctx
  /\ watcher' = [watcher EXCEPT ![w].ctx = TRUE]
  /\ UNCHANGED <<loops, stopChan, latest>>

\* Mutant: a watcher that sends waits for its reader only.
WatchEndsBetween(w) ==
  /\ watcher[w].at = "wait" /\ (watcher[w].ctx \/ stopChan # "no")
  /\ watcher' = [watcher EXCEPT ![w].at = "ended"]
  /\ UNCHANGED <<loops, stopChan, latest>>

\* A watcher ends with its context, and, unless it has a list to send, with the monitor.
WatchEnds(w) ==
  /\ watcher[w].at \in {"wait", "send"}
  /\ watcher[w].ctx \/ (watcher[w].at = "wait" /\ stopChan # "no")
  /\ watcher' = [watcher EXCEPT ![w].at = "ended"]
  /\ UNCHANGED <<loops, stopChan, latest>>

HMNext == \/ StartMonitor \/ MonitorTick \/ MonitorEnds \/ Stop
          \/ \E w \in Watchers : \/ Watch(w, "off", "wait") \/ Watch(w, "wait", "send")
                                 \/ Watch(w, "send", "wait") \/ CancelWatch(w) \/ WatchEnds(w)

\* A goroutine whose select finds a channel closed comes to see it: the other case of the select
\* is ready once an interval only.  Nobody need read what a watcher sends.
HMFairness ==
  /\ WF_monitorVars(MonitorEnds) /\ WF_monitorVars(stopChan = "closed" /\ Stop)
  /\ \A w \in Watchers : WF_monitorVars(WatchEnds(w))

HMSpec == HMInit /\ [][HMNext]_monitorVars /\ HMFairness

-----------------------------------------------------------------------------
\* No list says of a server that it runs whose process was gone when the list was made; on
\* Darwin one does.
RunningIsAlive ==
  ~ OnDarwin =>
    \A v \in [says : BOOLEAN, process : {"alive", "zombie", "gone"}, recent : BOOLEAN] :
      CheckServer(v) = "running" => v.process # "gone"

\* Stop returns, whoever reads what, and a watcher ends once its context is done.
StopReturns == (stopChan = "closed") ~> (stopChan = "returned")
WatchesEnd == \A w \in Watchers : watcher[w].ctx ~> (watcher[w].at = "ended")
=============================================================================
