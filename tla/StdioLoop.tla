------------------------------- MODULE StdioLoop -------------------------------
(***************************************************************************)
(* `server run --stdio' (cmd/server.go): the start of the servers one      *)
(* after the other, the loop that reads a line, handles it and writes the  *)
(* answer before it reads the next, and the ways in which the process      *)
(* ends: the end of the input, a shutdown request, a signal.               *)
(*                                                                         *)
(* What the handler does is in McpSession; here it answers, or it does not *)
(* for the one notification it knows.  A text is clean, or it has a secret *)
(* in it that the redactor finds.                                          *)
(***************************************************************************)
EXTENDS Naturals, FiniteSets

CONSTANTS LoopServers, TransportOf,   \* the servers that are enabled
          MaxLines                    \* bound: lines that are read

ASSUME LoopAssumption ==
  TransportOf \in [LoopServers -> {"stdio", "http", "sse"}] /\ MaxLines \in Nat

LineKinds == {"bad", "request", "initialized", "shutdown"}

VARIABLES
  stage,      \* "starting", "up" (the handler of signals is installed), "over"
  started,    \* of each server: "todo", "yes", "no"
  open,       \* the servers that are started and not closed
  checking,   \* the health checker runs
  statusIs,   \* the status file: "none", "ours"
  line,       \* the line that the loop is at, and how far it is
  count,      \* lines read, and answers written
  pending,    \* external: the client waits for an answer to this many lines
  exiting,    \* where the handler of the signal is
  left        \* how the process ended

loopVars == <<stage, started, open, checking, statusIs, line, count, pending, exiting, left>>

NoLine == [at |-> "read"]

SOInit == /\ stage = "starting" /\ started = [s \in LoopServers |-> "todo"] /\ open = {}
          /\ checking = FALSE /\ statusIs = "none" /\ line = NoLine
          /\ count = [read |-> 0, written |-> 0, bare |-> 0] /\ pending = 0
          /\ exiting = "no" /\ left = "no"

-----------------------------------------------------------------------------
\* A stdio server may fail to start; the connections of the others are made later.  A signal
\* that comes before the handler is installed ends the process at once.
StartOne(s) ==
  /\ stage = "starting" /\ started[s] = "todo"
  /\ \/ started' = [started EXCEPT ![s] = "yes"] /\ open' = open \cup {s}
     \/ /\ TransportOf[s] = "stdio"
        /\ started' = [started EXCEPT ![s] = "no"] /\ UNCHANGED open
  /\ UNCHANGED <<stage, checking, statusIs, line, count, pending, exiting, left>>

\* The checker, if it is configured, the status file and then the loop.
GoesUp ==
  /\ stage = "starting" /\ \A s \in LoopServers : started[s] # "todo"
  /\ stage' = "up" /\ checking' \in BOOLEAN /\ statusIs' = "ours"
  /\ UNCHANGED <<started, open, line, count, pending, exiting, left>>

KilledEarly == /\ stage = "starting" /\ stage' = "over" /\ left' = "killed"
               /\ UNCHANGED <<started, open, checking, statusIs, line, count, pending, exiting>>

\* The ticker rewrites the file, even when the handler of the signal has removed it.
TickStatus == /\ stage = "up" /\ statusIs' = "ours"
              /\ UNCHANGED <<stage, started, open, checking, line, count, pending, exiting, left>>

-----------------------------------------------------------------------------
(* The loop.                                                                *)

Loops(at) == stage = "up" /\ line.at = at
LoopOnly == UNCHANGED <<stage, started, open, checking, statusIs, exiting, left>>

ReadLine ==
  /\ Loops("read") /\ count.read < MaxLines
  /\ \E kind \in LineKinds, secret \in BOOLEAN :
       line' = [at |-> "parse", kind |-> kind, secret |-> secret]
  /\ count' = [count EXCEPT !.read = @ + 1]
  /\ pending' = pending + 1
  /\ LoopOnly

\* A line that is no request, or whose parameters cannot be redacted, is answered with an
\* error; redactMCPRequest comes before anything else sees the parameters.
Parse ==
  /\ Loops("parse")
  /\ \/ line' = [line EXCEPT !.at = "reply", !.secret = FALSE]
     \/ line.kind # "bad" /\ line' = [line EXCEPT !.at = "handle", !.secret = FALSE]
  /\ UNCHANGED <<count, pending>> /\ LoopOnly

\* HandleRequest; what it answers may have a secret in it.
HandleRequest ==
  /\ Loops("handle")
  /\ IF line.kind = "initialized"
       THEN line' = NoLine /\ pending' = pending - 1
       ELSE /\ \E secret \in BOOLEAN : line' = [line EXCEPT !.at = "redact", !.secret = secret]
            /\ UNCHANGED pending
  /\ UNCHANGED count /\ LoopOnly

\* Mutant: an answer that cannot be redacted is written as it is.
PassResponse ==
  /\ Loops("redact")
  /\ \E secret \in {FALSE, line.secret} : line' = [line EXCEPT !.at = "reply", !.secret = secret]
  /\ UNCHANGED <<count, pending>> /\ LoopOnly

\* redactMCPResponse: the answer is redacted, or withheld and an error put in its place.
RedactResponse ==
  /\ Loops("redact")
  /\ line' = [line EXCEPT !.at = "reply", !.secret = FALSE]
  /\ UNCHANGED <<count, pending>> /\ LoopOnly

\* writeStdioResponse; a shutdown request is done with when it is parsed and answered.
WriteAnswer ==
  /\ Loops("reply")
  /\ count' = [count EXCEPT !.written = @ + 1, !.bare = @ + (IF line.secret THEN 1 ELSE 0)]
  /\ pending' = pending - 1
  /\ line' = IF line.kind = "shutdown" THEN [at |-> "close"] ELSE NoLine
  /\ LoopOnly

Closed(transport) == {s \in open : TransportOf[s] # transport}

\* The shutdown request closes the pool of stdio servers and ends the loop; so does the end
\* of the input, which closes nothing and drops a last line without a newline.  handleStdio
\* removes the status file.
ShutdownRequest ==
  /\ Loops("close")
  /\ open' = Closed("stdio") /\ left' = "shutdown" /\ stage' = "over" /\ statusIs' = "none"
  /\ UNCHANGED <<started, checking, line, count, pending, exiting>>
EndOfInput ==
  /\ Loops("read")
  /\ left' = "eof" /\ stage' = "over" /\ statusIs' = "none"
  /\ UNCHANGED <<started, open, checking, line, count, pending, exiting>>

-----------------------------------------------------------------------------
(* The handler of SIGINT and SIGTERM runs beside the loop.                  *)

Exits(here, there) == stage = "up" /\ exiting = here /\ exiting' = there

SignalComes == /\ Exits("no", "checker")
               /\ UNCHANGED <<stage, started, open, checking, statusIs, line, count, pending, left>>

\* Mutant: the checker is not stopped first.
LeaveChecker == /\ Exits("checker", "file")
                /\ UNCHANGED <<stage, started, open, checking, statusIs, line, count, pending, left>>

StopChecker == /\ Exits("checker", "file") /\ checking' = FALSE
               /\ UNCHANGED <<stage, started, open, statusIs, line, count, pending, left>>

RemoveStatus == /\ Exits("file", "stdio") /\ statusIs' = "none"
                /\ UNCHANGED <<stage, started, open, checking, line, count, pending, left>>

CloseStdio == /\ Exits("stdio", "http") /\ open' = Closed("stdio")
              /\ UNCHANGED <<stage, started, checking, statusIs, line, count, pending, left>>

\* The pool of SSE servers is not closed.
CloseHTTPAndExit ==
  /\ Exits("http", "done") /\ open' = Closed("http")
  /\ stage' = "over" /\ left' = "signal"
  /\ UNCHANGED <<started, checking, statusIs, line, count, pending>>

\* A stdio server ends, and is restarted by the checker as long as that runs, even if the
\* pool has been closed since the checker decided to.
ServerEnds(s) ==
  /\ stage = "up" /\ s \in open /\ TransportOf[s] = "stdio" /\ open' = open \ {s}
  /\ UNCHANGED <<stage, started, checking, statusIs, line, count, pending, exiting, left>>
CheckerRestarts(s) ==
  /\ stage = "up" /\ checking /\ TransportOf[s] = "stdio" /\ started[s] = "yes"
  /\ open' = open \cup {s}
  /\ UNCHANGED <<stage, started, checking, statusIs, line, count, pending, exiting, left>>

SONext == \/ \E s \in LoopServers : StartOne(s) \/ ServerEnds(s) \/ CheckerRestarts(s)
          \/ GoesUp \/ KilledEarly \/ TickStatus
          \/ ReadLine \/ Parse \/ HandleRequest \/ RedactResponse \/ WriteAnswer
          \/ ShutdownRequest \/ EndOfInput
          \/ SignalComes \/ StopChecker \/ RemoveStatus \/ CloseStdio \/ CloseHTTPAndExit

SOSpec == SOInit /\ [][SONext]_loopVars

-----------------------------------------------------------------------------
\* The client has an answer to every line but the one the loop is at, and no answer carries a
\* secret that the redactor could find; a process that a signal has ended has left no
\* stdio or http server open, whatever the checker did meanwhile.
LoopIsSound ==
  /\ pending = IF line.at \in {"read", "close"} THEN 0 ELSE 1
  /\ count.bare = 0
  /\ line.at = "handle" => ~ line.secret
  /\ left = "signal" => \A s \in open : TransportOf[s] = "sse"
=============================================================================
