---------------------------- MODULE RequestPipeline ----------------------------
(***************************************************************************)
(* What `serve' does with a request between the line it has read and the   *)
(* line it writes: redaction, the injection classifier, the gateway tools, *)
(* routing, the embedder, the prompt cache, the sidecar, the upstream and  *)
(* the redaction of the answer.  Requests are lines of their own or the    *)
(* entries of one batch, which run side by side, at most BatchConcurrency  *)
(* at a time, and are answered in one line.                                *)
(*                                                                         *)
(* A text is the set of the kinds of secret in it.  The patterns of the    *)
(* redactor find the kind "regex", only the sidecar's model finds the kind *)
(* "subtle".  A request without parameters has the text {}.                *)
(***************************************************************************)
EXTENDS Naturals, FiniteSets

CONSTANTS Singles,            \* requests that are lines of their own
          Entries,            \* how many entries the batch has
          BatchConcurrency

ASSUME PipelineAssumption ==
  Entries \in Nat /\ BatchConcurrency \in Nat \ {0} /\ Singles \cap (1 .. Entries) = {}

VARIABLES item,      \* the requests
          batch,     \* "none", "running"
          stored,    \* the prompt cache: prompts and answers
          sidecar    \* whether a sidecar is configured

pipeVars == <<item, batch, stored, sidecar>>

Items == Singles \cup 1 .. Entries
Texts == SUBSET {"regex", "subtle"}
Idle == [pc |-> "idle"]
Kinds == {"gateway", "call", "list"}      \* gateway tools, cacheable methods, listings

\* The redactor that the process loads when it starts.
Redact(text) == text \ {"regex"}

\* The line is written, or the entry's slot is filled.
Reply(i, text) == item' = [item EXCEPT ![i] = [pc |-> "reply", text |-> text]]

RPInit == /\ item = [i \in Items |-> Idle]
          /\ batch = "none" /\ stored = {} /\ sidecar \in BOOLEAN

Arrives(i, kind, text) == [pc |-> "check", kind |-> kind, text |-> text]

ReadSingle(i) ==
  /\ i \in Singles /\ item[i].pc = "idle"
  /\ \E kind \in Kinds, text \in Texts : item' = [item EXCEPT ![i] = Arrives(i, kind, text)]
  /\ UNCHANGED <<batch, stored, sidecar>>

\* A batch has been parsed: the entries without an id are notifications and are skipped.
ReadBatch ==
  /\ batch = "none"
  /\ \E named \in SUBSET (1 .. Entries), kind \in Kinds, text \in Texts :
       item' = [i \in Items |-> IF i \in Singles THEN item[i]
                                ELSE IF i \in named
                                       THEN [pc |-> "queued", kind |-> kind, text |-> text]
                                       ELSE [pc |-> "skipped"]]
  /\ batch' = "running"
  /\ UNCHANGED <<stored, sidecar>>

Working(i) == item[i].pc \in {"check", "route", "lookup", "send"}

\* The entries start in their order, as far as the semaphore of the batch allows.
StartEntry(i) ==
  /\ batch = "running" /\ i \in 1 .. Entries /\ item[i].pc = "queued"
  /\ \A j \in 1 .. (i - 1) : item[j].pc # "queued"
  /\ Cardinality({j \in 1 .. Entries : Working(j)}) < BatchConcurrency
  /\ item' = [item EXCEPT ![i].pc = "check"]
  /\ UNCHANGED <<batch, stored, sidecar>>

\* redactParams, checkInjection: the text is redacted or the request is refused; the
\* classifier lets it pass, blocks it or puts it in quarantine, or replaces the whole text.
Check(i) ==
  /\ item[i].pc = "check"
  /\ \/ \E text \in {Redact(item[i].text), {}} :
          item' = [item EXCEPT ![i].pc = "route", ![i].text = text]
     \/ Reply(i, {})
  /\ UNCHANGED <<batch, stored, sidecar>>

\* The gateway tools answer by themselves, and their answer is redacted; a method that the
\* router does not know is an error.
Route(i) ==
  /\ item[i].pc = "route"
  /\ \/ item[i].kind = "gateway" /\ \E text \in Texts : Reply(i, Redact(text))
     \/ item[i].kind # "gateway" /\ item' = [item EXCEPT ![i].pc = "lookup"]
     \/ Reply(i, {})
  /\ UNCHANGED <<batch, stored, sidecar>>

Cacheable(i) == item[i].kind = "call"

\* The text goes to the embedder and is looked up: an entry of the same prompt, or of one like
\* it, is the answer unless it has expired.  The prompt is kept for the store as it is before
\* the sidecar sees it; a sidecar that fails refuses the request.
Lookup(i) ==
  /\ item[i].pc = "lookup"
  /\ \/ Cacheable(i) /\ \E e \in stored : Reply(i, e.answer)
     \/ item' = [item EXCEPT ![i] = [pc |-> "send", kind |-> @.kind, prompt |-> @.text,
                                     text |-> @.text \ (IF sidecar THEN {"subtle"} ELSE {})]]
     \/ sidecar /\ Reply(i, {})
  /\ UNCHANGED <<batch, stored, sidecar>>

\* Mutant: the answer is stored as it came.
StoreFirst(i) ==
  /\ item[i].pc = "send"
  /\ \/ Reply(i, {}) /\ UNCHANGED stored
     \/ \E text \in Texts, failed \in BOOLEAN :
          /\ Reply(i, Redact(text))
          /\ stored' = IF Cacheable(i) /\ ~ failed
                         THEN {e \in stored : e.prompt # item[i].prompt}
                                \cup {[prompt |-> item[i].prompt, answer |-> text]}
                         ELSE stored
  /\ UNCHANGED <<batch, sidecar>>

\* The upstream fails, or its answer cannot be redacted; or its answer, which may be an
\* error, is redacted and a result is stored.
Send(i) ==
  /\ item[i].pc = "send"
  /\ \/ Reply(i, {}) /\ UNCHANGED stored
     \/ \E text \in Texts, failed \in BOOLEAN :
          /\ Reply(i, Redact(text))
          /\ stored' = IF Cacheable(i) /\ ~ failed
                         THEN {e \in stored : e.prompt # item[i].prompt}
                                \cup {[prompt |-> item[i].prompt, answer |-> Redact(text)]}
                         ELSE stored
  /\ UNCHANGED <<batch, sidecar>>

\* The line of a single request has been written.
WriteSingle(i) ==
  /\ i \in Singles /\ item[i].pc = "reply"
  /\ item' = [item EXCEPT ![i] = Idle]
  /\ UNCHANGED <<batch, stored, sidecar>>

\* Mutant: the wait group counts the notifications too.
WriteBatchOfAll ==
  /\ batch = "running"
  /\ \A i \in 1 .. Entries : item[i].pc = "reply"
  /\ batch' = "none"
  /\ item' = [i \in Items |-> IF i \in Singles THEN item[i] ELSE Idle]
  /\ UNCHANGED <<stored, sidecar>>

\* Every entry has returned: the slots are written in one line.
WriteBatch ==
  /\ batch = "running"
  /\ \A i \in 1 .. Entries : item[i].pc \in {"reply", "skipped"}
  /\ batch' = "none"
  /\ item' = [i \in Items |-> IF i \in Singles THEN item[i] ELSE Idle]
  /\ UNCHANGED <<stored, sidecar>>

Handle(i) == Check(i) \/ Route(i) \/ Lookup(i) \/ Send(i)

RPNext == \/ \E i \in Items : ReadSingle(i) \/ StartEntry(i) \/ Handle(i) \/ WriteSingle(i)
          \/ ReadBatch \/ WriteBatch

RPFairness == /\ \A i \in Items : WF_pipeVars(Handle(i) \/ StartEntry(i) \/ WriteSingle(i))
              /\ WF_pipeVars(WriteBatch)

RPSpec == RPInit /\ [][RPNext]_pipeVars /\ RPFairness

-----------------------------------------------------------------------------
\* What leaves the proxy has been redacted: what the embedder, the prompt cache and the
\* upstream are given, what a client is told at once and what a later client is told out of
\* the cache; and no upstream sees what the sidecar would have removed.
NothingUnredactedLeaves ==
  /\ \A i \in Items : /\ item[i].pc \in {"lookup", "send", "reply"} => "regex" \notin item[i].text
                      /\ item[i].pc = "send" /\ sidecar => "subtle" \notin item[i].text
  /\ \A e \in stored : "regex" \notin e.prompt \cup e.answer

\* A batch is answered, whatever becomes of its entries, and no more of them are under way
\* than the semaphore allows.
BatchesAreBounded ==
  Cardinality({j \in 1 .. Entries : Working(j)}) <= BatchConcurrency
BatchesAreAnswered == batch = "running" ~> batch = "none"
=============================================================================
