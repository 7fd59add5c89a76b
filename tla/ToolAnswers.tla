----------------------------- MODULE ToolAnswers -----------------------------
(***************************************************************************)
(* What pkg/mcp makes of the results it hands to a client: the             *)
(* minification of a tool's result, the cap on its length, and the ranking *)
(* of search_tools.                                                        *)
(*                                                                         *)
(* A text is the sequence of the widths of its runes, in bytes; the blocks *)
(* of a result are texts, JSON texts, some bytes of which are whitespace,  *)
(* and others (images, resources).  A JSON value is a number.              *)
(***************************************************************************)
EXTENDS Integers, Sequences, SequencesExt, FiniteSets, FiniteSetsExt, Functions

CONSTANTS ResultBlocks,         \* the blocks a result may consist of
          MaxBlocks,
          Structured,     \* the structured contents a result may have
          MinCap,         \* minResponseChars
          CapSlack,       \* truncationMarkerSlack
          Caps,           \* what may be configured or asked for; 0: nothing
          Searched,          \* the tools that are searched
          QueryLengths, WordHits,
          Limits          \* how many tools may be asked for

ASSUME AnswersAssumption ==
  /\ MinCap \in Nat \ {0} /\ CapSlack \in Nat /\ Caps \subseteq Nat
  /\ QueryLengths \subseteq Nat /\ WordHits \subseteq Nat /\ Limits \subseteq Nat \ {0}
  /\ MaxBlocks \in Nat /\ Structured \subseteq [value : Nat, length : Nat] /\ Searched \subseteq Int
  /\ IsFiniteSet(Searched)
  /\ ResultBlocks \subseteq [kind : {"text", "json", "other"}, runes : Seq(Nat), value : Nat, white : Nat]
  /\ \A b \in ResultBlocks : b.kind = "other" => b.runes = <<>>

VARIABLES answer,     \* a result on its way: as it came, minified, capped
          search      \* the query, the hits of every tool, and the list

answerVars == <<answer, search>>

NoResult == [step |-> "none"]
NoSearch == [step |-> "none"]

TAInit == answer = NoResult /\ search = NoSearch

Total(widths) == FoldLeft(LAMBDA x, y : x + y, 0, widths)
Width(b) == IF b.kind = "other" THEN 0 ELSE Total(b.runes)
TextLength(blocks) == FoldLeft(LAMBDA n, b : n + Width(b), 0, blocks)

-----------------------------------------------------------------------------
\* The upstream's result: blocks, and a structured content that may repeat one of them.
ResultComes ==
  /\ answer = NoResult
  /\ \E n \in 0 .. MaxBlocks : \E blocks \in [1 .. n -> ResultBlocks], s \in Structured :
       answer' = [step |-> "minify", came |-> [blocks |-> blocks, structured |-> s]]
  /\ UNCHANGED search

Compacted(b) == IF b.kind = "json"
                  THEN [b EXCEPT !.runes = SubSeq(@, b.white + 1, Len(@)), !.white = 0]
                  ELSE b

\* Mutant: a structured content is dropped as soon as there is a JSON text.
MinifyAny(r) ==
  [blocks |-> [i \in DOMAIN r.blocks |-> Compacted(r.blocks[i])],
   structured |-> IF \E i \in DOMAIN r.blocks : r.blocks[i].kind = "json"
                    THEN [value |-> 0, length |-> 0] ELSE r.structured]

\* minifyToolResult: whitespace goes, and a structured content that a text repeats.
MinifyResult(r) ==
  [blocks |-> [i \in DOMAIN r.blocks |-> Compacted(r.blocks[i])],
   structured |-> IF \E i \in DOMAIN r.blocks : /\ r.blocks[i].kind = "json"
                                                /\ r.blocks[i].value = r.structured.value
                    THEN [value |-> 0, length |-> 0] ELSE r.structured]

Minify ==
  /\ answer.step = "minify"
  /\ \E on \in BOOLEAN :
       answer' = [step |-> "cap", came |-> answer.came,
                  small |-> IF on THEN MinifyResult(answer.came) ELSE answer.came]
  /\ UNCHANGED search

\* SetDefaultMaxResponseChars, SetToolMaxResponseChars and responseCapFor.
AtLeastMin(n) == IF n > 0 /\ n < MinCap THEN MinCap ELSE n
CapFor(explicit, perTool, default) ==
  IF explicit > 0 THEN AtLeastMin(explicit)
  ELSE IF perTool > 0 THEN AtLeastMin(perTool) ELSE AtLeastMin(default)

\* The whole runes that fit.
Fitting(runes, budget) ==
  SubSeq(runes, 1, Max({n \in 0 .. Len(runes) : Total(SubSeq(runes, 1, n)) <= budget}))

\* Mutant: once the budget is spent nothing more is kept.
KeepUntilSpent(acc, b) ==
  IF acc.budget = 0 THEN acc
  ELSE IF b.kind = "other" THEN [acc EXCEPT !.kept = Append(@, b)]
  ELSE IF Total(b.runes) > acc.budget
         THEN [kept |-> Append(acc.kept, [b EXCEPT !.runes = Fitting(@, acc.budget)]),
               budget |-> 0]
         ELSE [kept |-> Append(acc.kept, b), budget |-> acc.budget - Total(b.runes)]

\* A text is kept, cut or dropped as the budget allows; the others are always kept.
KeepBlock(acc, b) ==
  IF b.kind = "other" THEN [acc EXCEPT !.kept = Append(@, b)]
  ELSE IF acc.budget = 0 THEN acc
  ELSE IF Total(b.runes) > acc.budget
         THEN [kept |-> Append(acc.kept, [b EXCEPT !.runes = Fitting(@, acc.budget)]),
               budget |-> 0]
         ELSE [kept |-> Append(acc.kept, b), budget |-> acc.budget - Total(b.runes)]

OverCap(n, cap) == n > cap + CapSlack

\* truncateToolResultTracked, but for the marker that it appends.  A result without blocks
\* is left alone.
TruncateResult(r, cap) ==
  IF r.blocks = <<>> THEN r
  ELSE [blocks |-> IF OverCap(TextLength(r.blocks), cap)
                     THEN FoldLeft(KeepBlock, [kept |-> <<>>, budget |-> cap], r.blocks).kept
                     ELSE r.blocks,
        structured |-> IF OverCap(r.structured.length, cap)
                         THEN [value |-> 0, length |-> 0] ELSE r.structured]

ApplyCap ==
  /\ answer.step = "cap"
  /\ \E explicit, perTool, default \in Caps :
       LET cap == CapFor(explicit, perTool, default)
       IN answer' = [step |-> "told", came |-> answer.came, small |-> answer.small, cap |-> cap,
                     told |-> IF cap = 0 THEN answer.small
                              ELSE TruncateResult(answer.small, cap)]
  /\ UNCHANGED search

-----------------------------------------------------------------------------
(* search_tools.  The words of a query hit the name of a tool, or else its  *)
(* description, or neither.                                                 *)

Rank(hits, words) ==
  10 * hits.name + 3 * hits.desc
    + (IF words > 0 /\ hits.name + hits.desc = words THEN 1000 ELSE 0)

Full(hits, words) == Rank(hits, words) >= 1000
Matched(hits) == hits.name + hits.desc

\* Mutant: every partial match goes once a tool matches all words.
OnlyFull(tools, hits, words) ==
  LET matched == {t \in tools : words = 0 \/ Matched(hits[t]) > 0}
      full == {t \in matched : Full(hits[t], words)}
  IN IF full = {} THEN matched ELSE full

\* Tools that match every word push out the others, but for those that miss one of three or
\* more words.
Guarded(tools, hits, words) ==
  LET matched == {t \in tools : words = 0 \/ Matched(hits[t]) > 0}
      full == {t \in matched : Full(hits[t], words)}
  IN IF full = {} THEN matched
     ELSE IF words < 3 THEN full
     ELSE full \cup {t \in matched : Matched(hits[t]) = words - 1}

\* Equal scores are listed in the order of the names, and no more than were asked for.
SearchTools ==
  /\ search = NoSearch
  /\ \E words \in QueryLengths, limit \in Limits :
       \E hits \in [Searched -> {h \in [name : WordHits, desc : WordHits] :
                                h.name + h.desc <= words}] :
         LET shown == Guarded(Searched, hits, words)
             Before(t, u) == \/ Rank(hits[t], words) > Rank(hits[u], words)
                             \/ Rank(hits[t], words) = Rank(hits[u], words) /\ t < u
         IN \E ranked \in Bijection(1 .. Cardinality(shown), shown) :
              /\ \A i, j \in DOMAIN ranked : i < j => Before(ranked[i], ranked[j])
              /\ search' = [step |-> "told", words |-> words, hits |-> hits, limit |-> limit,
                            list |-> SubSeq(ranked, 1, Min({limit, Len(ranked)}))]
  /\ UNCHANGED answer

TANext == ResultComes \/ Minify \/ ApplyCap \/ SearchTools

TASpec == TAInit /\ [][TANext]_answerVars

-----------------------------------------------------------------------------
\* Nothing is lost by minification: the texts stay, and the structured content stays or can
\* be read in one of them.
LosslessStep(old, new) ==
  /\ Len(new.blocks) = Len(old.blocks)
  /\ \A i \in DOMAIN old.blocks : /\ new.blocks[i].kind = old.blocks[i].kind
                                  /\ new.blocks[i].value = old.blocks[i].value
  /\ new.structured # old.structured =>
       \E i \in DOMAIN new.blocks : new.blocks[i].value = old.structured.value

\* What the client is told is within the cap, or close to it and whole; it is a beginning of
\* the text, together with everything that is not text, in its order.
Runes(blocks) == FoldLeft(LAMBDA all, b : all \o b.runes, <<>>, blocks)
Others(blocks) == FoldLeft(LAMBDA all, b : IF b.kind = "other" THEN Append(all, b) ELSE all, <<>>, blocks)
CappedStep(old, new, cap) ==
  /\ cap > 0 => /\ TextLength(new.blocks) <= cap + CapSlack
                /\ new.blocks # <<>> => new.structured.length <= cap + CapSlack
  /\ new.blocks # old.blocks => TextLength(new.blocks) <= cap
  /\ IsPrefix(Runes(new.blocks), Runes(old.blocks))
  /\ Others(new.blocks) = Others(old.blocks)

\* A search of no more than 144 words lists the tools that match all words before all the
\* others, and leaves a match, also one that misses a word of several, out only if the list is
\* full; it finds nothing only if nothing matches.
RankedWell(s) ==
  LET Position(t) == CHOOSE i \in DOMAIN s.list : s.list[i] = t
      All(t) == Matched(s.hits[t]) = s.words
      AllButOne(t) == s.words >= 3 /\ Matched(s.hits[t]) = s.words - 1
  IN /\ \A t \in Searched \ ToSet(s.list) :
          /\ All(t) => Len(s.list) = s.limit /\ \A u \in ToSet(s.list) : All(u)
          /\ AllButOne(t) => Len(s.list) = s.limit
     /\ \A t, u \in ToSet(s.list) : All(t) /\ ~ All(u) => Position(t) < Position(u)
     /\ s.list = <<>> => \A t \in Searched : Matched(s.hits[t]) = 0

\* A client is told of a result what the cap allows and of the tools what it asked for.
AnswersAreSound ==
  /\ answer.step \in {"cap", "told"} => LosslessStep(answer.came, answer.small)
  /\ answer.step = "told" => CappedStep(answer.small, answer.told, answer.cap)
  /\ search.step = "told" /\ search.words <= 144 => RankedWell(search)

=============================================================================
