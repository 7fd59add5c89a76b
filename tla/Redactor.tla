------------------------------- MODULE Redactor -------------------------------
(***************************************************************************)
(* The redactor of pkg/bouncer: RedactStream, and RedactJSON with its      *)
(* prefilter.                                                              *)
(*                                                                         *)
(* RedactStream copies a stream and replaces the secrets in it while the   *)
(* stream arrives in pieces of any size.  What it has read and not yet     *)
(* written is the carry; when the carry is long enough it is scanned and   *)
(* all of it is written but a tail.                                        *)
(*                                                                         *)
(* A secret begins with a head and goes on with MinBody or more symbols of *)
(* its body, as the open-ended built-in patterns do; the rest of a stream  *)
(* is plain.  What was written is the set of the positions that were       *)
(* written as they came; the others have become markers.                   *)
(***************************************************************************)
EXTENDS Integers, Sequences, FiniteSets, FiniteSetsExt, SequencesExt

CONSTANTS MinBody,
          MaxInput,       \* how much is read in all
          ReadSize,       \* bufferSize
          MaxOverlap,     \* defaultMaxOverlap
          MaxPending      \* maxPendingMatch

\* The hold-back window is as long as what must be seen of a secret to know it.
ASSUME StreamAssumption ==
  /\ MinBody \in Nat \ {0} /\ MaxInput \in Nat /\ ReadSize \in Nat \ {0}
  /\ MaxOverlap \in Nat \ {0} /\ MaxPending \in Nat /\ MinBody <= MaxOverlap /\ MinBody < MaxPending

VARIABLES read,       \* the stream, as far as it has been read
          sent,       \* how much of it has been written or become a marker
          plain,      \* the positions that were written as they came
          stream      \* "open", "ended", "failed"

streamVars == <<read, sent, plain, stream>>

Symbols == {"head", "body", "plain"}

RSInit == read = <<>> /\ sent = 0 /\ plain = {} /\ stream = "open"

\* The matches in the positions first .. Len(text), each from its head to the last symbol of
\* its body: findSpans.
BodyEnd(text, i) ==
  Max({j \in i .. Len(text) : \A k \in (i + 1) .. j : text[k] = "body"})
Spans(text, first) ==
  {<<i, BodyEnd(text, i)>> : i \in {h \in first .. Len(text) :
                                      text[h] = "head" /\ BodyEnd(text, h) - h >= MinBody}}
Inside(spans) == UNION {s[1] .. s[2] : s \in spans}
LastEnd(spans) == IF spans = {} THEN 0 ELSE Max({s[2] : s \in spans})

\* A match that ends where the carry ends may go on, unless it has grown beyond any secret.
Pending(spans, n) == {s \in spans : s[2] = n /\ n - s[1] + 1 <= MaxPending}

\* Mutant: every piece is redacted by itself.
HeldFromBySelf(spans, n) == n

\* Everything up to here is written: the tail of the carry that may be the beginning of a
\* secret is held back, and so is a match that may go on.
HeldFrom(spans, n) ==
  LET whole == spans \ Pending(spans, n)
      tail == Max({n - MaxOverlap, LastEnd(whole), sent})
  IN IF Pending(spans, n) = {} THEN tail
     ELSE Min({tail, Min({s[1] - 1 : s \in Pending(spans, n)})})

\* The carry is scanned and written up to the position n.
Emit(text, spans, n) ==
  /\ sent' = n
  /\ plain' = plain \cup (((sent + 1) .. n) \ Inside(spans))

\* A read returns some symbols.
ReadStream(piece) ==
  /\ stream = "open" /\ Len(read) + Len(piece) <= MaxInput
  /\ read' = read \o piece
  /\ LET spans == Spans(read', sent + 1)
         n == HeldFrom(spans, Len(read'))
     IN IF Len(read') - sent < ReadSize + MaxOverlap THEN UNCHANGED <<sent, plain>>
        ELSE Emit(read', {s \in spans : s[2] <= n}, n)
  /\ UNCHANGED stream

\* The end of the stream: everything is written.
EndStream ==
  /\ stream = "open" /\ stream' = "ended"
  /\ Emit(read, Spans(read, sent + 1), Len(read))
  /\ UNCHANGED read

\* A read or a write fails, and what is in the carry is not written.
FailStream == stream = "open" /\ stream' = "failed" /\ UNCHANGED <<read, sent, plain>>

Pieces == UNION {[1 .. n -> Symbols] : n \in 1 .. ReadSize}

RSNext == (\E piece \in Pieces : ReadStream(piece)) \/ EndStream \/ FailStream

RSSpec == RSInit /\ [][RSNext]_streamVars

-----------------------------------------------------------------------------
\* However the stream is cut into reads, no symbol of a secret is written, up to the length
\* that no secret exceeds.
NoSecretIsSplit ==
  \A s \in Spans(read, 1) : plain \cap (s[1] .. Min({s[2], s[1] + MaxPending - 1})) = {}

\* Nothing else is withheld: the end of the stream finds everything written but the secrets.
NothingElseIsHidden ==
  stream = "ended" => ((1 .. Len(read)) \ Inside(Spans(read, 1))) \subseteq plain

StreamIsSound == NoSecretIsSplit /\ NothingElseIsHidden
-----------------------------------------------------------------------------
(* RedactJSON.  The prefilter spares a document the scan for a secret when  *)
(* it holds none of the literals that every match of the secret's pattern   *)
(* must hold.  A pattern is a tree of nodes, each with its sub-expressions; *)
(* a word is a sequence of runes, and runes that differ in case only fold   *)
(* to one rune.                                                             *)
(*                                                                          *)
(* A document is an object of one key and one string, as its bytes have     *)
(* them: an escape stands for a rune, and invisible runes are stripped      *)
(* before a word is scanned.  Of what comes out only what was replaced is   *)
(* kept.                                                                    *)

CONSTANTS AllRunes,
          PatternTrees,       \* the patterns of secrets
          KeyTree,            \* sensitiveKeyPattern
          KeyWords, Words,    \* the keys and the strings of documents
          FoldsTo,            \* [rune -> the least rune of its case]
          EscapeOf,           \* [escape -> the rune it stands for]
          Invisible,          \* the runes that are stripped
          Height,             \* [the nodes of all patterns -> how high they stand in their trees]
          MaxPureLits, MaxTriggerSets, MinLiteral

Trees == DOMAIN Height

\* What regexp/syntax makes of an expression.
ASSUME TreesAssumption ==
  /\ PatternTrees \cup {KeyTree} \subseteq Trees
  /\ \A t \in Trees :
       /\ Height[t] \in Nat /\ t.subs \in Seq(Trees)
       /\ \A i \in DOMAIN t.subs : Height[t.subs[i]] < Height[t]
       /\ t.op \in {"literal", "class", "any", "concat", "alternate", "quest", "repeat"}
       /\ t.op = "literal" => t.word \in Seq(AllRunes)
       /\ t.op = "class" => t.class \subseteq AllRunes /\ IsFiniteSet(t.class)
       /\ t.op = "repeat" => t.min \in Nat
       /\ t.op \in {"quest", "repeat"} => Len(t.subs) = 1
       /\ t.op = "alternate" => t.subs # <<>>

ASSUME PrefilterAssumption ==
  /\ MaxPureLits \in Nat \ {0} /\ MaxTriggerSets \in Nat /\ MinLiteral \in Nat
  /\ KeyWords \cup Words \subseteq Seq(AllRunes)
  /\ \A r \in DOMAIN FoldsTo : FoldsTo[r] \in AllRunes /\ FoldsTo[FoldsTo[r]] = FoldsTo[r]
  /\ \A r \in DOMAIN EscapeOf : EscapeOf[r] \in AllRunes

VARIABLES pattern,     \* the pattern, or <<>> before there is one
          triggers,    \* the sets of literals kept of it
          document, replaced

filterVars == <<pattern, triggers, document, replaced>>

-----------------------------------------------------------------------------
\* foldNorm, and the strings a document's words stand for: decoded, and with what is invisible
\* stripped from them.
FoldNorm(word) == [i \in DOMAIN word |-> IF word[i] \in DOMAIN FoldsTo THEN FoldsTo[word[i]]
                                         ELSE word[i]]
Decode(word) == [i \in DOMAIN word |-> IF word[i] \in DOMAIN EscapeOf THEN EscapeOf[word[i]]
                                       ELSE word[i]]
StripInvisible(word) ==
  FoldLeft(LAMBDA kept, r : IF r \in Invisible THEN kept ELSE Append(kept, r), <<>>, word)

HasLiteral(word, lit) ==
  \E i \in 0 .. (Len(word) - Len(lit)) : SubSeq(word, i + 1, i + Len(lit)) = lit

\* What Go's regexp package matches: the places <<i, j>> of a word at which the runes behind
\* the i-th and up to the j-th are a word of the tree.  A literal may ignore case, and no more
\* repetitions than there are runes make a difference.
Places(word) == {p \in (0 .. Len(word)) \X (0 .. Len(word)) : p[1] <= p[2]}
At(word, p) == SubSeq(word, p[1] + 1, p[2])
EmptyPlaces(word) == {p \in Places(word) : p[1] = p[2]}
Then(word, P, Q) ==
  {p \in Places(word) : \E k \in p[1] .. p[2] : <<p[1], k>> \in P /\ <<k, p[2]>> \in Q}
InTurn(word, Ps) == FoldLeft(LAMBDA P, Q : Then(word, P, Q), EmptyPlaces(word), Ps)

\* The places of a node, of which `below' are those of its sub-expressions.
PlacesOf(word, t, below) ==
  CASE t.op = "literal" -> {p \in Places(word) : IF t.fold THEN FoldNorm(At(word, p)) = FoldNorm(t.word)
                                                 ELSE At(word, p) = t.word}
    [] t.op = "class" -> {p \in Places(word) : \E r \in t.class : At(word, p) = <<r>>}
    [] t.op = "any" -> {p \in Places(word) : p[2] = p[1] + 1}
    [] t.op = "concat" -> InTurn(word, below)
    [] t.op = "alternate" -> UNION {below[k] : k \in DOMAIN below}
    [] t.op = "quest" -> EmptyPlaces(word) \cup below[1]
    [] t.op = "repeat" -> UNION {InTurn(word, [k \in 1 .. n |-> below[1]]) :
                                   n \in t.min .. (t.min + Len(word))}
MatchesIn(word) ==
  LET M[t \in Trees] == PlacesOf(word, t, [k \in DOMAIN t.subs |-> M[t.subs[k]]]) IN M

Found(t, word) == MatchesIn(word)[t] # {}

-----------------------------------------------------------------------------
Joined(lists) == FoldLeft(LAMBDA all, list : all \o list, <<>>, lists)
Cross(as, bs) == Joined([i \in DOMAIN as |-> [j \in DOMAIN bs |-> as[i] \o bs[j]]])

Bounded(lits) == IF Len(lits) <= MaxPureLits THEN lits ELSE <<>>

\* Every folded word a node matches, or none where they are too many or are not so simple;
\* `below' are those of its sub-expressions.
PureOf(t, below) ==
  CASE t.op = "literal" -> <<FoldNorm(t.word)>>
    [] t.op = "class" -> LET runes == SetToSeq(t.class)
                         IN Bounded([i \in DOMAIN runes |-> FoldNorm(<<runes[i]>>)])
    [] t.op = "alternate" /\ (\A i \in DOMAIN below : below[i] # <<>>) -> Bounded(Joined(below))
    [] t.op = "concat" /\ (\A i \in DOMAIN below : below[i] # <<>>) ->
         Bounded(FoldLeft(Cross, <<(<<>>)>>, below))
    [] OTHER -> <<>>
PureLits[t \in Trees] == PureOf(t, [i \in DOMAIN t.subs |-> PureLits[t.subs[i]]])

\* The best of the sets of a branch is the first of those whose shortest literal is longest.
MinLitLen(set) == Min({Len(set[i]) : i \in DOMAIN set})
Best(sets) ==
  LET longest == Max({MinLitLen(sets[i]) : i \in DOMAIN sets})
  IN sets[Min({i \in DOMAIN sets : MinLitLen(sets[i]) = longest})]

\* Adjacent literals of a sequence make one set as long as it is not too large.
NoRun == <<(<<>>)>>
Flushed(acc) == IF acc.run = NoRun THEN acc.out ELSE Append(acc.out, acc.run)
Merge(acc, sub) ==
  IF sub.lits # <<>> /\ Len(acc.run) * Len(sub.lits) <= MaxPureLits
  THEN [out |-> acc.out, run |-> Cross(acc.run, sub.lits)]
  ELSE [out |-> Flushed(acc) \o (IF sub.lits # <<>> THEN <<sub.lits>> ELSE sub.sets),
        run |-> NoRun]

\* Mutant: a repetition need not occur at all.
RepeatedAnyway(t) == TRUE

Repeated(t) == t.min >= 1

\* Sets of literals of each of which every match holds one.
RequiredOf(t, below) ==
  IF PureLits[t] # <<>> THEN <<PureLits[t]>>
  ELSE CASE t.op = "concat" ->
              Flushed(FoldLeft(Merge, [out |-> <<>>, run |-> NoRun],
                               [i \in DOMAIN t.subs |-> [lits |-> PureLits[t.subs[i]],
                                                         sets |-> below[i]]]))
         [] t.op = "repeat" /\ Repeated(t) -> below[1]
         [] t.op = "alternate" /\ (\A i \in DOMAIN below : below[i] # <<>>) ->
              <<Joined([i \in DOMAIN below |-> Best(below[i])])>>
         [] OTHER -> <<>>
RequiredSets[t \in Trees] == RequiredOf(t, [i \in DOMAIN t.subs |-> RequiredSets[t.subs[i]]])

\* Weak sets are dropped, and the most selective of the others kept.
ExtractTriggers(t) ==
  LET sets == RequiredSets[t]
      kept == {i \in DOMAIN sets : MinLitLen(sets[i]) >= MinLiteral}
      Before(i, j) == \/ MinLitLen(sets[i]) > MinLitLen(sets[j])
                      \/ MinLitLen(sets[i]) = MinLitLen(sets[j]) /\ i < j
  IN {sets[j] : j \in {k \in kept : Cardinality({i \in kept : Before(i, k)}) < MaxTriggerSets}}

Possible(sets, lowered) ==
  \A set \in sets : \E j \in DOMAIN set : HasLiteral(lowered, set[j])

-----------------------------------------------------------------------------
PFInit == pattern = <<>> /\ triggers = {} /\ document = <<>> /\ replaced = {}

\* A redactor is made with its prefilter.
BuildPrefilter(t) ==
  /\ pattern = <<>>
  /\ pattern' = t /\ triggers' = ExtractTriggers(t)
  /\ UNCHANGED <<document, replaced>>

\* The scan of one string: it is replaced as a whole, or passed on as it came.
RedactString(word) ==
  LET result == StripInvisible(word)
  IN Possible(triggers, FoldNorm(result)) /\ Found(pattern, result)

\* The document holds provably nothing to redact, so it is not even decoded.
CanSkipJSON(doc) ==
  /\ \A f \in DOMAIN doc : \A i \in DOMAIN doc[f] :
       doc[f][i] \notin (DOMAIN EscapeOf) \cup Invisible
  /\ \A f \in DOMAIN doc : /\ ~ Possible(triggers, FoldNorm(doc[f]))
                           /\ ~ Possible(ExtractTriggers(KeyTree), FoldNorm(doc[f]))

\* Keys are scanned as strings are, and the string of a sensitive key is replaced whatever it is.
RedactInterface(doc) ==
  LET key == Decode(doc.key)
      value == Decode(doc.value)
  IN {f \in {"key", "value"} :
        \/ f = "key" /\ RedactString(key)
        \/ f = "value" /\ (RedactString(value) \/ (value # <<>> /\ Found(KeyTree, key)))}

RedactJSON(doc) ==
  /\ pattern # <<>> /\ document = <<>>
  /\ document' = doc
  /\ replaced' = IF CanSkipJSON(doc) THEN {} ELSE RedactInterface(doc)
  /\ UNCHANGED <<pattern, triggers>>

PFNext == \/ \E t \in PatternTrees : BuildPrefilter(t)
          \/ \E k \in KeyWords, w \in Words : RedactJSON([key |-> k, value |-> w])

PFSpec == PFInit /\ [][PFNext]_filterVars

-----------------------------------------------------------------------------
\* No match of the pattern is passed on, in a key or in a string, nor what a sensitive key
\* names; escapes, invisible runes and another case do not hide it.
FilterIsSound ==
  document # <<>> =>
    LET key == Decode(document.key)
        value == Decode(document.value)
    IN /\ Found(pattern, StripInvisible(key)) => "key" \in replaced
       /\ Found(pattern, StripInvisible(value)) => "value" \in replaced
       /\ value # <<>> /\ Found(KeyTree, key) => "value" \in replaced
=============================================================================
