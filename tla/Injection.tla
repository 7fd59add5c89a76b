------------------------------ MODULE Injection ------------------------------
(***************************************************************************)
(* The injection classifier of pkg/bouncer/injection and its dispatcher,   *)
(* as checkInjection of `serve' uses them on every request: the patterns   *)
(* that match a payload add up to its risk, and the first rule that covers *)
(* the risk says what happens to the request.  Requests are classified     *)
(* while others change the patterns, and quarantined payloads lie in files *)
(* until they are too old.                                                 *)
(*                                                                         *)
(* A pattern is known by its number, and pattern n is built from the       *)
(* definition named by DefOf[n]; what it matches is a set of payloads.     *)
(***************************************************************************)
EXTENDS Integers, Sequences, FiniteSets, SequencesExt, FiniteSetsExt

CONSTANTS Scanners,         \* the requests
          Payloads,
          Patterns,         \* the patterns there ever are
          PatternName,      \* [Patterns -> a name]
          Weight,           \* [Patterns -> as it is configured]
          Hits,             \* [Patterns -> the payloads it matches]
          Defaults,         \* the patterns there are at first, in their order, each once
          Configs,          \* each with its policies and its action
          NoPolicies,       \* the policies are not given
          MaxRiskScore,     \* 100
          DefaultWeight     \* 50

ASSUME InjectionAssumption ==
  /\ Defaults \in Seq(Patterns) /\ IsInjective(Defaults) /\ MaxRiskScore \in Nat /\ DefaultWeight \in Nat
  /\ \A p \in Patterns : Weight[p] \in Int /\ Hits[p] \subseteq Payloads

VARIABLES config,       \* the configuration, or <<>> as long as none is loaded
          patterns,     \* the classifier's list
          enabled,      \* the patterns that are enabled
          scan,         \* [Scanners -> what the request has come to]
          swept,        \* sweepOnce is done
          quarantined,  \* the files: what is in them, and whether they are too old
          ever, always  \* [Scanners -> the patterns in force at some and at every moment of it]

injectionVars == <<config, patterns, enabled, scan, swept, quarantined, ever, always>>

NewRequest == [at |-> "new", payload |-> "none", left |-> <<>>, risk |-> 0, answer |-> "none"]

INInit == /\ config = <<>> /\ patterns = Defaults /\ enabled = Range(Defaults)
          /\ scan = [x \in Scanners |-> NewRequest]
          /\ swept = FALSE /\ quarantined = {}
          /\ ever = [x \in Scanners |-> {}] /\ always = [x \in Scanners |-> {}]

\* A weight below zero is not taken as it is.
WeightOf == [p \in Patterns |-> IF Weight[p] < 0 THEN DefaultWeight ELSE Weight[p]]

\* What is in force after a change, for the requests that are being classified.
Note(list, on) ==
  /\ ever' = [x \in Scanners |->
                IF scan[x].at = "classify" THEN ever[x] \cup (Range(list) \cap on) ELSE ever[x]]
  /\ always' = [x \in Scanners |->
                  IF scan[x].at = "classify" THEN always[x] \cap Range(list) \cap on ELSE always[x]]

\* The action of a configuration without policies is for every risk.
RulesOf(c) ==
  IF c.policies # NoPolicies THEN c.policies
  ELSE IF c.action # "" THEN <<[minRisk |-> 1, maxRisk |-> MaxRiskScore, action |-> c.action]>>
  ELSE <<[minRisk |-> 80, maxRisk |-> 100, action |-> "block"],
         [minRisk |-> 50, maxRisk |-> 79, action |-> "quarantine"],
         [minRisk |-> 1, maxRisk |-> 49, action |-> "log"]>>

-----------------------------------------------------------------------------
\* `serve' builds the classifier and the dispatcher before it serves.
BuildClassifier(c) ==
  /\ config = <<>> /\ config' = c
  /\ UNCHANGED <<patterns, enabled, scan, swept, quarantined, ever, always>>

\* A name stands for the first pattern of that name.
FirstNamed(i, name) == /\ PatternName[patterns[i]] = name
                       /\ \A j \in 1 .. i - 1 : PatternName[patterns[j]] # name

\* A pattern, which no request has in its copy, replaces the one of its name or comes last.
AddPattern(p, on) ==
  /\ p \notin Range(patterns) /\ \A x \in Scanners : p \notin Range(scan[x].left)
  /\ \/ \E i \in DOMAIN patterns : /\ FirstNamed(i, PatternName[p])
                                   /\ patterns' = [patterns EXCEPT ![i] = p]
     \/ /\ \A i \in DOMAIN patterns : PatternName[patterns[i]] # PatternName[p]
        /\ patterns' = Append(patterns, p)
  /\ enabled' = IF on THEN enabled \cup {p} ELSE enabled \ {p}
  /\ Note(patterns', enabled') /\ UNCHANGED <<config, scan, swept, quarantined>>

RemovePattern(p) ==
  /\ \E i \in DOMAIN patterns : /\ patterns[i] = p /\ FirstNamed(i, PatternName[p])
                                /\ patterns' = RemoveAt(patterns, i)
  /\ Note(patterns', enabled) /\ UNCHANGED <<config, enabled, scan, swept, quarantined>>

\* A pattern of the list is enabled or disabled, for every classification that has not come to
\* it yet.
SetPattern(p, on) ==
  /\ \E i \in DOMAIN patterns : patterns[i] = p /\ FirstNamed(i, PatternName[p])
  /\ enabled' = IF on THEN enabled \cup {p} ELSE enabled \ {p}
  /\ Note(patterns, enabled') /\ UNCHANGED <<config, patterns, scan, swept, quarantined>>

-----------------------------------------------------------------------------
\* A request with params is classified against the patterns of this moment.
BeginClassify(x, payload) ==
  /\ config # <<>> /\ scan[x].at = "new"
  /\ scan' = [scan EXCEPT ![x] = [@ EXCEPT !.at = "classify", !.payload = payload,
                                           !.left = patterns]]
  /\ ever' = [ever EXCEPT ![x] = Range(patterns) \cap enabled]
  /\ always' = [always EXCEPT ![x] = Range(patterns) \cap enabled]
  /\ UNCHANGED <<config, patterns, enabled, swept, quarantined>>

\* The next pattern of the copy counts if it is still enabled and matches.
TryPattern(x) ==
  /\ scan[x].at = "classify" /\ scan[x].left # <<>>
  /\ LET p == Head(scan[x].left)
         w == IF p \in enabled /\ scan[x].payload \in Hits[p] THEN WeightOf[p] ELSE 0
     IN scan' = [scan EXCEPT ![x].left = Tail(@), ![x].risk = @ + w]
  /\ UNCHANGED <<config, patterns, enabled, swept, quarantined, ever, always>>

Covers(rule, risk) == risk >= rule.minRisk /\ (rule.maxRisk = 0 \/ risk <= rule.maxRisk)

\* The first rule that covers the risk decides; a gap between the rules logs.
RuleFor(c, risk) ==
  LET covering == SelectSeq(RulesOf(c), LAMBDA r : Covers(r, risk))
  IN IF covering = <<>> THEN "log" ELSE Head(covering).action

\* All patterns are tried: a payload without risk is sent on, any other is dispatched.
Dispatch(x) ==
  /\ scan[x].at = "classify" /\ scan[x].left = <<>>
  /\ LET risk == IF scan[x].risk > MaxRiskScore THEN MaxRiskScore ELSE scan[x].risk
         action == IF risk = 0 THEN "log" ELSE RuleFor(config, risk)
     IN scan' = [scan EXCEPT ![x] =
                   [@ EXCEPT !.risk = risk,
                             !.at = IF action = "quarantine" THEN "quarantine" ELSE "done",
                             !.answer = CASE action = "block" -> "refused"
                                          [] action = "redact" -> "redacted"
                                          [] action = "quarantine" -> "none"
                                          [] OTHER -> "forwarded"]]
  /\ UNCHANGED <<config, patterns, enabled, swept, quarantined, ever, always>>

\* Mutant: what cannot be kept is sent on.
QuarantineFailsOpen(x) ==
  /\ scan[x].at \in {"quarantine", "write"}
  /\ scan' = [scan EXCEPT ![x] = [@ EXCEPT !.at = "done", !.answer = "forwarded"]]
  /\ UNCHANGED <<config, patterns, enabled, swept, quarantined, ever, always>>

\* The directory cannot be made, or the file not be written: the request is refused.
QuarantineFails(x) ==
  /\ scan[x].at \in {"quarantine", "write"}
  /\ scan' = [scan EXCEPT ![x] = [@ EXCEPT !.at = "done", !.answer = "refused"]]
  /\ UNCHANGED <<config, patterns, enabled, swept, quarantined, ever, always>>

\* The first quarantine of the process removes the files that are too old.
Sweep(x) ==
  /\ scan[x].at = "quarantine"
  /\ swept' = TRUE
  /\ quarantined' = IF swept THEN quarantined ELSE {f \in quarantined : ~ f.old}
  /\ scan' = [scan EXCEPT ![x] = [@ EXCEPT !.at = "write"]]
  /\ UNCHANGED <<config, patterns, enabled, ever, always>>

\* The payload is in its file, under a name of its own, before its request is answered.
WriteQuarantine(x) ==
  /\ scan[x].at = "write"
  /\ quarantined' = quarantined \cup {[of |-> x, payload |-> scan[x].payload, old |-> FALSE]}
  /\ scan' = [scan EXCEPT ![x] = [@ EXCEPT !.at = "done", !.answer = "quarantined"]]
  /\ UNCHANGED <<config, patterns, enabled, swept, ever, always>>

\* Time passes: a file is past its retention.
Expire(f) ==
  /\ f \in quarantined /\ ~ f.old
  /\ quarantined' = (quarantined \ {f}) \cup {[f EXCEPT !.old = TRUE]}
  /\ UNCHANGED <<config, patterns, enabled, scan, swept, ever, always>>

INNext == \/ \E c \in Configs : BuildClassifier(c)
          \/ \E p \in Patterns, on \in BOOLEAN : AddPattern(p, on) \/ SetPattern(p, on)
          \/ \E p \in Patterns : RemovePattern(p)
          \/ \E x \in Scanners, d \in Payloads : BeginClassify(x, d)
          \/ \E x \in Scanners : TryPattern(x) \/ Dispatch(x) \/ QuarantineFails(x) \/ Sweep(x)
                                 \/ WriteQuarantine(x)
          \/ \E f \in quarantined : Expire(f)

INSpec == INInit /\ [][INNext]_injectionVars

-----------------------------------------------------------------------------
\* What a set of patterns makes of a payload.
RiskOf(set, payload) ==
  Min({MaxRiskScore, MapThenSumSet(LAMBDA p : WeightOf[p], {p \in set : payload \in Hits[p]})})

\* Whatever becomes of the patterns while a request is classified, its risk is no less than
\* that of the patterns in force all along and no more than that of all that ever were.
RiskIsOfItsTime ==
  \A x \in Scanners : scan[x].at \notin {"new", "classify"} =>
    /\ RiskOf(always[x], scan[x].payload) <= scan[x].risk
    /\ scan[x].risk <= RiskOf(ever[x], scan[x].payload)

\* A request is sent on as it came only if a risk it may have had at that time is none or is
\* let through by the rules; nothing that goes wrong in a quarantine lets it through.
NothingRiskyPasses ==
  \A x \in Scanners : scan[x].answer = "forwarded" =>
    \E risk \in RiskOf(always[x], scan[x].payload) .. RiskOf(ever[x], scan[x].payload) :
      risk = 0 \/ RuleFor(config, risk) \notin {"block", "redact", "quarantine"}

\* Who is told that a payload is in quarantine finds it there, as long as the process lives.
QuarantineIsKept ==
  \A x \in Scanners : scan[x].answer = "quarantined" =>
    \E f \in quarantined : f.of = x /\ f.payload = scan[x].payload

InjectionIsSound == RiskIsOfItsTime /\ NothingRiskyPasses /\ QuarantineIsKept
=============================================================================
