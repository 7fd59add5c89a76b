--------------------------- MODULE CircuitBreaker ---------------------------
(***************************************************************************)
(* The circuit breaker of pkg/concurrent/circuit.go, and the callers who   *)
(* ask it, make their calls and report how they went.  The mutex makes     *)
(* each method atomic, except State: it looks at the breaker under the     *)
(* read lock and half-opens it later, under the write lock.                *)
(*                                                                         *)
(* `age' is the time since lastFailure in ticks, up to Cooldown: nothing   *)
(* tells longer times apart, and a breaker that never failed (the zero     *)
(* time) is older than any cool-down.  For the same reason `failures'      *)
(* stops at Threshold.  State reads the clock when it reads the breaker.   *)
(***************************************************************************)
EXTENDS Naturals

CONSTANTS Callers, Threshold, HalfOpenMax, Cooldown

ASSUME BreakerAssumption == /\ Threshold \in Nat \ {0}
                            /\ HalfOpenMax \in Nat \ {0}
                            /\ Cooldown \in Nat

VARIABLES cb,     \* the fields under the mutex
          age,    \* the age of lastFailure
          asks    \* what each caller is doing: "out", "lapsed" (it saw the
                  \* cool-down over, and has yet to half-open), or "in"

cbVars == <<cb, age, asks>>

Breaker == [state : {"closed", "open", "halfOpen"},
            failures : 0..Threshold, successes : 0..HalfOpenMax]

Fresh == [state |-> "closed", failures |-> 0, successes |-> 0]

CBTypeOK == /\ cb \in Breaker
            /\ age \in 0..Cooldown
            /\ asks \in [Callers -> {"out", "lapsed", "in"}]

CBInit == cb = Fresh /\ age = Cooldown /\ asks = [c \in Callers |-> "out"]

-----------------------------------------------------------------------------
\* What State answers: a breaker that is open refuses until its cool-down.
Refuses == cb.state = "open" /\ age < Cooldown
Lapsed == cb.state = "open" /\ age >= Cooldown

Ask(c) == /\ asks[c] = "out"
          /\ ~Refuses
          /\ asks' = [asks EXCEPT ![c] = IF Lapsed THEN "lapsed" ELSE "in"]
          /\ UNCHANGED <<cb, age>>

\* Mutant: State does not look again under the write lock.
HalfOpenBlindly(c) == /\ asks[c] = "lapsed"
                      /\ cb' = [cb EXCEPT !.state = "halfOpen"]
                      /\ asks' = [asks EXCEPT ![c] = "in"]
                      /\ UNCHANGED age

\* The second half of State: whatever has happened since, an open breaker
\* becomes half open, and the caller is let through.
HalfOpen(c) == /\ asks[c] = "lapsed"
               /\ cb' = IF cb.state = "open"
                        THEN [state |-> "halfOpen", failures |-> cb.failures, successes |-> 0]
                        ELSE cb
               /\ asks' = [asks EXCEPT ![c] = "in"]
               /\ UNCHANGED age

Succeeded ==
  CASE cb.state = "halfOpen" /\ cb.successes + 1 >= HalfOpenMax -> Fresh
    [] cb.state = "halfOpen" /\ cb.successes + 1 < HalfOpenMax ->
         [cb EXCEPT !.successes = @ + 1]
    [] cb.state = "closed" -> [cb EXCEPT !.failures = 0]
    [] OTHER -> cb

Failed == LET n == IF cb.failures < Threshold THEN cb.failures + 1 ELSE Threshold
              trips == cb.state = "halfOpen" \/ n >= Threshold
          IN  [state |-> IF trips THEN "open" ELSE cb.state, failures |-> n,
               successes |-> IF cb.state = "halfOpen" THEN 0 ELSE cb.successes]

Leave(c) == asks[c] = "in" /\ asks' = [asks EXCEPT ![c] = "out"]

RecordSuccess(c) == Leave(c) /\ cb' = Succeeded /\ UNCHANGED age
RecordFailure(c) == Leave(c) /\ cb' = Failed /\ age' = 0
\* The call ends and nobody reports it.
Unreported(c) == Leave(c) /\ UNCHANGED <<cb, age>>

Reset == cb' = Fresh /\ age' = Cooldown /\ UNCHANGED asks
BreakerTick == age < Cooldown /\ age' = age + 1 /\ UNCHANGED <<cb, asks>>

CBNext == \/ \E c \in Callers : \/ Ask(c) \/ HalfOpen(c) \/ Unreported(c)
                                \/ RecordSuccess(c) \/ RecordFailure(c)
          \/ Reset
          \/ BreakerTick

CBSpec == CBInit /\ [][CBNext]_cbVars

Report(c) == RecordSuccess(c) \/ RecordFailure(c)

-----------------------------------------------------------------------------
\* The breaker is closed exactly while it has counted fewer failures than its
\* threshold, in whatever order stale half-openings, late reports and resets
\* arrive; and successes are counted only by a half-open breaker, which closes
\* before they reach the maximum.
TripsOnCount == /\ cb.state = "closed" <=> cb.failures < Threshold
                /\ cb.successes > 0 => cb.state = "halfOpen"
                /\ cb.successes < HalfOpenMax

\* When callers keep asking, State and the calls return, and time passes, an open
\* breaker lets somebody through in the end: asking does not renew the cool-down, and
\* only calls that were let in before it opened can.
OpenLapses == cb.state = "open" ~> cb.state # "open"
=============================================================================
