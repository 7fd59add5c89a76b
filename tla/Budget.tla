------------------------------- MODULE Budget -------------------------------
(***************************************************************************)
(* pkg/budget: Governor.Deduct for one team and one of its projects, over  *)
(* the counters of BudgetStore and the team's token bucket                 *)
(* (pkg/ratelimit), and the decisions of EvaluateBudget.                   *)
(*                                                                         *)
(* Each counter has a lock of its own, and Deduct takes one after the      *)
(* other.  Days and months pass at any moment; a counter notices when the  *)
(* next deduction looks at it.  The bucket fills up as time passes.  The   *)
(* `granted' variables are what the counters are about: the tokens of the  *)
(* calls that were let through since the day, or the month, began.         *)
(***************************************************************************)
EXTENDS Integers, FiniteSets, FiniteSetsExt

CONSTANTS Payers, Amounts,   \* the calls, and the tokens they may ask for
          Daily, ProjectMonthly, ThresholdPct

ASSUME BudgetAssumption == /\ Daily \in Nat \ {0} /\ ProjectMonthly \in Nat \ {0}
                           /\ Amounts \subseteq Nat /\ ThresholdPct \in Nat \ {0}

VARIABLES bucket, dayOver,          \* dailyBucket; has the day of resetDay passed?
          teamUsed, teamMonthOver,  \* TeamUsage.monthlyUsed, and resetMonth
          used, monthOver,          \* ProjectUsage.monthlyUsed, and resetMonth
          step, tokens,             \* each call: where it is, and its tokens
          grantedToday, teamGranted, granted,
          straddles,                \* a call was between its two deductions when a month ended
          alerted                   \* an alert was attempted since the month began

budgetVars == <<bucket, dayOver, teamUsed, teamMonthOver, used, monthOver, step, tokens,
                grantedToday, teamGranted, granted, straddles, alerted>>

BTypeOK == /\ bucket \in 0..Daily /\ teamUsed \in Nat /\ used \in Nat
           /\ {dayOver, teamMonthOver, monthOver, straddles, alerted} \subseteq BOOLEAN
           /\ step \in [Payers -> {"idle", "team", "project", "refund", "alert"}]
           /\ tokens \in [Payers -> Amounts \cup {0}]
           /\ {grantedToday, teamGranted, granted} \subseteq Nat

BInit == /\ bucket = Daily /\ teamUsed = 0 /\ used = 0
         /\ dayOver = FALSE /\ teamMonthOver = FALSE /\ monthOver = FALSE
         /\ step = [p \in Payers |-> "idle"] /\ tokens = [p \in Payers |-> 0]
         /\ grantedToday = 0 /\ teamGranted = 0 /\ granted = 0
         /\ straddles = FALSE /\ alerted = FALSE

BStep(p, here, there) == step[p] = here /\ step' = [step EXCEPT ![p] = there]
Least(a, b) == IF a < b THEN a ELSE b
Charged == {p \in Payers : step[p] \in {"project", "refund"}}
InFlight == MapThenSumSet(LAMBDA p : tokens[p], Charged)
teamCounters == <<bucket, dayOver, teamUsed, teamMonthOver>>
grants == <<grantedToday, teamGranted, granted>>

-----------------------------------------------------------------------------
\* Deduct: a first look at the project's counter, as the last deduction left it ...
Check(p) == /\ \E n \in Amounts : /\ used + n <= ProjectMonthly
                                  /\ tokens' = [tokens EXCEPT ![p] = n]
            /\ BStep(p, "idle", "team")
            /\ UNCHANGED <<teamCounters, used, monthOver, grants, straddles, alerted>>

\* ... then the team pays, or the call is refused ...
DeductTeam(p) ==
  LET day == IF dayOver THEN Daily ELSE bucket
      month == IF teamMonthOver THEN 0 ELSE teamUsed
      pays == tokens[p] <= day
  IN  /\ BStep(p, "team", IF pays THEN "project" ELSE "idle")
      /\ bucket' = IF pays THEN day - tokens[p] ELSE day
      /\ teamUsed' = IF pays THEN month + tokens[p] ELSE month
      /\ dayOver' = FALSE /\ teamMonthOver' = FALSE
      /\ UNCHANGED <<used, monthOver, tokens, grants, straddles, alerted>>

\* Mutant: the limit is left to the first look.
DeductUnchecked(p) == /\ BStep(p, "project", "alert")
                      /\ used' = (IF monthOver THEN 0 ELSE used) + tokens[p] /\ monthOver' = FALSE
                      /\ granted' = granted + tokens[p] /\ teamGranted' = teamGranted + tokens[p]
                      /\ grantedToday' = grantedToday + tokens[p]
                      /\ UNCHANGED <<teamCounters, tokens, straddles, alerted>>

\* ... and the project, whose counter is compared with the limit under its lock.
DeductProject(p) ==
  LET month == IF monthOver THEN 0 ELSE used
      pays == month + tokens[p] <= ProjectMonthly
  IN  /\ BStep(p, "project", IF pays THEN "alert" ELSE "refund")
      /\ used' = IF pays THEN month + tokens[p] ELSE month
      /\ monthOver' = FALSE
      /\ IF pays THEN /\ granted' = granted + tokens[p] /\ teamGranted' = teamGranted + tokens[p]
                      /\ grantedToday' = grantedToday + tokens[p]
                 ELSE UNCHANGED grants
      /\ UNCHANGED <<teamCounters, tokens, straddles, alerted>>

\* Mutant: the refund forgets the bucket of the day.
RefundMonth(p) == /\ BStep(p, "refund", "idle")
                  /\ teamUsed' = IF teamUsed < tokens[p] THEN 0 ELSE teamUsed - tokens[p]
                  /\ UNCHANGED <<bucket, dayOver, teamMonthOver, used, monthOver, tokens, grants, straddles, alerted>>

\* A refused project gives the team its tokens back.
RefundTeam(p) == /\ BStep(p, "refund", "idle")
                 /\ teamUsed' = IF teamUsed < tokens[p] THEN 0 ELSE teamUsed - tokens[p]
                 /\ bucket' = Least(bucket + tokens[p], Daily)
                 /\ UNCHANGED <<dayOver, teamMonthOver, used, monthOver, tokens, grants, straddles, alerted>>

\* CheckProjectThreshold, and the webhook, which may fail.
OverThreshold == used * 100 >= ThresholdPct * ProjectMonthly
CheckThreshold(p) == /\ BStep(p, "alert", "idle")
                     /\ alerted' = (alerted \/ OverThreshold)
                     /\ UNCHANGED <<teamCounters, used, monthOver, tokens, grants, straddles>>

\* The bucket fills up; a day (of UTC) or a month (of the local time) ends.
Refill == /\ bucket < Daily /\ bucket' = bucket + 1
          /\ UNCHANGED <<dayOver, teamUsed, teamMonthOver, used, monthOver, step, tokens, grants, straddles, alerted>>
NewDay == /\ dayOver' = TRUE /\ grantedToday' = 0
          /\ UNCHANGED <<bucket, teamUsed, teamMonthOver, used, monthOver, step, tokens,
                         teamGranted, granted, straddles, alerted>>
NewMonth == /\ grantedToday <= granted  \* one month at most ends in a day
            /\ teamMonthOver' = TRUE /\ monthOver' = TRUE
            /\ teamGranted' = 0 /\ granted' = 0 /\ alerted' = FALSE
            /\ straddles' = (Charged # {})
            /\ UNCHANGED <<bucket, dayOver, teamUsed, used, step, tokens, grantedToday>>

BNext == \/ \E p \in Payers : \/ Check(p) \/ DeductTeam(p) \/ DeductProject(p)
                              \/ RefundTeam(p) \/ CheckThreshold(p)
         \/ Refill \/ NewDay \/ NewMonth
BSpec == BInit /\ [][BNext]_budgetVars

-----------------------------------------------------------------------------

\* EvaluateBudget, from the tokens that remain of the day and those used in the month,
\* for a team with these limits (0 is no limit); `soft' is a percentage.
EvaluateBudget(remaining, monthUsed, daily, monthly, soft, hardCap) ==
  LET soon == \/ daily > 0 /\ (daily - remaining) * 100 >= soft * daily
              \/ monthly > 0 /\ monthUsed * 100 >= soft * monthly
  IN  IF (daily > 0 /\ remaining <= 0) \/ (monthly > 0 /\ monthUsed >= monthly) THEN "reject"
      ELSE IF ~soon THEN "allow" ELSE IF hardCap THEN "reject" ELSE "downgrade"

Severity(d) == CASE d = "allow" -> 0 [] d = "downgrade" -> 1 [] d = "reject" -> 2

-----------------------------------------------------------------------------
\* However the calls overlap and wherever a month ends among their steps, the calls let
\* through since it began stay within the project's budget, and the counter is exact.
ProjectWithinBudget ==
  /\ granted <= ProjectMonthly
  /\ used = granted \/ monthOver

\* A refused call costs the team nothing: its month counts what was granted and what is
\* in flight, unless a call was caught between its deductions when the month ended; and
\* no more than that is missing from the bucket of the day.
RefusalsAreFree ==
  /\ straddles \/ teamMonthOver \/ teamUsed = teamGranted + InFlight
  /\ dayOver \/ bucket >= Daily - (grantedToday + InFlight)

\* When no call is under way and the project is over the threshold, somebody has been
\* alerted since the month began.
OverThresholdIsAlerted ==
  (\A p \in Payers : step[p] = "idle") /\ ~monthOver /\ OverThreshold => alerted

\* The accounts agree with the calls, and so do the alerts.
AccountsAreExact == RefusalsAreFree /\ OverThresholdIsAlerted

\* Using more never makes a decision milder.
StricterWithUse ==
  \A r1, r2 \in 0..Daily, u1, u2 \in 0..ProjectMonthly + 1, soft \in {0, 50, 90, 100},
     d \in {0, Daily}, m \in {0, ProjectMonthly}, h \in BOOLEAN :
    r1 <= r2 /\ u1 >= u2 =>
      Severity(EvaluateBudget(r1, u1, d, m, soft, h)) >= Severity(EvaluateBudget(r2, u2, d, m, soft, h))

\* What docs/budget.md says of the months: a call is not refused for what was used in
\* an earlier one.
CalendarMonth == \A n \in Amounts : granted = 0 /\ n <= ProjectMonthly => used + n <= ProjectMonthly

=============================================================================
