----------------------------- MODULE CostPolicy -----------------------------
(***************************************************************************)
(* The cost policy (policy/config.go, policy/evaluate.go) and how a policy *)
(* file and flags make one (cmd/cloudtab/policy_cli.go).                   *)
(*                                                                         *)
(* An optional setting is the set of its value: {} when it is not there.   *)
(* Limits are a function on the currencies that have any, as they are      *)
(* written in a file and normalized (trimmed, upper case) in a valid one.  *)
(* A coverage is in percent.                                               *)
(***************************************************************************)
EXTENDS PlanDiff, TLC

CONSTANTS
    Normal,         \* normalizeCurrency, on every spelling of a currency that occurs
    CurrentVersion

ASSUME PolicyAssumption ==
    /\ CurrentVersion \in Int /\ IsFiniteSet(DOMAIN Normal)
    /\ \A c \in DOMAIN Normal : Normal[c] \in DOMAIN Normal /\ Normal[Normal[c]] = Normal[c]
    /\ Blank \in DOMAIN Normal /\ Normal[Blank] = Blank

\* The policies with limits on these spellings.
Policies(written) ==
    [version : Int, limits : [written -> [total : SUBSET Int, increase : SUBSET Int]],
     failOnSkipped : SUBSET BOOLEAN, minCoverage : SUBSET Int]

NoLimits == [x \in {} |-> x]
EmptyPolicy == [version |-> CurrentVersion, limits |-> NoLimits, failOnSkipped |-> {}, minCoverage |-> {}]

Amounts(limits) == limits.total \cup limits.increase

\* Some rule can fail.
Active(policy) ==
    \/ DOMAIN policy.limits # {}
    \/ policy.failOnSkipped = {TRUE}
    \/ \E c \in policy.minCoverage : c > 0

\* Validate, as a condition.
Valid(policy) ==
    /\ policy.version = CurrentVersion
    /\ \A c \in DOMAIN policy.limits :
        /\ Normal[c] # Blank
        /\ Amounts(policy.limits[c]) # {}
        /\ Amounts(policy.limits[c]) \subseteq 0..MaxFinite
        /\ \A other \in DOMAIN policy.limits : Normal[other] = Normal[c] => other = c
    /\ policy.minCoverage \subseteq 0..100
    /\ Active(policy)

\* Validate, as what it returns.
Normalized(policy) ==
    [policy EXCEPT !.limits =
        [c \in {Normal[raw] : raw \in DOMAIN policy.limits} |->
            policy.limits[CHOOSE raw \in DOMAIN policy.limits : Normal[raw] = c]]]

-----------------------------------------------------------------------------
(* The policy of a run: a file, if any, and flags over it.  Flags are       *)
(* [total, increase] sequences of [currency, amount], and two optional      *)
(* settings.                                                                *)

Thresholds == Seq([currency : DOMAIN Normal, amount : Int])
Flags == [total : Thresholds, increase : Thresholds,
          failOnSkipped : SUBSET BOOLEAN, minCoverage : SUBSET Int]

Asked(file, flags) ==
    \/ file # {}
    \/ flags.total # <<>> \/ flags.increase # <<>>
    \/ flags.failOnSkipped # {} \/ flags.minCoverage # {}

\* No blank and no repeated currency in the values of one flag.
ThresholdsOK(values) ==
    \A i \in DOMAIN values :
        /\ Normal[values[i].currency] # Blank
        /\ \A j \in DOMAIN values : Normal[values[i].currency] = Normal[values[j].currency] => i = j

\* What a flag says of a normalized currency.
Threshold(values, c) == {values[i].amount : i \in {j \in DOMAIN values : Normal[values[j].currency] = c}}

OverriddenBy(old, new) == IF new = {} THEN old ELSE new

\* applyCurrencyThresholds, for both flags.
WithThresholds(limits, flags) ==
    LET named == {Normal[flags.total[i].currency] : i \in DOMAIN flags.total}
                   \cup {Normal[flags.increase[i].currency] : i \in DOMAIN flags.increase}
        old(c) == IF c \in DOMAIN limits THEN limits[c] ELSE [total |-> {}, increase |-> {}]
    IN  [c \in DOMAIN limits \cup named |->
            [total |-> OverriddenBy(old(c).total, Threshold(flags.total, c)),
             increase |-> OverriddenBy(old(c).increase, Threshold(flags.increase, c))]]

Merged(file, flags) ==
    LET base == IF file = {} THEN EmptyPolicy ELSE Normalized(CHOOSE f \in file : TRUE)
    IN  [base EXCEPT !.limits = WithThresholds(@, flags),
                     !.failOnSkipped = OverriddenBy(@, flags.failOnSkipped),
                     !.minCoverage = OverriddenBy(@, flags.minCoverage)]

\* loadPolicyConfig, as a condition: the file has to be valid by itself.
Loads(file, flags) ==
    /\ \A f \in file : Valid(f)
    /\ ThresholdsOK(flags.total) /\ ThresholdsOK(flags.increase)
    /\ Valid(Merged(file, flags))

-----------------------------------------------------------------------------
(* Evaluation. *)

\* The totals of one spelling.
Aggregate_Bug(r, c) == TotalIn(r, c)

\* aggregate: the total of a currency, whatever its spelling.
Aggregate(r, c) == SumFunction([raw \in {s \in DOMAIN Normal : Normal[s] = c} |-> TotalIn(r, raw)])

\* aggregate, as a condition.
Aggregates(r) ==
    /\ \A a \in PricedIn(r) : \A i \in DOMAIN r[a].bill :
        Normal[r[a].bill[i].currency] = Blank => r[a].bill[i].monthly = 0
    /\ \A c \in DOMAIN Normal \ {Blank} : Finite(Aggregate(r, c))

Violation(rule, scope, c) == [rule |-> rule, scope |-> scope, currency |-> c]

\* exceeds: the currencies whose amount is over a limit.
Exceeded(limit, actual) == {c \in DOMAIN limit : \E l \in limit[c] : actual[c] > l}

MaxTotalViolations(policy, scope, r) ==
    {Violation("max_total", scope, c) :
        c \in Exceeded([c \in DOMAIN policy.limits |-> policy.limits[c].total],
                       [c \in DOMAIN policy.limits |-> Aggregate(r, c)])}

IncreaseViolations(policy, before, after) ==
    {Violation("max_monthly_increase", "diff", c) :
        c \in Exceeded([c \in DOMAIN policy.limits |-> policy.limits[c].increase],
                       [c \in DOMAIN policy.limits |-> Aggregate(after, c) - Aggregate(before, c)])}

\* Without a report to compare with, the rule fails.
BaselineRequired(policy) ==
    {Violation("max_monthly_increase", "current", c) :
        c \in {d \in DOMAIN policy.limits : policy.limits[d].increase # {}}}

\* appendSkippedViolations and appendCoverageViolations; an empty report is
\* covered.
ReportViolations(policy, scope, r) ==
    LET priced == Cardinality(PricedIn(r))
        all == priced + Cardinality(SkippedIn(r))
    IN  {Violation("fail_on_skipped", scope, Blank) :
            on \in {v \in policy.failOnSkipped : v /\ SkippedIn(r) # {}}}
        \cup {Violation("min_coverage", scope, Blank) :
            limit \in {l \in policy.minCoverage : all # 0 /\ 100 * priced < l * all}}

EvaluateBreakdown(policy, r) ==
    MaxTotalViolations(policy, "current", r) \cup BaselineRequired(policy)
        \cup ReportViolations(policy, "current", r)

EvaluateDiff(policy, before, after) ==
    MaxTotalViolations(policy, "after", after) \cup IncreaseViolations(policy, before, after)
        \cup ReportViolations(policy, "before", before) \cup ReportViolations(policy, "after", after)
=============================================================================
