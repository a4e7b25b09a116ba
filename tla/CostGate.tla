------------------------------ MODULE CostGate ------------------------------
(***************************************************************************)
(* What one command tells a CI job, from what its plans really cost to its *)
(* exit code: the policy is read, the plans are priced as far as that      *)
(* succeeds, the reports are compared and judged, and something is shown   *)
(* (cmd/cloudtab/main.go).  How the resources get priced is the matter of  *)
(* ReportPipeline and QueryEngine; here any of them may fail to.           *)
(***************************************************************************)
EXTENDS CostPolicy

CONSTANTS
    Commands,   \* "breakdown", "diff"
    Settings,   \* what a user may set: at most one file, and flags
    Bills       \* what a resource may really cost

\* The components of a bill.
Lines == [currency : DOMAIN Normal \ {Blank}, monthly : 0..MaxFinite]

ASSUME GateAssumption ==
    /\ Commands \subseteq {"breakdown", "diff"}
    /\ Bills \subseteq Seq(Lines) \ {<<>>}
    /\ \A s \in Settings :
        /\ s.flags \in Flags
        /\ \A f \in s.file : \E written \in SUBSET DOMAIN Normal : f \in Policies(written)
        /\ \A f, g \in s.file : f = g

VARIABLES
    command, setting,
    truth,      \* what the resources of the two plans really cost
    stage,      \* the step the command is at
    policy,     \* the policy, if any
    report,     \* the two reports; a breakdown has only "after"
    violations,
    shown,      \* what has been printed, if anything
    exit        \* the exit code, Running before the end

inputs == <<command, setting, truth>>
vars == <<inputs, stage, policy, report, violations, shown, exit>>

Running == -1
Sides == {"before", "after"}
NoPlan == [a \in Addresses |-> Absent]
Plans == [Addresses -> {Absent} \cup {Priced(bill) : bill \in Bills}]

Init ==
    /\ command \in Commands /\ setting \in Settings
    /\ truth \in [Sides -> Plans]
    /\ command = "breakdown" => truth["before"] = NoPlan
    /\ stage = "policy" /\ policy = {}
    /\ report = [s \in Sides |-> NoPlan]
    /\ violations = {} /\ shown = {} /\ exit = Running

Fail ==
    /\ exit' = 1 /\ stage' = "over"
    /\ UNCHANGED <<inputs, policy, report, violations, shown>>

-----------------------------------------------------------------------------
LoadPolicy ==
    /\ stage = "policy"
    /\ \/ /\ ~Asked(setting.file, setting.flags)
          /\ stage' = "price" /\ UNCHANGED <<inputs, policy, report, violations, shown, exit>>
       \/ /\ Asked(setting.file, setting.flags) /\ Loads(setting.file, setting.flags)
          /\ policy' = {Normalized(Merged(setting.file, setting.flags))}
          /\ stage' = "price" /\ UNCHANGED <<inputs, report, violations, shown, exit>>
       \/ /\ Asked(setting.file, setting.flags) /\ ~Loads(setting.file, setting.flags)
          /\ Fail

\* Any of the resources may be left without a price: it is skipped, or the run
\* fails under --fail-on-error.  A report with an infinite sum fails as well.
Price ==
    /\ stage = "price"
    /\ \E missed \in SUBSET {m \in Sides \X Addresses : truth[m[1]][m[2]] # Absent} :
        LET priced == [s \in Sides |-> [a \in Addresses |->
                         IF <<s, a>> \in missed THEN Skipped ELSE truth[s][a]]]
            finite == \A s \in Sides : ValidateFiniteReport(priced[s])
        IN  \/ /\ finite
               /\ report' = priced /\ stage' = "judge"
               /\ UNCHANGED <<inputs, policy, violations, shown, exit>>
            \/ (missed # {} \/ ~finite) /\ Fail

\* ComputeDiffChecked and the policy; the policy adds up what differs in
\* spelling only, and may find an infinite sum that Price has not.
Judge ==
    LET before == report["before"] after == report["after"]
        evaluated == /\ command = "diff" => \A s \in Sides : ValidateFiniteReport(report[s])
                     /\ policy # {} => \A s \in Sides : Aggregates(report[s])
    IN  /\ stage = "judge"
        /\ \/ /\ evaluated
              /\ violations' = UNION {IF command = "diff" THEN EvaluateDiff(p, before, after)
                                      ELSE EvaluateBreakdown(p, after) : p \in policy}
              /\ stage' = "render" /\ UNCHANGED <<inputs, policy, report, shown, exit>>
           \/ ~evaluated /\ Fail

\* The policy decides only after something was shown.  (A breakdown is checked
\* once more before it is rendered, as in Price.)
Render ==
    /\ stage = "render"
    /\ shown' = {IF command = "diff" THEN ComputeDiff(report["before"], report["after"])
                 ELSE Footer(report["after"])}
    /\ exit' = IF violations = {} THEN 0 ELSE 2
    /\ stage' = "over" /\ UNCHANGED <<inputs, policy, report, violations>>

Next == LoadPolicy \/ Price \/ Judge \/ Render
Spec == Init /\ [][Next]_vars

-----------------------------------------------------------------------------
(* What a job may rely on. *)

Diffs == {d \in shown : command = "diff"}
Footers == {f \in shown : command = "breakdown"}
EverythingPriced == \A s \in Sides : SkippedIn(report[s]) = {}

\* A total is only printed when it is the real one: neither a resource that
\* was not priced nor a second currency can be behind it.
TotalIsTrue ==
    /\ \A d \in Diffs : TotalLine(d) = "total" =>
        /\ d.before = Total(truth["before"]) /\ d.after = Total(truth["after"])
        /\ CurrenciesIn(truth["before"]) \cup CurrenciesIn(truth["after"]) = {d.currency}
        /\ \A x \in DOMAIN d.resources : ~d.resources[x].uncertain
    /\ \A f \in Footers : f.label = "total" => \A amount \in f.amount :
        /\ amount = Total(truth["after"])
        /\ Cardinality(CurrenciesIn(truth["after"])) <= 1

\* A row that is not marked uncertain tells what really happens to the
\* resource: a failure to price it is never an addition, a removal or a saving.
\* And the rows add up to the total, although they are worked out from the
\* resources and it from the reports.
RowsAreTrue ==
    \A d \in Diffs :
        /\ \A x \in DOMAIN d.resources :
            LET b == truth["before"][x] a == truth["after"][x] IN
            ~d.resources[x].uncertain =>
                /\ d.resources[x].kind = "+" <=> b = Absent
                /\ d.resources[x].kind = "-" <=> a = Absent
                /\ d.resources[x].delta = Monthly(a.bill) - Monthly(b.bill)
        /\ TotalLine(d) = "total" =>
            d.delta = SumFunction([x \in DOMAIN d.resources |-> d.resources[x].delta])

\* What the user has set for a currency, in a flag or else in the file, in
\* any spelling.
Stated(field, c) ==
    LET flagged == Threshold(setting.flags[field], c) IN
    IF flagged # {} THEN flagged
    ELSE UNION {f.limits[raw][field] : f \in setting.file,
                    raw \in UNION {{r \in DOMAIN g.limits : Normal[r] = c} : g \in setting.file}}
StatedSetting(field) ==
    IF setting.flags[field] # {} THEN setting.flags[field] ELSE UNION {f[field] : f \in setting.file}
MustBeComplete == StatedSetting("failOnSkipped") = {TRUE} \/ StatedSetting("minCoverage") = {100}

\* What a plan really costs in a currency.
Cost(side, c) ==
    SumFunction([a \in Addresses |->
        LET bill == truth[side][a].bill IN
        SumFunction([i \in {j \in DOMAIN bill : Normal[bill[j].currency] = c} |-> bill[i].monthly])])

\* The exit code is the truth.  0 means that what the user stated is really so:
\* when everything was priced, or has to be, the plans keep to every limit in
\* every currency.  2 means that something stated is really not so: a limit is
\* broken, the report is not complete, or there is nothing to compare with.
VerdictIsTrue ==
    /\ exit = 0 =>
        /\ MustBeComplete => EverythingPriced
        /\ EverythingPriced => \A c \in DOMAIN Normal \ {Blank} :
            /\ \A limit \in Stated("total", c) : Cost("after", c) <= limit
            /\ \A limit \in Stated("increase", c) :
                /\ command = "diff"
                /\ Cost("after", c) - Cost("before", c) <= limit
    /\ exit = 2 /\ EverythingPriced =>
        \E c \in DOMAIN Normal \ {Blank} :
            \/ \E limit \in Stated("total", c) : Cost("after", c) > limit
            \/ \E limit \in Stated("increase", c) :
                \/ command = "breakdown"
                \/ Cost("after", c) - Cost("before", c) > limit

\* No number that is shown is infinite.
ShownIsFinite ==
    /\ \A f \in Footers : \A amount \in f.amount : Finite(amount)
    /\ \A d \in Diffs :
        /\ Finite(d.before) /\ Finite(d.after)
        /\ \A x \in DOMAIN d.resources : Finite(d.resources[x].before) /\ Finite(d.resources[x].after)
        /\ \A c \in DOMAIN d.byCurrency : Finite(d.byCurrency[c])

=============================================================================
