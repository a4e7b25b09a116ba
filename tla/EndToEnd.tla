------------------------------ MODULE EndToEnd ------------------------------
(***************************************************************************)
(* The end-to-end test of Tencent Cloud (e2etest/tencentcloud/run.go): the *)
(* products that were selected are tested one after the other.  Terraform  *)
(* makes a plan for each, every resource of it takes the way of Quotes to  *)
(* its price, and the judge of the product (Validators) compares that with *)
(* the raw answer.  A product gets a status and a report, and the program  *)
(* an exit code.                                                           *)
(*                                                                         *)
(* What the test is there to find is a mapper that reads an answer wrong   *)
(* (the coupling note of validators.go).  Misread is such a mapper: it     *)
(* makes components that differ from what the mapper of today makes.       *)
(***************************************************************************)
EXTENDS Quotes, Validators

CONSTANTS
    Selections,    \* the sets of products that are asked for
    Trials         \* [product -> what its plan may hold: sequences of resources]

\* What is planned for a product is a sequence of resources.
ASSUME TrialsAssumption ==
    \A i \in DOMAIN AllTestCases : \A resources \in Trials[AllTestCases[i]] :
        /\ resources \in Seq({resources[j] : j \in DOMAIN resources})
        /\ \A j \in DOMAIN resources : HasNumbers(resources[j])

VARIABLES
    todo,        \* numbers of the test cases that have not ended
    left,        \* its resources that have not been priced
    verdicts,    \* the statuses of the checks of the resource
    checks,      \* those of the resources so far
    status,      \* the status of the product so far
    met,         \* ghost: what its resources came to
    report,      \* the last product that ended: [status, conclusion, met]
    engine,      \* there are credentials, so there is an engine
    hasFail,     \* a check of a product failed
    exit         \* the exit code, -1 while running

pricing == <<plan, site, request, answer, fault, due, quote>>
test == <<todo, left, verdicts, checks, status, met, report, engine, hasFail, exit>>

\* A type that has no mapper.
Unmapped == {"tencentcloud_dcdb_account"}

\* The product under test, the first that has not ended.
Tested == AllTestCases[Min(todo)]

InitTest ==
    /\ plan = <<>> /\ site = "domestic" /\ stage = "start"
    /\ request = <<>> /\ answer = <<>> /\ quote = <<>>
    /\ fault = "none" /\ due = [amount |-> 0, currency |-> ""]
    /\ todo = {} /\ left = <<>> /\ verdicts = {} /\ checks = {}
    /\ status = "" /\ met = {} /\ report = <<>>
    /\ engine \in BOOLEAN
    /\ hasFail = FALSE /\ exit = -1

-----------------------------------------------------------------------------
(* The products. *)

\* main: without a selection, or with credentials no engine takes, it ends.
Start ==
    /\ stage = "start"
    /\ \/ \E names \in Selections :
            /\ todo' = {i \in DOMAIN AllTestCases : AllTestCases[i] \in names}
            /\ stage' = "product" /\ UNCHANGED exit
       \/ exit' = 2 /\ stage' = "over" /\ UNCHANGED todo
       \/ engine /\ exit' = 1 /\ stage' = "over" /\ UNCHANGED todo
    /\ UNCHANGED <<pricing, left, verdicts, checks, status, met, report, engine, hasFail>>

EndProduct(as, conclusion) ==
    /\ report' = [status |-> as, conclusion |-> conclusion, met |-> met]
    /\ todo' = todo \ {Min(todo)}
    /\ stage' = "product"

\* Terraform does not know the type, or fails; there is no plan, or none that
\* loads, or no resource of the product in it.
AbandonProduct ==
    /\ stage = "product" /\ todo # {}
    /\ \E as \in {"MANUAL", "SKIP"} : EndProduct(as, "none")
    /\ UNCHANGED <<pricing, left, verdicts, checks, status, met, engine, hasFail, exit>>

\* The resources that are of a type of the product.
ResourcesOf(name, resources) ==
    LET own[n \in 0..Len(resources)] ==
            IF n = 0 THEN <<>>
            ELSE IF resources[n].type \in ResourceTypes[name] THEN Append(own[n - 1], resources[n])
            ELSE own[n - 1]
    IN  own[Len(resources)]

StartProduct ==
    /\ stage = "product" /\ todo # {}
    /\ \E resources \in Trials[Tested] : left' = ResourcesOf(Tested, resources)
    /\ left' # <<>>
    /\ status' = "ALL_PASS" /\ checks' = {} /\ met' = {}
    /\ stage' = "next"
    /\ UNCHANGED <<pricing, todo, verdicts, report, engine, hasFail, exit>>

\* The status after the checks: a suspicious one comes over a status the
\* resources left, and over a failed check.
FinalStatus_Bug ==
    CASE "SUSPICIOUS" \in checks -> "HAS_SUSPICIOUS"
      [] "SUSPICIOUS" \notin checks /\ "FAIL" \in checks -> "HAS_FAIL"
      [] OTHER -> status

\* The status after the checks, which come over the one the resources left.
FinalStatus ==
    CASE "FAIL" \in checks -> "HAS_FAIL"
      [] "FAIL" \notin checks /\ "SUSPICIOUS" \in checks -> "HAS_SUSPICIOUS"
      [] OTHER -> status

\* generateReport
Conclusion ==
    CASE "FAIL" \in checks -> "failed"
      [] "FAIL" \notin checks /\ "SUSPICIOUS" \in checks -> "suspicious"
      [] OTHER -> "all passed"

FinishProduct ==
    /\ stage = "next" /\ left = <<>>
    /\ EndProduct(FinalStatus, Conclusion)
    /\ hasFail' = (hasFail \/ "FAIL" \in checks)
    /\ status' = "" /\ checks' = {} /\ met' = {}
    /\ UNCHANGED <<pricing, left, verdicts, engine, exit>>

\* printSummary, and the end of main.
Summarise ==
    /\ stage = "product" /\ todo = {}
    /\ exit' = IF hasFail THEN 1 ELSE 0
    /\ stage' = "over"
    /\ UNCHANGED <<pricing, todo, left, verdicts, checks, status, met, report, engine, hasFail>>

-----------------------------------------------------------------------------
(* A resource. *)

StartResource ==
    /\ stage = "next" /\ left # <<>> /\ Head(left).type \notin Unmapped
    /\ plan' = Head(left)
    /\ stage' = "planned"
    /\ UNCHANGED <<site, request, answer, fault, due, quote, test>>

\* The loop goes on with the next resource.
EndResource(as, came) ==
    /\ status' = as
    /\ met' = met \cup {came}
    /\ left' = Tail(left)
    /\ stage' = "next"
    /\ plan' = <<>> /\ request' = <<>> /\ answer' = <<>> /\ quote' = <<>>
    /\ fault' = "none" /\ due' = [amount |-> 0, currency |-> ""]
    /\ verdicts' = {}
    /\ UNCHANGED <<site, todo, checks, report, engine, hasFail, exit>>

PassUnmapped == stage = "next" /\ left # <<>> /\ Head(left).type \in Unmapped /\ EndResource(status, "unmapped")

\* Without credentials nothing is asked.
PassUnasked == stage = "asked" /\ ~engine /\ EndResource("SKIP", "unasked")

\* Extract, Query and Parse: the steps of Quotes.
Price == (Ask \/ (engine /\ (QueryFails \/ AnswerTencent)) \/ Read) /\ UNCHANGED test

\* What a mapper could make of an answer instead: nothing, a hundred times as
\* much, or another period, in one component.
Misreadings(comps) ==
    (UNION {LET c == comps[i] IN
            {[comps EXCEPT ![i].hourly = pair[1], ![i].monthly = pair[2]] :
                 pair \in {<<0, 0>>, <<100 * c.hourly, 100 * c.monthly>>,
                           <<c.monthly, c.monthly * HoursPerMonth>>, <<0, c.hourly>>}}
            : i \in DOMAIN comps}) \ {comps}

Misread ==
    /\ stage = "answered"
    /\ \E comps \in Parse(plan, request, answer, "") : \E wrong \in Misreadings(comps) : quote' = wrong
    /\ stage' = "priced"
    /\ UNCHANGED <<plan, site, request, answer, fault, due, test>>

PassError == stage = "skipped" /\ EndResource("API_ERROR", "error")

Judge ==
    /\ stage = "priced"
    /\ verdicts' = Validate(Tested, request, answer, quote)
    /\ checks' = checks \cup verdicts'
    /\ stage' = "judged"
    /\ UNCHANGED <<pricing, todo, left, status, met, report, engine, hasFail, exit>>

Judged ==
    stage = "judged" /\ EndResource(status, CASE "FAIL" \in verdicts -> "failed"
                                              [] verdicts = {"PASS"} -> "passed"
                                              [] OTHER -> "suspicious")

NextTest ==
    \/ Start \/ AbandonProduct \/ StartProduct \/ FinishProduct \/ Summarise
    \/ StartResource \/ PassUnmapped \/ PassUnasked \/ Price \/ Misread \/ PassError \/ Judge \/ Judged

TestSpec == InitTest /\ [][NextTest]_<<stage, pricing, test>>

-----------------------------------------------------------------------------
(* Properties. *)

\* The resource was read as its mapper reads it.
ReadRight == quote \in Parse(plan, request, answer, "")

\* What the judges get wrong: they take a prepaid MySQL instance to be paid by
\* the hour, for isPrepaid does not look at PayType, and the first entry of a
\* list of names to be the one that was asked for.
Misjudged ==
    \/ Tested = "mysql" /\ request.params.PayType = "PRE_PAID"
    \/ /\ Tested = "domain"
       /\ \E list \in {answer.top, answer.wrapped} : list # <<>> /\ list[1].Operation # "new"

\* A failed check is about the mapper: whatever the answer leaves out and
\* wherever its fields are, a resource that is read right fails if and only if
\* it is one of the two that are misjudged.  Those two always do.
NoFalseAlarm == stage = "judged" /\ ReadRight => ("FAIL" \in verdicts <=> Misjudged)

\* The components a judge compares with the answer: of a prepaid CynosDB
\* cluster the compute and the storage, of every other resource the first.
LookedAt == IF Tested = "cynosdb" /\ isPrepaid(request) THEN DOMAIN quote ELSE {1}

\* "the only way to catch read wrong field bugs" (validators.go): when all
\* checks of a resource pass, the components its judge looks at cost what the
\* answer says.  That is, a wrong one fails, or is suspicious when the judge
\* finds no price.  Not so for the misjudged: a prepaid MySQL instance that is
\* read as if it were paid by the hour passes.  Nothing is said of the bandwidth
\* of a balancer, the traffic of a VPN gateway and the storage of a CynosDB
\* cluster by the hour: no judge looks at them.
MisreadIsCaught ==
    stage = "judged" /\ verdicts = {"PASS"} /\ ~Misjudged =>
        \E comps \in Parse(plan, request, answer, "") :
            \A i \in LookedAt : quote[i].monthly = comps[i].monthly

\* The status of a product says the worst that a check or a resource of it
\* came to, in whatever order; and the program fails exactly for a failed
\* check (section 7.4 of DESIGN.md), or when it cannot start.
StatusIsEarned ==
    /\ report # <<>> =>
        /\ report.status = "ALL_PASS" => report.met \subseteq {"passed", "unmapped"}
        /\ "failed" \in report.met <=> report.status = "HAS_FAIL"
        /\ report.status = "HAS_FAIL" => report.conclusion = "failed" /\ (exit \in {-1, 1})
    /\ exit = 0 => ~hasFail
=============================================================================
