--------------------------- MODULE ReportPipeline ---------------------------
(***************************************************************************)
(* One run of `cloudtab breakdown` or `cloudtab diff`                      *)
(* (cmd/cloudtab/main.go): each plan is priced in a pass of its own by a   *)
(* pool of workers (priceReportWithLoader), a diff runs its two passes at  *)
(* once (priceBoth), and the command renders, applies the policy, closes   *)
(* the engine and chooses the exit code.                                   *)
(*                                                                         *)
(* The goroutines of a pass are the pass itself, which feeds the jobs and  *)
(* then collects the results, its workers, and the one that closes the     *)
(* results channel.  What pricing a resource comes to is left open here;   *)
(* QueryEngine models the calls.                                           *)
(***************************************************************************)
EXTENDS Integers, Sequences, FiniteSets, Functions

CONSTANTS
    Passes,         \* the passes of the command: one, or before and after
    Plan,           \* for each pass, the addresses of its plan, in plan order
    Options,        \* settings a user may choose: --concurrency (as resolveConcurrency
                    \* leaves it), --fail-on-error, the policy's fail_on_skipped
    Kinds,          \* what pricing a resource may come to
    MayFail         \* whether loading, aggregating and rendering may fail

\* What priceResource can come to, by what it returns.
Costs == {"usagePriced", "staticPriced", "priced"}
Skips == {"unsupported", "noUsage", "staticErr", "extractErr"}
Errors == {"badUsage", "queryErr", "parseErr", "panic"}

ASSUME ConstantsAssumption ==
    /\ Plan \in [Passes -> Seq(Nat)]
    /\ \A p \in Passes : \A i, j \in DOMAIN Plan[p] : Plan[p][i] = Plan[p][j] => i = j
    /\ Options \subseteq [concurrency : Int, failOnError : BOOLEAN, failOnSkipped : BOOLEAN]
    /\ Kinds \subseteq Costs \cup Skips \cup Errors
    /\ MayFail \in BOOLEAN

VARIABLES
    opts,       \* the settings of this run
    stage,      \* where each pass is
    fed,        \* how many of its resources it has sent to its workers
    jobs, jobsClosed,        \* its jobs channel
    results, resultsClosed,  \* its results channel
    wpc,        \* where each of its workers is
    wjob, wres, \* the position in the plan of a worker's resource, and its result
    rep,        \* what it has collected
    failed,     \* whether it returns an error
    engineOpen, \* the engine the passes share
    exit,       \* the exit code, Running before the end
    outcome     \* history: what pricing each resource came to

channels == <<jobs, jobsClosed, results, resultsClosed>>
workers == <<wpc, wjob, wres>>
command == <<opts, engineOpen, exit>>
vars == <<stage, fed, channels, workers, rep, failed, command, outcome>>

Running == -1

-----------------------------------------------------------------------------
Size(p) == Len(Plan[p])

\* At least one worker, and no more than there are resources to price.
PoolSize(p) ==
    LET asked == IF opts.concurrency < 1 THEN 1 ELSE opts.concurrency
    IN  IF Size(p) > 0 /\ asked > Size(p) THEN Size(p) ELSE asked
Workers(p) == 1..PoolSize(p)

\* Both channels hold just one element.
Buffer_Bug(p) == 1

\* The capacity of both channels.
Buffer(p) == Size(p)

NoResult == [what |-> "none", address |-> 0]

\* priceJob: a recovered panic leaves the zero result, which the collector
\* takes for nothing at all.
ResultOf_Bug(address, kind) ==
    [address |-> address,
     what |-> CASE kind \in Costs -> "cost"
                [] kind = "panic" -> "none"
                [] kind \in Errors \ {"panic"} /\ opts.failOnError -> "err"
                [] OTHER -> "skip"]

\* priceJob and priceResource: an error fails the report only on request, and
\* some failures only ever skip the resource.
ResultOf(address, kind) ==
    [address |-> address,
     what |-> CASE kind \in Costs -> "cost"
                [] kind \in Errors /\ opts.failOnError -> "err"
                [] OTHER -> "skip"]

EmptyReport == [resources |-> <<>>, skipped |-> <<>>, errs |-> <<>>]

\* sort.Slice by address: a permutation of s, in ascending order.
Ascending(s) ==
    LET order == CHOOSE f \in Bijection(1..Len(s), 1..Len(s)) :
                   \A i, j \in 1..Len(s) : i < j => s[f[i]] <= s[f[j]]
    IN  [i \in 1..Len(s) |-> s[order[i]]]

Init ==
    /\ opts \in Options
    /\ stage = [p \in Passes |-> "load"]
    /\ fed = [p \in Passes |-> 0]
    /\ jobs = [p \in Passes |-> <<>>] /\ jobsClosed = [p \in Passes |-> FALSE]
    /\ results = [p \in Passes |-> <<>>] /\ resultsClosed = [p \in Passes |-> FALSE]
    /\ wpc = [p \in Passes |-> [w \in Workers(p) |-> "absent"]]
    /\ wjob = [p \in Passes |-> [w \in Workers(p) |-> 0]]
    /\ wres = [p \in Passes |-> [w \in Workers(p) |-> NoResult]]
    /\ rep = [p \in Passes |-> EmptyReport]
    /\ failed = [p \in Passes |-> FALSE]
    /\ engineOpen = TRUE
    /\ exit = Running
    /\ outcome = [p \in Passes |-> [i \in 1..Size(p) |-> "none"]]

-----------------------------------------------------------------------------
\* The plan or the usage file cannot be used: no goroutine is started.
LoadFails(p) ==
    /\ stage[p] = "load" /\ MayFail
    /\ stage' = [stage EXCEPT ![p] = "returned"]
    /\ failed' = [failed EXCEPT ![p] = TRUE]
    /\ UNCHANGED <<fed, channels, workers, rep, command, outcome>>

\* The channels are made and the workers and the closer are started.
Start(p) ==
    /\ stage[p] = "load"
    /\ stage' = [stage EXCEPT ![p] = "feed"]
    /\ wpc' = [wpc EXCEPT ![p] = [w \in Workers(p) |-> "recv"]]
    /\ UNCHANGED <<fed, channels, wjob, wres, rep, failed, command, outcome>>

\* One resource too many.
Feed_Bug(p) ==
    /\ stage[p] = "feed" /\ fed[p] <= Size(p)
    /\ Len(jobs[p]) < Buffer(p)
    /\ fed' = [fed EXCEPT ![p] = @ + 1]
    /\ jobs' = [jobs EXCEPT ![p] = Append(@, fed[p] + 1)]
    /\ UNCHANGED <<stage, jobsClosed, results, resultsClosed, workers, rep, failed, command, outcome>>

\* One resource after the other, with its usage, goes to the workers.
Feed(p) ==
    /\ stage[p] = "feed" /\ fed[p] < Size(p)
    /\ Len(jobs[p]) < Buffer(p)
    /\ fed' = [fed EXCEPT ![p] = @ + 1]
    /\ jobs' = [jobs EXCEPT ![p] = Append(@, fed[p] + 1)]
    /\ UNCHANGED <<stage, jobsClosed, results, resultsClosed, workers, rep, failed, command, outcome>>

CloseJobs(p) ==
    /\ stage[p] = "feed" /\ fed[p] = Size(p)
    /\ jobsClosed' = [jobsClosed EXCEPT ![p] = TRUE]
    /\ stage' = [stage EXCEPT ![p] = "collect"]
    /\ UNCHANGED <<fed, jobs, results, resultsClosed, workers, rep, failed, command, outcome>>

Receive(p, w) ==
    /\ wpc[p][w] = "recv" /\ jobs[p] # <<>>
    /\ wjob' = [wjob EXCEPT ![p][w] = Head(jobs[p])]
    /\ jobs' = [jobs EXCEPT ![p] = Tail(@)]
    /\ wpc' = [wpc EXCEPT ![p][w] = "pricing"]
    /\ UNCHANGED <<stage, fed, jobsClosed, results, resultsClosed, wres, rep, failed, command, outcome>>

\* A worker has priced its resource, in whatever way that went.
Price(p, w, kind) ==
    /\ wpc[p][w] = "pricing"
    /\ wres' = [wres EXCEPT ![p][w] = ResultOf(Plan[p][wjob[p][w]], kind)]
    /\ outcome' = [outcome EXCEPT ![p][wjob[p][w]] = kind]
    /\ wpc' = [wpc EXCEPT ![p][w] = "send"]
    /\ UNCHANGED <<stage, fed, channels, wjob, rep, failed, command>>

Send(p, w) ==
    /\ wpc[p][w] = "send"
    /\ Len(results[p]) < Buffer(p)
    /\ results' = [results EXCEPT ![p] = Append(@, wres[p][w])]
    /\ wpc' = [wpc EXCEPT ![p][w] = "recv"]
    /\ wjob' = [wjob EXCEPT ![p][w] = 0]
    /\ wres' = [wres EXCEPT ![p][w] = NoResult]
    /\ UNCHANGED <<stage, fed, jobs, jobsClosed, resultsClosed, rep, failed, command, outcome>>

\* A worker finds the jobs channel drained and closed, and counts as done.
WorkerEnds(p, w) ==
    /\ wpc[p][w] = "recv" /\ jobs[p] = <<>> /\ jobsClosed[p]
    /\ wpc' = [wpc EXCEPT ![p][w] = "gone"]
    /\ UNCHANGED <<stage, fed, channels, wjob, wres, rep, failed, command, outcome>>

\* The closer does not wait for the workers that are still pricing.
CloseResults_Bug(p) ==
    /\ stage[p] \in {"feed", "collect"} /\ ~resultsClosed[p]
    /\ jobsClosed[p] /\ jobs[p] = <<>>
    /\ resultsClosed' = [resultsClosed EXCEPT ![p] = TRUE]
    /\ UNCHANGED <<stage, fed, jobs, jobsClosed, results, workers, rep, failed, command, outcome>>

\* The closer has waited for every worker.
CloseResults(p) ==
    /\ stage[p] \in {"feed", "collect"} /\ ~resultsClosed[p]
    /\ \A w \in Workers(p) : wpc[p][w] = "gone"
    /\ resultsClosed' = [resultsClosed EXCEPT ![p] = TRUE]
    /\ UNCHANGED <<stage, fed, jobs, jobsClosed, results, workers, rep, failed, command, outcome>>

Collect(p) ==
    /\ stage[p] = "collect" /\ results[p] # <<>>
    /\ LET res == Head(results[p])
       IN  rep' = [rep EXCEPT ![p] =
                     [resources |-> IF res.what = "cost" THEN Append(@.resources, res.address)
                                                         ELSE @.resources,
                      skipped |-> IF res.what = "skip" THEN Append(@.skipped, res.address)
                                                       ELSE @.skipped,
                      errs |-> IF res.what = "err" THEN Append(@.errs, res.address)
                                                   ELSE @.errs]]
    /\ results' = [results EXCEPT ![p] = Tail(@)]
    /\ UNCHANGED <<stage, fed, jobs, jobsClosed, resultsClosed, workers, failed, command, outcome>>

\* The report is left in the order in which the results came in.
FinishPass_Bug(p) ==
    /\ stage[p] = "collect" /\ results[p] = <<>> /\ resultsClosed[p]
    /\ failed' = [failed EXCEPT ![p] = rep[p].errs # <<>>]
    /\ stage' = [stage EXCEPT ![p] = "returned"]
    /\ UNCHANGED <<fed, channels, workers, rep, command, outcome>>

\* All results are in: sort, and fail on errors or on totals that overflow.
FinishPass(p) ==
    /\ stage[p] = "collect" /\ results[p] = <<>> /\ resultsClosed[p]
    /\ rep' = [rep EXCEPT ![p].resources = Ascending(@), ![p].skipped = Ascending(@)]
    /\ \E overflow \in {FALSE, MayFail} :
         failed' = [failed EXCEPT ![p] = rep[p].errs # <<>> \/ overflow]
    /\ stage' = [stage EXCEPT ![p] = "returned"]
    /\ UNCHANGED <<fed, channels, workers, command, outcome>>

\* A report without skipped resources makes up for one that has them.
PolicyViolated_Bug == opts.failOnSkipped /\ \A p \in Passes : rep[p].skipped # <<>>

\* fail_on_skipped looks at every report of the run.
PolicyViolated == opts.failOnSkipped /\ \E p \in Passes : rep[p].skipped # <<>>

\* priceBoth returns as soon as one of its passes has failed.
Joined_Bug == \/ \A p \in Passes : stage[p] = "returned"
              \/ \E p \in Passes : stage[p] = "returned" /\ failed[p]

\* priceBoth waits for both passes, whether they fail or not.
Joined == \A p \in Passes : stage[p] = "returned"

\* The pricing call has returned: the command prints or fails, closes the engine
\* on its way out, and main turns its error into the exit code.
Finish ==
    /\ exit = Running
    /\ Joined
    /\ \E broken \in {FALSE, MayFail} :
         exit' = IF broken \/ \E p \in Passes : failed[p] THEN 1
                 ELSE IF PolicyViolated THEN 2
                 ELSE 0
    /\ engineOpen' = FALSE
    /\ UNCHANGED <<opts, stage, fed, channels, workers, rep, failed, outcome>>

Exited == exit # Running /\ UNCHANGED vars

PassStep(p) == LoadFails(p) \/ Start(p) \/ Feed(p) \/ CloseJobs(p) \/ Collect(p) \/ FinishPass(p)
WorkerStep(p, w) ==
    \/ Receive(p, w) \/ Send(p, w) \/ WorkerEnds(p, w)
    \/ \E kind \in Kinds : Price(p, w, kind)

Next ==
    \/ \E p \in Passes : PassStep(p) \/ CloseResults(p) \/ \E w \in Workers(p) : WorkerStep(p, w)
    \/ Finish
    \/ Exited

Spec == Init /\ [][Next]_vars

\* Every number a worker may have, whatever the settings.
Slots == {1} \cup UNION {1..o.concurrency : o \in Options}

\* Goroutines are scheduled fairly; pricing a resource ends (QueryEngine).
FairSpec ==
    /\ Spec
    /\ \A p \in Passes :
         /\ WF_vars(PassStep(p)) /\ WF_vars(CloseResults(p))
         /\ \A w \in Slots : WF_vars(w \in Workers(p) /\ WorkerStep(p, w))
    /\ WF_vars(Finish)

-----------------------------------------------------------------------------
TypeOK ==
    /\ opts \in Options
    /\ stage \in [Passes -> {"load", "feed", "collect", "returned"}]
    /\ \A p \in Passes :
         /\ fed[p] \in 0..Size(p)
         /\ Len(jobs[p]) <= Buffer(p) /\ Len(results[p]) <= Buffer(p)
         /\ jobs[p] \in Seq(1..Size(p))
         /\ wpc[p] \in [Workers(p) -> {"absent", "recv", "pricing", "send", "gone"}]
         /\ wjob[p] \in [Workers(p) -> 0..Size(p)]
         /\ \A w \in Workers(p) : wres[p][w].what \in {"none", "cost", "skip", "err"}
         /\ outcome[p] \in [1..Size(p) -> Kinds \cup {"none"}]
    /\ \A p \in Passes : {jobsClosed[p], resultsClosed[p], failed[p]} \subseteq BOOLEAN
    /\ engineOpen \in BOOLEAN
    /\ exit \in {Running, 0, 1, 2}

\* A worker never sends on a results channel that has been closed, which would
\* crash the program (priceReportWithLoader: the closer waits for the group).
NoSendOnClosed ==
    \A p \in Passes : resultsClosed[p] =>
        \A w \in Workers(p) : wpc[p][w] \notin {"recv", "pricing", "send"}

\* The engine is not closed under a worker that may still use it, however the
\* passes end ("can never race a still-running pass", priceBoth).
EngineOutlivesWorkers ==
    ~engineOpen => \A p \in Passes : \A w \in Workers(p) : wpc[p][w] \in {"absent", "gone"}

\* Every resource of a plan is accounted for exactly once: as a cost, as skipped
\* or as an error, whatever panicked and in whatever order the workers finished.
AllAccounted ==
    \A p \in Passes : stage[p] = "returned" /\ wpc[p] # [w \in Workers(p) |-> "absent"] =>
        LET all == rep[p].resources \o rep[p].skipped \o rep[p].errs
        IN  /\ Len(all) = Size(p)
            /\ {all[i] : i \in DOMAIN all} = {Plan[p][i] : i \in DOMAIN Plan[p]}

\* s lists the addresses of a set, each once and in ascending order: there is only
\* one way to do that (OneListing in DataLemmas).
Lists(s, addresses) ==
    /\ Range(s) = addresses
    /\ \A i, j \in DOMAIN s : i < j => s[i] < s[j]

\* The report depends on what pricing each resource came to and on nothing else:
\* "repeated runs of the same plan yield identical table/JSON output".
Repeatable ==
    \A p \in Passes : stage[p] = "returned" =>
        LET OfKind(kinds) == {Plan[p][i] : i \in {j \in 1..Size(p) : outcome[p][j] \in kinds}}
        IN  /\ Lists(rep[p].resources, OfKind(Costs))
            /\ Lists(rep[p].skipped,
                     OfKind(Skips \cup IF opts.failOnError THEN {} ELSE Errors))

\* What the exit code 0 tells a CI job: with --fail-on-error no resource ended in
\* an error, and with the fail_on_skipped policy every resource of every plan was
\* priced.
ZeroTellsTheTruth ==
    exit = 0 => \A p \in Passes : \A i \in 1..Size(p) :
        /\ opts.failOnError => outcome[p][i] \notin Errors
        /\ opts.failOnSkipped => outcome[p][i] \in Costs

\* The run ends, and leaves no goroutine behind: no one blocks for good on a
\* channel that is full or empty, or on the wait group.
RunEnds ==
    <>[](/\ exit # Running
         /\ \A p \in Passes : \A w \in Workers(p) : wpc[p][w] \in {"absent", "gone"})

=============================================================================
