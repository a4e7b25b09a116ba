# A TLA+ model of cloudtab

cloudtab prices a Terraform plan: it parses the plan, turns every resource into
a price request, sends the requests to four clouds through one shared engine
with an on-disk cache, and reports the monthly cost of one plan (`breakdown`) or
of two (`diff`). This directory holds TLA+ modules translated from its Go code,
the TLC configurations that check them and proofs for TLAPS. Paths below are
relative to the repository's root.

## Inventory

| Component | State it keeps | Operations | What is hard | What makes it correct |
|---|---|---|---|---|
| **Query engine** `internal/pricing/engine.go` | in-flight map, run counters | `Query`, `do`, `dispatchWithRetry`, `Invalidate`, `Stats` | many workers at once; check of the cache, then of the map; panics in a shared call; retries; eviction after the fact | one call per key at a time, nobody orphaned, nobody answered with another request's price, no rejected price left in the cache |
| **Price cache** `internal/pricing/cache.go` | a bbolt bucket: key to expiry and payload | `openCache`, `SweepExpired`, `Get`, `Put`, `Delete`, `Close` | `Get` is a clock reading and two transactions; whole seconds; processes with other TTLs; failing writes | nothing is served late or dropped early; a sweep leaves nothing stale |
| **Pricing pipeline** `cmd/cloudtab/main.go` | channels, wait groups, the report | `priceReportWithLoader`, `priceJob`, `priceBoth`, the two commands | closing channels, panics in workers, two passes over one engine, completion order | every resource accounted for once, repeatable output, truthful exit code |
| **Sites and cache keys** `engine.go`, `main.go` | settings only | `rootDomainForSite`, `normalizeSite`, `siteKeyForProvider`, `cacheKey`, `resolve*Site` | four providers with different defaults, custom domains, a fallback region | requests with different prices have different keys |
| **Lazy backends and clients** `engine.go` | one `sync.Once` per cloud, the client map | `awsBackend` and its kin, `client` | a sticky error; a client built outside the lock | one backend, one client per product and region |
| **AWS backend** `aws_backend.go` | none | `query`: pages of `GetProducts` | the cap, a last page that overflows it | never a silently arbitrary price |
| **Alibaba, Huawei backends**, **Tencent handlers** | none | one request built and sent, a table of actions | which service is asked for what, where a product is unavailable | the right request, or none |
| **Plan parser** `internal/parser/plan.go` | none | `LoadPlanJSON`, `LoadPlanInventoryJSON` | which changes count, indices with quoted keys, aliases of providers, modules | every resource that will exist, once, in its own region |
| **Usage file** `internal/parser/usage.go`, `resources/tencentcloud_static.go` | none | `LoadUsageFile`, `EstimateUsage` | two formats, many rules, checked before anything is priced | usage becomes a cost as it was stated, or stops the run |
| **Cost policy** `internal/policy`, `policy_cli.go` | none | `loadPolicyConfig`, `Validate`, `EvaluateBreakdown`, `EvaluateDiff` | file against flags, spellings of currencies | a violated rule is reported, and only then |
| **Report and diff** `internal/output` | none | `ValidateFiniteReport`, `ComputeDiff`, renderers | currencies that differ, resources priced on one side only | no false delta or total |
| **Mappers and registry** `internal/resources` | none | `Extract` and `Parse` of some sixty types | words for ways to pay, fields, units and periods of many services, wrapped answers, discounts | the price of what was planned, or none |
| **Command line** `cmd/cloudtab` | none | `breakdown`, `diff`, `cache clear` | the order of its steps | an exit code a CI job can trust |
| **End-to-end test harness** `e2etest/tencentcloud` | result, checks | `main`, `runProduct`, the validators | reading every answer a second time, in another way | a misreading mapper fails, a right one does not |
| **Logger**, **release and install scripts** | none | I/O | - | - |

Who talks to whom. A command makes one `Engine`, which opens one cache. A pass
starts a pool of workers; a worker calls `engine.Query` (cache, in-flight map,
then a backend through `dispatchWithRetry`), hands the reply to a mapper and
calls `engine.Invalidate` if the mapper rejects it. `diff` runs two passes at
once on the same engine. The cache file outlives the process and is the only
state that does; bbolt's file lock keeps a second process out, which then runs
without a cache.

`PROJECT.json` lists the hazards line by line, each with the properties that
watch it or the reason why none does.

## The modules

### QueryEngine, with PriceOracle

*State.* `pc`, `req`, `attempt`, `got` and `outcome` are the local state of the
workers; `flight` with `callReply`, `callDone` is `Engine.flight` and its
`inflightCall`s, each named by the worker that leads it, `waitOn` the call a
waiter holds a pointer to; `store` is the cache file and `expired` the keys of
entries past their TTL; `stats` the counters. `fetched` and `refused` are
history variables that the properties read and no guard does (the number of
responses so far only names the next one).

*Steps.* A step is what can happen without another goroutine in between: one
bbolt transaction, one critical section of `flightMu`, one wait, one call to a
cloud, the closing of a channel. So `do` is `JoinFlight`, `LeadFlight`,
`WakeWaiter`, then the calls, `PutCache`, `ReleaseFlight`, `CloseDone`; `Get` is
`CacheHit`, or `CacheMiss` and `EvictOnMiss`; `priceResource` continues with
`Parse` and `Invalidate`. `dispatch` is one nondeterministic outcome (`good`,
`bad`: the mapper will reject it, `boom`: the mapper will panic on it,
`transient`, `permanent`, `panic`), counted as in the code, which does not count
a call that panics. `Restart` ends the process anywhere and starts another on
the same file.

*Abstracted.* A request is its cache key. Time: an entry may die and a retry
window may end at any moment; `PriceCache` has the clock, `Dispatch` the
backends and clients. The window of
`dispatchWithRetry` is consulted only at a backoff, as in the code. A worker
prices one resource.

*PriceOracle* is what `Query` promises, without cache, calls or retries: who asks
is answered with something a cloud said about that very request, or with an
error; with an error if the product is unavailable; and is not left waiting.
`QueryEngine` refines it with `asked <- req, answer <- got, known <- fetched`.

### PriceCache

The bucket of `cache.go` with the clock, counted in ticks of which
`TicksPerSecond` make a second, because the code compares `Unix()` seconds.
`StartGet` reads the clock, `Hit` or `Miss` is the View transaction, `Evict` the
Update that follows a miss; `StartPut` computes the expiry and `CommitPut` writes
it; `Open` and `Sweep` are `openCache`; `Stop` closes the file or kills the
process. The file may start with malformed entries; the TTL setting may differ
from one process to the next and may be negative. `DiskFaults` lets any Update
fail. Each entry also carries, for the properties, when it was written and with
which TTL.

### ReportPipeline

`main.go` from the loaders to the exit code: for each pass the feeder, the
workers, the closer and the collector of `priceReportWithLoader`, with both
channels and their capacity; `priceJob` and `priceResource` as `ResultOf`, which
maps each way pricing can go (`Kinds`) to a cost, a skip or an error; `Joined` is
`priceBoth`; `Finish` is the end of the command: policy, rendering, closing the
engine, exit code (0, 1, or 2 for a policy violation). Loading, totals and
rendering may fail (`MayFail`). Of the policy only `fail_on_skipped` is here, of
the loading only that it may fail: `CostGate` and `PlanLoading` have the rest.

### Dispatch

What lies between a run's settings and the service that is called. `StartRun` is
`newEngine`: it checks the flags and lets an explicit flag win over the
environment; `cfg` is the resulting `Config`. `Ask` is `Query` down to dispatch
(gate, cache key, cache). For Tencent Cloud `FindClient`, `CreateClient` and
`InstallClient` are the three stretches of `client` between its locks; for the
other clouds `EnterOnce`, `BuildEnds`, `BuildPanics` and `PassOnce` are
`sync.Once` and the constructor inside it. `Quote` is what the bound service
answers: which site's endpoint, which region. `EndRun` ends or kills the process;
`file` alone survives. Selectors are taken up to case, blanks and synonyms.
`builds` and `used` are history variables. Waiting and retrying are in
`QueryEngine`, dates in `PriceCache`; a call and the caching of its answer are
one step here, because nobody else works on the same key meanwhile.

### CostGate, with PlanDiff and CostPolicy

`CostGate` is a command as the CI job sees it: `LoadPolicy`, `Price`, `Judge` and
`Render` are the stretches of `RunE` between its error returns. `truth` is what
the resources of both plans really cost, `report` what pricing made of it: any
resource may stay without a price, which skips it or fails the run.
`PlanDiff` holds `report.go` and `diff.go` as operators - sums, `ValidateFiniteReport`,
the diff row by row, and which last line a table may print - and `CostPolicy`
`config.go`, `evaluate.go` and `policy_cli.go`: the merge of a file with flags,
validation, and every rule. Amounts are whole numbers and one above `MaxFinite`
is infinite; a currency has several spellings, which reports keep apart and the
policy does not. A coverage is a percentage.

### PlanLoading, with PlanParser and UsageFile

`PlanLoading` goes from the files to what a worker is given: `LoadUsage`,
`LoadPlan`, `CheckUsage` (`validateVersionedUsage`), then one resource at a time as
far as `priceResource` goes without a quote. `world` is what Terraform is about
to do and `PlanDocument` what it writes about it. An instance has the names of its
address, `of`, and an index, `keys[n]`, after some of them; its address is `Spelled`
of both, a sequence in which a name is one token and an index is spelled out,
because `normalizeResourceAddress` reads it character by character. `PlanParser` has both loaders, provider keys, regions
and the actions that count; `UsageFile` the rules of both formats and the
estimate of the usage mappers. Attributes are those the properties tell apart.

### Quotes, with PriceForms, TencentMappers, BssMappers and AwsMappers

`Quotes` follows one resource: `Ask` is `Extract`, then `QueryFails` or an answer
(`AnswerTencent`, `AnswerBss`, `AnswerAws`), then `Read`, which is `Parse`. Every
mapper that asks a service has an operator `<Name>Extract`, the set of its
request, and `<Name>Parse` (shared where the code shares it), the components it
makes of an answer, `<<>>` or `{}` when it refuses it. `PriceForms` has the helpers
of `attrs.go` and `pricehelper.go`. Components keep unit, hourly and monthly cost
and currency. `AwsQuery` is `awsBackend.query` with its pages and its cap;
`Handlers` is the table of `handlers.go`.

The services are external, and this is the model's main assumption: what they
answer is taken from the mappers' comments and tests - which words say how a
resource is paid, which parameters count units, and in which field, unit, place
(wrapped in "Response" or not) and period an answer states its price. A service
answers what it was ASKED for, while `planned` says what the plan means; the
mappers are right when the two meet. Answers come with and without a discount,
with and without a currency, and with four faults.

### EndToEnd, with Validators

The harness of `e2etest/tencentcloud`: products one after the other, each with
its plan; every resource takes the way of `Quotes` (the action `Price`); `Judge` is
`tc.Validator.Validate`, and `Validators` has one operator per validator.
`todo` holds the numbers of the test cases that have not ended, and `Tested` is the
first of them. `Misread` puts a mapper with a mistake in the place of today's: it drops a
component's price, multiplies it by a hundred or takes another period.

### The proofs

`QueryEngineProofs`, `PriceCacheProofs`, `ReportPipelineProofs`, `DispatchProofs`,
`CostGateProofs` and `PlanLoadingProofs` have the theorems about the module they
are named after, `EndToEndProofs` those about `Quotes` and `EndToEnd`, and
`DataLemmas` the facts about sorted lists, sums, products and short sequences that
they rest on; see below. So that they can be reasoned about, the modules they
prove about have no RECURSIVE operator and pass none as a parameter: a filtered
list is `Those(s, I)`, the elements at the places `I`; a sum is `SumFunction`; a
sorted list is what some sorting bijection makes of the unsorted one; the fields
of an answer are put together with `Only` and `Along`, which the provers can expand.

### Conventions

`MC<module>` only gives names to the values the configurations use. A definition
named `X_Bug` (or `X_<Word>Bug`) is a plausible mistake in `X`; no specification
uses it. Putting it in the place of `X` must violate the property that
`PROJECT.json` pairs it with.

## The runs

| Run | Question | Bounds |
|---|---|---|
| `QE_shared` | do three workers share prices safely, and is each answered with his own? | 3 workers, 3 requests (one without a key), every outcome, 1 retry, 1 entry that dies |
| `QE_restart` | can an evicted price come back; is everybody answered? | 2 workers, 2 requests (one unavailable), a good, rejected, throttled or panicking call, 1 retry, failing writes, 1 restart anywhere, 1 entry that dies |
| `PC_dates` | is the cache on time? | 2 goroutines, 1 key, 6 half-second ticks, 2 writes, 2 openings, TTLs -1, default and longer |
| `RP_pool` | is a diff complete, repeatable and finite, and does its exit code tell the truth? | plans of 4 and 1 resources, 1 or 2 workers, priced or panicking, strict or `fail_on_skipped`, failures of loading, totals and rendering |
| `DI_keys` | does every answer come from the run's own service, through one backend or client? | 2 workers, 2 runs, 2 requests of one provider, all selectors by flag and environment, cached placeholders |
| `CG_gate` | do totals, rows and exit codes tell what the plans really cost? | 2 addresses, 5 bills in 3 spellings of 2 currencies, 7 settings, any resources unpriced |
| `PL_load` | is what is planned loaded, and usage applied as stated? | 3 worlds of up to 5 instances, 5 configurations, 16 usage files, both commands, with and without an inventory |
| `QU_quotes` | is every quote the price of what was planned? | 97 planned resources over all types, both sites, all shapes and faults of answers |
| `EE_harness` | do the judges of the harness judge right? | every product alone and all together, every pair of planned resources, lists of names in both orders, every misreading |
| `DI_domains`, `PL_alias`, `QU_free` | what documents or comments say and the code does not do | found violated |

What they show:

- **SingleFlight, NoOrphans** - whatever errors, panics and retries happen, two
  workers never lead a call for one key, no key stays in the map without a worker
  that will take it out, and no waiter waits for a call nobody will close.
- **NoEmptyReply** - a panic in a shared call reaches the leader and the waiters as an error.
- **AnswersOwnRequest, CacheHoldsAnswers** - no worker, cached or waiting, gets a
  price meant for another request; errors are never cached.
- **PoisonIsAttended, RejectedStaysOut** - `Query` caches before the mapper has
  judged. That is safe because the write comes before the waiters are released:
  while a rejected response is in the file, some worker still has to evict it,
  and once evicted it does not return, not even in a later process.
- **StatsAddUp** - hits and misses count every pass through the cache, and calls
  stay within the budget of the workers that led one.
- **EveryQueryEnds, KeepsPromise** - nobody is stuck; `Query` refines `PriceOracle`.
- **HitIsInDate, NoEarlyExpiry, CleanSinceOpen** - a price is served until its TTL
  is over and for less than a second longer, never refetched before, and a sweep
  that succeeds leaves nothing stale, for as long as the process runs.
- **NoSendOnClosed, AllAccounted, Repeatable, RunEnds** - no send on a closed
  channel, no resource lost or doubled, the same report each time, no deadlock
  and no goroutine left.
- **EngineOutlivesWorkers, ZeroTellsTheTruth** - the engine closes after the last
  worker, and exit code 0 means what CI takes it to mean.
- **AnswersFitTheRun, LabelFitsTheService** - the endpoint is chosen in four
  places and the site key in a fifth, with defaults that differ by provider. They
  agree for every known selector and for mistyped ones in the environment: no run
  is served, or labels, a price of another site, nor a cached placeholder.
- **OneOfEach, EveryAskEnds** - one backend per cloud, one client in use
  per product and region, and nobody waits for ever for a constructor that
  fails or panics.
- **TotalIsTrue, RowsAreTrue, ShownIsFinite** - the word "total" is only printed
  over the real cost of both plans in one currency; a row that is not marked
  uncertain tells what really happens to a resource, so a failure to price is
  never an addition or a saving; and no infinite number is shown.
- **VerdictIsTrue** - exit code 0 means that every limit the user stated, in any
  spelling, in file or flag, is kept by what the plans really cost, or that
  something was left unpriced by the user's leave; exit code 2 means that a limit
  is broken or the report incomplete.
- **LoadsWhatIsPlanned, UnshadowedRegionIsExact** - each command prices what it
  should, replacements included, once; an instance has the region of its own
  attribute or provider, whatever its index is written like, unless it is
  shadowed (below).
- **BadUsageStopsTheRun, UsageIsApplied** - no worker meets usage it cannot price;
  a cost from usage is what the file says; legacy attributes reach their resource
  and no other.
- **QuoteIsTrue, HealthyIsQuoted, NoPriceFromFaults** - the word a mapper sends
  and the field it reads agree about period, unit and discount; what the services
  cannot price, a region that AWS does not know included, has no price; what has
  a price gets it; and no error, empty answer or amount of 0 becomes one. In
  two cases a document or a comment says otherwise than the code, and the property
  follows the code: an unknown region, and a VPN gateway with a discount (below).
- **NoFalseAlarm** - whichever fields the answer leaves out and wherever they stand,
  a resource that is read right fails if and only if it is one of the two that
  the judges get wrong (`Misjudged`): a prepaid MySQL instance, and a domain whose
  price list begins with another entry than the one to register. So the wrong
  failures are stated, not left out.
- **MisreadIsCaught** - passed checks leave no mistake in the components a judge
  looks at (`LookedAt`): the first one, and of a prepaid CynosDB cluster both. It
  says nothing of the second component of a balancer, a VPN gateway and a cluster
  by the hour, which no judge looks at, nor of the two that are misjudged.
- **StatusIsEarned** - a product's status and the exit code are the worst of what came.

*Why the bounds are enough.* A race in `do` takes a leader, a worker that comes
before it leaves and one that comes after: three workers, one key. Confusing two
requests takes two keyed requests and two workers. A second retry repeats the
first one's state. A late write needs one writer and one evicter, before and
after one restart. The cache's races need one reader that misses while one
writer commits, and six half seconds cover an entry's whole life, the rounding
at both ends and the reopening. In the pool, four resources and one worker are
more than what a worker and two single slots hold, so too small a channel would
block; two workers and four resources leave one to take a second job.
In `Dispatch` a stale price needs one run to write it and one to read it;
providers share no key, client or backend, so a plan of one provider at a time
is enough, and two requests with the same effective region race for one client.
In `CostGate` two addresses are what a sum, a skipped resource beside a priced
one and a change of currency take; the largest amount is 5 so that two 3s
overflow, in one currency or in two spellings of it. In `PlanLoading` the region
of a resource depends on its own address, its module's and one other of the same
name. A quote depends on nothing but its own resource and answer, so one
resource at a time is every case; the rates of the price list differ by period
and by discount, so that reading the wrong field changes the amount. The harness
mixes at most two resources in a status.

*Fairness.* Weak fairness of each worker's steps in `QueryEngine`: Go schedules
runnable goroutines, bbolt transactions and critical sections end, and every call
to a cloud is bounded by a timeout (`requestTimeout`, the SDK profile or a
context). It is not assumed that a worker starts, that a call succeeds or that a
retry window lasts. In `ReportPipeline`, weak fairness of the passes, of their
workers and of the closer, and that pricing a resource ends, which is what
`EveryQueryEnds` shows. In `Dispatch`, weak fairness of each worker: constructors
and calls are bounded by `requestTimeout`. Nothing needs strong fairness. The other
modules are sequential, end by themselves and have no liveness.

*Deadlock* is checked in `QueryEngine` and `ReportPipeline`, whose finished
states have an explicit stuttering step. `PriceCache` really stops when the
bounded clock and the bounded openings are used up, `Dispatch` after its last
run, and the others when their command, resource or test has ended, so it is off
there.

### Where documents and code disagree

Found by a run:

1. `DI_domains`: `README.md:109` says that prices are cached separately per site
   and never cross. `siteKeyForProvider` files every custom Tencent root domain
   under "domestic".
2. `PL_alias`: `README.md:85` says that aliases are resolved per resource through
   the exact provider key. `resourceProviderConfigKeys` registers a resource of a
   module also under its address within the module, over a resource of the root
   with the same type and name, which then gets the module's region.
3. `QU_free`: `pricehelper.go:217` promises that an answer without a positive price
   is an error. `AlibabaEIP.Parse` sums itemized modules without that check.

Seen while translating, and part of the modules (`DESIGN.md` and `validators.go`
are those of `e2etest/tencentcloud`):

- `engine.go:463` promises that "a healthy run touches each distinct SKU at most
  once". A worker can miss the cache, be overtaken by a whole call for the same
  key, and then find the in-flight map empty: it makes a second call.
- `README.md:310` says that `--max-retries` "`0` disables retry"; zero selects the
  default of 2 (`engine.go:166`).
- `cache.go:134` speaks of evicting "the expired/malformed entry"; the second
  transaction deletes whatever is there, a fresh entry included.
- `--region` is the fallback for resources without a region (`main.go:148`), but
  dispatch applies it below the cache (`engine.go:621`), whose key still has the
  empty region: another run's fallback may be served.
- `aws_common.go:157-158` says that unknown regions fall back to the location of
  us-east-1 "so pricing still returns a (clearly-labelled) figure rather than
  failing". `awsLocation` returns an error, as its own comment
  (`aws_common.go:195-197`) and the body of a test want (`aws_ec2_test.go:164`, whose
  name still says FallsBack). `QuoteIsTrue` asks for no price there.
- A VPN gateway by the hour costs `UnitPrice`, "not UnitPriceDiscount", in
  `DESIGN.md:296`, `:303`, `:504`, `:800` and `validators.go:600`. `VPNGateway.Parse` and
  `vpnValidator` (`validators.go:649-653`) both take `DiscountPrice` and `UnitPrice` only when
  that is 0, so a gateway with a discount that passes does not cost the unit
  price. `QuoteIsTrue` and `NoFalseAlarm` ask for the discounted one, which is paid.
- A prepaid resource is judged by its price for the month (`DESIGN.md:456` for
  MySQL), but `isPrepaid` (`products.go:64`) does not know `PayType`, in which
  `DescribeDBPrice` is told how an instance is paid. A prepaid MySQL instance is
  judged by the hour: one that is read right fails, which `NoFalseAlarm` states, and
  one that is misread as if it were paid by the hour passes (`Misjudged`).
- The two components of a CynosDB cluster "must be verified separately"
  (`DESIGN.md:304`, `:773-776`). By the hour the judge looks at the first only, so
  that a misread storage passes, and by the month at the sum of both (`LookedAt`).
- Each judge "mirrors a Mapper's Parse function" (`validators.go:3`). That of domains
  reads the first entry of the price list, the mapper the one whose operation is
  "new": a right price fails when another entry comes first (`Misjudged`), which
  `NoFalseAlarm` states, too.
- By the general rules a prepaid resource has "hourly == 0" (`DESIGN.md:716`; also
  `:768`, `:794`, `:802`, `:836`). Only the judges of CVM and CLB, of the databases that
  share `cdbFenValidator`, of Lighthouse, CWP and CloudHSM compare it.
- "makes no API call" is what `DESIGN.md:297`, `:306` and `:410` say of public
  addresses. `EIP.Extract` asks for `InquiryPriceAllocateAddresses`, and `eipValidator`
  compares the answer.
- `postgresql_instance.go:70` says of a known number of CPUs that "it requires an exact
  match"; lines 84-90 fall back to the smallest class with that memory
  (`PgSpecCode`, and a plan of `QU_quotes`).
- `domain_registration.go:85-86` calls the prices of a domain cents; they are read as
  CNY per year, as `domainPriceUnitDivisor` explains.
- `alibaba_nat.go:15` and `alibaba_eip.go:16-17` speak of "daysPerMonth (30)", which is
  730/24 (`gaap_proxy.go:26`).
- Hourly prices without a discount field are suspicious to the judges of CVM,
  CLB, CBS and CynosDB, which read only the discounted one.
- A Huawei address paid by traffic is priced at its rate alone (`HuaweiEIP`).

## What is proved

Each theorem holds for every value of the constants that satisfies the
assumptions of its module: any workers, requests, keys, plans, settings, files
and bounds. What TLC checks of the same name is one small instance of it.

| Module | Theorem | Property |
|---|---|---|
| `QueryEngineProofs` | `TypeCorrect`, `NeverEmpty` | `TypeOK`, `NoEmptyReply` |
| | `OneFlightPerKey`, `NothingOrphaned` | `SingleFlight`, `NoOrphans` |
| | `NoMixUp`, `CacheIsGenuine` | `AnswersOwnRequest`, `CacheHoldsAnswers` |
| | `QueryImplementsOracle` | `Spec => Oracle!Safe` |
| | `RejectionIsFinal`, `PoisonNeverStays` | `RejectedStaysOut`, `PoisonIsAttended` |
| | `CountersAddUp` | `StatsAddUp` |
| `PriceCacheProofs` | `CacheTypeCorrect` | `TypeOK` |
| | `NeverServedPastItsLife` | `HitIsInDate` |
| | `NeverExpiredEarly` | `NoEarlyExpiry`, an action property |
| | `SweptStaysClean` | `CleanSinceOpen` |
| `ReportPipelineProofs` | `PipelineTypeCorrect` | `TypeOK` |
| | `NeverSendsOnClosed`, `EngineClosedLast` | `NoSendOnClosed`, `EngineOutlivesWorkers` |
| | `EveryResourceAccounted`, `ReportsAreRepeatable` | `AllAccounted`, `Repeatable` |
| | `ExitZeroIsTrue` | `ZeroTellsTheTruth` |
| `DispatchProofs` | `AnswersAlwaysFit`, `LabelsAlwaysFit` | `AnswersFitTheRun`, `LabelFitsTheService` |
| | `OneBackendOneClient` | `OneOfEach` |
| `CostGateProofs` | `TotalsAreTrue`, `RowsTellTheTruth` | `TotalIsTrue`, `RowsAreTrue` |
| | `VerdictsAreTrue`, `NothingInfiniteShown` | `VerdictIsTrue`, `ShownIsFinite` |
| `PlanLoadingProofs` | `EveryPlannedLoaded` | `LoadsWhatIsPlanned` |
| | `RegionsAreReal` | `UnshadowedRegionIsExact` |
| | `BadUsageNeverPriced`, `UsageAlwaysApplied` | `BadUsageStopsTheRun`, `UsageIsApplied` |
| `EndToEndProofs` | `FaultsAreNeverPriced` | `NoPriceFromFaults` of `Quotes` |
| | `TencentIsPricedAsStated` | `PricedAsStated`, stated beside it |
| | `AwsIsPricedAsListed` | `PricedAsListed`, stated beside it |
| | `QuotesAreLabelled` | `LabelledAsDue`, the currency conjunct of `QuoteIsTrue` |
| | `StatusIsAlwaysEarned` | `StatusIsEarned` of `EndToEnd` |
| | `NoJudgeIsWrong`, `MisreadIsAlwaysCaught` | `NoFalseAlarm`, `MisreadIsCaught` of `EndToEnd` |

*Assumptions.* They are the ASSUMEs of the modules, and TLC evaluates each of
them in the runs. Most say that a bound is a number, that a finite set is finite,
or that `Nil` is no response. These say more:

- `SettingsAssumption` (`Dispatch`): flags and environment are selectors, custom
  root domains are not the names of sites, and the products without a price are
  products on sites.
- `PolicyAssumption` (`CostPolicy`): there are finitely many spellings, and the
  canonical one of a canonical spelling is itself, which `ToUpper` of `TrimSpace` is.
- `GateAssumption` (`CostGate`): bills have lines, and settings are at most one
  file and flags of the types the decoders enforce, right or wrong as they may be.
- `WorldAssumption`, `FilesAssumption` (`PlanLoading`): Terraform plans at most one
  instance per address that stays, data sources are read or left alone, and
  a key of a file has one value. The values may be anything. And how Terraform
  writes an index: a number in brackets, or a key in quotes in which each quote and
  each backslash has a backslash before it. Any other character may stand there,
  brackets included.
- `SetupAssumption` (`PlanLoading`): addresses in a configuration have no indices,
  and one address from the root names one resource of it.
- `PlansAssumption` (`Quotes`), `TrialsAssumption` (`EndToEnd`): where `getInt` is
  called, it returns an integer, whatever the attribute was; the test data of a
  product is a list of resources. What is planned, of which type and in which words,
  is left open: the theorems about prices do not rest on the samples of the runs.

*Arguments.* None of the properties that matter is inductive alone. Every
invariant below was checked with TLC before it was proved (`StatedInv`, `WayInv`
and `LabelInv` with the currencies they quantify over bounded to those there
are).

**QueryEngine**, in layers, each proved preserved with the help of those before it:

1. `Typed` - `TypeOK`, the finiteness of `fetched` (its cardinality names the next
   response), and what each control point implies: past `idle` a worker has a
   request, when releasing it has a reply, when `received` it has an answer.
2. `Flights` - the in-flight map and the workers agree: the entry of a key is the
   worker leading it, and conversely; only keyed requests enter; whoever a waiter
   waits for has led that key and has closed or will close. `SingleFlight` and
   `NoOrphans` follow.
3. `Answered` - replies, shared replies, and entries were fetched for the request
   they are filed under. With it each step is a step of `PriceOracle` or a stutter.
4. `Discarded` - what a worker is about to write has been seen by nobody else, so
   it cannot have been refused yet: the reason why the order of `PutCache` and
   `CloseDone` matters.
5. `Attended` - an entry that will be rejected is in the hands of a worker still
   to judge it; it needs that nothing unkeyed is stored and that a worker gets to
   the write only when the cache is open.
6. `Counted` - hits and misses add up to the number of workers past the cache, and
   the calls are no more than the attempts that have come to an end.

**PriceCache** (`CacheInv`): an entry carries the second at which its TTL ends
(`Dated`), and an entry that is still to be written was made since the file was
opened (`SinceOpen`). That is why a late commit brings nothing expired into a clean
file, and dropping fractions costs less than a second on either side.

**ReportPipeline** (`PipelineInv`): a conservation law for each pass. A position of
the plan is in the jobs channel, in the hands of one worker, or out of their
hands and then in exactly one place: the results channel or the list of the
report that its pricing calls for. What has been closed, and who is alive, is
tied to the stage of the pass. Repeatable order then rests on `OneListing`: a
set of positions has one ascending enumeration.

**Dispatch** (`DispatchInv`): no entry of the cache file is under the key of
another site (`FileFits`), which is where all runs before this one are
remembered; a backend that is being built has one builder and a built one is
kept (`BuiltOnce`); clients in use are those of the map (`UsedAreKept`).
`SiteOfEndpoint` is the heart: endpoint and cache key agree for every selector.

**CostGate** (`GateInv`): a report differs from the truth only in what is skipped and is
finite (`ReportFits`), the policy is the merge of file and flags (`PolicyRead`), and
the exit code that of its violations (`Judged`). The rest is about sums: adding
up by resource, by currency and by spelling comes to the same (`SumSwap`,
`SumByKey`), a part of a finite sum is finite, a normalized policy limits what the
user's did (`NormalizedKeeps`, `MergedSays`).

**PlanLoading** (`LoadInv`): what each stage has made sure of - the usage is what
the file says (`UsageRead`), the list is what the plan says (`PlanRead`), and after
`CheckUsage` versioned usage fits the list (`UsageChecked`, `ResultsFollow`).
`ThoseOfThose` and `Loads` reduce both loaders, old plans included, to one choice of
places of the world, each taken once; `UsageSays` and `EstimateIsStated` follow the rules of the file
down to the sum. For regions, `NumberSteps` and `QuotedSteps` say where the scanner
of an address is after each character of an index, so that it is outside again
exactly after the last one (`IndexIsSkipped`); induction over the names of an address
then gives back its names, whatever its keys are (`NormalizeSpelled`). In
the map of providers every entry of an address that is not shadowed comes from
its owner, and there is one, so the order of the modules does not matter
(`ProviderIsOwners`).

**Quotes** (`QuoteInv`): the request in hand is the mapper's own, and the mapper
refuses an answer without a price before it is read. The first half says who is
asked what (`WhoIsAsked`: the type of a resource and the product of its request
belong together). For the second, every part of an answer to which a fault was
done states no amount but 0 (`VoidFields`, `VoidPieces`, `ZeroFields`), and one
lemma per family of mappers shows that it needs a positive amount, whichever field
it reads (`SimpleParses`, `DatabaseParses`, `LineParses`, `DomainIsRefused`; then
`TencentRefuses`, `AlibabaRefuses`, `HuaweiRefuses`, `AwsRefuses`). The one
exception is the Alibaba address of `QU_free`, which the property names.

Three more invariants are about answers that have a price. `StatedInv`: the answer
in hand is one to this request, in a mode the service understands in it
(`States`), and the quote was parsed from it; `StatedPrice` then goes from the
words of the request, through the fields that the answer has or leaves out, to the
components the mapper makes: the first (`Right`: the amount paid, in the unit of
that mode) and the second, for bandwidth, traffic or storage, which is there
exactly when the answer has a line for it (`RestReads`; with `Right`, `AllRight`).
A request for no units is refused, and no other (`NoUnits`). `ListedInv`: the
documents that were gathered make that quote, if any, that `AwsCost` states. Every
document is one of the list (`GatheredFromList`), and of those only the ones a
usage finds have a price other than 0, all the same (`AwsListCosts`); so the first
one with a price, of any order, has the right one (`OnePriceIsFound`), and when
nothing was cut off there is one (`AllIsGathered`). `LabelInv`: an answer says the
currency of its cloud or none (`SaysOnly`), and each mapper falls back to the one
it was told to expect, so all that it makes carries it (`TencentLabels`,
`AlibabaLabels`, `HuaweiLabels`, `AwsLabels`).

**EndToEnd** (`TestInv`): what the resources tested so far came to is still in the
checks or in the status of the product (`Accounted`), what a stage has empty or
full (`Staged`), and what was reported (`Reported`). A judge always comes to at
least one of the three verdicts (`JudgesJudge`), which is all that `StatusIsEarned` needs
to know of the mappers: it holds for misread answers, too.

The verdicts themselves need `WayInv`: what is left to test is of the product
under test (`Queued`, by induction over the positions of the plan), its request
is its mapper's, the answer is one to that request, or one that mapper makes
nothing of, and the quote was read from it, right or with a mistake
(`Followed`). `ProductSound` then takes the products one by one, for whatever is not
`Misjudged`: the right price does not fail, and what passes has the components the
judge looks at (`Examined`) right. Most judges compare a single amount with what
they read themselves, so whatever passes costs what does not fail (`Compares`,
`SoundByComponent`). A cluster by the month is judged by a sum, which a mistake in
one component of the two changes (`SoundBySum`). For the other direction of
`NoFalseAlarm`, `MySQLFails` and `DomainFails` show that the right price of the two that
are misjudged always fails (`MisjudgedFails`).

*Induction.* The induction theorems of the library take an operator, which the
provers cannot instantiate. `DataLemmas` has induction over sets instead:
`NatMinimum` and `NatClosure` for numbers, `SubsetClosure` for the subsets of a finite
set. With it `TallyExists` shows that the recursion inside `SumFunction` is well
defined, and `SumStep` that its order does not matter. Lists that are built one
element at a time (`ResourcesOf`, `FlattenSeq`) are taken the same way, by numbers.

*Model-checked only.*

- Liveness: `EveryQueryEnds`, the liveness of `PriceOracle` (`KeepsPromise` beyond its
  safety), `RunEnds`, `EveryAskEnds`. It is out of the prover's reach.
- `HealthyIsQuoted`, and that the amount of `QuoteIsTrue` is that of the plan: whether
  the request asks for what was planned is in the tables of words (`planned` beside the
  attributes) and not in a general law, so the runs go through the tables. What
  is a law is proved: from the request on, the price of Tencent Cloud is what the service
  states (`TencentIsPricedAsStated`), that of AWS is the one in its list
  (`AwsIsPricedAsListed`), and every currency is right (`QuotesAreLabelled`).

## Plan

Done: all modules above, and proofs about each of the eight state machines. Next:

1. What Alibaba Cloud and Huawei Cloud state is what a resource costs, as it is
   proved for Tencent Cloud and AWS.
2. The retry window with durations, and a pass whose workers run `QueryEngine`.

## Not modelled

The SDKs, bbolt and the operating system are external: a bbolt Update either
happens or does not, a call has one of the outcomes above. Wall-clock durations
of backoffs and `backendNanos`, logging, and the layout of tables, JSON and Markdown are
left out, and so are the decoding of JSON and YAML (a document is what it says),
formats, the cache path and `cache clear`, and the signing and sending of
requests. Floating-point arithmetic is out of TLC's reach: amounts are whole, a
division cuts, and the policy's tolerance is left out. Of the harness, running
Terraform, writing reports and the probes of `discover.go` are not modelled; nor
are the logger and the release and install scripts, which are I/O alone.
