------------------------------ MODULE Dispatch ------------------------------
(***************************************************************************)
(* From the settings of a run to the service that is called                *)
(* (internal/pricing/engine.go and the site flags of cmd/cloudtab/main.go): *)
(* which site a provider's selector means, the cache key that follows from *)
(* it, and the backends and SDK clients that are built when first needed.  *)
(*                                                                         *)
(* Runs price the same plan on the same cache file, each with settings of   *)
(* its own.  A worker here leads the call for its key, or finds it in the  *)
(* cache; QueryEngine models the waiting and the retrying, PriceCache the  *)
(* dates, so entries do not expire here and a response is cached at once.  *)
(***************************************************************************)
EXTENDS Naturals, FiniteSets

CONSTANTS
    Workers,
    Plans,        \* sets of price requests: provider, product, region
    Settings,     \* what users may set: flags, environment, fallback region
    Custom,       \* selectors that are no known word for a site
    Unpriceable,  \* <<product, site>> known to return a placeholder
    MaxRuns,      \* bound: runs on the same cache file
    NoRegion,     \* the region of a resource whose provider block omits it
    Nil, Err

Providers == {"tencentcloud", "aws", "alibaba", "huawei"}
Lazy == Providers \ {"tencentcloud"}

\* Site selectors, up to case, blanks and synonyms.
Selectors == {"", "domestic", "intl"} \cup Custom
SiteKeys == {"domestic", "intl"}

Requests == UNION Plans
Regions == {r.region : r \in Requests} \cup {s.region : s \in Settings}
Products == {r.product : r \in Requests}

\* A price, by the service and the region it is from and the request it answers.
Price == [endpoint : SiteKeys \cup Custom, region : Regions, request : Requests]

ASSUME SettingsAssumption ==
    /\ \A s \in Settings : s.flag \in [Providers -> Selectors] /\ s.env \in [Providers -> Selectors]
    /\ \A r \in Requests : r.provider \in Providers
    /\ Custom \cap {"", "domestic", "intl"} = {}
    /\ Unpriceable \subseteq Products \X SiteKeys
    /\ MaxRuns \in Nat
    /\ IsFiniteSet(Requests)
    /\ Nil \notin Price /\ Err \notin Price /\ Nil # Err

VARIABLES
    plan,     \* the requests of the plan that is priced
    cfg,      \* the Config of the run in progress, Nil between runs
    file,     \* the cache file, by key
    pc, req,  \* where each worker is, and what it asks for
    answer,   \* what its last Query returned
    client,   \* the SDK client it holds
    backend,  \* the state of each lazily built backend
    builds,   \* history: how often each has been built in this run
    clients,  \* Engine.clients, by product and region
    made,     \* clients made in this run
    used,     \* history: the clients called in this run, by product and region
    runs

built == <<backend, builds>>
sdk == <<clients, made, used>>
vars == <<plan, cfg, file, pc, req, answer, client, built, sdk, runs>>

-----------------------------------------------------------------------------
\* An explicit flag wins over the environment.
resolveSite(flag, env) == IF flag # "" THEN flag ELSE env

\* The flags of the providers whose sites have no literal override.
validSiteFlags(s) == \A p \in Lazy : s.flag[p] \notin Custom

normalizeSite(site) == IF site = "intl" THEN "intl" ELSE "domestic"

\* Anything that is not a known word is taken for a root domain.
rootDomainForSite(site) == IF site = "" THEN "domestic" ELSE site

\* Every provider without a selector counts as the Chinese-mainland site.
siteKeyForProvider_Bug(c, p) ==
    IF p = "tencentcloud"
      THEN IF rootDomainForSite(c.site[p]) = "intl" THEN "intl" ELSE "domestic"
      ELSE normalizeSite(c.site[p])

siteKeyForProvider(c, p) ==
    IF p = "tencentcloud"
      THEN IF rootDomainForSite(c.site[p]) = "intl" THEN "intl" ELSE "domestic"
      ELSE IF p # "alibaba" /\ c.site[p] = "" THEN "intl" ELSE normalizeSite(c.site[p])

cacheKey(c, r) == <<siteKeyForProvider(c, r.provider), r>>

\* The label is taken from the selector, whatever the provider's default site.
ExpectedCurrencyFor_Bug(c, p) ==
    IF p # "aws" /\ normalizeSite(c.site[p]) = "intl" THEN "USD" ELSE "CNY"

ExpectedCurrencyFor(c, p) ==
    IF p # "aws" /\ siteKeyForProvider(c, p) = "intl" THEN "USD" ELSE "CNY"

unavailable(c, r) == <<r.product, siteKeyForProvider(c, r.provider)>> \in Unpriceable

\* The service that the client or backend of a provider is bound to: the root
\* domain for Tencent Cloud, the partition or endpoint of the others.
Endpoint(c, p) ==
    LET chosenDomestic == c.site[p] # "" /\ normalizeSite(c.site[p]) = "domestic"
    IN  CASE p = "tencentcloud" -> rootDomainForSite(c.site[p])
          [] p = "alibaba" -> normalizeSite(c.site[p])
          [] OTHER -> IF chosenDomestic THEN "domestic" ELSE "intl"

\* Only Tencent Cloud's dispatch applies the fallback region.
EffectiveRegion(c, r) ==
    IF r.provider = "tencentcloud" /\ r.region = NoRegion THEN c.region ELSE r.region

\* What a call made with the settings c answers to r.
Quote(c, r) ==
    [endpoint |-> Endpoint(c, r.provider), region |-> EffectiveRegion(c, r), request |-> r]

ClientKey(w) == <<req[w].product, EffectiveRegion(cfg, req[w])>>

-----------------------------------------------------------------------------
Fresh ==
    /\ pc' = [w \in Workers |-> "idle"]
    /\ req' = [w \in Workers |-> Nil]
    /\ answer' = [w \in Workers |-> Nil]
    /\ client' = [w \in Workers |-> 0]
    /\ backend' = [p \in Lazy |-> "unbuilt"]
    /\ builds' = [p \in Lazy |-> 0]
    /\ clients' = [k \in Products \X Regions |-> 0]
    /\ made' = 0 /\ used' = {}

Placeholder(key, region) ==
    [endpoint |-> key[1], request |-> key[2],
     region |-> IF key[2].region = NoRegion THEN region ELSE key[2].region]

\* The file may hold placeholders that an earlier version has cached.
Init ==
    /\ plan \in Plans /\ cfg = Nil /\ runs = 0
    /\ \E old \in SUBSET {k \in SiteKeys \X plan : <<k[2].product, k[1]>> \in Unpriceable},
         region \in {s.region : s \in Settings} :
         file = [k \in SiteKeys \X Requests |->
                   IF k \in old THEN Placeholder(k, region) ELSE Nil]
    /\ pc = [w \in Workers |-> "idle"]
    /\ req = [w \in Workers |-> Nil]
    /\ answer = [w \in Workers |-> Nil]
    /\ client = [w \in Workers |-> 0]
    /\ backend = [p \in Lazy |-> "unbuilt"]
    /\ builds = [p \in Lazy |-> 0]
    /\ clients = [k \in Products \X Regions |-> 0]
    /\ made = 0 /\ used = {}

\* newEngine: a flag that is no known word ends the run before it begins.
StartRun(s) ==
    /\ cfg = Nil /\ runs < MaxRuns
    /\ validSiteFlags(s)
    /\ cfg' = [site |-> [p \in Providers |-> resolveSite(s.flag[p], s.env[p])],
               region |-> s.region]
    /\ runs' = runs + 1
    /\ UNCHANGED <<plan, file, pc, req, answer, client, built, sdk>>

\* The process ends, or is killed, whatever its workers are doing.
EndRun ==
    /\ cfg # Nil
    /\ cfg' = Nil
    /\ Fresh
    /\ UNCHANGED <<plan, file, runs>>

Finish(w, a) ==
    /\ answer' = [answer EXCEPT ![w] = a]
    /\ pc' = [pc EXCEPT ![w] = "idle"]
    /\ client' = [client EXCEPT ![w] = 0]
Goto(w, step) == pc' = [pc EXCEPT ![w] = step]

\* Query, as far as dispatch: the gate, the cache, the provider.
Ask(w, r) ==
    /\ cfg # Nil /\ pc[w] = "idle" /\ r \in plan
    /\ \A v \in Workers : pc[v] # "idle" => req[v] # r
    /\ req' = [req EXCEPT ![w] = r]
    /\ CASE unavailable(cfg, r) -> Finish(w, Err)
         [] ~unavailable(cfg, r) /\ file[cacheKey(cfg, r)] # Nil ->
              Finish(w, file[cacheKey(cfg, r)])
         [] OTHER -> /\ Goto(w, IF r.provider \in Lazy THEN "once" ELSE "client")
                     /\ answer' = [answer EXCEPT ![w] = Nil]
                     /\ UNCHANGED client
    /\ UNCHANGED <<plan, cfg, file, built, sdk, runs>>

-----------------------------------------------------------------------------

\* sync.Once: the first worker builds the backend, the others wait for it ...
EnterOnce(w) ==
    /\ pc[w] = "once" /\ backend[req[w].provider] = "unbuilt"
    /\ backend' = [backend EXCEPT ![req[w].provider] = "building"]
    /\ Goto(w, "build")
    /\ UNCHANGED <<plan, cfg, file, req, answer, client, builds, sdk, runs>>

\* ... which succeeds or fails ...
BuildEnds(w, result) ==
    /\ pc[w] = "build"
    /\ result \in {"ready", "failed"}
    /\ backend' = [backend EXCEPT ![req[w].provider] = result]
    /\ builds' = [builds EXCEPT ![req[w].provider] = @ + 1]
    /\ Goto(w, "once")
    /\ UNCHANGED <<plan, cfg, file, req, answer, client, sdk, runs>>

\* A panic of the constructor leaves the others waiting.
BuildPanics_Bug(w) ==
    /\ pc[w] = "build"
    /\ builds' = [builds EXCEPT ![req[w].provider] = @ + 1]
    /\ Finish(w, Err)
    /\ UNCHANGED <<plan, cfg, file, req, backend, sdk, runs>>

\* ... or panics: do recovers that, and the Once counts as done, with neither a
\* backend nor an error.
BuildPanics(w) ==
    /\ pc[w] = "build"
    /\ backend' = [backend EXCEPT ![req[w].provider] = "missing"]
    /\ builds' = [builds EXCEPT ![req[w].provider] = @ + 1]
    /\ Finish(w, Err)
    /\ UNCHANGED <<plan, cfg, file, req, sdk, runs>>

\* The Once is done: its error is everybody's error, and a call on a backend
\* that is missing panics, which do turns into an error too.
PassOnce(w) ==
    /\ pc[w] = "once" /\ backend[req[w].provider] \in {"ready", "failed", "missing"}
    /\ IF backend[req[w].provider] = "ready"
         THEN Goto(w, "call") /\ UNCHANGED <<answer, client>>
         ELSE Finish(w, Err)
    /\ UNCHANGED <<plan, cfg, file, req, built, sdk, runs>>

-----------------------------------------------------------------------------
\* client: the first look into the map, under the lock ...
FindClient(w) ==
    /\ pc[w] = "client"
    /\ IF clients[ClientKey(w)] # 0
         THEN client' = [client EXCEPT ![w] = clients[ClientKey(w)]] /\ Goto(w, "call")
         ELSE Goto(w, "create") /\ UNCHANGED client
    /\ UNCHANGED <<plan, cfg, file, req, answer, built, sdk, runs>>

\* ... the client made outside it ...
CreateClient(w) ==
    /\ pc[w] = "create"
    /\ made' = made + 1
    /\ client' = [client EXCEPT ![w] = made + 1]
    /\ Goto(w, "install")
    /\ UNCHANGED <<plan, cfg, file, req, answer, built, clients, used, runs>>

\* The map is not looked at again.
InstallClient_Bug(w) ==
    /\ pc[w] = "install"
    /\ clients' = [clients EXCEPT ![ClientKey(w)] = client[w]]
    /\ Goto(w, "call")
    /\ UNCHANGED <<plan, cfg, file, req, answer, client, built, made, used, runs>>

\* ... and the second look, which prefers the client of whoever came first.
InstallClient(w) ==
    /\ pc[w] = "install"
    /\ IF clients[ClientKey(w)] # 0
         THEN client' = [client EXCEPT ![w] = clients[ClientKey(w)]] /\ UNCHANGED clients
         ELSE clients' = [clients EXCEPT ![ClientKey(w)] = client[w]] /\ UNCHANGED client
    /\ Goto(w, "call")
    /\ UNCHANGED <<plan, cfg, file, req, answer, built, made, used, runs>>

\* The service answers, and the answer is cached.
Call(w) ==
    /\ pc[w] = "call"
    /\ LET quote == Quote(cfg, req[w])
       IN  /\ file' = [file EXCEPT ![cacheKey(cfg, req[w])] = quote]
           /\ Finish(w, quote)
    /\ used' = IF req[w].provider \in Lazy THEN used
               ELSE used \cup {<<ClientKey(w), client[w]>>}
    /\ UNCHANGED <<plan, cfg, req, built, clients, made, runs>>

\* Missing credentials, an unknown product or action, an error of the SDK.
CallFails(w) ==
    /\ pc[w] \in {"client", "create", "call"}
    /\ Finish(w, Err)
    /\ UNCHANGED <<plan, cfg, file, req, built, sdk, runs>>

Step(w) ==
    \/ EnterOnce(w) \/ PassOnce(w) \/ BuildPanics(w)
    \/ \E result \in {"ready", "failed"} : BuildEnds(w, result)
    \/ FindClient(w) \/ CreateClient(w) \/ InstallClient(w)
    \/ Call(w) \/ CallFails(w)

Next ==
    \/ \E s \in Settings : StartRun(s)
    \/ EndRun
    \/ \E w \in Workers : Step(w) \/ \E r \in Requests : Ask(w, r)

Spec == Init /\ [][Next]_vars

\* Goroutines are scheduled fairly, and constructors and calls end
\* (requestTimeout bounds both).
FairSpec == Spec /\ \A w \in Workers : WF_vars(Step(w))

-----------------------------------------------------------------------------
\* Whoever is answered, from the cache of whatever earlier run or by a call, has
\* the price that the service and the region of his own run would quote: a
\* selector and the key that stands for it never disagree about the site.  Root
\* domains of the user's own are left to NoCrossSitePrice, and a request without
\* a region has whatever fallback the run that fetched its price had
\* (siteKeyForProvider, cacheKey).  Nor is a service's placeholder ever passed off
\* as a price, not even one that was cached before the gate existed ("a stale
\* cached value can never be surfaced", Query).
AnswersFitTheRun ==
    \A w \in Workers : answer[w] \in Price =>
        /\ <<answer[w].request.product, answer[w].endpoint>> \notin Unpriceable
        /\ /\ Endpoint(cfg, req[w].provider) \in SiteKeys /\ answer[w].endpoint \in SiteKeys
           /\ req[w].provider = "tencentcloud" => req[w].region # NoRegion
           => answer[w] = Quote(cfg, req[w])

\* The currency a quote without one is labelled with is the one the service it
\* is from bills in, even if another run has fetched it (ExpectedCurrencyFor).
LabelFitsTheService ==
    \A w \in Workers :
        answer[w] \in Price /\ req[w].provider # "aws" =>
            /\ answer[w].endpoint = "intl" => ExpectedCurrencyFor(cfg, req[w].provider) = "USD"
            /\ answer[w].endpoint = "domestic" => ExpectedCurrencyFor(cfg, req[w].provider) = "CNY"

\* Each backend is built at most once in a run, and only one that was built
\* without a failure is ever called (awsBackend, alibabaBackend, huaweiBackend);
\* and all calls of a run for a product in a region go through one SDK client,
\* even when several workers made one at once (client).
OneOfEach ==
    /\ \A p \in Lazy : builds[p] <= 1
    /\ \A w \in Workers : pc[w] = "call" /\ req[w].provider \in Lazy =>
           backend[req[w].provider] = "ready"
    /\ \A a, b \in used : a[1] = b[1] => a = b

\* Nobody waits for ever for a backend that another worker is building, whether
\* it fails or panics (sync.Once).
EveryAskEnds ==
    \A w \in Workers : (pc[w] # "idle") ~> (pc[w] = "idle")

\* What the documents say and the code does not do.

\* "Prices are cached separately per site, so switching sites never returns a
\* stale cross-site price" (README.md).
NoCrossSitePrice ==
    \A w \in Workers :
        answer[w] \in Price => answer[w].endpoint = Endpoint(cfg, req[w].provider)

=============================================================================
