--------------------------- MODULE DispatchProofs ---------------------------
(***************************************************************************)
(* From the settings of a run to the service that is called, for any       *)
(* settings, plans and number of runs on one cache file: the answers fit   *)
(* the run that gets them, and backends and clients are built once.        *)
(***************************************************************************)
EXTENDS Dispatch, TLAPS

Config == [site : [Providers -> Selectors], region : Regions]
Keys == SiteKeys \X Requests
Pcs == {"idle", "once", "build", "client", "create", "install", "call"}
Backends == {"unbuilt", "building", "ready", "failed", "missing"}

(***************************************************************************)
(* The inductive invariant.                                                *)
(***************************************************************************)
Typed ==
    /\ plan \in Plans
    /\ cfg # Nil => cfg \in Config
    /\ DOMAIN file = Keys
    /\ pc \in [Workers -> Pcs]
    /\ DOMAIN req = Workers /\ DOMAIN answer = Workers
    /\ client \in [Workers -> Nat]
    /\ backend \in [Lazy -> Backends]
    /\ builds \in [Lazy -> Nat]
    /\ clients \in [Products \X Regions -> Nat]
    /\ made \in Nat

\* A process that has just started knows nothing but its cache file.
StartsAfresh ==
    cfg = Nil => /\ \A w \in Workers : pc[w] = "idle" /\ answer[w] = Nil
                 /\ \A p \in Lazy : backend[p] = "unbuilt" /\ builds[p] = 0
                 /\ used = {}

\* The price v is from the service that the key k stands for.  A root domain of the
\* user's own is kept under the domestic key.
Fits(k, v) ==
    /\ v.request = k[2]
    /\ \/ v.endpoint = k[1]
       \/ k[2].provider = "tencentcloud" /\ k[1] = "domestic" /\ v.endpoint \in Custom
    /\ ~(k[2].provider = "tencentcloud" /\ k[2].region = NoRegion) => v.region = k[2].region

\* Nothing is ever cached under the key of another site; the placeholders of
\* earlier versions are all under keys that the gate keeps from being read.
FileFits ==
    \A k \in Keys : <<k[2].product, k[1]>> \notin Unpriceable /\ file[k] # Nil => Fits(k, file[k])

AnswerFits(w) ==
    answer[w] \in Price =>
        /\ req[w] \in Requests
        /\ ~unavailable(cfg, req[w])
        /\ Fits(cacheKey(cfg, req[w]), answer[w])

\* What a worker's place says of the request it serves, of its backend and client.
Placed(w) ==
    /\ pc[w] # "idle" => req[w] \in Requests /\ ~unavailable(cfg, req[w])
    /\ pc[w] \in {"once", "build"} => req[w].provider \in Lazy
    /\ pc[w] \in {"client", "create", "install"} => req[w].provider \notin Lazy
    /\ pc[w] = "build" => backend[req[w].provider] = "building"
    /\ pc[w] = "install" => client[w] # 0
    /\ pc[w] = "call" =>
         IF req[w].provider \in Lazy
           THEN backend[req[w].provider] = "ready"
           ELSE client[w] # 0 /\ clients[ClientKey(w)] = client[w]

\* A backend is being built by one worker, and has been built once after that.
BuiltOnce ==
    /\ \A p \in Lazy : builds[p] = IF backend[p] \in {"unbuilt", "building"} THEN 0 ELSE 1
    /\ \A v, w \in Workers :
         pc[v] = "build" /\ pc[w] = "build" /\ req[v].provider = req[w].provider => v = w

\* Every client that was called is the one in the map.
UsedAreKept ==
    \A a \in used : /\ a = <<a[1], clients[a[1]]>>
                    /\ a[1] \in Products \X Regions /\ clients[a[1]] # 0

DispatchInv ==
    /\ Typed /\ StartsAfresh /\ FileFits /\ BuiltOnce /\ UsedAreKept
    /\ \A w \in Workers : AnswerFits(w) /\ Placed(w)

(***************************************************************************)
(* The site of a provider.                                                 *)
(***************************************************************************)

\* What a provider's selector means: the key always names the site of the service,
\* unless that is a root domain of the user's own.
LEMMA SiteOfEndpoint ==
    ASSUME NEW c \in Config, NEW p \in Providers
    PROVE  /\ siteKeyForProvider(c, p) \in SiteKeys
           /\ \/ Endpoint(c, p) = siteKeyForProvider(c, p)
              \/ /\ p = "tencentcloud" /\ siteKeyForProvider(c, p) = "domestic"
                 /\ Endpoint(c, p) \in Custom
<1>1. c.site[p] \in {"", "domestic", "intl"} \cup Custom
  BY DEF Config, Selectors
<1>2. c.site[p] \in Custom => c.site[p] \notin {"", "domestic", "intl"}
  BY SettingsAssumption
<1>3. CASE p = "tencentcloud"
  BY <1>1, <1>2, <1>3 DEF siteKeyForProvider, rootDomainForSite, Endpoint, SiteKeys
<1>4. CASE p # "tencentcloud"
  BY <1>1, <1>2, <1>4
     DEF siteKeyForProvider, normalizeSite, Endpoint, SiteKeys, Providers
<1> QED
  BY <1>3, <1>4

\* What the service of a run answers is filed under the right key.
LEMMA QuoteFits ==
    ASSUME NEW c \in Config, NEW r \in Requests
    PROVE  cacheKey(c, r) \in Keys /\ Fits(cacheKey(c, r), Quote(c, r))
<1>1. r.provider \in Providers
  BY SettingsAssumption
<1> QED
  BY <1>1, SiteOfEndpoint DEF cacheKey, Keys, Fits, Quote, EffectiveRegion

\* The region of an SDK client is one that the run knows.
LEMMA RegionKnown ==
    ASSUME NEW c \in Config, NEW r \in Requests
    PROVE  /\ r.product \in Products /\ EffectiveRegion(c, r) \in Regions
           /\ <<r.product, EffectiveRegion(c, r)>> \in Products \X Regions
  BY DEF Config, EffectiveRegion, Regions, Products

(***************************************************************************)
(* The steps.                                                              *)
(***************************************************************************)

\* The process may use any settings that are valid.
LEMMA StartRunKeeps ==
    ASSUME DispatchInv, NEW s \in Settings, StartRun(s)
    PROVE  DispatchInv'
<1>1. /\ cfg = Nil
      /\ cfg' = [site |-> [p \in Providers |-> resolveSite(s.flag[p], s.env[p])],
                 region |-> s.region]
      /\ plan' = plan /\ file' = file /\ pc' = pc /\ req' = req /\ answer' = answer
      /\ client' = client /\ backend' = backend /\ builds' = builds
      /\ clients' = clients /\ made' = made /\ used' = used
  BY DEF StartRun, built, sdk
<1>2. cfg' \in Config
  <2>1. \A p \in Providers : resolveSite(s.flag[p], s.env[p]) \in Selectors
    BY SettingsAssumption DEF resolveSite
  <2>2. s.region \in Regions
    BY DEF Regions
  <2> QED
    BY <1>1, <2>1, <2>2 DEF Config
<1>3. StartsAfresh /\ StartsAfresh'
  BY <1>1 DEF DispatchInv, StartsAfresh
<1>4. Typed'
  BY <1>1, <1>2 DEF DispatchInv, Typed
<1>5. FileFits' /\ BuiltOnce' /\ UsedAreKept'
  BY <1>1 DEF DispatchInv, FileFits, BuiltOnce, UsedAreKept
<1>6. ASSUME NEW w \in Workers PROVE AnswerFits(w)' /\ Placed(w)'
  <2>1. pc[w] = "idle" /\ answer[w] \notin Price
    BY <1>1, <1>3, SettingsAssumption DEF StartsAfresh
  <2> QED
    BY <1>1, <2>1 DEF AnswerFits, Placed
<1> QED
  BY <1>3, <1>4, <1>5, <1>6 DEF DispatchInv

\* Whatever the process was doing, only the cache file outlives it.
LEMMA EndRunKeeps ==
    ASSUME DispatchInv, EndRun
    PROVE  DispatchInv'
<1>1. /\ cfg' = Nil /\ plan' = plan /\ file' = file /\ Fresh
  BY DEF EndRun
<1>2. Typed'
  BY <1>1 DEF DispatchInv, Typed, Fresh, Pcs, Backends
<1>3. StartsAfresh' /\ BuiltOnce' /\ UsedAreKept'
  BY <1>1 DEF StartsAfresh, BuiltOnce, UsedAreKept, Fresh
<1>4. FileFits'
  BY <1>1 DEF DispatchInv, FileFits
<1>5. ASSUME NEW w \in Workers PROVE AnswerFits(w)' /\ Placed(w)'
  <2>1. pc'[w] = "idle" /\ answer'[w] \notin Price
    BY <1>1, SettingsAssumption DEF Fresh
  <2> QED
    BY <2>1 DEF AnswerFits, Placed
<1> QED
  BY <1>2, <1>3, <1>4, <1>5 DEF DispatchInv

\* A worker with a request is part of a run.
LEMMA InProgress ==
    ASSUME DispatchInv, NEW w \in Workers, pc[w] # "idle"
    PROVE  /\ cfg # Nil /\ cfg \in Config
           /\ req[w] \in Requests /\ req[w].provider \in Providers
           /\ cacheKey(cfg, req[w]) \in Keys
           /\ ClientKey(w) \in Products \X Regions
<1>1. cfg # Nil /\ cfg \in Config
  BY DEF DispatchInv, StartsAfresh, Typed
<1>2. req[w] \in Requests
  BY DEF DispatchInv, Placed
<1>3. req[w].provider \in Providers
  BY <1>2, SettingsAssumption
<1> QED
  BY <1>1, <1>2, <1>3, QuoteFits, RegionKnown DEF ClientKey

\* The gate answers, or the cache, or the worker goes on to the provider.
LEMMA AskKeeps ==
    ASSUME DispatchInv, NEW w \in Workers, NEW r \in Requests, Ask(w, r)
    PROVE  DispatchInv'
<1>1. /\ cfg # Nil /\ cfg \in Config /\ pc[w] = "idle"
      /\ plan' = plan /\ cfg' = cfg /\ file' = file /\ req' = [req EXCEPT ![w] = r]
      /\ backend' = backend /\ builds' = builds
      /\ clients' = clients /\ made' = made /\ used' = used
  BY DEF Ask, built, sdk, DispatchInv, Typed
<1>2. \/ /\ unavailable(cfg, r) /\ Finish(w, Err)
      \/ /\ ~unavailable(cfg, r) /\ file[cacheKey(cfg, r)] # Nil
         /\ Finish(w, file[cacheKey(cfg, r)])
      \/ /\ ~unavailable(cfg, r)
         /\ pc' = [pc EXCEPT ![w] = IF r.provider \in Lazy THEN "once" ELSE "client"]
         /\ answer' = [answer EXCEPT ![w] = Nil] /\ client' = client
  BY DEF Ask, Goto
<1>3. /\ pc'[w] = "idle" \/ /\ pc'[w] = IF r.provider \in Lazy THEN "once" ELSE "client"
                            /\ ~unavailable(cfg, r)
      /\ pc' \in [Workers -> Pcs] /\ client' \in [Workers -> Nat]
      /\ \A v \in Workers \ {w} : pc'[v] = pc[v] /\ client'[v] = client[v] /\ answer'[v] = answer[v]
      /\ DOMAIN answer' = Workers
  BY <1>1, <1>2 DEF Finish, DispatchInv, Typed, Pcs
<1>4. answer'[w] \in Price =>
        ~unavailable(cfg, r) /\ file[cacheKey(cfg, r)] # Nil /\ answer'[w] = file[cacheKey(cfg, r)]
  <2>1. \A a : Finish(w, a) => answer'[w] = a
    BY DEF Finish, DispatchInv, Typed
  <2>2. CASE Finish(w, Err) \/ answer' = [answer EXCEPT ![w] = Nil]
    <3>1. answer'[w] = Err \/ answer'[w] = Nil
      BY <2>1, <2>2 DEF DispatchInv, Typed
    <3> QED
      BY <3>1, SettingsAssumption
  <2>3. CASE /\ ~unavailable(cfg, r) /\ file[cacheKey(cfg, r)] # Nil
             /\ Finish(w, file[cacheKey(cfg, r)])
    BY <2>1, <2>3
  <2> QED
    BY <1>2, <2>2, <2>3
<1>5. /\ req'[w] = r /\ \A v \in Workers \ {w} : req'[v] = req[v]
      /\ DOMAIN req' = Workers
  BY <1>1 DEF DispatchInv, Typed
<1>6. Typed' /\ StartsAfresh' /\ FileFits' /\ UsedAreKept'
  BY <1>1, <1>3, <1>5 DEF DispatchInv, Typed, StartsAfresh, FileFits, UsedAreKept
<1>7. BuiltOnce'
  BY <1>1, <1>3, <1>5 DEF DispatchInv, BuiltOnce
<1>8. AnswerFits(w)'
  <2>1. ASSUME answer'[w] \in Price PROVE ~unavailable(cfg, r) /\ Fits(cacheKey(cfg, r), answer'[w])
    <3>1. cacheKey(cfg, r) \in Keys
      BY <1>1, QuoteFits
    <3>2. <<cacheKey(cfg, r)[2].product, cacheKey(cfg, r)[1]>> \notin Unpriceable
      BY <1>4, <2>1 DEF unavailable, cacheKey
    <3>3. Fits(cacheKey(cfg, r), file[cacheKey(cfg, r)])
      BY <1>4, <2>1, <3>1, <3>2 DEF DispatchInv, FileFits
    <3> QED
      BY <1>4, <2>1, <3>3
  <2> QED
    BY <1>1, <1>5, <2>1 DEF AnswerFits
<1>9. Placed(w)'
  BY <1>1, <1>3, <1>5 DEF Placed
<1>10. ASSUME NEW v \in Workers \ {w} PROVE AnswerFits(v)' /\ Placed(v)'
  BY <1>1, <1>3, <1>5 DEF DispatchInv, AnswerFits, Placed, ClientKey
<1> QED
  BY <1>6, <1>7, <1>8, <1>9, <1>10 DEF DispatchInv

(***************************************************************************)
(* A backend.                                                              *)
(***************************************************************************)

\* What a step of a worker leaves alone, if it only has to do with its backend.
BackendStep(w) ==
    /\ plan' = plan /\ cfg' = cfg /\ file' = file /\ req' = req
    /\ clients' = clients /\ made' = made /\ used' = used
    /\ \A v \in Workers \ {w} : pc'[v] = pc[v] /\ client'[v] = client[v] /\ answer'[v] = answer[v]
    /\ pc' \in [Workers -> Pcs] /\ client' \in [Workers -> Nat] /\ DOMAIN answer' = Workers
    /\ answer'[w] \in {answer[w], Err}

\* Such a step keeps everything that is not about the backends.
LEMMA BackendStepKeeps ==
    ASSUME DispatchInv, NEW w \in Workers, pc[w] # "idle", BackendStep(w),
           backend' \in [Lazy -> Backends], builds' \in [Lazy -> Nat]
    PROVE  /\ Typed' /\ StartsAfresh' /\ FileFits' /\ UsedAreKept'
           /\ \A v \in Workers : AnswerFits(v)'
<1>1. cfg # Nil
  BY InProgress
<1>2. Typed' /\ StartsAfresh' /\ FileFits' /\ UsedAreKept'
  BY <1>1 DEF BackendStep, DispatchInv, Typed, StartsAfresh, FileFits, UsedAreKept
<1>3. ASSUME NEW v \in Workers PROVE AnswerFits(v)'
  <2>1. answer'[v] \in {answer[v], Err}
    BY DEF BackendStep
  <2>2. answer'[v] \in Price => answer'[v] = answer[v]
    BY <2>1, SettingsAssumption
  <2> QED
    BY <2>2 DEF BackendStep, DispatchInv, AnswerFits
<1> QED
  BY <1>2, <1>3

\* One worker becomes the builder.
LEMMA EnterOnceKeeps ==
    ASSUME DispatchInv, NEW w \in Workers, EnterOnce(w)
    PROVE  DispatchInv'
<1> DEFINE p == req[w].provider
<1>1. /\ pc[w] = "once" /\ backend[p] = "unbuilt" /\ p \in Lazy
      /\ backend' = [backend EXCEPT ![p] = "building"] /\ builds' = builds
      /\ pc' = [pc EXCEPT ![w] = "build"] /\ req' = req
      /\ answer' = answer /\ client' = client /\ cfg' = cfg /\ clients' = clients
  BY DEF EnterOnce, Goto, sdk, DispatchInv, Placed
<1>2. pc[w] # "idle" /\ BackendStep(w)
  BY <1>1 DEF EnterOnce, sdk, BackendStep, DispatchInv, Typed, Pcs
<1>3. backend' \in [Lazy -> Backends] /\ builds' \in [Lazy -> Nat]
  BY <1>1 DEF DispatchInv, Typed, Backends
<1>4. BuiltOnce'
  <2>1. \A q \in Lazy : builds'[q] = IF backend'[q] \in {"unbuilt", "building"} THEN 0 ELSE 1
    BY <1>1 DEF DispatchInv, Typed, BuiltOnce
  <2>2. \A v \in Workers : pc[v] = "build" => req[v].provider # p
    BY <1>1 DEF DispatchInv, Placed
  <2> QED
    BY <1>1, <2>1, <2>2 DEF DispatchInv, Typed, BuiltOnce
<1>5. ASSUME NEW v \in Workers PROVE Placed(v)'
  BY <1>1, <1>5 DEF DispatchInv, Typed, Placed, ClientKey, unavailable
<1> QED
  BY <1>2, <1>3, <1>4, <1>5, BackendStepKeeps DEF DispatchInv

\* The builder is done, one way or another.
LEMMA BuilderEnds ==
    ASSUME DispatchInv, NEW w \in Workers, NEW result \in {"ready", "failed", "missing"},
           pc[w] = "build",
           backend' = [backend EXCEPT ![req[w].provider] = result],
           builds' = [builds EXCEPT ![req[w].provider] = @ + 1],
           pc'[w] \in {"once", "idle"},
           BackendStep(w)
    PROVE  DispatchInv'
<1> DEFINE p == req[w].provider
<1>1. p \in Lazy /\ backend[p] = "building" /\ builds[p] = 0
  BY DEF DispatchInv, Placed, BuiltOnce
<1>2. backend' \in [Lazy -> Backends] /\ builds' \in [Lazy -> Nat]
  BY <1>1 DEF DispatchInv, Typed, Backends
<1>3. BuiltOnce'
  <2>1. \A q \in Lazy : builds'[q] = IF backend'[q] \in {"unbuilt", "building"} THEN 0 ELSE 1
    BY <1>1 DEF DispatchInv, Typed, BuiltOnce
  <2> QED
    BY <2>1 DEF BackendStep, DispatchInv, BuiltOnce
<1>4. ASSUME NEW v \in Workers PROVE Placed(v)'
  <2>1. CASE v = w
    BY <1>1, <2>1 DEF BackendStep, DispatchInv, Placed, unavailable
  <2>2. CASE v # w
    <3>1. pc[v] = "build" => req[v].provider # p
      BY <2>2 DEF DispatchInv, BuiltOnce
    <3>2. pc[v] = "call" => req[v].provider # p
      BY <1>1 DEF DispatchInv, Placed
    <3> QED
      BY <1>1, <2>2, <3>1, <3>2
         DEF BackendStep, DispatchInv, Typed, Placed, ClientKey, unavailable
  <2> QED
    BY <2>1, <2>2
<1> QED
  BY <1>2, <1>3, <1>4, BackendStepKeeps DEF DispatchInv

\* The constructor returns, or panics.
LEMMA BuildKeeps ==
    ASSUME DispatchInv, NEW w \in Workers,
           BuildPanics(w) \/ \E result \in {"ready", "failed"} : BuildEnds(w, result)
    PROVE  DispatchInv'
<1>1. CASE BuildPanics(w)
  <2>1. BackendStep(w) /\ pc'[w] = "idle"
    BY <1>1 DEF BuildPanics, Finish, sdk, BackendStep, DispatchInv, Typed, Pcs
  <2> QED
    BY <1>1, <2>1, BuilderEnds DEF BuildPanics
<1>2. ASSUME NEW result \in {"ready", "failed"}, BuildEnds(w, result) PROVE DispatchInv'
  <2>1. BackendStep(w) /\ pc'[w] = "once"
    BY <1>2 DEF BuildEnds, Goto, sdk, BackendStep, DispatchInv, Typed, Pcs
  <2> QED
    BY <1>2, <2>1, BuilderEnds DEF BuildEnds
<1> QED
  BY <1>1, <1>2

\* A worker moves on, and no backend or client of the engine changes.
LEMMA MoveKeeps ==
    ASSUME DispatchInv, NEW w \in Workers, pc[w] # "idle", BackendStep(w),
           backend' = backend, builds' = builds,
           pc'[w] # "build", Placed(w)'
    PROVE  DispatchInv'
<1>1. BuiltOnce'
  BY DEF BackendStep, DispatchInv, BuiltOnce
<1>2. ASSUME NEW v \in Workers PROVE Placed(v)'
  BY DEF BackendStep, DispatchInv, Placed, ClientKey, unavailable
<1> QED
  BY <1>1, <1>2, BackendStepKeeps DEF DispatchInv, Typed

\* The Once is done.
LEMMA PassOnceKeeps ==
    ASSUME DispatchInv, NEW w \in Workers, PassOnce(w)
    PROVE  DispatchInv'
<1>1. /\ pc[w] = "once" /\ req[w].provider \in Lazy /\ cfg' = cfg /\ req' = req
      /\ backend' = backend /\ builds' = builds
      /\ \/ backend[req[w].provider] = "ready" /\ pc'[w] = "call"
         \/ pc'[w] = "idle"
  BY DEF PassOnce, Goto, Finish, built, DispatchInv, Placed, Typed
<1>2. BackendStep(w)
  BY DEF PassOnce, Goto, Finish, sdk, BackendStep, DispatchInv, Typed, Pcs
<1>3. Placed(w)'
  BY <1>1 DEF DispatchInv, Placed, unavailable
<1> QED
  BY <1>1, <1>2, <1>3, MoveKeeps

(***************************************************************************)
(* An SDK client, and the call.                                            *)
(***************************************************************************)

\* The client is in the map, or has to be made.
LEMMA FindClientKeeps ==
    ASSUME DispatchInv, NEW w \in Workers, FindClient(w)
    PROVE  DispatchInv'
<1>1. /\ pc[w] = "client" /\ cfg' = cfg /\ req' = req /\ clients' = clients
      /\ backend' = backend /\ builds' = builds
      /\ \/ /\ clients[ClientKey(w)] # 0 /\ pc'[w] = "call"
            /\ client' = [client EXCEPT ![w] = clients[ClientKey(w)]]
         \/ pc'[w] = "create" /\ client' = client
  BY DEF FindClient, Goto, built, sdk, DispatchInv, Typed
<1>2. ClientKey(w) \in Products \X Regions /\ ClientKey(w)' = ClientKey(w)
  BY <1>1, InProgress DEF ClientKey
<1>3. clients[ClientKey(w)] \in Nat
  BY <1>2 DEF DispatchInv, Typed
<1>4. BackendStep(w)
  BY <1>3 DEF FindClient, Goto, sdk, BackendStep, DispatchInv, Typed, Pcs
<1>5. Placed(w)'
  BY <1>1, <1>2 DEF DispatchInv, Typed, Placed, unavailable
<1> QED
  BY <1>1, <1>4, <1>5, MoveKeeps

\* The call fails, or the client cannot be made.
LEMMA CallFailsKeeps ==
    ASSUME DispatchInv, NEW w \in Workers, CallFails(w)
    PROVE  DispatchInv'
<1>1. pc[w] # "idle" /\ pc'[w] = "idle" /\ backend' = backend /\ builds' = builds
  BY DEF CallFails, Finish, built, DispatchInv, Typed
<1>2. BackendStep(w)
  BY DEF CallFails, Finish, sdk, BackendStep, DispatchInv, Typed, Pcs
<1>3. Placed(w)'
  BY <1>1 DEF Placed
<1> QED
  BY <1>1, <1>2, <1>3, MoveKeeps

\* A client made and not yet installed is the worker's own.
LEMMA CreateClientKeeps ==
    ASSUME DispatchInv, NEW w \in Workers, CreateClient(w)
    PROVE  DispatchInv'
<1>1. /\ pc[w] = "create" /\ made' = made + 1
      /\ plan' = plan /\ cfg' = cfg /\ file' = file /\ req' = req /\ answer' = answer
      /\ backend' = backend /\ builds' = builds /\ clients' = clients /\ used' = used
      /\ client' = [client EXCEPT ![w] = made + 1] /\ pc' = [pc EXCEPT ![w] = "install"]
  BY DEF CreateClient, Goto, built
<1>2. cfg # Nil
  BY <1>1, InProgress
<1>3. Typed' /\ StartsAfresh' /\ FileFits' /\ UsedAreKept'
  BY <1>1, <1>2 DEF DispatchInv, Typed, StartsAfresh, FileFits, UsedAreKept, Pcs
<1>4. BuiltOnce'
  BY <1>1 DEF DispatchInv, Typed, BuiltOnce
<1>5. ASSUME NEW v \in Workers PROVE AnswerFits(v)' /\ Placed(v)'
  <2>1. AnswerFits(v)'
    BY <1>1 DEF DispatchInv, AnswerFits
  <2>2. Placed(v)'
    <3>1. CASE v = w
      <4>1. client'[w] # 0 /\ pc'[w] = "install"
        BY <1>1 DEF DispatchInv, Typed
      <4> QED
        BY <1>1, <3>1, <4>1 DEF DispatchInv, Placed, unavailable
    <3>2. CASE v # w
      BY <1>1, <3>2 DEF DispatchInv, Typed, Placed, ClientKey, unavailable
    <3> QED
      BY <3>1, <3>2
  <2> QED
    BY <2>1, <2>2
<1> QED
  BY <1>3, <1>4, <1>5 DEF DispatchInv

\* The client that comes first stays in the map, and everybody calls that one.
LEMMA InstallClientKeeps ==
    ASSUME DispatchInv, NEW w \in Workers, InstallClient(w)
    PROVE  DispatchInv'
<1> DEFINE k == ClientKey(w)
<1>1. /\ pc[w] = "install" /\ client[w] # 0 /\ req[w].provider \notin Lazy
      /\ plan' = plan /\ cfg' = cfg /\ file' = file /\ req' = req /\ answer' = answer
      /\ backend' = backend /\ builds' = builds /\ made' = made /\ used' = used
      /\ pc' = [pc EXCEPT ![w] = "call"]
  BY DEF InstallClient, Goto, built, DispatchInv, Placed
<1>2. k \in Products \X Regions /\ cfg # Nil
  BY <1>1, InProgress
<1>3. /\ clients' \in [Products \X Regions -> Nat] /\ client' \in [Workers -> Nat]
      /\ client'[w] # 0 /\ clients'[k] = client'[w]
      /\ \A v \in Workers \ {w} : client'[v] = client[v]
      /\ \A l \in Products \X Regions : clients[l] # 0 => clients'[l] = clients[l]
  BY <1>1, <1>2 DEF InstallClient, DispatchInv, Typed
<1>4. Typed'
  BY <1>1, <1>2, <1>3 DEF DispatchInv, Typed, Pcs
<1>5. StartsAfresh' /\ FileFits'
  BY <1>1, <1>2 DEF DispatchInv, StartsAfresh, FileFits
<1>6. UsedAreKept'
  BY <1>1, <1>3 DEF DispatchInv, UsedAreKept
<1>7. BuiltOnce'
  BY <1>1 DEF DispatchInv, Typed, BuiltOnce
<1>8. ASSUME NEW v \in Workers PROVE AnswerFits(v)'
  BY <1>1 DEF DispatchInv, AnswerFits
<1>9. Placed(w)'
  BY <1>1, <1>3 DEF DispatchInv, Typed, Placed, ClientKey, unavailable
<1>10. ASSUME NEW v \in Workers \ {w} PROVE Placed(v)'
  <2>1. pc'[v] = pc[v] /\ ClientKey(v)' = ClientKey(v)
    BY <1>1 DEF DispatchInv, Typed, ClientKey
  <2>2. pc[v] = "call" /\ req[v].provider \notin Lazy => clients'[ClientKey(v)] = clients[ClientKey(v)]
    BY <1>3, InProgress DEF DispatchInv, Placed
  <2> QED
    BY <1>1, <1>3, <2>1, <2>2 DEF DispatchInv, Placed, unavailable
<1> QED
  BY <1>4, <1>5, <1>6, <1>7, <1>8, <1>9, <1>10 DEF DispatchInv

\* The answer is the run's own, and is cached under the key of its service.
LEMMA CallKeeps ==
    ASSUME DispatchInv, NEW w \in Workers, Call(w)
    PROVE  DispatchInv'
<1> DEFINE r == req[w]
           k == cacheKey(cfg, r)
           quote == Quote(cfg, r)
<1>1. /\ pc[w] = "call" /\ plan' = plan /\ cfg' = cfg /\ req' = req
      /\ backend' = backend /\ builds' = builds /\ clients' = clients /\ made' = made
      /\ file' = [file EXCEPT ![k] = quote]
      /\ answer' = [answer EXCEPT ![w] = quote]
      /\ pc' = [pc EXCEPT ![w] = "idle"] /\ client' = [client EXCEPT ![w] = 0]
      /\ used' = IF r.provider \in Lazy THEN used ELSE used \cup {<<ClientKey(w), client[w]>>}
  BY DEF Call, Finish, built
<1>2. /\ cfg # Nil /\ cfg \in Config /\ r \in Requests /\ k \in Keys
      /\ ClientKey(w) \in Products \X Regions
  BY <1>1, InProgress
<1>3. Fits(k, quote)
  BY <1>2, QuoteFits
<1>4. Typed'
  BY <1>1 DEF DispatchInv, Typed, Pcs
<1>5. StartsAfresh'
  BY <1>1, <1>2 DEF StartsAfresh
<1>6. BuiltOnce'
  BY <1>1 DEF DispatchInv, Typed, BuiltOnce
<1>7. FileFits'
  <2> HIDE DEF k, quote
  <2>1. ASSUME NEW l \in Keys
        PROVE  file'[l] = IF l = k THEN quote ELSE file[l]
    BY <1>1 DEF DispatchInv, Typed
  <2> QED
    BY <1>3, <2>1 DEF DispatchInv, FileFits
<1>8. UsedAreKept'
  <2>1. r.provider \notin Lazy => client[w] # 0 /\ clients[ClientKey(w)] = client[w]
    BY <1>1 DEF DispatchInv, Placed
  <2> DEFINE call == <<ClientKey(w), client[w]>>
  <2>2. call[1] = ClientKey(w) /\ call[2] = client[w]
    OBVIOUS
  <2>3. r.provider \notin Lazy =>
          call = <<call[1], clients[call[1]]>> /\ call[1] \in Products \X Regions /\ clients[call[1]] # 0
    BY <1>2, <2>1, <2>2
  <2>4. \A a \in used' : a \in used \/ (r.provider \notin Lazy /\ a = call)
    BY <1>1
  <2> HIDE DEF call
  <2> QED
    BY <1>1, <2>3, <2>4 DEF DispatchInv, UsedAreKept
<1>9. ASSUME NEW v \in Workers PROVE AnswerFits(v)'
  <2>1. CASE v = w
    <3>1. answer'[v] = quote
      BY <1>1, <2>1 DEF DispatchInv, Typed
    <3>2. ~unavailable(cfg, r)
      BY <1>1 DEF DispatchInv, Placed
    <3> HIDE DEF k, quote
    <3> QED
      BY <1>1, <1>2, <1>3, <2>1, <3>1, <3>2 DEF AnswerFits, k, unavailable
  <2>2. CASE v # w
    <3>1. answer'[v] = answer[v]
      BY <1>1, <2>2 DEF DispatchInv, Typed
    <3> QED
      BY <1>1, <3>1 DEF DispatchInv, AnswerFits
  <2> QED
    BY <2>1, <2>2
<1>10. ASSUME NEW v \in Workers PROVE Placed(v)'
  BY <1>1 DEF DispatchInv, Typed, Placed, ClientKey, unavailable
<1> QED
  BY <1>4, <1>5, <1>6, <1>7, <1>8, <1>9, <1>10 DEF DispatchInv

(***************************************************************************)
(* The invariant and what follows from it.                                 *)
(***************************************************************************)

\* Nothing has been asked yet; what the file holds is a placeholder.
LEMMA InitDispatchInv == Init => DispatchInv
<1> SUFFICES ASSUME Init PROVE DispatchInv
  OBVIOUS
<1>1. Typed
  BY DEF Init, Typed, Keys, Pcs, Backends
<1>2. FileFits
  <2>1. PICK old \in SUBSET {k \in SiteKeys \X plan : <<k[2].product, k[1]>> \in Unpriceable},
             region \in {s.region : s \in Settings} :
          file = [k \in SiteKeys \X Requests |->
                    IF k \in old THEN Placeholder(k, region) ELSE Nil]
    BY DEF Init
  <2>2. \A k \in Keys : file[k] # Nil => <<k[2].product, k[1]>> \in Unpriceable
    BY <2>1 DEF Keys
  <2> QED
    BY <2>2 DEF FileFits
<1>3. StartsAfresh /\ BuiltOnce /\ UsedAreKept
  BY DEF Init, StartsAfresh, BuiltOnce, UsedAreKept
<1>4. ASSUME NEW w \in Workers PROVE AnswerFits(w) /\ Placed(w)
  <2>1. pc[w] = "idle" /\ answer[w] \notin Price
    BY SettingsAssumption DEF Init
  <2> QED
    BY <2>1 DEF AnswerFits, Placed
<1> QED
  BY <1>1, <1>2, <1>3, <1>4 DEF DispatchInv

\* Every step keeps the invariant.
LEMMA NextDispatchInv == DispatchInv /\ [Next]_vars => DispatchInv'
<1> SUFFICES ASSUME DispatchInv, [Next]_vars PROVE DispatchInv'
  OBVIOUS
<1>1. ASSUME NEW s \in Settings, StartRun(s) PROVE DispatchInv'
  BY <1>1, StartRunKeeps
<1>2. CASE EndRun
  BY <1>2, EndRunKeeps
<1>3. ASSUME NEW w \in Workers, NEW r \in Requests, Ask(w, r) PROVE DispatchInv'
  BY <1>3, AskKeeps
<1>4. ASSUME NEW w \in Workers, Step(w) PROVE DispatchInv'
  <2>1. CASE EnterOnce(w)
    BY <2>1, EnterOnceKeeps
  <2>2. CASE BuildPanics(w) \/ \E result \in {"ready", "failed"} : BuildEnds(w, result)
    BY <2>2, BuildKeeps
  <2>3. CASE PassOnce(w)
    BY <2>3, PassOnceKeeps
  <2>4. CASE FindClient(w)
    BY <2>4, FindClientKeeps
  <2>5. CASE CreateClient(w)
    BY <2>5, CreateClientKeeps
  <2>6. CASE InstallClient(w)
    BY <2>6, InstallClientKeeps
  <2>7. CASE Call(w)
    BY <2>7, CallKeeps
  <2>8. CASE CallFails(w)
    BY <2>8, CallFailsKeeps
  <2> QED
    BY <1>4, <2>1, <2>2, <2>3, <2>4, <2>5, <2>6, <2>7, <2>8 DEF Step
<1>5. CASE UNCHANGED vars
  BY <1>5 DEF vars, built, sdk, DispatchInv, Typed, StartsAfresh, FileFits, BuiltOnce,
              UsedAreKept, AnswerFits, Placed, ClientKey
<1> QED
  BY <1>1, <1>2, <1>3, <1>4, <1>5 DEF Next

LEMMA AlwaysDispatchInv == Spec => []DispatchInv
  BY InitDispatchInv, NextDispatchInv, PTL DEF Spec

\* Whoever is answered has the price that the service and the region of his own run
\* would quote, and never a placeholder, however many runs with other settings have
\* shared the cache file.
THEOREM AnswersAlwaysFit == Spec => []AnswersFitTheRun
<1>1. ASSUME DispatchInv, NEW w \in Workers, answer[w] \in Price
      PROVE  /\ <<answer[w].request.product, answer[w].endpoint>> \notin Unpriceable
             /\ /\ Endpoint(cfg, req[w].provider) \in SiteKeys /\ answer[w].endpoint \in SiteKeys
                /\ req[w].provider = "tencentcloud" => req[w].region # NoRegion
                => answer[w] = Quote(cfg, req[w])
  <2> DEFINE p == req[w].provider
  <2>1. /\ req[w] \in Requests /\ ~unavailable(cfg, req[w])
        /\ Fits(cacheKey(cfg, req[w]), answer[w])
        /\ cfg \in Config /\ p \in Providers
    <3>1. cfg # Nil
      BY <1>1, SettingsAssumption DEF DispatchInv, StartsAfresh
    <3> QED
      BY <1>1, <3>1, SettingsAssumption DEF DispatchInv, AnswerFits, Typed
  <2>2. /\ answer[w].request = req[w]
        /\ answer[w].endpoint = siteKeyForProvider(cfg, p) \/ answer[w].endpoint \in Custom
        /\ ~(p = "tencentcloud" /\ req[w].region = NoRegion) => answer[w].region = req[w].region
    BY <2>1 DEF Fits, cacheKey
  <2>3. answer[w].endpoint \in SiteKeys => answer[w].endpoint = siteKeyForProvider(cfg, p)
    BY <2>2, SettingsAssumption DEF SiteKeys
  <2>4. <<req[w].product, siteKeyForProvider(cfg, p)>> \notin Unpriceable
    BY <2>1 DEF unavailable
  <2>5. <<answer[w].request.product, answer[w].endpoint>> \notin Unpriceable
    BY <2>2, <2>3, <2>4, SettingsAssumption
  <2>6. ASSUME Endpoint(cfg, p) \in SiteKeys, answer[w].endpoint \in SiteKeys,
               p = "tencentcloud" => req[w].region # NoRegion
        PROVE  answer[w] = Quote(cfg, req[w])
    <3>1. Endpoint(cfg, p) = siteKeyForProvider(cfg, p)
      BY <2>1, <2>6, SiteOfEndpoint, SettingsAssumption DEF SiteKeys
    <3>2. answer[w].endpoint = Endpoint(cfg, p) /\ answer[w].region = EffectiveRegion(cfg, req[w])
      BY <2>2, <2>3, <2>6, <3>1 DEF EffectiveRegion
    <3> QED
      BY <1>1, <2>2, <3>2 DEF Quote, Price
  <2> QED
    BY <2>5, <2>6
<1>2. DispatchInv => AnswersFitTheRun
  BY <1>1 DEF AnswersFitTheRun
<1> QED
  BY <1>2, AlwaysDispatchInv, PTL

\* A quote without a currency of its own is labelled with the one its service bills in.
THEOREM LabelsAlwaysFit == Spec => []LabelFitsTheService
<1>1. ASSUME DispatchInv, NEW w \in Workers, answer[w] \in Price, req[w].provider # "aws"
      PROVE  /\ answer[w].endpoint = "intl" => ExpectedCurrencyFor(cfg, req[w].provider) = "USD"
             /\ answer[w].endpoint = "domestic" => ExpectedCurrencyFor(cfg, req[w].provider) = "CNY"
  <2>1. \/ answer[w].endpoint = siteKeyForProvider(cfg, req[w].provider)
        \/ answer[w].endpoint \in Custom
    BY <1>1 DEF DispatchInv, AnswerFits, Fits, cacheKey
  <2>2. answer[w].endpoint \in Custom => answer[w].endpoint \notin {"intl", "domestic"}
    BY SettingsAssumption
  <2> QED
    BY <1>1, <2>1, <2>2 DEF ExpectedCurrencyFor
<1>2. DispatchInv => LabelFitsTheService
  BY <1>1 DEF LabelFitsTheService
<1> QED
  BY <1>2, AlwaysDispatchInv, PTL

\* A run builds each backend at most once and calls only one that was built without a
\* failure; its calls for a product in a region go through one client.
THEOREM OneBackendOneClient == Spec => []OneOfEach
<1>1. DispatchInv => OneOfEach
  <2> SUFFICES ASSUME DispatchInv PROVE OneOfEach
    OBVIOUS
  <2>1. \A p \in Lazy : builds[p] <= 1
    BY DEF DispatchInv, BuiltOnce
  <2>2. \A w \in Workers : pc[w] = "call" /\ req[w].provider \in Lazy =>
             backend[req[w].provider] = "ready"
    BY DEF DispatchInv, Placed
  <2>3. \A a, b \in used : a[1] = b[1] => a = b
    BY DEF DispatchInv, UsedAreKept
  <2> QED
    BY <2>1, <2>2, <2>3 DEF OneOfEach
<1> QED
  BY <1>1, AlwaysDispatchInv, PTL

=============================================================================
