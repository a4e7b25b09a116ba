---------------------------- MODULE QueryEngine ----------------------------
(***************************************************************************)
(* The query path of the pricing engine (internal/pricing/engine.go) as    *)
(* the pricing workers of one process drive it, together with what         *)
(* priceResource (cmd/cloudtab/main.go) does with the reply: parse it and  *)
(* evict it from the cache when the mapper rejects it.                     *)
(*                                                                         *)
(*   Query:  unavailable gate -> on-disk cache -> in-flight call -> retry  *)
(*                                                                         *)
(* A worker prices one request.  Every point where another goroutine can   *)
(* run is a step: each bbolt transaction, each critical section of         *)
(* flightMu, each wait on a channel, the start and the return of every     *)
(* call to a cloud.  A request is its site-namespaced cache key; requests  *)
(* in Unkeyed have none because their parameters cannot be marshalled.     *)
(* Time is left out: an entry outlives its TTL, and a retry window ends,   *)
(* whenever the environment says so.  PriceCache models the clock.         *)
(***************************************************************************)
EXTENDS Integers, FiniteSets

CONSTANTS
    Callers,      \* pricing workers, each with one resource to price
    Requests,     \* distinct price requests
    Unavailable,  \* requests for a product known to be unavailable on the site
    Unkeyed,      \* requests whose cache key cannot be computed
    Outcomes,     \* what a call to a cloud can come to
    MaxRetries,   \* Config.MaxRetries, as the user gave it
    DiskFaults,   \* whether a bbolt write may fail
    MaxRestarts,  \* bound: processes that follow the first on the same cache
    MaxEntryDeaths, \* bound: entries that outlive their TTL
    Nil,          \* no entry, no call, no reply
    Err           \* an error reply

ResponseKinds == {"good", "bad", "boom"}
FailureKinds == {"transient", "permanent", "panic"}

\* What a successful call returns: an answer to one request.  The mapper
\* accepts a "good" one, rejects a "bad" one and panics on a "boom".
Response == [request : Requests, id : Nat, kind : ResponseKinds]

ASSUME ConstantsAssumption ==
    /\ Unavailable \subseteq Requests
    /\ Unkeyed \subseteq Requests
    /\ Outcomes \subseteq ResponseKinds \cup FailureKinds
    /\ MaxRetries \in Int
    /\ DiskFaults \in BOOLEAN
    /\ MaxRestarts \in Nat
    /\ MaxEntryDeaths \in Nat

ASSUME NilAssumption ==
    /\ Nil \notin Callers /\ Nil \notin Requests
    /\ Nil \notin Response /\ Err \notin Response /\ Nil # Err

VARIABLES
    pc,         \* where each worker is
    req,        \* the request it prices, Nil before it starts
    attempt,    \* number of the current call to the cloud (dispatchWithRetry's i + 1)
    got,        \* what Query returned to it: Nil, Err or a response
    outcome,    \* what the worker made of its resource
    cacheOn,    \* whether this process has the cache open
    store,      \* the cache file: one entry per request
    expired,    \* requests whose entry has outlived its TTL
    flight,     \* Engine.flight: the worker that leads the call in progress
    callReply,  \* inflightCall.resp / .err of the call a worker leads
    callDone,   \* whether that call's done channel is closed
    waitOn,     \* the worker on whose call a waiter blocks
    stats,      \* run counters
    fetched,    \* history: every response a cloud has returned
    refused,    \* history: responses a mapper rejected and Invalidate removed
    restarts, deaths

calls == <<flight, callReply, callDone, waitOn>>
disk == <<store, expired, deaths>>
vars == <<pc, req, attempt, got, outcome, cacheOn, disk, calls, stats,
          fetched, refused, restarts>>

-----------------------------------------------------------------------------
\* The retry budget: a negative setting means none, zero means the default.
DefaultMaxRetries == 2
maxRetries == CASE MaxRetries < 0 -> 0
                [] MaxRetries = 0 -> DefaultMaxRetries
                [] OTHER -> MaxRetries
Attempts == maxRetries + 1

Keyed(g) == req[g] \notin Unkeyed

\* A worker between taking the lead of a call and giving it up.
Leading == {"dispatch", "backoff", "put", "release"}
Steps == Leading \cup {"idle", "get", "evict", "do", "wait", "close",
                       "received", "invalidate", "done"}

ZeroStats == [cacheHits |-> 0, cacheMisses |-> 0, backendCalls |-> 0]
Count(counter) == stats' = [stats EXCEPT ![counter] = @ + 1]

Goto(g, step) == pc' = [pc EXCEPT ![g] = step]

\* Query returns reply to priceResource.
Return(g, reply) ==
    /\ got' = [got EXCEPT ![g] = reply]
    /\ Goto(g, "received")

\* A bbolt write transaction: it takes effect as a whole, or fails and leaves
\* the file as it was.
DiskWrite(entries, dead) ==
    \/ store' = entries /\ expired' = dead
    \/ DiskFaults /\ UNCHANGED <<store, expired>>

Without(r) == [store EXCEPT ![r] = Nil]

Everywhere(x) == [g \in Callers |-> x]
NoFlights == [r \in Requests |-> Nil]

\* NewEngine: no cache when the file cannot be opened, or by the user's choice.
Init ==
    /\ pc = Everywhere("idle")
    /\ req = Everywhere(Nil) /\ got = Everywhere(Nil)
    /\ attempt = Everywhere(0) /\ outcome = Everywhere("none")
    /\ cacheOn \in BOOLEAN
    /\ flight = NoFlights
    /\ callReply = Everywhere(Nil) /\ callDone = Everywhere(FALSE)
    /\ waitOn = Everywhere(Nil)
    /\ stats = ZeroStats
    /\ store = [r \in Requests |-> Nil] /\ expired = {} /\ deaths = 0
    /\ fetched = {} /\ refused = {} /\ restarts = 0

-----------------------------------------------------------------------------
\* Definitions named ..._Bug are mistaken forms of the definition that follows
\* them.  No specification uses them: they show what the properties can catch.

\* The gate for unavailable products is forgotten.
Query_Bug(g, r) ==
    /\ pc[g] = "idle"
    /\ req' = [req EXCEPT ![g] = r]
    /\ Goto(g, CASE r \in Unkeyed -> "dispatch"
                 [] r \notin Unkeyed /\ cacheOn -> "get"
                 [] OTHER -> "do")
    /\ attempt' = [attempt EXCEPT ![g] = IF r \in Unkeyed THEN 1 ELSE 0]
    /\ UNCHANGED <<got, outcome, cacheOn, disk, calls, stats, fetched, refused, restarts>>

\* priceResource calls Query(r); the gate, then the step the key leads to.
Query(g, r) ==
    /\ pc[g] = "idle"
    /\ req' = [req EXCEPT ![g] = r]
    /\ IF r \in Unavailable
         THEN Return(g, Err) /\ UNCHANGED attempt
         ELSE /\ Goto(g, CASE r \in Unkeyed -> "dispatch"
                           [] r \notin Unkeyed /\ cacheOn -> "get"
                           [] OTHER -> "do")
              /\ attempt' = [attempt EXCEPT ![g] = IF r \in Unkeyed THEN 1 ELSE 0]
              /\ UNCHANGED got
    /\ UNCHANGED <<outcome, cacheOn, disk, calls, stats, fetched, refused, restarts>>

\* cache.Get: the read transaction finds an entry that has not expired.
CacheHit(g) ==
    /\ pc[g] = "get"
    /\ store[req[g]] # Nil /\ req[g] \notin expired
    /\ Count("cacheHits")
    /\ Return(g, store[req[g]])
    /\ UNCHANGED <<req, attempt, outcome, cacheOn, disk, calls, fetched, refused, restarts>>

\* cache.Get: the read transaction finds nothing it can use.
CacheMiss(g) ==
    /\ pc[g] = "get"
    /\ store[req[g]] = Nil \/ req[g] \in expired
    /\ Goto(g, "evict")
    /\ UNCHANGED <<req, attempt, got, outcome, cacheOn, disk, calls, stats, fetched, refused, restarts>>

\* cache.Get: after a miss a second transaction deletes the key, whatever it
\* holds by now; then Query counts the miss.
EvictOnMiss(g) ==
    /\ pc[g] = "evict"
    /\ DiskWrite(Without(req[g]), expired \ {req[g]})
    /\ Count("cacheMisses")
    /\ Goto(g, "do")
    /\ UNCHANGED <<req, attempt, got, outcome, cacheOn, deaths, calls, fetched, refused, restarts>>

\* The in-flight map is looked up with a key that leaves out part of the request.
JoinFlight_Bug(g) ==
    /\ pc[g] = "do"
    /\ \E r \in Requests :
         /\ flight[r] # Nil
         /\ waitOn' = [waitOn EXCEPT ![g] = flight[r]]
    /\ Goto(g, "wait")
    /\ UNCHANGED <<req, attempt, got, outcome, cacheOn, disk, flight, callReply, callDone,
                   stats, fetched, refused, restarts>>

\* do: a call for the key is in progress, so wait for it.
JoinFlight(g) ==
    /\ pc[g] = "do"
    /\ flight[req[g]] # Nil
    /\ waitOn' = [waitOn EXCEPT ![g] = flight[req[g]]]
    /\ Goto(g, "wait")
    /\ UNCHANGED <<req, attempt, got, outcome, cacheOn, disk, flight, callReply, callDone,
                   stats, fetched, refused, restarts>>

\* The call is entered in the map without looking for one already there.
LeadFlight_Bug(g) ==
    /\ pc[g] = "do"
    /\ flight' = [flight EXCEPT ![req[g]] = g]
    /\ attempt' = [attempt EXCEPT ![g] = 1]
    /\ Goto(g, "dispatch")
    /\ UNCHANGED <<req, got, outcome, cacheOn, disk, callReply, callDone, waitOn,
                   stats, fetched, refused, restarts>>

\* do: no call for the key is in progress, so lead one.
LeadFlight(g) ==
    /\ pc[g] = "do"
    /\ flight[req[g]] = Nil
    /\ flight' = [flight EXCEPT ![req[g]] = g]
    /\ attempt' = [attempt EXCEPT ![g] = 1]
    /\ Goto(g, "dispatch")
    /\ UNCHANGED <<req, got, outcome, cacheOn, disk, callReply, callDone, waitOn,
                   stats, fetched, refused, restarts>>

\* do: the leader has closed done; the waiter takes the shared reply.
WakeWaiter(g) ==
    /\ pc[g] = "wait"
    /\ callDone[waitOn[g]]
    /\ Return(g, callReply[waitOn[g]])
    /\ UNCHANGED <<req, attempt, outcome, cacheOn, disk, calls, stats, fetched, refused, restarts>>

\* An error is cached like a response.
Conclude_Bug(g, reply) ==
    IF Keyed(g)
      THEN /\ callReply' = [callReply EXCEPT ![g] = reply]
           /\ Goto(g, IF cacheOn THEN "put" ELSE "release")
           /\ UNCHANGED got
      ELSE Return(g, reply) /\ UNCHANGED callReply

\* dispatchWithRetry is over.  A keyed request goes back to do, which caches a
\* success; one without a key goes straight back to priceResource.
Conclude(g, reply) ==
    IF Keyed(g)
      THEN /\ callReply' = [callReply EXCEPT ![g] = reply]
           /\ Goto(g, IF reply # Err /\ cacheOn THEN "put" ELSE "release")
           /\ UNCHANGED got
      ELSE Return(g, reply) /\ UNCHANGED callReply

BackendAnswers(g, kind) ==
    /\ pc[g] = "dispatch"
    /\ kind \in Outcomes \cap ResponseKinds
    /\ LET answer == [request |-> req[g], id |-> Cardinality(fetched) + 1, kind |-> kind]
       IN  fetched' = fetched \cup {answer} /\ Conclude(g, answer)
    /\ Count("backendCalls")
    /\ UNCHANGED <<req, attempt, outcome, cacheOn, disk, flight, callDone, waitOn, refused, restarts>>

\* An error that is not retryable, or a retryable one on the last attempt.
BackendFails(g) ==
    /\ pc[g] = "dispatch"
    /\ \/ "permanent" \in Outcomes
       \/ "transient" \in Outcomes /\ attempt[g] >= Attempts
    /\ Conclude(g, Err)
    /\ Count("backendCalls")
    /\ UNCHANGED <<req, attempt, outcome, cacheOn, disk, flight, callDone, waitOn,
                   fetched, refused, restarts>>

\* One retry too many.
BackendThrottles_Bug(g) ==
    /\ pc[g] = "dispatch"
    /\ "transient" \in Outcomes /\ attempt[g] <= Attempts
    /\ Goto(g, "backoff")
    /\ Count("backendCalls")
    /\ UNCHANGED <<req, attempt, got, outcome, cacheOn, disk, calls, fetched, refused, restarts>>

\* A retryable error with attempts left: wait out the backoff.
BackendThrottles(g) ==
    /\ pc[g] = "dispatch"
    /\ "transient" \in Outcomes /\ attempt[g] < Attempts
    /\ Goto(g, "backoff")
    /\ Count("backendCalls")
    /\ UNCHANGED <<req, attempt, got, outcome, cacheOn, disk, calls, fetched, refused, restarts>>

\* Nobody recovers in do: the panic unwinds to priceJob and skips the cleanup.
BackendPanics_Bug(g) ==
    /\ pc[g] = "dispatch"
    /\ "panic" \in Outcomes
    /\ Return(g, Err)
    /\ UNCHANGED <<req, attempt, outcome, cacheOn, disk, calls, stats, fetched, refused, restarts>>

\* The cleanup runs, but the panic is not turned into an error.
BackendPanics_SilentBug(g) ==
    /\ pc[g] = "dispatch"
    /\ "panic" \in Outcomes
    /\ Goto(g, IF Keyed(g) THEN "release" ELSE "received")
    /\ UNCHANGED <<req, attempt, got, outcome, cacheOn, disk, calls, stats, fetched, refused, restarts>>

\* dispatch panics, before the call is counted.  do recovers it when the request
\* has a key, priceJob when it has not; both turn it into an error.
BackendPanics(g) ==
    /\ pc[g] = "dispatch"
    /\ "panic" \in Outcomes
    /\ IF Keyed(g)
         THEN /\ callReply' = [callReply EXCEPT ![g] = Err]
              /\ Goto(g, "release")
              /\ UNCHANGED got
         ELSE Return(g, Err) /\ UNCHANGED callReply
    /\ UNCHANGED <<req, attempt, outcome, cacheOn, disk, flight, callDone, waitOn, stats,
                   fetched, refused, restarts>>

BackoffElapses(g) ==
    /\ pc[g] = "backoff"
    /\ attempt' = [attempt EXCEPT ![g] = @ + 1]
    /\ Goto(g, "dispatch")
    /\ UNCHANGED <<req, got, outcome, cacheOn, disk, calls, stats, fetched, refused, restarts>>

\* The context of the whole retry window is done before the backoff timer.
RetryWindowExpires(g) ==
    /\ pc[g] = "backoff"
    /\ Conclude(g, Err)
    /\ UNCHANGED <<req, attempt, outcome, cacheOn, disk, flight, callDone, waitOn, stats,
                   fetched, refused, restarts>>

\* The waiters are released first and the response is cached afterwards.
PutCache_Bug(g) ==
    /\ pc[g] = "put"
    /\ \/ /\ ~callDone[g]
          /\ callDone' = [callDone EXCEPT ![g] = TRUE]
          /\ UNCHANGED <<pc, store, expired>>
       \/ /\ callDone[g]
          /\ DiskWrite([store EXCEPT ![req[g]] = callReply[g]], expired \ {req[g]})
          /\ Goto(g, "release")
          /\ UNCHANGED callDone
    /\ UNCHANGED <<req, attempt, got, outcome, cacheOn, deaths, flight, callReply, waitOn,
                   stats, fetched, refused, restarts>>

\* do: a success is cached before any waiter is released.
PutCache(g) ==
    /\ pc[g] = "put"
    /\ DiskWrite([store EXCEPT ![req[g]] = callReply[g]], expired \ {req[g]})
    /\ Goto(g, "release")
    /\ UNCHANGED <<req, attempt, got, outcome, cacheOn, deaths, calls, stats, fetched, refused, restarts>>

\* The call leaves the map but its done channel is never closed.
CloseDone_Bug(g) ==
    /\ pc[g] = "close"
    /\ Return(g, callReply[g])
    /\ UNCHANGED <<req, attempt, outcome, cacheOn, disk, calls, stats, fetched, refused, restarts>>

\* do's deferred cleanup takes the call out of the in-flight map ...
ReleaseFlight(g) ==
    /\ pc[g] = "release"
    /\ flight' = [flight EXCEPT ![req[g]] = Nil]
    /\ Goto(g, "close")
    /\ UNCHANGED <<req, attempt, got, outcome, cacheOn, disk, callReply, callDone, waitOn,
                   stats, fetched, refused, restarts>>

\* ... and then closes done.
CloseDone(g) ==
    /\ pc[g] = "close"
    /\ callDone' = [callDone EXCEPT ![g] = TRUE]
    /\ Return(g, callReply[g])
    /\ UNCHANGED <<req, attempt, outcome, cacheOn, disk, flight, callReply, waitOn,
                   stats, fetched, refused, restarts>>

\* A rejected response stays in the cache.
Parse_Bug(g) ==
    /\ pc[g] = "received"
    /\ Goto(g, "done")
    /\ outcome' = [outcome EXCEPT ![g] = IF got[g] # Err /\ got[g].kind = "good"
                                           THEN "priced" ELSE "failed"]
    /\ UNCHANGED <<req, attempt, got, cacheOn, disk, calls, stats, fetched, refused, restarts>>

\* priceResource: an error reply skips the resource; otherwise the mapper
\* parses the response.  A panic of the mapper is recovered by priceJob and
\* nothing else is done about the response.
Parse(g) ==
    /\ pc[g] = "received"
    /\ LET priced == got[g] # Err /\ got[g].kind = "good"
           rejected == got[g] # Err /\ got[g].kind = "bad"
       IN  IF rejected
             THEN Goto(g, "invalidate") /\ UNCHANGED outcome
             ELSE /\ Goto(g, "done")
                  /\ outcome' = [outcome EXCEPT ![g] = IF priced THEN "priced" ELSE "failed"]
    /\ UNCHANGED <<req, attempt, got, cacheOn, disk, calls, stats, fetched, refused, restarts>>

\* Engine.Invalidate after a rejected parse.  Without a cache it does nothing,
\* without a key it only fails, and the resource is skipped in every case.
Invalidate(g) ==
    /\ pc[g] = "invalidate"
    /\ IF cacheOn /\ Keyed(g)
         THEN \/ /\ store' = Without(req[g])
                 /\ expired' = expired \ {req[g]}
                 /\ refused' = refused \cup {got[g]}
              \/ DiskFaults /\ UNCHANGED <<store, expired, refused>>
         ELSE UNCHANGED <<store, expired, refused>>
    /\ Goto(g, "done")
    /\ outcome' = [outcome EXCEPT ![g] = "failed"]
    /\ UNCHANGED <<req, attempt, got, cacheOn, deaths, calls, stats, fetched, restarts>>

-----------------------------------------------------------------------------
\* An entry of the cache file outlives its TTL.
EntryDies(r) ==
    /\ deaths < MaxEntryDeaths
    /\ store[r] # Nil /\ r \notin expired
    /\ expired' = expired \cup {r}
    /\ deaths' = deaths + 1
    /\ UNCHANGED <<pc, req, attempt, got, outcome, cacheOn, store, calls, stats,
                   fetched, refused, restarts>>

\* The process ends, or is killed, at any point, and another one starts over
\* the same file; opening it sweeps the expired entries, as far as that works.
Restart ==
    /\ restarts < MaxRestarts
    /\ restarts' = restarts + 1
    /\ pc' = Everywhere("idle")
    /\ req' = Everywhere(Nil) /\ got' = Everywhere(Nil)
    /\ attempt' = Everywhere(0) /\ outcome' = Everywhere("none")
    /\ cacheOn' \in BOOLEAN
    /\ flight' = NoFlights
    /\ callReply' = Everywhere(Nil) /\ callDone' = Everywhere(FALSE)
    /\ waitOn' = Everywhere(Nil)
    /\ stats' = ZeroStats
    /\ IF cacheOn'
         THEN DiskWrite([r \in Requests |-> IF r \in expired THEN Nil ELSE store[r]], {})
         ELSE UNCHANGED <<store, expired>>
    /\ UNCHANGED <<deaths, fetched, refused>>

\* Every resource has been dealt with.
Finished ==
    /\ \A g \in Callers : pc[g] = "done"
    /\ UNCHANGED vars

Step(g) ==
    \/ CacheHit(g) \/ CacheMiss(g) \/ EvictOnMiss(g)
    \/ JoinFlight(g) \/ LeadFlight(g) \/ WakeWaiter(g)
    \/ \E kind \in ResponseKinds : BackendAnswers(g, kind)
    \/ BackendFails(g) \/ BackendThrottles(g) \/ BackendPanics(g)
    \/ BackoffElapses(g) \/ RetryWindowExpires(g)
    \/ PutCache(g) \/ ReleaseFlight(g) \/ CloseDone(g)
    \/ Parse(g) \/ Invalidate(g)

Next ==
    \/ \E g \in Callers, r \in Requests : Query(g, r)
    \/ \E g \in Callers : Step(g)
    \/ \E r \in Requests : EntryDies(r)
    \/ Restart
    \/ Finished

Spec == Init /\ [][Next]_vars

\* Goroutines are scheduled fairly and every call to a cloud returns, at the
\* latest when its request timeout ends.
FairSpec == Spec /\ \A g \in Callers : WF_vars(Step(g))

-----------------------------------------------------------------------------
(* What must hold.                                                         *)

TypeOK ==
    /\ pc \in [Callers -> Steps]
    /\ req \in [Callers -> Requests \cup {Nil}]
    /\ attempt \in [Callers -> Nat]
    /\ got \in [Callers -> Response \cup {Nil, Err}]
    /\ outcome \in [Callers -> {"none", "priced", "failed"}]
    /\ cacheOn \in BOOLEAN
    /\ store \in [Requests -> Response \cup {Nil}]
    /\ expired \subseteq Requests
    /\ flight \in [Requests -> Callers \cup {Nil}]
    /\ callReply \in [Callers -> Response \cup {Nil, Err}]
    /\ callDone \in [Callers -> BOOLEAN]
    /\ waitOn \in [Callers -> Callers \cup {Nil}]
    /\ stats \in [{"cacheHits", "cacheMisses", "backendCalls"} -> Nat]
    /\ fetched \subseteq Response
    /\ refused \subseteq Response
    /\ restarts \in Nat /\ deaths \in Nat

\* Identical concurrent requests are de-duplicated: no two workers are ever
\* between taking the lead for one key and giving it up, whatever errors,
\* panics, retries and evictions happen meanwhile (Engine.do).
SingleFlight ==
    \A g, h \in Callers :
        /\ pc[g] \in Leading /\ pc[h] \in Leading
        /\ req[g] = req[h] /\ Keyed(g)
        => g = h

\* Nothing is orphaned: a key is in the in-flight map only while a worker is
\* still going to take it out, and a waiter blocks only on a call that is done
\* or whose leader is still going to close it (the deferred cleanup in do).
NoOrphans ==
    /\ \A r \in Requests : flight[r] # Nil =>
           /\ req[flight[r]] = r
           /\ pc[flight[r]] \in Leading
    /\ \A g \in Callers : pc[g] = "wait" =>
           callDone[waitOn[g]] \/ pc[waitOn[g]] \in Leading \cup {"close"}

\* No worker is given the price of another resource's request, through the
\* cache, through a shared call or directly.
AnswersOwnRequest ==
    \A g \in Callers : got[g] \in Response => got[g].request = req[g]

\* The cache holds nothing but what a cloud answered to that very request;
\* an error is never remembered (do caches only when err == nil).
CacheHoldsAnswers ==
    \A r \in Requests : store[r] # Nil =>
        store[r] \in fetched /\ store[r].request = r

\* g has r in hand and has still to parse it or to evict it.
Owes(g, r) ==
    \/ pc[g] \in {"release", "close"} /\ callReply[g] = r
    \/ pc[g] \in {"received", "invalidate"} /\ got[g] = r

\* A rejected response never stays behind in the cache unattended: while the
\* file holds one, some worker still has to reject and evict it.  Writes that
\* fail and processes that are killed are the only way around this.
PoisonIsAttended ==
    restarts = 0 /\ ~DiskFaults =>
        \A r \in Requests :
            store[r] # Nil /\ store[r].kind = "bad" =>
                \E g \in Callers : Owes(g, store[r])

\* Once a worker has evicted a response it rejected, no late write of another
\* worker, in this process or a later one, brings that response back.
RejectedStaysOut ==
    \A r \in Requests : store[r] \notin refused

\* Query never returns neither a response nor an error, which the mapper would
\* take for an empty response: not to the leader of a call that panicked, nor to
\* those that waited for it (the recover in do stores an error).
NoEmptyReply ==
    \A g \in Callers : pc[g] \in {"received", "invalidate", "done"} => got[g] # Nil

\* The counters of the run summary add up: every worker that went through the
\* cache counts as one hit or one miss, and no worker that led a call spent
\* more than the retry budget.
StatsAddUp ==
    /\ stats.cacheHits + stats.cacheMisses =
         Cardinality({g \in Callers : /\ cacheOn
                                      /\ req[g] # Nil
                                      /\ req[g] \notin Unavailable \cup Unkeyed
                                      /\ pc[g] \notin {"get", "evict"}})
    /\ stats.backendCalls <= Attempts * Cardinality({g \in Callers : attempt[g] > 0})

\* Every query ends: no worker stays in Query for ever, behind a leader that
\* fails, panics or runs out of its retry window included.
EveryQueryEnds ==
    \A g \in Callers : (pc[g] # "idle") ~> (pc[g] \in {"done", "idle"})

\* Query keeps the promise of PriceOracle.
Oracle == INSTANCE PriceOracle WITH asked <- req, answer <- got, known <- fetched
KeepsPromise == Oracle!Spec

=============================================================================
