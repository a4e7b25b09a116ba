------------------------- MODULE QueryEngineProofs -------------------------
(***************************************************************************)
(* What holds of QueryEngine for any number of workers, requests, retries, *)
(* restarts and expiries, checked by TLAPS.                                *)
(***************************************************************************)
EXTENDS QueryEngine, FiniteSetTheorems, TLAPS

(***************************************************************************)
(* Types.  TypeOK alone is not inductive: that a worker which has left     *)
(* "idle" has a request, a waiter a call to wait for, and a worker about   *)
(* to write or to evict a response a response, is what keeps every         *)
(* application of a function inside its domain.                            *)
(***************************************************************************)
InPlace ==
    \A g \in Callers :
        /\ pc[g] # "idle" => req[g] \in Requests
        /\ pc[g] = "wait" => waitOn[g] \in Callers
        /\ pc[g] = "put" => callReply[g] \in Response
        /\ pc[g] \in {"release", "close"} \/ callDone[g] => callReply[g] # Nil
        /\ pc[g] \in {"received", "invalidate", "done"} => got[g] # Nil
        /\ pc[g] = "invalidate" => got[g] \in Response

Typed == TypeOK /\ IsFiniteSet(fetched) /\ InPlace

\* maxRetries resolves every setting to a number of retries.
LEMMA AttemptsType == Attempts \in Nat
  BY ConstantsAssumption DEF Attempts, maxRetries, DefaultMaxRetries

\* A cloud's answer is a response.
LEMMA AnswerType ==
    ASSUME Typed, NEW r \in Requests, NEW kind \in ResponseKinds
    PROVE  [request |-> r, id |-> Cardinality(fetched) + 1, kind |-> kind] \in Response
  BY FS_CardinalityType DEF Typed, Response

\* The program starts in a state of the right types.
LEMMA InitTyped == Init => Typed
  BY FS_EmptySet DEF Init, Typed, TypeOK, InPlace, Everywhere, NoFlights, ZeroStats, Steps

\* No step leaves the types, one case per action.
LEMMA NextTyped == Typed /\ [Next]_vars => Typed'
<1> SUFFICES ASSUME Typed, [Next]_vars PROVE Typed'
  OBVIOUS
<1> USE NilAssumption DEF Typed, TypeOK, InPlace, Steps, Leading, disk, calls
<1>1. ASSUME NEW g \in Callers, NEW r \in Requests, Query(g, r) PROVE Typed'
  BY <1>1 DEF Query, Return, Goto
<1>2. ASSUME NEW g \in Callers, CacheHit(g) PROVE Typed'
  BY <1>2 DEF CacheHit, Return, Goto, Count
<1>3. ASSUME NEW g \in Callers, CacheMiss(g) PROVE Typed'
  BY <1>3 DEF CacheMiss, Goto
<1>4. ASSUME NEW g \in Callers, EvictOnMiss(g) PROVE Typed'
  BY <1>4 DEF EvictOnMiss, Goto, Count, DiskWrite, Without
<1>5. ASSUME NEW g \in Callers, JoinFlight(g) PROVE Typed'
  BY <1>5 DEF JoinFlight, Goto
<1>6. ASSUME NEW g \in Callers, LeadFlight(g) PROVE Typed'
  BY <1>6 DEF LeadFlight, Goto
<1>7. ASSUME NEW g \in Callers, WakeWaiter(g) PROVE Typed'
  BY <1>7 DEF WakeWaiter, Return, Goto
<1>8. ASSUME NEW g \in Callers, NEW kind \in ResponseKinds, BackendAnswers(g, kind) PROVE Typed'
  <2> DEFINE answer == [request |-> req[g], id |-> Cardinality(fetched) + 1, kind |-> kind]
  <2>1. req[g] \in Requests
    BY <1>8 DEF BackendAnswers
  <2>2. answer \in Response
    BY <2>1, AnswerType
  <2>3. IsFiniteSet(fetched \cup {answer})
    BY FS_AddElement
  <2>4. /\ fetched' = fetched \cup {answer}
        /\ Conclude(g, answer)
        /\ Count("backendCalls")
        /\ UNCHANGED <<req, attempt, outcome, cacheOn, disk, flight, callDone, waitOn,
                       refused, restarts>>
    BY <1>8 DEF BackendAnswers
  <2> HIDE DEF answer
  <2> QED
    BY <2>1, <2>2, <2>3, <2>4 DEF Conclude, Return, Goto, Count
<1>9. ASSUME NEW g \in Callers, BackendFails(g) PROVE Typed'
  BY <1>9 DEF BackendFails, Conclude, Return, Goto, Count
<1>10. ASSUME NEW g \in Callers, BackendThrottles(g) PROVE Typed'
  BY <1>10 DEF BackendThrottles, Goto, Count
<1>11. ASSUME NEW g \in Callers, BackendPanics(g) PROVE Typed'
  BY <1>11 DEF BackendPanics, Return, Goto
<1>12. ASSUME NEW g \in Callers, BackoffElapses(g) PROVE Typed'
  BY <1>12 DEF BackoffElapses, Goto
<1>13. ASSUME NEW g \in Callers, RetryWindowExpires(g) PROVE Typed'
  BY <1>13 DEF RetryWindowExpires, Conclude, Return, Goto
<1>14. ASSUME NEW g \in Callers, PutCache(g) PROVE Typed'
  BY <1>14 DEF PutCache, DiskWrite, Goto
<1>15. ASSUME NEW g \in Callers, ReleaseFlight(g) PROVE Typed'
  BY <1>15 DEF ReleaseFlight, Goto
<1>16. ASSUME NEW g \in Callers, CloseDone(g) PROVE Typed'
  BY <1>16 DEF CloseDone, Return, Goto
<1>17. ASSUME NEW g \in Callers, Parse(g) PROVE Typed'
  BY <1>17 DEF Parse, Goto
<1>18. ASSUME NEW g \in Callers, Invalidate(g) PROVE Typed'
  BY <1>18 DEF Invalidate, Goto, Without
<1>19. ASSUME NEW r \in Requests, EntryDies(r) PROVE Typed'
  BY <1>19 DEF EntryDies
<1>20. ASSUME Restart PROVE Typed'
  BY <1>20 DEF Restart, DiskWrite, Everywhere, NoFlights, ZeroStats
<1>21. ASSUME UNCHANGED vars PROVE Typed'
  BY <1>21 DEF vars
<1> QED
  BY <1>1, <1>2, <1>3, <1>4, <1>5, <1>6, <1>7, <1>8, <1>9, <1>10, <1>11, <1>12, <1>13,
     <1>14, <1>15, <1>16, <1>17, <1>18, <1>19, <1>20, <1>21 DEF Next, Step, Finished

\* Every variable keeps its type (QueryEngine.tla), for every value of the
\* constants.
THEOREM TypeCorrect == Spec => []TypeOK
<1>1. Spec => []Typed
  BY InitTyped, NextTyped, PTL DEF Spec
<1> QED
  BY <1>1, PTL DEF Typed

\* Query always returns a response or an error, to the leader of a call and to
\* those who waited for it.
THEOREM NeverEmpty == Spec => []NoEmptyReply
<1>1. Typed => NoEmptyReply
  BY DEF Typed, InPlace, NoEmptyReply
<1>2. Spec => []Typed
  BY InitTyped, NextTyped, PTL DEF Spec
<1> QED
  BY <1>1, <1>2, PTL

(***************************************************************************)
(* In-flight de-duplication.  The map and the workers agree: an entry      *)
(* leads to a worker that leads a call for its key, and a worker that      *)
(* leads a call for a key is the one the map names.  So no two of them     *)
(* lead the same key, and what a waiter waits for is still to be closed.   *)
(***************************************************************************)
EntryHasLeader ==
    \A r \in Requests : flight[r] # Nil =>
        /\ r \notin Unkeyed
        /\ req[flight[r]] = r
        /\ pc[flight[r]] \in Leading

LeaderHasEntry ==
    \A g \in Callers : pc[g] \in Leading /\ Keyed(g) => flight[req[g]] = g

OnlyKeyed ==
    \A g \in Callers :
        pc[g] \in {"get", "evict", "do", "wait", "put", "release", "close"} => Keyed(g)

WaiterHasLeader ==
    \A g \in Callers : pc[g] = "wait" =>
        /\ req[waitOn[g]] = req[g]
        /\ callDone[waitOn[g]] \/ pc[waitOn[g]] \in Leading \cup {"close"}

\* A call is done only after its leader has left it.
DoneAfterClose ==
    \A g \in Callers : callDone[g] => pc[g] \in {"received", "invalidate", "done"}

Flights ==
    EntryHasLeader /\ LeaderHasEntry /\ OnlyKeyed /\ WaiterHasLeader /\ DoneAfterClose

\* No call is in progress at the start.
LEMMA InitFlights == Init => Flights
  BY DEF Init, Flights, EntryHasLeader, LeaderHasEntry, OnlyKeyed, WaiterHasLeader,
         DoneAfterClose, Everywhere, NoFlights, Leading

\* Every step keeps the in-flight map and the workers in agreement.
LEMMA NextFlights == Typed /\ Flights /\ [Next]_vars => Flights'
<1> SUFFICES ASSUME Typed, Flights, [Next]_vars PROVE Flights'
  OBVIOUS
<1> USE NilAssumption DEF Typed, TypeOK, InPlace, Flights, EntryHasLeader, LeaderHasEntry,
        OnlyKeyed, WaiterHasLeader, DoneAfterClose, Keyed, Steps, Leading, disk, calls
<1>1. ASSUME NEW g \in Callers, NEW r \in Requests, Query(g, r) PROVE Flights'
  BY <1>1 DEF Query, Return, Goto
<1>2. ASSUME NEW g \in Callers, CacheHit(g) PROVE Flights'
  BY <1>2 DEF CacheHit, Return, Goto
<1>3. ASSUME NEW g \in Callers, CacheMiss(g) PROVE Flights'
  BY <1>3 DEF CacheMiss, Goto
<1>4. ASSUME NEW g \in Callers, EvictOnMiss(g) PROVE Flights'
  BY <1>4 DEF EvictOnMiss, Goto
<1>5. ASSUME NEW g \in Callers, JoinFlight(g) PROVE Flights'
  BY <1>5 DEF JoinFlight, Goto
<1>6. ASSUME NEW g \in Callers, LeadFlight(g) PROVE Flights'
  BY <1>6 DEF LeadFlight, Goto
<1>7. ASSUME NEW g \in Callers, WakeWaiter(g) PROVE Flights'
  BY <1>7 DEF WakeWaiter, Return, Goto
<1>8. ASSUME NEW g \in Callers, NEW kind \in ResponseKinds, BackendAnswers(g, kind) PROVE Flights'
  BY <1>8 DEF BackendAnswers, Conclude, Return, Goto
<1>9. ASSUME NEW g \in Callers, BackendFails(g) PROVE Flights'
  BY <1>9 DEF BackendFails, Conclude, Return, Goto
<1>10. ASSUME NEW g \in Callers, BackendThrottles(g) PROVE Flights'
  BY <1>10 DEF BackendThrottles, Goto
<1>11. ASSUME NEW g \in Callers, BackendPanics(g) PROVE Flights'
  BY <1>11 DEF BackendPanics, Return, Goto
<1>12. ASSUME NEW g \in Callers, BackoffElapses(g) PROVE Flights'
  BY <1>12 DEF BackoffElapses, Goto
<1>13. ASSUME NEW g \in Callers, RetryWindowExpires(g) PROVE Flights'
  BY <1>13 DEF RetryWindowExpires, Conclude, Return, Goto
<1>14. ASSUME NEW g \in Callers, PutCache(g) PROVE Flights'
  BY <1>14 DEF PutCache, Goto
<1>15. ASSUME NEW g \in Callers, ReleaseFlight(g) PROVE Flights'
  BY <1>15 DEF ReleaseFlight, Goto
<1>16. ASSUME NEW g \in Callers, CloseDone(g) PROVE Flights'
  BY <1>16 DEF CloseDone, Return, Goto
<1>17. ASSUME NEW g \in Callers, Parse(g) PROVE Flights'
  BY <1>17 DEF Parse, Goto
<1>18. ASSUME NEW g \in Callers, Invalidate(g) PROVE Flights'
  BY <1>18 DEF Invalidate, Goto
<1>19. ASSUME NEW r \in Requests, EntryDies(r) PROVE Flights'
  BY <1>19 DEF EntryDies
<1>20. ASSUME Restart PROVE Flights'
  BY <1>20 DEF Restart, Everywhere, NoFlights
<1>21. ASSUME UNCHANGED vars PROVE Flights'
  BY <1>21 DEF vars
<1> QED
  BY <1>1, <1>2, <1>3, <1>4, <1>5, <1>6, <1>7, <1>8, <1>9, <1>10, <1>11, <1>12, <1>13,
     <1>14, <1>15, <1>16, <1>17, <1>18, <1>19, <1>20, <1>21 DEF Next, Step, Finished

\* Both layers hold in every reachable state.
LEMMA AlwaysFlights == Spec => [](Typed /\ Flights)
  BY InitTyped, NextTyped, InitFlights, NextFlights, PTL DEF Spec

\* At most one worker at a time leads a call for a key: errors, panics, retries
\* and evictions included (Engine.do).
THEOREM OneFlightPerKey == Spec => []SingleFlight
<1>1. Flights => SingleFlight
  BY DEF Flights, LeaderHasEntry, SingleFlight, Keyed
<1> QED
  BY <1>1, AlwaysFlights, PTL

\* The in-flight map never keeps a key nobody will take out, and nobody waits
\* for a call that nobody will close (the deferred cleanup of Engine.do).
THEOREM NothingOrphaned == Spec => []NoOrphans
<1>1. Flights => NoOrphans
  BY DEF Flights, EntryHasLeader, WaiterHasLeader, NoOrphans
<1> QED
  BY <1>1, AlwaysFlights, PTL

(***************************************************************************)
(* Answers.  Wherever a response is kept - in the cache, in the reply of a  *)
(* call, in the hands of a worker - a cloud gave it to the very request it *)
(* is kept for, and nobody has an answer before Query returns.             *)
(***************************************************************************)
KeptForItsRequest ==
    /\ \A g \in Callers : got[g] \in Response =>
           got[g] \in fetched /\ got[g].request = req[g]
    /\ \A g \in Callers : callReply[g] \in Response =>
           callReply[g] \in fetched /\ callReply[g].request = req[g]
    /\ \A r \in Requests : store[r] # Nil =>
           store[r] \in fetched /\ store[r].request = r

NotYet ==
    \A g \in Callers :
        /\ pc[g] \notin {"received", "invalidate", "done"} => got[g] = Nil
        /\ pc[g] = "idle" => req[g] = Nil /\ callReply[g] = Nil

\* The gate: no worker gets further with an unavailable product.
Gated ==
    \A g \in Callers : req[g] \in Unavailable =>
        pc[g] \in {"received", "done"} /\ got[g] = Err

Answered == KeptForItsRequest /\ NotYet /\ Gated

\* At the start nothing is cached, shared or answered.
LEMMA InitAnswered == Init => Answered
  BY NilAssumption, ConstantsAssumption
     DEF Init, Answered, KeptForItsRequest, NotYet, Gated, Everywhere

\* Every step hands a response on to the request it answers.
LEMMA NextAnswered == Typed /\ Flights /\ Answered /\ [Next]_vars => Answered'
<1> SUFFICES ASSUME Typed, Flights, Answered, [Next]_vars PROVE Answered'
  OBVIOUS
<1> USE NilAssumption, ConstantsAssumption
    DEF Typed, TypeOK, InPlace, Flights, WaiterHasLeader, Answered, KeptForItsRequest, NotYet,
        Gated, Steps, Leading, disk, calls
<1>1. ASSUME NEW g \in Callers, NEW r \in Requests, Query(g, r) PROVE Answered'
  BY <1>1 DEF Query, Return, Goto
<1>2. ASSUME NEW g \in Callers, CacheHit(g) PROVE Answered'
  BY <1>2 DEF CacheHit, Return, Goto
<1>3. ASSUME NEW g \in Callers, CacheMiss(g) PROVE Answered'
  BY <1>3 DEF CacheMiss, Goto
<1>4. ASSUME NEW g \in Callers, EvictOnMiss(g) PROVE Answered'
  BY <1>4 DEF EvictOnMiss, Goto, DiskWrite, Without
<1>5. ASSUME NEW g \in Callers, JoinFlight(g) PROVE Answered'
  BY <1>5 DEF JoinFlight, Goto
<1>6. ASSUME NEW g \in Callers, LeadFlight(g) PROVE Answered'
  BY <1>6 DEF LeadFlight, Goto
<1>7. ASSUME NEW g \in Callers, WakeWaiter(g) PROVE Answered'
  BY <1>7 DEF WakeWaiter, Return, Goto
<1>8. ASSUME NEW g \in Callers, NEW kind \in ResponseKinds, BackendAnswers(g, kind) PROVE Answered'
  <2> DEFINE answer == [request |-> req[g], id |-> Cardinality(fetched) + 1, kind |-> kind]
  <2>1. req[g] \in Requests
    BY <1>8 DEF BackendAnswers
  <2>2. answer \in Response /\ answer.request = req[g]
    BY <2>1, AnswerType
  <2>3. /\ fetched' = fetched \cup {answer}
        /\ Conclude(g, answer)
        /\ pc[g] = "dispatch"
        /\ UNCHANGED <<req, store, callDone, waitOn, refused, restarts, cacheOn>>
    BY <1>8 DEF BackendAnswers
  <2> HIDE DEF answer
  <2> QED
    BY <2>1, <2>2, <2>3 DEF Conclude, Return, Goto
<1>9. ASSUME NEW g \in Callers, BackendFails(g) PROVE Answered'
  BY <1>9 DEF BackendFails, Conclude, Return, Goto
<1>10. ASSUME NEW g \in Callers, BackendThrottles(g) PROVE Answered'
  BY <1>10 DEF BackendThrottles, Goto
<1>11. ASSUME NEW g \in Callers, BackendPanics(g) PROVE Answered'
  BY <1>11 DEF BackendPanics, Return, Goto
<1>12. ASSUME NEW g \in Callers, BackoffElapses(g) PROVE Answered'
  BY <1>12 DEF BackoffElapses, Goto
<1>13. ASSUME NEW g \in Callers, RetryWindowExpires(g) PROVE Answered'
  BY <1>13 DEF RetryWindowExpires, Conclude, Return, Goto
<1>14. ASSUME NEW g \in Callers, PutCache(g) PROVE Answered'
  BY <1>14 DEF PutCache, Goto, DiskWrite
<1>15. ASSUME NEW g \in Callers, ReleaseFlight(g) PROVE Answered'
  BY <1>15 DEF ReleaseFlight, Goto
<1>16. ASSUME NEW g \in Callers, CloseDone(g) PROVE Answered'
  BY <1>16 DEF CloseDone, Return, Goto
<1>17. ASSUME NEW g \in Callers, Parse(g) PROVE Answered'
  BY <1>17 DEF Parse, Goto
<1>18. ASSUME NEW g \in Callers, Invalidate(g) PROVE Answered'
  BY <1>18 DEF Invalidate, Goto, Without
<1>19. ASSUME NEW r \in Requests, EntryDies(r) PROVE Answered'
  BY <1>19 DEF EntryDies
<1>20. ASSUME Restart PROVE Answered'
  BY <1>20 DEF Restart, Everywhere, NoFlights, DiskWrite
<1>21. ASSUME UNCHANGED vars PROVE Answered'
  BY <1>21 DEF vars
<1> QED
  BY <1>1, <1>2, <1>3, <1>4, <1>5, <1>6, <1>7, <1>8, <1>9, <1>10, <1>11, <1>12, <1>13,
     <1>14, <1>15, <1>16, <1>17, <1>18, <1>19, <1>20, <1>21 DEF Next, Step, Finished

\* The three layers hold in every reachable state.
LEMMA AlwaysAnswered == Spec => [](Typed /\ Flights /\ Answered)
  BY InitTyped, NextTyped, InitFlights, NextFlights, InitAnswered, NextAnswered, PTL DEF Spec

\* No worker ever gets the price of another request (Query, do).
THEOREM NoMixUp == Spec => []AnswersOwnRequest
<1>1. Answered => AnswersOwnRequest
  BY DEF Answered, KeptForItsRequest, AnswersOwnRequest
<1> QED
  BY <1>1, AlwaysAnswered, PTL

\* The cache holds only what a cloud answered to the request it is filed under:
\* no error, no other request's price (do, Put).
THEOREM CacheIsGenuine == Spec => []CacheHoldsAnswers
<1>1. Answered => CacheHoldsAnswers
  BY DEF Answered, KeptForItsRequest, CacheHoldsAnswers
<1> QED
  BY <1>1, AlwaysAnswered, PTL

(***************************************************************************)
(* Refinement.  Every step of the engine is a step of PriceOracle or       *)
(* changes nothing that the oracle sees.                                   *)
(***************************************************************************)
oracleVars == <<req, got, fetched>>

OracleStep == Oracle!Next \/ UNCHANGED oracleVars

\* At the start nobody has asked the oracle anything.
LEMMA InitOracle == Init => Oracle!Init
  BY DEF Init, Everywhere, Oracle!Init

\* To give a worker an answer to its own request, or an error, is a step of the
\* oracle, whether or not a cloud has just said it.
LEMMA AnswerIsOracleStep ==
    ASSUME NEW g \in Callers, NEW reply, req[g] # Nil, got[g] = Nil,
           req' = req, got' = [got EXCEPT ![g] = reply],
           fetched' = fetched \/ \E x \in Response : fetched' = fetched \cup {x},
           \/ reply = Err
           \/ req[g] \notin Unavailable /\ reply \in fetched' /\ reply.request = req[g]
    PROVE  OracleStep
<1>1. Oracle!Learn
  <2>1. CASE fetched' = fetched
    BY <2>1 DEF Oracle!Learn
  <2>2. CASE \E x \in Response \ fetched : fetched' = fetched \cup {x}
    BY <2>2 DEF Oracle!Learn
  <2> QED
    BY <2>1, <2>2
<1>2. reply \in {x \in fetched' : x.request = req[g]} \cup {Err}
  OBVIOUS
<1> QED
  BY <1>1, <1>2 DEF OracleStep, Oracle!Next, Oracle!Answer

\* So is to learn something without answering anybody yet.
LEMMA LearningIsOracleStep ==
    ASSUME req' = req, got' = got,
           fetched' = fetched \/ \E x \in Response : fetched' = fetched \cup {x}
    PROVE  OracleStep
<1>1. CASE fetched' = fetched
  BY <1>1 DEF OracleStep, oracleVars
<1>2. CASE \E x \in Response \ fetched : fetched' = fetched \cup {x}
  BY <1>2 DEF OracleStep, Oracle!Next, Oracle!Learn
<1> QED
  BY <1>1, <1>2

\* Every step of the query path is a step of the oracle or changes nothing it sees.
LEMMA NextOracle == Typed /\ Flights /\ Answered /\ [Next]_vars => OracleStep
<1> SUFFICES ASSUME Typed, Flights, Answered, [Next]_vars PROVE OracleStep
  OBVIOUS
<1> USE NilAssumption, ConstantsAssumption
    DEF Typed, TypeOK, InPlace, Flights, WaiterHasLeader, OnlyKeyed, Answered, KeptForItsRequest,
        NotYet, Gated, Steps, Leading, disk, calls
<1>1. ASSUME NEW g \in Callers, NEW r \in Requests, Query(g, r) PROVE OracleStep
  <2>1. req[g] = Nil /\ got[g] = Nil /\ req' = [req EXCEPT ![g] = r] /\ fetched' = fetched
    BY <1>1 DEF Query
  <2>2. got' = got \/ (r \in Unavailable /\ got' = [got EXCEPT ![g] = Err])
    BY <1>1 DEF Query, Return
  <2> QED
    BY <2>1, <2>2 DEF OracleStep, Oracle!Next, Oracle!Ask
<1>2. ASSUME NEW g \in Callers, CacheHit(g) PROVE OracleStep
  <2> DEFINE reply == store[req[g]]
  <2>1. req[g] # Nil /\ got[g] = Nil /\ req[g] \notin Unavailable
    BY <1>2 DEF CacheHit
  <2>2. reply \in fetched /\ reply.request = req[g]
    BY <1>2 DEF CacheHit
  <2>3. req' = req /\ fetched' = fetched /\ got' = [got EXCEPT ![g] = reply]
    BY <1>2 DEF CacheHit, Return
  <2> HIDE DEF reply
  <2> QED
    BY <2>1, <2>2, <2>3, AnswerIsOracleStep
<1>3. ASSUME NEW g \in Callers, CacheMiss(g) PROVE OracleStep
  BY <1>3 DEF CacheMiss, Goto, OracleStep, oracleVars
<1>4. ASSUME NEW g \in Callers, EvictOnMiss(g) PROVE OracleStep
  BY <1>4 DEF EvictOnMiss, Goto, OracleStep, oracleVars
<1>5. ASSUME NEW g \in Callers, JoinFlight(g) PROVE OracleStep
  BY <1>5 DEF JoinFlight, Goto, OracleStep, oracleVars
<1>6. ASSUME NEW g \in Callers, LeadFlight(g) PROVE OracleStep
  BY <1>6 DEF LeadFlight, Goto, OracleStep, oracleVars
<1>7. ASSUME NEW g \in Callers, WakeWaiter(g) PROVE OracleStep
  <2> DEFINE reply == callReply[waitOn[g]]
  <2>1. /\ req[g] # Nil /\ got[g] = Nil /\ req[g] \notin Unavailable
        /\ waitOn[g] \in Callers /\ callDone[waitOn[g]] /\ req[waitOn[g]] = req[g]
    BY <1>7 DEF WakeWaiter
  <2>2. reply = Err \/ (reply \in fetched /\ reply.request = req[g])
    BY <2>1
  <2>3. req' = req /\ fetched' = fetched /\ got' = [got EXCEPT ![g] = reply]
    BY <1>7 DEF WakeWaiter, Return
  <2> HIDE DEF reply
  <2> QED
    BY <2>1, <2>2, <2>3, AnswerIsOracleStep
<1>8. ASSUME NEW g \in Callers, NEW kind \in ResponseKinds, BackendAnswers(g, kind) PROVE OracleStep
  <2> DEFINE answer == [request |-> req[g], id |-> Cardinality(fetched) + 1, kind |-> kind]
  <2>1. req[g] \in Requests /\ got[g] = Nil /\ req[g] \notin Unavailable
    BY <1>8 DEF BackendAnswers
  <2>2. answer \in Response /\ answer.request = req[g]
    BY <2>1, AnswerType
  <2>3. fetched' = fetched \cup {answer} /\ Conclude(g, answer) /\ req' = req
    BY <1>8 DEF BackendAnswers
  <2> HIDE DEF answer
  <2>4. CASE Keyed(g)
    BY <2>2, <2>3, <2>4, LearningIsOracleStep DEF Conclude
  <2>5. CASE ~Keyed(g)
    BY <2>1, <2>2, <2>3, <2>5, AnswerIsOracleStep DEF Conclude, Return
  <2> QED
    BY <2>4, <2>5
<1>9. ASSUME NEW g \in Callers, BackendFails(g) PROVE OracleStep
  BY <1>9, AnswerIsOracleStep, LearningIsOracleStep DEF BackendFails, Conclude, Return
<1>10. ASSUME NEW g \in Callers, BackendThrottles(g) PROVE OracleStep
  BY <1>10 DEF BackendThrottles, Goto, OracleStep, oracleVars
<1>11. ASSUME NEW g \in Callers, BackendPanics(g) PROVE OracleStep
  BY <1>11, AnswerIsOracleStep, LearningIsOracleStep DEF BackendPanics, Return
<1>12. ASSUME NEW g \in Callers, BackoffElapses(g) PROVE OracleStep
  BY <1>12 DEF BackoffElapses, Goto, OracleStep, oracleVars
<1>13. ASSUME NEW g \in Callers, RetryWindowExpires(g) PROVE OracleStep
  BY <1>13, AnswerIsOracleStep, LearningIsOracleStep DEF RetryWindowExpires, Conclude, Return
<1>14. ASSUME NEW g \in Callers, PutCache(g) PROVE OracleStep
  BY <1>14 DEF PutCache, Goto, OracleStep, oracleVars
<1>15. ASSUME NEW g \in Callers, ReleaseFlight(g) PROVE OracleStep
  BY <1>15 DEF ReleaseFlight, Goto, OracleStep, oracleVars
<1>16. ASSUME NEW g \in Callers, CloseDone(g) PROVE OracleStep
  <2> DEFINE reply == callReply[g]
  <2>1. req[g] # Nil /\ got[g] = Nil /\ req[g] \notin Unavailable
    BY <1>16 DEF CloseDone
  <2>2. reply = Err \/ (reply \in fetched /\ reply.request = req[g])
    BY <1>16 DEF CloseDone
  <2>3. req' = req /\ fetched' = fetched /\ got' = [got EXCEPT ![g] = reply]
    BY <1>16 DEF CloseDone, Return
  <2> HIDE DEF reply
  <2> QED
    BY <2>1, <2>2, <2>3, AnswerIsOracleStep
<1>17. ASSUME NEW g \in Callers, Parse(g) PROVE OracleStep
  BY <1>17 DEF Parse, Goto, OracleStep, oracleVars
<1>18. ASSUME NEW g \in Callers, Invalidate(g) PROVE OracleStep
  BY <1>18 DEF Invalidate, Goto, OracleStep, oracleVars
<1>19. ASSUME NEW r \in Requests, EntryDies(r) PROVE OracleStep
  BY <1>19 DEF EntryDies, OracleStep, oracleVars
<1>20. ASSUME Restart PROVE OracleStep
  BY <1>20 DEF Restart, Everywhere, OracleStep, Oracle!Next, Oracle!Forget
<1>21. ASSUME UNCHANGED vars PROVE OracleStep
  BY <1>21 DEF vars, OracleStep, oracleVars
<1> QED
  BY <1>1, <1>2, <1>3, <1>4, <1>5, <1>6, <1>7, <1>8, <1>9, <1>10, <1>11, <1>12, <1>13,
     <1>14, <1>15, <1>16, <1>17, <1>18, <1>19, <1>20, <1>21 DEF Next, Step, Finished

\* Query implements the safety part of PriceOracle: the cache, the shared calls,
\* the retries and the evictions are invisible to who asks for a price.
THEOREM QueryImplementsOracle == Spec => Oracle!Safe
<1>1. OracleStep => [Oracle!Next]_<<req, got, fetched>>
  BY DEF OracleStep, oracleVars
<1> QED
  BY <1>1, InitOracle, NextOracle, AlwaysAnswered, PTL DEF Oracle!Safe, Oracle!oracleVars, Spec

(***************************************************************************)
(* Rejected.  A response about to be written to the cache is new to        *)
(* everybody but the leader that writes it: nobody can have rejected it,   *)
(* so once a response has been rejected nobody has still to write it.      *)
(***************************************************************************)
HistoryKept ==
    /\ refused \subseteq fetched
    /\ \A x \in fetched : x.id <= Cardinality(fetched)

Unseen(h) ==
    /\ callReply[h] \notin refused
    /\ \A r \in Requests : store[r] # callReply[h]
    /\ \A g \in Callers : got[g] # callReply[h]
    /\ \A g \in Callers \ {h} : callReply[g] # callReply[h]

PutsAreUnseen == \A h \in Callers : pc[h] = "put" => Unseen(h)

Discarded ==
    HistoryKept /\ PutsAreUnseen /\ RejectedStaysOut

\* At the start no response has been evicted.
LEMMA InitDiscarded == Init => Discarded
  BY FS_EmptySet, NilAssumption
     DEF Init, Discarded, HistoryKept, PutsAreUnseen, RejectedStaysOut, Everywhere

\* No step writes a response that some worker may already have evicted.
LEMMA NextDiscarded ==
    Typed /\ Flights /\ Answered /\ Discarded /\ [Next]_vars => Discarded'
<1> SUFFICES ASSUME Typed, Flights, Answered, Discarded, [Next]_vars PROVE Discarded'
  OBVIOUS
<1> USE NilAssumption
    DEF Typed, TypeOK, InPlace, OnlyKeyed, DoneAfterClose, Flights, Answered, KeptForItsRequest, NotYet,
        Discarded, HistoryKept, Unseen, PutsAreUnseen, RejectedStaysOut, Steps, Leading, disk, calls
<1>1. ASSUME NEW g \in Callers, NEW r \in Requests, Query(g, r) PROVE Discarded'
  BY <1>1 DEF Query, Return, Goto
<1>2. ASSUME NEW g \in Callers, CacheHit(g) PROVE Discarded'
  BY <1>2 DEF CacheHit, Return, Goto
<1>3. ASSUME NEW g \in Callers, CacheMiss(g) PROVE Discarded'
  BY <1>3 DEF CacheMiss, Goto
<1>4. ASSUME NEW g \in Callers, EvictOnMiss(g) PROVE Discarded'
  BY <1>4 DEF EvictOnMiss, Goto, DiskWrite, Without
<1>5. ASSUME NEW g \in Callers, JoinFlight(g) PROVE Discarded'
  BY <1>5 DEF JoinFlight, Goto
<1>6. ASSUME NEW g \in Callers, LeadFlight(g) PROVE Discarded'
  BY <1>6 DEF LeadFlight, Goto
<1>7. ASSUME NEW g \in Callers, WakeWaiter(g) PROVE Discarded'
  BY <1>7 DEF WakeWaiter, Return, Goto
<1>8. ASSUME NEW g \in Callers, NEW kind \in ResponseKinds, BackendAnswers(g, kind) PROVE Discarded'
  <2> DEFINE answer == [request |-> req[g], id |-> Cardinality(fetched) + 1, kind |-> kind]
  <2>1. req[g] \in Requests /\ answer \in Response
    BY <1>8, AnswerType DEF BackendAnswers
  <2>2. Cardinality(fetched) \in Nat
    BY FS_CardinalityType
  <2>3. answer \notin fetched
    BY <2>2
  <2>4. Cardinality(fetched \cup {answer}) = Cardinality(fetched) + 1
    BY <2>3, FS_AddElement
  <2>5. \A x \in fetched : x.id \in Nat
    BY DEF Response
  <2>6. \A x \in fetched \cup {answer} : x.id <= Cardinality(fetched \cup {answer})
    BY <2>2, <2>4, <2>5
  <2>7. /\ fetched' = fetched \cup {answer}
        /\ Conclude(g, answer)
        /\ UNCHANGED <<req, store, refused>>
    BY <1>8 DEF BackendAnswers
  <2> HIDE DEF answer
  <2>8. HistoryKept' /\ RejectedStaysOut'
    BY <2>6, <2>7
  <2>9. /\ answer \notin refused
        /\ \A r \in Requests : store[r] # answer
        /\ \A h \in Callers : got[h] # answer /\ callReply[h] # answer
    BY <2>1, <2>3
  <2>10. PutsAreUnseen'
    BY <2>1, <2>7, <2>9 DEF Conclude, Return, Goto
  <2> QED
    BY <2>8, <2>10
<1>9. ASSUME NEW g \in Callers, BackendFails(g) PROVE Discarded'
  BY <1>9 DEF BackendFails, Conclude, Return, Goto
<1>10. ASSUME NEW g \in Callers, BackendThrottles(g) PROVE Discarded'
  BY <1>10 DEF BackendThrottles, Goto
<1>11. ASSUME NEW g \in Callers, BackendPanics(g) PROVE Discarded'
  BY <1>11 DEF BackendPanics, Return, Goto
<1>12. ASSUME NEW g \in Callers, BackoffElapses(g) PROVE Discarded'
  BY <1>12 DEF BackoffElapses, Goto
<1>13. ASSUME NEW g \in Callers, RetryWindowExpires(g) PROVE Discarded'
  BY <1>13 DEF RetryWindowExpires, Conclude, Return, Goto
<1>14. ASSUME NEW g \in Callers, PutCache(g) PROVE Discarded'
  BY <1>14 DEF PutCache, Goto, DiskWrite
<1>15. ASSUME NEW g \in Callers, ReleaseFlight(g) PROVE Discarded'
  BY <1>15 DEF ReleaseFlight, Goto
<1>16. ASSUME NEW g \in Callers, CloseDone(g) PROVE Discarded'
  BY <1>16 DEF CloseDone, Return, Goto
<1>17. ASSUME NEW g \in Callers, Parse(g) PROVE Discarded'
  BY <1>17 DEF Parse, Goto
<1>18. ASSUME NEW g \in Callers, Invalidate(g) PROVE Discarded'
  BY <1>18 DEF Invalidate, Goto, Without
<1>19. ASSUME NEW r \in Requests, EntryDies(r) PROVE Discarded'
  BY <1>19 DEF EntryDies
<1>20. ASSUME Restart PROVE Discarded'
  BY <1>20 DEF Restart, Everywhere, NoFlights, DiskWrite
<1>21. ASSUME UNCHANGED vars PROVE Discarded'
  BY <1>21 DEF vars
<1> QED
  BY <1>1, <1>2, <1>3, <1>4, <1>5, <1>6, <1>7, <1>8, <1>9, <1>10, <1>11, <1>12, <1>13,
     <1>14, <1>15, <1>16, <1>17, <1>18, <1>19, <1>20, <1>21 DEF Next, Step, Finished

\* What a mapper has rejected and evicted never comes back into the cache, in
\* this process or in a later one (Invalidate, do).
THEOREM RejectionIsFinal == Spec => []RejectedStaysOut
<1>1. Discarded => RejectedStaysOut
  BY DEF Discarded
<1>2. Spec => []Discarded
  BY AlwaysAnswered, InitDiscarded, NextDiscarded, PTL DEF Spec
<1> QED
  BY <1>1, <1>2, PTL

(***************************************************************************)
(* Attended.  While neither faults nor restarts interfere, whoever puts a  *)
(* response that will be rejected into the cache goes on to reject it.     *)
(***************************************************************************)
OnlyWithCache ==
    restarts = 0 => \A r \in Requests : store[r] # Nil => cacheOn

OnlyKeyedStored == \A r \in Requests : store[r] # Nil => r \notin Unkeyed

PutsNeedCache == \A g \in Callers : pc[g] \in {"get", "evict", "put"} => cacheOn

Attended == PoisonIsAttended /\ OnlyWithCache /\ OnlyKeyedStored /\ PutsNeedCache

\* At the start the cache is empty.
LEMMA InitAttended == Init => Attended
  BY DEF Init, Attended, PoisonIsAttended, OnlyWithCache, OnlyKeyedStored, PutsNeedCache, Everywhere

\* An answer in a worker's hands stays there until the worker is done with it.
LEMMA NextAttended ==
    Typed /\ Flights /\ Answered /\ Attended /\ [Next]_vars => Attended'
<1> SUFFICES ASSUME Typed, Flights, Answered, Attended, [Next]_vars PROVE Attended'
  OBVIOUS
<1> USE NilAssumption, ConstantsAssumption
    DEF Typed, TypeOK, InPlace, OnlyKeyed, Flights, Answered, KeptForItsRequest, Keyed,
        Attended, PoisonIsAttended, Owes, OnlyWithCache, OnlyKeyedStored, PutsNeedCache,
        Steps, Leading, disk, calls
<1>1. ASSUME NEW g \in Callers, NEW r \in Requests, Query(g, r) PROVE Attended'
  BY <1>1 DEF Query, Return, Goto
<1>2. ASSUME NEW g \in Callers, CacheHit(g) PROVE Attended'
  BY <1>2 DEF CacheHit, Return, Goto
<1>3. ASSUME NEW g \in Callers, CacheMiss(g) PROVE Attended'
  BY <1>3 DEF CacheMiss, Goto
<1>4. ASSUME NEW g \in Callers, EvictOnMiss(g) PROVE Attended'
  BY <1>4 DEF EvictOnMiss, Goto, DiskWrite, Without
<1>5. ASSUME NEW g \in Callers, JoinFlight(g) PROVE Attended'
  BY <1>5 DEF JoinFlight, Goto
<1>6. ASSUME NEW g \in Callers, LeadFlight(g) PROVE Attended'
  BY <1>6 DEF LeadFlight, Goto
<1>7. ASSUME NEW g \in Callers, WakeWaiter(g) PROVE Attended'
  BY <1>7 DEF WakeWaiter, Return, Goto
<1>8. ASSUME NEW g \in Callers, NEW kind \in ResponseKinds, BackendAnswers(g, kind) PROVE Attended'
  BY <1>8 DEF BackendAnswers, Conclude, Return, Goto
<1>9. ASSUME NEW g \in Callers, BackendFails(g) PROVE Attended'
  BY <1>9 DEF BackendFails, Conclude, Return, Goto
<1>10. ASSUME NEW g \in Callers, BackendThrottles(g) PROVE Attended'
  BY <1>10 DEF BackendThrottles, Goto
<1>11. ASSUME NEW g \in Callers, BackendPanics(g) PROVE Attended'
  BY <1>11 DEF BackendPanics, Return, Goto
<1>12. ASSUME NEW g \in Callers, BackoffElapses(g) PROVE Attended'
  BY <1>12 DEF BackoffElapses, Goto
<1>13. ASSUME NEW g \in Callers, RetryWindowExpires(g) PROVE Attended'
  BY <1>13 DEF RetryWindowExpires, Conclude, Return, Goto
<1>14. ASSUME NEW g \in Callers, PutCache(g) PROVE Attended'
  BY <1>14 DEF PutCache, Goto, DiskWrite
<1>15. ASSUME NEW g \in Callers, ReleaseFlight(g) PROVE Attended'
  BY <1>15 DEF ReleaseFlight, Goto
<1>16. ASSUME NEW g \in Callers, CloseDone(g) PROVE Attended'
  BY <1>16 DEF CloseDone, Return, Goto
<1>17. ASSUME NEW g \in Callers, Parse(g) PROVE Attended'
  BY <1>17 DEF Parse, Goto
<1>18. ASSUME NEW g \in Callers, Invalidate(g) PROVE Attended'
  BY <1>18 DEF Invalidate, Goto, Without
<1>19. ASSUME NEW r \in Requests, EntryDies(r) PROVE Attended'
  BY <1>19 DEF EntryDies
<1>20. ASSUME Restart PROVE Attended'
  BY <1>20 DEF Restart, Everywhere, NoFlights, DiskWrite
<1>21. ASSUME UNCHANGED vars PROVE Attended'
  BY <1>21 DEF vars
<1> QED
  BY <1>1, <1>2, <1>3, <1>4, <1>5, <1>6, <1>7, <1>8, <1>9, <1>10, <1>11, <1>12, <1>13,
     <1>14, <1>15, <1>16, <1>17, <1>18, <1>19, <1>20, <1>21 DEF Next, Step, Finished

\* As long as writes succeed and the process lives, a rejected response is in the
\* cache only while somebody is going to evict it (priceResource).
THEOREM PoisonNeverStays == Spec => []PoisonIsAttended
<1>1. Attended => PoisonIsAttended
  BY DEF Attended
<1>2. Spec => []Attended
  BY AlwaysAnswered, InitAttended, NextAttended, PTL DEF Spec
<1> QED
  BY <1>1, <1>2, PTL

(***************************************************************************)
(* The counters.  Each of them is the size of a set: of the workers that   *)
(* have looked into the cache, and of the calls that have come to an end,  *)
(* one for each attempt of a worker.  The sets grow by an element at a     *)
(* time, so they are finite whatever the number of workers is.             *)
(***************************************************************************)
Looked == {g \in Callers : /\ cacheOn
                           /\ req[g] # Nil
                           /\ req[g] \notin Unavailable \cup Unkeyed
                           /\ pc[g] \notin {"get", "evict"}}
Ended(g) == IF pc[g] = "dispatch" THEN attempt[g] - 1 ELSE attempt[g]
Made == {call \in Callers \X (Nat \ {0}) : call[2] <= Ended(call[1])}
Started == {g \in Callers : attempt[g] > 0}

\* A worker that is about to look has not looked, and its attempts are bounded.
InBudget(g) ==
    /\ pc[g] = "idle" => req[g] = Nil
    /\ pc[g] \in {"get", "evict"} => cacheOn /\ req[g] \notin Unavailable \cup Unkeyed
    /\ pc[g] \in {"idle", "get", "evict", "do", "wait"} => attempt[g] = 0
    /\ pc[g] \in {"dispatch", "backoff"} => attempt[g] >= 1
    /\ attempt[g] <= Attempts
    /\ pc[g] = "backoff" => attempt[g] < Attempts

Counted ==
    /\ \A g \in Callers : InBudget(g)
    /\ IsFiniteSet(Looked) /\ IsFiniteSet(Made) /\ IsFiniteSet(Started)
    /\ stats.cacheHits + stats.cacheMisses = Cardinality(Looked)
    /\ stats.backendCalls <= Cardinality(Made)

\* Nothing has been counted at the start.
LEMMA InitCounted == Init => Counted
<1> SUFFICES ASSUME Init PROVE Counted
  OBVIOUS
<1>1. Looked = {} /\ Made = {} /\ Started = {}
  BY DEF Init, Looked, Made, Started, Ended, Everywhere
<1>2. \A g \in Callers : InBudget(g)
  BY AttemptsType DEF Init, InBudget, Everywhere
<1> QED
  BY <1>1, <1>2, FS_EmptySet DEF Init, Counted, ZeroStats

\* A step of g leaves the other workers where they are.
OnlyBy(g) ==
    /\ cacheOn' = cacheOn
    /\ \A h \in Callers \ {g} : pc'[h] = pc[h] /\ req'[h] = req[h] /\ attempt'[h] = attempt[h]

\* A worker moves on, and there is nothing to count.
LEMMA QuietStepCounted ==
    ASSUME Typed, Counted, NEW g \in Callers, OnlyBy(g), InBudget(g)', stats' = stats,
           g \in Looked' <=> g \in Looked, Ended(g)' = Ended(g)
    PROVE  Counted'
<1>1. Looked' = Looked
  BY DEF OnlyBy, Looked
<1>2. Made' = Made
  BY DEF OnlyBy, Made, Ended
<1>3. IsFiniteSet(Started')
  <2>1. Started' \subseteq Started \cup {g}
    BY DEF OnlyBy, Started
  <2> QED
    BY <2>1, FS_AddElement, FS_Subset DEF Counted
<1>4. \A h \in Callers : InBudget(h)'
  BY DEF OnlyBy, Counted, InBudget
<1> QED
  BY <1>1, <1>2, <1>3, <1>4 DEF Counted

\* A worker has looked into the cache.
LEMMA LookCounted ==
    ASSUME Typed, Counted, NEW g \in Callers, OnlyBy(g), InBudget(g)',
           stats'.cacheHits + stats'.cacheMisses = stats.cacheHits + stats.cacheMisses + 1,
           stats'.backendCalls = stats.backendCalls,
           g \in Looked', g \notin Looked, Ended(g)' = Ended(g)
    PROVE  Counted'
<1>1. Looked' = Looked \cup {g}
  BY DEF OnlyBy, Looked
<1>2. Made' = Made
  BY DEF OnlyBy, Made, Ended
<1>3. IsFiniteSet(Started')
  <2>1. Started' \subseteq Started \cup {g}
    BY DEF OnlyBy, Started
  <2> QED
    BY <2>1, FS_AddElement, FS_Subset DEF Counted
<1>4. \A h \in Callers : InBudget(h)'
  BY DEF OnlyBy, Counted, InBudget
<1>5. IsFiniteSet(Looked') /\ Cardinality(Looked') = Cardinality(Looked) + 1
  BY <1>1, FS_AddElement DEF Counted
<1> QED
  BY <1>2, <1>3, <1>4, <1>5 DEF Counted

\* A call has ended, and is counted or, if it has panicked, is not.
LEMMA CallCounted ==
    ASSUME Typed, Counted, NEW g \in Callers, OnlyBy(g), InBudget(g)',
           stats'.cacheHits = stats.cacheHits, stats'.cacheMisses = stats.cacheMisses,
           stats'.backendCalls \in {stats.backendCalls, stats.backendCalls + 1},
           pc[g] = "dispatch", pc'[g] \in {"put", "release", "received", "backoff"},
           req' = req, attempt' = attempt
    PROVE  Counted'
<1>1. Looked' = Looked
  BY DEF OnlyBy, Looked
<1>2. Made' = Made \cup {<<g, attempt[g]>>} /\ <<g, attempt[g]>> \notin Made
  <2>1. attempt[g] \in Nat \ {0}
    BY DEF Typed, TypeOK, Counted, InBudget
  <2>2. Ended(g) = attempt[g] - 1 /\ Ended(g)' = attempt[g]
    BY DEF Ended
  <2>3. \A h \in Callers \ {g} : Ended(h)' = Ended(h)
    BY DEF OnlyBy, Ended
  <2>4. ASSUME NEW n \in Nat \ {0}
        PROVE  n <= attempt[g] <=> n <= attempt[g] - 1 \/ n = attempt[g]
    BY <2>1
  <2>5. \A h \in Callers, n \in Nat \ {0} :
          n <= Ended(h)' <=> n <= Ended(h) \/ (h = g /\ n = attempt[g])
    BY <2>2, <2>3, <2>4
  <2>6. ~(attempt[g] <= Ended(g))
    BY <2>1, <2>2
  <2> QED
    BY <2>1, <2>5, <2>6 DEF Made
<1>3. Started' = Started
  BY DEF Started
<1>4. \A h \in Callers : InBudget(h)'
  BY DEF OnlyBy, Counted, InBudget
<1>5. IsFiniteSet(Made') /\ Cardinality(Made') = Cardinality(Made) + 1
  BY <1>2, FS_AddElement DEF Counted
<1>6. Cardinality(Made) \in Nat
  BY FS_CardinalityType DEF Counted
<1> QED
  BY <1>1, <1>3, <1>4, <1>5, <1>6 DEF Counted, Typed, TypeOK

\* Every step is counted as it should be, one case per action.
LEMMA NextCounted ==
    Typed /\ Flights /\ Counted /\ [Next]_vars => Counted'
<1> SUFFICES ASSUME Typed, Flights, Counted, [Next]_vars PROVE Counted'
  OBVIOUS
<1>1. ASSUME NEW g \in Callers, NEW r \in Requests, Query(g, r) PROVE Counted'
  <2>1. OnlyBy(g) /\ stats' = stats /\ g \notin Looked /\ g \notin Looked'
    BY <1>1 DEF Query, Return, Goto, OnlyBy, Looked, Counted, InBudget, Typed, TypeOK
  <2>2. InBudget(g)' /\ Ended(g)' = Ended(g)
    BY <1>1, AttemptsType, ConstantsAssumption
       DEF Query, Return, Goto, InBudget, Ended, Counted, Typed, TypeOK, Attempts, maxRetries,
           DefaultMaxRetries
  <2> QED
    BY <2>1, <2>2, QuietStepCounted
<1>2. ASSUME NEW g \in Callers, CacheHit(g) PROVE Counted'
  <2>1. OnlyBy(g) /\ InBudget(g)' /\ Ended(g)' = Ended(g) /\ g \notin Looked /\ g \in Looked'
    BY <1>2, NilAssumption
       DEF CacheHit, Return, Goto, OnlyBy, Looked, InBudget, Ended, Counted, Typed, TypeOK, InPlace
  <2>2. /\ stats'.cacheHits = stats.cacheHits + 1 /\ stats'.cacheMisses = stats.cacheMisses
        /\ stats'.backendCalls = stats.backendCalls
        /\ stats.cacheHits \in Nat /\ stats.cacheMisses \in Nat
    BY <1>2 DEF CacheHit, Count, Typed, TypeOK
  <2> QED
    BY <2>1, <2>2, LookCounted
<1>3. ASSUME NEW g \in Callers, CacheMiss(g) PROVE Counted'
  <2>1. OnlyBy(g) /\ stats' = stats /\ (g \in Looked' <=> g \in Looked)
    BY <1>3 DEF CacheMiss, Goto, OnlyBy, Looked, Typed, TypeOK
  <2>2. InBudget(g)' /\ Ended(g)' = Ended(g)
    BY <1>3, AttemptsType DEF CacheMiss, Goto, InBudget, Ended, Counted, Typed, TypeOK
  <2> QED
    BY <2>1, <2>2, QuietStepCounted
<1>4. ASSUME NEW g \in Callers, EvictOnMiss(g) PROVE Counted'
  <2>1. OnlyBy(g) /\ InBudget(g)' /\ Ended(g)' = Ended(g) /\ g \notin Looked /\ g \in Looked'
    BY <1>4, NilAssumption
       DEF EvictOnMiss, Goto, OnlyBy, Looked, InBudget, Ended, Counted, Typed, TypeOK, InPlace
  <2>2. /\ stats'.cacheMisses = stats.cacheMisses + 1 /\ stats'.cacheHits = stats.cacheHits
        /\ stats'.backendCalls = stats.backendCalls
        /\ stats.cacheHits \in Nat /\ stats.cacheMisses \in Nat
    BY <1>4 DEF EvictOnMiss, Count, Typed, TypeOK
  <2> QED
    BY <2>1, <2>2, LookCounted
<1>5. ASSUME NEW g \in Callers, JoinFlight(g) PROVE Counted'
  <2>1. OnlyBy(g) /\ stats' = stats /\ (g \in Looked' <=> g \in Looked)
    BY <1>5 DEF JoinFlight, Goto, OnlyBy, Looked, Typed, TypeOK
  <2>2. InBudget(g)' /\ Ended(g)' = Ended(g)
    BY <1>5, AttemptsType DEF JoinFlight, Goto, InBudget, Ended, Counted, Typed, TypeOK
  <2> QED
    BY <2>1, <2>2, QuietStepCounted
<1>6. ASSUME NEW g \in Callers, LeadFlight(g) PROVE Counted'
  <2>1. OnlyBy(g) /\ stats' = stats /\ (g \in Looked' <=> g \in Looked)
    BY <1>6 DEF LeadFlight, Goto, OnlyBy, Looked, Typed, TypeOK
  <2>2. InBudget(g)' /\ Ended(g)' = Ended(g)
    BY <1>6, AttemptsType, ConstantsAssumption
       DEF LeadFlight, Goto, InBudget, Ended, Counted, Typed, TypeOK, Attempts, maxRetries,
           DefaultMaxRetries
  <2> QED
    BY <2>1, <2>2, QuietStepCounted
<1>7. ASSUME NEW g \in Callers, WakeWaiter(g) PROVE Counted'
  <2>1. OnlyBy(g) /\ stats' = stats /\ (g \in Looked' <=> g \in Looked)
    BY <1>7 DEF WakeWaiter, Return, Goto, OnlyBy, Looked, Typed, TypeOK
  <2>2. InBudget(g)' /\ Ended(g)' = Ended(g)
    BY <1>7, AttemptsType DEF WakeWaiter, Return, Goto, InBudget, Ended, Counted, Typed, TypeOK
  <2> QED
    BY <2>1, <2>2, QuietStepCounted
<1>8. ASSUME NEW g \in Callers, NEW kind \in ResponseKinds, BackendAnswers(g, kind) PROVE Counted'
  <2>1. /\ OnlyBy(g) /\ req' = req /\ attempt' = attempt
        /\ pc[g] = "dispatch" /\ pc'[g] \in {"put", "release", "received"}
    BY <1>8 DEF BackendAnswers, Conclude, Return, Goto, Count, OnlyBy, Typed, TypeOK
  <2>2. InBudget(g)'
    BY <2>1 DEF OnlyBy, InBudget, Counted
  <2>3. /\ stats'.cacheHits = stats.cacheHits /\ stats'.cacheMisses = stats.cacheMisses
        /\ stats'.backendCalls \in {stats.backendCalls, stats.backendCalls + 1}
    BY <1>8 DEF BackendAnswers, Conclude, Return, Goto, Count, Typed, TypeOK
  <2> QED
    BY <2>1, <2>2, <2>3, CallCounted
<1>9. ASSUME NEW g \in Callers, BackendFails(g) PROVE Counted'
  <2>1. /\ OnlyBy(g) /\ req' = req /\ attempt' = attempt
        /\ pc[g] = "dispatch" /\ pc'[g] \in {"put", "release", "received"}
    BY <1>9 DEF BackendFails, Conclude, Return, Goto, Count, OnlyBy, Typed, TypeOK
  <2>2. InBudget(g)'
    BY <2>1 DEF OnlyBy, InBudget, Counted
  <2>3. /\ stats'.cacheHits = stats.cacheHits /\ stats'.cacheMisses = stats.cacheMisses
        /\ stats'.backendCalls \in {stats.backendCalls, stats.backendCalls + 1}
    BY <1>9 DEF BackendFails, Conclude, Return, Goto, Count, Typed, TypeOK
  <2> QED
    BY <2>1, <2>2, <2>3, CallCounted
<1>10. ASSUME NEW g \in Callers, BackendThrottles(g) PROVE Counted'
  <2>1. /\ OnlyBy(g) /\ req' = req /\ attempt' = attempt
        /\ pc[g] = "dispatch" /\ pc'[g] \in {"put", "release", "received", "backoff"}
    BY <1>10 DEF BackendThrottles, Goto, Count, OnlyBy, Typed, TypeOK
  <2>2. InBudget(g)'
    BY <1>10, <2>1 DEF BackendThrottles, Goto, Count, InBudget, Counted
  <2>3. /\ stats'.cacheHits = stats.cacheHits /\ stats'.cacheMisses = stats.cacheMisses
        /\ stats'.backendCalls \in {stats.backendCalls, stats.backendCalls + 1}
    BY <1>10 DEF BackendThrottles, Goto, Count, Typed, TypeOK
  <2> QED
    BY <2>1, <2>2, <2>3, CallCounted
<1>11. ASSUME NEW g \in Callers, BackendPanics(g) PROVE Counted'
  <2>1. /\ OnlyBy(g) /\ req' = req /\ attempt' = attempt
        /\ pc[g] = "dispatch" /\ pc'[g] \in {"put", "release", "received"}
    BY <1>11 DEF BackendPanics, Return, Goto, OnlyBy, Typed, TypeOK
  <2>2. InBudget(g)'
    BY <2>1 DEF OnlyBy, InBudget, Counted
  <2>3. /\ stats'.cacheHits = stats.cacheHits /\ stats'.cacheMisses = stats.cacheMisses
        /\ stats'.backendCalls \in {stats.backendCalls, stats.backendCalls + 1}
    BY <1>11 DEF BackendPanics, Return, Goto, Typed, TypeOK
  <2> QED
    BY <2>1, <2>2, <2>3, CallCounted
<1>12. ASSUME NEW g \in Callers, BackoffElapses(g) PROVE Counted'
  <2>1. OnlyBy(g) /\ stats' = stats /\ (g \in Looked' <=> g \in Looked)
    BY <1>12 DEF BackoffElapses, Goto, OnlyBy, Looked, Typed, TypeOK
  <2>2. InBudget(g)' /\ Ended(g)' = Ended(g)
    BY <1>12, AttemptsType DEF BackoffElapses, Goto, InBudget, Ended, Counted, Typed, TypeOK
  <2> QED
    BY <2>1, <2>2, QuietStepCounted
<1>13. ASSUME NEW g \in Callers, RetryWindowExpires(g) PROVE Counted'
  <2>1. OnlyBy(g) /\ stats' = stats /\ (g \in Looked' <=> g \in Looked)
    BY <1>13 DEF RetryWindowExpires, Conclude, Return, Goto, OnlyBy, Looked, Typed, TypeOK
  <2>2. InBudget(g)' /\ Ended(g)' = Ended(g)
    BY <1>13, AttemptsType DEF RetryWindowExpires, Conclude, Return, Goto, InBudget, Ended, Counted, Typed, TypeOK
  <2> QED
    BY <2>1, <2>2, QuietStepCounted
<1>14. ASSUME NEW g \in Callers, PutCache(g) PROVE Counted'
  <2>1. OnlyBy(g) /\ stats' = stats /\ (g \in Looked' <=> g \in Looked)
    BY <1>14 DEF PutCache, Goto, OnlyBy, Looked, Typed, TypeOK
  <2>2. InBudget(g)' /\ Ended(g)' = Ended(g)
    BY <1>14, AttemptsType DEF PutCache, Goto, InBudget, Ended, Counted, Typed, TypeOK
  <2> QED
    BY <2>1, <2>2, QuietStepCounted
<1>15. ASSUME NEW g \in Callers, ReleaseFlight(g) PROVE Counted'
  <2>1. OnlyBy(g) /\ stats' = stats /\ (g \in Looked' <=> g \in Looked)
    BY <1>15 DEF ReleaseFlight, Goto, OnlyBy, Looked, Typed, TypeOK
  <2>2. InBudget(g)' /\ Ended(g)' = Ended(g)
    BY <1>15, AttemptsType DEF ReleaseFlight, Goto, InBudget, Ended, Counted, Typed, TypeOK
  <2> QED
    BY <2>1, <2>2, QuietStepCounted
<1>16. ASSUME NEW g \in Callers, CloseDone(g) PROVE Counted'
  <2>1. OnlyBy(g) /\ stats' = stats /\ (g \in Looked' <=> g \in Looked)
    BY <1>16 DEF CloseDone, Return, Goto, OnlyBy, Looked, Typed, TypeOK
  <2>2. InBudget(g)' /\ Ended(g)' = Ended(g)
    BY <1>16, AttemptsType DEF CloseDone, Return, Goto, InBudget, Ended, Counted, Typed, TypeOK
  <2> QED
    BY <2>1, <2>2, QuietStepCounted
<1>17. ASSUME NEW g \in Callers, Parse(g) PROVE Counted'
  <2>1. OnlyBy(g) /\ stats' = stats /\ (g \in Looked' <=> g \in Looked)
    BY <1>17 DEF Parse, Goto, OnlyBy, Looked, Typed, TypeOK
  <2>2. InBudget(g)' /\ Ended(g)' = Ended(g)
    BY <1>17, AttemptsType DEF Parse, Goto, InBudget, Ended, Counted, Typed, TypeOK
  <2> QED
    BY <2>1, <2>2, QuietStepCounted
<1>18. ASSUME NEW g \in Callers, Invalidate(g) PROVE Counted'
  <2>1. OnlyBy(g) /\ stats' = stats /\ (g \in Looked' <=> g \in Looked)
    BY <1>18 DEF Invalidate, Goto, OnlyBy, Looked, Typed, TypeOK
  <2>2. InBudget(g)' /\ Ended(g)' = Ended(g)
    BY <1>18, AttemptsType DEF Invalidate, Goto, InBudget, Ended, Counted, Typed, TypeOK
  <2> QED
    BY <2>1, <2>2, QuietStepCounted
<1>19. ASSUME NEW r \in Requests, EntryDies(r) PROVE Counted'
  BY <1>19 DEF EntryDies, Counted, Looked, Made, Started, Ended, InBudget
<1>20. ASSUME Restart PROVE Counted'
  <2>1. /\ pc' = Everywhere("idle") /\ req' = Everywhere(Nil)
        /\ attempt' = Everywhere(0) /\ stats' = ZeroStats
    BY <1>20 DEF Restart
  <2>2. Looked' = {} /\ Made' = {} /\ Started' = {}
    BY <2>1 DEF Looked, Made, Started, Ended, Everywhere
  <2>3. \A g \in Callers : InBudget(g)'
    BY <2>1, AttemptsType DEF InBudget, Everywhere
  <2> QED
    BY <2>1, <2>2, <2>3, FS_EmptySet DEF Counted, ZeroStats
<1>21. ASSUME UNCHANGED vars PROVE Counted'
  BY <1>21 DEF vars, Counted, Looked, Made, Started, Ended, InBudget
<1> QED
  BY <1>1, <1>2, <1>3, <1>4, <1>5, <1>6, <1>7, <1>8, <1>9, <1>10, <1>11, <1>12, <1>13,
     <1>14, <1>15, <1>16, <1>17, <1>18, <1>19, <1>20, <1>21 DEF Next, Step, Finished

\* The counters of the run summary add up, and no worker has spent more than the
\* retry budget (Query, dispatchWithRetry).
THEOREM CountersAddUp == Spec => []StatsAddUp
<1>1. ASSUME Typed, Counted PROVE StatsAddUp
  <2> DEFINE grid == Started \X (1..Attempts)
  <2>1. Attempts \in Nat /\ IsFiniteSet(1..Attempts) /\ Cardinality(1..Attempts) = Attempts
    BY AttemptsType, FS_Interval
  <2>2. IsFiniteSet(grid) /\ Cardinality(grid) = Cardinality(Started) * Attempts
    <3>1. IsFiniteSet(Started)
      BY <1>1 DEF Counted
    <3>2. Cardinality(grid) = Cardinality(Started) * Cardinality(1..Attempts) /\ IsFiniteSet(grid)
      BY <2>1, <3>1, FS_Product, Zenon
    <3> QED
      BY <2>1, <3>2, Zenon
  <2>3. Made \subseteq grid
    BY <1>1, <2>1 DEF Made, Started, Ended, Counted, InBudget, Typed, TypeOK
  <2>4. Cardinality(Made) <= Cardinality(grid)
    BY <2>2, <2>3, FS_Subset
  <2>5. Cardinality(Made) \in Nat /\ Cardinality(Started) \in Nat
    BY <1>1, FS_CardinalityType DEF Counted
  <2>6. stats.backendCalls <= Attempts * Cardinality(Started)
    BY <1>1, <2>1, <2>2, <2>4, <2>5 DEF Counted, Typed, TypeOK
  <2> QED
    BY <1>1, <2>6 DEF StatsAddUp, Counted, Looked, Started
<1>2. Spec => [](Typed /\ Counted)
  BY AlwaysFlights, InitCounted, NextCounted, PTL DEF Spec
<1> QED
  BY <1>1, <1>2, PTL

=============================================================================
