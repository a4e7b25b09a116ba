------------------------ MODULE ReportPipelineProofs ------------------------
(***************************************************************************)
(* What holds of a run of the command for any plans, any number of passes  *)
(* and of workers, whatever pricing a resource comes to, checked by TLAPS. *)
(***************************************************************************)
EXTENDS ReportPipeline, DataLemmas

(***************************************************************************)
(* Sequences as sets.  The proofs follow the resources of a plan through   *)
(* the channels and the lists of the report as sets; that no list has an   *)
(* element twice is what makes that enough.                                *)
(***************************************************************************)
OneToOne(s) == \A i, j \in DOMAIN s : s[i] = s[j] => i = j

\* A new element at the end.
LEMMA AppendToSet ==
    ASSUME NEW S, NEW s \in Seq(S), NEW e \in S
    PROVE  /\ Append(s, e) \in Seq(S)
           /\ Range(Append(s, e)) = Range(s) \cup {e}
           /\ OneToOne(s) /\ e \notin Range(s) => OneToOne(Append(s, e))
<1>1. /\ Append(s, e) \in Seq(S) /\ Len(Append(s, e)) = Len(s) + 1
      /\ \A i \in 1..Len(s) : Append(s, e)[i] = s[i]
      /\ Append(s, e)[Len(s) + 1] = e
  BY AppendProperties
<1>2. /\ Len(s) \in Nat /\ DOMAIN s = 1..Len(s)
      /\ DOMAIN Append(s, e) = 1..(Len(s) + 1)
  BY <1>1, LenProperties
<1> DEFINE t == Append(s, e)
<1> HIDE DEF t
<1>3. Range(t) = Range(s) \cup {e}
  BY <1>1, <1>2 DEF t, Range
<1>4. OneToOne(s) /\ e \notin Range(s) => OneToOne(t)
  BY <1>1, <1>2 DEF t, Range, OneToOne
<1> QED
  BY <1>1, <1>3, <1>4 DEF t

\* The head of a sequence is its first element, and the others follow.
LEMMA HeadAndTail ==
    ASSUME NEW S, NEW s \in Seq(S), s # <<>>
    PROVE  /\ Head(s) = s[1] /\ Tail(s) \in Seq(S)
           /\ Len(s) \in Nat \ {0} /\ Len(Tail(s)) = Len(s) - 1
           /\ \A i \in 1..Len(Tail(s)) : Tail(s)[i] = s[i + 1]
  BY HeadTailProperties, EmptySeq

\* The first element is taken out.
LEMMA HeadOffSet ==
    ASSUME NEW S, NEW s \in Seq(S), s # <<>>, OneToOne(s)
    PROVE  /\ Head(s) \in S /\ Tail(s) \in Seq(S) /\ Head(s) = s[1]
           /\ Head(s) \in Range(s)
           /\ Range(Tail(s)) = Range(s) \ {Head(s)}
           /\ OneToOne(Tail(s))
<1>1. /\ Head(s) \in S /\ Tail(s) \in Seq(S) /\ Len(Tail(s)) = Len(s) - 1
      /\ \A i \in 1..Len(Tail(s)) : Tail(s)[i] = s[i + 1]
      /\ Head(s) = s[1]
  BY HeadTailProperties
<1>2. /\ Len(s) \in Nat \ {0} /\ DOMAIN s = 1..Len(s)
      /\ DOMAIN Tail(s) = 1..(Len(s) - 1)
  BY <1>1, LenProperties, EmptySeq
<1> DEFINE t == Tail(s)
<1> HIDE DEF t
<1>3. /\ \A i \in 1..(Len(s) - 1) : t[i] = s[i + 1]
      /\ DOMAIN t = 1..(Len(s) - 1)
  BY <1>1, <1>2 DEF t
<1>4. s[1] \in Range(s)
  BY <1>2 DEF Range
<1>5. ASSUME NEW x \in Range(t) PROVE x \in Range(s) \ {s[1]}
  BY <1>2, <1>3, <1>5 DEF Range, OneToOne
<1>6. ASSUME NEW x \in Range(s) \ {s[1]} PROVE x \in Range(t)
  <2>1. PICK i \in 1..Len(s) : x = s[i] /\ i # 1
    BY <1>2, <1>6 DEF Range
  <2>2. i - 1 \in 1..(Len(s) - 1) /\ i - 1 + 1 = i
    BY <1>2, <2>1
  <2>3. t[i - 1] = x
    BY <1>3, <2>1, <2>2
  <2> QED
    BY <1>3, <2>2, <2>3 DEF Range
<1>7. OneToOne(t)
  BY <1>2, <1>3 DEF OneToOne
<1> QED
  BY <1>1, <1>4, <1>5, <1>6, <1>7 DEF t

\* Two sequences that list the same elements, each once, are equally long.
LEMMA SameLength ==
    ASSUME NEW S, NEW s \in Seq(S), NEW t \in Seq(S),
           OneToOne(s), OneToOne(t), Range(s) = Range(t)
    PROVE  Len(s) = Len(t)
<1>1. ASSUME NEW u \in Seq(S), OneToOne(u) PROVE Cardinality(Range(u)) = Len(u)
  <2>1. /\ Len(u) \in Nat /\ DOMAIN u = 1..Len(u) /\ u \in [1..Len(u) -> S]
    BY LenProperties
  <2>2. u \in Bijection(1..Len(u), Range(u))
    BY <1>1, <2>1 DEF Bijection, Injection, Surjection, IsInjective, OneToOne, Range
  <2> QED
    BY <2>1, <2>2, FS_CountingElements DEF ExistsBijection
<1> QED
  BY <1>1

\* Sorting keeps what is in a list, and puts a list without duplicates in order.
LEMMA AscendingLists ==
    ASSUME NEW s \in Seq(Nat)
    PROVE  /\ Ascending(s) \in Seq(Nat)
           /\ Range(Ascending(s)) = Range(s)
           /\ OneToOne(s) => OneToOne(Ascending(s)) /\ Lists(Ascending(s), Range(s))
<1> DEFINE n == Len(s)
           order == CHOOSE f \in Bijection(1..n, 1..n) :
                      \A i, j \in 1..n : i < j => s[f[i]] <= s[f[j]]
           t == Ascending(s)
<1>1. n \in Nat /\ s \in [1..n -> Nat] /\ DOMAIN s = 1..n
  BY LenProperties
<1>2. /\ order \in Bijection(1..n, 1..n)
      /\ \A i, j \in 1..n : i < j => s[order[i]] <= s[order[j]]
  <2>1. \E f \in Bijection(1..n, 1..n) : \A i, j \in 1..n : i < j => s[f[i]] <= s[f[j]]
    BY <1>1, SortingExists DEF Sorts
  <2> QED
    BY <2>1, Zenon
<1>3. t = [i \in 1..n |-> s[order[i]]]
  BY DEF Ascending
<1> HIDE DEF n, order, t
<1>4. /\ \A i \in 1..n : order[i] \in 1..n
      /\ \A i, j \in 1..n : order[i] = order[j] => i = j
      /\ \A i \in 1..n : \E j \in 1..n : order[j] = i
  BY <1>2 DEF Bijection, Injection, Surjection, IsInjective
<1>5. t \in [1..n -> Nat] /\ DOMAIN t = 1..n
  BY <1>1, <1>3, <1>4
<1>6. t \in Seq(Nat)
  BY <1>1, <1>5, SeqDef
<1>7. Range(t) = Range(s)
  <2>1. \A x : x \in Range(t) => x \in Range(s)
    BY <1>1, <1>3, <1>4, <1>5 DEF Range
  <2>2. ASSUME NEW x \in Range(s) PROVE x \in Range(t)
    <3>1. PICK i \in 1..n : s[i] = x
      BY <1>1 DEF Range
    <3>2. PICK j \in 1..n : order[j] = i
      BY <1>4
    <3>3. t[j] = x
      BY <1>3, <3>1, <3>2
    <3> QED
      BY <1>5, <3>3 DEF Range
  <2> QED
    BY <2>1, <2>2
<1>8. ASSUME OneToOne(s) PROVE OneToOne(t)
  <2>1. \A i \in 1..n : t[i] = s[order[i]]
    BY <1>3
  <2>2. ASSUME NEW i \in 1..n, NEW j \in 1..n, t[i] = t[j] PROVE i = j
    <3>0. \A a, b \in 1..n : s[a] = s[b] => a = b
      BY <1>1, <1>8 DEF OneToOne
    <3>1. order[i] \in 1..n /\ order[j] \in 1..n /\ s[order[i]] = s[order[j]]
      BY <1>4, <2>1, <2>2
    <3>2. order[i] = order[j]
      BY <3>0, <3>1, Zenon
    <3> QED
      BY <1>4, <3>2, Zenon
  <2> QED
    BY <1>5, <2>2 DEF OneToOne
<1>9. ASSUME OneToOne(s) PROVE Lists(t, Range(s))
  <2>1. ASSUME NEW i \in 1..n, NEW j \in 1..n, i < j PROVE t[i] < t[j]
    <3>1. t[i] <= t[j] /\ t[i] \in Nat /\ t[j] \in Nat
      BY <1>2, <1>3, <1>5, <2>1
    <3>2. t[i] # t[j]
      BY <1>5, <1>8, <1>9, <2>1 DEF OneToOne
    <3> QED
      BY <3>1, <3>2
  <2> QED
    BY <1>5, <1>7, <2>1 DEF Lists
<1> QED
  BY <1>6, <1>7, <1>8, <1>9 DEF t

(***************************************************************************)
(* The inductive invariant, one pass at a time.  A position of the plan is *)
(* waiting in the jobs channel, held by one worker, or out of their hands  *)
(* and then in exactly one place: in the results channel or in the list of *)
(* the report that what pricing it came to calls for.                      *)
(***************************************************************************)
Whats == {"cost", "skip", "err"}
Result == [address : Nat, what : Whats]
Report == [resources : Seq(Nat), skipped : Seq(Nat), errs : Seq(Nat)]
Stages == {"load", "feed", "collect", "returned"}
Places == {"absent", "recv", "pricing", "send", "gone"}

\* The state is a function of the pass in every variable that is kept by pass.
Shape ==
    /\ stage \in [Passes -> Stages]
    /\ DOMAIN fed = Passes /\ DOMAIN jobs = Passes /\ DOMAIN jobsClosed = Passes
    /\ DOMAIN results = Passes /\ DOMAIN resultsClosed = Passes
    /\ DOMAIN wpc = Passes /\ DOMAIN wjob = Passes /\ DOMAIN wres = Passes
    /\ DOMAIN rep = Passes /\ DOMAIN failed = Passes /\ DOMAIN outcome = Passes

PassTyped(p) ==
    /\ fed[p] \in 0..Size(p)
    /\ jobs[p] \in Seq(1..Size(p)) /\ Len(jobs[p]) <= Size(p)
    /\ results[p] \in Seq(Result) /\ Len(results[p]) <= Size(p)
    /\ jobsClosed[p] \in BOOLEAN /\ resultsClosed[p] \in BOOLEAN /\ failed[p] \in BOOLEAN
    /\ wpc[p] \in [Workers(p) -> Places]
    /\ wjob[p] \in [Workers(p) -> 0..Size(p)]
    /\ wres[p] \in [Workers(p) -> Result \cup {NoResult}]
    /\ rep[p] \in Report
    /\ outcome[p] \in [1..Size(p) -> Kinds \cup {"none"}]

\* What the stage of a pass says of its goroutines and of its channels.
Untouched(p) ==
    /\ fed[p] = 0 /\ jobs[p] = <<>> /\ results[p] = <<>> /\ rep[p] = EmptyReport
    /\ ~jobsClosed[p] /\ ~resultsClosed[p]
    /\ \A w \in Workers(p) : wpc[p][w] = "absent"
    /\ \A i \in 1..Size(p) : outcome[p][i] = "none"

Staged(p) ==
    /\ stage[p] = "load" => Untouched(p)
    /\ stage[p] \in {"feed", "collect"} => \A w \in Workers(p) : wpc[p][w] # "absent"
    /\ stage[p] = "feed" => ~jobsClosed[p]
    /\ jobsClosed[p] => fed[p] = Size(p)
    /\ resultsClosed[p] => \A w \in Workers(p) : wpc[p][w] = "gone"
    /\ \A w \in Workers(p) : wpc[p][w] = "gone" => jobsClosed[p] /\ jobs[p] = <<>>
    /\ stage[p] = "returned" =>
         \/ Untouched(p) /\ failed[p]
         \/ /\ resultsClosed[p] /\ results[p] = <<>>
            /\ Lists(rep[p].resources, Range(rep[p].resources))
            /\ Lists(rep[p].skipped, Range(rep[p].skipped))
            /\ rep[p].errs # <<>> => failed[p]

\* The positions that workers have received, and those they are done with.
Taken(p) == fed[p] - Len(jobs[p])
Busy(p, w) == wpc[p][w] \in {"pricing", "send"}
Out(p) == {i \in 1..Taken(p) : \A w \in Workers(p) : Busy(p, w) => wjob[p][w] # i}
Due(p, i) == ResultOf(Plan[p][i], outcome[p][i])

Queued(p) ==
    /\ Len(jobs[p]) <= fed[p]
    /\ \A j \in 1..Len(jobs[p]) : jobs[p][j] = Taken(p) + j

Held(p) ==
    /\ \A w \in Workers(p) : Busy(p, w) => wjob[p][w] \in 1..Taken(p)
    /\ \A v, w \in Workers(p) : Busy(p, v) /\ Busy(p, w) /\ wjob[p][v] = wjob[p][w] => v = w
    /\ \A w \in Workers(p) : wpc[p][w] = "pricing" => outcome[p][wjob[p][w]] = "none"
    /\ \A w \in Workers(p) : wpc[p][w] = "send" =>
         outcome[p][wjob[p][w]] \in Kinds /\ wres[p][w] = Due(p, wjob[p][w])

Priced(p) ==
    \A i \in 1..Size(p) : /\ i > Taken(p) => outcome[p][i] = "none"
                          /\ i \in Out(p) => outcome[p][i] \in Kinds

Filed(p, what) ==
    IF what = "cost" THEN rep[p].resources ELSE IF what = "skip" THEN rep[p].skipped ELSE rep[p].errs

Delivered(p) ==
    /\ OneToOne(results[p])
    /\ \A r \in Range(results[p]) : \E i \in Out(p) : r = Due(p, i)
    /\ \A what \in Whats :
         /\ OneToOne(Filed(p, what))
         /\ \A a \in Range(Filed(p, what)) :
              \E i \in Out(p) : /\ Plan[p][i] = a /\ Due(p, i).what = what
                                /\ Due(p, i) \notin Range(results[p])
    /\ \A i \in Out(p) : \/ Due(p, i) \in Range(results[p])
                         \/ Plan[p][i] \in Range(Filed(p, Due(p, i).what))

PassInv(p) == PassTyped(p) /\ Staged(p) /\ Queued(p) /\ Held(p) /\ Priced(p) /\ Delivered(p)

\* The exit code is decided when every pass has returned, and by what they return.
Ended ==
    /\ engineOpen \in BOOLEAN /\ exit \in {Running, 0, 1, 2}
    /\ exit # Running <=> ~engineOpen
    /\ exit # Running => Joined
    /\ exit = 0 => ~PolicyViolated /\ \A p \in Passes : ~failed[p]

PipelineInv == opts \in Options /\ Shape /\ Ended /\ \A p \in Passes : PassInv(p)

(***************************************************************************)
(* The constants.                                                          *)
(***************************************************************************)

\* A plan is a sequence of addresses, no two of them the same.
LEMMA PlanType ==
    ASSUME NEW p \in Passes
    PROVE  /\ Size(p) \in Nat /\ Plan[p] \in Seq(Nat)
           /\ \A i \in 1..Size(p) : Plan[p][i] \in Nat
           /\ DOMAIN Plan[p] = 1..Size(p)
           /\ \A i, j \in 1..Size(p) : Plan[p][i] = Plan[p][j] => i = j
<1>1. Plan[p] \in Seq(Nat) /\ \A i, j \in DOMAIN Plan[p] : Plan[p][i] = Plan[p][j] => i = j
  BY ConstantsAssumption
<1> QED
  BY <1>1, LenProperties, ElementOfSeq DEF Size

\* A pass has at least one worker, and keeps those it has.
LEMMA WorkersType ==
    ASSUME NEW p \in Passes, opts \in Options
    PROVE  1 \in Workers(p) /\ Workers(p) \subseteq Nat
<1>1. opts.concurrency \in Int
  BY ConstantsAssumption
<1> QED
  BY <1>1, PlanType DEF Workers, PoolSize

LEMMA SameWorkers ==
    ASSUME NEW p, opts' = opts
    PROVE  Workers(p)' = Workers(p)
  BY DEF Workers, PoolSize, Size

\* What pricing comes to is filed as a cost, as skipped or as an error.
LEMMA ResultType ==
    ASSUME NEW a \in Nat, NEW kind \in Kinds
    PROVE  /\ ResultOf(a, kind) \in Result
           /\ ResultOf(a, kind).address = a
           /\ ResultOf(a, kind).what = "cost" <=> kind \in Costs
           /\ ResultOf(a, kind).what = "err" <=> kind \in Errors /\ opts.failOnError
  BY ConstantsAssumption DEF ResultOf, Result, Whats, Costs, Skips, Errors

\* Results of different positions are different.
LEMMA DueApart ==
    ASSUME NEW p \in Passes, NEW i \in 1..Size(p), NEW j \in 1..Size(p), Due(p, i) = Due(p, j)
    PROVE  i = j
<1>1. Due(p, i).address = Plan[p][i] /\ Due(p, j).address = Plan[p][j]
  BY DEF Due, ResultOf
<1> QED
  BY <1>1, PlanType

(***************************************************************************)
(* One step of one pass leaves the other passes alone.                     *)
(***************************************************************************)
Same(q) ==
    /\ stage'[q] = stage[q] /\ fed'[q] = fed[q]
    /\ jobs'[q] = jobs[q] /\ jobsClosed'[q] = jobsClosed[q]
    /\ results'[q] = results[q] /\ resultsClosed'[q] = resultsClosed[q]
    /\ wpc'[q] = wpc[q] /\ wjob'[q] = wjob[q] /\ wres'[q] = wres[q]
    /\ rep'[q] = rep[q] /\ failed'[q] = failed[q] /\ outcome'[q] = outcome[q]

\* A pass that a step leaves alone keeps its invariant.
LEMMA PassUntouched ==
    ASSUME NEW q \in Passes, PassInv(q), Same(q), opts' = opts
    PROVE  PassInv(q)'
<1> USE DEF Same
<1>1. Workers(q)' = Workers(q) /\ Size(q)' = Size(q)
  BY SameWorkers DEF Size
<1>2. \A a, kind : ResultOf(a, kind)' = ResultOf(a, kind)
  BY DEF ResultOf
<1>3. Taken(q)' = Taken(q) /\ \A w : Busy(q, w)' = Busy(q, w)
  BY DEF Taken, Busy
<1>4. \A i : Due(q, i)' = Due(q, i)
  BY <1>2 DEF Due, ResultOf
<1>5. Out(q)' = Out(q)
  BY <1>1, <1>3 DEF Out
<1>6. \A what : Filed(q, what)' = Filed(q, what)
  BY DEF Filed
<1>7. PassTyped(q)'
  BY <1>1 DEF PassInv, PassTyped
<1>8. Staged(q)'
  BY <1>1 DEF PassInv, Staged, Untouched
<1>9. Queued(q)' /\ Priced(q)'
  BY <1>1, <1>3, <1>5 DEF PassInv, Queued, Priced
<1>10. Held(q)'
  BY <1>1, <1>3, <1>4 DEF PassInv, Held
<1>11. Delivered(q)'
  BY <1>4, <1>5, <1>6 DEF PassInv, Delivered
<1> QED
  BY <1>7, <1>8, <1>9, <1>10, <1>11 DEF PassInv

\* What the proof of a step of a pass comes to.
PassKept(p) ==
    /\ Shape' /\ opts' = opts /\ engineOpen' = engineOpen /\ exit' = exit
    /\ stage[p] # "returned"
    /\ PassInv(p)'
    /\ \A q \in Passes \ {p} : Same(q)

LEMMA PassStepKeeps ==
    ASSUME PipelineInv, NEW p \in Passes, PassKept(p)
    PROVE  PipelineInv'
<1>1. \A q \in Passes : PassInv(q)'
  BY PassUntouched DEF PipelineInv, PassKept
<1>2. exit = Running
  BY DEF PipelineInv, PassKept, Ended, Joined
<1>3. Ended'
  BY <1>2 DEF PipelineInv, PassKept, Ended, Running
<1> QED
  BY <1>1, <1>3 DEF PipelineInv, PassKept

\* What is out of the workers' hands stays where it is.
LEMMA DeliveredStays ==
    ASSUME NEW p \in Passes, Delivered(p), results'[p] = results[p], rep'[p] = rep[p],
           Out(p)' = Out(p), \A i \in Out(p) : Due(p, i)' = Due(p, i)
    PROVE  Delivered(p)'
<1>1. \A what : Filed(p, what)' = Filed(p, what)
  BY DEF Filed
<1> QED
  BY <1>1 DEF Delivered

\* Steps that neither hand a resource on nor touch a worker that has one.
Quiet(p) ==
    /\ opts' = opts
    /\ results'[p] = results[p] /\ rep'[p] = rep[p] /\ outcome'[p] = outcome[p]
    /\ wjob'[p] = wjob[p] /\ wres'[p] = wres[p]
    /\ Taken(p)' = Taken(p)
    /\ \A w \in Workers(p) : \/ wpc'[p][w] = wpc[p][w]
                             \/ ~Busy(p, w) /\ ~Busy(p, w)'

LEMMA QuietStep ==
    ASSUME NEW p \in Passes, PassInv(p), Quiet(p)
    PROVE  Held(p)' /\ Priced(p)' /\ Delivered(p)'
<1> USE DEF Quiet
<1>1. Workers(p)' = Workers(p) /\ Size(p)' = Size(p)
  BY SameWorkers DEF Size
<1>2. \A i : Due(p, i)' = Due(p, i)
  BY DEF Due, ResultOf
<1>3. \A w \in Workers(p) : Busy(p, w)' = Busy(p, w)
  BY DEF Busy
<1>4. Out(p)' = Out(p)
  BY <1>1, <1>3 DEF Out
<1>5. Held(p)'
  <2>1. \A w \in Workers(p) : wpc'[p][w] \in {"pricing", "send"} => wpc'[p][w] = wpc[p][w]
    BY DEF Busy
  <2> QED
    BY <1>1, <1>2, <1>3, <2>1 DEF PassInv, Held
<1>6. Priced(p)'
  BY <1>1, <1>4 DEF PassInv, Priced
<1>7. Delivered(p)'
  BY <1>2, <1>4, DeliveredStays DEF PassInv
<1> QED
  BY <1>5, <1>6, <1>7

(***************************************************************************)
(* The steps of a pass, one lemma per action.                              *)
(***************************************************************************)
\* A pass that cannot load its plan starts nothing.
LEMMA LoadFailsKeeps ==
    ASSUME PipelineInv, NEW p \in Passes, LoadFails(p)
    PROVE  PassKept(p)
<1> USE DEF PipelineInv, Shape, LoadFails, channels, workers, command
<1>1. Shape' /\ \A q \in Passes \ {p} : Same(q)
  BY DEF Same, Stages
<1>2. Workers(p)' = Workers(p) /\ Size(p)' = Size(p)
  BY SameWorkers DEF Size
<1>3. Quiet(p)
  BY DEF Quiet, Taken
<1>4. PassTyped(p)'
  BY <1>2 DEF PassInv, PassTyped
<1>5. Staged(p)'
  BY <1>2 DEF PassInv, Staged, Untouched
<1>6. Queued(p)'
  BY <1>2 DEF PassInv, Queued, Taken
<1> QED
  BY <1>1, <1>3, <1>4, <1>5, <1>6, QuietStep DEF PassKept, PassInv

\* Starting a pass brings its workers to life.
LEMMA StartKeeps ==
    ASSUME PipelineInv, NEW p \in Passes, Start(p)
    PROVE  PassKept(p)
<1> USE DEF PipelineInv, Shape, Start, channels, command
<1>1. Shape' /\ \A q \in Passes \ {p} : Same(q)
  BY DEF Same, Stages
<1>2. Workers(p)' = Workers(p) /\ Size(p)' = Size(p)
  BY SameWorkers DEF Size
<1>3. Untouched(p) /\ wpc'[p] = [w \in Workers(p) |-> "recv"]
  BY DEF PassInv, Staged
<1>4. Quiet(p)
  BY <1>3 DEF Quiet, Taken, Untouched, Busy
<1>5. PassTyped(p)'
  BY <1>2, <1>3 DEF PassInv, PassTyped, Places
<1>6. Staged(p)'
  BY <1>2, <1>3 DEF PassInv, Staged, Untouched
<1>7. Queued(p)'
  BY <1>2 DEF PassInv, Queued, Taken
<1> QED
  BY <1>1, <1>4, <1>5, <1>6, <1>7, QuietStep DEF PassKept, PassInv

\* The next position joins the others behind the last one fed.
LEMMA FeedKeeps ==
    ASSUME PipelineInv, NEW p \in Passes, Feed(p)
    PROVE  PassKept(p)
<1> USE DEF PipelineInv, Shape, Feed, workers, command
<1>1. Shape' /\ \A q \in Passes \ {p} : Same(q)
  BY DEF Same
<1>2. Workers(p)' = Workers(p) /\ Size(p)' = Size(p)
  BY SameWorkers DEF Size
<1>3. /\ fed[p] \in Nat /\ fed[p] + 1 \in 1..Size(p) /\ Size(p) \in Nat
      /\ fed'[p] = fed[p] + 1
      /\ jobs'[p] = Append(jobs[p], fed[p] + 1)
      /\ jobs[p] \in Seq(1..Size(p)) /\ Len(jobs[p]) \in Nat /\ Len(jobs[p]) < Size(p)
  BY PlanType, LenProperties DEF PassInv, PassTyped, Buffer
<1>4. /\ jobs'[p] \in Seq(1..Size(p))
      /\ Len(jobs'[p]) = Len(jobs[p]) + 1
      /\ \A j \in 1..Len(jobs[p]) : jobs'[p][j] = jobs[p][j]
      /\ jobs'[p][Len(jobs[p]) + 1] = fed[p] + 1
  BY <1>3, AppendProperties
<1>5. Taken(p)' = Taken(p)
  BY <1>3, <1>4 DEF Taken
<1>6. Quiet(p)
  BY <1>5 DEF Quiet
<1>7. PassTyped(p)'
  BY <1>2, <1>3, <1>4 DEF PassInv, PassTyped
<1>8. Staged(p)'
  BY <1>2, <1>3, <1>4 DEF PassInv, Staged
<1>9. Queued(p)'
  <2>1. \A j \in 1..Len(jobs[p]) : jobs'[p][j] = Taken(p) + j
    BY <1>4 DEF PassInv, Queued
  <2>2. jobs'[p][Len(jobs[p]) + 1] = Taken(p) + (Len(jobs[p]) + 1)
    BY <1>3, <1>4 DEF Taken
  <2>3. \A j \in 1..Len(jobs'[p]) : j \in 1..Len(jobs[p]) \/ j = Len(jobs[p]) + 1
    BY <1>3, <1>4
  <2>4. Len(jobs'[p]) <= fed'[p]
    BY <1>3, <1>4 DEF PassInv, Queued
  <2> QED
    BY <1>5, <2>1, <2>2, <2>3, <2>4 DEF Queued
<1> QED
  BY <1>1, <1>6, <1>7, <1>8, <1>9, QuietStep DEF PassKept, PassInv

\* The feeder closes the jobs channel only after the last resource.
LEMMA CloseJobsKeeps ==
    ASSUME PipelineInv, NEW p \in Passes, CloseJobs(p)
    PROVE  PassKept(p)
<1> USE DEF PipelineInv, Shape, CloseJobs, workers, command
<1>1. Shape' /\ \A q \in Passes \ {p} : Same(q)
  BY DEF Same, Stages
<1>2. Workers(p)' = Workers(p) /\ Size(p)' = Size(p)
  BY SameWorkers DEF Size
<1>3. Quiet(p)
  BY DEF Quiet, Taken
<1>4. PassTyped(p)'
  BY <1>2 DEF PassInv, PassTyped
<1>5. Staged(p)'
  BY <1>2 DEF PassInv, Staged
<1>6. Queued(p)'
  BY <1>2 DEF PassInv, Queued, Taken
<1> QED
  BY <1>1, <1>3, <1>4, <1>5, <1>6, QuietStep DEF PassKept, PassInv

\* A worker that finds nothing left goes.
LEMMA WorkerEndsKeeps ==
    ASSUME PipelineInv, NEW p \in Passes, NEW w \in Workers(p), WorkerEnds(p, w)
    PROVE  PassKept(p)
<1> USE DEF PipelineInv, Shape, WorkerEnds, channels, command
<1>1. Shape' /\ \A q \in Passes \ {p} : Same(q)
  BY DEF Same
<1>2. Workers(p)' = Workers(p) /\ Size(p)' = Size(p)
  BY SameWorkers DEF Size
<1>3. /\ wpc[p] \in [Workers(p) -> Places]
      /\ wpc'[p] = [wpc[p] EXCEPT ![w] = "gone"]
  BY DEF PassInv, PassTyped
<1>4. Quiet(p)
  BY <1>3 DEF Quiet, Taken, Busy
<1>5. PassTyped(p)'
  BY <1>2, <1>3 DEF PassInv, PassTyped, Places
<1>6. stage[p] \in {"feed", "collect"} /\ ~resultsClosed[p]
  BY DEF PassInv, Staged, Untouched, Stages
<1>7. Staged(p)'
  BY <1>2, <1>3, <1>6 DEF PassInv, Staged
<1>8. Queued(p)'
  BY <1>2 DEF PassInv, Queued, Taken
<1> QED
  BY <1>1, <1>4, <1>5, <1>6, <1>7, <1>8, QuietStep DEF PassKept, PassInv

\* The closer closes the results channel behind the last worker.
LEMMA CloseResultsKeeps ==
    ASSUME PipelineInv, NEW p \in Passes, CloseResults(p)
    PROVE  PassKept(p)
<1> USE DEF PipelineInv, Shape, CloseResults, workers, command
<1>1. Shape' /\ \A q \in Passes \ {p} : Same(q)
  BY DEF Same
<1>2. Workers(p)' = Workers(p) /\ Size(p)' = Size(p)
  BY SameWorkers DEF Size
<1>3. Quiet(p)
  BY DEF Quiet, Taken
<1>4. PassTyped(p)'
  BY <1>2 DEF PassInv, PassTyped
<1>5. Staged(p)'
  BY <1>2 DEF PassInv, Staged
<1>6. Queued(p)'
  BY <1>2 DEF PassInv, Queued, Taken
<1> QED
  BY <1>1, <1>3, <1>4, <1>5, <1>6, QuietStep DEF PassKept, PassInv

\* The first position of the channel is in the hands of the worker that takes it.
LEMMA ReceiveKeeps ==
    ASSUME PipelineInv, NEW p \in Passes, NEW w \in Workers(p), Receive(p, w)
    PROVE  PassKept(p)
<1>0. PassInv(p) /\ PassTyped(p) /\ Staged(p) /\ Queued(p) /\ Held(p) /\ Priced(p) /\ Delivered(p)
      /\ stage[p] \in Stages
  BY DEF PipelineInv, Shape, PassInv
<1>1. Shape' /\ \A q \in Passes \ {p} : Same(q)
  BY DEF PipelineInv, Shape, Receive, command, Same
<1>e. /\ opts' = opts /\ engineOpen' = engineOpen /\ exit' = exit
      /\ wpc[p][w] = "recv" /\ jobs[p] # <<>>
      /\ wpc'[p] = [wpc[p] EXCEPT ![w] = "pricing"]
      /\ wjob'[p] = [wjob[p] EXCEPT ![w] = Head(jobs[p])]
      /\ jobs'[p] = Tail(jobs[p])
      /\ stage' = stage /\ fed' = fed /\ jobsClosed' = jobsClosed /\ results' = results
      /\ resultsClosed' = resultsClosed /\ wres' = wres /\ rep' = rep /\ failed' = failed
      /\ outcome' = outcome
  BY DEF PipelineInv, Shape, Receive, command
<1>2. Workers(p)' = Workers(p) /\ Size(p)' = Size(p)
  BY <1>0, <1>e, SameWorkers DEF Size
<1>3. /\ Size(p) \in Nat /\ fed[p] \in 0..Size(p)
      /\ jobs[p] \in Seq(1..Size(p)) /\ jobs[p] # <<>>
      /\ Len(jobs[p]) \in Nat \ {0} /\ Len(jobs[p]) <= fed[p]
  BY <1>0, <1>e, PlanType, EmptySeq DEF PassTyped, Queued
<1>4. /\ Head(jobs[p]) = jobs[p][1]
      /\ jobs'[p] = Tail(jobs[p]) /\ jobs'[p] \in Seq(1..Size(p))
      /\ Len(jobs'[p]) = Len(jobs[p]) - 1
      /\ \A j \in 1..Len(jobs'[p]) : jobs'[p][j] = jobs[p][j + 1]
  <2>1. /\ Head(jobs[p]) = jobs[p][1] /\ Tail(jobs[p]) \in Seq(1..Size(p))
        /\ Len(Tail(jobs[p])) = Len(jobs[p]) - 1
        /\ \A j \in 1..Len(Tail(jobs[p])) : Tail(jobs[p])[j] = jobs[p][j + 1]
    BY <1>3, HeadAndTail, Zenon
  <2> QED
    BY <1>e, <2>1, Zenon
<1>5. /\ Taken(p) \in Nat /\ Taken(p) + 1 \in 1..Size(p)
      /\ Taken(p)' = Taken(p) + 1
      /\ Head(jobs[p]) = Taken(p) + 1
  <2>1. jobs[p][1] = Taken(p) + 1
    BY <1>0, <1>e, <1>3 DEF Queued
  <2>2. Taken(p) = fed[p] - Len(jobs[p]) /\ Taken(p)' = fed[p] - Len(jobs'[p])
    BY <1>0, <1>e DEF Taken
  <2> QED
    BY <1>0, <1>e, <1>3, <1>4, <2>1, <2>2
<1>6. /\ wpc[p] \in [Workers(p) -> Places] /\ wpc[p][w] = "recv"
      /\ wpc'[p] = [wpc[p] EXCEPT ![w] = "pricing"]
      /\ wjob[p] \in [Workers(p) -> 0..Size(p)]
      /\ wjob'[p] = [wjob[p] EXCEPT ![w] = Taken(p) + 1]
  BY <1>0, <1>e, <1>5 DEF PassTyped
<1>7. /\ Busy(p, w)' /\ ~Busy(p, w)
      /\ \A v \in Workers(p) : v # w => /\ Busy(p, v)' = Busy(p, v)
                                       /\ wjob'[p][v] = wjob[p][v]
                                       /\ wpc'[p][v] = wpc[p][v]
      /\ wjob'[p][w] = Taken(p) + 1 /\ wpc'[p][w] = "pricing"
  BY <1>0, <1>e, <1>6 DEF Busy
<1>8. Out(p)' = Out(p)
  <2>1. \A i \in 1..(Taken(p) + 1) : i \in 1..Taken(p) \/ i = Taken(p) + 1
    BY <1>0, <1>e, <1>5
  <2>2. 1..Taken(p) \subseteq 1..(Taken(p) + 1) /\ Taken(p) + 1 \notin 1..Taken(p)
    BY <1>0, <1>e, <1>5
  <2> QED
    BY <1>0, <1>e, <1>2, <1>5, <1>7, <2>1, <2>2 DEF Out
<1>9. \A i : Due(p, i)' = Due(p, i)
  BY <1>0, <1>e DEF Due, ResultOf
<1>10. PassTyped(p)'
  BY <1>0, <1>e, <1>2, <1>3, <1>4, <1>5, <1>6 DEF PassTyped, Places
<1>11. stage[p] \in {"feed", "collect"} /\ ~resultsClosed[p]
  BY <1>0, <1>e, <1>6 DEF Staged, Untouched, Stages
<1>12. Staged(p)'
  <2>1. \A v \in Workers(p) : wpc[p][v] # "gone" /\ wpc[p][v] # "absent"
    BY <1>0, <1>e, <1>3, <1>11 DEF Staged
  <2>2. \A v \in Workers(p) : wpc'[p][v] # "gone" /\ wpc'[p][v] # "absent"
    BY <1>0, <1>e, <1>7, <2>1
  <2> QED
    BY <1>0, <1>e, <1>2, <1>11, <2>2 DEF Staged
<1>13. Queued(p)'
  <2>1. ASSUME NEW j \in 1..Len(jobs'[p]) PROVE jobs'[p][j] = Taken(p) + 1 + j
    <3>1. j + 1 \in 1..Len(jobs[p]) /\ jobs'[p][j] = jobs[p][j + 1]
      BY <1>3, <1>4, <2>1
    <3>2. jobs[p][j + 1] = Taken(p) + (j + 1)
      BY <1>0, <3>1 DEF Queued
    <3> QED
      BY <1>5, <3>1, <3>2
  <2>2. Len(jobs'[p]) <= fed'[p]
    BY <1>e, <1>3, <1>4
  <2> QED
    BY <1>5, <2>1, <2>2 DEF Queued
<1>14. Held(p)'
  <2>1. outcome[p][Taken(p) + 1] = "none"
    BY <1>0, <1>e, <1>5 DEF Priced
  <2>2. \A v \in Workers(p) : Busy(p, v) => wjob[p][v] \in 1..Taken(p)
    BY <1>0, <1>e DEF Held
  <2>3. \A v \in Workers(p) : Busy(p, v)' => wjob'[p][v] \in 1..(Taken(p) + 1)
    BY <1>0, <1>e, <1>5, <1>7, <2>2
  <2>4. \A u, v \in Workers(p) :
           Busy(p, u)' /\ Busy(p, v)' /\ wjob'[p][u] = wjob'[p][v] => u = v
    BY <1>0, <1>e, <1>5, <1>7, <2>2 DEF Held
  <2> QED
    BY <1>0, <1>e, <1>2, <1>5, <1>7, <1>9, <2>1, <2>3, <2>4 DEF Held
<1>15. Priced(p)'
  BY <1>0, <1>e, <1>2, <1>3, <1>5, <1>8 DEF Priced
<1>16. Delivered(p)'
  <2>1. Delivered(p) /\ results'[p] = results[p] /\ rep'[p] = rep[p]
    BY <1>0, <1>e
  <2> QED
    BY <1>0, <1>e, <1>8, <1>9, <2>1, DeliveredStays
<1> QED
  BY <1>0, <1>e, <1>1, <1>10, <1>11, <1>12, <1>13, <1>14, <1>15, <1>16 DEF PassKept, PassInv

\* Pricing decides what becomes of a resource, once.
LEMMA PriceKeeps ==
    ASSUME PipelineInv, NEW p \in Passes, NEW w \in Workers(p), NEW kind \in Kinds,
           Price(p, w, kind)
    PROVE  PassKept(p)
<1> DEFINE job == wjob[p][w]
<1>0. PassInv(p) /\ PassTyped(p) /\ Staged(p) /\ Queued(p) /\ Held(p) /\ Priced(p) /\ Delivered(p)
      /\ stage[p] \in Stages
  BY DEF PipelineInv, Shape, PassInv
<1>1. Shape' /\ \A q \in Passes \ {p} : Same(q)
  BY DEF PipelineInv, Shape, Price, channels, command, Same
<1>e. /\ opts' = opts /\ engineOpen' = engineOpen /\ exit' = exit
      /\ wpc[p][w] = "pricing"
      /\ wpc'[p] = [wpc[p] EXCEPT ![w] = "send"]
      /\ wres'[p] = [wres[p] EXCEPT ![w] = ResultOf(Plan[p][job], kind)]
      /\ outcome'[p] = [outcome[p] EXCEPT ![job] = kind]
      /\ stage' = stage /\ fed' = fed /\ jobs' = jobs /\ jobsClosed' = jobsClosed
      /\ results' = results /\ resultsClosed' = resultsClosed /\ wjob' = wjob /\ rep' = rep
      /\ failed' = failed
  BY DEF PipelineInv, Shape, Price, channels, command
<1>2. Workers(p)' = Workers(p) /\ Size(p)' = Size(p)
  BY <1>0, <1>e, SameWorkers DEF Size
<1>3. /\ wpc[p] \in [Workers(p) -> Places] /\ wpc[p][w] = "pricing"
      /\ wpc'[p] = [wpc[p] EXCEPT ![w] = "send"]
      /\ wres[p] \in [Workers(p) -> Result \cup {NoResult}]
      /\ wres'[p] = [wres[p] EXCEPT ![w] = ResultOf(Plan[p][job], kind)]
      /\ outcome[p] \in [1..Size(p) -> Kinds \cup {"none"}]
      /\ outcome'[p] = [outcome[p] EXCEPT ![job] = kind]
      /\ wjob'[p] = wjob[p]
  BY <1>0, <1>e DEF PassTyped
<1>4. /\ Busy(p, w) /\ Taken(p) \in Int
      /\ job \in 1..Taken(p) /\ job \in 1..Size(p) /\ job \notin Out(p)
  <2>1. Size(p) \in Nat /\ Taken(p) \in Int /\ Taken(p) <= Size(p)
    BY <1>0, <1>e, PlanType, LenProperties DEF PassTyped, Taken
  <2>2. Busy(p, w) /\ job \in 1..Taken(p)
    BY <1>0, <1>e, <1>3 DEF Held, Busy
  <2> QED
    BY <1>0, <1>e, <2>1, <2>2 DEF Out
<1>5. Taken(p)' = Taken(p)
  BY <1>0, <1>e DEF Taken
<1>6. /\ \A v \in Workers(p) : Busy(p, v)' = Busy(p, v)
      /\ \A v \in Workers(p) : v # w => wpc'[p][v] = wpc[p][v] /\ wres'[p][v] = wres[p][v]
      /\ wpc'[p][w] = "send"
  BY <1>0, <1>e, <1>3 DEF Busy
<1>7. Out(p)' = Out(p)
  BY <1>0, <1>e, <1>2, <1>3, <1>5, <1>6 DEF Out
<1>8. \A i \in 1..Size(p) : i # job => outcome'[p][i] = outcome[p][i] /\ Due(p, i)' = Due(p, i)
  BY <1>0, <1>e, <1>3 DEF Due, ResultOf
<1>9. outcome'[p][job] = kind /\ Due(p, job)' = ResultOf(Plan[p][job], kind)
  BY <1>0, <1>e, <1>3, <1>4 DEF Due, ResultOf
<1>10. Out(p) \subseteq 1..Size(p) \ {job}
  <2>1. Size(p) \in Nat /\ Taken(p) \in Int /\ Taken(p) <= Size(p)
    BY <1>0, <1>e, PlanType, LenProperties DEF PassTyped, Taken
  <2> QED
    BY <1>0, <1>e, <1>4, <2>1 DEF Out
<1>11. ResultOf(Plan[p][job], kind) \in Result
  BY <1>0, <1>e, <1>4, PlanType, ResultType
<1>12. PassTyped(p)'
  BY <1>0, <1>e, <1>2, <1>3, <1>4, <1>11 DEF PassTyped, Places
<1>13. stage[p] \in {"feed", "collect"} /\ ~resultsClosed[p]
  BY <1>0, <1>e, <1>3 DEF Staged, Untouched, Stages
<1>14. Staged(p)'
  BY <1>0, <1>e, <1>2, <1>3, <1>6, <1>13 DEF Staged
<1>15. Queued(p)'
  BY <1>0, <1>e, <1>5 DEF Queued
<1>16. Held(p)'
  <2>1. \A v \in Workers(p) : v # w /\ Busy(p, v) => wjob[p][v] \in 1..Size(p) \ {job}
    <3>1. Size(p) \in Nat /\ Taken(p) \in Int /\ Taken(p) <= Size(p)
      BY <1>0, <1>e, PlanType, LenProperties DEF PassTyped, Taken
    <3>2. \A v \in Workers(p) : Busy(p, v) => wjob[p][v] \in 1..Taken(p)
      BY <1>0, <1>e DEF Held
    <3>3. \A v \in Workers(p) : v # w /\ Busy(p, v) => wjob[p][v] # job
      BY <1>0, <1>e, <1>4 DEF Held
    <3> QED
      BY <1>0, <1>e, <3>1, <3>2, <3>3
  <2>2. /\ \A v \in Workers(p) : Busy(p, v)' => wjob'[p][v] \in 1..Taken(p)'
        /\ \A u, v \in Workers(p) :
             Busy(p, u)' /\ Busy(p, v)' /\ wjob'[p][u] = wjob'[p][v] => u = v
    BY <1>0, <1>e, <1>3, <1>5, <1>6 DEF Held
  <2>3. \A v \in Workers(p) : wpc'[p][v] = "pricing" => outcome'[p][wjob'[p][v]] = "none"
    <3> SUFFICES ASSUME NEW v \in Workers(p), wpc'[p][v] = "pricing"
                 PROVE  outcome'[p][wjob'[p][v]] = "none"
      OBVIOUS
    <3>1. v # w /\ wpc[p][v] = "pricing" /\ Busy(p, v)
      BY <1>0, <1>e, <1>6 DEF Busy
    <3>2. outcome[p][wjob[p][v]] = "none"
      BY <1>0, <1>e, <3>1 DEF Held
    <3> QED
      BY <1>0, <1>e, <1>3, <1>8, <2>1, <3>1, <3>2
  <2>4. \A v \in Workers(p) : wpc'[p][v] = "send" =>
           outcome'[p][wjob'[p][v]] \in Kinds /\ wres'[p][v] = Due(p, wjob[p][v])'
    <3> SUFFICES ASSUME NEW v \in Workers(p), wpc'[p][v] = "send"
                 PROVE  outcome'[p][wjob'[p][v]] \in Kinds /\ wres'[p][v] = Due(p, wjob[p][v])'
      OBVIOUS
    <3>1. CASE v = w
      BY <1>0, <1>e, <1>3, <1>9, <3>1
    <3>2. CASE v # w
      <4>1. wpc[p][v] = "send" /\ Busy(p, v)
        BY <1>0, <1>e, <1>6, <3>2 DEF Busy
      <4>2. outcome[p][wjob[p][v]] \in Kinds /\ wres[p][v] = Due(p, wjob[p][v])
        BY <1>0, <1>e, <4>1 DEF Held
      <4> QED
        BY <1>0, <1>e, <1>3, <1>6, <1>8, <2>1, <3>2, <4>1, <4>2 DEF Due, ResultOf
    <3> QED
      BY <1>0, <1>e, <3>1, <3>2
  <2> QED
    BY <1>0, <1>e, <1>2, <1>3, <2>2, <2>3, <2>4 DEF Held
<1>17. Priced(p)'
  <2> SUFFICES ASSUME NEW i \in 1..Size(p)
               PROVE  /\ i > Taken(p) => outcome'[p][i] = "none"
                      /\ i \in Out(p) => outcome'[p][i] \in Kinds
    BY <1>0, <1>e, <1>2, <1>5, <1>7 DEF Priced
  <2>1. CASE i = job
    <3>1. ~(i > Taken(p))
      BY <1>4, <2>1
    <3> QED
      BY <1>4, <1>9, <2>1, <3>1
  <2>2. CASE i # job
    BY <1>0, <1>e, <1>8, <2>2 DEF Priced
  <2> QED
    BY <1>0, <1>e, <2>1, <2>2
<1>18. Delivered(p)'
  <2>1. \A i \in Out(p) : Due(p, i)' = Due(p, i)
    BY <1>0, <1>e, <1>8, <1>10
  <2>2. Delivered(p) /\ results'[p] = results[p] /\ rep'[p] = rep[p]
    BY <1>0, <1>e
  <2> QED
    BY <1>0, <1>e, <1>7, <2>1, <2>2, DeliveredStays
<1> QED
  BY <1>0, <1>e, <1>1, <1>12, <1>13, <1>14, <1>15, <1>16, <1>17, <1>18 DEF PassKept, PassInv

\* A worker hands on the result of its resource, which is out of its hands then.
LEMMA SendKeeps ==
    ASSUME PipelineInv, NEW p \in Passes, NEW w \in Workers(p), Send(p, w)
    PROVE  PassKept(p)
<1> DEFINE job == wjob[p][w]
<1>0. PassInv(p) /\ PassTyped(p) /\ Staged(p) /\ Queued(p) /\ Held(p) /\ Priced(p) /\ Delivered(p)
      /\ stage[p] \in Stages
  BY DEF PipelineInv, Shape, PassInv
<1>1. Shape' /\ \A q \in Passes \ {p} : Same(q)
  BY DEF PipelineInv, Shape, Send, command, Same
<1>e. /\ opts' = opts /\ engineOpen' = engineOpen /\ exit' = exit
      /\ wpc[p][w] = "send" /\ Len(results[p]) < Size(p)
      /\ wpc'[p] = [wpc[p] EXCEPT ![w] = "recv"]
      /\ wjob'[p] = [wjob[p] EXCEPT ![w] = 0]
      /\ wres'[p] = [wres[p] EXCEPT ![w] = NoResult]
      /\ results'[p] = Append(results[p], wres[p][w])
      /\ stage' = stage /\ fed' = fed /\ jobs' = jobs /\ jobsClosed' = jobsClosed
      /\ resultsClosed' = resultsClosed /\ rep' = rep /\ failed' = failed /\ outcome' = outcome
  BY DEF PipelineInv, Shape, Send, command, Buffer
<1>2. Workers(p)' = Workers(p) /\ Size(p)' = Size(p)
  BY <1>e, SameWorkers DEF Size
<1>3. Size(p) \in Nat /\ Taken(p) \in Int /\ Taken(p) <= Size(p) /\ Taken(p)' = Taken(p)
  BY <1>0, <1>e, PlanType, LenProperties DEF PassTyped, Taken
<1>4. /\ job \in 1..Taken(p) /\ job \in 1..Size(p) /\ job \notin Out(p)
      /\ outcome[p][job] \in Kinds /\ wres[p][w] = Due(p, job)
  <2>1. Busy(p, w)
    BY <1>e DEF Busy
  <2>2. job \in 1..Taken(p) /\ outcome[p][job] \in Kinds /\ wres[p][w] = Due(p, job)
    BY <1>0, <1>e, <2>1 DEF Held
  <2> QED
    BY <1>3, <2>1, <2>2 DEF Out
<1>5. Out(p) \subseteq 1..Size(p) /\ \A i : Due(p, i)' = Due(p, i)
  BY <1>3, <1>e DEF Out, Due, ResultOf
<1>6. Due(p, job) \in Result
  BY <1>4, PlanType, ResultType DEF Due
<1>7. /\ \A v \in Workers(p) : v # w => /\ Busy(p, v)' = Busy(p, v)
                                       /\ wpc'[p][v] = wpc[p][v]
                                       /\ wjob'[p][v] = wjob[p][v]
                                       /\ wres'[p][v] = wres[p][v]
      /\ wpc'[p][w] = "recv" /\ ~Busy(p, w)'
  BY <1>0, <1>e DEF PassTyped, Busy
<1>8. Out(p)' = Out(p) \cup {job}
  <2>1. \A v \in Workers(p) : v # w /\ Busy(p, v) => wjob[p][v] # job
    BY <1>0, <1>e DEF Held, Busy
  <2>2. \A i \in 1..Taken(p) : i \in Out(p)' <=> i \in Out(p) \/ i = job
    BY <1>2, <1>3, <1>7, <2>1 DEF Out
  <2> QED
    BY <1>3, <1>4, <2>2 DEF Out
<1>9. /\ results'[p] \in Seq(Result) /\ Len(results'[p]) <= Size(p)
      /\ Range(results'[p]) = Range(results[p]) \cup {Due(p, job)}
      /\ OneToOne(results'[p])
  <2>1. results[p] \in Seq(Result) /\ OneToOne(results[p]) /\ Len(results[p]) \in Nat
    BY <1>0, LenProperties DEF PassTyped, Delivered
  <2>2. Due(p, job) \notin Range(results[p])
    BY <1>0, <1>4, <1>5, DueApart DEF Delivered
  <2>3. Len(Append(results[p], Due(p, job))) = Len(results[p]) + 1
    BY <1>6, <2>1, AppendProperties
  <2> QED
    BY <1>3, <1>4, <1>6, <1>e, <2>1, <2>2, <2>3, AppendToSet
<1>10. PassTyped(p)'
  <2>1. \A v \in Workers(p) : wres'[p][v] \in Result \cup {NoResult}
    BY <1>0, <1>e DEF PassTyped
  <2> QED
    BY <1>0, <1>2, <1>3, <1>9, <1>e, <2>1 DEF PassTyped, Places
<1>11. stage[p] \in {"feed", "collect"} /\ ~resultsClosed[p]
  BY <1>0, <1>e DEF Staged, Untouched, Stages
<1>12. Staged(p)'
  BY <1>0, <1>2, <1>7, <1>11, <1>e DEF Staged
<1>13. Queued(p)'
  BY <1>0, <1>3, <1>e DEF Queued
<1>14. Held(p)'
  <2>1. \A v \in Workers(p) : wpc'[p][v] \in {"pricing", "send"} => v # w
    BY <1>7
  <2>2. \A v \in Workers(p) : Busy(p, v)' => v # w
    BY <1>7
  <2> QED
    BY <1>0, <1>2, <1>3, <1>5, <1>7, <1>e, <2>1, <2>2 DEF Held
<1>15. Priced(p)'
  BY <1>0, <1>2, <1>3, <1>4, <1>8, <1>e DEF Priced
<1>16. Delivered(p)'
  <2>1. \A what : Filed(p, what)' = Filed(p, what)
    BY <1>e DEF Filed
  <2>2. \A r \in Range(results'[p]) : \E i \in Out(p)' : r = Due(p, i)'
    BY <1>0, <1>5, <1>8, <1>9 DEF Delivered
  <2>3. ASSUME NEW i \in Out(p), Due(p, i) \notin Range(results[p])
        PROVE  Due(p, i) \notin Range(results'[p])
    BY <1>4, <1>5, <1>9, <2>3, DueApart
  <2>4. \A what \in Whats :
          /\ OneToOne(Filed(p, what))
          /\ \A a \in Range(Filed(p, what)) :
               \E i \in Out(p) : /\ Plan[p][i] = a /\ Due(p, i).what = what
                                 /\ Due(p, i) \notin Range(results'[p])
    BY <1>0, <2>3 DEF Delivered
  <2>5. \A i \in Out(p)' : \/ Due(p, i) \in Range(results'[p])
                           \/ Plan[p][i] \in Range(Filed(p, Due(p, i).what))
    BY <1>0, <1>8, <1>9 DEF Delivered
  <2> QED
    BY <1>5, <1>8, <1>9, <2>1, <2>2, <2>4, <2>5 DEF Delivered
<1> QED
  BY <1>1, <1>10, <1>11, <1>12, <1>13, <1>14, <1>15, <1>16, <1>e DEF PassKept, PassInv

\* A result leaves the channel for the list it belongs to.
LEMMA CollectKeeps ==
    ASSUME PipelineInv, NEW p \in Passes, Collect(p)
    PROVE  PassKept(p)
<1> DEFINE res == Head(results[p])
<1>0. PassInv(p) /\ PassTyped(p) /\ Staged(p) /\ Queued(p) /\ Held(p) /\ Priced(p) /\ Delivered(p)
      /\ stage[p] \in Stages
  BY DEF PipelineInv, Shape, PassInv
<1>1. Shape' /\ \A q \in Passes \ {p} : Same(q)
  BY DEF PipelineInv, Shape, Collect, workers, command, Same
<1>e. /\ opts' = opts /\ engineOpen' = engineOpen /\ exit' = exit
      /\ stage[p] = "collect" /\ results[p] # <<>>
      /\ results'[p] = Tail(results[p])
      /\ rep'[p] = [resources |-> IF res.what = "cost" THEN Append(rep[p].resources, res.address)
                                                       ELSE rep[p].resources,
                    skipped |-> IF res.what = "skip" THEN Append(rep[p].skipped, res.address)
                                                     ELSE rep[p].skipped,
                    errs |-> IF res.what = "err" THEN Append(rep[p].errs, res.address)
                                                 ELSE rep[p].errs]
      /\ stage' = stage /\ fed' = fed /\ jobs' = jobs /\ jobsClosed' = jobsClosed
      /\ resultsClosed' = resultsClosed /\ wpc' = wpc /\ wjob' = wjob /\ wres' = wres
      /\ failed' = failed /\ outcome' = outcome
  BY DEF PipelineInv, Shape, Collect, workers, command
<1>2. Workers(p)' = Workers(p) /\ Size(p)' = Size(p)
  BY <1>e, SameWorkers DEF Size
<1>3. Size(p) \in Nat /\ Taken(p) \in Int /\ Taken(p) <= Size(p) /\ Taken(p)' = Taken(p)
  BY <1>0, <1>e, PlanType, LenProperties DEF PassTyped, Taken
<1>4. /\ \A v \in Workers(p) : Busy(p, v)' = Busy(p, v)
      /\ Out(p)' = Out(p) /\ Out(p) \subseteq 1..Size(p)
      /\ \A i : Due(p, i)' = Due(p, i)
  BY <1>2, <1>3, <1>e DEF Busy, Out, Due, ResultOf
<1>5. /\ res \in Result /\ results'[p] \in Seq(Result)
      /\ res \in Range(results[p])
      /\ Range(results'[p]) = Range(results[p]) \ {res}
      /\ OneToOne(results'[p])
      /\ Len(results'[p]) <= Size(p)
  <2>1. results[p] \in Seq(Result) /\ OneToOne(results[p]) /\ Len(results[p]) <= Size(p)
    BY <1>0 DEF PassTyped, Delivered
  <2>2. /\ Len(results[p]) \in Nat \ {0}
        /\ Len(Tail(results[p])) = Len(results[p]) - 1
    BY <1>e, <2>1, HeadAndTail
  <2>3. Len(Tail(results[p])) <= Size(p)
    BY <1>3, <2>1, <2>2
  <2> QED
    BY <1>e, <2>1, <2>3, HeadOffSet
<1>6. PICK job \in Out(p) : res = Due(p, job)
  BY <1>0, <1>5 DEF Delivered
<1>7. res.address = Plan[p][job] /\ res.address \in Nat /\ res.what \in Whats
  BY <1>5, <1>6 DEF Due, ResultOf, Result
<1>8. /\ rep[p] \in Report
      /\ \A what \in Whats : Filed(p, what) \in Seq(Nat) /\ OneToOne(Filed(p, what))
  BY <1>0 DEF PassTyped, Report, Filed, Delivered
<1>9. \A what \in Whats :
         Filed(p, what)' = IF what = res.what THEN Append(Filed(p, what), res.address)
                                              ELSE Filed(p, what)
  BY <1>e DEF Filed, Whats
<1>10. \A what \in Whats : \A i \in Out(p) :
          Plan[p][i] \in Range(Filed(p, what)) => Due(p, i) \notin Range(results[p])
  <2> SUFFICES ASSUME NEW what \in Whats, NEW i \in Out(p), Plan[p][i] \in Range(Filed(p, what))
               PROVE  Due(p, i) \notin Range(results[p])
    OBVIOUS
  <2>1. PICK j \in Out(p) : Plan[p][j] = Plan[p][i] /\ Due(p, j) \notin Range(results[p])
    BY <1>0 DEF Delivered
  <2>2. i = j
    BY <1>4, <2>1, PlanType
  <2> QED
    BY <2>1, <2>2
<1>11. \A what \in Whats :
          /\ Filed(p, what)' \in Seq(Nat) /\ OneToOne(Filed(p, what)')
          /\ Range(Filed(p, what)') = IF what = res.what
                                      THEN Range(Filed(p, what)) \cup {Plan[p][job]}
                                      ELSE Range(Filed(p, what))
  <2> SUFFICES ASSUME NEW what \in Whats
               PROVE  /\ Filed(p, what)' \in Seq(Nat) /\ OneToOne(Filed(p, what)')
                      /\ Range(Filed(p, what)') = IF what = res.what
                                                  THEN Range(Filed(p, what)) \cup {Plan[p][job]}
                                                  ELSE Range(Filed(p, what))
    OBVIOUS
  <2>1. CASE what = res.what
    <3>1. Filed(p, what)' = Append(Filed(p, what), Plan[p][job]) /\ Plan[p][job] \in Nat
      BY <1>7, <1>9, <2>1
    <3>2. Plan[p][job] \notin Range(Filed(p, what))
      BY <1>5, <1>6, <1>10
    <3>3. /\ Append(Filed(p, what), Plan[p][job]) \in Seq(Nat)
          /\ OneToOne(Append(Filed(p, what), Plan[p][job]))
          /\ Range(Append(Filed(p, what), Plan[p][job])) = Range(Filed(p, what)) \cup {Plan[p][job]}
      BY <1>8, <3>1, <3>2, AppendToSet
    <3> QED
      BY <2>1, <3>1, <3>3
  <2>2. CASE what # res.what
    BY <1>8, <1>9, <2>2
  <2> QED
    BY <2>1, <2>2
<1>12. PassTyped(p)'
  <2>1. rep'[p] \in Report
    <3>1. /\ Filed(p, "cost")' \in Seq(Nat) /\ Filed(p, "skip")' \in Seq(Nat)
          /\ Filed(p, "err")' \in Seq(Nat)
      BY <1>11 DEF Whats
    <3> QED
      BY <1>e, <3>1 DEF Filed, Report
  <2> QED
    BY <1>0, <1>2, <1>3, <1>5, <1>e, <2>1 DEF PassTyped
<1>13. Staged(p)'
  BY <1>0, <1>2, <1>e DEF Staged
<1>14. Queued(p)' /\ Held(p)' /\ Priced(p)'
  BY <1>0, <1>2, <1>3, <1>4, <1>e DEF Queued, Held, Priced
<1>15. Delivered(p)'
  <2>1. \A r \in Range(results'[p]) : \E i \in Out(p) : r = Due(p, i)
    BY <1>0, <1>5 DEF Delivered
  <2>2. ASSUME NEW what \in Whats, NEW a \in Range(Filed(p, what)')
        PROVE  \E i \in Out(p) : /\ Plan[p][i] = a /\ Due(p, i).what = what
                                 /\ Due(p, i) \notin Range(results'[p])
    <3>1. CASE a \in Range(Filed(p, what))
      BY <1>0, <1>5, <3>1 DEF Delivered
    <3>2. CASE what = res.what /\ a = Plan[p][job]
      BY <1>5, <1>6, <3>2
    <3> QED
      BY <1>11, <2>2, <3>1, <3>2
  <2>3. ASSUME NEW i \in Out(p), NEW what \in Whats, what = Due(p, i).what,
               Due(p, i) \notin Range(results'[p])
        PROVE  Plan[p][i] \in Range(Filed(p, what)')
    <3>1. CASE Due(p, i) = res
      <4>1. i = job
        BY <1>4, <1>6, <3>1, DueApart
      <4>2. what = res.what
        BY <2>3, <3>1
      <4> QED
        BY <1>11, <4>1, <4>2
    <3>2. CASE Due(p, i) # res
      <4>1. Due(p, i) \notin Range(results[p])
        BY <1>5, <2>3, <3>2
      <4>2. Plan[p][i] \in Range(Filed(p, what))
        BY <1>0, <2>3, <4>1 DEF Delivered
      <4> QED
        BY <1>11, <4>2
    <3> QED
      BY <3>1, <3>2
  <2>4. \A i \in Out(p) : Due(p, i).what \in Whats
    BY <1>0, <1>4, PlanType, ResultType DEF Due, Priced, Result
  <2>5. \A i \in Out(p) : Due(p, i)' = Due(p, i) /\ Due(p, i).what' = Due(p, i).what
    BY <1>4
  <2>6. \A i \in Out(p)' : \/ Due(p, i)' \in Range(results'[p])
                           \/ Plan[p][i] \in Range(Filed(p, Due(p, i).what)')
    BY <1>4, <2>3, <2>4, <2>5 DEF Filed
  <2>7. \A what \in Whats : \A y \in Range(Filed(p, what)') :
          \E i \in Out(p)' : /\ Plan[p][i] = y /\ (Due(p, i).what)' = what
                             /\ Due(p, i)' \notin Range(results'[p])
    BY <1>4, <2>2
  <2> QED
    BY <1>4, <1>5, <1>11, <2>1, <2>6, <2>7 DEF Delivered
<1> QED
  BY <1>1, <1>12, <1>13, <1>14, <1>15, <1>e DEF PassKept, PassInv

\* The pass returns its report, sorted.
LEMMA FinishPassKeeps ==
    ASSUME PipelineInv, NEW p \in Passes, FinishPass(p)
    PROVE  PassKept(p)
<1>0. PassInv(p) /\ PassTyped(p) /\ Staged(p) /\ Queued(p) /\ Held(p) /\ Priced(p) /\ Delivered(p)
      /\ stage[p] \in Stages
  BY DEF PipelineInv, Shape, PassInv
<1>1. Shape' /\ \A q \in Passes \ {p} : Same(q)
  BY DEF PipelineInv, Shape, FinishPass, channels, workers, command, Same, Stages
<1>2. PICK overflow \in {FALSE, MayFail} :
         failed' = [failed EXCEPT ![p] = rep[p].errs # <<>> \/ overflow]
  BY DEF FinishPass
<1>e. /\ opts' = opts /\ engineOpen' = engineOpen /\ exit' = exit
      /\ stage[p] = "collect" /\ results[p] = <<>> /\ resultsClosed[p]
      /\ rep'[p] = [rep[p] EXCEPT !.resources = Ascending(rep[p].resources),
                                  !.skipped = Ascending(rep[p].skipped)]
      /\ failed'[p] = (rep[p].errs # <<>> \/ overflow)
      /\ stage'[p] = "returned" /\ fed' = fed /\ jobs' = jobs /\ jobsClosed' = jobsClosed
      /\ results' = results /\ resultsClosed' = resultsClosed
      /\ wpc' = wpc /\ wjob' = wjob /\ wres' = wres /\ outcome' = outcome
  BY <1>2 DEF PipelineInv, Shape, FinishPass, channels, workers, command
<1>3. Workers(p)' = Workers(p) /\ Size(p)' = Size(p)
  BY <1>e, SameWorkers DEF Size
<1>4. /\ Taken(p)' = Taken(p)
      /\ \A v \in Workers(p) : Busy(p, v)' = Busy(p, v)
      /\ Out(p)' = Out(p)
      /\ \A i : Due(p, i)' = Due(p, i)
  BY <1>3, <1>e DEF Taken, Busy, Out, Due, ResultOf
<1>5. /\ rep[p] \in Report
      /\ \A what \in Whats : Filed(p, what) \in Seq(Nat) /\ OneToOne(Filed(p, what))
  BY <1>0 DEF PassTyped, Report, Filed, Delivered
<1>6. /\ rep[p].resources \in Seq(Nat) /\ OneToOne(rep[p].resources)
      /\ rep[p].skipped \in Seq(Nat) /\ OneToOne(rep[p].skipped)
  BY <1>5 DEF Filed, Whats
<1>7. /\ rep'[p] \in Report
      /\ rep'[p].resources = Ascending(rep[p].resources)
      /\ rep'[p].skipped = Ascending(rep[p].skipped)
      /\ rep'[p].errs = rep[p].errs
  BY <1>5, <1>6, <1>e, AscendingLists DEF Report
<1>8. /\ Lists(rep'[p].resources, Range(rep'[p].resources))
      /\ Lists(rep'[p].skipped, Range(rep'[p].skipped))
  BY <1>6, <1>7, AscendingLists
<1>9. \A what \in Whats : /\ Range(Filed(p, what)') = Range(Filed(p, what))
                          /\ OneToOne(Filed(p, what)')
  BY <1>5, <1>6, <1>7, AscendingLists DEF Filed, Whats
<1>10. PassTyped(p)'
  <2>1. failed'[p] \in BOOLEAN
    BY <1>e
  <2> QED
    BY <1>0, <1>3, <1>7, <1>e, <2>1 DEF PassTyped
<1>11. Staged(p)'
  <2>1. rep'[p].errs # <<>> => failed'[p]
    BY <1>7, <1>e
  <2> QED
    BY <1>0, <1>3, <1>8, <1>e, <2>1 DEF Staged
<1>12. Queued(p)' /\ Held(p)' /\ Priced(p)'
  BY <1>0, <1>3, <1>4, <1>e DEF Queued, Held, Priced
<1>13. Delivered(p)'
  <2>1. \A i \in Out(p) : Due(p, i).what \in Whats
    <3>1. Size(p) \in Nat /\ Taken(p) \in Int /\ Taken(p) <= Size(p)
      BY <1>0, PlanType, LenProperties DEF PassTyped, Taken
    <3>2. Out(p) \subseteq 1..Size(p)
      BY <3>1 DEF Out
    <3> QED
      BY <1>0, <3>2, PlanType, ResultType DEF Due, Priced, Result
  <2>2. ASSUME NEW i \in Out(p), NEW what \in Whats, what = Due(p, i).what,
               Due(p, i) \notin Range(results[p])
        PROVE  Plan[p][i] \in Range(Filed(p, what)')
    BY <1>0, <1>9, <2>2 DEF Delivered
  <2>3. \A i \in Out(p)' : \/ Due(p, i)' \in Range(results'[p])
                           \/ Plan[p][i] \in Range(Filed(p, Due(p, i).what)')
    BY <1>4, <1>e, <2>1, <2>2 DEF Filed
  <2>4. \A what \in Whats : \A y \in Range(Filed(p, what)') :
          \E i \in Out(p)' : /\ Plan[p][i] = y /\ (Due(p, i).what)' = what
                             /\ Due(p, i)' \notin Range(results'[p])
    BY <1>0, <1>4, <1>9, <1>e DEF Delivered
  <2> QED
    BY <1>0, <1>4, <1>9, <1>e, <2>3, <2>4 DEF Delivered
<1> QED
  BY <1>1, <1>10, <1>11, <1>12, <1>13, <1>e DEF PassKept, PassInv

(***************************************************************************)
(* The command as a whole.                                                 *)
(***************************************************************************)
\* The command ends when its passes have returned, and changes nothing of theirs.
LEMMA FinishKeeps ==
    ASSUME PipelineInv, Finish
    PROVE  PipelineInv'
<1>1. PICK broken \in {FALSE, MayFail} :
         exit' = IF broken \/ \E p \in Passes : failed[p] THEN 1
                 ELSE IF PolicyViolated THEN 2
                 ELSE 0
  BY DEF Finish
<1>2. /\ Joined /\ engineOpen' = FALSE
      /\ opts' = opts /\ stage' = stage /\ fed' = fed
      /\ jobs' = jobs /\ jobsClosed' = jobsClosed
      /\ results' = results /\ resultsClosed' = resultsClosed
      /\ wpc' = wpc /\ wjob' = wjob /\ wres' = wres
      /\ rep' = rep /\ failed' = failed /\ outcome' = outcome
  BY DEF Finish, channels, workers
<1>3. \A p \in Passes : PassInv(p)'
  BY <1>2, PassUntouched DEF PipelineInv, Same
<1>4. Joined' /\ (PolicyViolated' <=> PolicyViolated)
  BY <1>2 DEF Joined, PolicyViolated
<1>5. /\ exit' \in {0, 1, 2}
      /\ exit' = 0 => ~PolicyViolated /\ \A p \in Passes : ~failed[p]
  <2>1. CASE broken \/ \E p \in Passes : failed[p]
    <3>1. exit' = 1
      BY <1>1, <2>1, Zenon
    <3> QED
      BY <3>1
  <2>2. CASE ~broken /\ ~(\E p \in Passes : failed[p])
    <3>1. exit' = IF PolicyViolated THEN 2 ELSE 0
      BY <1>1, <2>2, Zenon
    <3> QED
      BY <2>2, <3>1
  <2> QED
    BY <2>1, <2>2
<1>6. Ended'
  <2>1. exit' # Running /\ exit' \in {Running, 0, 1, 2}
    BY <1>5 DEF Running
  <2>3. engineOpen' \in BOOLEAN /\ ~engineOpen'
    BY <1>2
  <2>2. exit' = 0 => (~PolicyViolated)' /\ \A p \in Passes : (~failed[p])'
    BY <1>2, <1>4, <1>5
  <2> QED
    BY <1>2, <1>4, <2>1, <2>2, <2>3, Zenon DEF Ended
<1> QED
  BY <1>2, <1>3, <1>6 DEF PipelineInv, Shape

\* Nothing has been started when the command begins.
LEMMA InitPipelineInv == Init => PipelineInv
<1> SUFFICES ASSUME Init PROVE PipelineInv
  OBVIOUS
<1>1. Shape /\ opts \in Options
  BY DEF Init, Shape, Stages
<1>2. Ended
  BY DEF Init, Ended, Running
<1>3. ASSUME NEW p \in Passes PROVE PassInv(p)
  <2>1. Size(p) \in Nat /\ Len(<<>>) = 0 /\ DOMAIN <<>> = {} /\ Range(<<>>) = {}
    BY PlanType DEF Range
  <2>2. rep[p] \in Report
    BY <1>3 DEF Init, EmptyReport, Report
  <2>3. PassTyped(p)
    BY <1>3, <2>1, <2>2 DEF Init, PassTyped, Places
  <2>4. Staged(p)
    BY <1>3 DEF Init, Staged, Untouched
  <2>5. Taken(p) = 0 /\ Out(p) = {} /\ \A w \in Workers(p) : ~Busy(p, w)
    BY <1>3, <2>1 DEF Init, Taken, Out, Busy
  <2>6. Queued(p) /\ Held(p) /\ Priced(p)
    BY <1>3, <2>1, <2>5 DEF Init, Queued, Held, Priced, Busy
  <2>7. \A what \in Whats : Filed(p, what) = <<>>
    BY <1>3 DEF Init, EmptyReport, Filed
  <2>8. OneToOne(<<>>)
    BY <2>1 DEF OneToOne
  <2>9. Delivered(p)
    BY <1>3, <2>1, <2>5, <2>7, <2>8 DEF Init, Delivered
  <2> QED
    BY <2>3, <2>4, <2>6, <2>9 DEF PassInv
<1> QED
  BY <1>1, <1>2, <1>3 DEF PipelineInv

\* No step of the command breaks the invariant.
LEMMA NextPipelineInv == PipelineInv /\ [Next]_vars => PipelineInv'
<1> SUFFICES ASSUME PipelineInv, [Next]_vars PROVE PipelineInv'
  OBVIOUS
<1>1. ASSUME NEW p \in Passes, PassStep(p) PROVE PipelineInv'
  <2>1. PassKept(p)
    BY <1>1, LoadFailsKeeps, StartKeeps, FeedKeeps, CloseJobsKeeps, CollectKeeps,
       FinishPassKeeps DEF PassStep
  <2> QED
    BY <2>1, PassStepKeeps
<1>2. ASSUME NEW p \in Passes, CloseResults(p) PROVE PipelineInv'
  BY <1>2, CloseResultsKeeps, PassStepKeeps
<1>3. ASSUME NEW p \in Passes, NEW w \in Workers(p), WorkerStep(p, w) PROVE PipelineInv'
  <2>1. PassKept(p)
    BY <1>3, ReceiveKeeps, SendKeeps, WorkerEndsKeeps, PriceKeeps DEF WorkerStep
  <2> QED
    BY <2>1, PassStepKeeps
<1>4. ASSUME Finish PROVE PipelineInv'
  BY <1>4, FinishKeeps
<1>5. ASSUME UNCHANGED vars PROVE PipelineInv'
  <2>1. \A p \in Passes : PassInv(p)'
    BY <1>5, PassUntouched DEF PipelineInv, Same, vars, channels, workers, command
  <2>2. Ended'
    BY <1>5 DEF PipelineInv, Ended, Joined, PolicyViolated, vars, command
  <2> QED
    BY <1>5, <2>1, <2>2 DEF PipelineInv, Shape, vars, channels, workers, command
<1> QED
  BY <1>1, <1>2, <1>3, <1>4, <1>5 DEF Next, Exited

\* The invariant holds in every reachable state.
LEMMA AlwaysPipelineInv == Spec => []PipelineInv
  BY InitPipelineInv, NextPipelineInv, PTL DEF Spec

(***************************************************************************)
(* What the invariant says of a pass that has returned.                    *)
(***************************************************************************)
\* Where each resource of a finished pass is: in the list that what pricing it came
\* to calls for, and in no other.
LEMMA WhenFinished ==
    ASSUME NEW p \in Passes, opts \in Options, PassInv(p), stage[p] = "returned", ~Untouched(p)
    PROVE  /\ \A i \in 1..Size(p) : outcome[p][i] \in Kinds
           /\ \A what \in Whats :
                Range(Filed(p, what)) = {Plan[p][i] : i \in {j \in 1..Size(p) : Due(p, j).what = what}}
<1>0. PassTyped(p) /\ Staged(p) /\ Held(p) /\ Priced(p) /\ Delivered(p)
  BY DEF PassInv
<1>1. resultsClosed[p] /\ results[p] = <<>>
  BY <1>0 DEF Staged
<1>2. \A w \in Workers(p) : wpc[p][w] = "gone"
  BY <1>0, <1>1 DEF Staged
<1>3. jobs[p] = <<>> /\ fed[p] = Size(p)
  BY <1>0, <1>2, WorkersType DEF Staged
<1>4. Size(p) \in Nat /\ Taken(p) = Size(p)
  BY <1>3, PlanType DEF Taken
<1>5. Out(p) = 1..Size(p)
  BY <1>2, <1>4 DEF Out, Busy
<1>6. \A r : r \notin Range(results[p])
  BY <1>1 DEF Range
<1>7. \A i \in 1..Size(p) : outcome[p][i] \in Kinds
  BY <1>0, <1>5 DEF Priced
<1>8. \A i \in 1..Size(p) : Plan[p][i] \in Range(Filed(p, Due(p, i).what))
  BY <1>0, <1>5, <1>6 DEF Delivered
<1>9. ASSUME NEW what \in Whats, NEW a
      PROVE  a \in Range(Filed(p, what)) <=>
               a \in {Plan[p][i] : i \in {j \in 1..Size(p) : Due(p, j).what = what}}
  BY <1>0, <1>5, <1>8 DEF Delivered
<1> QED
  BY <1>7, <1>9

\* Two lists without duplicates and without a common element, one after the other.
LEMMA ConcatSets ==
    ASSUME NEW s \in Seq(Nat), NEW t \in Seq(Nat), OneToOne(s), OneToOne(t),
           \A x \in Range(s) : x \notin Range(t)
    PROVE  /\ s \o t \in Seq(Nat) /\ OneToOne(s \o t)
           /\ Range(s \o t) = Range(s) \cup Range(t)
<1>1. s \o t \in Seq(Nat) /\ Range(s \o t) = Range(s) \cup Range(t)
  BY ConcatProperties, RangeConcatenation
<1>2. /\ Len(s) \in Nat /\ DOMAIN s = 1..Len(s)
      /\ Len(t) \in Nat /\ DOMAIN t = 1..Len(t)
  BY LenProperties
<1>3. DOMAIN (s \o t) = 1..(Len(s) + Len(t))
  BY <1>1, LenProperties, ConcatProperties
<1>4. \A i \in 1..(Len(s) + Len(t)) :
         (s \o t)[i] = IF i <= Len(s) THEN s[i] ELSE t[i - Len(s)]
  BY ConcatProperties
<1> DEFINE u == s \o t
<1> HIDE DEF u
<1>5. ASSUME NEW i \in DOMAIN u, NEW j \in DOMAIN u, i < j PROVE u[i] # u[j]
  <2>1. i \in 1..(Len(s) + Len(t)) /\ j \in 1..(Len(s) + Len(t))
    BY <1>3, <1>5 DEF u
  <2>2. CASE j <= Len(s)
    <3>1. i \in DOMAIN s /\ j \in DOMAIN s /\ u[i] = s[i] /\ u[j] = s[j]
      BY <1>2, <1>4, <1>5, <2>1, <2>2 DEF u
    <3> QED
      BY <1>5, <2>1, <3>1 DEF OneToOne
  <2>3. CASE i > Len(s)
    <3>1. /\ i - Len(s) \in DOMAIN t /\ j - Len(s) \in DOMAIN t
          /\ u[i] = t[i - Len(s)] /\ u[j] = t[j - Len(s)]
          /\ i - Len(s) # j - Len(s)
      BY <1>2, <1>4, <1>5, <2>1, <2>3 DEF u
    <3> QED
      BY <3>1 DEF OneToOne
  <2>4. CASE i <= Len(s) /\ j > Len(s)
    <3>1. /\ i \in DOMAIN s /\ j - Len(s) \in DOMAIN t
          /\ u[i] = s[i] /\ u[j] = t[j - Len(s)]
      BY <1>2, <1>4, <2>1, <2>4 DEF u
    <3> QED
      BY <3>1 DEF Range
  <2> QED
    BY <1>2, <2>1, <2>2, <2>3, <2>4
<1>6. OneToOne(u)
  <2>1. \A i \in DOMAIN u : i \in Nat
    BY <1>2, <1>3 DEF u
  <2> QED
    BY <1>5, <2>1 DEF OneToOne
<1> QED
  BY <1>1, <1>6 DEF u

(***************************************************************************)
(* The theorems.                                                           *)
(***************************************************************************)
\* Every variable of the pipeline keeps its type.
THEOREM PipelineTypeCorrect == Spec => []TypeOK
<1>1. PipelineInv => TypeOK
  <2> SUFFICES ASSUME PipelineInv PROVE TypeOK
    OBVIOUS
  <2>1. ASSUME NEW p \in Passes, NEW w \in Workers(p)
        PROVE  wres[p][w].what \in {"none", "cost", "skip", "err"}
    <3>1. wres[p][w] \in Result \cup {NoResult}
      BY DEF PipelineInv, PassInv, PassTyped
    <3> QED
      BY <3>1 DEF Result, NoResult, Whats
  <2> QED
    BY <2>1 DEF PipelineInv, Shape, Stages, Places, PassInv, PassTyped, Ended, TypeOK, Buffer
<1> QED
  BY <1>1, AlwaysPipelineInv, PTL

\* No worker ever sends on a closed results channel (priceReportWithLoader).
THEOREM NeverSendsOnClosed == Spec => []NoSendOnClosed
<1>1. PipelineInv => NoSendOnClosed
  BY DEF PipelineInv, PassInv, Staged, NoSendOnClosed
<1> QED
  BY <1>1, AlwaysPipelineInv, PTL

\* The engine is closed only when no worker of any pass is left to use it, also
\* when a pass has failed (priceBoth).
THEOREM EngineClosedLast == Spec => []EngineOutlivesWorkers
<1>1. PipelineInv => EngineOutlivesWorkers
  BY DEF PipelineInv, Ended, Joined, PassInv, Staged, Untouched, EngineOutlivesWorkers
<1> QED
  BY <1>1, AlwaysPipelineInv, PTL

\* A report accounts for each resource of its plan exactly once, for any number of
\* resources and workers and any order in which they finish.
THEOREM EveryResourceAccounted == Spec => []AllAccounted
<1>1. ASSUME PipelineInv, NEW p \in Passes, stage[p] = "returned",
             wpc[p] # [w \in Workers(p) |-> "absent"]
      PROVE  LET all == rep[p].resources \o rep[p].skipped \o rep[p].errs
             IN  /\ Len(all) = Size(p)
                 /\ {all[i] : i \in DOMAIN all} = {Plan[p][i] : i \in DOMAIN Plan[p]}
  <2> DEFINE all == rep[p].resources \o rep[p].skipped \o rep[p].errs
             Of(what) == {Plan[p][i] : i \in {j \in 1..Size(p) : Due(p, j).what = what}}
  <2>1. opts \in Options /\ PassInv(p) /\ wpc[p] \in [Workers(p) -> Places] /\ rep[p] \in Report
    BY <1>1 DEF PipelineInv, PassInv, PassTyped
  <2>2. ~Untouched(p)
    BY <1>1, <2>1 DEF Untouched
  <2>3. /\ \A i \in 1..Size(p) : outcome[p][i] \in Kinds
        /\ \A what \in Whats : Range(Filed(p, what)) = Of(what)
    BY <1>1, <2>1, <2>2, WhenFinished
  <2>4. \A what \in Whats : Filed(p, what) \in Seq(Nat) /\ OneToOne(Filed(p, what))
    BY <2>1 DEF PassInv, Delivered, Filed, Report
  <2>5. /\ rep[p].resources \in Seq(Nat) /\ OneToOne(rep[p].resources)
        /\ rep[p].skipped \in Seq(Nat) /\ OneToOne(rep[p].skipped)
        /\ rep[p].errs \in Seq(Nat) /\ OneToOne(rep[p].errs)
        /\ Range(rep[p].resources) = Of("cost") /\ Range(rep[p].skipped) = Of("skip")
        /\ Range(rep[p].errs) = Of("err")
    BY <2>3, <2>4 DEF Filed, Whats
  <2>6. \A what, other \in Whats : what # other => \A a \in Of(what) : a \notin Of(other)
    BY PlanType
  <2>7. \A i \in 1..Size(p) : Due(p, i).what \in Whats
    BY <2>3, PlanType, ResultType DEF Due, Result
  <2> HIDE DEF Of
  <2>8. /\ all \in Seq(Nat) /\ OneToOne(all)
        /\ Range(all) = Of("cost") \cup Of("skip") \cup Of("err")
    <3> DEFINE priced == rep[p].resources \o rep[p].skipped
    <3>1. /\ priced \in Seq(Nat) /\ OneToOne(priced)
          /\ Range(priced) = Of("cost") \cup Of("skip")
      BY <2>5, <2>6, ConcatSets DEF Whats
    <3>2. \A a \in Range(priced) : a \notin Range(rep[p].errs)
      BY <2>5, <2>6, <3>1 DEF Whats
    <3> HIDE DEF priced
    <3>3. /\ priced \o rep[p].errs \in Seq(Nat) /\ OneToOne(priced \o rep[p].errs)
          /\ Range(priced \o rep[p].errs) = Range(priced) \cup Range(rep[p].errs)
      BY <2>5, <3>1, <3>2, ConcatSets
    <3> QED
      BY <2>5, <3>1, <3>3 DEF priced
  <2>9. Of("cost") \cup Of("skip") \cup Of("err") = Range(Plan[p])
    BY <2>7, PlanType DEF Of, Whats, Range
  <2> HIDE DEF all
  <2>10. Len(all) = Size(p)
    <3>1. Plan[p] \in Seq(Nat) /\ OneToOne(Plan[p])
      BY PlanType DEF OneToOne
    <3> QED
      BY <2>8, <2>9, <3>1, SameLength DEF Size
  <2>11. Range(all) = Range(Plan[p])
    BY <2>8, <2>9
  <2> QED
    BY <2>10, <2>11 DEF all, Range
<1>2. PipelineInv => AllAccounted
  BY <1>1 DEF AllAccounted
<1> QED
  BY <1>2, AlwaysPipelineInv, PTL

\* The two lists of a report are determined by what pricing each resource came to,
\* whatever the schedule of the workers was.
THEOREM ReportsAreRepeatable == Spec => []Repeatable
<1>1. ASSUME PipelineInv, NEW p \in Passes, stage[p] = "returned"
      PROVE  LET OfKind(kinds) == {Plan[p][i] : i \in {j \in 1..Size(p) : outcome[p][j] \in kinds}}
             IN  /\ Lists(rep[p].resources, OfKind(Costs))
                 /\ Lists(rep[p].skipped,
                          OfKind(Skips \cup IF opts.failOnError THEN {} ELSE Errors))
  <2> DEFINE OfKind(kinds) == {Plan[p][i] : i \in {j \in 1..Size(p) : outcome[p][j] \in kinds}}
             skips == Skips \cup IF opts.failOnError THEN {} ELSE Errors
  <2>1. opts \in Options /\ PassInv(p) /\ Staged(p)
    BY <1>1 DEF PipelineInv, PassInv
  <2>2. CASE Untouched(p)
    <3>1. rep[p].resources = <<>> /\ rep[p].skipped = <<>>
      BY <2>2 DEF Untouched, EmptyReport
    <3>2. OfKind(Costs) = {} /\ OfKind(skips) = {}
      BY <2>2 DEF Untouched, Costs, Skips, Errors
    <3>3. Lists(<<>>, {})
      BY DEF Lists, Range
    <3> QED
      BY <3>1, <3>2, <3>3
  <2>3. CASE ~Untouched(p)
    <3>1. /\ Lists(rep[p].resources, Range(rep[p].resources))
          /\ Lists(rep[p].skipped, Range(rep[p].skipped))
      BY <1>1, <2>1, <2>3 DEF Staged
    <3>2. /\ \A i \in 1..Size(p) : outcome[p][i] \in Kinds
          /\ \A what \in Whats :
               Range(Filed(p, what)) = {Plan[p][i] : i \in {j \in 1..Size(p) : Due(p, j).what = what}}
      BY <1>1, <2>1, <2>3, WhenFinished
    <3>3. \A i \in 1..Size(p) :
             /\ Due(p, i).what = "cost" <=> outcome[p][i] \in Costs
             /\ Due(p, i).what = "skip" <=> outcome[p][i] \in skips
      BY <3>2, ConstantsAssumption DEF Due, ResultOf, Costs, Skips, Errors
    <3>4. /\ Range(rep[p].resources) =
                {Plan[p][i] : i \in {j \in 1..Size(p) : Due(p, j).what = "cost"}}
          /\ Range(rep[p].skipped) =
                {Plan[p][i] : i \in {j \in 1..Size(p) : Due(p, j).what = "skip"}}
      BY <3>2 DEF Filed, Whats
    <3>5. /\ {j \in 1..Size(p) : Due(p, j).what = "cost"}
               = {j \in 1..Size(p) : outcome[p][j] \in Costs}
          /\ {j \in 1..Size(p) : Due(p, j).what = "skip"}
               = {j \in 1..Size(p) : outcome[p][j] \in skips}
      BY <3>3
    <3>6. Range(rep[p].resources) = OfKind(Costs) /\ Range(rep[p].skipped) = OfKind(skips)
      BY <3>4, <3>5, Zenon
    <3> QED
      BY <3>1, <3>6, Zenon
  <2> QED
    BY <2>2, <2>3
<1>2. PipelineInv => Repeatable
  BY <1>1 DEF Repeatable
<1> QED
  BY <1>2, AlwaysPipelineInv, PTL

\* Exit code 0 means that no resource failed, if the user asked for that, and that
\* every resource was priced, if the policy did.
THEOREM ExitZeroIsTrue == Spec => []ZeroTellsTheTruth
<1>1. ASSUME PipelineInv, exit = 0, NEW p \in Passes, NEW i \in 1..Size(p)
      PROVE  /\ opts.failOnError => outcome[p][i] \notin Errors
             /\ opts.failOnSkipped => outcome[p][i] \in Costs
  <2>1. /\ opts \in Options /\ PassInv(p) /\ Staged(p) /\ PassTyped(p)
        /\ stage[p] = "returned" /\ ~failed[p] /\ ~PolicyViolated
    BY <1>1 DEF PipelineInv, PassInv, Ended, Joined, Running
  <2>2. ~Untouched(p) /\ rep[p].errs = <<>>
    <3> HIDE DEF Untouched
    <3>1. resultsClosed[p] /\ (rep[p].errs # <<>> => failed[p])
      BY <2>1 DEF Staged
    <3>2. ~Untouched(p)
      BY <3>1 DEF Untouched
    <3> QED
      BY <2>1, <3>1, <3>2
  <2>3. /\ outcome[p][i] \in Kinds
        /\ \A what \in Whats :
             Range(Filed(p, what)) = {Plan[p][j] : j \in {k \in 1..Size(p) : Due(p, k).what = what}}
    BY <2>1, <2>2, WhenFinished
  <2>4. Due(p, i).what # "err"
    <3>1. Range(Filed(p, "err")) = {}
      BY <2>2 DEF Filed, Range
    <3> QED
      BY <2>3, <3>1 DEF Whats
  <2>5. opts.failOnSkipped => Due(p, i).what # "skip"
    <3>1. opts.failOnSkipped => rep[p].skipped = <<>>
      BY <2>1 DEF PolicyViolated
    <3>2. opts.failOnSkipped => Range(Filed(p, "skip")) = {}
      BY <3>1 DEF Filed, Range
    <3> QED
      BY <2>3, <3>2 DEF Whats
  <2> QED
    BY <2>3, <2>4, <2>5, ConstantsAssumption DEF Due, ResultOf, Costs, Skips, Errors
<1>2. PipelineInv => ZeroTellsTheTruth
  BY <1>1 DEF ZeroTellsTheTruth
<1> QED
  BY <1>2, AlwaysPipelineInv, PTL

=============================================================================
