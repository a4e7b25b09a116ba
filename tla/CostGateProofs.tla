--------------------------- MODULE CostGateProofs ---------------------------
(***************************************************************************)
(* Proofs about CostGate: whatever the plans cost and whatever the user    *)
(* has set, what a job is shown and what it is told is true.               *)
(***************************************************************************)
EXTENDS CostGate, DataLemmas

(***************************************************************************)
(* Bills and reports.                                                      *)
(***************************************************************************)
EveryBill == Bills \cup {<<>>}
Entries == {Absent, Skipped} \cup {Priced(bill) : bill \in Bills}
Reports == [Addresses -> Entries]

Costs(bill) == [i \in DOMAIN bill |-> bill[i].monthly]

\* What a bill is made of.
LEMMA BillShape ==
    ASSUME NEW bill \in EveryBill
    PROVE  /\ Len(bill) \in Nat /\ DOMAIN bill = 1..Len(bill) /\ IsFiniteSet(DOMAIN bill)
           /\ \A i \in DOMAIN bill : /\ bill[i].monthly \in Nat
                                     /\ bill[i].currency \in DOMAIN Normal /\ bill[i].currency # Blank
           /\ bill \in Bills => bill # <<>> /\ 1 \in DOMAIN bill
<1>0. Bills \subseteq Seq(Lines) \ {<<>>} /\ MaxFinite \in Nat
  BY GateAssumption, DiffAssumption
<1>1. bill \in Seq(Lines)
  BY <1>0, EmptySeq DEF EveryBill
<1>2. Len(bill) \in Nat /\ DOMAIN bill = 1..Len(bill) /\ \A i \in DOMAIN bill : bill[i] \in Lines
  BY <1>1, LenProperties, ElementOfSeq
<1>3. IsFiniteSet(DOMAIN bill)
  BY <1>2, FS_Interval
<1>4. \A l \in Lines : l.monthly \in Nat /\ l.currency \in DOMAIN Normal /\ l.currency # Blank
  BY <1>0 DEF Lines
<1>5. bill \in Bills => bill # <<>> /\ 1 \in DOMAIN bill
  BY <1>0, <1>1, <1>2, EmptySeq
<1> QED
  BY <1>2, <1>3, <1>4, <1>5

\* What a bill adds up to, whole or in part.
LEMMA BillSums ==
    ASSUME NEW bill \in EveryBill
    PROVE  /\ Costs(bill) \in [DOMAIN bill -> Nat]
           /\ Monthly(bill) \in Nat /\ Monthly(bill) = SumFunction(Costs(bill))
           /\ \A n \in 0..Len(bill) : MonthlyUpTo(bill, n) \in Nat /\ MonthlyUpTo(bill, n) <= Monthly(bill)
           /\ \A c : /\ MonthlyIn(bill, c) \in Nat
                     /\ (\A i \in DOMAIN bill : bill[i].currency = c) => MonthlyIn(bill, c) = Monthly(bill)
                     /\ (\A i \in DOMAIN bill : bill[i].currency # c) => MonthlyIn(bill, c) = 0
           /\ bill = <<>> => Monthly(bill) = 0
<1> DEFINE D == DOMAIN bill
           f == Costs(bill)
           Of(c) == {j \in D : bill[j].currency = c}
<1>0. Len(bill) \in Nat /\ D = 1..Len(bill) /\ IsFiniteSet(D) /\ \A i \in D : bill[i].monthly \in Nat
  BY BillShape
<1>1. f \in [D -> Nat]
  BY <1>0 DEF Costs
<1>2. \A A \in SUBSET D : /\ Restrict(f, A) = [i \in A |-> bill[i].monthly]
                          /\ Restrict(f, A) \in [A -> Nat] /\ IsFiniteSet(A)
  <2> SUFFICES ASSUME NEW A \in SUBSET D
               PROVE  /\ Restrict(f, A) = [i \in A |-> bill[i].monthly]
                      /\ Restrict(f, A) \in [A -> Nat] /\ IsFiniteSet(A)
    OBVIOUS
  <2>1. IsFiniteSet(A)
    BY <1>0, FS_Subset
  <2> QED
    BY <1>0, <2>1 DEF Restrict, Costs
<1>3. \A A \in SUBSET D : SumFunction(Restrict(f, A)) \in Nat /\ SumFunction(Restrict(f, A)) <= SumFunction(f)
  <2> SUFFICES ASSUME NEW A \in SUBSET D
               PROVE  SumFunction(Restrict(f, A)) \in Nat /\ SumFunction(Restrict(f, A)) <= SumFunction(f)
    OBVIOUS
  <2>1. Restrict(f, A) \in [A -> Nat] /\ IsFiniteSet(A)
    BY <1>2
  <2> HIDE DEF f
  <2>2. SumFunction(Restrict(f, A)) \in Nat
    BY <2>1, SumNat
  <2>3. SumFunction(Restrict(f, A)) <= SumFunction(f)
    BY <1>0, <1>1, SumSome
  <2> QED
    BY <2>2, <2>3
<1>4. Monthly(bill) = SumFunction(f) /\ SumFunction(f) \in Nat
  <2>1. Restrict(f, D) = f
    BY DEF Restrict, Costs
  <2>2. f = [i \in 1..Len(bill) |-> bill[i].monthly]
    BY <1>0 DEF Costs
  <2>3. Monthly(bill) = SumFunction(f)
    BY <2>2 DEF Monthly, MonthlyUpTo
  <2>4. SumFunction(Restrict(f, D)) \in Nat
    BY <1>3
  <2> QED
    BY <2>1, <2>3, <2>4
<1>5. ASSUME NEW n \in 0..Len(bill)
      PROVE  MonthlyUpTo(bill, n) \in Nat /\ MonthlyUpTo(bill, n) <= Monthly(bill)
  <2>1. 1..n \in SUBSET D
    BY <1>0
  <2>2. MonthlyUpTo(bill, n) = SumFunction(Restrict(f, 1..n))
    BY <1>2, <2>1 DEF MonthlyUpTo
  <2> QED
    BY <1>3, <1>4, <2>1, <2>2
<1>6. \A c : MonthlyIn(bill, c) = SumFunction(Restrict(f, Of(c))) /\ Of(c) \in SUBSET D
  <2> SUFFICES ASSUME NEW c
               PROVE  MonthlyIn(bill, c) = SumFunction(Restrict(f, Of(c))) /\ Of(c) \in SUBSET D
    OBVIOUS
  <2>1. Of(c) \in SUBSET D
    OBVIOUS
  <2>2. Restrict(f, Of(c)) = [i \in Of(c) |-> bill[i].monthly]
    BY <1>2, <2>1
  <2> QED
    BY <2>1, <2>2 DEF MonthlyIn
<1>7. ASSUME NEW c, \A i \in D : bill[i].currency = c PROVE MonthlyIn(bill, c) = Monthly(bill)
  <2>1. Of(c) = D /\ Restrict(f, D) = f
    BY <1>7 DEF Restrict, Costs
  <2> HIDE DEF f, Of
  <2> QED
    BY <1>4, <1>6, <2>1
<1>8. SumFunction(Restrict(f, {})) = 0
  <2>1. f \in [D -> Int]
    BY <1>1
  <2> HIDE DEF f
  <2> QED
    BY <1>0, <2>1, SumWhole
<1>9. ASSUME NEW c, \A i \in D : bill[i].currency # c PROVE MonthlyIn(bill, c) = 0
  <2>1. Of(c) = {}
    BY <1>9
  <2> HIDE DEF f, Of
  <2> QED
    BY <1>6, <1>8, <2>1
<1>10. ASSUME bill = <<>> PROVE Monthly(bill) = 0
  <2>1. D = {} /\ Restrict(f, D) = f
    BY <1>10 DEF Restrict, Costs
  <2> HIDE DEF f
  <2> QED
    BY <1>4, <1>8, <2>1
<1>11. \A c : MonthlyIn(bill, c) \in Nat
  <2> HIDE DEF f, Of
  <2> QED
    BY <1>3, <1>6
<1> HIDE DEF f, Of
<1> QED
  BY <1>1, <1>4, <1>5, <1>7, <1>9, <1>10, <1>11 DEF f

\* An address that is not priced has an empty bill.
LEMMA EntryShape ==
    ASSUME NEW r \in Reports, NEW a \in Addresses
    PROVE  /\ r[a].is \in {"absent", "skipped", "priced"} /\ r[a].bill \in EveryBill
           /\ r[a].is = "priced" => r[a].bill \in Bills
           /\ r[a].is # "priced" => r[a].bill = <<>>
           /\ r[a].is = "absent" <=> r[a] = Absent
           /\ r[a].is = "skipped" <=> r[a] = Skipped
<1>1. r[a] \in Entries
  BY DEF Reports
<1> QED
  BY <1>1 DEF Entries, Absent, Skipped, Priced, EveryBill

\* The currencies of a bill, and those of a report.
LEMMA CurrenciesFit ==
    ASSUME NEW r \in Reports
    PROVE  /\ CurrenciesIn(r) \in SUBSET (DOMAIN Normal \ {Blank}) /\ IsFiniteSet(CurrenciesIn(r))
           /\ \A a \in PricedIn(r) : \A i \in DOMAIN r[a].bill : r[a].bill[i].currency \in CurrenciesIn(r)
           /\ \A a \in PricedIn(r) : CurrenciesOf(r[a].bill) # {}
                                       /\ CurrenciesOf(r[a].bill) \in SUBSET CurrenciesIn(r)
           /\ CurrenciesIn(r) = {} => PricedIn(r) = {}
<1>1. \A a \in PricedIn(r) : r[a].bill \in Bills /\ r[a].bill \in EveryBill
  BY EntryShape DEF PricedIn
<1>2. \A a \in PricedIn(r) : /\ CurrenciesOf(r[a].bill) = {r[a].bill[i].currency : i \in DOMAIN r[a].bill}
                             /\ CurrenciesOf(r[a].bill) \in SUBSET (DOMAIN Normal \ {Blank})
                             /\ CurrenciesOf(r[a].bill) # {}
  <2> SUFFICES ASSUME NEW a \in PricedIn(r)
               PROVE  /\ CurrenciesOf(r[a].bill) = {r[a].bill[i].currency : i \in DOMAIN r[a].bill}
                      /\ CurrenciesOf(r[a].bill) \in SUBSET (DOMAIN Normal \ {Blank})
                      /\ CurrenciesOf(r[a].bill) # {}
    OBVIOUS
  <2>1. /\ 1 \in DOMAIN r[a].bill
        /\ \A i \in DOMAIN r[a].bill : r[a].bill[i].currency \in DOMAIN Normal /\ r[a].bill[i].currency # Blank
    BY <1>1, BillShape
  <2> QED
    BY <2>1 DEF CurrenciesOf
<1>3. CurrenciesIn(r) \in SUBSET (DOMAIN Normal \ {Blank})
  BY <1>2 DEF CurrenciesIn
<1>4. IsFiniteSet(CurrenciesIn(r))
  <2>1. IsFiniteSet(DOMAIN Normal) /\ CurrenciesIn(r) \in SUBSET DOMAIN Normal
    BY <1>3, PolicyAssumption
  <2> QED
    BY <2>1, FS_Subset
<1>5. \A a \in PricedIn(r) : CurrenciesOf(r[a].bill) \in SUBSET CurrenciesIn(r)
  BY DEF CurrenciesIn
<1>6. \A a \in PricedIn(r) : \A i \in DOMAIN r[a].bill : r[a].bill[i].currency \in CurrenciesIn(r)
  BY <1>2, <1>5
<1> QED
  BY <1>2, <1>3, <1>4, <1>5, <1>6

\* A report in one currency adds up to the total of that currency, and a report
\* without any to nothing.
LEMMA ReportSums ==
    ASSUME NEW r \in Reports
    PROVE  /\ Total(r) \in Nat
           /\ \A c : /\ TotalIn(r, c) \in Nat
                     /\ CurrenciesIn(r) \in SUBSET {c} => TotalIn(r, c) = Total(r)
                     /\ c \notin CurrenciesIn(r) => TotalIn(r, c) = 0
           /\ CurrenciesIn(r) = {} => Total(r) = 0
<1> DEFINE P == PricedIn(r)
<1>0. /\ IsFiniteSet(P)
      /\ \A a \in P : r[a].bill \in EveryBill
  <2>1. P \in SUBSET Addresses /\ IsFiniteSet(Addresses)
    BY DiffAssumption DEF PricedIn
  <2>2. IsFiniteSet(P)
    BY <2>1, FS_Subset
  <2> QED
    BY <2>2, EntryShape DEF PricedIn
<1>1. [a \in P |-> Monthly(r[a].bill)] \in [P -> Nat]
  BY <1>0, BillSums
<1>2. \A c : [a \in P |-> MonthlyIn(r[a].bill, c)] \in [P -> Nat]
  BY <1>0, BillSums
<1>3. Total(r) \in Nat
  BY <1>0, <1>1, SumNat DEF Total
<1>4. \A c : TotalIn(r, c) \in Nat
  BY <1>0, <1>2, SumNat DEF TotalIn
<1>5. ASSUME NEW c, CurrenciesIn(r) \in SUBSET {c} PROVE TotalIn(r, c) = Total(r)
  <2>1. \A a \in P : \A i \in DOMAIN r[a].bill : r[a].bill[i].currency = c
    BY <1>5, CurrenciesFit
  <2>2. \A a \in P : MonthlyIn(r[a].bill, c) = Monthly(r[a].bill)
    BY <1>0, <2>1, BillSums
  <2>3. [a \in P |-> MonthlyIn(r[a].bill, c)] = [a \in P |-> Monthly(r[a].bill)]
    BY <2>2
  <2> QED
    BY <2>3, Zenon DEF Total, TotalIn
<1>6. ASSUME NEW c, c \notin CurrenciesIn(r) PROVE TotalIn(r, c) = 0
  <2>1. \A a \in P : \A i \in DOMAIN r[a].bill : r[a].bill[i].currency # c
    BY <1>6, CurrenciesFit
  <2>2. \A a \in P : MonthlyIn(r[a].bill, c) = 0
    BY <1>0, <2>1, BillSums
  <2> DEFINE f == [a \in P |-> MonthlyIn(r[a].bill, c)]
  <2>3. f \in [P -> Int] /\ \A a \in P : f[a] = 0
    BY <2>2
  <2>4. TotalIn(r, c) = SumFunction(f)
    BY DEF TotalIn
  <2> HIDE DEF f
  <2> QED
    BY <1>0, <2>3, <2>4, SumZero
<1>7. ASSUME CurrenciesIn(r) = {} PROVE Total(r) = 0
  <2>1. TotalIn(r, Blank) = Total(r) /\ TotalIn(r, Blank) = 0
    BY <1>5, <1>6, <1>7
  <2> QED
    BY <2>1
<1> QED
  BY <1>3, <1>4, <1>5, <1>6, <1>7

-----------------------------------------------------------------------------
(***************************************************************************)
(* What is true at every step of a command.                                *)
(***************************************************************************)
Decided == stage = "over" /\ exit # 1
Reported == stage \in {"judge", "render"} \/ Decided

\* What the command was started with.
Started ==
    /\ command \in {"breakdown", "diff"} /\ setting \in Settings
    /\ truth \in [Sides -> Reports]
    /\ command = "breakdown" => truth["before"] = NoPlan
    /\ \A s \in Sides : \A a \in Addresses : truth[s][a] # Skipped

\* Only a command that has come to its end has shown something.
Staged ==
    /\ stage \in {"policy", "price", "judge", "render", "over"}
    /\ stage # "over" => exit = Running
    /\ ~Decided => shown = {} /\ exit \in {Running, 1}

\* The policy is the one that was set, once it has been read.
PolicyRead ==
    /\ stage = "policy" => policy = {}
    /\ stage = "price" \/ Reported =>
        /\ Asked(setting.file, setting.flags) =>
            /\ Loads(setting.file, setting.flags)
            /\ policy = {Normalized(Merged(setting.file, setting.flags))}
        /\ ~Asked(setting.file, setting.flags) => policy = {}

\* A report differs from what is true only in what is skipped, and is finite.
SaysOnly(r, t) == \A a \in Addresses : r[a] = t[a] \/ (r[a] = Skipped /\ t[a] # Absent)
ReportFits ==
    Reported =>
        /\ report \in [Sides -> Reports]
        /\ \A s \in Sides : ValidateFiniteReport(report[s]) /\ SaysOnly(report[s], truth[s])

\* The violations are those of the policy, and the exit code is theirs.
Judgement ==
    UNION {IF command = "diff" THEN EvaluateDiff(p, report["before"], report["after"])
           ELSE EvaluateBreakdown(p, report["after"]) : p \in policy}
Judged ==
    /\ stage = "render" \/ Decided => violations = Judgement
    /\ Decided =>
        /\ shown = {IF command = "diff" THEN ComputeDiff(report["before"], report["after"])
                    ELSE Footer(report["after"])}
        /\ exit = IF violations = {} THEN 0 ELSE 2

GateInv == Started /\ Staged /\ PolicyRead /\ ReportFits /\ Judged

LEMMA InitGateInv == Init => GateInv
<1> SUFFICES ASSUME Init PROVE GateInv
  OBVIOUS
<1>1. Started
  <2>1. command \in {"breakdown", "diff"}
    <3>1. Commands \subseteq {"breakdown", "diff"}
      BY GateAssumption
    <3> QED
      BY <3>1 DEF Init
  <2>2. \A p \in Plans : p \in Reports /\ \A a \in Addresses : p[a] # Skipped
    BY DEF Plans, Reports, Entries, Absent, Skipped, Priced
  <2>3. truth \in [Sides -> Plans] /\ setting \in Settings
        /\ (command = "breakdown" => truth["before"] = NoPlan)
    BY DEF Init
  <2> QED
    BY <2>1, <2>2, <2>3 DEF Started
<1>2. Staged /\ ~Reported /\ ~Decided /\ stage = "policy" /\ policy = {}
  BY DEF Init, Staged, Decided, Reported
<1> QED
  BY <1>1, <1>2 DEF GateInv, PolicyRead, ReportFits, Judged

\* A command that fails has nothing to tell.
LEMMA FailGateInv == GateInv /\ stage # "over" /\ Fail => GateInv'
<1> SUFFICES ASSUME GateInv, stage # "over", Fail PROVE GateInv'
  OBVIOUS
<1>1. Started'
  BY DEF GateInv, Started, Fail, inputs
<1>2. shown = {} /\ stage' = "over" /\ exit' = 1 /\ shown' = shown
  BY DEF GateInv, Staged, Decided, Fail
<1>3. Staged' /\ ~Reported' /\ ~Decided' /\ stage' = "over"
  BY <1>2 DEF Staged, Reported, Decided, Running
<1> QED
  BY <1>1, <1>3 DEF GateInv, PolicyRead, ReportFits, Judged

LEMMA LoadPolicyGateInv == GateInv /\ LoadPolicy => GateInv'
<1> SUFFICES ASSUME GateInv, LoadPolicy PROVE GateInv'
  OBVIOUS
<1>1. CASE Asked(setting.file, setting.flags) /\ ~Loads(setting.file, setting.flags) /\ Fail
  BY <1>1, FailGateInv DEF LoadPolicy
<1>2. CASE stage' = "price"
  <2>1. UNCHANGED <<inputs, report, violations, shown, exit>> /\ stage = "policy"
    BY <1>2 DEF LoadPolicy, Fail
  <2>2. Started'
    BY <2>1 DEF GateInv, Started, inputs
  <2>3. Staged' /\ ~Reported' /\ ~Decided'
    BY <1>2, <2>1 DEF GateInv, Staged, Decided, Reported
  <2>5. CASE Asked(setting.file, setting.flags)
    <3>1. /\ Loads(setting.file, setting.flags)
          /\ policy' = {Normalized(Merged(setting.file, setting.flags))}
          /\ setting' = setting
      BY <1>2, <2>1, <2>5 DEF LoadPolicy, Fail, inputs
    <3> QED
      BY <1>2, <2>2, <2>3, <2>5, <3>1, Zenon DEF GateInv, PolicyRead, ReportFits, Judged
  <2>6. CASE ~Asked(setting.file, setting.flags)
    <3>1. policy' = policy /\ setting' = setting
      BY <1>2, <2>1, <2>6 DEF LoadPolicy, Fail, inputs
    <3>2. policy = {}
      BY <2>1 DEF GateInv, PolicyRead
    <3> QED
      BY <1>2, <2>2, <2>3, <2>6, <3>1, <3>2, Zenon DEF GateInv, PolicyRead, ReportFits, Judged
  <2> QED
    BY <2>5, <2>6
<1> QED
  BY <1>1, <1>2 DEF LoadPolicy

LEMMA PriceGateInv == GateInv /\ Price => GateInv'
<1> SUFFICES ASSUME GateInv, Price PROVE GateInv'
  OBVIOUS
<1>0. stage = "price"
  BY DEF Price
<1>1. PICK missed \in SUBSET {m \in Sides \X Addresses : truth[m[1]][m[2]] # Absent} :
        LET priced == [s \in Sides |-> [a \in Addresses |->
                         IF <<s, a>> \in missed THEN Skipped ELSE truth[s][a]]]
            finite == \A s \in Sides : ValidateFiniteReport(priced[s])
        IN  \/ /\ finite
               /\ report' = priced /\ stage' = "judge"
               /\ UNCHANGED <<inputs, policy, violations, shown, exit>>
            \/ (missed # {} \/ ~finite) /\ Fail
  BY DEF Price
<1> DEFINE priced == [s \in Sides |-> [a \in Addresses |->
                       IF <<s, a>> \in missed THEN Skipped ELSE truth[s][a]]]
<1>2. CASE Fail
  BY <1>0, <1>2, FailGateInv
<1>3. CASE ~Fail
  <2>1. /\ \A s \in Sides : ValidateFiniteReport(priced[s])
        /\ report' = priced /\ stage' = "judge"
        /\ UNCHANGED <<inputs, policy, violations, shown, exit>>
    BY <1>1, <1>3
  <2>2. truth \in [Sides -> Reports]
    BY DEF GateInv, Started
  <2>3. /\ priced \in [Sides -> Reports]
        /\ \A s \in Sides : SaysOnly(priced[s], truth[s])
    <3>1. \A s \in Sides : \A a \in Addresses :
            /\ truth[s][a] \in Entries
            /\ <<s, a>> \in missed => truth[s][a] # Absent
      BY <2>2 DEF Reports
    <3>2. Skipped \in Entries
      BY DEF Entries
    <3>3. \A s \in Sides : \A a \in Addresses :
            /\ priced[s][a] \in Entries
            /\ priced[s][a] = truth[s][a] \/ (priced[s][a] = Skipped /\ truth[s][a] # Absent)
      <4> SUFFICES ASSUME NEW s \in Sides, NEW a \in Addresses
                   PROVE  /\ priced[s][a] \in Entries
                          /\ \/ priced[s][a] = truth[s][a]
                             \/ priced[s][a] = Skipped /\ truth[s][a] # Absent
        OBVIOUS
      <4>1. priced[s][a] = IF <<s, a>> \in missed THEN Skipped ELSE truth[s][a]
        OBVIOUS
      <4> HIDE DEF priced
      <4> QED
        BY <3>1, <3>2, <4>1
    <3>4. priced = [s \in Sides |-> [a \in Addresses |-> priced[s][a]]]
      OBVIOUS
    <3> HIDE DEF priced
    <3>5. priced \in [Sides -> Reports]
      <4>1. \A s \in Sides : [a \in Addresses |-> priced[s][a]] \in Reports
        BY <3>3 DEF Reports
      <4>2. [s \in Sides |-> [a \in Addresses |-> priced[s][a]]] \in [Sides -> Reports]
        BY <4>1
      <4> QED
        BY <3>4, <4>2, Zenon
    <3> QED
      BY <3>3, <3>5, Zenon DEF SaysOnly
  <2> HIDE DEF priced
  <2>4. Started'
    BY <2>1 DEF GateInv, Started, inputs
  <2>5. Staged' /\ ~Decided'
    BY <1>0, <2>1 DEF GateInv, Staged, Decided
  <2>6. PolicyRead'
    BY <1>0, <2>1 DEF GateInv, PolicyRead, inputs
  <2>7. ReportFits'
    BY <2>1, <2>3 DEF ReportFits, inputs
  <2>8. Judged'
    BY <2>1, <2>5 DEF Judged
  <2> QED
    BY <2>4, <2>5, <2>6, <2>7, <2>8 DEF GateInv
<1> QED
  BY <1>2, <1>3

LEMMA JudgeGateInv == GateInv /\ Judge => GateInv'
<1> SUFFICES ASSUME GateInv, Judge PROVE GateInv'
  OBVIOUS
<1>0. stage = "judge"
  BY DEF Judge
<1>1. CASE Fail
  BY <1>0, <1>1, FailGateInv
<1>2. CASE ~Fail
  <2>1. /\ violations' = Judgement /\ stage' = "render"
        /\ UNCHANGED <<inputs, policy, report, shown, exit>>
    BY <1>2 DEF Judge, Judgement
  <2>2. Started'
    BY <2>1 DEF GateInv, Started, inputs
  <2>3. Staged' /\ ~Decided'
    BY <1>0, <2>1 DEF GateInv, Staged, Decided
  <2>4. PolicyRead'
    BY <1>0, <2>1 DEF GateInv, PolicyRead, Reported, inputs
  <2>5. ReportFits'
    BY <1>0, <2>1 DEF GateInv, ReportFits, Reported, inputs
  <2>6. Judged'
    <3>1. Judgement' = Judgement
      BY <2>1 DEF Judgement, inputs
    <3> QED
      BY <2>1, <2>3, <3>1 DEF Judged
  <2> QED
    BY <2>2, <2>3, <2>4, <2>5, <2>6 DEF GateInv
<1> QED
  BY <1>1, <1>2

LEMMA RenderGateInv == GateInv /\ Render => GateInv'
<1> SUFFICES ASSUME GateInv, Render PROVE GateInv'
  OBVIOUS
<1>1. /\ stage = "render" /\ stage' = "over"
      /\ shown' = {IF command = "diff" THEN ComputeDiff(report["before"], report["after"])
                   ELSE Footer(report["after"])}
      /\ exit' = IF violations = {} THEN 0 ELSE 2
      /\ UNCHANGED <<inputs, policy, report, violations>>
  BY DEF Render
<1>2. Started'
  BY <1>1 DEF GateInv, Started, inputs
<1>3. Staged' /\ Decided' /\ Reported'
  BY <1>1 DEF Staged, Decided, Reported
<1>4. PolicyRead'
  BY <1>1 DEF GateInv, PolicyRead, Reported, inputs
<1>5. ReportFits'
  BY <1>1 DEF GateInv, ReportFits, Reported, inputs
<1>6. Judged'
  <2>1. Judgement' = Judgement /\ command' = command
    BY <1>1 DEF Judgement, inputs
  <2>2. violations = Judgement
    BY <1>1 DEF GateInv, Judged
  <2> QED
    BY <1>1, <2>1, <2>2, Zenon DEF Judged
<1> QED
  BY <1>2, <1>3, <1>4, <1>5, <1>6 DEF GateInv

LEMMA NextGateInv == GateInv /\ [Next]_vars => GateInv'
<1> SUFFICES ASSUME GateInv, [Next]_vars PROVE GateInv'
  OBVIOUS
<1>1. CASE UNCHANGED vars
  BY <1>1 DEF vars, inputs, GateInv, Started, Staged, PolicyRead, ReportFits, Judged, Judgement,
              Reported, Decided
<1> QED
  BY <1>1, LoadPolicyGateInv, PriceGateInv, JudgeGateInv, RenderGateInv DEF Next

LEMMA AlwaysGateInv == Spec => []GateInv
  BY InitGateInv, NextGateInv, PTL DEF Spec

-----------------------------------------------------------------------------
(***************************************************************************)
(* What a diff and a footer say, of any two reports.                       *)
(***************************************************************************)

\* A set of currencies is either told by its one element or not at all.
LEMMA OneCurrency ==
    ASSUME NEW S, IsFiniteSet(S), Blank \notin S, UniformCurrency(S) # Blank
    PROVE  S = {UniformCurrency(S)} /\ Cardinality(S) = 1
<1>1. Cardinality(S) = 1 /\ UniformCurrency(S) = CHOOSE c \in S : TRUE
  BY DEF UniformCurrency
<1>2. PICK x : S = {x}
  BY <1>1, FS_Singleton
<1> QED
  BY <1>1, <1>2

\* A report without a skipped resource is the truth.
LEMMA NothingSkipped ==
    ASSUME NEW r \in Reports, NEW t \in Reports, SaysOnly(r, t), SkippedIn(r) = {}
    PROVE  r = t
<1>1. \A a \in Addresses : r[a] = t[a]
  BY DEF SkippedIn, SaysOnly, Skipped
<1> QED
  BY <1>1 DEF Reports

\* The amount of a row: all of the bill, unless something stopped it before.
LEMMA RowSums ==
    ASSUME NEW bill \in EveryBill
    PROVE  /\ ResourceMonthly(bill) \in Nat /\ ResourceMonthly(bill) <= Monthly(bill)
           /\ Clashes(bill) = {} => ResourceMonthly(bill) = Monthly(bill)
           /\ bill = <<>> => Clashes(bill) = {}
           /\ \A c : (\A i \in DOMAIN bill : bill[i].currency = c) => Clashes(bill) = {}
<1>0. Len(bill) \in Nat /\ DOMAIN bill = 1..Len(bill) /\ \A i \in DOMAIN bill : bill[i].currency # Blank
  BY BillShape
<1>1. Clashes(bill) \in SUBSET (1..Len(bill))
  BY <1>0 DEF Clashes
<1>2. Clashes(bill) = {} => ResourceMonthly(bill) = Monthly(bill)
  BY DEF ResourceMonthly, Monthly
<1>3. ASSUME Clashes(bill) # {}
      PROVE  ResourceMonthly(bill) \in Nat /\ ResourceMonthly(bill) <= Monthly(bill)
  <2>1. Clashes(bill) \in SUBSET Nat
    BY <1>1
  <2>2. \E m \in Clashes(bill) : \A n \in Clashes(bill) : m <= n
    BY <1>3, <2>1, NatMinimum
  <2>3. Min(Clashes(bill)) \in Clashes(bill)
    BY <2>2 DEF Min
  <2>4. Min(Clashes(bill)) \in 0..Len(bill)
    BY <1>0, <1>1, <2>3
  <2>5. ResourceMonthly(bill) = MonthlyUpTo(bill, Min(Clashes(bill)))
    BY <1>3 DEF ResourceMonthly
  <2> QED
    BY <2>4, <2>5, BillSums
<1>4. bill = <<>> => Clashes(bill) = {}
  BY DEF Clashes
<1>5. \A c : (\A i \in DOMAIN bill : bill[i].currency = c) => Clashes(bill) = {}
  BY <1>0 DEF Clashes
<1>6. Monthly(bill) \in Nat
  BY BillSums
<1> QED
  BY <1>2, <1>3, <1>4, <1>5, <1>6

\* A bill in a report of one currency can be compared.
LEMMA OneCurrencyRows ==
    ASSUME NEW r \in Reports, NEW c, CurrenciesIn(r) \in SUBSET {c}, NEW a \in PricedIn(r)
    PROVE  Comparable(r[a].bill) /\ CurrenciesOf(r[a].bill) = {c}
<1>1. CurrenciesOf(r[a].bill) = {c}
  BY CurrenciesFit
<1>2. \A i \in DOMAIN r[a].bill : r[a].bill[i].currency = c
  BY CurrenciesFit
<1>3. r[a].bill \in EveryBill
  BY EntryShape DEF PricedIn
<1>4. Clashes(r[a].bill) = {}
  BY <1>2, <1>3, RowSums
<1> QED
  BY <1>1, <1>4 DEF Comparable

\* What the line on the total takes for granted.
LEMMA TotalTakes ==
    ASSUME NEW b \in Reports, NEW a \in Reports, TotalLine(ComputeDiff(b, a)) = "total"
    PROVE  /\ SkippedIn(b) = {} /\ SkippedIn(a) = {}
           /\ CurrenciesIn(b) \cup CurrenciesIn(a) = {DiffCurrency(b, a)}
           /\ ComputeDiff(b, a).before = Total(b) /\ ComputeDiff(b, a).after = Total(a)
           /\ ComputeDiff(b, a).delta = Total(a) - Total(b)
           /\ \A x \in DOMAIN ComputeDiff(b, a).resources : ~Uncertain(b[x], a[x])
<1> DEFINE d == ComputeDiff(b, a)
           S == CurrenciesIn(b) \cup CurrenciesIn(a)
           c == DiffCurrency(b, a)
<1>1. /\ d.currency = c /\ d.skipped = SkippedIn(b) \cup SkippedIn(a)
      /\ d.complete = (SkippedIn(b) = {} /\ SkippedIn(a) = {})
      /\ DOMAIN d.resources = PricedIn(b) \cup PricedIn(a)
      /\ d.before = (IF c = Blank THEN <<0, 0>> ELSE <<Total(b), Total(a)>>)[1]
      /\ d.after = (IF c = Blank THEN <<0, 0>> ELSE <<Total(b), Total(a)>>)[2]
      /\ d.delta = (IF c = Blank THEN <<0, 0>> ELSE <<Total(b), Total(a)>>)[2]
                     - (IF c = Blank THEN <<0, 0>> ELSE <<Total(b), Total(a)>>)[1]
  BY DEF ComputeDiff
<1>2. TotalsComplete(d) /\ d.currency # Blank
  BY DEF TotalLine
<1> HIDE DEF d
<1>3. SkippedIn(b) = {} /\ SkippedIn(a) = {}
  BY <1>1, <1>2 DEF TotalsComplete
<1>4. S = {c}
  <2>1. IsFiniteSet(S) /\ Blank \notin S
    BY CurrenciesFit, FS_Union
  <2>2. UniformCurrency(S) # Blank /\ c = UniformCurrency(S)
    BY <1>1, <1>2 DEF DiffCurrency
  <2> QED
    BY <2>1, <2>2, OneCurrency
<1>5. d.before = Total(b) /\ d.after = Total(a) /\ d.delta = Total(a) - Total(b)
  BY <1>1, <1>2
<1>6. \A x \in PricedIn(b) \cup PricedIn(a) : ~Uncertain(b[x], a[x])
  <2> SUFFICES ASSUME NEW x \in PricedIn(b) \cup PricedIn(a) PROVE ~Uncertain(b[x], a[x])
    OBVIOUS
  <2>1. x \in Addresses /\ b[x].is # "skipped" /\ a[x].is # "skipped"
    BY <1>3 DEF SkippedIn, PricedIn
  <2>2. b[x].is = "priced" => Comparable(b[x].bill) /\ CurrenciesOf(b[x].bill) = {c}
    BY <1>4, <2>1, OneCurrencyRows DEF PricedIn
  <2>3. a[x].is = "priced" => Comparable(a[x].bill) /\ CurrenciesOf(a[x].bill) = {c}
    BY <1>4, <2>1, OneCurrencyRows DEF PricedIn
  <2> QED
    BY <2>1, <2>2, <2>3 DEF Uncertain
<1> QED
  BY <1>1, <1>3, <1>4, <1>5, <1>6 DEF d

-----------------------------------------------------------------------------
(***************************************************************************)
(* What is shown is true.                                                  *)
(***************************************************************************)

\* What is shown is worked out from the reports, at the end.
LEMMA ShownFromReports ==
    ASSUME GateInv, NEW d \in shown
    PROVE  /\ Decided
           /\ report["before"] \in Reports /\ report["after"] \in Reports
           /\ truth["before"] \in Reports /\ truth["after"] \in Reports
           /\ \A s \in Sides : ValidateFiniteReport(report[s]) /\ SaysOnly(report[s], truth[s])
           /\ command = "diff" => d = ComputeDiff(report["before"], report["after"])
           /\ command = "breakdown" => d = Footer(report["after"])
<1>1. Decided /\ Reported
  BY DEF GateInv, Staged, Reported
<1>2. d = IF command = "diff" THEN ComputeDiff(report["before"], report["after"])
          ELSE Footer(report["after"])
  BY <1>1 DEF GateInv, Judged
<1> QED
  BY <1>1, <1>2 DEF GateInv, ReportFits, Started, Sides

\* A total is only printed when it is the real one.
THEOREM TotalsAreTrue == Spec => []TotalIsTrue
<1>1. GateInv => TotalIsTrue
  <2> SUFFICES ASSUME GateInv PROVE TotalIsTrue
    OBVIOUS
  <2>1. ASSUME NEW d \in shown, command = "diff", TotalLine(d) = "total"
        PROVE  /\ d.before = Total(truth["before"]) /\ d.after = Total(truth["after"])
               /\ CurrenciesIn(truth["before"]) \cup CurrenciesIn(truth["after"]) = {d.currency}
               /\ \A x \in DOMAIN d.resources : ~d.resources[x].uncertain
    <3> DEFINE b == report["before"]
               a == report["after"]
    <3>1. /\ b \in Reports /\ a \in Reports /\ d = ComputeDiff(b, a)
          /\ truth["before"] \in Reports /\ truth["after"] \in Reports
          /\ SaysOnly(b, truth["before"]) /\ SaysOnly(a, truth["after"])
      BY <2>1, ShownFromReports DEF Sides
    <3> HIDE DEF b, a
    <3>2. /\ SkippedIn(b) = {} /\ SkippedIn(a) = {}
          /\ CurrenciesIn(b) \cup CurrenciesIn(a) = {DiffCurrency(b, a)}
          /\ d.before = Total(b) /\ d.after = Total(a)
          /\ \A x \in DOMAIN d.resources : ~Uncertain(b[x], a[x])
      BY <2>1, <3>1, TotalTakes
    <3>3. b = truth["before"] /\ a = truth["after"]
      BY <3>1, <3>2, NothingSkipped
    <3>4. d.currency = DiffCurrency(b, a)
          /\ \A x \in DOMAIN d.resources : d.resources[x].uncertain = Uncertain(b[x], a[x])
      BY <3>1 DEF ComputeDiff, ResourceDiff
    <3> QED
      BY <3>2, <3>3, <3>4
  <2>2. ASSUME NEW f \in shown, command = "breakdown", f.label = "total", NEW amount \in f.amount
        PROVE  amount = Total(truth["after"]) /\ Cardinality(CurrenciesIn(truth["after"])) <= 1
    <3> DEFINE a == report["after"]
               S == CurrenciesIn(a)
    <3>1. a \in Reports /\ f = Footer(a) /\ truth["after"] \in Reports /\ SaysOnly(a, truth["after"])
      BY <2>2, ShownFromReports DEF Sides
    <3> HIDE DEF a
    <3>2. SkippedIn(a) = {}
      BY <2>2, <3>1 DEF Footer
    <3>3. a = truth["after"]
      BY <3>1, <3>2, NothingSkipped
    <3>4. IsFiniteSet(S) /\ Blank \notin S /\ (PricedIn(a) = {} => S = {})
      BY <3>1, CurrenciesFit DEF CurrenciesIn
    <3>5. amount \in IF UniformCurrency(S) # Blank THEN {Total(a)}
                     ELSE IF PricedIn(a) = {} /\ ~(SkippedIn(a) # {}) THEN {0} ELSE {}
      BY <2>2, <3>1 DEF Footer
    <3>6. CASE UniformCurrency(S) # Blank
      <4>1. Cardinality(S) = 1
        BY <3>4, <3>6, OneCurrency
      <4> QED
        BY <3>3, <3>5, <3>6, <4>1
    <3>7. CASE UniformCurrency(S) = Blank
      <4>1. S = {} /\ amount = 0
        BY <3>4, <3>5, <3>7
      <4>2. Total(a) = 0 /\ Cardinality(S) = 0
        BY <3>1, <4>1, ReportSums, FS_EmptySet
      <4> QED
        BY <3>3, <4>1, <4>2
    <3> QED
      BY <3>6, <3>7
  <2> QED
    BY <2>1, <2>2 DEF TotalIsTrue, Diffs, Footers
<1> QED
  BY <1>1, AlwaysGateInv, PTL

\* In a finite report every sum that may be shown is finite.
LEMMA FiniteSums ==
    ASSUME NEW r \in Reports, ValidateFiniteReport(r)
    PROVE  /\ \A c : Finite(TotalIn(r, c))
           /\ \A c : CurrenciesIn(r) \in SUBSET {c} => Finite(Total(r))
           /\ \A a \in Addresses : Finite(ResourceMonthly(r[a].bill))
<1>0. MaxFinite \in Nat
  BY DiffAssumption
<1>1. ASSUME NEW c PROVE Finite(TotalIn(r, c))
  <2>1. CASE c \in CurrenciesIn(r)
    BY <2>1 DEF ValidateFiniteReport
  <2>2. CASE c \notin CurrenciesIn(r)
    BY <1>0, <2>2, ReportSums DEF Finite
  <2> QED
    BY <2>1, <2>2
<1>2. ASSUME NEW c, CurrenciesIn(r) \in SUBSET {c} PROVE Finite(Total(r))
  BY <1>1, <1>2, ReportSums
<1>3. ASSUME NEW a \in Addresses PROVE Finite(ResourceMonthly(r[a].bill))
  <2>1. r[a].bill \in EveryBill
    BY EntryShape
  <2>2. /\ ResourceMonthly(r[a].bill) \in Nat /\ ResourceMonthly(r[a].bill) <= Monthly(r[a].bill)
        /\ r[a].bill = <<>> => ResourceMonthly(r[a].bill) = Monthly(r[a].bill)
    BY <2>1, RowSums
  <2>3. Monthly(r[a].bill) \in Nat /\ (r[a].bill = <<>> => Monthly(r[a].bill) = 0)
    BY <2>1, BillSums
  <2>4. CASE a \in PricedIn(r)
    <3>1. Monthly(r[a].bill) <= MaxFinite
      BY <2>4 DEF ValidateFiniteReport, Finite
    <3> QED
      BY <1>0, <2>2, <2>3, <3>1 DEF Finite
  <2>5. CASE a \notin PricedIn(r)
    <3>1. r[a].bill = <<>>
      BY <2>5, EntryShape DEF PricedIn
    <3> QED
      BY <1>0, <2>2, <2>3, <3>1 DEF Finite
  <2> QED
    BY <2>4, <2>5
<1> QED
  BY <1>1, <1>2, <1>3

\* No number that is shown is infinite.
THEOREM NothingInfiniteShown == Spec => []ShownIsFinite
<1>0. MaxFinite \in Nat
  BY DiffAssumption
<1>1. GateInv => ShownIsFinite
  <2> SUFFICES ASSUME GateInv PROVE ShownIsFinite
    OBVIOUS
  <2>1. ASSUME NEW f \in shown, command = "breakdown", NEW amount \in f.amount
        PROVE  Finite(amount)
    <3> DEFINE a == report["after"]
               S == CurrenciesIn(a)
    <3>1. a \in Reports /\ f = Footer(a) /\ ValidateFiniteReport(a)
      BY <2>1, ShownFromReports DEF Sides
    <3> HIDE DEF a
    <3>2. IsFiniteSet(S) /\ Blank \notin S
      BY <3>1, CurrenciesFit
    <3>3. amount \in IF UniformCurrency(S) # Blank THEN {Total(a)}
                     ELSE IF PricedIn(a) = {} /\ ~(SkippedIn(a) # {}) THEN {0} ELSE {}
      BY <2>1, <3>1 DEF Footer
    <3>4. CASE UniformCurrency(S) # Blank
      <4>1. S = {UniformCurrency(S)}
        BY <3>2, <3>4, OneCurrency
      <4>2. Finite(Total(a))
        BY <3>1, <4>1, FiniteSums
      <4> QED
        BY <3>3, <3>4, <4>2
    <3>5. CASE UniformCurrency(S) = Blank
      BY <1>0, <3>3, <3>5 DEF Finite
    <3> QED
      BY <3>4, <3>5
  <2>2. ASSUME NEW d \in shown, command = "diff"
        PROVE  /\ Finite(d.before) /\ Finite(d.after)
               /\ \A x \in DOMAIN d.resources :
                    Finite(d.resources[x].before) /\ Finite(d.resources[x].after)
               /\ \A c \in DOMAIN d.byCurrency : Finite(d.byCurrency[c])
    <3> DEFINE b == report["before"]
               a == report["after"]
               S == CurrenciesIn(b) \cup CurrenciesIn(a)
               c == DiffCurrency(b, a)
    <3>1. /\ b \in Reports /\ a \in Reports /\ d = ComputeDiff(b, a)
          /\ ValidateFiniteReport(b) /\ ValidateFiniteReport(a)
      BY <2>2, ShownFromReports DEF Sides
    <3> HIDE DEF a, b
    <3>2. /\ d.before = (IF c = Blank THEN <<0, 0>> ELSE <<Total(b), Total(a)>>)[1]
          /\ d.after = (IF c = Blank THEN <<0, 0>> ELSE <<Total(b), Total(a)>>)[2]
          /\ d.resources = [x \in PricedIn(b) \cup PricedIn(a) |-> ResourceDiff(b[x], a[x])]
          /\ d.byCurrency = [k \in S |-> TotalIn(a, k) - TotalIn(b, k)]
      BY <3>1 DEF ComputeDiff
    <3>3. Finite(d.before) /\ Finite(d.after)
      <4>1. CASE c = Blank
        BY <1>0, <3>2, <4>1 DEF Finite
      <4>2. CASE c # Blank
        <5>1. IsFiniteSet(S) /\ Blank \notin S
          BY <3>1, CurrenciesFit, FS_Union
        <5>2. S = {c}
          BY <4>2, <5>1, OneCurrency DEF DiffCurrency
        <5>3. Finite(Total(b)) /\ Finite(Total(a))
          BY <3>1, <5>2, FiniteSums
        <5> QED
          BY <3>2, <4>2, <5>3
      <4> QED
        BY <4>1, <4>2
    <3>4. \A x \in DOMAIN d.resources : Finite(d.resources[x].before) /\ Finite(d.resources[x].after)
      <4>1. \A x \in PricedIn(b) \cup PricedIn(a) :
              Finite(ResourceMonthly(b[x].bill)) /\ Finite(ResourceMonthly(a[x].bill))
        BY <3>1, FiniteSums DEF PricedIn
      <4> QED
        BY <3>2, <4>1 DEF ResourceDiff
    <3>5. \A k \in DOMAIN d.byCurrency : Finite(d.byCurrency[k])
      <4>1. \A k : TotalIn(b, k) \in Nat /\ TotalIn(a, k) \in Nat
        BY <3>1, ReportSums
      <4>2. \A k : TotalIn(a, k) <= MaxFinite
        BY <3>1, FiniteSums DEF Finite
      <4> QED
        BY <1>0, <3>2, <4>1, <4>2 DEF Finite
    <3> QED
      BY <3>3, <3>4, <3>5
  <2> QED
    BY <2>1, <2>2 DEF ShownIsFinite, Diffs, Footers
<1> QED
  BY <1>1, AlwaysGateInv, PTL

\* A row that is not marked uncertain tells what really happens to the resource.
LEMMA RowIsTrue ==
    ASSUME NEW b \in Reports, NEW a \in Reports, NEW t \in Reports, NEW u \in Reports,
           SaysOnly(b, t), SaysOnly(a, u),
           NEW x \in PricedIn(b) \cup PricedIn(a), ~Uncertain(b[x], a[x])
    PROVE  /\ Kind(b[x], a[x]) = "+" <=> t[x] = Absent
           /\ Kind(b[x], a[x]) = "-" <=> u[x] = Absent
           /\ ResourceDiff(b[x], a[x]).delta = Monthly(u[x].bill) - Monthly(t[x].bill)
<1>1. x \in Addresses /\ b[x].is # "skipped" /\ a[x].is # "skipped"
      /\ (b[x].is = "priced" \/ a[x].is = "priced")
  BY DEF Uncertain, PricedIn
<1>2. b[x] = t[x] /\ a[x] = u[x]
  BY <1>1 DEF SaysOnly, Skipped
<1>3. (b[x].is = "absent" <=> t[x] = Absent) /\ (a[x].is = "absent" <=> u[x] = Absent)
  BY <1>1, <1>2, EntryShape
<1>4. /\ Kind(b[x], a[x]) = "+" <=> b[x].is = "absent"
      /\ Kind(b[x], a[x]) = "-" <=> a[x].is = "absent"
  BY <1>1 DEF Kind
<1>5. ResourceMonthly(b[x].bill) = Monthly(b[x].bill) /\ ResourceMonthly(a[x].bill) = Monthly(a[x].bill)
  <2>1. \A r \in Reports : (r[x].is = "priced" => Comparable(r[x].bill))
                         => ResourceMonthly(r[x].bill) = Monthly(r[x].bill)
    BY <1>1, EntryShape, RowSums DEF Comparable
  <2>2. /\ b[x].is = "priced" => Comparable(b[x].bill)
        /\ a[x].is = "priced" => Comparable(a[x].bill)
    BY DEF Uncertain
  <2> QED
    BY <2>1, <2>2
<1>6. ResourceDiff(b[x], a[x]).delta = ResourceMonthly(a[x].bill) - ResourceMonthly(b[x].bill)
  BY DEF ResourceDiff
<1> QED
  BY <1>2, <1>3, <1>4, <1>5, <1>6

\* The bills of the resources that either report prices add up to the two totals.
LEMMA RowsAddUp ==
    ASSUME NEW b \in Reports, NEW a \in Reports, NEW f \in [PricedIn(b) \cup PricedIn(a) -> Int],
           \A x \in DOMAIN f : f[x] = Monthly(a[x].bill) - Monthly(b[x].bill)
    PROVE  SumFunction(f) = Total(a) - Total(b)
<1> DEFINE P == PricedIn(b) \cup PricedIn(a)
<1>0. IsFiniteSet(P) /\ P \in SUBSET Addresses
  <2>1. IsFiniteSet(Addresses) /\ P \in SUBSET Addresses
    BY DiffAssumption DEF PricedIn
  <2> QED
    BY <2>1, FS_Subset
<1>1. ASSUME NEW r \in Reports, PricedIn(r) \in SUBSET P
      PROVE  /\ [x \in P |-> Monthly(r[x].bill)] \in [P -> Int]
             /\ SumFunction([x \in P |-> Monthly(r[x].bill)]) = Total(r)
  <2> DEFINE g == [x \in P |-> Monthly(r[x].bill)]
  <2>1. \A x \in P : /\ Monthly(r[x].bill) \in Nat
                     /\ x \notin PricedIn(r) => Monthly(r[x].bill) = 0
    BY <1>0, EntryShape, BillSums DEF PricedIn
  <2>2. g \in [P -> Int] /\ \A x \in P \ PricedIn(r) : g[x] = 0
    BY <2>1
  <2>3. Restrict(g, PricedIn(r)) = [x \in PricedIn(r) |-> Monthly(r[x].bill)]
    BY <1>1 DEF Restrict
  <2> HIDE DEF g, P
  <2>4. SumFunction(g) = SumFunction(Restrict(g, PricedIn(r)))
    BY <1>0, <1>1, <2>2, SumWithin
  <2>5. SumFunction(g) = Total(r)
    BY <2>3, <2>4 DEF Total
  <2> QED
    BY <2>2, <2>5 DEF g
<1> DEFINE fa == [x \in P |-> Monthly(a[x].bill)]
           fb == [x \in P |-> Monthly(b[x].bill)]
<1>2. /\ fa \in [P -> Int] /\ SumFunction(fa) = Total(a)
      /\ fb \in [P -> Int] /\ SumFunction(fb) = Total(b)
  BY <1>1
<1>3. f \in [P -> Int] /\ \A x \in P : f[x] = fa[x] - fb[x]
  OBVIOUS
<1> HIDE DEF fa, fb, P
<1>4. \A k, g, h \in [P -> Int] :
        (\A x \in P : h[x] = k[x] - g[x]) => SumFunction(h) = SumFunction(k) - SumFunction(g)
  BY <1>0, SumMinus
<1>5. SumFunction(f) = SumFunction(fa) - SumFunction(fb)
  BY <1>2, <1>3, <1>4, Zenon
<1> QED
  BY <1>2, <1>5

\* Rows tell what really happens to a resource, and add up to the total.
THEOREM RowsTellTheTruth == Spec => []RowsAreTrue
<1>1. GateInv => RowsAreTrue
  <2> SUFFICES ASSUME GateInv, NEW d \in shown, command = "diff"
      PROVE /\ \A x \in DOMAIN d.resources :
                ~d.resources[x].uncertain =>
                    /\ d.resources[x].kind = "+" <=> truth["before"][x] = Absent
                    /\ d.resources[x].kind = "-" <=> truth["after"][x] = Absent
                    /\ d.resources[x].delta
                         = Monthly(truth["after"][x].bill) - Monthly(truth["before"][x].bill)
            /\ TotalLine(d) = "total" =>
                d.delta = SumFunction([x \in DOMAIN d.resources |-> d.resources[x].delta])
    BY DEF RowsAreTrue, Diffs
  <2> DEFINE b == report["before"]
             a == report["after"]
             t == truth["before"]
             u == truth["after"]
             rows == PricedIn(b) \cup PricedIn(a)
  <2>1. /\ b \in Reports /\ a \in Reports /\ t \in Reports /\ u \in Reports
        /\ d = ComputeDiff(b, a) /\ SaysOnly(b, t) /\ SaysOnly(a, u)
    BY ShownFromReports DEF Sides
  <2> HIDE DEF a, b, t, u
  <2>2. /\ d.resources = [x \in rows |-> ResourceDiff(b[x], a[x])]
        /\ DOMAIN d.resources = rows
    BY <2>1 DEF ComputeDiff
  <2>3. \A x \in rows : /\ d.resources[x].uncertain = Uncertain(b[x], a[x])
                        /\ d.resources[x].kind = Kind(b[x], a[x])
                        /\ d.resources[x].delta = ResourceDiff(b[x], a[x]).delta
    BY <2>2 DEF ResourceDiff
  <2>4. \A x \in rows : ~Uncertain(b[x], a[x]) =>
          /\ Kind(b[x], a[x]) = "+" <=> t[x] = Absent
          /\ Kind(b[x], a[x]) = "-" <=> u[x] = Absent
          /\ ResourceDiff(b[x], a[x]).delta = Monthly(u[x].bill) - Monthly(t[x].bill)
    BY <2>1, RowIsTrue
  <2>5. ASSUME TotalLine(d) = "total"
        PROVE  d.delta = SumFunction([x \in DOMAIN d.resources |-> d.resources[x].delta])
    <3> DEFINE f == [x \in rows |-> d.resources[x].delta]
    <3>1. /\ SkippedIn(b) = {} /\ SkippedIn(a) = {} /\ d.delta = Total(a) - Total(b)
          /\ \A x \in rows : ~Uncertain(b[x], a[x])
      BY <2>1, <2>2, <2>5, TotalTakes
    <3>2. b = t /\ a = u
      BY <2>1, <3>1, NothingSkipped
    <3>3. \A x \in rows : /\ d.resources[x].delta = Monthly(a[x].bill) - Monthly(b[x].bill)
                          /\ Monthly(a[x].bill) \in Nat /\ Monthly(b[x].bill) \in Nat
      <4>1. \A x \in rows : a[x].bill \in EveryBill /\ b[x].bill \in EveryBill
        BY <2>1, EntryShape DEF PricedIn
      <4> QED
        BY <2>3, <2>4, <3>1, <3>2, <4>1, BillSums
    <3>4. f \in [rows -> Int] /\ \A x \in DOMAIN f : f[x] = Monthly(a[x].bill) - Monthly(b[x].bill)
      BY <3>3
    <3> HIDE DEF f
    <3>5. SumFunction(f) = Total(a) - Total(b)
      BY <2>1, <3>4, RowsAddUp
    <3> QED
      BY <2>2, <3>1, <3>5 DEF f
  <2> QED
    BY <2>2, <2>3, <2>4, <2>5 DEF t, u
<1> QED
  BY <1>1, AlwaysGateInv, PTL

-----------------------------------------------------------------------------
(***************************************************************************)
(* The verdict: what the policy adds up is what the plans cost.            *)
(***************************************************************************)
Spelling(c) == {s \in DOMAIN Normal : Normal[s] = c}

\* What a bill comes to in a currency, whatever its spelling.
InAnySpelling(bill, c) ==
    SumFunction([i \in {j \in DOMAIN bill : Normal[bill[j].currency] = c} |-> bill[i].monthly])

LEMMA SpellingsAddUp ==
    ASSUME NEW bill \in EveryBill, NEW c
    PROVE  /\ InAnySpelling(bill, c) \in Int
           /\ bill = <<>> => InAnySpelling(bill, c) = 0
           /\ SumFunction([raw \in Spelling(c) |-> MonthlyIn(bill, raw)]) = InAnySpelling(bill, c)
<1> DEFINE D == DOMAIN bill
           f == Costs(bill)
           key == [i \in D |-> bill[i].currency]
           all == {j \in D : Normal[bill[j].currency] = c}
<1>0. /\ IsFiniteSet(D) /\ f \in [D -> Int]
      /\ \A i \in D : bill[i].currency \in DOMAIN Normal
  BY BillShape, BillSums
<1>1. IsFiniteSet(Spelling(c))
  <2>1. IsFiniteSet(DOMAIN Normal) /\ Spelling(c) \in SUBSET DOMAIN Normal
    BY PolicyAssumption DEF Spelling
  <2> QED
    BY <2>1, FS_Subset
<1>2. all \in SUBSET D /\ IsFiniteSet(all)
  <2>1. all \in SUBSET D
    OBVIOUS
  <2> QED
    BY <1>0, <2>1, FS_Subset
<1>3. \A A \in SUBSET D : Restrict(f, A) = [i \in A |-> bill[i].monthly]
  BY DEF Restrict, Costs
<1>4. InAnySpelling(bill, c) = SumFunction(Restrict(f, all))
  BY <1>2, <1>3 DEF InAnySpelling
<1>5. InAnySpelling(bill, c) \in Int
  <2>1. Restrict(f, all) \in [all -> Int]
    BY <1>0, <1>2 DEF Restrict
  <2> HIDE DEF f, all
  <2> QED
    BY <1>2, <1>4, <2>1, SumWhole
<1>6. ASSUME bill = <<>> PROVE InAnySpelling(bill, c) = 0
  <2>1. all = {}
    BY <1>6
  <2>2. SumFunction(Restrict(f, {})) = 0
    <3> HIDE DEF f
    <3> QED
      BY <1>0, SumWhole
  <2> HIDE DEF f, all
  <2> QED
    BY <1>4, <2>1, <2>2
<1>7. {x \in D : key[x] \in Spelling(c)} = all
  BY <1>0 DEF Spelling
<1>8. \A raw : MonthlyIn(bill, raw) = SumFunction(Restrict(f, {x \in D : key[x] = raw}))
  <2> SUFFICES ASSUME NEW raw
               PROVE  MonthlyIn(bill, raw) = SumFunction(Restrict(f, {x \in D : key[x] = raw}))
    OBVIOUS
  <2>1. {x \in D : key[x] = raw} = {j \in DOMAIN bill : bill[j].currency = raw}
    OBVIOUS
  <2>2. Restrict(f, {x \in D : key[x] = raw})
          = [i \in {j \in DOMAIN bill : bill[j].currency = raw} |-> bill[i].monthly]
    BY <1>3, <2>1
  <2> QED
    BY <2>2 DEF MonthlyIn
<1> HIDE DEF f, key, D, all
<1>9. SumFunction([raw \in Spelling(c) |-> SumFunction(Restrict(f, {x \in D : key[x] = raw}))])
        = SumFunction(Restrict(f, {x \in D : key[x] \in Spelling(c)}))
  BY <1>0, <1>1, SumByKey
<1>10. [raw \in Spelling(c) |-> MonthlyIn(bill, raw)]
         = [raw \in Spelling(c) |-> SumFunction(Restrict(f, {x \in D : key[x] = raw}))]
  BY <1>8
<1> QED
  BY <1>4, <1>5, <1>6, <1>7, <1>9, <1>10

\* What a report comes to in a currency.
CostOf(r, c) == SumFunction([a \in Addresses |-> InAnySpelling(r[a].bill, c)])

LEMMA AggregateIsCost ==
    ASSUME NEW r \in Reports, NEW c
    PROVE  Aggregate(r, c) = CostOf(r, c) /\ CostOf(r, c) \in Int
<1> DEFINE P == PricedIn(r)
           N == Spelling(c)
           m == [raw \in N |-> [a \in P |-> MonthlyIn(r[a].bill, raw)]]
           g == [a \in Addresses |-> InAnySpelling(r[a].bill, c)]
<1>0. IsFiniteSet(Addresses) /\ IsFiniteSet(P) /\ IsFiniteSet(N) /\ P \in SUBSET Addresses
  <2>1. /\ IsFiniteSet(Addresses) /\ IsFiniteSet(DOMAIN Normal)
        /\ P \in SUBSET Addresses /\ N \in SUBSET DOMAIN Normal
    BY DiffAssumption, PolicyAssumption DEF PricedIn, Spelling
  <2> QED
    BY <2>1, FS_Subset
<1>1. \A a \in P : \A raw : MonthlyIn(r[a].bill, raw) \in Int
  BY <1>0, EntryShape, BillSums
<1>2. m \in [N -> [P -> Int]]
  BY <1>1
<1>3. Aggregate(r, c) = SumFunction([raw \in N |-> SumFunction(m[raw])])
  <2>1. \A raw \in N : TotalIn(r, raw) = SumFunction(m[raw])
    BY DEF TotalIn
  <2>2. [raw \in N |-> TotalIn(r, raw)] = [raw \in N |-> SumFunction(m[raw])]
    BY <2>1
  <2>3. Aggregate(r, c) = SumFunction([raw \in N |-> TotalIn(r, raw)])
    BY DEF Aggregate, Spelling
  <2> QED
    BY <2>2, <2>3
<1>4. [a \in P |-> SumFunction([raw \in N |-> m[raw][a]])] = Restrict(g, P)
  <2>1. \A a \in P : SumFunction([raw \in N |-> m[raw][a]]) = InAnySpelling(r[a].bill, c)
    <3> SUFFICES ASSUME NEW a \in P
                 PROVE  SumFunction([raw \in N |-> m[raw][a]]) = InAnySpelling(r[a].bill, c)
      OBVIOUS
    <3>1. [raw \in N |-> m[raw][a]] = [raw \in N |-> MonthlyIn(r[a].bill, raw)]
      OBVIOUS
    <3>2. r[a].bill \in EveryBill
      BY <1>0, EntryShape
    <3> HIDE DEF m
    <3> QED
      BY <3>1, <3>2, SpellingsAddUp
  <2>2. Restrict(g, P) = [a \in P |-> InAnySpelling(r[a].bill, c)]
    BY <1>0 DEF Restrict
  <2> HIDE DEF m
  <2> QED
    BY <2>1, <2>2
<1>5. g \in [Addresses -> Int] /\ \A a \in Addresses \ P : g[a] = 0
  <2>1. \A a \in Addresses : /\ InAnySpelling(r[a].bill, c) \in Int
                             /\ a \notin P => InAnySpelling(r[a].bill, c) = 0
    BY EntryShape, SpellingsAddUp DEF PricedIn
  <2> QED
    BY <2>1
<1> HIDE DEF m, g, P, N
<1>6. SumFunction([raw \in N |-> SumFunction(m[raw])])
        = SumFunction([a \in P |-> SumFunction([raw \in N |-> m[raw][a]])])
  BY <1>0, <1>2, SumSwap
<1>7. SumFunction(g) = SumFunction(Restrict(g, P))
  BY <1>0, <1>5, SumWithin
<1>8. SumFunction(g) \in Int
  BY <1>0, <1>5, SumWhole
<1> QED
  BY <1>3, <1>4, <1>6, <1>7, <1>8 DEF g, CostOf

LEMMA CostIsCost == \A c : \A side \in Sides : Cost(side, c) = CostOf(truth[side], c)
  BY DEF Cost, CostOf, InAnySpelling

-----------------------------------------------------------------------------
(***************************************************************************)
(* The verdict: the policy that is loaded says what the user has stated.   *)
(***************************************************************************)

\* The currencies that are written as they are compared.
Canonical == {c \in DOMAIN Normal \ {Blank} : Normal[c] = c}

\* A valid policy says the same once it is normalized.
LEMMA NormalizedKeeps ==
    ASSUME NEW written \in SUBSET DOMAIN Normal, NEW p \in Policies(written), Valid(p)
    PROVE  /\ Normalized(p) \in Policies({Normal[raw] : raw \in written})
           /\ {Normal[raw] : raw \in written} \in SUBSET Canonical
           /\ \A raw \in written : Normalized(p).limits[Normal[raw]] = p.limits[raw]
           /\ Normalized(p).failOnSkipped = p.failOnSkipped
           /\ Normalized(p).minCoverage = p.minCoverage
<1> DEFINE Names == {Normal[raw] : raw \in written}
           Raw(c) == CHOOSE raw \in written : Normal[raw] = c
           limits == [c \in Names |-> p.limits[Raw(c)]]
<1>1. /\ p = [version |-> p.version, limits |-> p.limits,
             failOnSkipped |-> p.failOnSkipped, minCoverage |-> p.minCoverage]
      /\ p.version \in Int /\ p.limits \in [written -> [total : SUBSET Int, increase : SUBSET Int]]
      /\ p.failOnSkipped \in SUBSET BOOLEAN /\ p.minCoverage \in SUBSET Int
  BY DEF Policies
<1>2. DOMAIN p.limits = written
  BY <1>1
<1>3. Normalized(p) = [version |-> p.version, limits |-> limits,
                       failOnSkipped |-> p.failOnSkipped, minCoverage |-> p.minCoverage]
  BY <1>1, <1>2 DEF Normalized
<1>4. \A raw \in written : Normal[raw] # Blank
                           /\ \A other \in written : Normal[other] = Normal[raw] => other = raw
  BY <1>2 DEF Valid
<1>5. \A c \in Names : Raw(c) \in written /\ Normal[Raw(c)] = c
  OBVIOUS
<1>6. \A raw \in written : Raw(Normal[raw]) = raw
  BY <1>4, <1>5
<1>7. limits \in [Names -> [total : SUBSET Int, increase : SUBSET Int]]
  BY <1>1, <1>5
<1>8. Names \in SUBSET Canonical
  <2>1. \A c \in DOMAIN Normal : Normal[c] \in DOMAIN Normal /\ Normal[Normal[c]] = Normal[c]
    BY PolicyAssumption
  <2> QED
    BY <1>4, <2>1 DEF Canonical
<1>9. \A raw \in written : limits[Normal[raw]] = p.limits[raw]
  BY <1>6
<1> HIDE DEF limits
<1>10. Normalized(p) \in Policies(Names)
  BY <1>1, <1>3, <1>7 DEF Policies
<1> QED
  BY <1>3, <1>8, <1>9, <1>10

\* What the file says of a currency, in any spelling.
FromFile(file, field, c) ==
    UNION {f.limits[raw][field] : f \in file,
             raw \in UNION {{r \in DOMAIN g.limits : Normal[r] = c} : g \in file}}

LEMMA EmptySays ==
    /\ EmptyPolicy \in Policies({}) /\ DOMAIN EmptyPolicy.limits = {}
    /\ EmptyPolicy.failOnSkipped = {} /\ EmptyPolicy.minCoverage = {}
<1> DEFINE none == [x \in {} |-> x]
<1>1. none \in [{} -> [total : SUBSET Int, increase : SUBSET Int]] /\ DOMAIN none = {}
  OBVIOUS
<1>2. CurrentVersion \in Int
  BY PolicyAssumption
<1>3. EmptyPolicy = [version |-> CurrentVersion, limits |-> none, failOnSkipped |-> {}, minCoverage |-> {}]
  BY DEF EmptyPolicy, NoLimits
<1> HIDE DEF none
<1> QED
  BY <1>1, <1>2, <1>3 DEF Policies

LEMMA FileSays ==
    ASSUME NEW s \in Settings, \A f \in s.file : Valid(f),
           NEW base, base = IF s.file = {} THEN EmptyPolicy ELSE Normalized(CHOOSE f \in s.file : TRUE)
    PROVE  /\ base \in Policies(DOMAIN base.limits) /\ DOMAIN base.limits \in SUBSET Canonical
           /\ \A c \in DOMAIN Normal : \A field \in {"total", "increase"} :
                FromFile(s.file, field, c) = IF c \in DOMAIN base.limits THEN base.limits[c][field] ELSE {}
           /\ base.failOnSkipped = UNION {f.failOnSkipped : f \in s.file}
           /\ base.minCoverage = UNION {f.minCoverage : f \in s.file}
<1>1. CASE s.file = {}
  <2>1. base = EmptyPolicy
    BY <1>1
  <2>2. base \in Policies({}) /\ DOMAIN base.limits = {}
    BY <2>1, EmptySays, Zenon
  <2>3. base.failOnSkipped = {} /\ base.minCoverage = {}
    BY <2>1, EmptySays, Zenon
  <2>4. \A field, c : FromFile(s.file, field, c) = {}
    BY <1>1 DEF FromFile
  <2> QED
    BY <1>1, <2>2, <2>3, <2>4
<1>2. CASE s.file # {}
  <2>1. PICK f \in s.file : f = CHOOSE g \in s.file : TRUE
    BY <1>2
  <2>2. /\ \E written \in SUBSET DOMAIN Normal : f \in Policies(written)
        /\ s.file = {f}
    <3>1. /\ \A g \in s.file : \E written \in SUBSET DOMAIN Normal : g \in Policies(written)
          /\ \A g, h \in s.file : g = h
      BY GateAssumption
    <3> QED
      BY <2>1, <3>1
  <2>3. PICK written \in SUBSET DOMAIN Normal : f \in Policies(written)
    BY <2>2
  <2>4. base = Normalized(f)
    BY <1>2, <2>1
  <2> DEFINE Names == {Normal[raw] : raw \in written}
  <2>5. /\ base \in Policies(Names) /\ Names \in SUBSET Canonical
        /\ \A raw \in written : base.limits[Normal[raw]] = f.limits[raw]
        /\ base.failOnSkipped = f.failOnSkipped /\ base.minCoverage = f.minCoverage
    BY <2>1, <2>3, <2>4, NormalizedKeeps
  <2>6. DOMAIN base.limits = Names /\ DOMAIN f.limits = written
    BY <2>3, <2>5 DEF Policies
  <2>7. ASSUME NEW c \in DOMAIN Normal, NEW field \in {"total", "increase"}
        PROVE  FromFile(s.file, field, c) = IF c \in Names THEN base.limits[c][field] ELSE {}
    <3>1. FromFile(s.file, field, c) = UNION {f.limits[raw][field] : raw \in {r \in written : Normal[r] = c}}
      BY <2>2, <2>6 DEF FromFile
    <3>2. CASE c \in Names
      <4>1. PICK raw \in written : Normal[raw] = c
        BY <3>2
      <4>2. {r \in written : Normal[r] = c} = {raw}
        BY <2>1, <2>6, <4>1 DEF Valid
      <4>3. f.limits[raw] = base.limits[c]
        BY <2>5, <4>1
      <4>4. FromFile(s.file, field, c) = UNION {f.limits[q][field] : q \in {raw}}
        BY <3>1, <4>2
      <4>5. FromFile(s.file, field, c) = f.limits[raw][field]
        BY <4>4
      <4> QED
        BY <3>2, <4>3, <4>5
    <3>3. CASE c \notin Names
      <4>1. {r \in written : Normal[r] = c} = {}
        BY <3>3
      <4> QED
        BY <3>1, <3>3, <4>1
    <3> QED
      BY <3>2, <3>3
  <2>8. UNION {g.failOnSkipped : g \in s.file} = f.failOnSkipped
        /\ UNION {g.minCoverage : g \in s.file} = f.minCoverage
    BY <2>2
  <2> HIDE DEF Names
  <2> QED
    BY <2>5, <2>6, <2>7, <2>8
<1> QED
  BY <1>1, <1>2

\* What a flag says is in whole numbers, and of a currency in its canonical spelling.
LEMMA FlagSays ==
    ASSUME NEW values \in Thresholds, ThresholdsOK(values)
    PROVE  /\ \A c : Threshold(values, c) \in SUBSET Int
           /\ \A i \in DOMAIN values : Normal[values[i].currency] \in Canonical
           /\ \A c : Threshold(values, c) # {} => c \in {Normal[values[i].currency] : i \in DOMAIN values}
<1>1. \A i \in DOMAIN values : values[i] \in [currency : DOMAIN Normal, amount : Int]
  BY ElementOfSeq, LenProperties DEF Thresholds
<1>2. \A c \in DOMAIN Normal : Normal[c] \in DOMAIN Normal /\ Normal[Normal[c]] = Normal[c]
  BY PolicyAssumption
<1>3. \A i \in DOMAIN values : Normal[values[i].currency] # Blank
  BY DEF ThresholdsOK
<1>4. \A i \in DOMAIN values : Normal[values[i].currency] \in Canonical
  BY <1>1, <1>2, <1>3 DEF Canonical
<1>5. \A c : Threshold(values, c) \in SUBSET Int
  BY <1>1 DEF Threshold
<1>6. \A c : Threshold(values, c) # {} => c \in {Normal[values[i].currency] : i \in DOMAIN values}
  BY DEF Threshold
<1> QED
  BY <1>4, <1>5, <1>6

\* The flags override the file, currency by currency.
LEMMA MergedSays ==
    ASSUME NEW s \in Settings, Loads(s.file, s.flags)
    PROVE  LET p == Merged(s.file, s.flags)
               Says(field, c) == IF c \in DOMAIN p.limits THEN p.limits[c][field] ELSE {}
           IN  /\ p \in Policies(DOMAIN p.limits) /\ DOMAIN p.limits \in SUBSET Canonical
               /\ \A c \in DOMAIN Normal :
                    /\ Says("total", c) = OverriddenBy(FromFile(s.file, "total", c), Threshold(s.flags.total, c))
                    /\ Says("increase", c)
                         = OverriddenBy(FromFile(s.file, "increase", c), Threshold(s.flags.increase, c))
               /\ p.failOnSkipped
                    = OverriddenBy(UNION {f.failOnSkipped : f \in s.file}, s.flags.failOnSkipped)
               /\ p.minCoverage = OverriddenBy(UNION {f.minCoverage : f \in s.file}, s.flags.minCoverage)
<1> DEFINE flags == s.flags
           base == IF s.file = {} THEN EmptyPolicy ELSE Normalized(CHOOSE f \in s.file : TRUE)
           p == Merged(s.file, flags)
           named == {Normal[flags.total[i].currency] : i \in DOMAIN flags.total}
                      \cup {Normal[flags.increase[i].currency] : i \in DOMAIN flags.increase}
           names == DOMAIN base.limits \cup named
           Old(c) == IF c \in DOMAIN base.limits THEN base.limits[c] ELSE [total |-> {}, increase |-> {}]
           limits == [c \in names |->
                        [total |-> OverriddenBy(Old(c).total, Threshold(flags.total, c)),
                         increase |-> OverriddenBy(Old(c).increase, Threshold(flags.increase, c))]]
<1>1. /\ \A f \in s.file : Valid(f)
      /\ ThresholdsOK(flags.total) /\ ThresholdsOK(flags.increase)
  BY DEF Loads
<1>2. /\ base \in Policies(DOMAIN base.limits) /\ DOMAIN base.limits \in SUBSET Canonical
      /\ \A c \in DOMAIN Normal : \A field \in {"total", "increase"} :
           FromFile(s.file, field, c) = IF c \in DOMAIN base.limits THEN base.limits[c][field] ELSE {}
      /\ base.failOnSkipped = UNION {f.failOnSkipped : f \in s.file}
      /\ base.minCoverage = UNION {f.minCoverage : f \in s.file}
  BY <1>1, FileSays
<1>3. flags \in Flags
  BY GateAssumption
<1>4. p = [base EXCEPT !.limits = WithThresholds(base.limits, flags),
                       !.failOnSkipped = OverriddenBy(base.failOnSkipped, flags.failOnSkipped),
                       !.minCoverage = OverriddenBy(base.minCoverage, flags.minCoverage)]
  BY DEF Merged
<1>5. WithThresholds(base.limits, flags) = limits
  BY DEF WithThresholds
<1> HIDE DEF base, p, flags
<1>6. /\ base = [version |-> base.version, limits |-> base.limits,
                failOnSkipped |-> base.failOnSkipped, minCoverage |-> base.minCoverage]
      /\ base.version \in Int
      /\ base.limits \in [DOMAIN base.limits -> [total : SUBSET Int, increase : SUBSET Int]]
      /\ base.failOnSkipped \in SUBSET BOOLEAN /\ base.minCoverage \in SUBSET Int
  BY <1>2 DEF Policies
<1>7. p = [version |-> base.version, limits |-> limits,
           failOnSkipped |-> OverriddenBy(base.failOnSkipped, flags.failOnSkipped),
           minCoverage |-> OverriddenBy(base.minCoverage, flags.minCoverage)]
  <2> HIDE DEF limits
  <2> QED
    BY <1>4, <1>5, <1>6
<1>8. flags.total \in Thresholds /\ flags.increase \in Thresholds
      /\ flags.failOnSkipped \in SUBSET BOOLEAN /\ flags.minCoverage \in SUBSET Int
  BY <1>3 DEF Flags
<1>9. /\ \A c : Threshold(flags.total, c) \in SUBSET Int /\ Threshold(flags.increase, c) \in SUBSET Int
      /\ named \in SUBSET Canonical
      /\ \A c : c \notin named => Threshold(flags.total, c) = {} /\ Threshold(flags.increase, c) = {}
  <2>1. /\ \A c : Threshold(flags.total, c) \in SUBSET Int
        /\ \A i \in DOMAIN flags.total : Normal[flags.total[i].currency] \in Canonical
        /\ \A c : Threshold(flags.total, c) # {}
                    => c \in {Normal[flags.total[i].currency] : i \in DOMAIN flags.total}
    BY <1>1, <1>8, FlagSays
  <2>2. /\ \A c : Threshold(flags.increase, c) \in SUBSET Int
        /\ \A i \in DOMAIN flags.increase : Normal[flags.increase[i].currency] \in Canonical
        /\ \A c : Threshold(flags.increase, c) # {}
                    => c \in {Normal[flags.increase[i].currency] : i \in DOMAIN flags.increase}
    BY <1>1, <1>8, FlagSays
  <2> QED
    BY <2>1, <2>2
<1> HIDE DEF named
<1>10. names \in SUBSET Canonical /\ DOMAIN p.limits = names
  BY <1>2, <1>7, <1>9
<1>11. \A c : /\ Old(c).total \in SUBSET Int /\ Old(c).increase \in SUBSET Int
              /\ Old(c).total = IF c \in DOMAIN base.limits THEN base.limits[c].total ELSE {}
              /\ Old(c).increase = IF c \in DOMAIN base.limits THEN base.limits[c].increase ELSE {}
  BY <1>6
<1> HIDE DEF Old
<1>12. limits \in [names -> [total : SUBSET Int, increase : SUBSET Int]]
  BY <1>9, <1>11 DEF OverriddenBy
<1>13. ASSUME NEW c \in DOMAIN Normal
       PROVE  /\ (IF c \in names THEN limits[c].total ELSE {})
                   = OverriddenBy(FromFile(s.file, "total", c), Threshold(flags.total, c))
              /\ (IF c \in names THEN limits[c].increase ELSE {})
                   = OverriddenBy(FromFile(s.file, "increase", c), Threshold(flags.increase, c))
  <2>1. /\ FromFile(s.file, "total", c) = Old(c).total
        /\ FromFile(s.file, "increase", c) = Old(c).increase
    BY <1>2, <1>11
  <2>2. CASE c \in names
    BY <2>1, <2>2
  <2>3. CASE c \notin names
    BY <1>9, <1>11, <2>1, <2>3 DEF OverriddenBy
  <2> QED
    BY <2>2, <2>3
<1>14. p \in Policies(names)
  <2> HIDE DEF limits, names
  <2>1. OverriddenBy(base.failOnSkipped, flags.failOnSkipped) \in SUBSET BOOLEAN
        /\ OverriddenBy(base.minCoverage, flags.minCoverage) \in SUBSET Int
    BY <1>6, <1>8 DEF OverriddenBy
  <2> QED
    BY <1>6, <1>7, <1>12, <2>1 DEF Policies
<1>15. p.limits = limits
       /\ p.failOnSkipped = OverriddenBy(base.failOnSkipped, flags.failOnSkipped)
       /\ p.minCoverage = OverriddenBy(base.minCoverage, flags.minCoverage)
  <2> HIDE DEF limits
  <2> QED
    BY <1>7
<1> HIDE DEF limits, names
<1> QED
  BY <1>2, <1>10, <1>13, <1>14, <1>15 DEF p, flags

\* The policy of a run says of every currency what the user has stated.
LEMMA PolicySays ==
    ASSUME setting \in Settings, Loads(setting.file, setting.flags),
           NEW p, p = Normalized(Merged(setting.file, setting.flags))
    PROVE  /\ DOMAIN p.limits \in SUBSET (DOMAIN Normal \ {Blank})
           /\ \A c \in DOMAIN p.limits : /\ p.limits[c].total = Stated("total", c)
                                         /\ p.limits[c].increase = Stated("increase", c)
                                         /\ p.limits[c].total \in SUBSET Int
                                         /\ p.limits[c].increase \in SUBSET Int
           /\ \A c \in DOMAIN Normal : c \notin DOMAIN p.limits => /\ Stated("total", c) = {}
                                                                 /\ Stated("increase", c) = {}
           /\ p.failOnSkipped = StatedSetting("failOnSkipped")
           /\ p.minCoverage = StatedSetting("minCoverage") /\ p.minCoverage \in SUBSET (0..100)
<1> DEFINE m == Merged(setting.file, setting.flags)
           Says(field, c) == IF c \in DOMAIN m.limits THEN m.limits[c][field] ELSE {}
           names == DOMAIN m.limits
<1>1. /\ m \in Policies(names) /\ names \in SUBSET Canonical
      /\ \A c \in DOMAIN Normal :
           /\ Says("total", c)
                = OverriddenBy(FromFile(setting.file, "total", c), Threshold(setting.flags.total, c))
           /\ Says("increase", c)
                = OverriddenBy(FromFile(setting.file, "increase", c), Threshold(setting.flags.increase, c))
      /\ m.failOnSkipped
           = OverriddenBy(UNION {f.failOnSkipped : f \in setting.file}, setting.flags.failOnSkipped)
      /\ m.minCoverage
           = OverriddenBy(UNION {f.minCoverage : f \in setting.file}, setting.flags.minCoverage)
  BY MergedSays
<1>2. Valid(m)
  BY DEF Loads
<1> HIDE DEF m
<1>3. names \in SUBSET DOMAIN Normal /\ {Normal[raw] : raw \in names} = names
      /\ \A c \in names : Normal[c] = c /\ c # Blank
  BY <1>1 DEF Canonical
<1>4. /\ p \in Policies(names)
      /\ \A raw \in names : p.limits[Normal[raw]] = m.limits[raw]
      /\ p.failOnSkipped = m.failOnSkipped /\ p.minCoverage = m.minCoverage
  <2>1. /\ Normalized(m) \in Policies({Normal[raw] : raw \in names})
        /\ \A raw \in names : Normalized(m).limits[Normal[raw]] = m.limits[raw]
        /\ Normalized(m).failOnSkipped = m.failOnSkipped /\ Normalized(m).minCoverage = m.minCoverage
    BY <1>1, <1>2, <1>3, NormalizedKeeps
  <2>2. p = Normalized(m)
    BY DEF m
  <2> QED
    BY <1>3, <2>1, <2>2, Zenon
<1>5. /\ DOMAIN p.limits = names
      /\ \A c \in names : p.limits[c].total \in SUBSET Int /\ p.limits[c].increase \in SUBSET Int
  BY <1>4 DEF Policies
<1>6. \A c \in names : p.limits[c] = m.limits[c]
  BY <1>3, <1>4
<1>7. \A c : /\ Stated("total", c) = OverriddenBy(FromFile(setting.file, "total", c),
                                                  Threshold(setting.flags.total, c))
             /\ Stated("increase", c) = OverriddenBy(FromFile(setting.file, "increase", c),
                                                     Threshold(setting.flags.increase, c))
  BY DEF Stated, OverriddenBy, FromFile
<1>8. StatedSetting("failOnSkipped") = m.failOnSkipped /\ StatedSetting("minCoverage") = m.minCoverage
  BY <1>1, Zenon DEF StatedSetting, OverriddenBy
<1>9. m.minCoverage \in SUBSET (0..100)
  BY <1>2 DEF Valid
<1>10. \A c \in names : Says("total", c) = m.limits[c].total /\ Says("increase", c) = m.limits[c].increase
  OBVIOUS
<1>11. \A c : c \notin names => Says("total", c) = {} /\ Says("increase", c) = {}
  OBVIOUS
<1> HIDE DEF Says, names
<1>12. \A c \in names : p.limits[c].total = Stated("total", c) /\ p.limits[c].increase = Stated("increase", c)
  BY <1>1, <1>3, <1>6, <1>7, <1>10
<1>13. \A c \in DOMAIN Normal : c \notin names => Stated("total", c) = {} /\ Stated("increase", c) = {}
  BY <1>1, <1>7, <1>11
<1>14. names \in SUBSET (DOMAIN Normal \ {Blank})
  BY <1>3
<1> QED
  BY <1>4, <1>5, <1>8, <1>9, <1>12, <1>13, <1>14

-----------------------------------------------------------------------------
(***************************************************************************)
(* The verdict: what the rules find.                                       *)
(***************************************************************************)

\* The rules on a report find nothing in a complete one, and something in an
\* incomplete one when it has to be complete.
LEMMA ReportRules ==
    ASSUME NEW r \in Reports, NEW p, p.minCoverage \in SUBSET (0..100), NEW scope
    PROVE  /\ SkippedIn(r) = {} => ReportViolations(p, scope, r) = {}
           /\ ReportViolations(p, scope, r) = {} /\ (p.failOnSkipped = {TRUE} \/ p.minCoverage = {100})
                => SkippedIn(r) = {}
<1> DEFINE priced == Cardinality(PricedIn(r))
           skipped == Cardinality(SkippedIn(r))
           all == priced + skipped
<1>0. /\ priced \in Nat /\ skipped \in Nat /\ (skipped = 0 <=> SkippedIn(r) = {})
  <2>1. /\ PricedIn(r) \in SUBSET Addresses /\ SkippedIn(r) \in SUBSET Addresses
        /\ IsFiniteSet(Addresses)
    BY DiffAssumption DEF PricedIn, SkippedIn
  <2>2. IsFiniteSet(PricedIn(r)) /\ IsFiniteSet(SkippedIn(r))
    BY <2>1, FS_Subset
  <2> QED
    BY <2>2, FS_CardinalityType, FS_EmptySet
<1>1. ReportViolations(p, scope, r) = {} <=>
        /\ ~(\E v \in p.failOnSkipped : v /\ SkippedIn(r) # {})
        /\ ~(\E l \in p.minCoverage : all # 0 /\ 100 * priced < l * all)
  <2> DEFINE A == {v \in p.failOnSkipped : v /\ SkippedIn(r) # {}}
             B == {l \in p.minCoverage : all # 0 /\ 100 * priced < l * all}
  <2>1. ReportViolations(p, scope, r) = {Violation("fail_on_skipped", scope, Blank) : on \in A}
                                          \cup {Violation("min_coverage", scope, Blank) : limit \in B}
    BY DEF ReportViolations
  <2>2. (A = {} <=> ~(\E v \in p.failOnSkipped : v /\ SkippedIn(r) # {}))
        /\ (B = {} <=> ~(\E l \in p.minCoverage : all # 0 /\ 100 * priced < l * all))
    BY Zenon
  <2> HIDE DEF A, B
  <2>3. ReportViolations(p, scope, r) = {} <=> A = {} /\ B = {}
    BY <2>1, Zenon
  <2> QED
    BY <2>2, <2>3, Zenon
<1> HIDE DEF priced, skipped
<1>2. ASSUME SkippedIn(r) = {} PROVE ReportViolations(p, scope, r) = {}
  <2>1. \A l \in 0..100 : l * priced <= 100 * priced
    BY <1>0
  <2>2. all = priced
    BY <1>0, <1>2
  <2>3. ~(\E l \in p.minCoverage : all # 0 /\ 100 * priced < l * all)
    <3> SUFFICES ASSUME NEW l \in p.minCoverage PROVE ~(100 * priced < l * priced)
      BY <2>2
    <3>1. l \in 0..100 /\ l * priced <= 100 * priced
      BY <2>1
    <3>2. \A x, y \in Int : x <= y => ~(y < x)
      OBVIOUS
    <3>3. l * priced \in Int /\ 100 * priced \in Int
      BY <1>0, <3>1
    <3> QED
      BY <3>1, <3>2, <3>3, Zenon
  <2> QED
    BY <1>1, <1>2, <2>3, Zenon
<1>3. ASSUME ReportViolations(p, scope, r) = {}, p.failOnSkipped = {TRUE} PROVE SkippedIn(r) = {}
  BY <1>1, <1>3, Zenon
<1>4. ASSUME ReportViolations(p, scope, r) = {}, p.minCoverage = {100} PROVE SkippedIn(r) = {}
  <2>1. ~(all # 0 /\ 100 * priced < 100 * all)
    BY <1>1, <1>4, Zenon
  <2> QED
    BY <1>0, <2>1
<1> QED
  BY <1>2, <1>3, <1>4

\* The rules on amounts find the limits that are broken.
LEMMA AmountRules ==
    ASSUME NEW p, NEW b, NEW a, NEW scope
    PROVE  /\ MaxTotalViolations(p, scope, a) = {} <=>
                ~ \E c \in DOMAIN p.limits : \E l \in p.limits[c].total : Aggregate(a, c) > l
           /\ IncreaseViolations(p, b, a) = {} <=>
                ~ \E c \in DOMAIN p.limits : \E l \in p.limits[c].increase :
                    Aggregate(a, c) - Aggregate(b, c) > l
           /\ BaselineRequired(p) = {} <=>
                ~ \E c \in DOMAIN p.limits : p.limits[c].increase # {}
<1> DEFINE T == Exceeded([c \in DOMAIN p.limits |-> p.limits[c].total],
                         [c \in DOMAIN p.limits |-> Aggregate(a, c)])
           I == Exceeded([c \in DOMAIN p.limits |-> p.limits[c].increase],
                         [c \in DOMAIN p.limits |-> Aggregate(a, c) - Aggregate(b, c)])
           R == {d \in DOMAIN p.limits : p.limits[d].increase # {}}
<1>1. T = {} <=> ~ \E c \in DOMAIN p.limits : \E l \in p.limits[c].total : Aggregate(a, c) > l
  BY DEF Exceeded
<1>2. I = {} <=> ~ \E c \in DOMAIN p.limits : \E l \in p.limits[c].increase :
                       Aggregate(a, c) - Aggregate(b, c) > l
  BY DEF Exceeded
<1>3. R = {} <=> ~ \E c \in DOMAIN p.limits : p.limits[c].increase # {}
  BY Zenon
<1>4. /\ MaxTotalViolations(p, scope, a) = {Violation("max_total", scope, c) : c \in T}
      /\ IncreaseViolations(p, b, a) = {Violation("max_monthly_increase", "diff", c) : c \in I}
      /\ BaselineRequired(p) = {Violation("max_monthly_increase", "current", c) : c \in R}
  BY Zenon DEF MaxTotalViolations, IncreaseViolations, BaselineRequired
<1> HIDE DEF T, I, R
<1>5. /\ MaxTotalViolations(p, scope, a) = {} <=> T = {}
      /\ IncreaseViolations(p, b, a) = {} <=> I = {}
      /\ BaselineRequired(p) = {} <=> R = {}
  BY <1>4
<1> QED
  BY <1>1, <1>2, <1>3, <1>5, Zenon

\* What a verdict rests on: the reports, their costs, and the rules of the policy.
LEMMA VerdictRests ==
    ASSUME GateInv, exit \in {0, 2}
    PROVE  /\ command \in {"breakdown", "diff"} /\ setting \in Settings
           /\ \A s \in Sides : report[s] \in Reports
           /\ command = "breakdown" => SkippedIn(report["before"]) = {}
           /\ \A s \in Sides : \A c : Aggregate(report[s], c) \in Int
           /\ EverythingPriced => \A s \in Sides : \A c : Cost(s, c) = Aggregate(report[s], c)
           /\ exit = 0 <=> Judgement = {}
           /\ Asked(setting.file, setting.flags) =>
                /\ Loads(setting.file, setting.flags)
                /\ policy = {Normalized(Merged(setting.file, setting.flags))}
           /\ ~Asked(setting.file, setting.flags) => policy = {}
<1>1. Decided /\ Reported
  BY DEF GateInv, Staged, Reported, Running
<1>2. /\ command \in {"breakdown", "diff"} /\ setting \in Settings
      /\ \A s \in Sides : /\ report[s] \in Reports /\ truth[s] \in Reports
                           /\ SaysOnly(report[s], truth[s])
  BY <1>1 DEF GateInv, Started, ReportFits
<1>3. ASSUME command = "breakdown" PROVE SkippedIn(report["before"]) = {}
  <2>1. truth["before"] = NoPlan /\ SaysOnly(report["before"], truth["before"])
    BY <1>2, <1>3 DEF GateInv, Started, Sides
  <2>2. \A a \in Addresses : report["before"][a] = Absent
    BY <2>1 DEF SaysOnly, NoPlan
  <2> QED
    BY <2>2 DEF SkippedIn, Absent
<1>4. \A s \in Sides : \A c : Aggregate(report[s], c) = CostOf(report[s], c) /\ CostOf(report[s], c) \in Int
  BY <1>2, AggregateIsCost
<1>5. ASSUME EverythingPriced
      PROVE  \A s \in Sides : \A c : Cost(s, c) = Aggregate(report[s], c)
  <2>1. \A s \in Sides : report[s] = truth[s]
    BY <1>2, <1>5, NothingSkipped DEF EverythingPriced
  <2> SUFFICES ASSUME NEW s \in Sides, NEW c PROVE Cost(s, c) = Aggregate(report[s], c)
    OBVIOUS
  <2>2. Cost(s, c) = CostOf(truth[s], c)
    BY CostIsCost
  <2>3. Aggregate(report[s], c) = CostOf(report[s], c)
    BY <1>4
  <2>4. report[s] = truth[s]
    BY <2>1
  <2> QED
    BY <2>2, <2>3, <2>4, Zenon
<1>6. exit = 0 <=> Judgement = {}
  BY <1>1 DEF GateInv, Judged
<1>7. /\ Asked(setting.file, setting.flags) =>
           /\ Loads(setting.file, setting.flags)
           /\ policy = {Normalized(Merged(setting.file, setting.flags))}
      /\ ~Asked(setting.file, setting.flags) => policy = {}
  BY <1>1, Zenon DEF GateInv, PolicyRead
<1>8. \A s \in Sides : \A c : Aggregate(report[s], c) \in Int
  BY <1>4, Zenon
<1> QED
  BY <1>2, <1>3, <1>5, <1>6, <1>7, <1>8, Zenon

\* A user who states nothing asks for nothing.
LEMMA NothingStated ==
    ASSUME ~Asked(setting.file, setting.flags)
    PROVE  /\ \A c : Stated("total", c) = {} /\ Stated("increase", c) = {}
           /\ ~MustBeComplete
<1>1. /\ setting.file = {} /\ setting.flags.total = <<>> /\ setting.flags.increase = <<>>
      /\ setting.flags.failOnSkipped = {} /\ setting.flags.minCoverage = {}
  BY DEF Asked
<1>2. \A c : Threshold(<<>>, c) = {}
  BY DEF Threshold
<1>3. \A c : Stated("total", c) = {} /\ Stated("increase", c) = {}
  BY <1>1, <1>2 DEF Stated
<1>4. StatedSetting("failOnSkipped") = {} /\ StatedSetting("minCoverage") = {}
  BY <1>1 DEF StatedSetting
<1> QED
  BY <1>3, <1>4 DEF MustBeComplete

\* The exit code is the truth.
THEOREM VerdictsAreTrue == Spec => []VerdictIsTrue
<1>1. GateInv => VerdictIsTrue
  <2> SUFFICES ASSUME GateInv PROVE VerdictIsTrue
    OBVIOUS
  <2> DEFINE b == report["before"]
             a == report["after"]
             p == Normalized(Merged(setting.file, setting.flags))
  <2>0. Sides = {"before", "after"}
    BY DEF Sides
  \* What the judgement of the one policy comes to.
  <2>1. ASSUME exit \in {0, 2}, Asked(setting.file, setting.flags)
        PROVE  /\ command = "diff" => (exit = 0 <=>
                    /\ MaxTotalViolations(p, "after", a) = {} /\ IncreaseViolations(p, b, a) = {}
                    /\ ReportViolations(p, "before", b) = {} /\ ReportViolations(p, "after", a) = {})
               /\ command = "breakdown" => (exit = 0 <=>
                    /\ MaxTotalViolations(p, "current", a) = {} /\ BaselineRequired(p) = {}
                    /\ ReportViolations(p, "current", a) = {})
    <3>1. policy = {p} /\ (exit = 0 <=> Judgement = {})
      BY <2>1, VerdictRests
    <3> HIDE DEF p, a, b
    <3>2. Judgement = IF command = "diff" THEN EvaluateDiff(p, report["before"], report["after"])
                      ELSE EvaluateBreakdown(p, report["after"])
      BY <3>1 DEF Judgement
    <3>3. CASE command = "diff"
      <4>1. Judgement = EvaluateDiff(p, b, a)
        BY <3>2, <3>3 DEF a, b
      <4> QED
        BY <3>1, <3>3, <4>1 DEF EvaluateDiff
    <3>4. CASE command = "breakdown"
      <4>1. Judgement = EvaluateBreakdown(p, a)
        BY <3>2, <3>4 DEF a, b
      <4> QED
        BY <3>1, <3>4, <4>1 DEF EvaluateBreakdown
    <3>5. command \in {"breakdown", "diff"}
      BY <2>1, VerdictRests
    <3> QED
      BY <3>3, <3>4, <3>5
  <2>2. ASSUME exit \in {0, 2}, Asked(setting.file, setting.flags)
        PROVE  /\ DOMAIN p.limits \in SUBSET (DOMAIN Normal \ {Blank})
               /\ \A c \in DOMAIN p.limits : /\ p.limits[c].total = Stated("total", c)
                                             /\ p.limits[c].increase = Stated("increase", c)
                                             /\ p.limits[c].total \in SUBSET Int
                                             /\ p.limits[c].increase \in SUBSET Int
               /\ \A c \in DOMAIN Normal : c \notin DOMAIN p.limits => /\ Stated("total", c) = {}
                                                                     /\ Stated("increase", c) = {}
               /\ p.failOnSkipped = StatedSetting("failOnSkipped")
               /\ p.minCoverage = StatedSetting("minCoverage") /\ p.minCoverage \in SUBSET (0..100)
    <3>1. setting \in Settings /\ Loads(setting.file, setting.flags)
      BY <2>2, VerdictRests
    <3> QED
      BY <3>1, PolicySays
  <2> HIDE DEF p
  <2>a. /\ \A scope : MaxTotalViolations(p, scope, a) = {} =>
             \A c \in DOMAIN p.limits : \A l \in p.limits[c].total : ~(Aggregate(a, c) > l)
        /\ IncreaseViolations(p, b, a) = {} =>
             \A c \in DOMAIN p.limits : \A l \in p.limits[c].increase :
               ~(Aggregate(a, c) - Aggregate(b, c) > l)
        /\ BaselineRequired(p) = {} => \A c \in DOMAIN p.limits : p.limits[c].increase = {}
    BY AmountRules, Zenon
  <2>3. ASSUME exit = 0, MustBeComplete PROVE EverythingPriced
    <3>1. Asked(setting.file, setting.flags)
      BY <2>3, NothingStated
    <3>2. p.failOnSkipped = {TRUE} \/ p.minCoverage = {100}
      BY <2>2, <2>3, <3>1, Zenon DEF MustBeComplete
    <3>3. a \in Reports /\ b \in Reports /\ p.minCoverage \in SUBSET (0..100)
          /\ command \in {"breakdown", "diff"}
      BY <2>0, <2>2, <2>3, <3>1, VerdictRests
    <3>4. \A r \in Reports : \A scope : ReportViolations(p, scope, r) = {} => SkippedIn(r) = {}
      BY <3>2, <3>3, ReportRules
    <3>5. SkippedIn(a) = {}
      BY <2>1, <2>3, <3>1, <3>3, <3>4
    <3>6. SkippedIn(b) = {}
      <4>1. CASE command = "diff"
        BY <2>1, <2>3, <3>1, <3>3, <3>4, <4>1
      <4>2. CASE command = "breakdown"
        BY <2>3, <4>2, VerdictRests
      <4> QED
        BY <3>3, <4>1, <4>2
    <3> QED
      BY <2>0, <3>5, <3>6 DEF EverythingPriced
  <2>4. ASSUME exit = 0, EverythingPriced, NEW c \in DOMAIN Normal \ {Blank}
        PROVE  /\ \A limit \in Stated("total", c) : Cost("after", c) <= limit
               /\ \A limit \in Stated("increase", c) :
                    /\ command = "diff"
                    /\ Cost("after", c) - Cost("before", c) <= limit
    <3>1. CASE ~Asked(setting.file, setting.flags)
      BY <3>1, NothingStated
    <3>2. CASE Asked(setting.file, setting.flags)
      <4>1. /\ Cost("after", c) = Aggregate(a, c) /\ Aggregate(a, c) \in Int
            /\ Cost("before", c) = Aggregate(b, c) /\ Aggregate(b, c) \in Int
            /\ command \in {"breakdown", "diff"}
        BY <2>0, <2>4, VerdictRests
      <4>2. CASE c \notin DOMAIN p.limits
        BY <2>2, <2>4, <3>2, <4>2
      <4>3. CASE c \in DOMAIN p.limits
        <5>1. /\ p.limits[c].total = Stated("total", c) /\ Stated("total", c) \in SUBSET Int
              /\ p.limits[c].increase = Stated("increase", c) /\ Stated("increase", c) \in SUBSET Int
          BY <2>2, <2>4, <3>2, <4>3
        <5>2. \A limit \in Stated("total", c) : ~(Aggregate(a, c) > limit)
          <6>1. \E scope : MaxTotalViolations(p, scope, a) = {}
            BY <2>1, <2>4, <3>2, <4>1
          <6> QED
            BY <2>a, <4>3, <5>1, <6>1, Zenon
        <5>3. CASE command = "diff"
          <6>1. IncreaseViolations(p, b, a) = {}
            BY <2>1, <2>4, <3>2, <5>3
          <6>2. \A limit \in Stated("increase", c) : ~(Aggregate(a, c) - Aggregate(b, c) > limit)
            BY <2>a, <4>3, <5>1, <6>1, Zenon
          <6> QED
            BY <4>1, <5>1, <5>2, <5>3, <6>2
        <5>4. CASE command = "breakdown"
          <6>1. BaselineRequired(p) = {}
            BY <2>1, <2>4, <3>2, <5>4
          <6>2. Stated("increase", c) = {}
            BY <2>a, <4>3, <5>1, <6>1, Zenon
          <6> QED
            BY <4>1, <5>1, <5>2, <6>2
        <5> QED
          BY <4>1, <5>3, <5>4
      <4> QED
        BY <4>2, <4>3
    <3> QED
      BY <3>1, <3>2
  <2>5. ASSUME exit = 2, EverythingPriced
        PROVE  \E c \in DOMAIN Normal \ {Blank} :
                 \/ \E limit \in Stated("total", c) : Cost("after", c) > limit
                 \/ \E limit \in Stated("increase", c) :
                      \/ command = "breakdown"
                      \/ Cost("after", c) - Cost("before", c) > limit
    <3>1. Asked(setting.file, setting.flags)
      <4> SUFFICES ASSUME ~Asked(setting.file, setting.flags) PROVE FALSE
        OBVIOUS
      <4>1. policy = {} /\ ~(Judgement = {})
        BY <2>5, VerdictRests
      <4> QED
        BY <4>1 DEF Judgement
    <3>2. /\ a \in Reports /\ b \in Reports /\ command \in {"breakdown", "diff"}
          /\ SkippedIn(a) = {} /\ SkippedIn(b) = {}
          /\ \A c : Cost("after", c) = Aggregate(a, c) /\ Cost("before", c) = Aggregate(b, c)
      BY <2>0, <2>5, VerdictRests DEF EverythingPriced
    <3>3. p.minCoverage \in SUBSET (0..100)
      BY <2>2, <2>5, <3>1
    <3>4. \A scope : ReportViolations(p, scope, a) = {} /\ ReportViolations(p, scope, b) = {}
      BY <3>2, <3>3, ReportRules
    <3>5. \A c \in DOMAIN p.limits : /\ c \in DOMAIN Normal \ {Blank}
                                     /\ p.limits[c].total = Stated("total", c)
                                     /\ p.limits[c].increase = Stated("increase", c)
      BY <2>2, <2>5, <3>1
    <3>6. CASE \E scope : MaxTotalViolations(p, scope, a) # {}
      <4>1. PICK c \in DOMAIN p.limits : \E l \in p.limits[c].total : Aggregate(a, c) > l
        BY <3>6, AmountRules
      <4> QED
        BY <3>2, <3>5, <4>1
    <3>7. CASE command = "diff" /\ IncreaseViolations(p, b, a) # {}
      <4>1. PICK c \in DOMAIN p.limits :
               \E l \in p.limits[c].increase : Aggregate(a, c) - Aggregate(b, c) > l
        BY <3>7, AmountRules
      <4> QED
        BY <3>2, <3>5, <4>1
    <3>8. CASE command = "breakdown" /\ BaselineRequired(p) # {}
      <4>1. PICK c \in DOMAIN p.limits : p.limits[c].increase # {}
        BY <3>8, AmountRules
      <4> QED
        BY <3>5, <3>8, <4>1
    <3>9. exit # 0
      BY <2>5
    <3> QED
      BY <2>1, <2>5, <3>1, <3>2, <3>4, <3>6, <3>7, <3>8, <3>9
  <2> QED
    BY <2>3, <2>4, <2>5 DEF VerdictIsTrue
<1> QED
  BY <1>1, AlwaysGateInv, PTL

=============================================================================
