------------------------------ MODULE PlanDiff ------------------------------
(***************************************************************************)
(* What a report says (output/report.go) and what a diff of two reports    *)
(* says (output/diff.go): which resources changed, by how much, and when a *)
(* sum may be shown at all.                                                *)
(*                                                                         *)
(* A report gives each address an entry: the resource is absent from the   *)
(* plan, skipped, or priced with a bill, a sequence of components.  A plan *)
(* lists an address once, so an entry per address is all a report can say. *)
(* Amounts are whole numbers; a sum above MaxFinite stands for a float     *)
(* that is no longer finite.                                               *)
(***************************************************************************)
EXTENDS Integers, Sequences, FiniteSets, FiniteSetsExt

CONSTANTS
    Addresses,  \* the addresses of the resources of both plans
    Blank,      \* the empty currency
    MaxFinite   \* the largest amount a float holds

ASSUME DiffAssumption == MaxFinite \in Nat /\ IsFiniteSet(Addresses)

Absent == [is |-> "absent", bill |-> <<>>]
Skipped == [is |-> "skipped", bill |-> <<>>]
Priced(bill) == [is |-> "priced", bill |-> bill]

PricedIn(r) == {a \in Addresses : r[a].is = "priced"}
SkippedIn(r) == {a \in Addresses : r[a].is = "skipped"}

-----------------------------------------------------------------------------
(* Sums of a report. *)

Finite(amount) == amount <= MaxFinite
MonthlyUpTo(bill, n) == SumFunction([i \in 1..n |-> bill[i].monthly])
Monthly(bill) == MonthlyUpTo(bill, Len(bill))
Total(r) == SumFunction([a \in PricedIn(r) |-> Monthly(r[a].bill)])

CurrenciesOf(bill) == {bill[i].currency : i \in DOMAIN bill} \ {Blank}
CurrenciesIn(r) == UNION {CurrenciesOf(r[a].bill) : a \in PricedIn(r)}
MonthlyIn(bill, c) ==
    SumFunction([i \in {j \in DOMAIN bill : bill[j].currency = c} |-> bill[i].monthly])
TotalIn(r, c) == SumFunction([a \in PricedIn(r) |-> MonthlyIn(r[a].bill, c)])

\* The one currency of a report, Blank when there is none or more than one.
UniformCurrency(currencies) ==
    IF Cardinality(currencies) = 1 THEN CHOOSE c \in currencies : TRUE ELSE Blank

\* Each resource by itself, but not what a currency adds up to.
ValidateFiniteReport_Bug(r) == \A a \in PricedIn(r) : Finite(Monthly(r[a].bill))

\* No infinite resource and no infinite currency.
ValidateFiniteReport(r) ==
    /\ \A a \in PricedIn(r) : Finite(Monthly(r[a].bill))
    /\ \A c \in CurrenciesIn(r) : Finite(TotalIn(r, c))

\* renderTable: the last line of a breakdown.
Footer(r) ==
    LET partial == SkippedIn(r) # {}
        currency == UniformCurrency(CurrenciesIn(r))
    IN  [label |-> IF partial THEN "subtotal" ELSE "total",
         currency |-> currency,
         amount |-> IF currency # Blank THEN {Total(r)}
                    ELSE IF PricedIn(r) = {} /\ ~partial THEN {0} ELSE {}]

-----------------------------------------------------------------------------
(* The diff of two reports. *)

\* The components that stop resourceMonthlyCurrency: an amount without a
\* currency, or a second currency.
Clashes(bill) ==
    {i \in DOMAIN bill :
        \/ bill[i].currency = Blank /\ bill[i].monthly # 0
        \/ /\ bill[i].currency # Blank
           /\ \E j \in 1..(i - 1) : bill[j].currency \notin {Blank, bill[i].currency}}

Comparable(bill) == Clashes(bill) = {} /\ CurrenciesOf(bill) # {}

\* The sum up to where it stopped.
ResourceMonthly(bill) == MonthlyUpTo(bill, IF Clashes(bill) = {} THEN Len(bill) ELSE Min(Clashes(bill)))

\* A side that could not be priced counts as absent.
Uncertain_Bug(b, a) ==
    \/ b.is = "priced" /\ ~Comparable(b.bill)
    \/ a.is = "priced" /\ ~Comparable(a.bill)
    \/ b.is = "priced" /\ a.is = "priced" /\ CurrenciesOf(b.bill) # CurrenciesOf(a.bill)

\* No difference can be told: one side was not priced, or the amounts are not
\* in one currency.
Uncertain(b, a) ==
    \/ b.is = "priced" /\ ~Comparable(b.bill)
    \/ a.is = "priced" /\ ~Comparable(a.bill)
    \/ b.is = "priced" /\ a.is = "priced" /\ CurrenciesOf(b.bill) # CurrenciesOf(a.bill)
    \/ b.is = "skipped" \/ a.is = "skipped"

Kind(b, a) ==
    CASE Uncertain(b, a) -> "~"
      [] ~Uncertain(b, a) /\ a.is = "absent" -> "-"
      [] ~Uncertain(b, a) /\ b.is = "absent" -> "+"
      [] OTHER -> IF ResourceMonthly(a.bill) = ResourceMonthly(b.bill) THEN "=" ELSE "~"

ResourceDiff(b, a) ==
    [kind |-> Kind(b, a), uncertain |-> Uncertain(b, a),
     before |-> ResourceMonthly(b.bill), after |-> ResourceMonthly(a.bill),
     delta |-> IF Uncertain(b, a) THEN 0 ELSE ResourceMonthly(a.bill) - ResourceMonthly(b.bill)]

\* The currency of the new plan alone.
DiffCurrency_Bug(before, after) == UniformCurrency(CurrenciesIn(after))

DiffCurrency(before, after) == UniformCurrency(CurrenciesIn(before) \cup CurrenciesIn(after))

\* computeDiffUnchecked.  Sums are only made in a single currency; they are
\* made even when resources were skipped, and "complete" tells.
ComputeDiff(before, after) ==
    LET currency == DiffCurrency(before, after)
        sums == IF currency = Blank THEN <<0, 0>> ELSE <<Total(before), Total(after)>>
    IN  [resources |-> [x \in PricedIn(before) \cup PricedIn(after) |-> ResourceDiff(before[x], after[x])],
         skipped |-> SkippedIn(before) \cup SkippedIn(after),
         complete |-> SkippedIn(before) = {} /\ SkippedIn(after) = {},
         currency |-> currency,
         before |-> sums[1], after |-> sums[2], delta |-> sums[2] - sums[1],
         byCurrency |-> [c \in CurrenciesIn(before) \cup CurrenciesIn(after) |->
                            TotalIn(after, c) - TotalIn(before, c)]]

\* diffTotalsComplete
TotalsComplete(d) ==
    d.complete \/ (d.skipped = {} /\ \A x \in DOMAIN d.resources : ~d.resources[x].uncertain)

\* The line on the total of a table or a comment.
TotalLine(d) ==
    IF ~TotalsComplete(d) THEN "incomplete" ELSE IF d.currency = Blank THEN "mixed" ELSE "total"
=============================================================================
