----------------------------- MODULE MCCostGate -----------------------------
(* Instances of CostGate for TLC: two addresses, a currency in two          *)
(* spellings and another one, and amounts two of which may be too many.     *)
EXTENDS CostGate

Spellings == ("" :> "") @@ ("USD" :> "USD") @@ ("usd" :> "USD") @@ ("CNY" :> "CNY")

Line(currency, monthly) == [currency |-> currency, monthly |-> monthly]
AllBills == {<<Line("USD", 1)>>, <<Line("USD", 3)>>, <<Line("usd", 3)>>,
             <<Line("CNY", 1), Line("CNY", 2)>>, <<Line("USD", 1), Line("CNY", 1)>>}

NoFlags == [total |-> <<>>, increase |-> <<>>, failOnSkipped |-> {}, minCoverage |-> {}]
Flag(currency, amount) == <<[currency |-> currency, amount |-> amount]>>
Limits(total, increase) == [total |-> total, increase |-> increase]
File(limits, failOnSkipped) == {[EmptyPolicy EXCEPT !.limits = limits, !.failOnSkipped = failOnSkipped]}

NoPolicy == [file |-> {}, flags |-> NoFlags]
AllSettings == {
    NoPolicy,
    [file |-> File(("usd" :> Limits({4}, {})) @@ ("CNY" :> Limits({}, {1})), {TRUE}), flags |-> NoFlags],
    [file |-> File("usd" :> Limits({2}, {1}), {TRUE}),
     flags |-> [NoFlags EXCEPT !.total = Flag("USD", 3), !.failOnSkipped = {FALSE}]],
    [file |-> {}, flags |-> [NoFlags EXCEPT !.increase = Flag("usd", 0), !.minCoverage = {100}]],
    [file |-> {}, flags |-> [NoFlags EXCEPT !.total = Flag("CNY", 2), !.minCoverage = {50}]],
    [file |-> File(("usd" :> Limits({2}, {})) @@ ("USD" :> Limits({3}, {})), {}), flags |-> NoFlags],
    [file |-> {}, flags |-> [NoFlags EXCEPT !.failOnSkipped = {FALSE}]]}
Both == {"breakdown", "diff"}
=============================================================================
