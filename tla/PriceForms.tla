----------------------------- MODULE PriceForms -----------------------------
(***************************************************************************)
(* What the mappers share: the attributes of a planned resource            *)
(* (resources/attrs.go), the requests they make, the answers they read and *)
(* the cost components they return (resources/pricehelper.go).             *)
(*                                                                         *)
(* A resource has text and number attributes, and an absent one reads as   *)
(* "" or 0.  A text that is blank when trimmed is " ", and texts that the  *)
(* code compares without case are told apart by UpperCase.                 *)
(*                                                                         *)
(* An answer in JSON is a block at the top and a block under "Response",   *)
(* each a function from parts to functions from fields to amounts or       *)
(* texts; the part "" has the fields of the block itself.  Amounts of an   *)
(* answer are whole numbers of the unit the interface uses; amounts of a   *)
(* component are in hundredths of its currency.                            *)
(***************************************************************************)
EXTENDS Integers, Sequences, FiniteSets

UpperCase ==
    [prepaid |-> "PREPAID", postpaid |-> "POSTPAID", pre_paid |-> "PRE_PAID",
     postpaid_by_hour |-> "POSTPAID_BY_HOUR", serverless |-> "SERVERLESS", flow |-> "FLOW",
     hour |-> "HOUR", month |-> "MONTH", day |-> "DAY", new |-> "NEW", traffic |-> "TRAFFIC",
     PayByTraffic |-> "PAYBYTRAFFIC", pent |-> "PENT", microPent |-> "MICROPENT"]

Trim(text) == IF text = " " THEN "" ELSE text
Up(text) == IF text \in DOMAIN UpperCase THEN UpperCase[text] ELSE Trim(text)

\* Texts that contain, or start with, the name of a pay mode.
WithPostpaid == {"POSTPAID", "POSTPAID_BY_HOUR", "TRAFFIC_POSTPAID_BY_HOUR", "BANDWIDTH_POSTPAID_BY_HOUR"}
WithPrepaid == {"PREPAID", "PREPAID_BY_MONTH", "BANDWIDTH_PREPAID_BY_MONTH"}
FromPrepaid == {"PREPAID", "PREPAID_BY_MONTH"}
WithHour == {"POSTPAID_BY_HOUR", "TRAFFIC_POSTPAID_BY_HOUR", "BANDWIDTH_POSTPAID_BY_HOUR"}

Text(r, name) == IF name \in DOMAIN r.text THEN r.text[name] ELSE ""
Number(r, name) == IF name \in DOMAIN r.number THEN r.number[name] ELSE 0

OrText(text, default) == IF text = "" THEN default ELSE text
OrNumber(n, default) == IF n > 0 THEN n ELSE default

\* The first attribute that says something.
EitherText(r, first, second) == OrText(Trim(Text(r, first)), Text(r, second))
EitherNumber(r, first, second) == IF Number(r, first) # 0 THEN Number(r, first) ELSE Number(r, second)

When(condition, set) == IF condition THEN set ELSE {}

-----------------------------------------------------------------------------
(* Answers. *)

Part(block, part) == IF part \in DOMAIN block THEN block[part] ELSE [x \in {} |-> 0]
Amount(part, field) == IF field \in DOMAIN part THEN part[field] ELSE 0
Word(part, field) == IF field \in DOMAIN part THEN part[field] ELSE ""
Unit(part) == Word(part, "ChargeUnit")

\* One of the fields is positive.
Shows(part, fields) == \E f \in fields : Amount(part, f) > 0

\* A part of an answer: the wrapped one when it shows one of the fields.
Choose(answer, part, fields) ==
    IF Shows(Part(answer.wrapped, part), fields) THEN Part(answer.wrapped, part) ELSE Part(answer.top, part)

-----------------------------------------------------------------------------
(* Components. *)

HoursPerMonth == 730

Component(unit, hourly, monthly, currency) ==
    [unit |-> unit, hourly |-> hourly, monthly |-> monthly, currency |-> currency]

SimpleHourlyCost(hourly, currency) == <<Component("HOUR", hourly, hourly * HoursPerMonth, currency)>>

Yuan(amount) == 100 * amount
Daily(amount) == (amount * HoursPerMonth) \div 24

\* The expected currency, when the site says one.
TencentCurrency(expected) == IF Trim(expected) # "" THEN expected ELSE "CNY"

\* Errors beside prices are not looked at.
Paid_Bug(answer, comps) ==
    IF \E i \in DOMAIN comps : comps[i].hourly > 0 \/ comps[i].monthly > 0 THEN comps ELSE <<>>

\* validateTencentPaidPrice: the components, or none when the answer is a
\* business error or nothing costs anything.
Paid(answer, comps) ==
    IF answer.errors = {} /\ \E i \in DOMAIN comps : comps[i].hourly > 0 \/ comps[i].monthly > 0
    THEN comps ELSE <<>>

PreferDiscount(discount, original) == IF discount > 0 THEN discount ELSE original

\* monthlyFromPrice, as the component it makes.
FromPrice(unit, rate, total, currency) ==
    CASE Up(unit) = "HOUR" -> Component(unit, rate, rate * HoursPerMonth, currency)
      [] Up(unit) \in {"MONTH", "NONE"} -> Component(unit, 0, total, currency)
      [] Up(unit) = "DAY" -> Component(unit, 0, Daily(rate), currency)
      [] OTHER -> IF rate > 0 THEN Component(unit, rate, rate * HoursPerMonth, currency)
                              ELSE Component(unit, 0, total, currency)

\* splitByBilling, as the component it makes.
SplitByBilling(unit, price, postpaid, currency) ==
    IF postpaid THEN Component(unit, price, price * HoursPerMonth, currency)
                ELSE Component(unit, 0, price, currency)

\* discountedYuanFromCents
DiscountedFromCents(answer) ==
    LET p == Choose(answer, "", {"Price", "OriginalPrice"})
    IN  IF Amount(p, "Price") = 0 THEN Amount(p, "OriginalPrice") ELSE Amount(p, "Price")

\* parseTencentPrice, field by field.
TencentPrice(answer, expected) ==
    LET top == Part(answer.top, "")
        wrapped == Part(answer.wrapped, "")
        of(field) == PreferDiscount(Amount(wrapped, field), Amount(top, field))
    IN  [price |-> of("Price"), original |-> of("OriginalPrice"),
         currency |-> OrText(OrText(Word(wrapped, "Currency"), Word(top, "Currency")), TencentCurrency(expected))]
=============================================================================
