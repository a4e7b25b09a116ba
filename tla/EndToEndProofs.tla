--------------------------- MODULE EndToEndProofs ---------------------------
(***************************************************************************)
(* No price is made of an answer without one, whatever is planned; what a  *)
(* service of Tencent Cloud states is what a resource costs, and so is the *)
(* price in the list of AWS; a price is in the currency its cloud charges  *)
(* in; and what the end-to-end test says of a product, for any plans,      *)
(* selections and answers, and for mappers with any mistake.               *)
(***************************************************************************)
EXTENDS EndToEnd, DataLemmas, TLAPS


(***************************************************************************)
(* Parts of an answer of Tencent Cloud that state no amount but 0.         *)
(***************************************************************************)

Amounts ==
    {"Price", "RealPrice", "OriginalPrice", "DiscountPrice", "HighPrecisionPrice", "UnitPrice",
     "UnitPriceDiscount", "TotalPrice", "TotalPriceDiscount", "TotalCost", "RealTotalCost", "OriginalCost",
     "ProxyDailyPrice", "DiscountProxyDailyPrice"}

Void(part) == \A f \in Amounts : Amount(part, f) = 0
VoidBlock(block) == \A part : Void(Part(block, part))
VoidAnswer(a) == VoidBlock(a.top) /\ VoidBlock(a.wrapped)
Costs(c) == c.hourly > 0 \/ c.monthly > 0

\* Errors, or components that cost nothing, are no price.
LEMMA PaidRefuses ==
    \A a, comps : a.errors # {} \/ (\A i \in DOMAIN comps : ~Costs(comps[i])) => Paid(a, comps) = <<>>
  BY DEF Paid, Costs

\* Every amount of a part that states none.
LEMMA VoidFields ==
    ASSUME NEW p, Void(p)
    PROVE  /\ Amount(p, "Price") = 0 /\ Amount(p, "RealPrice") = 0 /\ Amount(p, "OriginalPrice") = 0
           /\ Amount(p, "DiscountPrice") = 0 /\ Amount(p, "HighPrecisionPrice") = 0
           /\ Amount(p, "UnitPrice") = 0 /\ Amount(p, "UnitPriceDiscount") = 0
           /\ Amount(p, "TotalPrice") = 0 /\ Amount(p, "TotalPriceDiscount") = 0
           /\ Amount(p, "TotalCost") = 0 /\ Amount(p, "RealTotalCost") = 0 /\ Amount(p, "OriginalCost") = 0
           /\ Amount(p, "ProxyDailyPrice") = 0 /\ Amount(p, "DiscountProxyDailyPrice") = 0
           /\ Rate(p) = 0 /\ Discounted(p) = 0
  BY DEF Void, Amounts, Rate, Discounted, PreferDiscount

LEMMA VoidShows ==
    ASSUME NEW p, Void(p), NEW fields \in SUBSET Amounts
    PROVE  ~Shows(p, fields)
  BY DEF Void, Shows

LEMMA VoidChoice ==
    ASSUME NEW a, VoidAnswer(a), NEW part, NEW fields
    PROVE  Void(Choose(a, part, fields))
  BY Zenon DEF VoidAnswer, VoidBlock, Choose

\* The components made of amounts of 0.
LEMMA NoCost ==
    \A unit, currency, postpaid :
        /\ ~Costs(Component(unit, 0, 0, currency))
        /\ ~Costs(FromPrice(unit, 0, 0, currency))
        /\ ~Costs(SplitByBilling(unit, 0, postpaid, currency))
<1>1. \A unit, currency : ~Costs(Component(unit, 0, 0, currency))
  BY DEF Costs, Component
<1>2. Daily(0) = 0 /\ 0 * HoursPerMonth = 0
  BY DEF Daily, HoursPerMonth
<1> QED
  BY <1>1, <1>2 DEF FromPrice, SplitByBilling

LEMMA OneComponent ==
    \A a, c : a.errors # {} \/ ~Costs(c) =>
        /\ Paid(a, <<c>>) = <<>> /\ Paid(a, <<c>> \o <<>>) = <<>> /\ Paid(a, <<c>> \o <<>> \o <<>>) = <<>>
<1> SUFFICES ASSUME NEW a, NEW c, a.errors # {} \/ ~Costs(c)
             PROVE  /\ Paid(a, <<c>>) = <<>> /\ Paid(a, <<c>> \o <<>>) = <<>>
                    /\ Paid(a, <<c>> \o <<>> \o <<>>) = <<>>
  OBVIOUS
<1>1. <<c>> \o <<>> = <<c>> /\ <<c>> \o <<>> \o <<>> = <<c>>
  <2>1. <<c>> \in Seq({c})
    OBVIOUS
  <2> QED
    BY <2>1
<1>2. Paid(a, <<c>>) = <<>>
  BY PaidRefuses
<1> QED
  BY <1>1, <1>2

(***************************************************************************)
(* The mappers of Tencent Cloud refuse such an answer.                     *)
(***************************************************************************)

\* An error, or nothing but amounts of 0.
NoPrice(a) == a.errors # {} \/ VoidAnswer(a)

\* The mappers of one component.
LEMMA SimpleParses ==
    ASSUME NEW q, NEW a, NEW cur, NoPrice(a)
    PROVE  /\ CBSParse(q, a, cur) = <<>> /\ LighthouseParse(q, a, cur) = <<>> /\ ECMParse(q, a, cur) = <<>>
           /\ EIPParse(q, a, cur) = <<>> /\ DirectConnectParse(q, a, cur) = <<>> /\ GAAPParse(q, a, cur) = <<>>
           /\ YunjingParse(q, a, cur) = <<>> /\ CloudHSMParse(q, a, cur) = <<>>
<1>0. Yuan(0) = 0 /\ Daily(0) = 0 /\ 0 * HoursPerMonth = 0
  BY DEF Yuan, Daily, HoursPerMonth
<1>1. CBSParse(q, a, cur) = <<>>
  <2> DEFINE p == Choose(a, "DiskPrice", UnitPrices)
             c == FromPrice(Unit(p), Yuan(Rate(p)), Yuan(Amount(p, "DiscountPrice")),
                            OrText(Word(p, "Currency"), TencentCurrency(cur)))
  <2>1. a.errors # {} \/ ~Costs(c)
    <3> SUFFICES ASSUME VoidAnswer(a) PROVE ~Costs(c)
      BY DEF NoPrice
    <3>1. Void(p)
      BY VoidChoice
    <3>2. Rate(p) = 0 /\ Amount(p, "DiscountPrice") = 0
      BY <3>1, VoidFields
    <3> QED
      BY <1>0, <3>2, NoCost
  <2> HIDE DEF c
  <2>2. Paid(a, <<c>>) = <<>>
    BY <2>1, OneComponent
  <2> QED
    BY <2>2 DEF CBSParse, c
<1>2. LighthouseParse(q, a, cur) = <<>>
  <2> DEFINE p == Choose(a, "InstancePrice", Prices)
             c == Component("MONTH", 0, Yuan(Discounted(p)), TencentCurrency(cur))
  <2>1. a.errors # {} \/ ~Costs(c)
    <3> SUFFICES ASSUME VoidAnswer(a) PROVE ~Costs(c)
      BY DEF NoPrice
    <3>2. Discounted(p) = 0
      BY VoidChoice, VoidFields
    <3> QED
      BY <1>0, <3>2, NoCost
  <2> HIDE DEF c
  <2>2. Paid(a, <<c>>) = <<>>
    BY <2>1, OneComponent
  <2> QED
    BY <2>2 DEF LighthouseParse, c
<1>3. ECMParse(q, a, cur) = <<>>
  <2> DEFINE p == Choose(a, "InstancePrice", Prices)
             c == Component("HOUR", Discounted(p), Discounted(p) * HoursPerMonth, TencentCurrency(cur))
  <2>1. a.errors # {} \/ ~Costs(c)
    <3> SUFFICES ASSUME VoidAnswer(a) PROVE ~Costs(c)
      BY DEF NoPrice
    <3>2. Discounted(p) = 0
      BY VoidChoice, VoidFields
    <3> QED
      BY <1>0, <3>2, NoCost
  <2> HIDE DEF c
  <2>2. Paid(a, <<c>>) = <<>>
    BY <2>1, OneComponent
  <2> QED
    BY <2>2 DEF ECMParse, SimpleHourlyCost, c
<1>4. EIPParse(q, a, cur) = <<>>
  <2> DEFINE p == Choose(a, "AddressPrice", {"UnitPrice", "DiscountPrice", "OriginalPrice"})
             prepaid == Up(q.params.InternetChargeType) \in WithPrepaid
             other == Amount(p, IF prepaid THEN "OriginalPrice" ELSE "UnitPrice")
             price == IF Amount(p, "DiscountPrice") = 0 THEN other ELSE Amount(p, "DiscountPrice")
             c == SplitByBilling(Unit(p), Yuan(price), ~prepaid, TencentCurrency(cur))
  <2>1. a.errors # {} \/ ~Costs(c)
    <3> SUFFICES ASSUME VoidAnswer(a) PROVE ~Costs(c)
      BY DEF NoPrice
    <3>1. Void(p)
      BY VoidChoice
    <3>2. price = 0
      BY <3>1, VoidFields
    <3> QED
      BY <1>0, <3>2, NoCost
  <2> HIDE DEF c
  <2>2. Paid(a, <<c>>) = <<>>
    BY <2>1, OneComponent
  <2> QED
    BY <2>2, Zenon DEF EIPParse, c
<1>5. DirectConnectParse(q, a, cur) = <<>>
  <2> DEFINE at(i) == Amount(Part(IF i % 2 = 1 THEN a.top ELSE a.wrapped, ""),
                             IF i <= 2 THEN "RealTotalCost" ELSE "TotalCost")
             shown == {i \in 1..4 : at(i) # 0}
             first == CHOOSE i \in shown : \A j \in shown : i <= j
             c == Component("MONTH", 0, Yuan(at(first)), TencentCurrency(cur))
  <2>1. a.errors # {} \/ shown = {}
    <3> SUFFICES ASSUME VoidAnswer(a), NEW i \in 1..4 PROVE at(i) = 0
      BY DEF NoPrice
    <3>1. Void(Part(a.top, "")) /\ Void(Part(a.wrapped, ""))
      BY DEF VoidAnswer, VoidBlock
    <3> QED
      BY <3>1, VoidFields
  <2>2. DirectConnectParse(q, a, cur) = IF shown = {} THEN <<>> ELSE Paid(a, <<c>>)
    BY Zenon DEF DirectConnectParse
  <2> HIDE DEF c, shown
  <2> QED
    BY <2>1, <2>2, OneComponent
<1>6. GAAPParse(q, a, cur) = <<>>
  <2> DEFINE p == Choose(a, "", {"DiscountProxyDailyPrice", "ProxyDailyPrice"})
             daily == PreferDiscount(Amount(p, "DiscountProxyDailyPrice"), Amount(p, "ProxyDailyPrice"))
             c == Component("DAY", 0, Daily(Yuan(daily)), TencentCurrency(cur))
  <2>1. a.errors # {} \/ ~Costs(c)
    <3> SUFFICES ASSUME VoidAnswer(a) PROVE ~Costs(c)
      BY DEF NoPrice
    <3>1. Void(p)
      BY VoidChoice
    <3>2. daily = 0
      BY <3>1, VoidFields DEF PreferDiscount
    <3> QED
      BY <1>0, <3>2, NoCost
  <2> HIDE DEF c
  <2>2. Paid(a, <<c>>) = <<>>
    BY <2>1, OneComponent
  <2> QED
    BY <2>2, Zenon DEF GAAPParse, c
<1>7. YunjingParse(q, a, cur) = <<>>
  <2> DEFINE c == Component("MONTH", 0, Yuan(Discounted(Choose(a, "", Prices))), TencentCurrency(cur))
  <2>1. a.errors # {} \/ ~Costs(c)
    <3> SUFFICES ASSUME VoidAnswer(a) PROVE ~Costs(c)
      BY DEF NoPrice
    <3>2. Discounted(Choose(a, "", Prices)) = 0
      BY VoidChoice, VoidFields
    <3> QED
      BY <1>0, <3>2, NoCost
  <2> HIDE DEF c
  <2>2. Paid(a, <<c>>) = <<>>
    BY <2>1, OneComponent
  <2> QED
    BY <2>2 DEF YunjingParse, c
<1>8. CloudHSMParse(q, a, cur) = <<>>
  <2> DEFINE wrapped == Part(a.wrapped, "")
             p == IF {"TotalCost", "OriginalCost"} \cap DOMAIN wrapped # {} THEN wrapped ELSE Part(a.top, "")
             c == Component("MONTH", 0, Yuan(PreferDiscount(Amount(p, "TotalCost"), Amount(p, "OriginalCost"))),
                            TencentCurrency(cur))
  <2>1. a.errors # {} \/ ~Costs(c)
    <3> SUFFICES ASSUME VoidAnswer(a) PROVE ~Costs(c)
      BY DEF NoPrice
    <3>1. Void(p)
      BY DEF VoidAnswer, VoidBlock
    <3>2. PreferDiscount(Amount(p, "TotalCost"), Amount(p, "OriginalCost")) = 0
      BY <3>1, VoidFields DEF PreferDiscount
    <3> QED
      BY <1>0, <3>2, NoCost
  <2> HIDE DEF c
  <2>2. Paid(a, <<c>>) = <<>>
    BY <2>1, OneComponent
  <2> QED
    BY <2>2, Zenon DEF CloudHSMParse, c
<1> QED
  BY <1>1, <1>2, <1>3, <1>4, <1>5, <1>6, <1>7, <1>8

\* The mappers of databases.
LEMMA DatabaseParses ==
    ASSUME NEW q, NEW a, NEW cur, NoPrice(a)
    PROVE  /\ MySQLParse(q, a, cur) = <<>> /\ PostgresParse(q, a, cur) = <<>> /\ RedisParse(q, a, cur) = <<>>
           /\ MongoParse(q, a, cur) = <<>> /\ MariaDBParse(q, a, cur) = <<>>
           /\ SQLServerParse(q, a, cur) = <<>> /\ DCDBParse(q, a, cur) = <<>>
<1>0. Yuan(0) = 0 /\ PreferDiscount(0, 0) = 0
  BY DEF Yuan, PreferDiscount
<1>1. \A unit, postpaid, currency, price :
          price = 0 \/ a.errors # {} => Paid(a, <<SplitByBilling(unit, price, postpaid, currency)>>) = <<>>
  <2> TAKE unit, postpaid, currency, price
  <2> HAVE price = 0 \/ a.errors # {}
  <2> DEFINE c == SplitByBilling(unit, price, postpaid, currency)
  <2>1. a.errors # {} \/ ~Costs(c)
    BY NoCost
  <2> HIDE DEF c
  <2>2. Paid(a, <<c>>) = <<>>
    BY <2>1, OneComponent
  <2> QED
    BY <2>2 DEF c
<1>2. a.errors # {} \/ PreferDiscount(TencentPrice(a, cur).price, TencentPrice(a, cur).original) = 0
  <2> SUFFICES ASSUME VoidAnswer(a)
               PROVE  PreferDiscount(TencentPrice(a, cur).price, TencentPrice(a, cur).original) = 0
    BY DEF NoPrice
  <2>1. Void(Part(a.top, "")) /\ Void(Part(a.wrapped, ""))
    BY DEF VoidAnswer, VoidBlock
  <2>2. TencentPrice(a, cur).price = 0 /\ TencentPrice(a, cur).original = 0
    BY <1>0, <2>1, VoidFields DEF TencentPrice
  <2> QED
    BY <1>0, <2>2
<1>3. a.errors # {} \/ DiscountedFromCents(a) = 0
  <2> SUFFICES ASSUME VoidAnswer(a) PROVE DiscountedFromCents(a) = 0
    BY DEF NoPrice
  <2> DEFINE p == Choose(a, "", {"Price", "OriginalPrice"})
  <2>1. Void(p)
    BY VoidChoice
  <2>2. Amount(p, "Price") = 0 /\ Amount(p, "OriginalPrice") = 0
    BY <2>1, VoidFields
  <2>3. DiscountedFromCents(a) = IF Amount(p, "Price") = 0 THEN Amount(p, "OriginalPrice") ELSE Amount(p, "Price")
    BY Zenon DEF DiscountedFromCents
  <2> HIDE DEF p
  <2> QED
    BY <2>2, <2>3
<1>4. MySQLParse(q, a, cur) = <<>> /\ PostgresParse(q, a, cur) = <<>>
  <2> DEFINE p == TencentPrice(a, cur)
             price == PreferDiscount(p.price, p.original)
             hourly == q.params.PayType = "HOUR_PAID"
             postpaid == q.params.InstanceChargeType = "POSTPAID"
  <2>1. MySQLParse(q, a, cur) = Paid(a, <<SplitByBilling(q.params.PayType, price, hourly, p.currency)>>)
    BY Zenon DEF MySQLParse
  <2>2. PostgresParse(q, a, cur) =
           Paid(a, <<SplitByBilling(q.params.InstanceChargeType, price, postpaid, p.currency)>>)
    BY Zenon DEF PostgresParse
  <2>3. price = 0 \/ a.errors # {}
    BY <1>2
  <2> HIDE DEF p, price, hourly, postpaid
  <2> QED
    BY <1>1, <2>1, <2>2, <2>3
<1>5. MariaDBParse(q, a, cur) = <<>> /\ SQLServerParse(q, a, cur) = <<>> /\ DCDBParse(q, a, cur) = <<>>
  BY <1>1, <1>3, Zenon DEF MariaDBParse, SQLServerParse, DCDBParse
<1>6. RedisParse(q, a, cur) = <<>>
  <2> DEFINE top == Part(a.top, "")
             wrapped == Part(a.wrapped, "")
             of(field) == PreferDiscount(Amount(wrapped, field), Amount(top, field))
             word(field, default) == OrText(OrText(Word(wrapped, field), Word(top, field)), default)
             price == PreferDiscount(of("HighPrecisionPrice"), of("Price"))
             hourly == q.params.BillingMode = "0"
             amount == Normalize(price, word("AmountUnit", "pent"))
  <2>1. a.errors # {} \/ amount = 0
    <3> SUFFICES ASSUME VoidAnswer(a) PROVE amount = 0
      BY DEF NoPrice
    <3>1. Void(top) /\ Void(wrapped)
      BY DEF VoidAnswer, VoidBlock
    <3>2. price = 0
      BY <1>0, <3>1, VoidFields
    <3>3. \A unit : Normalize(0, unit) = 0
      BY <1>0, SMT DEF Normalize, MicroPents
    <3> HIDE DEF price
    <3> QED
      BY <3>2, <3>3
  <2>2. RedisParse(q, a, cur) =
           Paid(a, <<SplitByBilling(IF hourly THEN "HOUR" ELSE "MONTH", amount, hourly,
                                    word("Currency", TencentCurrency(cur)))>>)
    BY Zenon DEF RedisParse
  <2> HIDE DEF amount, hourly, word
  <2> QED
    BY <1>1, <2>1, <2>2
<1>7. MongoParse(q, a, cur) = <<>>
  <2> DEFINE p == Choose(a, "Price", {"DiscountPrice", "UnitPrice"})
             total == IF Amount(p, "DiscountPrice") = 0 THEN Amount(p, "OriginalPrice")
                      ELSE Amount(p, "DiscountPrice")
             rate == IF Amount(p, "UnitPrice") = 0 THEN total ELSE Amount(p, "UnitPrice")
             hourly == q.params.InstanceChargeType \in WithHour
             amount == Yuan(IF hourly THEN rate ELSE total)
  <2>1. a.errors # {} \/ amount = 0
    <3> SUFFICES ASSUME VoidAnswer(a) PROVE amount = 0
      BY DEF NoPrice
    <3>1. Void(p)
      BY VoidChoice
    <3> QED
      BY <1>0, <3>1, VoidFields
  <2>2. MongoParse(q, a, cur) =
           Paid(a, <<SplitByBilling(q.params.InstanceChargeType, amount, hourly, TencentCurrency(cur))>>)
    BY Zenon DEF MongoParse
  <2> HIDE DEF amount, hourly
  <2> QED
    BY <1>1, <2>1, <2>2
<1> QED
  BY <1>4, <1>5, <1>6, <1>7

\* Of a line of an answer that a mapper adds only when it shows a price.
LEMMA NoLine ==
    ASSUME NEW a, NEW c, a.errors # {} \/ ~Costs(c), NEW others,
           others = <<>> \/ a.errors # {}
    PROVE  Paid(a, <<c>> \o others) = <<>>
<1>1. CASE a.errors # {}
  BY <1>1, PaidRefuses
<1>2. CASE others = <<>> /\ ~Costs(c)
  BY <1>2, OneComponent
<1> QED
  BY <1>1, <1>2

\* The mappers that add lines to the component of the machine.
LEMMA LineParses ==
    ASSUME NEW q, NEW a, NEW cur, NoPrice(a)
    PROVE  /\ CVMParse(q, a, cur) = <<>> /\ CLBParse(q, a, cur) = <<>>
           /\ VPNParse(q, a, cur) = <<>> /\ CynosParse(q, a, cur) = <<>>
<1>0. Yuan(0) = 0 /\ 0 * HoursPerMonth = 0
  BY DEF Yuan, HoursPerMonth
<1>1. CVMParse(q, a, cur) = <<>>
  <2> DEFINE block == IF Shows(Part(a.wrapped, "InstancePrice"), UnitPrices) THEN a.wrapped ELSE a.top
             machine == Part(block, "InstancePrice")
             line == Part(block, "BandwidthPrice")
             currency == OrText(Word(machine, "Currency"), TencentCurrency(cur))
             c == FromPrice(Unit(machine), Yuan(Rate(machine)), Yuan(Amount(machine, "DiscountPrice")), currency)
             others == IF Shows(line, {"UnitPrice", "UnitPriceDiscount"})
                       THEN <<FromPrice(Unit(line), Yuan(Rate(line)), Yuan(Rate(line)), currency)>> ELSE <<>>
  <2>1. a.errors # {} \/ (~Costs(c) /\ others = <<>>)
    <3> SUFFICES ASSUME VoidAnswer(a) PROVE ~Costs(c) /\ others = <<>>
      BY DEF NoPrice
    <3>1. Void(machine) /\ Void(line)
      BY DEF VoidAnswer, VoidBlock
    <3>2. Rate(machine) = 0 /\ Amount(machine, "DiscountPrice") = 0
      BY <3>1, VoidFields
    <3>3. ~Shows(line, {"UnitPrice", "UnitPriceDiscount"})
      BY <3>1, VoidShows DEF Amounts
    <3> QED
      BY <1>0, <3>2, <3>3, NoCost
  <2>2. CVMParse(q, a, cur) = Paid(a, <<c>> \o others)
    BY Zenon DEF CVMParse
  <2> HIDE DEF c, others
  <2> QED
    BY <2>1, <2>2, NoLine
<1>2. CLBParse(q, a, cur) = <<>>
  <2> DEFINE block == IF \E i \in 1..3 : Shows(Part(a.wrapped, CLBParts[i]), AllPrices) THEN a.wrapped ELSE a.top
             of(i) == IF i = 1 \/ Shows(Part(block, CLBParts[i]), AllPrices)
                      THEN <<CLBComponent(Part(block, CLBParts[i]), TencentCurrency(cur))>> ELSE <<>>
             c == CLBComponent(Part(block, CLBParts[1]), TencentCurrency(cur))
  <2>1. CASE a.errors # {}
    <3>1. CLBParse(q, a, cur) = Paid(a, of(1) \o of(2) \o of(3))
      BY Zenon DEF CLBParse
    <3> HIDE DEF of
    <3> QED
      BY <2>1, <3>1, PaidRefuses
  <2>2. CASE VoidAnswer(a)
    <3>1. \A part : Void(Part(block, part))
      BY <2>2 DEF VoidAnswer, VoidBlock
    <3> HIDE DEF block
    <3>2. \A p, currency : Void(p) => ~Costs(CLBComponent(p, currency))
      BY <1>0, VoidFields, NoCost DEF CLBComponent
    <3>3. ~Costs(c)
      BY <3>1, <3>2
    <3>4. of(2) = <<>> /\ of(3) = <<>>
      BY <3>1, VoidShows DEF AllPrices, UnitPrices, Amounts
    <3>5. of(1) = <<c>>
      OBVIOUS
    <3>6. CLBParse(q, a, cur) = Paid(a, of(1) \o of(2) \o of(3))
      BY Zenon DEF CLBParse, block
    <3> HIDE DEF of, c
    <3>7. CLBParse(q, a, cur) = Paid(a, <<c>> \o <<>> \o <<>>)
      BY <3>4, <3>5, <3>6
    <3> QED
      BY <3>3, <3>7, OneComponent
  <2> QED
    BY <2>1, <2>2 DEF NoPrice
<1>3. VPNParse(q, a, cur) = <<>>
  <2> DEFINE block == IF \/ Shows(Part(a.wrapped, "InstancePrice"), {"UnitPrice", "DiscountPrice"})
                         \/ Shows(Part(a.wrapped, "BandwidthPrice"), {"UnitPrice"})
                      THEN a.wrapped ELSE a.top
             machine == Part(block, "InstancePrice")
             line == Part(block, "BandwidthPrice")
             c == VPNComponent(machine, TencentCurrency(cur))
             others == IF Shows(line, {"UnitPrice", "DiscountPrice", "OriginalPrice"})
                       THEN <<VPNComponent(line, TencentCurrency(cur))>> ELSE <<>>
  <2>1. a.errors # {} \/ (~Costs(c) /\ others = <<>>)
    <3> SUFFICES ASSUME VoidAnswer(a) PROVE ~Costs(c) /\ others = <<>>
      BY DEF NoPrice
    <3>1. Void(machine) /\ Void(line)
      BY DEF VoidAnswer, VoidBlock
    <3>2. \A p, currency : Void(p) => ~Costs(VPNComponent(p, currency))
      <4> TAKE p, currency
      <4> HAVE Void(p)
      <4>1. Amount(p, "DiscountPrice") = 0 /\ Rate(p) = 0
        BY VoidFields
      <4> QED
        BY <1>0, <4>1, NoCost DEF VPNComponent
    <3>3. ~Shows(line, {"UnitPrice", "DiscountPrice", "OriginalPrice"})
      BY <3>1, VoidShows DEF Amounts
    <3> QED
      BY <3>1, <3>2, <3>3
  <2>2. VPNParse(q, a, cur) = Paid(a, <<c>> \o others)
    BY Zenon DEF VPNParse
  <2> HIDE DEF c, others
  <2> QED
    BY <2>1, <2>2, NoLine
<1>4. CynosParse(q, a, cur) = <<>>
  <2> DEFINE shown(block) == {part \in {"InstancePrice", "StoragePrice"} : Shows(Part(block, part), TradePrices)}
             block == IF shown(a.wrapped) # {} THEN a.wrapped ELSE a.top
             c == CynosComponent(Part(block, "InstancePrice"), q.params.InstancePayMode = "PREPAID",
                                 TencentCurrency(cur))
             others == IF "StoragePrice" \in shown(block)
                       THEN <<CynosComponent(Part(block, "StoragePrice"), q.params.StoragePayMode = "PREPAID",
                                             TencentCurrency(cur))>>
                       ELSE <<>>
  <2>1. a.errors # {} \/ (~Costs(c) /\ others = <<>>)
    <3> SUFFICES ASSUME VoidAnswer(a) PROVE ~Costs(c) /\ others = <<>>
      BY DEF NoPrice
    <3>1. Void(Part(block, "InstancePrice")) /\ Void(Part(block, "StoragePrice"))
      BY DEF VoidAnswer, VoidBlock
    <3>2. \A p, prepaid, currency : Void(p) => ~Costs(CynosComponent(p, prepaid, currency))
      <4> TAKE p, prepaid, currency
      <4> HAVE Void(p)
      <4>1. /\ Amount(p, "UnitPrice") = 0 /\ Amount(p, "UnitPriceDiscount") = 0
            /\ Amount(p, "TotalPrice") = 0 /\ Amount(p, "TotalPriceDiscount") = 0
        BY VoidFields
      <4> QED
        BY <1>0, <4>1, NoCost DEF CynosComponent
    <3>3. ~Shows(Part(block, "StoragePrice"), TradePrices)
      BY <3>1, VoidShows DEF Amounts, TradePrices
    <3> QED
      BY <3>1, <3>2, <3>3
  <2>2. CynosParse(q, a, cur) = Paid(a, <<c>> \o others)
    BY Zenon DEF CynosParse
  <2> HIDE DEF c, others
  <2> QED
    BY <2>1, <2>2, NoLine
<1> QED
  BY <1>1, <1>2, <1>3, <1>4

\* A list of names is empty or has two entries.
IsList(block) == block = <<>> \/ DOMAIN block = {1, 2}

LEMMA DomainIsRefused ==
    ASSUME NEW q, NEW a, NEW cur, NoPrice(a), IsList(a.top), IsList(a.wrapped)
    PROVE  DomainParse(q, a, cur) = <<>>
<1> DEFINE list == IF a.wrapped # <<>> THEN a.wrapped ELSE a.top
           new == {i \in DOMAIN list : Up(Word(list[i], "Operation")) = "NEW"}
           chosen == IF new = {} THEN list[1] ELSE list[CHOOSE i \in new : \A j \in new : i <= j]
           price == IF Amount(chosen, "RealPrice") = 0 THEN Amount(chosen, "Price") ELSE Amount(chosen, "RealPrice")
           c == Component("MONTH", 0, Yuan(price) \div 12, TencentCurrency(cur))
<1>1. DomainParse(q, a, cur) = IF list = <<>> THEN <<>> ELSE Paid(a, <<c>>)
  BY Zenon DEF DomainParse
<1>2. list = <<>> \/ a.errors # {} \/ ~Costs(c)
  <2> SUFFICES ASSUME VoidAnswer(a), list # <<>> PROVE ~Costs(c)
    BY DEF NoPrice
  <2>1. DOMAIN list = {1, 2}
    BY DEF IsList
  <2>2. PICK i \in DOMAIN list : chosen = list[i]
    <3>1. new = {} \/ \E i \in new : \A j \in new : i <= j
      <4>1. new \subseteq {1, 2}
        BY <2>1
      <4> HIDE DEF new
      <4> QED
        BY <4>1
    <3> QED
      BY <2>1, <3>1
  <2>3. Void(list[i])
    BY DEF VoidAnswer, VoidBlock, Part
  <2> HIDE DEF chosen
  <2>4. Amount(chosen, "RealPrice") = 0 /\ Amount(chosen, "Price") = 0
    BY <2>2, <2>3, VoidFields
  <2>5. Yuan(price) \div 12 = 0
    BY <2>4 DEF Yuan
  <2> QED
    BY <2>5, NoCost
<1> HIDE DEF list, c
<1> QED
  BY <1>1, <1>2, OneComponent

\* What the answers are put together from.
LEMMA VoidPieces ==
    /\ Void(<<>>)
    /\ \A word : Void([Currency |-> word])
    /\ \A field, factor : factor = 0 => Void(Only(field, factor))
    /\ \A f, g : Void(f) /\ Void(g) => Void(Along(f, g))
    /\ \A part, fields : Void(fields) => VoidBlock(Only(part, fields))
    /\ VoidBlock(<<>>)
<1>1. Void(<<>>)
  BY DEF Void, Amounts, Amount
<1>2. \A word : Void([Currency |-> word])
  BY DEF Void, Amounts, Amount
<1>3. \A field, factor : factor = 0 => Void(Only(field, factor))
  BY DEF Void, Amount, Only
<1>4. \A f, g : Void(f) /\ Void(g) => Void(Along(f, g))
  BY DEF Void, Amount, Along
<1>5. Void([x \in {} |-> 0])
  BY DEF Void, Amount
<1>6. \A part, fields : Void(fields) => VoidBlock(Only(part, fields))
  <2> TAKE part, fields
  <2> HAVE Void(fields)
  <2>1. \A other : Part(Only(part, fields), other) \in {fields, [x \in {} |-> 0]}
    BY DEF Part, Only
  <2> QED
    BY <1>5, <2>1 DEF VoidBlock
<1>7. VoidBlock(<<>>)
  BY <1>5 DEF VoidBlock, Part
<1> QED
  BY <1>1, <1>2, <1>3, <1>4, <1>6, <1>7

\* A price of 0 in any form.
LEMMA ZeroFields ==
    ASSUME NEW q, NEW mode, NEW p, p.list = 0, p.paid = 0
    PROVE  Void(MainFields(q, mode, p))
<1>0. \A factor \in Nat : factor * p.list = 0 /\ factor * p.paid = 0
  OBVIOUS
<1>1. \A field : /\ Void(IfReduced(p, field, 1))
                 /\ Void(IfReduced(p, field, 100))
  BY <1>0, VoidPieces DEF IfReduced
<1>2. \A unit : Void([UnitPrice |-> p.list, ChargeUnit |-> unit])
  BY DEF Void, Amounts, Amount
<1>3. Void([OriginalPrice |-> p.list]) /\ Void([OriginalPrice |-> 100 * p.list]) /\ Void([OriginalPrice |-> 1 * p.list])
  BY <1>0 DEF Void, Amounts, Amount
<1>4. \A unit : Void([UnitPrice |-> 100 * p.list, ChargeUnit |-> unit])
  BY <1>0 DEF Void, Amounts, Amount
<1>5. Void([TotalPrice |-> 100 * p.list]) /\ Void([TotalCost |-> p.list]) /\ Void([ProxyDailyPrice |-> p.list])
  BY <1>0 DEF Void, Amounts, Amount
<1>6. \A unit : Void(Totals(p, unit))
  BY DEF Void, Amounts, Amount, Totals
<1>7. \A unit : Void(Rates(p, unit))
  BY <1>1, <1>2, VoidPieces DEF Rates
<1>8. Void(Sale(p, 1)) /\ Void(Sale(p, 100))
  BY <1>1, <1>3, VoidPieces DEF Sale
<1>9. \A unit : Void(Trade(p, mode, unit))
  BY <1>1, <1>4, <1>5, VoidPieces DEF Trade
<1>10. Void([UnitPrice |-> p.list, DiscountPrice |-> p.paid, ChargeUnit |-> "HOUR"])
  BY DEF Void, Amounts, Amount
<1>11. Void(Along([UnitPrice |-> p.list, ChargeUnit |-> "HOUR"], IfReduced(p, "DiscountPrice", 1)))
  BY <1>1, <1>2, VoidPieces
<1>12. /\ Void(Along([TotalCost |-> p.list], IfReduced(p, "RealTotalCost", 1)))
       /\ Void(Along([OriginalPrice |-> 100 * p.list], IfReduced(p, "Price", 100)))
       /\ Void(Along([ProxyDailyPrice |-> p.list], IfReduced(p, "DiscountProxyDailyPrice", 1)))
  BY <1>1, <1>3, <1>5, VoidPieces
<1>13. /\ Void([Price |-> 100 * p.paid, HighPrecisionPrice |-> 100 * MicroPents * p.paid, AmountUnit |-> "microPent"])
       /\ Void([Price |-> 100 * p.paid]) /\ Void([UnitPrice |-> p.paid])
       /\ Void([TotalCost |-> p.paid, OriginalCost |-> p.list])
  <2>1. Void([Price |-> 0, HighPrecisionPrice |-> 0, AmountUnit |-> "microPent"])
    BY DEF Void, Amounts, Amount
  <2>2. Void([Price |-> 0]) /\ Void([UnitPrice |-> 0])
    BY DEF Void, Amounts, Amount
  <2>3. Void([TotalCost |-> 0, OriginalCost |-> 0])
    BY DEF Void, Amounts, Amount
  <2>4. 100 * MicroPents * p.paid = 0 /\ 100 * p.paid = 0
    BY SMT DEF MicroPents
  <2> QED
    BY <2>1, <2>2, <2>3, <2>4
<1> QED
  BY <1>6, <1>7, <1>8, <1>9, <1>10, <1>11, <1>12, <1>13, Zenon DEF MainFields

\* The same of a list of names.
LEMMA ZeroNames ==
    ASSUME NEW p, p.list = 0, p.paid = 0, NEW first
    PROVE  VoidBlock(NameList(p, first)) /\ IsList(NameList(p, first))
<1> DEFINE renew == [Operation |-> "renew", Price |-> 7 * p.list]
           new == Along([Operation |-> "new", Price |-> p.list], IfReduced(p, "RealPrice", 1))
<1>1. Void(renew)
  BY DEF Void, Amounts, Amount
<1>2. Void(new)
  <2>1. Void([Operation |-> "new", Price |-> p.list])
    BY DEF Void, Amounts, Amount
  <2>2. 1 * p.paid = 0
    OBVIOUS
  <2> QED
    BY <2>1, <2>2, VoidPieces DEF IfReduced
<1>3. NameList(p, first) \in {<<renew, new>>, <<new, renew>>}
  BY DEF NameList
<1> HIDE DEF renew, new
<1>4. Void([x \in {} |-> 0])
  BY DEF Void, Amount
<1> QED
  BY <1>1, <1>2, <1>3, <1>4 DEF VoidBlock, IsList, Part

LEMMA NamesAreList == \A p, first : IsList(NameList(p, first))
  BY DEF NameList, IsList

\* What is wrong with an answer leaves nothing to price.
LEMMA WrongAnswer ==
    ASSUME NEW q, NEW mode, NEW wrong \in {"refused", "empty", "zero"}, NEW reduced, NEW wrapped, NEW stated,
           NEW currency
    PROVE  LET a == TencentAnswer(q, mode, wrong, reduced, wrapped, stated, currency) IN
           NoPrice(a) /\ (q.product = "domain" => IsList(a.top) /\ IsList(a.wrapped))
<1> DEFINE p == IF wrong = "zero" THEN [list |-> 0, paid |-> 0, reduced |-> reduced]
                ELSE PriceOf(mode, Units(q), reduced)
           word == IF stated /\ q.product # "domain" THEN [Currency |-> currency] ELSE <<>>
           main == Only(MainPart(q), Along(MainFields(q, mode, p), word))
           block == IF wrong = "empty" THEN <<>>
                    ELSE IF q.product = "domain" THEN NameList(p, stated)
                    ELSE IF wrong = "zero" THEN main
                    ELSE Along(main, OtherParts(q, reduced))
           a == TencentAnswer(q, mode, wrong, reduced, wrapped, stated, currency)
<1>1. /\ a.errors = IF wrong = "refused" THEN {IF wrapped THEN "wrapped" ELSE "top"} ELSE {}
      /\ a.top = IF wrapped THEN <<>> ELSE block
      /\ a.wrapped = IF wrapped THEN block ELSE <<>>
  BY DEF TencentAnswer
<1>2. Void(word)
  BY VoidPieces
<1>3. wrong = "zero" => VoidBlock(main) /\ VoidBlock(NameList(p, stated))
  <2> SUFFICES ASSUME wrong = "zero" PROVE VoidBlock(main) /\ VoidBlock(NameList(p, stated))
    OBVIOUS
  <2>1. p.list = 0 /\ p.paid = 0
    OBVIOUS
  <2> HIDE DEF p, word
  <2>2. Void(Along(MainFields(q, mode, p), word))
    BY <1>2, <2>1, ZeroFields, VoidPieces
  <2> QED
    BY <2>1, <2>2, VoidPieces, ZeroNames
<1>4. wrong # "refused" => VoidBlock(block)
  BY <1>3, VoidPieces
<1>5. q.product = "domain" => IsList(block)
  <2>1. IsList(<<>>)
    BY DEF IsList
  <2> HIDE DEF p, main
  <2> QED
    BY <2>1, NamesAreList
<1> HIDE DEF block, a
<1>6. IsList(<<>>) /\ VoidBlock(<<>>)
  BY VoidPieces DEF IsList
<1>7. NoPrice(a)
  BY <1>1, <1>4, <1>6 DEF NoPrice, VoidAnswer
<1>8. q.product = "domain" => IsList(a.top) /\ IsList(a.wrapped)
  BY <1>1, <1>5, <1>6
<1> QED
  BY <1>7, <1>8 DEF a

(***************************************************************************)
(* Who a request is for.                                                   *)
(***************************************************************************)

TencentTypes ==
    {"tencentcloud_instance", "tencentcloud_cbs_storage", "tencentcloud_eip", "tencentcloud_clb_instance",
     "tencentcloud_mysql_instance", "tencentcloud_postgresql_instance", "tencentcloud_redis_instance",
     "tencentcloud_vpn_gateway", "tencentcloud_dc_gateway", "tencentcloud_mongodb_instance",
     "tencentcloud_mariadb_instance", "tencentcloud_cynosdb_cluster", "tencentcloud_lighthouse_instance",
     "tencentcloud_ecm_instance", "tencentcloud_sqlserver_instance", "tencentcloud_gaap_proxy",
     "tencentcloud_cwp_license_order", "tencentcloud_cloudhsm_instance", "tencentcloud_domain_registration"}
    \cup DCDBTypes

\* The modules of a request to Alibaba Cloud.
IsModule(m) == m.by \in {"Hour", "Day", "Usage"}
AreModules(modules) == IsFiniteSet(DOMAIN modules) /\ \A i \in DOMAIN modules : IsModule(modules[i])
ForAlibaba(requests) == \A q \in requests : q.provider = "alibaba" /\ AreModules(q.params)
For(provider, requests) == \A q \in requests : q.provider = provider
Another(requests) == \A q \in requests : q.provider = "aws" /\ q.product # "AmazonDynamoDB"

\* What any request to AWS says.
LEMMA AwsRequestSays ==
    ASSUME NEW required, NEW service, NEW r, NEW filters, NEW match, NEW quantity,
           NEW q \in AwsRequest(required, service, r, filters, match, quantity)
    PROVE  q.provider = "aws" /\ q.product = service /\ q.params.quantity = quantity
<1>1. CASE required
  <2>1. PICK location \in AwsLocation(r.region) :
            q = [provider |-> "aws", product |-> service, action |-> "", region |-> AwsRegionOrDefault(r.region),
                 params |-> [filters |-> filters \cup {<<"location", location>>},
                             match |-> match, quantity |-> quantity]]
    BY <1>1 DEF AwsRequest, When
  <2> QED
    BY <1>1, <2>1
<1>2. CASE ~required
  BY <1>2 DEF AwsRequest, When
<1> QED
  BY <1>1, <1>2

\* Each cloud has its own form of request.
LEMMA RequestsAreFor ==
    /\ \A required, product, action, r, params : For("tencent", Request(required, product, action, r, params))
    /\ \A required, product, r, modules :
          AreModules(modules) => ForAlibaba(AlibabaRequest(required, product, r, modules))
    /\ \A required, product, r, products : For("huawei", HuaweiRequest(required, product, r, products))
    /\ \A required, service, r, filters, match, quantity :
          service # "AmazonDynamoDB" => Another(AwsRequest(required, service, r, filters, match, quantity))
<1>1. \A required, product, action, r, params : For("tencent", Request(required, product, action, r, params))
  BY DEF For, Request, When
<1>2. \A required, product, r, modules :
          AreModules(modules) => ForAlibaba(AlibabaRequest(required, product, r, modules))
  BY DEF ForAlibaba, AlibabaRequest, When
<1>3. \A required, product, r, products : For("huawei", HuaweiRequest(required, product, r, products))
  BY DEF For, HuaweiRequest, When
<1>4. \A required, service, r, filters, match, quantity :
          service # "AmazonDynamoDB" => Another(AwsRequest(required, service, r, filters, match, quantity))
  <2> TAKE required, service, r, filters, match, quantity
  <2> HAVE service # "AmazonDynamoDB"
  <2>1. \A q \in AwsRequest(required, service, r, filters, match, quantity) :
            q.provider = "aws" /\ q.product = service
    BY AwsRequestSays
  <2> QED
    BY <2>1 DEF Another
<1> QED
  BY <1>1, <1>2, <1>3, <1>4

\* The requests of the mappers of Tencent Cloud.
LEMMA TencentAsks ==
    ASSUME NEW r
    PROVE  /\ For("tencent", CVMExtract(r)) /\ For("tencent", CBSExtract(r)) /\ For("tencent", EIPExtract(r))
           /\ For("tencent", CLBExtract(r)) /\ For("tencent", MySQLExtract(r)) /\ For("tencent", PostgresExtract(r))
           /\ For("tencent", RedisExtract(r)) /\ For("tencent", VPNExtract(r))
           /\ For("tencent", DirectConnectExtract(r)) /\ For("tencent", MongoExtract(r))
           /\ For("tencent", MariaDBExtract(r)) /\ For("tencent", CynosExtract(r))
           /\ For("tencent", LighthouseExtract(r)) /\ For("tencent", ECMExtract(r))
           /\ For("tencent", SQLServerExtract(r)) /\ For("tencent", DCDBExtract(r))
           /\ For("tencent", GAAPExtract(r)) /\ For("tencent", YunjingExtract(r))
           /\ For("tencent", CloudHSMExtract(r)) /\ For("tencent", DomainExtract(r))
<1>1. For("tencent", CVMExtract(r)) /\ For("tencent", CBSExtract(r)) /\ For("tencent", EIPExtract(r))
  BY RequestsAreFor, Zenon DEF CVMExtract, CBSExtract, EIPExtract
<1>2. For("tencent", CLBExtract(r)) /\ For("tencent", MySQLExtract(r)) /\ For("tencent", PostgresExtract(r))
  BY RequestsAreFor, Zenon DEF CLBExtract, MySQLExtract, PostgresExtract
<1>3. For("tencent", RedisExtract(r)) /\ For("tencent", VPNExtract(r)) /\ For("tencent", DirectConnectExtract(r))
  BY RequestsAreFor, Zenon DEF RedisExtract, VPNExtract, DirectConnectExtract
<1>4. For("tencent", MongoExtract(r)) /\ For("tencent", MariaDBExtract(r)) /\ For("tencent", CynosExtract(r))
  BY RequestsAreFor, Zenon DEF MongoExtract, MariaDBExtract, CynosExtract
<1>5. For("tencent", LighthouseExtract(r)) /\ For("tencent", ECMExtract(r)) /\ For("tencent", SQLServerExtract(r))
  BY RequestsAreFor, Zenon DEF LighthouseExtract, ECMExtract, SQLServerExtract
<1>6. For("tencent", DCDBExtract(r)) /\ For("tencent", GAAPExtract(r)) /\ For("tencent", YunjingExtract(r))
  BY RequestsAreFor, Zenon DEF DCDBExtract, GAAPExtract, YunjingExtract
<1>7. For("tencent", CloudHSMExtract(r)) /\ For("tencent", DomainExtract(r))
  BY RequestsAreFor, Zenon DEF CloudHSMExtract, DomainExtract
<1> QED
  BY <1>1, <1>2, <1>3, <1>4, <1>5, <1>6, <1>7

LEMMA SomeModules ==
    ASSUME NEW s, NEW n \in Nat, DOMAIN s = 1..n, \A i \in 1..n : IsModule(s[i])
    PROVE  AreModules(s)
  BY FS_Interval DEF AreModules

LEMMA OneModule ==
    ASSUME NEW a, IsModule(a)
    PROVE  AreModules(<<a>>) /\ AreModules(<<a>> \o <<>>)
<1> DEFINE one == <<a>>
<1>1. DOMAIN one = 1..1 /\ \A i \in 1..1 : IsModule(one[i])
  OBVIOUS
<1>2. one \in Seq({a})
  OBVIOUS
<1>3. one \o <<>> = one
  BY <1>2, ConcatEmptySeq
<1> HIDE DEF one
<1>4. AreModules(one)
  BY <1>1, SomeModules
<1> QED
  BY <1>3, <1>4 DEF one

LEMMA TwoModules ==
    ASSUME NEW a, NEW b, IsModule(a), IsModule(b)
    PROVE  AreModules(<<a, b>>) /\ AreModules(<<a>> \o <<b>>)
<1> DEFINE two == <<a, b>>
           joined == <<a>> \o <<b>>
<1>1. DOMAIN two = 1..2 /\ \A i \in 1..2 : IsModule(two[i])
  OBVIOUS
<1>2. <<a>> \in Seq({a, b}) /\ <<b>> \in Seq({a, b})
  OBVIOUS
<1>3. DOMAIN joined = 1..2 /\ joined[1] = a /\ joined[2] = b
  BY <1>2
<1>4. \A i \in 1..2 : IsModule(joined[i])
  BY <1>3
<1> HIDE DEF two, joined
<1>5. AreModules(two) /\ AreModules(joined)
  BY <1>1, <1>3, <1>4, SomeModules
<1> QED
  BY <1>5 DEF two, joined

\* The requests of the mappers of Alibaba Cloud.
LEMMA AlibabaAsks ==
    ASSUME NEW r
    PROVE  /\ ForAlibaba(AlibabaECSExtract(r)) /\ ForAlibaba(AlibabaDiskExtract(r))
           /\ ForAlibaba(AlibabaEIPExtract(r)) /\ ForAlibaba(AlibabaSLBExtract(r))
           /\ ForAlibaba(AlibabaRDSExtract(r)) /\ ForAlibaba(AlibabaRedisExtract(r))
           /\ ForAlibaba(AlibabaMongoDBExtract(r)) /\ ForAlibaba(AlibabaNATExtract(r))
           /\ ForAlibaba(AlibabaVPNExtract(r))
<1>1. /\ \A code, config : AreModules(<<AlibabaModule(code, "Hour", config)>>)
      /\ \A code, config : AreModules(<<AlibabaModule(code, "Day", config)>>)
      /\ \A code, config, other, what :
            AreModules(<<AlibabaModule(code, "Hour", config), AlibabaModule(other, "Hour", what)>>)
  <2>1. \A code, config : IsModule(AlibabaModule(code, "Hour", config)) /\ IsModule(AlibabaModule(code, "Day", config))
    BY DEF AlibabaModule, IsModule
  <2> QED
    BY <2>1, OneModule, TwoModules
<1>2. ForAlibaba(AlibabaECSExtract(r))
  <2> DEFINE type == Trim(Text(r, "instance_type"))
             os == IF Text(r, "image_id") \in WindowsImages THEN "windows" ELSE "linux"
             disk == Trim(Text(r, "system_disk_category"))
             machine == AlibabaModule("InstanceType", "Hour", <<type, os>>)
             volume == AlibabaModule("SystemDisk", "Hour", <<disk, OrNumber(Number(r, "system_disk_size"), 40)>>)
             modules == <<machine>> \o IF disk = "" THEN <<>> ELSE <<volume>>
  <2>1. AlibabaECSExtract(r) = AlibabaRequest(type # "", "ecs", r, modules)
    BY Zenon DEF AlibabaECSExtract
  <2>2. IsModule(machine) /\ IsModule(volume)
    BY DEF AlibabaModule, IsModule
  <2> HIDE DEF machine, volume, type, disk
  <2>3. AreModules(<<machine>> \o <<>>) /\ AreModules(<<machine>> \o <<volume>>)
    BY <2>2, OneModule, TwoModules
  <2>4. AreModules(modules)
    BY <2>3
  <2> HIDE DEF modules
  <2>5. \A required : ForAlibaba(AlibabaRequest(required, "ecs", r, modules))
    BY <2>4, RequestsAreFor
  <2> QED
    BY <2>1, <2>5, Zenon
<1>3. ForAlibaba(AlibabaDiskExtract(r)) /\ ForAlibaba(AlibabaRedisExtract(r))
  BY <1>1, RequestsAreFor, Zenon DEF AlibabaDiskExtract, AlibabaRedisExtract
<1>4. ForAlibaba(AlibabaMongoDBExtract(r)) /\ ForAlibaba(AlibabaNATExtract(r)) /\ ForAlibaba(AlibabaVPNExtract(r))
  BY <1>1, RequestsAreFor, Zenon DEF AlibabaMongoDBExtract, AlibabaNATExtract, AlibabaVPNExtract
<1>5. ForAlibaba(AlibabaRDSExtract(r))
  BY <1>1, RequestsAreFor, Zenon DEF AlibabaRDSExtract
<1>6. ForAlibaba(AlibabaSLBExtract(r))
  <2> DEFINE modules ==
               <<AlibabaModule("LoadBalancerSpec", "Hour", <<OrText(Trim(Text(r, "specification")), "slb.s1.small")>>),
                 AlibabaModule("InternetTrafficOut", "Usage", <<0>>),
                 AlibabaModule("InstanceRent", "Hour", <<1>>),
                 AlibabaModule("Bandwidth", "Hour", <<OrNumber(Number(r, "bandwidth"), 1) * 1024>>)>>
  <2>1. AlibabaSLBExtract(r) = AlibabaRequest(TRUE, "slb", r, modules)
    BY SMT DEF AlibabaSLBExtract
  <2>2. DOMAIN modules = 1..4
    BY SMT
  <2>3. \A i \in 1..4 : IsModule(modules[i])
    BY SMT DEF AlibabaModule, IsModule
  <2> HIDE DEF modules
  <2> QED
    BY <2>1, <2>2, <2>3, SomeModules, RequestsAreFor
<1>7. ForAlibaba(AlibabaEIPExtract(r))
  <2> DEFINE traffic == Up(Text(r, "internet_charge_type")) = "PAYBYTRAFFIC"
             modules ==
               <<AlibabaModule("Bandwidth", "Day", <<OrNumber(Number(r, "bandwidth"), 5) * 1024>>),
                 AlibabaModule("InternetChargeType", "Usage", <<IF traffic THEN 1 ELSE 0>>),
                 AlibabaModule("ISP", "Hour", <<"BGP">>)>>
  <2>1. AlibabaEIPExtract(r) = AlibabaRequest(TRUE, "eip", r, modules)
    BY SMT DEF AlibabaEIPExtract
  <2>2. DOMAIN modules = 1..3
    BY SMT
  <2>3. \A i \in 1..3 : IsModule(modules[i])
    BY SMT DEF AlibabaModule, IsModule
  <2> HIDE DEF modules
  <2> QED
    BY <2>1, <2>2, <2>3, SomeModules, RequestsAreFor
<1> QED
  BY <1>2, <1>3, <1>4, <1>5, <1>6, <1>7

\* The requests of the mappers of Huawei Cloud.
LEMMA HuaweiAsks ==
    ASSUME NEW r
    PROVE  /\ For("huawei", HuaweiECSExtract(r)) /\ For("huawei", HuaweiEVSExtract(r))
           /\ For("huawei", HuaweiEIPExtract(r)) /\ For("huawei", HuaweiELBExtract(r))
           /\ For("huawei", HuaweiNATExtract(r)) /\ For("huawei", HuaweiRDSExtract(r))
           /\ For("huawei", HuaweiDCSExtract(r)) /\ For("huawei", HuaweiDDSExtract(r))
           /\ For("huawei", HuaweiCCEExtract(r))
<1>1. /\ For("huawei", HuaweiECSExtract(r)) /\ For("huawei", HuaweiEVSExtract(r))
      /\ For("huawei", HuaweiEIPExtract(r))
  BY RequestsAreFor, Zenon DEF HuaweiECSExtract, HuaweiEVSExtract, HuaweiEIPExtract
<1>2. \A product, kind, attribute, default : For("huawei", HuaweiOne(product, r, kind, attribute, default))
  BY RequestsAreFor, Zenon DEF HuaweiOne
<1> QED
  BY <1>1, <1>2 DEF HuaweiELBExtract, HuaweiNATExtract, HuaweiRDSExtract, HuaweiDCSExtract,
                    HuaweiDDSExtract, HuaweiCCEExtract

\* The requests of the mappers of AWS but the one of tables.
LEMMA AwsAsks ==
    ASSUME NEW r
    PROVE  /\ Another(AwsInstanceExtract(r)) /\ Another(AwsEBSExtract(r)) /\ Another(AwsDBExtract(r))
           /\ Another(AwsElastiCacheExtract(r)) /\ Another(AwsLBExtract(r)) /\ Another(AwsELBExtract(r))
           /\ Another(AwsRDSClusterExtract(r)) /\ Another(AwsRedshiftExtract(r))
           /\ Another(AwsOpenSearchExtract(r)) /\ Another(AwsDocDBExtract(r)) /\ Another(AwsNeptuneExtract(r))
           /\ Another(AwsMemoryDBExtract(r)) /\ Another(AwsMQExtract(r)) /\ Another(AwsMSKExtract(r))
           /\ Another(AwsEKSExtract(r)) /\ Another(AwsNATExtract(r))
<1>1. Another({})
  BY DEF Another
<1>2. /\ "AmazonEC2" # "AmazonDynamoDB" /\ "AmazonRDS" # "AmazonDynamoDB" /\ "AmazonDocDB" # "AmazonDynamoDB"
      /\ "AmazonNeptune" # "AmazonDynamoDB" /\ "AmazonElastiCache" # "AmazonDynamoDB"
      /\ "AWSELB" # "AmazonDynamoDB" /\ "AmazonRedshift" # "AmazonDynamoDB" /\ "AmazonES" # "AmazonDynamoDB"
      /\ "MemoryDB" # "AmazonDynamoDB" /\ "AmazonMQ" # "AmazonDynamoDB" /\ "AmazonMSK" # "AmazonDynamoDB"
      /\ "AmazonEKS" # "AmazonDynamoDB"
  OBVIOUS
<1>3. \A required, family : Another(AwsELBRequest(required, r, family))
  BY <1>2, RequestsAreFor, Zenon DEF AwsELBRequest
<1>4. Another(AwsLBExtract(r)) /\ Another(AwsELBExtract(r))
  BY <1>1, <1>3, Zenon DEF AwsLBExtract, AwsELBExtract
<1>5. \A class, service, filters : service # "AmazonDynamoDB" => Another(AwsRDSRequest(class, service, r, filters))
  BY RequestsAreFor, Zenon DEF AwsRDSRequest
<1>6. Another(AwsDBExtract(r))
  BY <1>1, <1>2, <1>5, Zenon DEF AwsDBExtract, When
<1>7. Another(AwsRDSClusterExtract(r)) /\ Another(AwsDocDBExtract(r)) /\ Another(AwsNeptuneExtract(r))
  BY <1>2, <1>5, Zenon DEF AwsRDSClusterExtract, AwsDocDBExtract, AwsNeptuneExtract
<1>8. Another(AwsInstanceExtract(r)) /\ Another(AwsEBSExtract(r)) /\ Another(AwsElastiCacheExtract(r))
  BY <1>2, RequestsAreFor, Zenon DEF AwsInstanceExtract, AwsEBSExtract, AwsElastiCacheExtract
<1>9. Another(AwsRedshiftExtract(r)) /\ Another(AwsOpenSearchExtract(r)) /\ Another(AwsMemoryDBExtract(r))
  BY <1>2, RequestsAreFor, Zenon DEF AwsRedshiftExtract, AwsOpenSearchExtract, AwsMemoryDBExtract
<1>10. Another(AwsMQExtract(r)) /\ Another(AwsMSKExtract(r)) /\ Another(AwsEKSExtract(r)) /\ Another(AwsNATExtract(r))
  BY <1>2, RequestsAreFor, Zenon DEF AwsMQExtract, AwsMSKExtract, AwsEKSExtract, AwsNATExtract
<1> QED
  BY <1>4, <1>6, <1>7, <1>8, <1>9, <1>10

\* Capacity that is bought by the table is some capacity.
LEMMA TableAsks ==
    ASSUME NEW r, NEW q \in AwsDynamoDBExtract(r)
    PROVE  /\ q.provider = "aws" /\ q.product = "AmazonDynamoDB"
           /\ q.params.quantity[1] > 0 \/ q.params.quantity[2] > 0
<1> DEFINE reads == Number(r, "read_capacity")
           writes == Number(r, "write_capacity")
           required == Text(r, "billing_mode") \in {"", "PROVISIONED"} /\ (reads > 0 \/ writes > 0)
           filters == {<<"groupDescription", "DynamoDB Provisioned">>}
<1>1. q \in AwsRequest(required, "AmazonDynamoDB", r, filters, "", <<reads, writes>>)
  BY Zenon DEF AwsDynamoDBExtract
<1> HIDE DEF required, filters, reads, writes
<1>2. required /\ q.provider = "aws" /\ q.product = "AmazonDynamoDB" /\ q.params.quantity = <<reads, writes>>
  <2>1. required
    BY <1>1 DEF AwsRequest, When
  <2>2. q \in AwsRequest(TRUE, "AmazonDynamoDB", r, filters, "", <<reads, writes>>)
    BY <1>1, <2>1 DEF AwsRequest, When
  <2>3. q.provider = "aws" /\ q.product = "AmazonDynamoDB" /\ q.params.quantity = <<reads, writes>>
    BY <2>2, AwsRequestSays, Zenon
  <2> QED
    BY <2>1, <2>3
<1>3. reads > 0 \/ writes > 0
  BY <1>2 DEF required
<1> QED
  BY <1>2, <1>3

\* The type of a resource tells whom its request is for.
LEMMA WhoIsAsked ==
    ASSUME NEW r, NEW q \in Extract(r)
    PROVE  /\ q.provider = "tencent" => r.type \in TencentTypes
           /\ q.provider = "aws" => (q.product = "AmazonDynamoDB" <=> r.type = "aws_dynamodb_table")
           /\ r.type = "aws_dynamodb_table" => q.params.quantity[1] > 0 \/ q.params.quantity[2] > 0
           /\ r.type = "tencentcloud_domain_registration" => q.product = "domain"
           /\ q.provider = "alibaba" => AreModules(q.params)
<1>1. CASE r.type \in TencentTypes
  <2>1. q.provider = "tencent"
    <3>1. For("tencent", Extract(r))
      BY <1>1, TencentAsks, SMTT(30) DEF Extract, TencentTypes, DCDBTypes
    <3> QED
      BY <3>1 DEF For
  <2>2. r.type # "aws_dynamodb_table"
    BY <1>1 DEF TencentTypes, DCDBTypes
  <2>3. r.type = "tencentcloud_domain_registration" => q.product = "domain"
    <3>1. \A required, action, params : \A d \in Request(required, "domain", action, r, params) : d.product = "domain"
      BY DEF Request, When
    <3>2. \A d \in DomainExtract(r) : d.product = "domain"
      BY <3>1, Zenon DEF DomainExtract
    <3> QED
      BY <3>2 DEF Extract, DCDBTypes
  <2> QED
    BY <1>1, <2>1, <2>2, <2>3
<1>2. CASE r.type = "aws_dynamodb_table"
  <2>1. q \in AwsDynamoDBExtract(r)
    BY <1>2 DEF Extract, DCDBTypes
  <2> QED
    BY <1>2, <2>1, TableAsks
<1>3. CASE r.type \notin TencentTypes /\ r.type # "aws_dynamodb_table"
  <2>1. ForAlibaba(Extract(r)) \/ For("huawei", Extract(r)) \/ Another(Extract(r))
    BY <1>3, AlibabaAsks, HuaweiAsks, AwsAsks DEF Extract, TencentTypes, For, ForAlibaba
  <2> QED
    BY <1>3, <2>1 DEF For, ForAlibaba, Another, TencentTypes
<1> QED
  BY <1>1, <1>2, <1>3

(***************************************************************************)
(* Alibaba Cloud, Huawei Cloud and AWS.                                    *)
(***************************************************************************)

\* Modules that cost nothing have no price.
LEMMA AlibabaNothing ==
    ASSUME NEW a, IsFiniteSet(DOMAIN a.modules), \A i \in DOMAIN a.modules : ModuleCost(a.modules[i]) = 0
    PROVE  AlibabaPrice(a) = {}
<1> DEFINE costs == [i \in DOMAIN a.modules |-> ModuleCost(a.modules[i])]
<1>1. costs \in [DOMAIN a.modules -> Int] /\ \A i \in DOMAIN a.modules : costs[i] = 0
  OBVIOUS
<1> HIDE DEF costs
<1>2. SumFunction(costs) = 0
  BY <1>1, SumZero
<1> QED
  BY <1>2 DEF AlibabaPrice, When, costs

\* An answer of Alibaba Cloud without modules, or whose modules cost nothing.
LEMMA AlibabaRefuses ==
    ASSUME NEW r, NEW q, AreModules(q.params), NEW wrong \in {"refused", "empty", "zero"}, NEW reduced,
           NEW stated, NEW currency, NEW cur,
           wrong = "zero" => r.type # "alicloud_eip"
    PROVE  AlibabaParse(r, q, AlibabaAnswer(q, wrong, reduced, stated, currency), cur) = <<>>
<1> DEFINE a == AlibabaAnswer(q, wrong, reduced, stated, currency)
<1>1. CASE wrong \in {"refused", "empty"}
  <2>1. a.modules = <<>>
    BY <1>1 DEF AlibabaAnswer
  <2> HIDE DEF a
  <2>2. DOMAIN a.modules = {}
    BY <2>1
  <2>3. AlibabaPrice(a) = {}
    BY <2>2, FS_EmptySet, AlibabaNothing
  <2>4. AlibabaHourlyParse(q, a, cur) = <<>> /\ AlibabaNATParse(q, a, cur) = <<>>
    BY <2>3 DEF AlibabaHourlyParse, AlibabaNATParse
  <2>5. AlibabaEIPParse(q, a, cur) = AlibabaNATParse(q, a, cur)
    BY <2>2 DEF AlibabaEIPParse
  <2> QED
    BY <2>4, <2>5 DEF AlibabaParse, a
<1>2. CASE wrong = "zero"
  <2>1. DOMAIN a.modules = DOMAIN q.params
    BY <1>2 DEF AlibabaAnswer
  <2>2. ASSUME NEW i \in DOMAIN q.params PROVE ModuleCost(a.modules[i]) = 0
    <3>1. \A mode \in {"hour", "day", "gb"} : PriceOf(mode, 0, reduced).list = 0 /\ PriceOf(mode, 0, reduced).paid = 0
      BY DEF PriceOf, Listed, Reduced
    <3>2. q.params[i].by \in {"Hour", "Day", "Usage"}
      BY <2>2 DEF AreModules, IsModule
    <3>3. a.modules[i].after = 0 /\ a.modules[i].original = 0
      BY <1>2, <2>2, <3>1, <3>2 DEF AlibabaAnswer
    <3> HIDE DEF a
    <3> QED
      BY <3>3 DEF ModuleCost, Yuan
  <2> HIDE DEF a
  <2>3. AlibabaPrice(a) = {}
    BY <2>1, <2>2, AlibabaNothing DEF AreModules
  <2>4. AlibabaHourlyParse(q, a, cur) = <<>> /\ AlibabaNATParse(q, a, cur) = <<>>
    BY <2>3 DEF AlibabaHourlyParse, AlibabaNATParse
  <2> QED
    BY <1>2, <2>4 DEF AlibabaParse, a
<1> QED
  BY <1>1, <1>2

\* An answer of Huawei Cloud without amounts, or of amounts of 0.
LEMMA HuaweiRefuses ==
    ASSUME NEW r, NEW q, NEW wrong \in {"refused", "empty", "zero"}, NEW reduced, NEW stated, NEW currency, NEW cur
    PROVE  HuaweiParse(r, q, HuaweiAnswer(q, wrong, reduced, stated, currency), cur) = <<>>
<1> DEFINE a == HuaweiAnswer(q, wrong, reduced, stated, currency)
<1>1. PriceOf("hour", 0, reduced).list = 0 /\ PriceOf("hour", 0, reduced).paid = 0
  BY DEF PriceOf, Listed, Reduced
<1>2. a.amount \subseteq {0} /\ a.official \subseteq {0}
  BY <1>1 DEF HuaweiAnswer, When
<1> HIDE DEF a
<1>3. HuaweiPrice(a) = {}
  BY <1>2 DEF HuaweiPrice
<1>4. HuaweiHourlyParse(q, a, cur) = <<>>
  BY <1>3 DEF HuaweiHourlyParse
<1> QED
  BY <1>3, <1>4 DEF HuaweiParse, HuaweiEIPParse, a

\* A document without a price, or one that no usage finds.
Priceless(document, usages) ==
    \/ document.prices = {0}
    \/ document.usage = {} /\ "" \notin usages

\* Documents without a price have none.
LEMMA AwsNothing ==
    ASSUME NEW docs, NEW usages, \A i \in DOMAIN docs : Priceless(docs[i], usages), NEW match \in usages
    PROVE  AwsPrices(docs, match) = {} /\ \A count : AwsHourly(docs, match, count) = {}
<1>1. {i \in Matching(docs, match) : \E p \in docs[i].prices : p > 0} = {}
  <2>1. ASSUME NEW i \in Matching(docs, match) PROVE docs[i].prices = {0}
    BY DEF Matching, Priceless
  <2>2. \A p \in {0} : ~(p > 0)
    OBVIOUS
  <2> QED
    BY <2>1, <2>2, Zenon
<1>2. AwsPrices(docs, match) = {}
  BY <1>1 DEF AwsPrices
<1> QED
  BY <1>2 DEF AwsHourly

\* The usages a mapper looks for.
Usages(q) ==
    IF q.product = "AmazonDynamoDB" THEN {"ReadCapacityUnit-Hrs", "WriteCapacityUnit-Hrs"} ELSE {q.params.match}

\* A list that is empty, or whose prices are all 0.
LEMMA AwsListIsPriceless ==
    ASSUME NEW q, NEW wrong \in {"empty", "zero"}
    PROVE  \E S : AwsList(q, wrong) \in Seq(S) /\ \A d \in S : Priceless(d, Usages(q))
<1>1. CASE wrong = "empty"
  <2>1. AwsList(q, wrong) = <<>>
    BY <1>1 DEF AwsList
  <2>2. AwsList(q, wrong) \in Seq({})
    BY <2>1
  <2> QED
    BY <2>2
<1>2. CASE wrong = "zero"
  <2> DEFINE twice(condition) == IF condition THEN 2 ELSE 1
             price == Reduced[IF q.params.match = "EBS:VolumeUsage" THEN "month" ELSE "hour"]
                      * twice(<<"deploymentOption", "Multi-AZ">> \in q.params.filters)
                      * twice(<<"location", "us-east-1">> \notin q.params.filters)
             document(usage, amount) == [usage |-> {usage}, prices |-> {amount}]
             wanted == IF q.product = "AmazonDynamoDB" THEN <<"ReadCapacityUnit-Hrs", "WriteCapacityUnit-Hrs">>
                       ELSE <<q.params.match>>
             priced == [i \in DOMAIN wanted |-> document(wanted[i], IF wrong = "zero" THEN 0 ELSE price)]
             free == document(wanted[1], 0)
             other == [usage |-> {}, prices |-> {5}]
             F == {document(wanted[i], 0) : i \in DOMAIN wanted}
  <2>1. AwsList(q, wrong) = IF wanted = <<"">> THEN <<free>> \o priced ELSE <<other, free>> \o priced
    BY <1>2, Zenon DEF AwsList
  <2>2. DOMAIN wanted = 1..Len(wanted) /\ Len(wanted) \in {1, 2} /\ 1 \in DOMAIN wanted
    <3>1. CASE q.product = "AmazonDynamoDB"
      <4>1. wanted = <<"ReadCapacityUnit-Hrs", "WriteCapacityUnit-Hrs">>
        BY <3>1
      <4> HIDE DEF wanted
      <4> QED
        BY <4>1
    <3>2. CASE q.product # "AmazonDynamoDB"
      <4>1. wanted = <<q.params.match>>
        BY <3>2
      <4> HIDE DEF wanted
      <4> QED
        BY <4>1
    <3> QED
      BY <3>1, <3>2
  <2>3. \A d \in F : d.prices = {0}
    OBVIOUS
  <2>4. wanted # <<"">> => "" \notin Usages(q)
    BY DEF Usages
  <2>5. priced = [i \in DOMAIN wanted |-> document(wanted[i], 0)]
    BY <1>2
  <2> HIDE DEF priced, wanted
  <2>6. free \in F
    BY <2>2
  <2>7. priced \in [1..Len(wanted) -> F]
    BY <2>2, <2>5
  <2> HIDE DEF F, free, document
  <2>8. priced \in Seq(F) /\ <<free>> \in Seq(F)
    BY <2>2, <2>6, <2>7
  <2>9. CASE wanted = <<"">>
    <3>1. AwsList(q, wrong) \in Seq(F)
      BY <2>1, <2>8, <2>9, ConcatProperties
    <3> QED
      BY <2>3, <3>1 DEF Priceless
  <2>10. CASE wanted # <<"">>
    <3> DEFINE S == F \cup {other}
    <3>1. other.usage = {}
      OBVIOUS
    <3> HIDE DEF other
    <3>2. priced \in Seq(S) /\ <<other, free>> \in Seq(S)
      BY <2>2, <2>6, <2>7
    <3>3. AwsList(q, wrong) \in Seq(S)
      BY <2>1, <2>10, <3>2, ConcatProperties
    <3>4. \A d \in S : Priceless(d, Usages(q))
      BY <2>3, <2>4, <2>10, <3>1 DEF Priceless
    <3> QED
      BY <3>3, <3>4
  <2> QED
    BY <2>9, <2>10
<1> QED
  BY <1>1, <1>2

\* A list turned around, and what is gathered of it, has no other documents.
LEMMA GatheredFromList ==
    ASSUME NEW S, NEW s \in Seq(S), NEW list \in Permuted(s), NEW ends \in PageEnds(Len(list)),
           NEW docs \in AwsQuery(list, ends)
    PROVE  docs \in Seq(S)
<1>1. list \in Seq(S)
  <2>1. Reverse(s) \in Seq(S)
    <3>1. Reverse(s) \in [1..Len(s) -> S] /\ Len(s) \in Nat
      BY DEF Reverse
    <3> QED
      BY <3>1
  <2> QED
    BY <2>1 DEF Permuted
<1>2. CASE docs = list
  BY <1>1, <1>2
<1>3. CASE docs # list
  <2>1. ends[Len(ends)] = Len(list)
    <3>1. CASE \E k : ends = <<k, Len(list)>>
      BY <3>1
    <3>2. CASE ends = <<Len(list)>>
      BY <3>2
    <3> QED
      BY <3>1, <3>2 DEF PageEnds
  <2>2. docs = SubSeq(list, 1, MaxResults) /\ ends[Len(ends)] >= MaxResults
    BY <1>3 DEF AwsQuery, When
  <2>3. MaxResults \in 1..Len(list)
    BY <1>1, <2>1, <2>2, MaxResultsIsPositive
  <2> QED
    BY <1>1, <2>2, <2>3, SubSeqProperties
<1> QED
  BY <1>2, <1>3

\* The mappers of AWS find no price in it.
LEMMA AwsRefuses ==
    ASSUME NEW r, NEW q \in Extract(r), q.provider = "aws", NEW wrong \in {"empty", "zero"},
           NEW list \in Permuted(AwsList(q, wrong)), NEW ends \in PageEnds(Len(list)),
           NEW docs \in AwsQuery(list, ends)
    PROVE  AwsParse(r, q, docs) = {}
<1>1. PICK S : AwsList(q, wrong) \in Seq(S) /\ \A d \in S : Priceless(d, Usages(q))
  BY AwsListIsPriceless
<1>2. docs \in Seq(S)
  BY <1>1, GatheredFromList
<1>3. \A i \in DOMAIN docs : Priceless(docs[i], Usages(q))
  BY <1>1, <1>2
<1>4. \A match \in Usages(q) : AwsPrices(docs, match) = {} /\ \A count : AwsHourly(docs, match, count) = {}
  BY <1>3, AwsNothing
<1>5. CASE r.type = "aws_dynamodb_table"
  <2>1. q.product = "AmazonDynamoDB" /\ (q.params.quantity[1] > 0 \/ q.params.quantity[2] > 0)
    BY <1>5, WhoIsAsked
  <2>2. "ReadCapacityUnit-Hrs" \in Usages(q) /\ "WriteCapacityUnit-Hrs" \in Usages(q)
    BY <2>1 DEF Usages
  <2>3. AwsDynamoDBParse(q, docs) = {}
    BY <1>4, <2>1, <2>2 DEF AwsDynamoDBParse
  <2> QED
    BY <1>5, <2>3 DEF AwsParse
<1>6. CASE r.type # "aws_dynamodb_table"
  <2>1. q.params.match \in Usages(q)
    BY <1>6, WhoIsAsked DEF Usages
  <2>2. AwsEBSParse(q, docs) = {} /\ AwsHourlyParse(q, docs) = {}
    BY <1>4, <2>1 DEF AwsEBSParse, AwsHourlyParse
  <2> QED
    BY <1>6, <2>2 DEF AwsParse
<1> QED
  BY <1>5, <1>6

\* The mappers of Tencent Cloud find no price in a faulty answer.
LEMMA TencentRefuses ==
    ASSUME NEW r, NEW q \in Extract(r), q.provider = "tencent", NEW mode, NEW wrong \in {"refused", "empty", "zero"},
           NEW reduced, NEW wrapped, NEW stated, NEW currency, NEW cur
    PROVE  TencentParse(r, q, TencentAnswer(q, mode, wrong, reduced, wrapped, stated, currency), cur) = <<>>
<1> DEFINE a == TencentAnswer(q, mode, wrong, reduced, wrapped, stated, currency)
<1>1. NoPrice(a) /\ (q.product = "domain" => IsList(a.top) /\ IsList(a.wrapped))
  BY WrongAnswer
<1>2. r.type \in TencentTypes /\ (r.type = "tencentcloud_domain_registration" => q.product = "domain")
  BY WhoIsAsked
<1> HIDE DEF a
<1>3. r.type = "tencentcloud_domain_registration" => DomainParse(q, a, cur) = <<>>
  BY <1>1, <1>2, DomainIsRefused
<1>4. TencentParse(r, q, a, cur) = <<>>
  BY <1>1, <1>2, <1>3, SimpleParses, DatabaseParses, LineParses DEF TencentParse, TencentTypes, DCDBTypes
<1> QED
  BY <1>4 DEF a

(***************************************************************************)
(* No price is made of an answer that has none.                            *)
(***************************************************************************)

\* The only answers a price is made of.
Priceable == fault \in {"none", "cut"} \/ (fault = "zero" /\ plan.type = "alicloud_eip")

\* The request is the mapper's own, and the mapper refuses an answer without
\* a price before it is read.
QuoteInv ==
    /\ stage \in {"asked", "answered"} => request \in Extract(plan)
    /\ stage = "answered" =>
           Priceable \/ Parse(plan, request, answer, ExpectedCurrencyFor(request.provider)) = {}
    /\ stage = "priced" => Priceable

\* The steps keep the invariant.
LEMMA AskKeeps == QuoteInv /\ Ask => QuoteInv'
<1> SUFFICES ASSUME QuoteInv, Ask PROVE QuoteInv'
  OBVIOUS
<1>1. stage' = "skipped" \/ (stage' = "asked" /\ request' \in Extract(plan))
  BY DEF Ask, Skip
<1>2. plan' = plan
  BY DEF Ask
<1> QED
  BY <1>1, <1>2 DEF QuoteInv

LEMMA TencentAnswerKeeps == QuoteInv /\ AnswerTencent => QuoteInv'
<1> SUFFICES ASSUME QuoteInv, AnswerTencent PROVE QuoteInv'
  OBVIOUS
<1>1. request \in Extract(plan) /\ request.provider = "tencent"
  BY DEF QuoteInv, AnswerTencent
<1>2. PICK mode \in Understood(request), wrong \in Faults, reduced \in BOOLEAN, wrapped \in BOOLEAN,
           stated \in BOOLEAN :
        /\ answer' = TencentAnswer(request, mode, wrong, reduced, wrapped, stated, Due(reduced).currency)
        /\ Answered(wrong, reduced)
  BY Zenon DEF AnswerTencent
<1>3. /\ stage' = "answered" /\ fault' = wrong /\ plan' = plan /\ request' = request /\ site' = site
  BY <1>2 DEF Answered
<1>4. wrong # "none" => TencentParse(plan, request, answer', ExpectedCurrencyFor(request.provider)) = <<>>
  BY <1>1, <1>2, TencentRefuses DEF Faults
<1>5. Priceable' \/ Parse(plan, request, answer', ExpectedCurrencyFor(request.provider)) = {}
  BY <1>1, <1>3, <1>4 DEF Priceable, Parse
<1> QED
  BY <1>1, <1>3, <1>5 DEF QuoteInv, ExpectedCurrencyFor

LEMMA BssAnswerKeeps == QuoteInv /\ AnswerBss => QuoteInv'
<1> SUFFICES ASSUME QuoteInv, AnswerBss PROVE QuoteInv'
  OBVIOUS
<1>1. request \in Extract(plan) /\ request.provider \in {"alibaba", "huawei"}
  BY DEF QuoteInv, AnswerBss
<1>2. PICK wrong \in Faults, reduced \in BOOLEAN, stated \in BOOLEAN :
        /\ answer' = IF request.provider = "alibaba"
                     THEN AlibabaAnswer(request, wrong, reduced, stated, Due(reduced).currency)
                     ELSE HuaweiAnswer(request, wrong, reduced, stated, Due(reduced).currency)
        /\ Answered(wrong, reduced)
  BY Zenon DEF AnswerBss
<1>3. /\ stage' = "answered" /\ fault' = wrong /\ plan' = plan /\ request' = request /\ site' = site
  BY <1>2 DEF Answered
<1>4. CASE request.provider = "alibaba"
  <2>1. wrong = "none" \/ (wrong = "zero" /\ plan.type = "alicloud_eip")
        \/ AlibabaParse(plan, request, answer', ExpectedCurrencyFor(request.provider)) = <<>>
    BY <1>1, <1>2, <1>4, WhoIsAsked, AlibabaRefuses DEF Faults
  <2>2. Priceable' \/ Parse(plan, request, answer', ExpectedCurrencyFor(request.provider)) = {}
    BY <1>3, <1>4, <2>1 DEF Priceable, Parse
  <2> QED
    BY <1>1, <1>3, <2>2 DEF QuoteInv, ExpectedCurrencyFor
<1>5. CASE request.provider = "huawei"
  <2>1. wrong = "none" \/ HuaweiParse(plan, request, answer', ExpectedCurrencyFor(request.provider)) = <<>>
    BY <1>1, <1>2, <1>5, HuaweiRefuses DEF Faults
  <2>2. Priceable' \/ Parse(plan, request, answer', ExpectedCurrencyFor(request.provider)) = {}
    BY <1>3, <1>5, <2>1 DEF Priceable, Parse
  <2> QED
    BY <1>1, <1>3, <2>2 DEF QuoteInv, ExpectedCurrencyFor
<1> QED
  BY <1>1, <1>4, <1>5

LEMMA AwsAnswerKeeps == QuoteInv /\ AnswerAws => QuoteInv'
<1> SUFFICES ASSUME QuoteInv, AnswerAws PROVE QuoteInv'
  OBVIOUS
<1>1. request \in Extract(plan) /\ request.provider = "aws"
  BY DEF QuoteInv, AnswerAws
<1>2. PICK wrong \in Faults \ {"refused"} : \E list \in Permuted(AwsList(request, wrong)) :
        \E ends \in PageEnds(Len(list)) : \E docs \in AwsQuery(list, ends) :
            answer' = docs /\ Answered(IF Len(docs) < Len(list) THEN "cut" ELSE wrong, TRUE)
  BY Zenon DEF AnswerAws
<1>3. PICK list \in Permuted(AwsList(request, wrong)) : \E ends \in PageEnds(Len(list)) :
        \E docs \in AwsQuery(list, ends) :
            answer' = docs /\ Answered(IF Len(docs) < Len(list) THEN "cut" ELSE wrong, TRUE)
  BY <1>2
<1>4. PICK ends \in PageEnds(Len(list)) : \E docs \in AwsQuery(list, ends) :
            answer' = docs /\ Answered(IF Len(docs) < Len(list) THEN "cut" ELSE wrong, TRUE)
  BY <1>3
<1>5. PICK docs \in AwsQuery(list, ends) :
        answer' = docs /\ Answered(IF Len(docs) < Len(list) THEN "cut" ELSE wrong, TRUE)
  BY <1>4
<1>6. /\ stage' = "answered" /\ fault' \in {"cut", wrong} /\ plan' = plan /\ request' = request /\ site' = site
  BY <1>5 DEF Answered
<1>7. wrong # "none" => AwsParse(plan, request, answer') = {}
  BY <1>1, <1>5, AwsRefuses DEF Faults
<1>8. Priceable' \/ Parse(plan, request, answer', ExpectedCurrencyFor(request.provider)) = {}
  BY <1>1, <1>6, <1>7 DEF Priceable, Parse
<1> QED
  BY <1>1, <1>6, <1>8 DEF QuoteInv, ExpectedCurrencyFor

LEMMA ReadKeeps == QuoteInv /\ Read => QuoteInv'
<1> SUFFICES ASSUME QuoteInv, Read PROVE QuoteInv'
  OBVIOUS
<1>1. \/ stage' = "skipped"
      \/ stage' = "priced" /\ Parse(plan, request, answer, ExpectedCurrencyFor(request.provider)) # {}
  BY DEF Read, Skip
<1>2. stage = "answered" /\ plan' = plan /\ fault' = fault
  BY DEF Read
<1> QED
  BY <1>1, <1>2 DEF QuoteInv, Priceable

\* An answer that is an error, an empty one and one whose prices are all 0
\* give no price: every mapper refuses it, whatever the resource.
THEOREM FaultsAreNeverPriced == Spec => []NoPriceFromFaults
<1>1. Init => QuoteInv
  BY DEF Init, QuoteInv
<1>2. QuoteInv /\ [Next]_vars => QuoteInv'
  <2> SUFFICES ASSUME QuoteInv, [Next]_vars PROVE QuoteInv'
    OBVIOUS
  <2>1. CASE QueryFails
    <3>1. stage' = "skipped"
      BY <2>1 DEF QueryFails, Skip
    <3> QED
      BY <3>1 DEF QuoteInv
  <2>2. CASE UNCHANGED vars
    <3>1. UNCHANGED <<plan, site, stage, request, answer, fault>>
      BY <2>2 DEF vars
    <3> QED
      BY <3>1 DEF QuoteInv, Priceable, ExpectedCurrencyFor
  <2> QED
    BY <2>1, <2>2, AskKeeps, TencentAnswerKeeps, BssAnswerKeeps, AwsAnswerKeeps, ReadKeeps DEF Next
<1>3. QuoteInv => NoPriceFromFaults
  BY DEF QuoteInv, Priceable, NoPriceFromFaults
<1> QED
  BY <1>1, <1>2, <1>3, PTL DEF Spec

\* What FoldSet counts.
LEMMA FoldIsProduct ==
    ASSUME NEW params, NEW D
    PROVE  FoldSet(LAMBDA f, n : n * params[f], 1, D) = Product(params, D)
  BY DEF FoldSet, MapThenFoldSet, Product, Multiplies, AMember

(***************************************************************************)
(* What is asked for, in what units and how it is paid.                    *)
(***************************************************************************)

LEMMA RequestSays ==
    ASSUME NEW required, NEW product, NEW action, NEW r, NEW params,
           NEW q \in Request(required, product, action, r, params)
    PROVE  required /\ q.provider = "tencent" /\ q.product = product /\ q.action = action /\ q.params = params
<1>1. required
  BY DEF Request, When
<1> QED
  BY <1>1 DEF Request, When

\* The words for ways to pay and units, in upper case.
LEMMA WordsUp ==
    /\ Up("PREPAID") = "PREPAID" /\ Up("POSTPAID") = "POSTPAID" /\ Up("POSTPAID_BY_HOUR") = "POSTPAID_BY_HOUR"
    /\ Up("TRAFFIC_POSTPAID_BY_HOUR") = "TRAFFIC_POSTPAID_BY_HOUR" /\ Up("SERVERLESS") = "SERVERLESS"
    /\ Up("BANDWIDTH_POSTPAID_BY_HOUR") = "BANDWIDTH_POSTPAID_BY_HOUR"
    /\ Up("BANDWIDTH_PREPAID_BY_MONTH") = "BANDWIDTH_PREPAID_BY_MONTH"
    /\ Up("postpaid") = "POSTPAID" /\ Up("prepaid") = "PREPAID"
    /\ Up("HOUR") = "HOUR" /\ Up("MONTH") = "MONTH" /\ Up("GB") = "GB" /\ Up("") = "" /\ Up("new") = "NEW"
    /\ Up("microPent") = "MICROPENT" /\ Up("pent") = "PENT" /\ Up("renew") = "renew"
  BY DEF Up, UpperCase, Trim

\* How a judge takes a request to be paid: by the one parameter it knows.
LEMMA PaidByKey ==
    ASSUME NEW q, NEW key, DOMAIN q.params \cap ChargeKeys = {key}, "BillingMode" \notin DOMAIN q.params
    PROVE  isPrepaid(q) <=> Up(q.params[key]) \in WithPrepaid
<1>1. Word(q.params, "BillingMode") # "1"
  BY DEF Word
<1>2. \A other \in ChargeKeys \ {key} : Up(Word(q.params, other)) \notin WithPrepaid
  BY WordsUp DEF Word, WithPrepaid
<1>3. key \in ChargeKeys /\ Word(q.params, key) = q.params[key]
  BY DEF Word
<1> QED
  BY <1>1, <1>2, <1>3 DEF isPrepaid

LEMMA PaidByNoKey ==
    ASSUME NEW q, DOMAIN q.params \cap ChargeKeys = {}, "BillingMode" \notin DOMAIN q.params
    PROVE  ~isPrepaid(q)
<1>1. Word(q.params, "BillingMode") # "1"
  BY DEF Word
<1>2. \A other \in ChargeKeys : Up(Word(q.params, other)) \notin WithPrepaid
  BY WordsUp DEF Word, WithPrepaid
<1> QED
  BY <1>1, <1>2 DEF isPrepaid

\* The units of a request with one parameter that counts.
LEMMA OneCount ==
    ASSUME NEW q, NEW x, DOMAIN q.params \cap Counts = {x}, q.params[x] \in Int, q.product \notin {"postgres", "gaap"}
    PROVE  Units(q) = q.params[x]
<1>1. Product(q.params, {x}) = q.params[x]
  BY OneFactor
<1>2. Units(q) = Product(q.params, DOMAIN q.params \cap Counts) * 1 * 1
  BY FoldIsProduct, Zenon DEF Units
<1> QED
  BY <1>1, <1>2

LEMMA NoCount ==
    ASSUME NEW q, DOMAIN q.params \cap Counts = {}, q.product \notin {"postgres", "gaap"}
    PROVE  Units(q) = 1
<1>1. Product(q.params, {}) = 1
  BY NoFactor
<1>2. Units(q) = Product(q.params, DOMAIN q.params \cap Counts) * 1 * 1
  BY FoldIsProduct, Zenon DEF Units
<1> QED
  BY <1>1, <1>2

\* Machines.
LEMMA CVMAsked ==
    ASSUME NEW r, NEW q \in CVMExtract(r), NEW mode \in Understood(q)
    PROVE  /\ q.product = "cvm" /\ Units(q) = 1 /\ mode \in {"hour", "month"}
           /\ isPrepaid(q) <=> mode = "month"
<1> DEFINE word == OrText(Text(r, "instance_charge_type"), "POSTPAID_BY_HOUR")
           params == [InstanceType |-> Text(r, "instance_type"), Zone |-> Text(r, "availability_zone"),
                      InstanceChargeType |-> word, InstanceCount |-> 1, Period |-> OneMonthIf(word = "PREPAID")]
<1>1. /\ q.product = "cvm" /\ q.params = params
  <2>1. PICK required : q \in Request(required, "cvm", "InquiryPriceRunInstances", r, params)
    BY Zenon DEF CVMExtract
  <2> HIDE DEF params
  <2> QED
    BY <2>1, RequestSays
<1>2. /\ DOMAIN params \cap Counts = {"InstanceCount"} /\ DOMAIN params \cap ChargeKeys = {"InstanceChargeType"}
      /\ "BillingMode" \notin DOMAIN params /\ params.InstanceCount = 1 /\ params.InstanceChargeType = word
  BY DEF Counts, ChargeKeys
<1>3. Interface(q) = "cvm"
  BY <1>1 DEF Interface
<1> HIDE DEF params, word
<1>4. \/ mode = "hour" /\ word = "POSTPAID_BY_HOUR"
      \/ mode = "month" /\ word = "PREPAID"
  BY <1>1, <1>2, <1>3 DEF Understood, PayField, OnlyMode, ByHour, ByMonth, When
<1>5. isPrepaid(q) <=> Up(word) \in WithPrepaid
  BY <1>1, <1>2, PaidByKey
<1>6. Units(q) = 1
  BY <1>1, <1>2, OneCount
<1> QED
  BY <1>1, <1>4, <1>5, <1>6, WordsUp DEF WithPrepaid

\* The numbers of a resource.
LEMMA NumbersAre ==
    ASSUME NEW r, HasNumbers(r)
    PROVE  /\ \A name : Number(r, name) \in Int
           /\ \A name : OrNumber(Number(r, name), 1) \in Int /\ OrNumber(Number(r, name), 1) > 0
           /\ \A name, other : EitherNumber(r, name, other) \in Int
           /\ \A name, other : OrNumber(Number(r, name), Number(r, other)) \in Int
<1>1. \A name : Number(r, name) \in Int
  BY DEF HasNumbers, Number
<1> QED
  BY <1>1 DEF OrNumber, EitherNumber

LEMMA CBSAsked ==
    ASSUME NEW r, HasNumbers(r), NEW q \in CBSExtract(r), NEW mode \in Understood(q)
    PROVE  q.product = "cbs" /\ Units(q) \in Int /\ mode \in {"hour", "month"}
<1> DEFINE size == EitherNumber(r, "storage_size", "disk_size")
           kind == OrText(Text(r, "storage_type"), Text(r, "disk_type"))
           word == OrText(Text(r, "charge_type"), "POSTPAID_BY_HOUR")
           params == [DiskType |-> kind, DiskSize |-> size, DiskChargeType |-> word,
                      DiskCount |-> 1, Period |-> OneMonthIf(word = "PREPAID")]
<1>1. q.product = "cbs" /\ q.params = params
  <2>1. PICK required : q \in Request(required, "cbs", "InquiryPriceCreateDisks", r, params)
    BY Zenon DEF CBSExtract
  <2> HIDE DEF params
  <2> QED
    BY <2>1, RequestSays
<1>2. DOMAIN params \cap Counts = {"DiskSize"} /\ params.DiskSize = size
  BY DEF Counts
<1>3. Interface(q) = "cbs"
  BY <1>1 DEF Interface
<1>4. size \in Int
  BY NumbersAre
<1> HIDE DEF params, size
<1>5. mode \in {"hour", "month"}
  BY <1>3 DEF Understood, OnlyMode, When
<1>6. Units(q) \in Int
  BY <1>1, <1>2, <1>4, OneCount
<1> QED
  BY <1>1, <1>5, <1>6

LEMMA CLBAsked ==
    ASSUME NEW r, NEW q \in CLBExtract(r), NEW mode \in Understood(q)
    PROVE  q.product = "clb" /\ Units(q) = 1 /\ mode \in {"hour", "month"}
<1> DEFINE params == [LoadBalancerType |-> OrText(Text(r, "network_type"), "OPEN"), GoodsNum |-> 1,
                      LoadBalancerChargeType |-> OrText(Text(r, "load_balancer_charge_type"), "POSTPAID"),
                      InternetChargeType |->
                         IF Number(r, "internet_max_bandwidth_out") > 0
                         THEN OrText(Text(r, "internet_charge_type"), "TRAFFIC_POSTPAID_BY_HOUR") ELSE ""]
<1>1. q.product = "clb" /\ q.params = params
  <2>1. PICK required : q \in Request(required, "clb", "InquiryPriceCreateLoadBalancer", r, params)
    BY Zenon DEF CLBExtract
  <2> HIDE DEF params
  <2> QED
    BY <2>1, RequestSays
<1>2. DOMAIN params \cap Counts = {"GoodsNum"} /\ params.GoodsNum = 1
  BY DEF Counts
<1>3. Interface(q) = "clb"
  BY <1>1 DEF Interface
<1> HIDE DEF params
<1>4. mode \in {"hour", "month"}
  BY <1>3 DEF Understood, OnlyMode, When
<1>5. Units(q) = 1
  BY <1>1, <1>2, OneCount
<1> QED
  BY <1>1, <1>4, <1>5

LEMMA EIPAsked ==
    ASSUME NEW r, HasNumbers(r), NEW q \in EIPExtract(r), NEW mode \in Understood(q)
    PROVE  /\ q.product = "vpc" /\ q.action = "InquiryPriceAllocateAddresses"
           /\ Units(q) \in Int /\ Units(q) > 0 /\ mode \in {"hour", "month"}
           /\ isPrepaid(q) <=> mode = "month"
           /\ Up(q.params.InternetChargeType) \in WithPrepaid <=> mode = "month"
<1> DEFINE word == OrText(Trim(Text(r, "internet_charge_type")), "TRAFFIC_POSTPAID_BY_HOUR")
           width == OrNumber(Number(r, "internet_max_bandwidth_out"), 1)
           params == [InternetChargeType |-> word, Period |-> OneMonthIf(Up(word) \in WithPrepaid),
                      InternetMaxBandwidthOut |-> width]
<1>1. q.product = "vpc" /\ q.action = "InquiryPriceAllocateAddresses" /\ q.params = params
  <2>1. PICK required : q \in Request(required, "vpc", "InquiryPriceAllocateAddresses", r, params)
    BY Zenon DEF EIPExtract
  <2> HIDE DEF params
  <2> QED
    BY <2>1, RequestSays
<1>2. /\ DOMAIN params \cap Counts = {"InternetMaxBandwidthOut"} /\ params.InternetMaxBandwidthOut = width
      /\ DOMAIN params \cap ChargeKeys = {"InternetChargeType"} /\ "BillingMode" \notin DOMAIN params
      /\ params.InternetChargeType = word
  BY DEF Counts, ChargeKeys
<1>3. Interface(q) = "InquiryPriceAllocateAddresses"
  BY <1>1 DEF Interface
<1>4. width \in Int /\ width > 0
  BY NumbersAre
<1> HIDE DEF params, word, width
<1>5. \/ mode = "hour" /\ word \in {"TRAFFIC_POSTPAID_BY_HOUR", "BANDWIDTH_POSTPAID_BY_HOUR"}
      \/ mode = "month" /\ word = "BANDWIDTH_PREPAID_BY_MONTH"
  BY <1>1, <1>2, <1>3 DEF Understood, PayField, OnlyMode, ByHour, ByMonth, When
<1>6. isPrepaid(q) <=> Up(word) \in WithPrepaid
  BY <1>1, <1>2, PaidByKey
<1>7. Units(q) = width
  BY <1>1, <1>2, <1>4, OneCount
<1>8. Up(word) \in WithPrepaid <=> mode = "month"
  BY <1>5, WordsUp DEF WithPrepaid
<1> QED
  BY <1>1, <1>2, <1>4, <1>5, <1>6, <1>7, <1>8

LEMMA VPNAsked ==
    ASSUME NEW r, HasNumbers(r), NEW q \in VPNExtract(r), NEW mode \in Understood(q)
    PROVE  /\ q.product = "vpc" /\ q.action = "InquiryPriceCreateVpnGateway"
           /\ Units(q) \in Int /\ Units(q) > 0 /\ mode \in {"hour", "month"}
           /\ isPrepaid(q) <=> mode = "month"
<1> DEFINE width == OrNumber(Number(r, "bandwidth"), Number(r, "internet_max_bandwidth_out"))
           word == OrText(OrText(Up(Text(r, "charge_type")), Up(Text(r, "instance_charge_type"))),
                          "POSTPAID_BY_HOUR")
           params == [InternetMaxBandwidthOut |-> width, InstanceChargeType |-> word,
                      Period |-> OneMonthIf(word = "PREPAID")]
           required == width > 0
<1>1. required /\ q.product = "vpc" /\ q.action = "InquiryPriceCreateVpnGateway" /\ q.params = params
  <2>1. q \in Request(required, "vpc", "InquiryPriceCreateVpnGateway", r, params)
    BY Zenon DEF VPNExtract
  <2> HIDE DEF params, required
  <2> QED
    BY <2>1, RequestSays
<1>2. /\ DOMAIN params \cap Counts = {"InternetMaxBandwidthOut"} /\ params.InternetMaxBandwidthOut = width
      /\ DOMAIN params \cap ChargeKeys = {"InstanceChargeType"} /\ "BillingMode" \notin DOMAIN params
      /\ params.InstanceChargeType = word
  BY DEF Counts, ChargeKeys
<1>3. Interface(q) = "InquiryPriceCreateVpnGateway"
  BY <1>1 DEF Interface
<1>4. width \in Int /\ width > 0
  BY <1>1, NumbersAre
<1> HIDE DEF params, word, width, required
<1>5. \/ mode = "hour" /\ word = "POSTPAID_BY_HOUR"
      \/ mode = "month" /\ word = "PREPAID"
  BY <1>1, <1>2, <1>3 DEF Understood, PayField, OnlyMode, ByHour, ByMonth, When
<1>6. isPrepaid(q) <=> Up(word) \in WithPrepaid
  BY <1>1, <1>2, PaidByKey
<1>7. Units(q) = width
  BY <1>1, <1>2, <1>4, OneCount
<1> QED
  BY <1>1, <1>4, <1>5, <1>6, <1>7, WordsUp DEF WithPrepaid

LEMMA DirectConnectAsked ==
    ASSUME NEW r, NEW q \in DirectConnectExtract(r), NEW mode \in Understood(q)
    PROVE  /\ q.product = "vpc" /\ q.action = "InquirePriceCreateDirectConnectGateway"
           /\ Units(q) = 1 /\ mode = "month"
<1> DEFINE params == [x \in {} |-> 0]
<1>1. q.product = "vpc" /\ q.action = "InquirePriceCreateDirectConnectGateway" /\ q.params = params
  <2>1. PICK required : q \in Request(required, "vpc", "InquirePriceCreateDirectConnectGateway", r, params)
    BY Zenon DEF DirectConnectExtract
  <2> HIDE DEF params
  <2> QED
    BY <2>1, RequestSays
<1>2. DOMAIN q.params \cap Counts = {}
  BY <1>1
<1>3. Interface(q) = "InquirePriceCreateDirectConnectGateway"
  BY <1>1 DEF Interface
<1>4. mode = "month"
  BY <1>3 DEF Understood, OnlyMode
<1>5. Units(q) = 1
  BY <1>1, <1>2, NoCount
<1> QED
  BY <1>1, <1>4, <1>5

LEMMA GAAPAsked ==
    ASSUME NEW r, HasNumbers(r), NEW q \in GAAPExtract(r), NEW mode \in Understood(q)
    PROVE  q.product = "gaap" /\ Units(q) \in Int /\ Units(q) > 0 /\ mode = "day"
<1> DEFINE servers == EitherText(r, "realserver_region", "real_server_region")
           flow == Number(r, "billing_type") = 1 \/ Up(Text(r, "billing_type")) = "FLOW"
           params == [AccessRegion |-> Text(r, "access_region"), RealServerRegion |-> servers,
                      Bandwidth |-> Number(r, "bandwidth"), BillingType |-> IF flow THEN "1" ELSE "0"]
           required == /\ Trim(Text(r, "access_region")) # "" /\ Trim(servers) # ""
                       /\ Number(r, "bandwidth") > 0 /\ Number(r, "concurrent") > 0
<1>1. required /\ q.product = "gaap" /\ q.action = "InquiryPriceCreateProxy" /\ q.params = params
  <2>1. q \in Request(required, "gaap", "InquiryPriceCreateProxy", r, params)
    BY Zenon DEF GAAPExtract
  <2> HIDE DEF params, required
  <2> QED
    BY <2>1, RequestSays
<1>2. DOMAIN params \cap Counts = {} /\ params.Bandwidth = Number(r, "bandwidth")
  BY DEF Counts
<1>3. Interface(q) = "gaap"
  BY <1>1 DEF Interface
<1>4. mode = "day"
  BY <1>3 DEF Understood, OnlyMode
<1>5. Number(r, "bandwidth") \in Int /\ Number(r, "bandwidth") > 0
  BY <1>1, NumbersAre
<1> HIDE DEF params, required
<1>6. Units(q) = 1 * 1 * Number(r, "bandwidth")
  <2>1. Product(q.params, {}) = 1
    BY NoFactor
  <2>2. Units(q) = Product(q.params, DOMAIN q.params \cap Counts) * 1 * q.params.Bandwidth
    BY <1>1, FoldIsProduct DEF Units
  <2> QED
    BY <1>1, <1>2, <2>1, <2>2
<1> QED
  BY <1>1, <1>4, <1>5, <1>6

\* Databases.
LEMMA MySQLAsked ==
    ASSUME NEW r, HasNumbers(r), NEW q \in MySQLExtract(r), NEW mode \in Understood(q)
    PROVE  /\ q.product = "cdb" /\ Units(q) \in Int /\ Units(q) > 0
           /\ ~isPrepaid(q)
           /\ \/ mode = "hour" /\ q.params.PayType = "HOUR_PAID"
              \/ mode = "month" /\ q.params.PayType = "PRE_PAID"
<1> DEFINE zone == EitherText(r, "availability_zone", "zone")
           memory == EitherNumber(r, "mem_size", "memory")
           volume == EitherNumber(r, "volume_size", "volume")
           word == MySQLPayType(Up(Text(r, "charge_type")))
           count == OrNumber(Number(r, "count"), 1)
           params == [Zone |-> zone, Memory |-> memory, Volume |-> volume, Period |-> 1,
                      GoodsNum |-> count, PayType |-> word]
<1>1. q.product = "cdb" /\ q.params = params
  <2>1. PICK required : q \in Request(required, "cdb", "DescribeDBPrice", r, params)
    BY Zenon DEF MySQLExtract
  <2> HIDE DEF params
  <2> QED
    BY <2>1, RequestSays
<1>2. /\ DOMAIN params \cap Counts = {"GoodsNum"} /\ params.GoodsNum = count
      /\ DOMAIN params \cap ChargeKeys = {} /\ "BillingMode" \notin DOMAIN params /\ params.PayType = word
  BY DEF Counts, ChargeKeys
<1>3. Interface(q) = "cdb"
  BY <1>1 DEF Interface
<1>4. count \in Int /\ count > 0
  BY NumbersAre
<1> HIDE DEF params, word, count
<1>5. \/ mode = "hour" /\ word = "HOUR_PAID"
      \/ mode = "month" /\ word = "PRE_PAID"
  BY <1>1, <1>2, <1>3 DEF Understood, PayField, OnlyMode, ByHour, ByMonth, When
<1>6. ~isPrepaid(q)
  BY <1>1, <1>2, PaidByNoKey
<1>7. Units(q) = count
  BY <1>1, <1>2, <1>4, OneCount
<1> QED
  BY <1>1, <1>2, <1>4, <1>5, <1>6, <1>7

\* A class that is on sale has cores.
LEMMA ClassHasCores ==
    ASSUME NEW cpu, NEW memory, Len(PgSpecCode(cpu, memory)) = 2
    PROVE  PgSpecCode(cpu, memory)[1] \in Int /\ PgSpecCode(cpu, memory)[1] > 0
<1> DEFINE fitting == {i \in DOMAIN PgSpecTable : PgSpecTable[i][2] = memory}
           exact == {i \in fitting : PgSpecTable[i][1] = cpu}
           pool == IF exact = {} THEN fitting ELSE exact
           i == CHOOSE i \in pool : \A j \in pool : i <= j
<1>1. DOMAIN PgSpecTable = 1..27
  BY DEF PgSpecTable
<1>2. \A k \in 1..27 : PgSpecTable[k][1] \in Int /\ PgSpecTable[k][1] > 0
  BY DEF PgSpecTable
<1>3. PgSpecCode(cpu, memory) = IF pool = {} THEN <<>> ELSE PgSpecTable[i]
  BY Zenon DEF PgSpecCode
<1>4. pool \subseteq 1..27
  BY <1>1
<1> HIDE DEF pool
<1>5. pool # {}
  BY <1>3
<1>6. i \in pool
  <2>1. pool \in SUBSET Nat
    BY <1>4
  <2>2. \E m \in pool : \A n \in pool : m <= n
    BY <1>5, <2>1, NatMinimum
  <2> QED
    BY <2>2
<1> HIDE DEF i
<1> QED
  BY <1>2, <1>3, <1>4, <1>5, <1>6

LEMMA PostgresAsked ==
    ASSUME NEW r, HasNumbers(r), NEW q \in PostgresExtract(r), NEW mode \in Understood(q)
    PROVE  /\ q.product = "postgres" /\ Units(q) \in Int /\ Units(q) > 0 /\ mode \in {"hour", "month"}
           /\ isPrepaid(q) <=> mode = "month"
           /\ q.params.InstanceChargeType = "POSTPAID" <=> mode = "hour"
<1> DEFINE zone == EitherText(r, "availability_zone", "zone")
           named == Trim(Text(r, "spec_code"))
           spec == IF named # "" THEN <<named>> ELSE PgSpecCode(Number(r, "cpu"), Number(r, "memory"))
           storage == EitherNumber(r, "storage", "volume")
           said == OrText(OrText(Up(Text(r, "instance_charge_type")), Up(Text(r, "charge_type"))), "PREPAID")
           word == IF said \in WithPostpaid THEN "POSTPAID" ELSE said
           count == OrNumber(Number(r, "count"), 1)
           params == [Zone |-> zone, SpecCode |-> spec, Storage |-> storage, Period |-> 1,
                      InstanceCount |-> count, InstanceChargeType |-> word]
<1>1. q.product = "postgres" /\ q.params = params
  <2>1. PICK required : q \in Request(required, "postgres", "InquiryPriceCreateDBInstances", r, params)
    BY Zenon DEF PostgresExtract
  <2> HIDE DEF params
  <2> QED
    BY <2>1, RequestSays
<1>2. /\ DOMAIN params \cap Counts = {"InstanceCount"} /\ params.InstanceCount = count
      /\ DOMAIN params \cap ChargeKeys = {"InstanceChargeType"} /\ "BillingMode" \notin DOMAIN params
      /\ params.InstanceChargeType = word /\ params.SpecCode = spec
  BY DEF Counts, ChargeKeys
<1>3. Interface(q) = "postgres"
  BY <1>1 DEF Interface
<1>4. count \in Int /\ count > 0
  BY NumbersAre
<1>5. Len(spec) = 2 => spec[1] \in Int /\ spec[1] > 0
  <2>1. CASE named = ""
    <3>1. spec = PgSpecCode(Number(r, "cpu"), Number(r, "memory"))
      BY <2>1
    <3> QED
      BY <3>1, ClassHasCores
  <2>2. CASE named # ""
    <3>1. \A x : Len(<<x>>) = 1
      OBVIOUS
    <3>2. spec = <<named>>
      BY <2>2
    <3> HIDE DEF spec, named
    <3> QED
      BY <3>1, <3>2
  <2> QED
    BY <2>1, <2>2
<1> HIDE DEF params, word, count, spec
<1>6. \/ mode = "hour" /\ word = "POSTPAID"
      \/ mode = "month" /\ word = "PREPAID"
  BY <1>1, <1>2, <1>3 DEF Understood, PayField, OnlyMode, ByHour, ByMonth, When
<1>7. isPrepaid(q) <=> Up(word) \in WithPrepaid
  BY <1>1, <1>2, PaidByKey
<1>8. Units(q) = count * (IF Len(spec) = 2 THEN spec[1] ELSE 1) * 1
  <2>1. Product(q.params, {"InstanceCount"}) = count
    BY <1>1, <1>2, <1>4, OneFactor
  <2>2. Units(q) = Product(q.params, DOMAIN q.params \cap Counts)
                   * (IF Len(q.params.SpecCode) = 2 THEN q.params.SpecCode[1] ELSE 1) * 1
    BY <1>1, FoldIsProduct DEF Units
  <2> QED
    BY <1>1, <1>2, <2>1, <2>2
<1>9. Units(q) \in Int /\ Units(q) > 0
  <2>1. CASE Len(spec) = 2
    <3>1. PICK cores \in Int : cores = spec[1] /\ cores > 0
      BY <1>5, <2>1
    <3>2. \A m, n \in Int : m > 0 /\ n > 0 => m * n * 1 \in Int /\ m * n * 1 > 0
      OBVIOUS
    <3> QED
      BY <1>4, <1>8, <2>1, <3>1, <3>2
  <2>2. CASE Len(spec) # 2
    BY <1>4, <1>8, <2>2
  <2> QED
    BY <2>1, <2>2
<1>10. isPrepaid(q) <=> mode = "month"
  BY <1>6, <1>7, WordsUp DEF WithPrepaid
<1> QED
  BY <1>1, <1>2, <1>6, <1>9, <1>10

LEMMA RedisAsked ==
    ASSUME NEW r, HasNumbers(r), NEW q \in RedisExtract(r), NEW mode \in Understood(q)
    PROVE  /\ q.product = "redis" /\ Units(q) \in Int /\ Units(q) > 0
           /\ \/ mode = "hour" /\ q.params.BillingMode = "0" /\ ~isPrepaid(q)
              \/ mode = "month" /\ q.params.BillingMode = "1" /\ isPrepaid(q)
<1> DEFINE zone == EitherText(r, "availability_zone", "zone")
           count == OrNumber(Number(r, "count"), 1)
           kind == IF Number(r, "type_id") = 0 THEN 6 ELSE Number(r, "type_id")
           word == IF Up(Text(r, "charge_type")) \in {"PREPAID", "PRE_PAID"} THEN "1" ELSE "0"
           params == [ZoneName |-> zone, MemSize |-> Number(r, "mem_size"), Period |-> 1,
                      TypeId |-> kind, GoodsNum |-> count, BillingMode |-> word]
<1>1. q.product = "redis" /\ q.params = params
  <2>1. PICK required : q \in Request(required, "redis", "InquiryPriceCreateInstance", r, params)
    BY Zenon DEF RedisExtract
  <2> HIDE DEF params
  <2> QED
    BY <2>1, RequestSays
<1>2. /\ DOMAIN params \cap Counts = {"GoodsNum"} /\ params.GoodsNum = count
      /\ DOMAIN params \cap ChargeKeys = {} /\ "BillingMode" \in DOMAIN params /\ params.BillingMode = word
  BY DEF Counts, ChargeKeys
<1>3. Interface(q) = "redis"
  BY <1>1 DEF Interface
<1>4. count \in Int /\ count > 0
  BY NumbersAre
<1> HIDE DEF params, word, count
<1>5. \/ mode = "hour" /\ word = "0"
      \/ mode = "month" /\ word = "1"
  BY <1>1, <1>2, <1>3 DEF Understood, PayField, OnlyMode, ByHour, ByMonth, When
<1>6. isPrepaid(q) <=> word = "1"
  <2>1. Word(q.params, "BillingMode") = word
    BY <1>1, <1>2 DEF Word
  <2>2. \A key \in ChargeKeys : Up(Word(q.params, key)) \notin WithPrepaid
    BY <1>1, <1>2, WordsUp DEF Word, WithPrepaid
  <2> QED
    BY <2>1, <2>2 DEF isPrepaid
<1>7. Units(q) = count
  BY <1>1, <1>2, <1>4, OneCount
<1> QED
  BY <1>1, <1>2, <1>4, <1>5, <1>6, <1>7

LEMMA MongoAsked ==
    ASSUME NEW r, HasNumbers(r), NEW q \in MongoExtract(r), NEW mode \in Understood(q)
    PROVE  /\ q.product = "mongodb" /\ Units(q) \in Int /\ Units(q) > 0 /\ mode \in {"hour", "month"}
           /\ isPrepaid(q) <=> mode = "month"
           /\ q.params.InstanceChargeType \in WithHour <=> mode = "hour"
<1> DEFINE zone == EitherText(r, "available_zone", "availability_zone")
           said == OrText(OrText(Up(Text(r, "charge_type")), Up(Text(r, "instance_charge_type"))),
                          "POSTPAID_BY_HOUR")
           word == MongoPayMode(said)
           count == OrNumber(Number(r, "count"), 1)
           params == [Zone |-> zone, Memory |-> Number(r, "memory"), Volume |-> Number(r, "volume"), Period |-> 1,
                      NodeNum |-> OrNumber(Number(r, "node_num"), 3), GoodsNum |-> count,
                      MachineCode |-> OrText(Up(Text(r, "machine_type")), "GE.LD.T1"),
                      InstanceChargeType |-> word]
<1>1. q.product = "mongodb" /\ q.params = params
  <2>1. PICK required : q \in Request(required, "mongodb", "InquirePriceCreateDBInstances", r, params)
    BY Zenon DEF MongoExtract
  <2> HIDE DEF params
  <2> QED
    BY <2>1, RequestSays
<1>2. /\ DOMAIN params \cap Counts = {"GoodsNum"} /\ params.GoodsNum = count
      /\ DOMAIN params \cap ChargeKeys = {"InstanceChargeType"} /\ "BillingMode" \notin DOMAIN params
      /\ params.InstanceChargeType = word
  BY DEF Counts, ChargeKeys
<1>3. Interface(q) = "mongodb"
  BY <1>1 DEF Interface
<1>4. count \in Int /\ count > 0
  BY NumbersAre
<1> HIDE DEF params, word, count
<1>5. \/ mode = "hour" /\ word = "POSTPAID_BY_HOUR"
      \/ mode = "month" /\ word = "PREPAID"
  BY <1>1, <1>2, <1>3 DEF Understood, PayField, OnlyMode, ByHour, ByMonth, When
<1>6. isPrepaid(q) <=> Up(word) \in WithPrepaid
  BY <1>1, <1>2, PaidByKey
<1>7. Units(q) = count
  BY <1>1, <1>2, <1>4, OneCount
<1>8. (Up(word) \in WithPrepaid <=> mode = "month") /\ (word \in WithHour <=> mode = "hour")
  BY <1>5, WordsUp DEF WithPrepaid, WithHour
<1> QED
  BY <1>1, <1>2, <1>4, <1>5, <1>6, <1>7, <1>8

LEMMA MariaDBAsked ==
    ASSUME NEW r, HasNumbers(r), NEW q \in MariaDBExtract(r), NEW mode \in Understood(q)
    PROVE  /\ q.product = "mariadb" /\ Units(q) \in Int /\ Units(q) > 0 /\ mode \in {"hour", "month"}
           /\ isPrepaid(q) <=> mode = "month"
           /\ Up(q.params.Paymode) \in WithPostpaid <=> mode = "hour"
<1> DEFINE zone == EitherText(r, "availability_zone", "zones")
           said == OrText(Up(Text(r, "instance_charge_type")), Up(Text(r, "charge_type")))
           for == Number(r, "prepaid_period") > 0 \/ Number(r, "period") > 0
           postpaid == said \in WithPostpaid \/ (said = "" /\ ~for)
           word == IF postpaid THEN "postpaid" ELSE "prepaid"
           count == OrNumber(Number(r, "count"), 1)
           params == [Zone |-> zone, Memory |-> Number(r, "memory"), Storage |-> Number(r, "storage"), Period |-> 1,
                      NodeCount |-> OrNumber(Number(r, "node_count"), 2), Count |-> count,
                      Paymode |-> word, AmountUnit |-> "pent"]
<1>1. q.product = "mariadb" /\ q.params = params
  <2>1. PICK required : q \in Request(required, "mariadb", "DescribePrice", r, params)
    BY Zenon DEF MariaDBExtract
  <2> HIDE DEF params
  <2> QED
    BY <2>1, RequestSays
<1>2. /\ DOMAIN params \cap Counts = {"Count"} /\ params.Count = count
      /\ DOMAIN params \cap ChargeKeys = {"Paymode"} /\ "BillingMode" \notin DOMAIN params
      /\ params.Paymode = word
  BY DEF Counts, ChargeKeys
<1>3. Interface(q) = "mariadb"
  BY <1>1 DEF Interface
<1>4. count \in Int /\ count > 0
  BY NumbersAre
<1> HIDE DEF params, word, count
<1>5. \/ mode = "hour" /\ word = "postpaid"
      \/ mode = "month" /\ word = "prepaid"
  BY <1>1, <1>2, <1>3 DEF Understood, PayField, OnlyMode, ByHour, ByMonth, When
<1>6. isPrepaid(q) <=> Up(word) \in WithPrepaid
  BY <1>1, <1>2, PaidByKey
<1>7. Units(q) = count
  BY <1>1, <1>2, <1>4, OneCount
<1>8. (Up(word) \in WithPrepaid <=> mode = "month") /\ (Up(word) \in WithPostpaid <=> mode = "hour")
  BY <1>5, WordsUp DEF WithPrepaid, WithPostpaid
<1> QED
  BY <1>1, <1>2, <1>4, <1>5, <1>6, <1>7, <1>8

LEMMA SQLServerAsked ==
    ASSUME NEW r, HasNumbers(r), NEW q \in SQLServerExtract(r), NEW mode \in Understood(q)
    PROVE  /\ q.product = "sqlserver" /\ Units(q) \in Int /\ Units(q) > 0 /\ mode \in {"hour", "month"}
           /\ isPrepaid(q) <=> mode = "month"
           /\ q.params.InstanceChargeType = "PREPAID" <=> mode = "month"
<1> DEFINE zone == EitherText(r, "availability_zone", "zone")
           said == OrText(Up(Text(r, "charge_type")), Up(Text(r, "instance_charge_type")))
           word == IF said = "PREPAID" THEN "PREPAID" ELSE "POSTPAID"
           count == OrNumber(Number(r, "count"), 1)
           params == [Zone |-> zone, Memory |-> Number(r, "memory"), Storage |-> Number(r, "storage"), Period |-> 1,
                      GoodsNum |-> count, InstanceType |-> OrText(Text(r, "instance_type"), "SI"),
                      InstanceChargeType |-> word]
<1>1. q.product = "sqlserver" /\ q.params = params
  <2>1. PICK required : q \in Request(required, "sqlserver", "InquiryPriceCreateDBInstances", r, params)
    BY Zenon DEF SQLServerExtract
  <2> HIDE DEF params
  <2> QED
    BY <2>1, RequestSays
<1>2. /\ DOMAIN params \cap Counts = {"GoodsNum"} /\ params.GoodsNum = count
      /\ DOMAIN params \cap ChargeKeys = {"InstanceChargeType"} /\ "BillingMode" \notin DOMAIN params
      /\ params.InstanceChargeType = word
  BY DEF Counts, ChargeKeys
<1>3. Interface(q) = "sqlserver"
  BY <1>1 DEF Interface
<1>4. count \in Int /\ count > 0
  BY NumbersAre
<1> HIDE DEF params, word, count
<1>5. \/ mode = "hour" /\ word = "POSTPAID"
      \/ mode = "month" /\ word = "PREPAID"
  BY <1>1, <1>2, <1>3 DEF Understood, PayField, OnlyMode, ByHour, ByMonth, When
<1>6. isPrepaid(q) <=> Up(word) \in WithPrepaid
  BY <1>1, <1>2, PaidByKey
<1>7. Units(q) = count
  BY <1>1, <1>2, <1>4, OneCount
<1>8. Up(word) \in WithPrepaid <=> mode = "month"
  BY <1>5, WordsUp DEF WithPrepaid
<1> QED
  BY <1>1, <1>2, <1>4, <1>5, <1>6, <1>7, <1>8

LEMMA DCDBAsked ==
    ASSUME NEW r, HasNumbers(r), NEW q \in DCDBExtract(r), NEW mode \in Understood(q)
    PROVE  /\ q.product = "dcdb" /\ Units(q) \in Int /\ Units(q) > 0 /\ mode \in {"hour", "month"}
           /\ isPrepaid(q) <=> mode = "month"
           /\ Up(q.params.Paymode) = "PREPAID" <=> mode = "month"
<1> DEFINE zone == OrText(EitherText(r, "availability_zone", "zones"), Text(r, "zone"))
           word == IF r.type = "tencentcloud_dcdb_hourdb_instance" THEN "postpaid" ELSE "prepaid"
           count == OrNumber(Number(r, "count"), 1)
           shards == Number(r, "shard_count")
           params == [Zone |-> zone, ShardMemory |-> Number(r, "shard_memory"),
                      ShardStorage |-> Number(r, "shard_storage"),
                      ShardCount |-> shards, ShardNodeCount |-> OrNumber(Number(r, "shard_node_count"), 2),
                      Count |-> count, AmountUnit |-> "pent", Period |-> 1, Paymode |-> word]
           required == zone # "" /\ \A a \in {"shard_memory", "shard_storage", "shard_count"} : Number(r, a) > 0
<1>1. required /\ q.product = "dcdb" /\ q.params = params
  <2>1. q \in Request(required, "dcdb", "DescribeDCDBPrice", r, params)
    BY Zenon DEF DCDBExtract
  <2> HIDE DEF params, required
  <2> QED
    BY <2>1, RequestSays
<1>2. /\ DOMAIN params \cap Counts = {"ShardCount", "Count"} /\ params.Count = count /\ params.ShardCount = shards
      /\ DOMAIN params \cap ChargeKeys = {"Paymode"} /\ "BillingMode" \notin DOMAIN params
      /\ params.Paymode = word
  BY DEF Counts, ChargeKeys
<1>3. Interface(q) = "dcdb"
  BY <1>1 DEF Interface
<1>4. count \in Int /\ count > 0 /\ shards \in Int /\ shards > 0
  BY <1>1, NumbersAre
<1> HIDE DEF params, word, count, shards, required
<1>5. \/ mode = "hour" /\ word = "postpaid"
      \/ mode = "month" /\ word = "prepaid"
  BY <1>1, <1>2, <1>3 DEF Understood, PayField, OnlyMode, ByHour, ByMonth, When
<1>6. isPrepaid(q) <=> Up(word) \in WithPrepaid
  BY <1>1, <1>2, PaidByKey
<1>7. Units(q) = shards * count
  <2>1. Product(q.params, {"ShardCount", "Count"}) = shards * count
    BY <1>1, <1>2, <1>4, TwoFactors
  <2>2. Units(q) = Product(q.params, DOMAIN q.params \cap Counts) * 1 * 1
    BY <1>1, FoldIsProduct, Zenon DEF Units
  <2> QED
    BY <1>1, <1>2, <1>4, <2>1, <2>2
<1>8. (Up(word) \in WithPrepaid <=> mode = "month") /\ (Up(word) = "PREPAID" <=> mode = "month")
  BY <1>5, WordsUp DEF WithPrepaid
<1>9. \A m, n \in Int : m > 0 /\ n > 0 => m * n \in Int /\ m * n > 0
  OBVIOUS
<1>10. Units(q) \in Int /\ Units(q) > 0
  BY <1>4, <1>7, <1>9
<1> QED
  BY <1>1, <1>2, <1>5, <1>6, <1>8, <1>10

LEMMA CynosAsked ==
    ASSUME NEW r, HasNumbers(r), NEW q \in CynosExtract(r), NEW mode \in Understood(q)
    PROVE  /\ q.product = "cynosdb" /\ Units(q) \in Int /\ Units(q) > 0 /\ mode \in {"hour", "month"}
           /\ isPrepaid(q) <=> mode = "month"
           /\ q.params.InstancePayMode = "PREPAID" <=> mode = "month"
           /\ q.params.StoragePayMode = "PREPAID" => q.params.StorageLimit \in Int /\ q.params.StorageLimit > 0
<1> DEFINE zone == EitherText(r, "available_zone", "availability_zone")
           said == OrText(Up(Text(r, "charge_type")), Up(Text(r, "instance_charge_type")))
           cpu == EitherNumber(r, "cpu", "instance_cpu_core")
           memory == EitherNumber(r, "memory", "instance_memory_size")
           storage == OrNumber(Number(r, "storage_limit"), Number(r, "storage"))
           word == CynosPayMode(r, said)
           storageMode == CynosStoragePayMode(r, said)
           serverless == word = "SERVERLESS"
           count == OrNumber(Number(r, "instance_count"), 1)
           params == [Zone |-> zone, GoodsNum |-> count,
                      InstancePayMode |-> word, StoragePayMode |-> storageMode, StorageLimit |-> storage,
                      Ccu |-> IF serverless THEN Number(r, "max_cpu") ELSE 0,
                      Cpu |-> IF serverless THEN 0 ELSE cpu, Memory |-> IF serverless THEN 0 ELSE memory,
                      TimeSpan |-> OneMonthIf(word = "PREPAID")]
           required == /\ zone # ""
                       /\ IF serverless THEN Number(r, "max_cpu") > 0 ELSE cpu > 0 /\ memory > 0
                       /\ storageMode = "PREPAID" => storage > 0
<1>1. required /\ q.product = "cynosdb" /\ q.params = params
  <2>1. q \in Request(required, "cynosdb", "InquirePriceCreate", r, params)
    BY Zenon DEF CynosExtract
  <2> HIDE DEF params, required
  <2> QED
    BY <2>1, RequestSays
<1>2. /\ DOMAIN params \cap Counts = {"GoodsNum"} /\ params.GoodsNum = count
      /\ DOMAIN params \cap ChargeKeys = {"InstancePayMode"} /\ "BillingMode" \notin DOMAIN params
      /\ params.InstancePayMode = word /\ params.StoragePayMode = storageMode /\ params.StorageLimit = storage
  BY DEF Counts, ChargeKeys
<1>3. Interface(q) = "cynosdb"
  BY <1>1 DEF Interface
<1>4. count \in Int /\ count > 0 /\ storage \in Int /\ (storageMode = "PREPAID" => storage > 0)
  BY <1>1, NumbersAre
<1> HIDE DEF params, word, count, storage, storageMode, required
<1>5. \/ mode = "hour" /\ word \in {"POSTPAID", "SERVERLESS"}
      \/ mode = "month" /\ word = "PREPAID"
  BY <1>1, <1>2, <1>3 DEF Understood, PayField, OnlyMode, ByHour, ByMonth, When
<1>6. isPrepaid(q) <=> Up(word) \in WithPrepaid
  BY <1>1, <1>2, PaidByKey
<1>7. Units(q) = count
  BY <1>1, <1>2, <1>4, OneCount
<1>8. Up(word) \in WithPrepaid <=> mode = "month"
  BY <1>5, WordsUp DEF WithPrepaid
<1> QED
  BY <1>1, <1>2, <1>4, <1>5, <1>6, <1>7, <1>8

\* What is paid in one way only.
LEMMA OnlyAsked ==
    ASSUME NEW r, HasNumbers(r), NEW q, NEW mode \in Understood(q)
    PROVE  /\ q \in LighthouseExtract(r) => q.product = "lighthouse" /\ mode = "month"
           /\ q \in ECMExtract(r) => q.product = "ecm" /\ mode = "hour"
           /\ q \in YunjingExtract(r) => q.product = "yunjing" /\ mode = "month"
           /\ q \in CloudHSMExtract(r) => q.product = "cloudhsm" /\ mode = "month"
           /\ q \in DomainExtract(r) => q.product = "domain" /\ mode = "year" /\ Units(q) = 1
           /\ \/ q \in LighthouseExtract(r) \/ q \in ECMExtract(r) \/ q \in YunjingExtract(r)
              \/ q \in CloudHSMExtract(r)
              => Units(q) \in Int /\ Units(q) > 0
<1> DEFINE Counted(product, x, name) ==
              /\ q.product = product /\ DOMAIN q.params \cap Counts = {x}
              /\ q.params[x] = OrNumber(Number(r, name), 1)
<1>1. q \in LighthouseExtract(r) => Counted("lighthouse", "InstanceCount", "instance_count")
  <2> DEFINE params == [BundleId |-> Text(r, "bundle_id"), Period |-> 1,
                        InstanceCount |-> OrNumber(Number(r, "instance_count"), 1)]
  <2> HAVE q \in LighthouseExtract(r)
  <2>1. PICK required : q \in Request(required, "lighthouse", "InquirePriceCreateInstances", r, params)
    BY Zenon DEF LighthouseExtract
  <2>2. DOMAIN params \cap Counts = {"InstanceCount"} /\ params["InstanceCount"] = OrNumber(Number(r, "instance_count"), 1)
    BY DEF Counts
  <2> HIDE DEF params
  <2> QED
    BY <2>1, <2>2, RequestSays
<1>2. q \in ECMExtract(r) => Counted("ecm", "InstanceCount", "instance_count")
  <2> DEFINE params == [InstanceType |-> Text(r, "instance_type"), InstanceChargeType |-> "1",
                        InstanceCount |-> OrNumber(Number(r, "instance_count"), 1)]
  <2> HAVE q \in ECMExtract(r)
  <2>1. PICK required : q \in Request(required, "ecm", "DescribePriceRunInstance", r, params)
    BY Zenon DEF ECMExtract
  <2>2. DOMAIN params \cap Counts = {"InstanceCount"} /\ params["InstanceCount"] = OrNumber(Number(r, "instance_count"), 1)
    BY DEF Counts
  <2> HIDE DEF params
  <2> QED
    BY <2>1, <2>2, RequestSays
<1>3. q \in YunjingExtract(r) => Counted("yunjing", "Machines", "license_num")
  <2> DEFINE params == [Machines |-> OrNumber(Number(r, "license_num"), 1), Period |-> 1]
  <2> HAVE q \in YunjingExtract(r)
  <2>1. PICK required : q \in Request(required, "yunjing", "InquiryPriceOpenProVersionPrepaid", r, params)
    BY Zenon DEF YunjingExtract
  <2>2. DOMAIN params \cap Counts = {"Machines"} /\ params["Machines"] = OrNumber(Number(r, "license_num"), 1)
    BY DEF Counts
  <2> HIDE DEF params
  <2> QED
    BY <2>1, <2>2, RequestSays
<1>4. q \in CloudHSMExtract(r) => Counted("cloudhsm", "GoodsNum", "goods_num")
  <2> DEFINE params == [GoodsNum |-> OrNumber(Number(r, "goods_num"), 1), PayMode |-> "1", TimeSpan |-> 1,
                        HsmType |-> OrText(Trim(Text(r, "hsm_type")), "virtualization")]
  <2> HAVE q \in CloudHSMExtract(r)
  <2>1. PICK required : q \in Request(required, "cloudhsm", "InquiryPriceBuyVsm", r, params)
    BY Zenon DEF CloudHSMExtract
  <2>2. DOMAIN params \cap Counts = {"GoodsNum"} /\ params["GoodsNum"] = OrNumber(Number(r, "goods_num"), 1)
    BY DEF Counts
  <2> HIDE DEF params
  <2> QED
    BY <2>1, <2>2, RequestSays
<1>5. q \in DomainExtract(r) => q.product = "domain" /\ Units(q) = 1
  <2> DEFINE params == [Domain |-> Trim(Text(r, "domain_name")), Year |-> OrNumber(Number(r, "period"), 1),
                        Operation |-> "new"]
  <2> HAVE q \in DomainExtract(r)
  <2>1. PICK required : q \in Request(required, "domain", "DescribeDomainPriceList", r, params)
    BY Zenon DEF DomainExtract
  <2>2. DOMAIN params \cap Counts = {}
    BY DEF Counts
  <2> HIDE DEF params
  <2>3. q.product = "domain" /\ DOMAIN q.params \cap Counts = {}
    BY <2>1, <2>2, RequestSays
  <2> QED
    BY <2>3, NoCount
<1>6. \A product, x, name :
         product \notin {"postgres", "gaap"} /\ Counted(product, x, name) => Units(q) \in Int /\ Units(q) > 0
  <2> TAKE product, x, name
  <2> HAVE product \notin {"postgres", "gaap"} /\ Counted(product, x, name)
  <2>1. q.params[x] \in Int /\ q.params[x] > 0
    BY NumbersAre
  <2>2. Units(q) = q.params[x]
    BY <2>1, OneCount
  <2> QED
    BY <2>1, <2>2
<1>7. /\ q.product \in {"lighthouse", "yunjing", "cloudhsm"} => mode = "month"
      /\ q.product = "ecm" => mode = "hour"
      /\ q.product = "domain" => mode = "year"
  <2>1. q.product \in {"lighthouse", "yunjing", "cloudhsm", "ecm", "domain"} => Interface(q) = q.product
    BY DEF Interface
  <2> QED
    BY <2>1 DEF Understood, OnlyMode
<1>8. q \in LighthouseExtract(r) \/ q \in ECMExtract(r) => Units(q) \in Int /\ Units(q) > 0
  BY <1>1, <1>2, <1>6
<1>9. q \in YunjingExtract(r) \/ q \in CloudHSMExtract(r) => Units(q) \in Int /\ Units(q) > 0
  BY <1>3, <1>4, <1>6
<1> QED
  BY <1>1, <1>2, <1>3, <1>4, <1>5, <1>7, <1>8, <1>9

(***************************************************************************)
(* What an answer without a fault states.                                  *)
(***************************************************************************)

\* A price that costs something; without a discount the list price is paid.
Fair(p) ==
    /\ p.list \in Int /\ p.list > 0 /\ p.paid \in Int /\ p.paid > 0
    /\ p.reduced \in BOOLEAN /\ (~p.reduced => p.paid = p.list)

\* What a discount comes to.
Cut(p, n) == IF p.reduced THEN n ELSE 0

\* A field that is alone.
Given(x, field, n) == IF x = field THEN n ELSE 0

LEMMA CutIs ==
    ASSUME NEW p, Fair(p)
    PROVE  (\A n : Cut(p, n) = n) \/ (p.paid = p.list /\ \A n : Cut(p, n) = 0)
  BY Zenon DEF Fair, Cut

\* The prices are in one of the two places.
Placed(a, block) ==
    /\ a.errors = {}
    /\ (a.top = <<>> /\ a.wrapped = block) \/ (a.wrapped = <<>> /\ a.top = block)

\* A part that states the fields, and maybe its currency.
Same(part, fields) ==
    \A x : x # "Currency" => Amount(part, x) = Amount(fields, x) /\ Word(part, x) = Word(fields, x)

\* The answer to q, that is paid by mode and costs p.
Healthy(a, block, q, mode, p) ==
    /\ Placed(a, block)
    /\ Same(Part(block, MainPart(q)), MainFields(q, mode, p))
    /\ \A part : part # MainPart(q) => Part(block, part) = Part(OtherParts(q, p.reduced), part)

Modes == {"hour", "month", "day", "year"}

LEMMA FairPrice ==
    ASSUME NEW mode \in Modes, NEW units \in Int, units > 0, NEW reduced \in BOOLEAN
    PROVE  Fair(PriceOf(mode, units, reduced)) /\ PriceOf(mode, units, reduced).reduced = reduced
<1>1. Listed[mode] \in {3, 9, 48, 24} /\ Reduced[mode] \in {2, 6, 24, 12}
  BY DEF Modes, Listed, Reduced
<1>2. \A n \in {3, 9, 48, 24, 2, 6, 12} : n * units \in Int /\ n * units > 0
  OBVIOUS
<1>3. Listed[mode] * units \in Int /\ Listed[mode] * units > 0 /\ Reduced[mode] * units \in Int /\ Reduced[mode] * units > 0
  BY <1>1, <1>2
<1> QED
  BY <1>3 DEF Fair, PriceOf

\* The fields of two groups together, of one that is there with a discount,
\* and of a part alone.
LEMMA AlongFields ==
    ASSUME NEW f, NEW g, NEW x
    PROVE  /\ Amount(Along(f, g), x) = IF x \in DOMAIN f THEN f[x] ELSE Amount(g, x)
           /\ Word(Along(f, g), x) = IF x \in DOMAIN f THEN f[x] ELSE Word(g, x)
           /\ Part(Along(f, g), x) = IF x \in DOMAIN f THEN f[x] ELSE Part(g, x)
<1>1. /\ DOMAIN Along(f, g) = DOMAIN f \cup DOMAIN g
      /\ x \in DOMAIN f => Along(f, g)[x] = f[x]
      /\ x \in DOMAIN g /\ x \notin DOMAIN f => Along(f, g)[x] = g[x]
  BY DEF Along
<1>2. CASE x \in DOMAIN f
  BY <1>1, <1>2 DEF Amount, Word, Part
<1>3. CASE x \notin DOMAIN f /\ x \in DOMAIN g
  BY <1>1, <1>3 DEF Amount, Word, Part
<1>4. CASE x \notin DOMAIN f /\ x \notin DOMAIN g
  BY <1>1, <1>4, Zenon DEF Amount, Word, Part
<1> QED
  BY <1>2, <1>3, <1>4

LEMMA ReducedFields ==
    ASSUME NEW p, NEW field, NEW k, NEW x
    PROVE  Amount(IfReduced(p, field, k), x) = Given(x, field, Cut(p, k * p.paid))
<1>1. CASE p.reduced
  <2>1. IfReduced(p, field, k) = [y \in {field} |-> k * p.paid] /\ Cut(p, k * p.paid) = k * p.paid
    BY <1>1, Zenon DEF IfReduced, Only, Cut
  <2> QED
    BY <2>1 DEF Amount, Given
<1>2. CASE ~p.reduced
  <2>1. IfReduced(p, field, k) = <<>> /\ Cut(p, k * p.paid) = 0
    BY <1>2, Zenon DEF IfReduced, Cut
  <2> QED
    BY <2>1 DEF Amount, Given
<1> QED
  BY <1>1, <1>2, Zenon

\* The fields with a discount.
Discounts ==
    {"UnitPriceDiscount", "DiscountPrice", "TotalPriceDiscount", "RealTotalCost", "Price", "DiscountProxyDailyPrice"}

LEMMA ReducedUnit ==
    ASSUME NEW p, NEW field \in Discounts, NEW k
    PROVE  Unit(IfReduced(p, field, k)) = ""
<1>1. CASE p.reduced
  <2>1. IfReduced(p, field, k) = [y \in {field} |-> k * p.paid]
    BY <1>1, Zenon DEF IfReduced, Only
  <2> QED
    BY <2>1 DEF Unit, Word, Discounts
<1>2. CASE ~p.reduced
  <2>1. IfReduced(p, field, k) = <<>>
    BY <1>2, Zenon DEF IfReduced
  <2> QED
    BY <2>1 DEF Unit, Word
<1> QED
  BY <1>1, <1>2, Zenon

LEMMA OnlyPart ==
    ASSUME NEW name, NEW content
    PROVE  /\ DOMAIN Only(name, content) = {name} /\ Only(name, content)[name] = content
           /\ \A x : Part(Only(name, content), x) = IF x = name THEN content ELSE Part(<<>>, x)
  BY DEF Only, Part

\* A word that is not the field of a record.
LEMMA SameBeside ==
    ASSUME NEW fields, NEW stated \in BOOLEAN, NEW currency
    PROVE  Same(Along(fields, IF stated THEN [Currency |-> currency] ELSE <<>>), fields)
<1> DEFINE word == IF stated THEN [Currency |-> currency] ELSE <<>>
<1>1. \A x : x # "Currency" => x \notin DOMAIN word
  <2>1. DOMAIN <<>> = {}
    OBVIOUS
  <2>2. DOMAIN [Currency |-> currency] = {"Currency"}
    OBVIOUS
  <2> QED
    BY <2>1, <2>2
<1> HIDE DEF word
<1>2. ASSUME NEW x, x # "Currency"
      PROVE  Amount(Along(fields, word), x) = Amount(fields, x) /\ Word(Along(fields, word), x) = Word(fields, x)
  <2>1. Amount(word, x) = 0 /\ Word(word, x) = ""
    BY <1>1, <1>2 DEF Amount, Word
  <2>2. /\ Amount(Along(fields, word), x) = IF x \in DOMAIN fields THEN fields[x] ELSE Amount(word, x)
        /\ Word(Along(fields, word), x) = IF x \in DOMAIN fields THEN fields[x] ELSE Word(word, x)
    BY AlongFields
  <2> QED
    BY <2>1, <2>2 DEF Amount, Word
<1> QED
  BY <1>2 DEF Same, word

LEMMA HealthyAnswer ==
    ASSUME NEW q, q.product # "domain", NEW mode, NEW reduced \in BOOLEAN, NEW wrapped \in BOOLEAN,
           NEW stated \in BOOLEAN, NEW currency
    PROVE  \E block : Healthy(TencentAnswer(q, mode, "none", reduced, wrapped, stated, currency), block,
                              q, mode, PriceOf(mode, Units(q), reduced))
<1> DEFINE p == PriceOf(mode, Units(q), reduced)
           fields == MainFields(q, mode, p)
           content == Along(fields, IF stated THEN [Currency |-> currency] ELSE <<>>)
           main == Only(MainPart(q), content)
           block == Along(main, OtherParts(q, reduced))
           a == TencentAnswer(q, mode, "none", reduced, wrapped, stated, currency)
<1>1. a = [errors |-> {}, top |-> IF wrapped THEN <<>> ELSE block, wrapped |-> IF wrapped THEN block ELSE <<>>]
  BY DEF TencentAnswer
<1>2. p.reduced = reduced
  BY DEF PriceOf
<1>4. Same(content, fields)
  BY SameBeside
<1> HIDE DEF p, content
<1>5. DOMAIN main = {MainPart(q)} /\ main[MainPart(q)] = content
  BY OnlyPart
<1> HIDE DEF main, block
<1>6. ASSUME NEW part
      PROVE  Part(block, part) = IF part = MainPart(q) THEN content ELSE Part(OtherParts(q, reduced), part)
  <2>1. Part(block, part) = IF part \in DOMAIN main THEN main[part] ELSE Part(OtherParts(q, reduced), part)
    BY AlongFields DEF block
  <2> QED
    BY <1>5, <2>1
<1>7. Placed(a, block)
  BY <1>1 DEF Placed, block
<1> HIDE DEF a
<1>8. Healthy(a, block, q, mode, p)
  BY <1>2, <1>4, <1>6, <1>7 DEF Healthy
<1> QED
  BY <1>8 DEF a, p

\* A mapper and a judge find a part by a field that is positive.
LEMMA Chosen ==
    ASSUME NEW a, NEW block, Placed(a, block), NEW part, NEW fields, NEW f \in fields,
           Amount(Part(block, part), f) > 0
    PROVE  /\ Choose(a, part, fields) = Part(block, part)
           /\ (IF Shows(Part(a.wrapped, part), fields) THEN a.wrapped ELSE a.top) = block
<1>1. ~Shows(Part(<<>>, part), fields)
  BY DEF Shows, Part, Amount
<1>2. Shows(Part(block, part), fields)
  BY DEF Shows
<1> QED
  BY <1>1, <1>2, Zenon DEF Placed, Choose

(***************************************************************************)
(* What a mapper should make of it, and what a judge says then.            *)
(***************************************************************************)

\* A component that costs amount in an hour, a month, a day or a year; by the
\* gigabyte nothing is due ahead.
Reads(c, mode, amount) ==
    /\ mode = "hour" => c.hourly = amount /\ c.monthly = amount * HoursPerMonth
    /\ mode = "month" => c.hourly = 0 /\ c.monthly = amount
    /\ mode = "day" => c.hourly = 0 /\ c.monthly = Daily(amount)
    /\ mode = "year" => c.hourly = 0 /\ c.monthly = amount \div 12
    /\ mode = "gb" => c.hourly = 0 /\ c.monthly = 0

\* The first component is the price that is paid.
Right(comps, mode, p) == comps # <<>> /\ Reads(comps[1], mode, Yuan(p.paid))

\* How the other line of an answer is charged, if there is one, and its price:
\* the bandwidth of a balancer, the traffic of a balancer or a VPN gateway, and
\* the storage of a cluster.
OtherMode(q) ==
    CASE Interface(q) = "clb" ->
           (CASE q.params.InternetChargeType = "BANDWIDTH_POSTPAID_BY_HOUR" -> "hour"
              [] q.params.InternetChargeType = "TRAFFIC_POSTPAID_BY_HOUR" -> "gb"
              [] OTHER -> "none")
      [] Interface(q) = "InquiryPriceCreateVpnGateway" -> "gb"
      [] Interface(q) = "cynosdb" -> IF q.params.StoragePayMode = "PREPAID" THEN "month" ELSE "gb"
      [] OTHER -> "none"

OtherPrice(q, reduced) ==
    PriceOf(OtherMode(q), IF OtherMode(q) = "month" THEN q.params.StorageLimit ELSE 1, reduced)

\* The other components are the price of that line, and no more.
RestReads(comps, q, reduced) ==
    IF OtherMode(q) = "none" THEN Len(comps) = 1
    ELSE Len(comps) = 2 /\ Reads(comps[2], OtherMode(q), Yuan(OtherPrice(q, reduced).paid))

\* A line that is stated is read as the other component, and nothing else is.
LEMMA LineReads ==
    ASSUME NEW q, NEW reduced, NEW c, NEW d, NEW rest,
           OtherMode(q) = "none" => rest = <<>>,
           OtherMode(q) # "none" => rest = <<d>> /\ Reads(d, OtherMode(q), Yuan(OtherPrice(q, reduced).paid))
    PROVE  RestReads(<<c>> \o rest, q, reduced)
<1>1. Follows(rest, d)
  BY Zenon DEF Follows
<1>2. /\ rest = <<>> => Len(<<c>> \o rest) = 1
      /\ rest = <<d>> => Len(<<c>> \o rest) = 2 /\ (<<c>> \o rest)[2] = d
  BY <1>1, OneOrTwo
<1> QED
  BY <1>2, Zenon DEF RestReads

\* What is read of an answer with one line: one component, or none.
Alone(comps) == comps = <<>> \/ Len(comps) = 1

LEMMA AloneReads ==
    ASSUME NEW comps, Alone(comps), comps # <<>>, NEW q, OtherMode(q) = "none", NEW reduced
    PROVE  RestReads(comps, q, reduced)
  BY Zenon DEF Alone, RestReads

LEMMA AlonePaid == \A a, c : Alone(Paid(a, <<c>>))
<1>1. \A c : Len(<<c>>) = 1
  OBVIOUS
<1> QED
  BY <1>1, Zenon DEF Paid, Alone

LEMMA SimpleAlone ==
    ASSUME NEW q, NEW a, NEW cur
    PROVE  /\ Alone(CBSParse(q, a, cur)) /\ Alone(LighthouseParse(q, a, cur)) /\ Alone(ECMParse(q, a, cur))
           /\ Alone(EIPParse(q, a, cur)) /\ Alone(DirectConnectParse(q, a, cur)) /\ Alone(GAAPParse(q, a, cur))
           /\ Alone(MySQLParse(q, a, cur)) /\ Alone(PostgresParse(q, a, cur)) /\ Alone(RedisParse(q, a, cur))
           /\ Alone(MongoParse(q, a, cur)) /\ Alone(MariaDBParse(q, a, cur)) /\ Alone(SQLServerParse(q, a, cur))
           /\ Alone(DCDBParse(q, a, cur)) /\ Alone(YunjingParse(q, a, cur)) /\ Alone(CloudHSMParse(q, a, cur))
           /\ Alone(DomainParse(q, a, cur))
<1>0. Alone(<<>>)
  BY DEF Alone
<1>1. Alone(CBSParse(q, a, cur))
  BY AlonePaid, Zenon DEF CBSParse
<1>2. Alone(LighthouseParse(q, a, cur))
  BY AlonePaid, Zenon DEF LighthouseParse
<1>3. Alone(ECMParse(q, a, cur))
  BY AlonePaid, Zenon DEF ECMParse, SimpleHourlyCost
<1>4. Alone(EIPParse(q, a, cur))
  BY AlonePaid, Zenon DEF EIPParse
<1>5. Alone(DirectConnectParse(q, a, cur))
  BY <1>0, AlonePaid, Zenon DEF DirectConnectParse
<1>6. Alone(GAAPParse(q, a, cur))
  BY AlonePaid, Zenon DEF GAAPParse
<1>7. Alone(MySQLParse(q, a, cur))
  BY AlonePaid, Zenon DEF MySQLParse
<1>8. Alone(PostgresParse(q, a, cur))
  BY AlonePaid, Zenon DEF PostgresParse
<1>9. Alone(RedisParse(q, a, cur))
  BY AlonePaid, Zenon DEF RedisParse
<1>10. Alone(MongoParse(q, a, cur))
  BY AlonePaid, Zenon DEF MongoParse
<1>11. Alone(MariaDBParse(q, a, cur))
  BY AlonePaid, Zenon DEF MariaDBParse
<1>12. Alone(SQLServerParse(q, a, cur))
  BY AlonePaid, Zenon DEF SQLServerParse
<1>13. Alone(DCDBParse(q, a, cur))
  BY AlonePaid, Zenon DEF DCDBParse
<1>14. Alone(YunjingParse(q, a, cur))
  BY AlonePaid, Zenon DEF YunjingParse
<1>15. Alone(CloudHSMParse(q, a, cur))
  BY AlonePaid, Zenon DEF CloudHSMParse
<1>16. Alone(DomainParse(q, a, cur))
  BY <1>0, AlonePaid, Zenon DEF DomainParse
<1> QED
  BY <1>1, <1>2, <1>3, <1>4, <1>5, <1>6, <1>7, <1>8, <1>9, <1>10, <1>11, <1>12, <1>13, <1>14, <1>15, <1>16

\* A price that is paid is not refused.
Priced(a, p, mode, c) == a.errors = {} /\ Fair(p) /\ mode \in Modes /\ Reads(c, mode, Yuan(p.paid))

LEMMA PaidIsRead ==
    ASSUME NEW a, NEW p, NEW mode, NEW c, Priced(a, p, mode, c),
           NEW d, NEW rest, Follows(rest, d)
    PROVE  /\ Paid(a, <<c>> \o rest) = <<c>> \o rest
           /\ Right(<<c>> \o rest, mode, p)
           /\ Paid(a, <<c>>) = <<c>> /\ Right(<<c>>, mode, p)
<1>1. c.hourly > 0 \/ c.monthly > 0
  <2>1. PICK n \in Int : n = p.paid /\ n > 0
    BY DEF Priced, Fair
  <2>2. Yuan(n) > 0 /\ Daily(Yuan(n)) > 0 /\ Yuan(n) \div 12 > 0
    BY <2>1 DEF Yuan, Daily, HoursPerMonth
  <2> QED
    BY <2>1, <2>2 DEF Priced, Reads, Modes
<1>2. /\ <<c>> \o rest # <<>> /\ (<<c>> \o rest)[1] = c /\ 1 \in DOMAIN (<<c>> \o rest)
  <2>1. Len(<<c>> \o rest) \in {1, 2}
    BY OneOrTwo DEF Follows
  <2> QED
    BY <2>1, OneOrTwo
<1>3. Paid(a, <<c>> \o rest) = <<c>> \o rest
  BY <1>1, <1>2 DEF Priced, Paid
<1>4. Right(<<c>> \o rest, mode, p)
  BY <1>2 DEF Priced, Right
<1>5. 1 \in DOMAIN <<c>> /\ <<c>>[1] = c /\ <<c>> # <<>>
  OBVIOUS
<1>6. Paid(a, <<c>>) = <<c>>
  BY <1>1, <1>5 DEF Priced, Paid
<1>7. Right(<<c>>, mode, p)
  BY <1>5 DEF Priced, Right
<1> QED
  BY <1>3, <1>4, <1>6, <1>7

\* A judge that finds no price, or the one that was read, does not fail.
LEMMA NoFailure ==
    ASSUME NEW price, NEW comps
    PROVE  /\ price = 0 \/ Reads(comps[1], "hour", price) => "FAIL" \notin AsHourly(price, comps)
           /\ price = 0 \/ Reads(comps[1], "month", price) =>
                 "FAIL" \notin AsMonthly(price, comps) /\ "FAIL" \notin OnlyMonthly(price, comps)
  BY DEF AsHourly, AsMonthly, OnlyMonthly, Verdicts, Reads

-----------------------------------------------------------------------------

\* The fields of a record and maybe a discount.
LEMMA DiscountedFields ==
    ASSUME NEW f, NEW p, NEW field, NEW k, NEW m, Same(m, Along(f, IfReduced(p, field, k))),
           NEW x, x # "Currency"
    PROVE  Amount(m, x) = IF x \in DOMAIN f THEN f[x] ELSE Given(x, field, Cut(p, k * p.paid))
<1> DEFINE g == IfReduced(p, field, k)
<1>1. Amount(g, x) = Given(x, field, Cut(p, k * p.paid))
  BY ReducedFields
<1> HIDE DEF g
<1>2. Amount(Along(f, g), x) = IF x \in DOMAIN f THEN f[x] ELSE Amount(g, x)
  BY AlongFields
<1>3. Amount(m, x) = Amount(Along(f, g), x)
  BY DEF Same, g
<1> QED
  BY <1>1, <1>2, <1>3

LEMMA DiscountedUnit ==
    ASSUME NEW f, NEW p, NEW field \in Discounts, NEW k, NEW m, Same(m, Along(f, IfReduced(p, field, k)))
    PROVE  Unit(m) = Unit(f)
<1> DEFINE g == IfReduced(p, field, k)
<1>1. Word(g, "ChargeUnit") = ""
  BY ReducedUnit DEF Unit
<1> HIDE DEF g
<1>2. Word(Along(f, g), "ChargeUnit") = IF "ChargeUnit" \in DOMAIN f THEN f["ChargeUnit"] ELSE Word(g, "ChargeUnit")
  BY AlongFields
<1>3. Word(m, "ChargeUnit") = Word(Along(f, g), "ChargeUnit")
  BY DEF Same, g
<1> QED
  BY <1>1, <1>2, <1>3 DEF Unit, Word

\* The rates of an hour, and a sale.
LEMMA RatesFields ==
    ASSUME NEW p, NEW unit, NEW m, Same(m, Rates(p, unit))
    PROVE  /\ Amount(m, "UnitPrice") = p.list /\ Amount(m, "DiscountPrice") = 0 /\ Unit(m) = unit
           /\ Amount(m, "OriginalPrice") = 0
           /\ Amount(m, "UnitPriceDiscount") = Cut(p, 1 * p.paid)
<1> DEFINE f == [UnitPrice |-> p.list, ChargeUnit |-> unit]
<1>1. Same(m, Along(f, IfReduced(p, "UnitPriceDiscount", 1)))
  BY DEF Rates
<1>2. DOMAIN f = {"UnitPrice", "ChargeUnit"} /\ f["UnitPrice"] = p.list /\ f["ChargeUnit"] = unit
  OBVIOUS
<1> HIDE DEF f
<1>3. ASSUME NEW x, x # "Currency"
      PROVE  Amount(m, x) = IF x \in DOMAIN f THEN f[x] ELSE Given(x, "UnitPriceDiscount", Cut(p, 1 * p.paid))
  BY <1>1, <1>3, DiscountedFields
<1>4. Unit(m) = Unit(f)
  BY <1>1, DiscountedUnit DEF Discounts
<1> QED
  BY <1>2, <1>3, <1>4 DEF Unit, Word, Given

LEMMA SaleFields ==
    ASSUME NEW p, NEW k, NEW m, Same(m, Sale(p, k))
    PROVE  /\ Amount(m, "OriginalPrice") = k * p.list /\ Amount(m, "UnitPrice") = 0 /\ Unit(m) = ""
           /\ Amount(m, "DiscountPrice") = Cut(p, k * p.paid)
<1> DEFINE f == [OriginalPrice |-> k * p.list]
<1>1. Same(m, Along(f, IfReduced(p, "DiscountPrice", k)))
  BY DEF Sale
<1>2. DOMAIN f = {"OriginalPrice"} /\ f["OriginalPrice"] = k * p.list
  OBVIOUS
<1> HIDE DEF f
<1>3. ASSUME NEW x, x # "Currency"
      PROVE  Amount(m, x) = IF x \in DOMAIN f THEN f[x] ELSE Given(x, "DiscountPrice", Cut(p, k * p.paid))
  BY <1>1, <1>3, DiscountedFields
<1>4. Unit(m) = Unit(f)
  BY <1>1, DiscountedUnit DEF Discounts
<1> QED
  BY <1>2, <1>3, <1>4 DEF Unit, Word, Given

LEMMA TotalsFields ==
    ASSUME NEW p, NEW unit, NEW m, Same(m, Totals(p, unit))
    PROVE  /\ Amount(m, "UnitPrice") = 0 /\ Amount(m, "UnitPriceDiscount") = 0 /\ Unit(m) = unit
           /\ Amount(m, "DiscountPrice") = p.paid /\ Amount(m, "OriginalPrice") = p.list
<1> DEFINE f == [OriginalPrice |-> p.list, DiscountPrice |-> p.paid, ChargeUnit |-> unit]
<1>1. /\ DOMAIN f = {"OriginalPrice", "DiscountPrice", "ChargeUnit"} /\ f["OriginalPrice"] = p.list
      /\ f["DiscountPrice"] = p.paid /\ f["ChargeUnit"] = unit
  OBVIOUS
<1>2. f = Totals(p, unit)
  BY DEF Totals
<1> HIDE DEF f
<1> QED
  BY <1>1, <1>2 DEF Same, Amount, Word, Unit
LEMMA TotalsUnit ==
    ASSUME NEW p, NEW unit, NEW m, Same(m, Totals(p, unit))
    PROVE  Unit(m) = unit
  BY TotalsFields

-----------------------------------------------------------------------------
\* Machines, balancers and disks.
LEMMA MachineFields ==
    ASSUME NEW q, q.product \in {"cvm", "cbs", "clb"}, NEW mode \in {"hour", "month"},
           NEW p, Fair(p), NEW m, Same(m, MainFields(q, mode, p))
    PROVE  /\ mode = "hour" =>
                /\ Amount(m, "UnitPrice") > 0 /\ Amount(m, "DiscountPrice") = 0 /\ Unit(m) = "HOUR"
                /\ Rate(m) = p.paid /\ Amount(m, "UnitPriceDiscount") \in {0, p.paid}
           /\ mode = "month" =>
                /\ Unit(m) = "MONTH" /\ Amount(m, "DiscountPrice") = p.paid /\ Amount(m, "DiscountPrice") > 0
                /\ Amount(m, "UnitPriceDiscount") = 0
<1>0. p.list \in Int /\ p.list > 0 /\ p.paid \in Int /\ p.paid > 0
  BY DEF Fair
<1>3. Interface(q) \in {"cvm", "cbs", "clb"} /\ (mode = "month" => mode # "hour")
  BY DEF Interface
<1>1. CASE mode = "hour"
  <2>1. MainFields(q, mode, p) = Rates(p, "HOUR")
    BY <1>1, <1>3, SMT DEF MainFields
  <2>2. /\ Amount(m, "UnitPrice") = p.list /\ Amount(m, "DiscountPrice") = 0 /\ Unit(m) = "HOUR"
        /\ Amount(m, "UnitPriceDiscount") = Cut(p, 1 * p.paid)
    BY <2>1, RatesFields
  <2>3. 1 * p.paid = p.paid
    BY <1>0
  <2>4. Cut(p, 1 * p.paid) = p.paid \/ (Cut(p, 1 * p.paid) = 0 /\ p.paid = p.list)
    BY <2>3, CutIs
  <2> QED
    BY <1>0, <1>1, <2>2, <2>4 DEF Rate, PreferDiscount
<1>2. CASE mode = "month"
  <2>1. MainFields(q, mode, p) = Totals(p, "MONTH")
    BY <1>2, <1>3, Zenon DEF MainFields
  <2> QED
    BY <1>0, <1>2, <2>1, TotalsFields
<1> QED
  BY <1>1, <1>2

LEMMA MachineComponent ==
    ASSUME NEW q, q.product \in {"cvm", "cbs", "clb"}, NEW mode \in {"hour", "month"},
           NEW p, Fair(p), NEW m, Same(m, MainFields(q, mode, p)), NEW currency
    PROVE  Reads(FromPrice(Unit(m), Yuan(Rate(m)), Yuan(Amount(m, "DiscountPrice")), currency), mode, Yuan(p.paid))
<1>1. CASE mode = "hour"
  <2>1. Unit(m) = "HOUR" /\ Rate(m) = p.paid
    BY <1>1, MachineFields
  <2>2. FromPrice("HOUR", Yuan(p.paid), Yuan(Amount(m, "DiscountPrice")), currency)
           = Component("HOUR", Yuan(p.paid), Yuan(p.paid) * HoursPerMonth, currency)
    BY WordsUp DEF FromPrice
  <2> QED
    BY <1>1, <2>1, <2>2 DEF Reads, Component
<1>2. CASE mode = "month"
  <2>1. Unit(m) = "MONTH" /\ Amount(m, "DiscountPrice") = p.paid
    BY <1>2, MachineFields
  <2>2. FromPrice("MONTH", Yuan(Rate(m)), Yuan(p.paid), currency) = Component("MONTH", 0, Yuan(p.paid), currency)
    BY WordsUp DEF FromPrice
  <2> QED
    BY <1>2, <2>1, <2>2 DEF Reads, Component
<1> QED
  BY <1>1, <1>2

\* Their part is found, and a judge finds the price that was read, or none.
LEMMA MachineFound ==
    ASSUME NEW q, q.product \in {"cvm", "cbs", "clb"}, NEW mode \in {"hour", "month"},
           NEW p, Fair(p), NEW a, NEW block, Healthy(a, block, q, mode, p)
    PROVE  /\ MainPart(q) = IF q.product = "cbs" THEN "DiskPrice" ELSE "InstancePrice"
           /\ Same(Part(block, MainPart(q)), MainFields(q, mode, p))
           /\ Choose(a, MainPart(q), UnitPrices) = Part(block, MainPart(q))
           /\ (IF Shows(Part(a.wrapped, MainPart(q)), UnitPrices) THEN a.wrapped ELSE a.top) = block
           /\ \E f \in UnitPrices : Amount(Part(block, MainPart(q)), f) > 0
<1>1. MainPart(q) = IF q.product = "cbs" THEN "DiskPrice" ELSE "InstancePrice"
  BY DEF MainPart, Interface
<1> DEFINE m == Part(block, MainPart(q))
<1>2. Same(m, MainFields(q, mode, p)) /\ Placed(a, block)
  BY DEF Healthy
<1>3. Amount(m, "UnitPrice") > 0 \/ Amount(m, "DiscountPrice") > 0
  BY <1>2, MachineFields
<1>4. PICK f \in UnitPrices : Amount(m, f) > 0
  BY <1>3 DEF UnitPrices
<1>5. /\ Choose(a, MainPart(q), UnitPrices) = m
      /\ (IF Shows(Part(a.wrapped, MainPart(q)), UnitPrices) THEN a.wrapped ELSE a.top) = block
  BY <1>2, <1>4, Chosen
<1> QED
  BY <1>1, <1>2, <1>4, <1>5

LEMMA MachineJudged ==
    ASSUME NEW q, q.product \in {"cvm", "cbs", "clb"}, NEW mode \in {"hour", "month"},
           NEW p, Fair(p), NEW m, Same(m, MainFields(q, mode, p)), NEW comps, Right(comps, mode, p)
    PROVE  /\ "FAIL" \notin AsHourly(Yuan(Amount(m, "UnitPriceDiscount")), comps)
           /\ "FAIL" \notin OnlyMonthly(Yuan(Amount(m, "DiscountPrice")), comps)
<1>1. Yuan(0) = 0
  BY DEF Yuan
<1>2. CASE mode = "hour"
  <2>1. Amount(m, "UnitPriceDiscount") \in {0, p.paid} /\ Amount(m, "DiscountPrice") = 0
    BY <1>2, MachineFields
  <2> QED
    BY <1>1, <1>2, <2>1, NoFailure DEF Right
<1>3. CASE mode = "month"
  <2>1. Amount(m, "UnitPriceDiscount") = 0 /\ Amount(m, "DiscountPrice") = p.paid
    BY <1>3, MachineFields
  <2> QED
    BY <1>1, <1>3, <2>1, NoFailure DEF Right
<1> QED
  BY <1>2, <1>3

\* The line of a network, of which by the gigabyte only the rate is known.
LEMMA LineOffered ==
    ASSUME NEW q, Interface(q) \in {"clb", "InquiryPriceCreateVpnGateway"}, NEW p, Fair(p)
    PROVE  LET line == Part(OtherParts(q, p.reduced), "BandwidthPrice")
               mode == OtherMode(q)
           IN  /\ mode = "none" => line = Part(<<>>, "BandwidthPrice")
               /\ mode # "none" => Amount(line, "UnitPrice") > 0
               /\ mode # "none" => (mode = "gb" /\ Unit(line) = "GB") \/ (mode = "hour" /\ Unit(line) = "HOUR")
               /\ mode = "hour" => Rate(line) = OtherPrice(q, p.reduced).paid
               /\ Interface(q) # "clb" => mode = "gb"
<1> DEFINE one == PriceOf("hour", 1, p.reduced)
           line == Part(OtherParts(q, p.reduced), "BandwidthPrice")
<1>0. p.reduced \in BOOLEAN
  BY DEF Fair
<1>1. Fair(one)
  BY <1>0, FairPrice DEF Modes
<1>2. /\ OtherMode(q) \in {"none", "hour", "gb"}
      /\ OtherMode(q) = "none" => OtherParts(q, p.reduced) = <<>>
      /\ OtherMode(q) = "hour" => OtherParts(q, p.reduced) = Only("BandwidthPrice", Rates(one, "HOUR"))
      /\ OtherMode(q) = "gb" => OtherParts(q, p.reduced) = Only("BandwidthPrice", Rates(one, "GB"))
      /\ Interface(q) # "clb" => OtherMode(q) = "gb"
  <2>1. CASE Interface(q) # "clb"
    BY <2>1, SMT DEF OtherMode, OtherParts
  <2>2. CASE Interface(q) = "clb" /\ q.params.InternetChargeType = "BANDWIDTH_POSTPAID_BY_HOUR"
    BY <2>2, SMT DEF OtherMode, OtherParts
  <2>3. CASE Interface(q) = "clb" /\ q.params.InternetChargeType = "TRAFFIC_POSTPAID_BY_HOUR"
    BY <2>3, SMT DEF OtherMode, OtherParts
  <2>4. CASE /\ Interface(q) = "clb"
             /\ q.params.InternetChargeType \notin {"BANDWIDTH_POSTPAID_BY_HOUR", "TRAFFIC_POSTPAID_BY_HOUR"}
    BY <2>4, SMT DEF OtherMode, OtherParts
  <2> QED
    BY <2>1, <2>2, <2>3, <2>4
<1>3. OtherMode(q) = "hour" => OtherPrice(q, p.reduced) = one
  BY Zenon DEF OtherPrice
<1> HIDE DEF one
<1>4. OtherMode(q) = "none" => line = Part(<<>>, "BandwidthPrice")
  BY <1>2
<1>5. \A unit : line = Rates(one, unit) =>
         Unit(line) = unit /\ Amount(line, "UnitPrice") > 0 /\ Rate(line) = one.paid
  <2> SUFFICES ASSUME NEW unit, line = Rates(one, unit)
               PROVE  Unit(line) = unit /\ Amount(line, "UnitPrice") > 0 /\ Rate(line) = one.paid
    OBVIOUS
  <2> HIDE DEF line
  <2>1. Same(line, Rates(one, unit))
    BY DEF Same
  <2>2. Amount(line, "UnitPrice") = one.list /\ Unit(line) = unit /\ Amount(line, "UnitPriceDiscount") = Cut(one, 1 * one.paid)
    BY <2>1, RatesFields
  <2>3. Cut(one, 1 * one.paid) = one.paid \/ (Cut(one, 1 * one.paid) = 0 /\ one.paid = one.list)
    <3>1. 1 * one.paid = one.paid
      BY <1>1 DEF Fair
    <3> QED
      BY <1>1, <3>1, CutIs
  <2> QED
    BY <1>1, <2>2, <2>3 DEF Fair, Rate, PreferDiscount
<1>6. (OtherMode(q) = "hour" => line = Rates(one, "HOUR")) /\ (OtherMode(q) = "gb" => line = Rates(one, "GB"))
  BY <1>2, OnlyPart, Zenon
<1> HIDE DEF line
<1>7. OtherMode(q) # "none" =>
         /\ Amount(line, "UnitPrice") > 0
         /\ (OtherMode(q) = "gb" /\ Unit(line) = "GB") \/ (OtherMode(q) = "hour" /\ Unit(line) = "HOUR")
  <2>1. CASE OtherMode(q) = "gb"
    BY <1>5, <1>6, <2>1
  <2>2. CASE OtherMode(q) = "hour"
    BY <1>5, <1>6, <2>2
  <2> QED
    BY <1>2, <2>1, <2>2
<1>8. OtherMode(q) = "hour" => Rate(line) = OtherPrice(q, p.reduced).paid
  BY <1>3, <1>5, <1>6, Zenon
<1> QED
  BY <1>2, <1>4, <1>7, <1>8 DEF line

\* A line of nothing is not shown.
LEMMA NoLineShown == \A part, fields : ~Shows(Part(<<>>, part), fields)
  BY DEF Shows, Part, Amount

LEMMA CVMReads ==
    ASSUME NEW q, q.product = "cvm", NEW mode \in {"hour", "month"}, NEW p, Fair(p),
           NEW a, NEW block, Healthy(a, block, q, mode, p), NEW cur
    PROVE  /\ Right(CVMParse(q, a, cur), mode, p) /\ RestReads(CVMParse(q, a, cur), q, p.reduced)
           /\ \A comps : Right(comps, mode, p) => "FAIL" \notin cvmClb(q, a, comps)
<1> DEFINE m == Part(block, "InstancePrice")
           line == Part(block, "BandwidthPrice")
           currency == OrText(Word(m, "Currency"), TencentCurrency(cur))
           first == FromPrice(Unit(m), Yuan(Rate(m)), Yuan(Amount(m, "DiscountPrice")), currency)
           second == FromPrice(Unit(line), Yuan(Rate(line)), Yuan(Rate(line)), currency)
           rest == IF Shows(line, {"UnitPrice", "UnitPriceDiscount"}) THEN <<second>> ELSE <<>>
<1>1. /\ Same(m, MainFields(q, mode, p)) /\ a.errors = {}
      /\ Choose(a, "InstancePrice", UnitPrices) = m
      /\ (IF Shows(Part(a.wrapped, "InstancePrice"), UnitPrices) THEN a.wrapped ELSE a.top) = block
  BY MachineFound DEF Healthy, Placed
<1>2. CVMParse(q, a, cur) = Paid(a, <<first>> \o rest)
  BY <1>1 DEF CVMParse
<1>3. Reads(first, mode, Yuan(p.paid))
  BY <1>1, MachineComponent
<1>4. Follows(rest, second)
  BY DEF Follows
<1>5. ASSUME NEW comps, Right(comps, mode, p)
      PROVE  "FAIL" \notin cvmClb(q, a, comps)
  <2>1. /\ "FAIL" \notin AsHourly(Yuan(Amount(m, "UnitPriceDiscount")), comps)
        /\ "FAIL" \notin OnlyMonthly(Yuan(Amount(m, "DiscountPrice")), comps)
    BY <1>1, <1>5, MachineJudged
  <2> QED
    BY <1>1, <2>1 DEF cvmClb
<1>8. rest = <<>> /\ OtherMode(q) = "none"
  <2>1. Interface(q) = "cvm"
    BY DEF Interface
  <2>2. OtherParts(q, p.reduced) = <<>> /\ OtherMode(q) = "none"
    BY <2>1, SMT DEF OtherParts, OtherMode
  <2>3. line = Part(<<>>, "BandwidthPrice")
    BY <2>2, MachineFound DEF Healthy
  <2> QED
    BY <2>2, <2>3, NoLineShown
<1> HIDE DEF first, second, rest
<1>6. Priced(a, p, mode, first)
  BY <1>1, <1>3 DEF Priced, Modes
<1>7. Paid(a, <<first>> \o rest) = <<first>> \o rest /\ Right(<<first>> \o rest, mode, p)
  BY <1>4, <1>6, PaidIsRead
<1>9. RestReads(<<first>> \o rest, q, p.reduced)
  BY <1>8, LineReads
<1> QED
  BY <1>2, <1>5, <1>7, <1>9

LEMMA CBSReads ==
    ASSUME NEW q, q.product = "cbs", NEW mode \in {"hour", "month"}, NEW p, Fair(p),
           NEW a, NEW block, Healthy(a, block, q, mode, p), NEW cur
    PROVE  /\ Right(CBSParse(q, a, cur), mode, p)
           /\ \A comps : Right(comps, mode, p) => "FAIL" \notin cbs(q, a, comps)
<1> DEFINE m == Part(block, "DiskPrice")
           currency == OrText(Word(m, "Currency"), TencentCurrency(cur))
           first == FromPrice(Unit(m), Yuan(Rate(m)), Yuan(Amount(m, "DiscountPrice")), currency)
<1>1. /\ Same(m, MainFields(q, mode, p)) /\ a.errors = {}
      /\ Choose(a, "DiskPrice", UnitPrices) = m
  BY MachineFound DEF Healthy, Placed
<1>2. CBSParse(q, a, cur) = Paid(a, <<first>>)
  BY <1>1 DEF CBSParse
<1>3. Reads(first, mode, Yuan(p.paid))
  BY <1>1, MachineComponent
<1>5. ASSUME NEW comps, Right(comps, mode, p)
      PROVE  "FAIL" \notin cbs(q, a, comps)
  <2>1. "FAIL" \notin AsHourly(Yuan(Amount(m, "UnitPriceDiscount")), comps)
    BY <1>1, <1>5, MachineJudged
  <2> QED
    BY <1>1, <2>1 DEF cbs
<1> HIDE DEF first
<1>6. Priced(a, p, mode, first)
  BY <1>1, <1>3 DEF Priced, Modes
<1>7. Paid(a, <<first>>) = <<first>> /\ Right(<<first>>, mode, p)
  BY <1>6, PaidIsRead DEF Follows
<1> QED
  BY <1>2, <1>5, <1>7

\* A disk of a size that is not positive costs nothing, and is not priced.
LEMMA CBSRefused ==
    ASSUME NEW q, q.product = "cbs", NEW mode \in {"hour", "month"},
           NEW p, p.list \in Int, p.list <= 0, p.paid \in Int, p.paid <= 0,
           NEW a, NEW block, Healthy(a, block, q, mode, p), NEW cur
    PROVE  CBSParse(q, a, cur) = <<>>
<1> DEFINE m == Choose(a, "DiskPrice", UnitPrices)
           currency == OrText(Word(m, "Currency"), TencentCurrency(cur))
           first == FromPrice(Unit(m), Yuan(Rate(m)), Yuan(Amount(m, "DiscountPrice")), currency)
<1>1. CBSParse(q, a, cur) = Paid(a, <<first>>)
  BY DEF CBSParse
<1>2. ASSUME NEW part, Same(part, MainFields(q, mode, p)), NEW f \in UnitPrices
      PROVE  Amount(part, f) \in Int /\ Amount(part, f) <= 0
  <2>0. Interface(q) \in {"cvm", "cbs", "clb"} /\ (mode = "month" => mode # "hour")
    BY DEF Interface
  <2>1. CASE mode = "hour"
    <3>1. MainFields(q, mode, p) = Rates(p, "HOUR")
      BY <2>0, <2>1, SMT DEF MainFields
    <3>2. /\ Amount(part, "UnitPrice") = p.list /\ Amount(part, "DiscountPrice") = 0
          /\ Amount(part, "UnitPriceDiscount") = Cut(p, 1 * p.paid)
      BY <1>2, <3>1, RatesFields
    <3>3. Cut(p, 1 * p.paid) = 0 \/ Cut(p, 1 * p.paid) = 1 * p.paid
      BY Zenon DEF Cut
    <3> QED
      BY <3>2, <3>3 DEF UnitPrices
  <2>2. CASE mode = "month"
    <3>1. MainFields(q, mode, p) = Totals(p, "MONTH")
      BY <2>0, <2>2, Zenon DEF MainFields
    <3>2. /\ Amount(part, "UnitPrice") = 0 /\ Amount(part, "UnitPriceDiscount") = 0
          /\ Amount(part, "DiscountPrice") = p.paid
      BY <1>2, <3>1, TotalsFields
    <3> QED
      BY <3>2 DEF UnitPrices
  <2> QED
    BY <2>1, <2>2
<1>3. ASSUME NEW f \in UnitPrices
      PROVE  Amount(m, f) \in Int /\ Amount(m, f) <= 0
  <2>1. MainPart(q) = "DiskPrice"
    BY DEF MainPart, Interface
  <2>2. Same(Part(block, "DiskPrice"), MainFields(q, mode, p)) /\ Placed(a, block)
    BY <2>1 DEF Healthy
  <2>3. Amount(Part(block, "DiskPrice"), f) \in Int /\ Amount(Part(block, "DiskPrice"), f) <= 0
    BY <1>2, <2>2
  <2>4. Amount(Part(<<>>, "DiskPrice"), f) = 0
    BY DEF Part, Amount
  <2> QED
    BY <2>2, <2>3, <2>4 DEF Placed, Choose
<1> HIDE DEF m
<1>4. /\ Yuan(Rate(m)) \in Int /\ Yuan(Rate(m)) <= 0
      /\ Yuan(Amount(m, "DiscountPrice")) \in Int /\ Yuan(Amount(m, "DiscountPrice")) <= 0
  <2>1. \A f \in {"UnitPrice", "UnitPriceDiscount", "DiscountPrice"} : Amount(m, f) \in Int /\ Amount(m, f) <= 0
    BY <1>3 DEF UnitPrices
  <2> QED
    BY <2>1 DEF Yuan, Rate, PreferDiscount
<1>5. ASSUME NEW unit, NEW rate \in Int, rate <= 0, NEW total \in Int, total <= 0
      PROVE  /\ ~(FromPrice(unit, rate, total, currency).hourly > 0)
             /\ ~(FromPrice(unit, rate, total, currency).monthly > 0)
  <2>1. ~(rate > 0) /\ ~(total > 0) /\ ~(0 > 0) /\ ~(rate * HoursPerMonth > 0) /\ ~(Daily(rate) > 0)
    BY <1>5 DEF HoursPerMonth, Daily
  <2> QED
    BY <2>1, Zenon DEF FromPrice, Component
<1>6. ~(first.hourly > 0) /\ ~(first.monthly > 0)
  BY <1>4, <1>5
<1> HIDE DEF first
<1>7. DOMAIN <<first>> = {1} /\ <<first>>[1] = first
  OBVIOUS
<1>8. Paid(a, <<first>>) = <<>>
  BY <1>6, <1>7 DEF Paid
<1> QED
  BY <1>1, <1>8

LEMMA CLBReads ==
    ASSUME NEW q, q.product = "clb", NEW mode \in {"hour", "month"}, NEW p, Fair(p),
           NEW a, NEW block, Healthy(a, block, q, mode, p), NEW cur
    PROVE  /\ Right(CLBParse(q, a, cur), mode, p) /\ RestReads(CLBParse(q, a, cur), q, p.reduced)
           /\ \A comps : Right(comps, mode, p) => "FAIL" \notin cvmClb(q, a, comps)
<1> DEFINE m == Part(block, "InstancePrice")
           line == Part(block, "BandwidthPrice")
           first == CLBComponent(m, TencentCurrency(cur))
           second == CLBComponent(line, TencentCurrency(cur))
           rest == IF Shows(line, AllPrices) THEN <<second>> ELSE <<>>
<1>1. /\ Same(m, MainFields(q, mode, p)) /\ a.errors = {} /\ Placed(a, block)
      /\ Choose(a, "InstancePrice", UnitPrices) = m
      /\ \E f \in UnitPrices : Amount(m, f) > 0
  BY MachineFound DEF Healthy, Placed
<1>l. Interface(q) = "clb" /\ line = Part(OtherParts(q, p.reduced), "BandwidthPrice")
  BY MachineFound, SMT DEF Healthy, Interface
<1>2. ~Shows(Part(block, "LcuPrice"), AllPrices)
  <2>1. MainPart(q) = "InstancePrice"
    BY MachineFound
  <2>2. Part(block, "LcuPrice") = Part(OtherParts(q, p.reduced), "LcuPrice")
    BY <2>1 DEF Healthy
  <2>3. Interface(q) = "clb"
    BY DEF Interface
  <2>4. (\E content : OtherParts(q, p.reduced) = Only("BandwidthPrice", content)) \/ OtherParts(q, p.reduced) = <<>>
    BY <2>3, Zenon DEF OtherParts
  <2>5. \A content : Part(Only("BandwidthPrice", content), "LcuPrice") = Part(<<>>, "LcuPrice")
    BY DEF Only, Part
  <2> QED
    BY <2>2, <2>4, <2>5, NoLineShown, Zenon
<1>3. (IF \E i \in 1..3 : Shows(Part(a.wrapped, CLBParts[i]), AllPrices) THEN a.wrapped ELSE a.top) = block
  <2>1. CLBParts[1] = "InstancePrice"
    BY DEF CLBParts
  <2>2. Shows(m, AllPrices)
    BY <1>1 DEF Shows, AllPrices
  <2> QED
    BY <1>1, <2>1, <2>2, NoLineShown DEF Placed
<1>4. CLBParse(q, a, cur) = Paid(a, (<<first>> \o rest) \o <<>>)
  <2>1. /\ CLBParts[1] = "InstancePrice" /\ CLBParts[2] = "BandwidthPrice" /\ CLBParts[3] = "LcuPrice"
        /\ 2 # 1 /\ 3 # 1
    BY DEF CLBParts
  <2>2. CLBParse(q, a, cur) =
          LET of(i) == IF i = 1 \/ Shows(Part(block, CLBParts[i]), AllPrices)
                       THEN <<CLBComponent(Part(block, CLBParts[i]), TencentCurrency(cur))>> ELSE <<>>
          IN  Paid(a, of(1) \o of(2) \o of(3))
    BY <1>3, Zenon DEF CLBParse
  <2> QED
    BY <1>2, <2>1, <2>2, Zenon
<1>5. Reads(first, mode, Yuan(p.paid))
  <2>1. Unit(m) \in {"HOUR", "MONTH"}
    BY <1>1, MachineFields
  <2>2. Up(Unit(m)) # "GB"
    BY <2>1, WordsUp
  <2>3. first = FromPrice(Unit(m), Yuan(Rate(m)), Yuan(Amount(m, "DiscountPrice")), TencentCurrency(cur))
    BY <2>2 DEF CLBComponent
  <2> QED
    BY <1>1, <2>3, MachineComponent
<1>6. Follows(rest, second)
  BY DEF Follows
<1>7. ASSUME NEW comps, Right(comps, mode, p)
      PROVE  "FAIL" \notin cvmClb(q, a, comps)
  <2>1. /\ "FAIL" \notin AsHourly(Yuan(Amount(m, "UnitPriceDiscount")), comps)
        /\ "FAIL" \notin OnlyMonthly(Yuan(Amount(m, "DiscountPrice")), comps)
    BY <1>1, <1>7, MachineJudged
  <2> QED
    BY <1>1, <2>1 DEF cvmClb
<1>11. OtherMode(q) = "none" => rest = <<>>
  BY <1>l, LineOffered, NoLineShown
<1>12. OtherMode(q) # "none" => rest = <<second>> /\ Reads(second, OtherMode(q), Yuan(OtherPrice(q, p.reduced).paid))
  <2> HAVE OtherMode(q) # "none"
  <2> DEFINE price == OtherPrice(q, p.reduced)
  <2>1. /\ Amount(line, "UnitPrice") > 0
        /\ (OtherMode(q) = "gb" /\ Unit(line) = "GB") \/ (OtherMode(q) = "hour" /\ Unit(line) = "HOUR")
        /\ OtherMode(q) = "hour" => Rate(line) = price.paid
    BY <1>l, LineOffered
  <2>2. rest = <<second>>
    <3>1. "UnitPrice" \in AllPrices
      BY DEF AllPrices, UnitPrices
    <3>2. Shows(line, AllPrices)
      BY <2>1, <3>1, Zenon DEF Shows
    <3> QED
      BY <3>2, Zenon
  <2> HIDE DEF line, price
  <2>3. CASE OtherMode(q) = "gb"
    <3>1. second = Component("GB", 0, 0, TencentCurrency(cur))
      BY <2>1, <2>3, WordsUp DEF CLBComponent
    <3>2. Reads(second, "gb", Yuan(price.paid))
      BY <3>1 DEF Reads, Component
    <3> QED
      BY <2>2, <2>3, <3>2 DEF price
  <2>4. CASE OtherMode(q) = "hour"
    <3>1. second = FromPrice("HOUR", Yuan(price.paid), Yuan(Amount(line, "DiscountPrice")), TencentCurrency(cur))
      BY <2>1, <2>4, WordsUp DEF CLBComponent
    <3>2. second = Component("HOUR", Yuan(price.paid), Yuan(price.paid) * HoursPerMonth, TencentCurrency(cur))
      BY <3>1, WordsUp DEF FromPrice
    <3>3. Reads(second, "hour", Yuan(price.paid))
      BY <3>2 DEF Reads, Component
    <3> QED
      BY <2>2, <2>4, <3>3 DEF price
  <2> QED
    BY <2>1, <2>3, <2>4
<1> HIDE DEF first, second, rest
<1>8. Priced(a, p, mode, first)
  BY <1>1, <1>5 DEF Priced, Modes
<1>9. Paid(a, <<first>> \o rest) = <<first>> \o rest /\ Right(<<first>> \o rest, mode, p)
  BY <1>6, <1>8, PaidIsRead
<1>10. (<<first>> \o rest) \o <<>> = <<first>> \o rest
  BY <1>6, NothingAfter
<1>13. RestReads(<<first>> \o rest, q, p.reduced)
  BY <1>11, <1>12, LineReads
<1> QED
  BY <1>4, <1>7, <1>9, <1>10, <1>13

\* The list price is in one field, the price with a discount in another.
Offers(m, field, list, k, p) ==
    /\ Amount(m, list) = k * p.list
    /\ Amount(m, field) = k * p.paid \/ (Amount(m, field) = 0 /\ p.paid = p.list)

\* Whoever prefers the discount finds what is paid.
LEMMA PaidIsFound ==
    ASSUME NEW m, NEW field, NEW list, NEW k \in {1, 100}, NEW p, Fair(p), Offers(m, field, list, k, p)
    PROVE  /\ Amount(m, list) > 0 /\ k * p.paid > 0 /\ k * p.paid \in Int
           /\ PreferDiscount(Amount(m, field), Amount(m, list)) = k * p.paid
           /\ OrAmount(m, field, list) = k * p.paid
<1>1. p.list \in Int /\ p.list > 0 /\ p.paid \in Int /\ p.paid > 0
  BY DEF Fair
<1>2. k * p.list > 0 /\ k * p.paid > 0 /\ k * p.paid \in Int
  BY <1>1
<1> QED
  BY <1>2 DEF Offers, PreferDiscount, OrAmount

LEMMA SaleOffers ==
    ASSUME NEW p, Fair(p), NEW k, NEW m, Same(m, Sale(p, k))
    PROVE  Offers(m, "DiscountPrice", "OriginalPrice", k, p)
<1>1. Amount(m, "OriginalPrice") = k * p.list /\ Amount(m, "DiscountPrice") = Cut(p, k * p.paid)
  BY SaleFields
<1>2. Cut(p, k * p.paid) = k * p.paid \/ (Cut(p, k * p.paid) = 0 /\ p.paid = p.list)
  BY CutIs
<1> QED
  BY <1>1, <1>2 DEF Offers

-----------------------------------------------------------------------------
\* Networks.
LEMMA VPNReads ==
    ASSUME NEW q, q.product = "vpc", q.action = "InquiryPriceCreateVpnGateway", NEW mode \in {"hour", "month"},
           isPrepaid(q) <=> mode = "month",
           NEW p, Fair(p), NEW a, NEW block, Healthy(a, block, q, mode, p), NEW cur
    PROVE  /\ Right(VPNParse(q, a, cur), mode, p) /\ RestReads(VPNParse(q, a, cur), q, p.reduced)
           /\ \A comps : Right(comps, mode, p) => "FAIL" \notin vpn(q, a, comps)
<1> DEFINE m == Part(block, "InstancePrice")
           line == Part(block, "BandwidthPrice")
           first == VPNComponent(m, TencentCurrency(cur))
           second == VPNComponent(line, TencentCurrency(cur))
           rest == IF Shows(line, {"UnitPrice", "DiscountPrice", "OriginalPrice"}) THEN <<second>> ELSE <<>>
<1>0. p.paid \in Int /\ p.paid > 0
  BY DEF Fair
<1>1. Interface(q) = "InquiryPriceCreateVpnGateway"
  BY DEF Interface
<1>2. /\ Same(m, MainFields(q, mode, p)) /\ Placed(a, block) /\ a.errors = {}
      /\ line = Part(OtherParts(q, p.reduced), "BandwidthPrice")
  <2>1. MainPart(q) = "InstancePrice"
    BY <1>1 DEF MainPart
  <2> QED
    BY <2>1 DEF Healthy, Placed
<1>3. /\ Amount(m, "DiscountPrice") = p.paid
      /\ mode = "hour" => Unit(m) = "HOUR"
      /\ mode = "month" => Up(Unit(m)) \notin {"HOUR", "GB", "MONTH", "NONE", "DAY"}
  <2>1. CASE mode = "hour"
    <3> DEFINE f == [UnitPrice |-> p.list, DiscountPrice |-> p.paid, ChargeUnit |-> "HOUR"]
    <3>1. MainFields(q, mode, p) = f
      BY <1>1, <2>1, SMT DEF MainFields
    <3>2. /\ DOMAIN f = {"UnitPrice", "DiscountPrice", "ChargeUnit"}
          /\ f["DiscountPrice"] = p.paid /\ f["ChargeUnit"] = "HOUR"
      OBVIOUS
    <3> HIDE DEF f
    <3>3. Amount(f, "DiscountPrice") = p.paid /\ Word(f, "ChargeUnit") = "HOUR"
      BY <3>2 DEF Amount, Word
    <3>4. Amount(m, "DiscountPrice") = p.paid /\ Word(m, "ChargeUnit") = "HOUR"
      BY <1>2, <3>1, <3>3 DEF Same
    <3> QED
      BY <2>1, <3>4 DEF Unit
  <2>2. CASE mode = "month"
    <3>1. MainFields(q, mode, p) = Totals(p, "")
      BY <1>1, <2>2, SMT DEF MainFields
    <3>2. Amount(m, "DiscountPrice") = p.paid
      BY <1>2, <3>1, TotalsFields, Zenon
    <3>3. Unit(m) = ""
      BY <1>2, <3>1, TotalsUnit
    <3>4. Up(Unit(m)) \notin {"HOUR", "GB", "MONTH", "NONE", "DAY"}
      BY <3>3, WordsUp
    <3> QED
      BY <2>2, <3>2, <3>4
  <2> QED
    BY <2>1, <2>2
<1>4. Choose(a, "InstancePrice", {"UnitPrice", "DiscountPrice"}) = m
  <2>1. Amount(m, "DiscountPrice") > 0 /\ "DiscountPrice" \in {"UnitPrice", "DiscountPrice"}
    BY <1>0, <1>3
  <2> QED
    BY <1>2, <2>1, Chosen
<1>5. (IF \/ Shows(Part(a.wrapped, "InstancePrice"), {"UnitPrice", "DiscountPrice"})
          \/ Shows(Part(a.wrapped, "BandwidthPrice"), {"UnitPrice"}) THEN a.wrapped ELSE a.top) = block
  <2>1. Shows(m, {"UnitPrice", "DiscountPrice"})
    BY <1>0, <1>3 DEF Shows
  <2>2. \A part, fields : ~Shows(Part(<<>>, part), fields)
    BY DEF Shows, Part, Amount
  <2> QED
    BY <1>2, <2>1, <2>2 DEF Placed
<1>6. VPNParse(q, a, cur) = Paid(a, <<first>> \o rest)
  BY <1>5 DEF VPNParse
<1>7. Reads(first, mode, Yuan(p.paid))
  <2>1. CASE mode = "hour"
    <3>1. first = Component(Unit(m), Yuan(p.paid), Yuan(p.paid) * HoursPerMonth, TencentCurrency(cur))
      <4>1. Up(Unit(m)) = "HOUR"
        BY <1>3, <2>1, WordsUp
      <4>2. Amount(m, "DiscountPrice") # 0
        BY <1>0, <1>3
      <4> QED
        BY <1>3, <4>1, <4>2 DEF VPNComponent
    <3> QED
      BY <2>1, <3>1 DEF Reads, Component
  <2>2. CASE mode = "month"
    <3>1. first = FromPrice(Unit(m), 0, Yuan(p.paid), TencentCurrency(cur))
      BY <1>3, <2>2 DEF VPNComponent
    <3>2. FromPrice(Unit(m), 0, Yuan(p.paid), TencentCurrency(cur)) = Component(Unit(m), 0, Yuan(p.paid), TencentCurrency(cur))
      BY <1>3, <2>2 DEF FromPrice
    <3> QED
      BY <2>2, <3>1, <3>2 DEF Reads, Component
  <2> QED
    BY <2>1, <2>2
<1>8. Follows(rest, second)
  BY DEF Follows
<1>9. ASSUME NEW comps, Right(comps, mode, p)
      PROVE  "FAIL" \notin vpn(q, a, comps)
  <2>1. OrAmount(m, "DiscountPrice", "OriginalPrice") = p.paid /\ OrAmount(m, "DiscountPrice", "UnitPrice") = p.paid
    <3>1. Amount(m, "DiscountPrice") # 0
      BY <1>0, <1>3
    <3> QED
      BY <1>3, <3>1 DEF OrAmount
  <2>2. vpn(q, a, comps) = IF isPrepaid(q) THEN AsMonthly(Yuan(p.paid), comps) ELSE AsHourly(Yuan(p.paid), comps)
    BY <1>4, <2>1 DEF vpn
  <2> QED
    BY <1>9, <2>2, NoFailure DEF Right
<1>12. OtherMode(q) = "gb" /\ Amount(line, "UnitPrice") > 0 /\ Unit(line) = "GB"
  BY <1>1, <1>2, LineOffered
<1>13. rest = <<second>> /\ Reads(second, "gb", Yuan(OtherPrice(q, p.reduced).paid))
  <2>1. rest = <<second>>
    BY <1>12 DEF Shows
  <2> HIDE DEF line
  <2>2. second = Component("GB", 0, 0, TencentCurrency(cur))
    BY <1>12, WordsUp DEF VPNComponent
  <2> QED
    BY <2>1, <2>2 DEF Reads, Component
<1> HIDE DEF first, second, rest
<1>10. Priced(a, p, mode, first)
  BY <1>2, <1>7 DEF Priced, Modes
<1>11. Paid(a, <<first>> \o rest) = <<first>> \o rest /\ Right(<<first>> \o rest, mode, p)
  BY <1>8, <1>10, PaidIsRead
<1>14. RestReads(<<first>> \o rest, q, p.reduced)
  BY <1>12, <1>13, LineReads
<1> QED
  BY <1>6, <1>9, <1>11, <1>14

LEMMA EIPReads ==
    ASSUME NEW q, q.product = "vpc", q.action = "InquiryPriceAllocateAddresses", NEW mode \in {"hour", "month"},
           isPrepaid(q) <=> mode = "month", Up(q.params.InternetChargeType) \in WithPrepaid <=> mode = "month",
           NEW p, Fair(p), NEW a, NEW block, Healthy(a, block, q, mode, p), NEW cur
    PROVE  /\ Right(EIPParse(q, a, cur), mode, p)
           /\ \A comps : Right(comps, mode, p) => "FAIL" \notin eip(q, a, comps)
<1> DEFINE m == Part(block, "AddressPrice")
           list == IF mode = "month" THEN "OriginalPrice" ELSE "UnitPrice"
           first == SplitByBilling(Unit(m), Yuan(p.paid), mode = "hour", TencentCurrency(cur))
<1>1. Interface(q) = "InquiryPriceAllocateAddresses"
  BY DEF Interface
<1>2. Same(m, MainFields(q, mode, p)) /\ Placed(a, block) /\ a.errors = {}
  <2>1. MainPart(q) = "AddressPrice"
    BY <1>1 DEF MainPart
  <2> QED
    BY <2>1 DEF Healthy, Placed
<1>3. Offers(m, "DiscountPrice", list, 1, p)
  <2>1. CASE mode = "hour"
    <3> DEFINE f == [UnitPrice |-> p.list, ChargeUnit |-> "HOUR"]
    <3>1. MainFields(q, mode, p) = Along(f, IfReduced(p, "DiscountPrice", 1))
      BY <1>1, <2>1, SMT DEF MainFields
    <3>2. DOMAIN f = {"UnitPrice", "ChargeUnit"} /\ f["UnitPrice"] = p.list
      OBVIOUS
    <3> HIDE DEF f
    <3>3. \A x : x # "Currency" =>
             Amount(m, x) = IF x \in DOMAIN f THEN f[x] ELSE Given(x, "DiscountPrice", Cut(p, 1 * p.paid))
      BY <1>2, <3>1, DiscountedFields
    <3>4. Amount(m, "UnitPrice") = p.list /\ Amount(m, "DiscountPrice") = Cut(p, 1 * p.paid)
      BY <3>2, <3>3 DEF Given
    <3>5. Cut(p, 1 * p.paid) = 1 * p.paid \/ (Cut(p, 1 * p.paid) = 0 /\ p.paid = p.list)
      BY CutIs
    <3>6. p.list = 1 * p.list
      BY DEF Fair
    <3> QED
      BY <2>1, <3>4, <3>5, <3>6 DEF Offers
  <2>2. CASE mode = "month"
    <3>1. MainFields(q, mode, p) = Sale(p, 1)
      BY <1>1, <2>2, SMT DEF MainFields
    <3> QED
      BY <1>2, <2>2, <3>1, SaleOffers
  <2> QED
    BY <2>1, <2>2
<1>4. Amount(m, list) > 0 /\ OrAmount(m, "DiscountPrice", list) = p.paid
  <2>1. 1 * p.paid = p.paid
    BY DEF Fair
  <2> QED
    BY <1>3, <2>1, PaidIsFound
<1>5. Choose(a, "AddressPrice", {"UnitPrice", "DiscountPrice", "OriginalPrice"}) = m
  <2>1. list \in {"UnitPrice", "DiscountPrice", "OriginalPrice"}
    OBVIOUS
  <2> HIDE DEF list
  <2> QED
    BY <1>2, <1>4, <2>1, Chosen
<1>6. EIPParse(q, a, cur) = Paid(a, <<first>>)
  <2>1. EIPParse(q, a, cur) = Paid(a, <<SplitByBilling(Unit(m), Yuan(OrAmount(m, "DiscountPrice", list)), mode # "month",
                                                      TencentCurrency(cur))>>)
    BY <1>5, Zenon DEF EIPParse, OrAmount
  <2>2. mode # "month" <=> mode = "hour"
    OBVIOUS
  <2> QED
    BY <1>4, <2>1, <2>2
<1>7. Reads(first, mode, Yuan(p.paid))
  BY DEF SplitByBilling, Reads, Component
<1>8. ASSUME NEW comps, Right(comps, mode, p)
      PROVE  "FAIL" \notin eip(q, a, comps)
  <2>1. eip(q, a, comps) = IF mode = "month" THEN AsMonthly(Yuan(p.paid), comps) ELSE AsHourly(Yuan(p.paid), comps)
    BY <1>4, <1>5 DEF eip
  <2> QED
    BY <1>8, <2>1, NoFailure DEF Right
<1> HIDE DEF first
<1>9. Priced(a, p, mode, first)
  BY <1>2, <1>7 DEF Priced, Modes
<1>10. Paid(a, <<first>>) = <<first>> /\ Right(<<first>>, mode, p)
  BY <1>9, PaidIsRead DEF Follows
<1> QED
  BY <1>6, <1>8, <1>10

Lists == {"OriginalPrice", "TotalCost", "ProxyDailyPrice", "TotalPrice", "UnitPrice"}

LEMMA AlongOffers ==
    ASSUME NEW p, Fair(p), NEW k, NEW f, NEW list \in Lists, NEW field \in Discounts, NEW m,
           list \in DOMAIN f, field \notin DOMAIN f, f[list] = k * p.list,
           Same(m, Along(f, IfReduced(p, field, k)))
    PROVE  Offers(m, field, list, k, p)
<1>1. \A x : x # "Currency" =>
         Amount(m, x) = IF x \in DOMAIN f THEN f[x] ELSE Given(x, field, Cut(p, k * p.paid))
  BY DiscountedFields
<1>2. list # "Currency" /\ field # "Currency"
  BY DEF Lists, Discounts
<1>3. Amount(m, list) = k * p.list
  BY <1>1, <1>2
<1>4. Amount(m, field) = Cut(p, k * p.paid)
  BY <1>1, <1>2, Zenon DEF Given
<1>5. Cut(p, k * p.paid) = k * p.paid \/ (Cut(p, k * p.paid) = 0 /\ p.paid = p.list)
  BY CutIs
<1> QED
  BY <1>3, <1>4, <1>5 DEF Offers

\* The part of an answer that is all the fields there are.
Blank == ""

LEMMA AllInOne ==
    ASSUME NEW q, MainPart(q) = Blank, NEW mode, NEW p, NEW a, NEW block, Healthy(a, block, q, mode, p)
    PROVE  Same(Part(block, Blank), MainFields(q, mode, p)) /\ Placed(a, block) /\ a.errors = {}
  BY DEF Healthy, Placed

\* A price of the month.
LEMMA MonthRead ==
    ASSUME NEW unit, NEW amount, NEW currency
    PROVE  Reads(Component(unit, 0, amount, currency), "month", amount)
  BY DEF Reads, Component

LEMMA GAAPReads ==
    ASSUME NEW q, q.product = "gaap", NEW p, Fair(p),
           NEW a, NEW block, Healthy(a, block, q, "day", p), NEW cur
    PROVE  /\ Right(GAAPParse(q, a, cur), "day", p)
           /\ \A comps : Right(comps, "day", p) => "FAIL" \notin gaap(q, a, comps)
<1> DEFINE m == Part(block, Blank)
           first == Component("DAY", 0, Daily(Yuan(p.paid)), TencentCurrency(cur))
           f == [ProxyDailyPrice |-> p.list]
           fields == {"DiscountProxyDailyPrice", "ProxyDailyPrice"}
<1>1. Interface(q) = "gaap"
  BY DEF Interface
<1>2. Same(m, MainFields(q, "day", p)) /\ Placed(a, block) /\ a.errors = {}
  <2>1. MainPart(q) = Blank
    BY <1>1, Zenon DEF MainPart, Blank
  <2> QED
    BY <2>1, AllInOne
<1>3. Offers(m, "DiscountProxyDailyPrice", "ProxyDailyPrice", 1, p)
  <2>1. MainFields(q, "day", p) = Along(f, IfReduced(p, "DiscountProxyDailyPrice", 1))
    BY <1>1, SMT DEF MainFields
  <2>2. DOMAIN f = {"ProxyDailyPrice"} /\ f["ProxyDailyPrice"] = 1 * p.list
    BY DEF Fair
  <2> HIDE DEF f
  <2> QED
    BY <1>2, <2>1, <2>2, AlongOffers DEF Lists, Discounts
<1>4. /\ Amount(m, "ProxyDailyPrice") > 0
      /\ PreferDiscount(Amount(m, "DiscountProxyDailyPrice"), Amount(m, "ProxyDailyPrice")) = p.paid
      /\ OrAmount(m, "DiscountProxyDailyPrice", "ProxyDailyPrice") = p.paid
  <2>1. 1 * p.paid = p.paid
    BY DEF Fair
  <2> QED
    BY <1>3, <2>1, PaidIsFound
<1>5. Choose(a, Blank, fields) = m
  BY <1>2, <1>4, Chosen
<1>6. GAAPParse(q, a, cur) = Paid(a, <<first>>)
  BY <1>4, <1>5 DEF GAAPParse, Blank
<1>7. Reads(first, "day", Yuan(p.paid))
  BY DEF Reads, Component
<1>8. ASSUME NEW comps, Right(comps, "day", p)
      PROVE  "FAIL" \notin gaap(q, a, comps)
  <2>1. gaap(q, a, comps) = Verdicts(Yuan(p.paid), {<<Daily(Yuan(p.paid)), comps[1].monthly>>})
    BY <1>4, <1>5 DEF gaap, Blank
  <2>2. comps[1].monthly = Daily(Yuan(p.paid))
    BY <1>8 DEF Right, Reads
  <2> QED
    BY <2>1, <2>2 DEF Verdicts
<1> HIDE DEF first
<1>9. Priced(a, p, "day", first)
  BY <1>2, <1>7 DEF Priced, Modes
<1>10. Paid(a, <<first>>) = <<first>> /\ Right(<<first>>, "day", p)
  BY <1>9, PaidIsRead DEF Follows
<1> QED
  BY <1>6, <1>8, <1>10

\* What is sold for a month: a bundle, or a licence.
LEMMA SoldByMonth ==
    ASSUME NEW q, NEW part, NEW p, Fair(p), MainPart(q) = part, MainFields(q, "month", p) = Sale(p, 1),
           NEW a, NEW block, Healthy(a, block, q, "month", p), NEW cur
    PROVE  /\ Right(Paid(a, <<Component("MONTH", 0, Yuan(Discounted(Choose(a, part, Prices))), cur)>>), "month", p)
           /\ \A comps : Right(comps, "month", p) =>
                "FAIL" \notin OnlyMonthly(Yuan(OrAmount(Choose(a, part, Prices), "DiscountPrice", "OriginalPrice")), comps)
<1> DEFINE m == Part(block, part)
           first == Component("MONTH", 0, Yuan(p.paid), cur)
<1>2. Same(m, Sale(p, 1)) /\ Placed(a, block) /\ a.errors = {}
  BY DEF Healthy, Placed
<1>3. Offers(m, "DiscountPrice", "OriginalPrice", 1, p)
  BY <1>2, SaleOffers
<1>4. /\ Amount(m, "OriginalPrice") > 0 /\ Discounted(m) = p.paid
      /\ OrAmount(m, "DiscountPrice", "OriginalPrice") = p.paid
  <2>1. 1 * p.paid = p.paid
    BY DEF Fair
  <2> QED
    BY <1>3, <2>1, PaidIsFound DEF Discounted
<1>5. Choose(a, part, Prices) = m
  BY <1>2, <1>4, Chosen DEF Prices
<1>6. ASSUME NEW comps, Right(comps, "month", p)
      PROVE  "FAIL" \notin OnlyMonthly(Yuan(p.paid), comps)
  BY <1>6, NoFailure DEF Right
<1>7. Priced(a, p, "month", first)
  BY <1>2, MonthRead DEF Priced, Modes
<1> HIDE DEF first, m
<1>8. Paid(a, <<first>>) = <<first>> /\ Right(<<first>>, "month", p)
  BY <1>7, PaidIsRead DEF Follows
<1> QED
  BY <1>4, <1>5, <1>6, <1>8 DEF first

LEMMA BundlesRead ==
    ASSUME NEW q, NEW p, Fair(p), NEW a, NEW block, Healthy(a, block, q, "month", p), NEW cur
    PROVE  /\ q.product = "lighthouse" =>
                /\ Right(LighthouseParse(q, a, cur), "month", p)
                /\ \A comps : Right(comps, "month", p) => "FAIL" \notin lighthouse(q, a, comps)
           /\ q.product = "yunjing" =>
                /\ Right(YunjingParse(q, a, cur), "month", p)
                /\ \A comps : Right(comps, "month", p) => "FAIL" \notin cwp(q, a, comps)
<1>1. CASE q.product = "lighthouse"
  <2>1. Interface(q) = "lighthouse"
    BY <1>1 DEF Interface
  <2>2. MainPart(q) = "InstancePrice" /\ MainFields(q, "month", p) = Sale(p, 1)
    BY <2>1, SMT DEF MainPart, MainFields
  <2> QED
    BY <1>1, <2>2, SoldByMonth DEF LighthouseParse, lighthouse
<1>2. CASE q.product = "yunjing"
  <2>1. Interface(q) = "yunjing"
    BY <1>2 DEF Interface
  <2>2. MainPart(q) = "" /\ MainFields(q, "month", p) = Sale(p, 1)
    BY <2>1, SMT DEF MainPart, MainFields
  <2> QED
    BY <1>2, <2>2, SoldByMonth DEF YunjingParse, cwp
<1> QED
  BY <1>1, <1>2

LEMMA ECMReads ==
    ASSUME NEW q, q.product = "ecm", NEW p, Fair(p), NEW a, NEW block, Healthy(a, block, q, "hour", p), NEW cur
    PROVE  /\ Right(ECMParse(q, a, cur), "hour", p)
           /\ \A comps : Right(comps, "hour", p) => "FAIL" \notin ecm(q, a, comps)
<1> DEFINE m == Part(block, "InstancePrice")
           first == Component("HOUR", Yuan(p.paid), Yuan(p.paid) * HoursPerMonth, TencentCurrency(cur))
<1>1. Interface(q) = "ecm"
  BY DEF Interface
<1>2. MainPart(q) = "InstancePrice" /\ MainFields(q, "hour", p) = Sale(p, 100)
  BY <1>1, SMT DEF MainPart, MainFields
<1>3. Same(m, Sale(p, 100)) /\ Placed(a, block) /\ a.errors = {}
  BY <1>2 DEF Healthy, Placed
<1>4. Offers(m, "DiscountPrice", "OriginalPrice", 100, p)
  BY <1>3, SaleOffers
<1>5. /\ Amount(m, "OriginalPrice") > 0 /\ Discounted(m) = Yuan(p.paid)
      /\ OrAmount(m, "DiscountPrice", "OriginalPrice") = Yuan(p.paid)
  BY <1>4, PaidIsFound DEF Discounted, Yuan
<1>6. Choose(a, "InstancePrice", Prices) = m
  BY <1>3, <1>5, Chosen DEF Prices
<1> HIDE DEF m
<1>7. ECMParse(q, a, cur) = Paid(a, <<first>>)
  BY <1>5, <1>6 DEF ECMParse, SimpleHourlyCost
<1>8. ASSUME NEW comps, Right(comps, "hour", p)
      PROVE  "FAIL" \notin ecm(q, a, comps)
  <2>1. ecm(q, a, comps) = AsHourly(Yuan(p.paid), comps)
    BY <1>5, <1>6 DEF ecm
  <2> QED
    BY <1>8, <2>1, NoFailure DEF Right
<1>9. Priced(a, p, "hour", first)
  BY <1>3 DEF Priced, Modes, Reads, Component
<1> HIDE DEF first
<1>10. Paid(a, <<first>>) = <<first>> /\ Right(<<first>>, "hour", p)
  BY <1>9, PaidIsRead DEF Follows
<1> QED
  BY <1>7, <1>8, <1>10

LEMMA CloudHSMReads ==
    ASSUME NEW q, q.product = "cloudhsm", NEW p, Fair(p), NEW a, NEW block, Healthy(a, block, q, "month", p), NEW cur
    PROVE  /\ Right(CloudHSMParse(q, a, cur), "month", p)
           /\ \A comps : Right(comps, "month", p) => "FAIL" \notin cloudhsm(q, a, comps)
<1> DEFINE m == Part(block, Blank)
           costs == {"TotalCost", "OriginalCost"}
           f == [TotalCost |-> p.paid, OriginalCost |-> p.list]
           first == Component("MONTH", 0, Yuan(p.paid), TencentCurrency(cur))
<1>0. p.paid \in Int /\ p.paid > 0
  BY DEF Fair
<1>1. Interface(q) = "cloudhsm"
  BY DEF Interface
<1>2. MainPart(q) = Blank /\ MainFields(q, "month", p) = f
  BY <1>1, SMT DEF MainPart, MainFields, Blank
<1>3. Same(m, f) /\ Placed(a, block) /\ a.errors = {}
  BY <1>2, AllInOne
<1>4. Amount(m, "TotalCost") = p.paid
  <2>1. DOMAIN f = {"TotalCost", "OriginalCost"} /\ f["TotalCost"] = p.paid
    OBVIOUS
  <2> HIDE DEF f
  <2> QED
    BY <1>3, <2>1 DEF Same, Amount
<1>5. (IF costs \cap DOMAIN Part(a.wrapped, Blank) # {} THEN Part(a.wrapped, Blank) ELSE Part(a.top, Blank)) = m
  <2>1. "TotalCost" \in DOMAIN m
    BY <1>0, <1>4 DEF Amount
  <2>2. DOMAIN Part(<<>>, Blank) = {}
    BY DEF Part
  <2> HIDE DEF m
  <2>3. CASE a.wrapped = block
    BY <2>1, <2>3 DEF m
  <2>4. CASE a.wrapped = <<>> /\ a.top = block
    BY <2>2, <2>4 DEF m
  <2> QED
    BY <1>3, <2>3, <2>4 DEF Placed
<1>6. PreferDiscount(Amount(m, "TotalCost"), Amount(m, "OriginalCost")) = p.paid /\ OrAmount(m, "TotalCost", "OriginalCost") = p.paid
  BY <1>0, <1>4 DEF PreferDiscount, OrAmount
<1> HIDE DEF m
<1>7. CloudHSMParse(q, a, cur) = Paid(a, <<first>>)
  BY <1>5, <1>6 DEF CloudHSMParse, Blank
<1>8. ASSUME NEW comps, Right(comps, "month", p)
      PROVE  "FAIL" \notin cloudhsm(q, a, comps)
  <2>1. cloudhsm(q, a, comps) = OnlyMonthly(Yuan(p.paid), comps)
    BY <1>5, <1>6 DEF cloudhsm, Blank
  <2> QED
    BY <1>8, <2>1, NoFailure DEF Right
<1>9. Priced(a, p, "month", first)
  BY <1>3, MonthRead DEF Priced, Modes
<1> HIDE DEF first
<1>10. Paid(a, <<first>>) = <<first>> /\ Right(<<first>>, "month", p)
  BY <1>9, PaidIsRead DEF Follows
<1> QED
  BY <1>7, <1>8, <1>10

LEMMA DirectConnectReads ==
    ASSUME NEW q, q.product = "vpc", q.action = "InquirePriceCreateDirectConnectGateway",
           NEW p, Fair(p), NEW a, NEW block, Healthy(a, block, q, "month", p), NEW cur
    PROVE  /\ Right(DirectConnectParse(q, a, cur), "month", p)
           /\ \A comps : Right(comps, "month", p) => "FAIL" \notin dcg(q, a, comps)
<1> DEFINE m == Part(block, Blank)
           f == [TotalCost |-> p.list]
           top == Part(a.top, Blank)
           wrapped == Part(a.wrapped, Blank)
           at(i) == Amount(Part(IF i % 2 = 1 THEN a.top ELSE a.wrapped, Blank),
                           IF i <= 2 THEN "RealTotalCost" ELSE "TotalCost")
           shown == {i \in 1..4 : at(i) # 0}
           first == CHOOSE i \in shown : \A j \in shown : i <= j
           one == Component("MONTH", 0, Yuan(p.paid), TencentCurrency(cur))
<1>0. p.paid \in Int /\ p.paid > 0 /\ p.list \in Int /\ p.list > 0
  BY DEF Fair
<1>1. Interface(q) = "InquirePriceCreateDirectConnectGateway"
  BY DEF Interface
<1>2. MainPart(q) = Blank /\ MainFields(q, "month", p) = Along(f, IfReduced(p, "RealTotalCost", 1))
  BY <1>1, SMT DEF MainPart, MainFields, Blank
<1>3. Same(m, MainFields(q, "month", p)) /\ Placed(a, block) /\ a.errors = {}
  BY <1>2, AllInOne
<1>4. Offers(m, "RealTotalCost", "TotalCost", 1, p)
  <2>1. DOMAIN f = {"TotalCost"} /\ f["TotalCost"] = 1 * p.list
    BY <1>0
  <2> HIDE DEF f
  <2> QED
    BY <1>2, <1>3, <2>1, AlongOffers DEF Lists, Discounts
<1>5. /\ Amount(m, "TotalCost") = p.list
      /\ Amount(m, "RealTotalCost") = p.paid \/ (Amount(m, "RealTotalCost") = 0 /\ p.paid = p.list)
  BY <1>0, <1>4 DEF Offers
<1>6. \/ top = m /\ Amount(wrapped, "RealTotalCost") = 0 /\ Amount(wrapped, "TotalCost") = 0
      \/ wrapped = m /\ Amount(top, "RealTotalCost") = 0 /\ Amount(top, "TotalCost") = 0
  <2>1. Amount(Part(<<>>, Blank), "RealTotalCost") = 0 /\ Amount(Part(<<>>, Blank), "TotalCost") = 0
    BY DEF Part, Amount
  <2> QED
    BY <1>3, <2>1 DEF Placed
<1> HIDE DEF m, top, wrapped
<1>7. /\ at(1) = Amount(top, "RealTotalCost") /\ at(2) = Amount(wrapped, "RealTotalCost")
      /\ at(3) = Amount(top, "TotalCost") /\ at(4) = Amount(wrapped, "TotalCost")
  BY DEF top, wrapped
<1> HIDE DEF at
<1>8. shown # {} /\ at(first) = p.paid
  <2>1. PICK k \in 1..4 : k \in shown /\ at(k) = p.paid /\ \A j \in shown : k <= j
    <3>1. CASE at(1) # 0
      BY <1>0, <1>5, <1>6, <1>7, <3>1
    <3>2. CASE at(1) = 0 /\ at(2) # 0
      BY <1>0, <1>5, <1>6, <1>7, <3>2
    <3>3. CASE at(1) = 0 /\ at(2) = 0 /\ at(3) # 0
      BY <1>0, <1>5, <1>6, <1>7, <3>3
    <3>4. CASE at(1) = 0 /\ at(2) = 0 /\ at(3) = 0
      BY <1>0, <1>5, <1>6, <1>7, <3>4
    <3> QED
      BY <3>1, <3>2, <3>3, <3>4
  <2>2. first \in shown /\ \A j \in shown : first <= j
    BY <2>1
  <2> QED
    BY <2>1, <2>2
<1>9. DirectConnectParse(q, a, cur) = Paid(a, <<one>>)
  <2>1. DirectConnectParse(q, a, cur) = IF shown = {} THEN <<>>
                                        ELSE Paid(a, <<Component("MONTH", 0, Yuan(at(first)), TencentCurrency(cur))>>)
    BY Zenon DEF DirectConnectParse, at, Blank
  <2> HIDE DEF shown, first
  <2> QED
    BY <1>8, <2>1
<1>10. ASSUME NEW comps, Right(comps, "month", p)
       PROVE  "FAIL" \notin dcg(q, a, comps)
  <2>1. dcg(q, a, comps) = AsMonthly(Yuan(p.paid), comps)
    <3> DEFINE either(m1, n1) == IF m1 = 0 THEN n1 ELSE m1
               of(field) == either(Amount(top, field), Amount(wrapped, field))
    <3>1. dcg(q, a, comps) = AsMonthly(Yuan(either(of("RealTotalCost"), of("TotalCost"))), comps)
      BY Zenon DEF dcg, Blank, top, wrapped
    <3>2. either(of("RealTotalCost"), of("TotalCost")) = p.paid
      BY <1>0, <1>5, <1>6
    <3> QED
      BY <3>1, <3>2
  <2> QED
    BY <1>10, <2>1, NoFailure DEF Right
<1>11. Priced(a, p, "month", one)
  BY <1>3, MonthRead DEF Priced, Modes
<1> HIDE DEF one
<1>12. Paid(a, <<one>>) = <<one>> /\ Right(<<one>>, "month", p)
  BY <1>11, PaidIsRead DEF Follows
<1> QED
  BY <1>9, <1>10, <1>12

(***************************************************************************)
(* Databases, in hundredths.                                               *)
(***************************************************************************)

\* A price by the hour, or of the month.
LEMMA SplitRead ==
    ASSUME NEW a, a.errors = {}, NEW p, Fair(p), NEW unit, NEW currency
    PROVE  /\ Right(Paid(a, <<Component(unit, Yuan(p.paid), Yuan(p.paid) * HoursPerMonth, currency)>>), "hour", p)
           /\ Right(Paid(a, <<Component(unit, 0, Yuan(p.paid), currency)>>), "month", p)
<1> DEFINE first == Component(unit, Yuan(p.paid), Yuan(p.paid) * HoursPerMonth, currency)
           total == Component(unit, 0, Yuan(p.paid), currency)
<1>1. Reads(first, "hour", Yuan(p.paid)) /\ Reads(total, "month", Yuan(p.paid))
  BY DEF Reads, Component
<1> HIDE DEF first, total
<1>2. Priced(a, p, "hour", first) /\ Priced(a, p, "month", total)
  BY <1>1 DEF Priced, Modes
<1>3. Paid(a, <<first>>) = <<first>> /\ Right(<<first>>, "hour", p)
  BY <1>2, PaidIsRead DEF Follows
<1>4. Paid(a, <<total>>) = <<total>> /\ Right(<<total>>, "month", p)
  BY <1>2, PaidIsRead DEF Follows
<1> QED
  BY <1>3, <1>4 DEF first, total

\* The interfaces of databases whose answers are alike.
InHundredths(q) == Interface(q) \in {"cdb", "postgres", "mariadb", "sqlserver", "dcdb"}

\* The price is in the part that shows it, and the judge takes it from there.
LEMMA HundredthsOffered ==
    ASSUME NEW q, InHundredths(q), NEW mode \in {"hour", "month"}, NEW p, Fair(p),
           NEW a, NEW block, Healthy(a, block, q, mode, p)
    PROVE  LET m == Part(block, Blank) IN
           /\ Placed(a, block) /\ a.errors = {} /\ Offers(m, "Price", "OriginalPrice", 100, p)
           /\ Choose(a, Blank, {"Price", "OriginalPrice"}) = m /\ Amount(m, "OriginalPrice") > 0
           /\ PreferDiscount(Amount(m, "Price"), Amount(m, "OriginalPrice")) = Yuan(p.paid)
           /\ OrAmount(m, "Price", "OriginalPrice") = Yuan(p.paid)
<1> DEFINE m == Part(block, Blank)
           f == [OriginalPrice |-> 100 * p.list]
           fields == {"Price", "OriginalPrice"}
<1>1. MainPart(q) = Blank
  BY Zenon DEF MainPart, Blank, InHundredths
<1>2. Same(m, MainFields(q, mode, p)) /\ Placed(a, block) /\ a.errors = {}
  BY <1>1, AllInOne
<1>3. Offers(m, "Price", "OriginalPrice", 100, p)
  <2>1. MainFields(q, mode, p) = Along(f, IfReduced(p, "Price", 100))
    BY Zenon DEF MainFields, InHundredths
  <2>2. DOMAIN f = {"OriginalPrice"} /\ f["OriginalPrice"] = 100 * p.list
    OBVIOUS
  <2> HIDE DEF f
  <2> QED
    BY <1>2, <2>1, <2>2, AlongOffers DEF Lists, Discounts
<1>4. /\ Amount(m, "OriginalPrice") > 0
      /\ PreferDiscount(Amount(m, "Price"), Amount(m, "OriginalPrice")) = Yuan(p.paid)
      /\ OrAmount(m, "Price", "OriginalPrice") = Yuan(p.paid)
  BY <1>3, PaidIsFound DEF Yuan
<1>5. Choose(a, Blank, fields) = m
  BY <1>2, <1>4, Chosen
<1> QED
  BY <1>2, <1>3, <1>4, <1>5

LEMMA HundredthsJudged ==
    ASSUME NEW q, InHundredths(q), NEW mode \in {"hour", "month"}, NEW p, Fair(p),
           NEW a, NEW block, Healthy(a, block, q, mode, p), NEW comps
    PROVE  cdbFen(q, a, comps) = IF isPrepaid(q) THEN OnlyMonthly(Yuan(p.paid), comps)
                                 ELSE AsHourly(Yuan(p.paid), comps)
<1> DEFINE m == Part(block, Blank)
           fields == {"Price", "OriginalPrice"}
           wrapped == Part(a.wrapped, Blank)
           top == Part(a.top, Blank)
           price == IF Shows(wrapped, fields) THEN OrAmount(wrapped, "Price", "OriginalPrice")
                    ELSE OrAmount(top, "Price", "OriginalPrice")
<1>1. price = OrAmount(Choose(a, Blank, fields), "Price", "OriginalPrice")
  BY Zenon DEF Choose
<1>2. cdbFen(q, a, comps) = IF isPrepaid(q) THEN OnlyMonthly(price, comps) ELSE AsHourly(price, comps)
  BY Zenon DEF cdbFen, Blank
<1>3. OrAmount(Choose(a, Blank, fields), "Price", "OriginalPrice") = Yuan(p.paid)
  BY HundredthsOffered
<1> QED
  BY <1>1, <1>2, <1>3, Zenon

\* The price is found field by field, or in the part that shows it.
LEMMA Hundredths ==
    ASSUME NEW q, InHundredths(q), NEW mode \in {"hour", "month"}, NEW p, Fair(p),
           NEW a, NEW block, Healthy(a, block, q, mode, p), NEW cur
    PROVE  /\ a.errors = {}
           /\ PreferDiscount(TencentPrice(a, cur).price, TencentPrice(a, cur).original) = Yuan(p.paid)
           /\ DiscountedFromCents(a) = Yuan(p.paid)
           /\ \A comps : (isPrepaid(q) <=> mode = "month") /\ Right(comps, mode, p) => "FAIL" \notin cdbFen(q, a, comps)
<1> DEFINE m == Part(block, Blank)
           fields == {"Price", "OriginalPrice"}
<1>1. Placed(a, block) /\ a.errors = {} /\ Offers(m, "Price", "OriginalPrice", 100, p)
  BY HundredthsOffered
<1>4. /\ Choose(a, Blank, fields) = m /\ Amount(m, "OriginalPrice") > 0
      /\ PreferDiscount(Amount(m, "Price"), Amount(m, "OriginalPrice")) = Yuan(p.paid)
      /\ OrAmount(m, "Price", "OriginalPrice") = Yuan(p.paid)
  BY HundredthsOffered
<1>6. DiscountedFromCents(a) = Yuan(p.paid)
  BY <1>4, Zenon DEF DiscountedFromCents, Blank, OrAmount
<1>7. ASSUME NEW comps, isPrepaid(q) <=> mode = "month", Right(comps, mode, p)
      PROVE  "FAIL" \notin cdbFen(q, a, comps)
  <2>1. cdbFen(q, a, comps) = IF isPrepaid(q) THEN OnlyMonthly(Yuan(p.paid), comps) ELSE AsHourly(Yuan(p.paid), comps)
    BY HundredthsJudged
  <2> QED
    BY <1>7, <2>1, NoFailure DEF Right
<1>8. PreferDiscount(TencentPrice(a, cur).price, TencentPrice(a, cur).original) = Yuan(p.paid)
  <2> DEFINE of(field) == PreferDiscount(Amount(Part(a.wrapped, Blank), field), Amount(Part(a.top, Blank), field))
  <2>1. TencentPrice(a, cur).price = of("Price") /\ TencentPrice(a, cur).original = of("OriginalPrice")
    BY DEF TencentPrice, Blank
  <2>2. ASSUME NEW field, Amount(m, field) \in Int, Amount(m, field) >= 0
        PROVE  of(field) = Amount(m, field)
    <3>1. Amount(Part(<<>>, Blank), field) = 0
      BY DEF Amount, Part
    <3> QED
      BY <1>1, <2>2, <3>1 DEF Placed, PreferDiscount
  <2>3. Amount(m, "OriginalPrice") \in Int /\ Amount(m, "Price") \in Int /\ Amount(m, "Price") >= 0
    BY <1>1 DEF Offers, Fair
  <2>4. of("Price") = Amount(m, "Price") /\ of("OriginalPrice") = Amount(m, "OriginalPrice")
    BY <1>4, <2>2, <2>3
  <2> QED
    BY <1>4, <2>1, <2>4
<1> QED
  BY <1>1, <1>6, <1>7, <1>8

\* MySQL that is prepaid is judged by the hour, and fails.
LEMMA MySQLReads ==
    ASSUME NEW q, q.product = "cdb", NEW mode \in {"hour", "month"},
           q.params.PayType = "HOUR_PAID" <=> mode = "hour", ~isPrepaid(q),
           NEW p, Fair(p), NEW a, NEW block, Healthy(a, block, q, mode, p), NEW cur
    PROVE  /\ Right(MySQLParse(q, a, cur), mode, p)
           /\ mode = "hour" => \A comps : Right(comps, mode, p) => "FAIL" \notin cdbFen(q, a, comps)
           /\ mode = "month" => \A comps : Right(comps, mode, p) => "FAIL" \in cdbFen(q, a, comps)
<1>1. InHundredths(q)
  BY DEF Interface, InHundredths
<1> DEFINE price == TencentPrice(a, cur)
<1>2. a.errors = {} /\ PreferDiscount(price.price, price.original) = Yuan(p.paid)
  BY <1>1, Hundredths
<1>3. MySQLParse(q, a, cur) = Paid(a, <<SplitByBilling(q.params.PayType, PreferDiscount(price.price, price.original),
                                                       q.params.PayType = "HOUR_PAID", price.currency)>>)
  BY DEF MySQLParse
<1> HIDE DEF price
<1>4. Right(MySQLParse(q, a, cur), mode, p)
  <2>1. CASE mode = "hour"
    BY <1>2, <1>3, <2>1, SplitRead DEF SplitByBilling
  <2>2. CASE mode = "month"
    BY <1>2, <1>3, <2>2, SplitRead DEF SplitByBilling
  <2> QED
    BY <2>1, <2>2
<1>5. mode = "hour" => \A comps : Right(comps, mode, p) => "FAIL" \notin cdbFen(q, a, comps)
  BY <1>1, Hundredths
<1>6. ASSUME mode = "month", NEW comps, Right(comps, mode, p)
      PROVE  "FAIL" \in cdbFen(q, a, comps)
  <2> DEFINE y == Yuan(p.paid)
             pairs == {<<y, comps[1].hourly>>, <<y * HoursPerMonth, comps[1].monthly>>}
  <2>1. cdbFen(q, a, comps) = Verdicts(y, pairs)
    <3>1. cdbFen(q, a, comps) = AsHourly(y, comps)
      BY <1>1, HundredthsJudged
    <3> QED
      BY <3>1, Zenon DEF AsHourly
  <2>2. y # 0 /\ comps[1].hourly = 0
    BY <1>6 DEF Fair, Yuan, Right, Reads
  <2>3. <<y, comps[1].hourly>> \in pairs
    OBVIOUS
  <2> HIDE DEF y, pairs
  <2> QED
    BY <2>1, <2>2, <2>3 DEF Verdicts
<1> QED
  BY <1>4, <1>5, <1>6

LEMMA PostgresReads ==
    ASSUME NEW q, q.product = "postgres", NEW mode \in {"hour", "month"},
           q.params.InstanceChargeType = "POSTPAID" <=> mode = "hour", isPrepaid(q) <=> mode = "month",
           NEW p, Fair(p), NEW a, NEW block, Healthy(a, block, q, mode, p), NEW cur
    PROVE  /\ Right(PostgresParse(q, a, cur), mode, p)
           /\ \A comps : Right(comps, mode, p) => "FAIL" \notin cdbFen(q, a, comps)
<1>1. InHundredths(q)
  BY DEF Interface, InHundredths
<1> DEFINE price == TencentPrice(a, cur)
<1>2. a.errors = {} /\ PreferDiscount(price.price, price.original) = Yuan(p.paid)
  BY <1>1, Hundredths
<1>3. PostgresParse(q, a, cur) =
        Paid(a, <<SplitByBilling(q.params.InstanceChargeType, PreferDiscount(price.price, price.original),
                                 q.params.InstanceChargeType = "POSTPAID", price.currency)>>)
  BY DEF PostgresParse
<1> HIDE DEF price
<1>4. Right(PostgresParse(q, a, cur), mode, p)
  <2>1. CASE mode = "hour"
    BY <1>2, <1>3, <2>1, SplitRead DEF SplitByBilling
  <2>2. CASE mode = "month"
    BY <1>2, <1>3, <2>2, SplitRead DEF SplitByBilling
  <2> QED
    BY <2>1, <2>2
<1>5. \A comps : Right(comps, mode, p) => "FAIL" \notin cdbFen(q, a, comps)
  BY <1>1, Hundredths
<1> QED
  BY <1>4, <1>5

\* The databases that are asked for hundredths.
LEMMA CentsRead ==
    ASSUME NEW q, q.product \in {"mariadb", "sqlserver", "dcdb"}, NEW mode \in {"hour", "month"},
           isPrepaid(q) <=> mode = "month",
           NEW p, Fair(p), NEW a, NEW block, Healthy(a, block, q, mode, p), NEW cur
    PROVE  /\ q.product = "mariadb" /\ (Up(q.params.Paymode) \in WithPostpaid <=> mode = "hour")
                => Right(MariaDBParse(q, a, cur), mode, p)
           /\ q.product = "sqlserver" /\ (q.params.InstanceChargeType # "PREPAID" <=> mode = "hour")
                => Right(SQLServerParse(q, a, cur), mode, p)
           /\ q.product = "dcdb" /\ (Up(q.params.Paymode) # "PREPAID" <=> mode = "hour")
                => Right(DCDBParse(q, a, cur), mode, p)
           /\ \A comps : Right(comps, mode, p) => "FAIL" \notin cdbFen(q, a, comps)
<1>1. InHundredths(q)
  BY DEF Interface, InHundredths
<1>2. /\ a.errors = {} /\ DiscountedFromCents(a) = Yuan(p.paid)
      /\ PreferDiscount(TencentPrice(a, cur).price, TencentPrice(a, cur).original) = Yuan(p.paid)
  BY <1>1, Hundredths
<1>3. \A comps : Right(comps, mode, p) => "FAIL" \notin cdbFen(q, a, comps)
  BY <1>1, Hundredths
<1>4. ASSUME Up(q.params.Paymode) \in WithPostpaid <=> mode = "hour"
      PROVE  Right(MariaDBParse(q, a, cur), mode, p)
  <2>1. CASE mode = "hour"
    BY <1>2, <1>4, <2>1, SplitRead DEF MariaDBParse, SplitByBilling
  <2>2. CASE mode = "month"
    BY <1>2, <1>4, <2>2, SplitRead DEF MariaDBParse, SplitByBilling
  <2> QED
    BY <2>1, <2>2
<1>5. ASSUME q.params.InstanceChargeType # "PREPAID" <=> mode = "hour"
      PROVE  Right(SQLServerParse(q, a, cur), mode, p)
  <2>1. CASE mode = "hour"
    BY <1>2, <1>5, <2>1, SplitRead DEF SQLServerParse, SplitByBilling
  <2>2. CASE mode = "month"
    BY <1>2, <1>5, <2>2, SplitRead DEF SQLServerParse, SplitByBilling
  <2> QED
    BY <2>1, <2>2
<1>6. ASSUME Up(q.params.Paymode) # "PREPAID" <=> mode = "hour"
      PROVE  Right(DCDBParse(q, a, cur), mode, p)
  <2>1. CASE mode = "hour"
    BY <1>2, <1>6, <2>1, SplitRead DEF DCDBParse, SplitByBilling
  <2>2. CASE mode = "month"
    BY <1>2, <1>6, <2>2, SplitRead DEF DCDBParse, SplitByBilling
  <2> QED
    BY <2>1, <2>2
<1> QED
  BY <1>3, <1>4, <1>5, <1>6

\* A reader that looks at both places finds the fields where they are.
LEMMA WordOfPlaces ==
    ASSUME NEW a, NEW block, Placed(a, block), NEW part, NEW field
    PROVE  OrText(Word(Part(a.wrapped, part), field), Word(Part(a.top, part), field)) = Word(Part(block, part), field)
<1>1. Word(Part(<<>>, part), field) = ""
  <2>1. DOMAIN <<>> = {} /\ \A x : x \notin {}
    OBVIOUS
  <2>2. Part(<<>>, part) = [x \in {} |-> 0]
    BY <2>1, Zenon DEF Part
  <2>3. DOMAIN [x \in {} |-> 0] = {}
    OBVIOUS
  <2>4. field \notin DOMAIN Part(<<>>, part)
    BY <2>1, <2>2, <2>3, Zenon
  <2> QED
    BY <2>4, Zenon DEF Word
<1> QED
  BY <1>1, Zenon DEF Placed, OrText

LEMMA AmountOfPlaces ==
    ASSUME NEW a, NEW block, Placed(a, block), NEW part, NEW field,
           Amount(Part(block, part), field) \in Int, Amount(Part(block, part), field) >= 0
    PROVE  PreferDiscount(Amount(Part(a.wrapped, part), field), Amount(Part(a.top, part), field))
              = Amount(Part(block, part), field)
<1>1. Amount(Part(<<>>, part), field) = 0
  BY DEF Amount, Part
<1> QED
  BY <1>1 DEF Placed, PreferDiscount

\* A price of high precision comes with its unit.
Precise(m, p) ==
    \/ /\ Amount(m, "HighPrecisionPrice") = 100 * MicroPents * p.paid /\ Word(m, "AmountUnit") = "microPent"
       /\ Amount(m, "Price") = 100 * p.paid
    \/ /\ Amount(m, "HighPrecisionPrice") = 0 /\ Word(m, "AmountUnit") = Blank
       /\ Amount(m, "Price") = 100 * p.paid

LEMMA PreciseIsRead ==
    ASSUME NEW m, NEW p, Fair(p), Precise(m, p)
    PROVE  /\ Amount(m, "HighPrecisionPrice") \in Int /\ Amount(m, "HighPrecisionPrice") >= 0
           /\ Amount(m, "Price") \in Int /\ Amount(m, "Price") > 0
           /\ PreferDiscount(Amount(m, "HighPrecisionPrice"), Amount(m, "Price"))
                = OrAmount(m, "HighPrecisionPrice", "Price")
           /\ Trim(Word(m, "AmountUnit")) = Word(m, "AmountUnit")
           /\ Normalize(OrAmount(m, "HighPrecisionPrice", "Price"), OrText(Word(m, "AmountUnit"), "pent")) = Yuan(p.paid)
<1>1. p.paid \in Int /\ p.paid > 0
  BY DEF Fair
<1>2. CASE Word(m, "AmountUnit") = "microPent" /\ Amount(m, "HighPrecisionPrice") = 100 * MicroPents * p.paid
  <2>1. OrText(Word(m, "AmountUnit"), "pent") = "microPent" /\ Trim(Word(m, "AmountUnit")) = Word(m, "AmountUnit")
    BY <1>2, Zenon DEF OrText, Trim
  <2>2. \A n : Normalize(n, "microPent") = n \div MicroPents
    BY WordsUp DEF Normalize
  <2>3. /\ Amount(m, "HighPrecisionPrice") \in Int /\ Amount(m, "HighPrecisionPrice") > 0
        /\ Amount(m, "HighPrecisionPrice") \div MicroPents = 100 * p.paid
        /\ Amount(m, "Price") \in Int /\ Amount(m, "Price") > 0
    <3>1. Amount(m, "Price") = 100 * p.paid
      BY Zenon DEF Precise
    <3>2. PICK n \in Int : n = 100 * p.paid /\ n > 0
      BY <1>1
    <3>3. Amount(m, "HighPrecisionPrice") = n * 1000000
      BY <1>1, <1>2, <3>2 DEF MicroPents
    <3>4. n * 1000000 \in Int /\ n * 1000000 > 0 /\ (n * 1000000) \div 1000000 = n
      BY <3>2
    <3> QED
      BY <3>1, <3>2, <3>3, <3>4 DEF MicroPents
  <2>4. OrAmount(m, "HighPrecisionPrice", "Price") = Amount(m, "HighPrecisionPrice")
    BY <2>3 DEF OrAmount
  <2>5. PreferDiscount(Amount(m, "HighPrecisionPrice"), Amount(m, "Price")) = Amount(m, "HighPrecisionPrice")
    BY <2>3 DEF PreferDiscount
  <2> QED
    BY <2>1, <2>2, <2>3, <2>4, <2>5 DEF Yuan
<1>3. CASE Word(m, "AmountUnit") = Blank /\ Amount(m, "HighPrecisionPrice") = 0
  <2>1. OrText(Word(m, "AmountUnit"), "pent") = "pent" /\ Trim(Word(m, "AmountUnit")) = Word(m, "AmountUnit")
    BY <1>3, Zenon DEF OrText, Trim, Blank
  <2>2. \A n : Normalize(n, "pent") = n
    BY WordsUp DEF Normalize
  <2>3. Amount(m, "Price") = 100 * p.paid
    BY Zenon DEF Precise
  <2>4. OrAmount(m, "HighPrecisionPrice", "Price") = Amount(m, "Price")
    BY <1>3 DEF OrAmount
  <2>5. PreferDiscount(Amount(m, "HighPrecisionPrice"), Amount(m, "Price")) = Amount(m, "Price")
    BY <1>3 DEF PreferDiscount
  <2> QED
    BY <1>1, <1>3, <2>1, <2>2, <2>3, <2>4, <2>5 DEF Yuan
<1> QED
  BY <1>2, <1>3, Zenon DEF Precise

LEMMA RedisStates ==
    ASSUME NEW q, q.product = "redis", NEW mode, NEW p, Fair(p), NEW m, Same(m, MainFields(q, mode, p))
    PROVE  Precise(m, p)
<1>1. Interface(q) = "redis"
  BY DEF Interface
<1> DEFINE f == [Price |-> 100 * p.paid, HighPrecisionPrice |-> 100 * MicroPents * p.paid, AmountUnit |-> "microPent"]
           g == [Price |-> 100 * p.paid]
<1>2. MainFields(q, mode, p) = IF p.reduced THEN f ELSE g
  BY <1>1, SMT DEF MainFields
<1>3. /\ Amount(f, "Price") = 100 * p.paid /\ Amount(f, "HighPrecisionPrice") = 100 * MicroPents * p.paid
      /\ Word(f, "AmountUnit") = "microPent"
  <2>1. /\ DOMAIN f = {"Price", "HighPrecisionPrice", "AmountUnit"} /\ f["AmountUnit"] = "microPent"
        /\ f["Price"] = 100 * p.paid /\ f["HighPrecisionPrice"] = 100 * MicroPents * p.paid
    OBVIOUS
  <2> HIDE DEF f
  <2> QED
    BY <2>1 DEF Amount, Word
<1>4. Amount(g, "Price") = 100 * p.paid /\ Amount(g, "HighPrecisionPrice") = 0 /\ Word(g, "AmountUnit") = Blank
  <2>1. DOMAIN g = {"Price"} /\ g["Price"] = 100 * p.paid
    OBVIOUS
  <2> HIDE DEF g
  <2>2. Word(g, "AmountUnit") = Blank
    BY <2>1 DEF Word, Blank
  <2> QED
    BY <2>1, <2>2 DEF Amount
<1> HIDE DEF f, g
<1>5. MainFields(q, mode, p) = f \/ MainFields(q, mode, p) = g
  BY <1>2, Zenon
<1>6. /\ Amount(m, "Price") = Amount(MainFields(q, mode, p), "Price")
      /\ Amount(m, "HighPrecisionPrice") = Amount(MainFields(q, mode, p), "HighPrecisionPrice")
      /\ Word(m, "AmountUnit") = Word(MainFields(q, mode, p), "AmountUnit")
  BY DEF Same
<1> QED
  BY <1>3, <1>4, <1>5, <1>6, Zenon DEF Precise

LEMMA RedisReads ==
    ASSUME NEW q, q.product = "redis", NEW mode \in {"hour", "month"},
           q.params.BillingMode = "0" <=> mode = "hour", isPrepaid(q) <=> mode = "month",
           NEW p, Fair(p), NEW a, NEW block, Healthy(a, block, q, mode, p), NEW cur
    PROVE  /\ Right(RedisParse(q, a, cur), mode, p)
           /\ \A comps : Right(comps, mode, p) => "FAIL" \notin redis(q, a, comps)
<1> DEFINE m == Part(block, Blank)
           wrapped == Part(a.wrapped, Blank)
           top == Part(a.top, Blank)
           of(field) == PreferDiscount(Amount(wrapped, field), Amount(top, field))
           word(field, default) == OrText(OrText(Word(wrapped, field), Word(top, field)), default)
           currency == word("Currency", TencentCurrency(cur))
           price == Normalize(PreferDiscount(of("HighPrecisionPrice"), of("Price")), word("AmountUnit", "pent"))
           unit == IF q.params.BillingMode = "0" THEN "HOUR" ELSE "MONTH"
<1>1. MainPart(q) = Blank
  BY Zenon DEF MainPart, Blank, Interface
<1>2. Same(m, MainFields(q, mode, p)) /\ Placed(a, block) /\ a.errors = {}
  BY <1>1, AllInOne
<1>3. Precise(m, p)
  BY <1>2, RedisStates
<1>4. /\ Amount(m, "Price") > 0 /\ Trim(Word(m, "AmountUnit")) = Word(m, "AmountUnit")
      /\ Normalize(OrAmount(m, "HighPrecisionPrice", "Price"), OrText(Word(m, "AmountUnit"), "pent")) = Yuan(p.paid)
  BY <1>3, PreciseIsRead
<1>5. Choose(a, Blank, {"Price", "HighPrecisionPrice"}) = m
  BY <1>2, <1>4, Chosen
<1>6. price = Yuan(p.paid)
  <2>1. of("HighPrecisionPrice") = Amount(m, "HighPrecisionPrice") /\ of("Price") = Amount(m, "Price")
    <3>1. /\ Amount(m, "HighPrecisionPrice") \in Int /\ Amount(m, "HighPrecisionPrice") >= 0
          /\ Amount(m, "Price") \in Int /\ Amount(m, "Price") > 0
      BY <1>3, PreciseIsRead
    <3> QED
      BY <1>2, <3>1, AmountOfPlaces
  <2>2. OrText(Word(wrapped, "AmountUnit"), Word(top, "AmountUnit")) = Word(m, "AmountUnit")
    BY <1>2, WordOfPlaces
  <2>3. PreferDiscount(Amount(m, "HighPrecisionPrice"), Amount(m, "Price")) = OrAmount(m, "HighPrecisionPrice", "Price")
    BY <1>3, PreciseIsRead
  <2> QED
    BY <1>4, <2>1, <2>2, <2>3, Zenon
<1>7. RedisParse(q, a, cur) = Paid(a, <<SplitByBilling(unit, price, q.params.BillingMode = "0", currency)>>)
  BY Zenon DEF RedisParse, Blank
<1> HIDE DEF price, currency, unit
<1>8. Right(RedisParse(q, a, cur), mode, p)
  <2>1. CASE mode = "hour"
    BY <1>2, <1>6, <1>7, <2>1, SplitRead DEF SplitByBilling
  <2>2. CASE mode = "month"
    BY <1>2, <1>6, <1>7, <2>2, SplitRead DEF SplitByBilling
  <2> QED
    BY <2>1, <2>2
<1>9. ASSUME NEW comps, Right(comps, mode, p)
      PROVE  "FAIL" \notin redis(q, a, comps)
  <2>1. redis(q, a, comps) = IF isPrepaid(q) THEN AsMonthly(Yuan(p.paid), comps) ELSE AsHourly(Yuan(p.paid), comps)
    BY <1>4, <1>5, Zenon DEF redis, Blank
  <2> QED
    BY <1>9, <2>1, NoFailure DEF Right
<1> QED
  BY <1>8, <1>9

LEMMA MongoReads ==
    ASSUME NEW q, q.product = "mongodb", NEW mode \in {"hour", "month"},
           q.params.InstanceChargeType \in WithHour <=> mode = "hour", isPrepaid(q) <=> mode = "month",
           NEW p, Fair(p), NEW a, NEW block, Healthy(a, block, q, mode, p), NEW cur
    PROVE  /\ Right(MongoParse(q, a, cur), mode, p)
           /\ \A comps : Right(comps, mode, p) => "FAIL" \notin mongodb(q, a, comps)
<1> DEFINE m == Part(block, "Price")
           rates == {"UnitPrice", "DiscountPrice"}
           total == IF Amount(m, "DiscountPrice") = 0 THEN Amount(m, "OriginalPrice") ELSE Amount(m, "DiscountPrice")
           rate == IF Amount(m, "UnitPrice") = 0 THEN total ELSE Amount(m, "UnitPrice")
           word == q.params.InstanceChargeType
<1>0. p.paid \in Int /\ p.paid > 0
  BY DEF Fair
<1>1. Interface(q) = "mongodb"
  BY DEF Interface
<1>2. Same(m, MainFields(q, mode, p)) /\ Placed(a, block) /\ a.errors = {}
  <2>1. MainPart(q) = "Price"
    BY <1>1 DEF MainPart
  <2> QED
    BY <2>1 DEF Healthy, Placed
<1>3. /\ mode = "hour" => Amount(m, "UnitPrice") = p.paid
      /\ mode = "month" => Amount(m, "DiscountPrice") = p.paid
  <2>1. CASE mode = "hour"
    <3> DEFINE f == [UnitPrice |-> p.paid]
    <3>1. MainFields(q, mode, p) = f
      BY <1>1, <2>1, SMT DEF MainFields
    <3>2. DOMAIN f = {"UnitPrice"} /\ f["UnitPrice"] = p.paid
      OBVIOUS
    <3> HIDE DEF f
    <3>3. Amount(m, "UnitPrice") = p.paid
      BY <1>2, <3>1, <3>2 DEF Same, Amount
    <3> QED
      BY <2>1, <3>3
  <2>2. CASE mode = "month"
    <3>1. MainFields(q, mode, p) = Totals(p, "")
      BY <1>1, <2>2, SMT DEF MainFields
    <3>2. Amount(m, "DiscountPrice") = p.paid
      BY <1>2, <3>1, TotalsFields, Zenon
    <3> QED
      BY <2>2, <3>2
  <2> QED
    BY <2>1, <2>2
<1>4. Choose(a, "Price", rates) = m
  <2>1. CASE mode = "hour"
    BY <1>0, <1>2, <1>3, <2>1, Chosen
  <2>2. CASE mode = "month"
    BY <1>0, <1>2, <1>3, <2>2, Chosen
  <2> QED
    BY <2>1, <2>2
<1>5. /\ mode = "hour" => rate = p.paid
      /\ mode = "month" => total = p.paid
  BY <1>0, <1>3
<1>6. MongoParse(q, a, cur) = Paid(a, <<SplitByBilling(word, Yuan(IF word \in WithHour THEN rate ELSE total),
                                                       word \in WithHour, TencentCurrency(cur))>>)
  <2>1. rates = {"DiscountPrice", "UnitPrice"}
    OBVIOUS
  <2> QED
    BY <1>4, <2>1, Zenon DEF MongoParse
<1> HIDE DEF rate, total
<1>7. Right(MongoParse(q, a, cur), mode, p)
  <2>1. CASE mode = "hour"
    <3>1. MongoParse(q, a, cur) = Paid(a, <<Component(word, Yuan(p.paid), Yuan(p.paid) * HoursPerMonth, TencentCurrency(cur))>>)
      BY <1>5, <1>6, <2>1 DEF SplitByBilling
    <3> QED
      BY <1>2, <2>1, <3>1, SplitRead
  <2>2. CASE mode = "month"
    <3>1. ~(word \in WithHour)
      BY <2>2
    <3>2. MongoParse(q, a, cur) = Paid(a, <<Component(word, 0, Yuan(p.paid), TencentCurrency(cur))>>)
      <4>1. (IF word \in WithHour THEN rate ELSE total) = p.paid
        BY <1>5, <2>2, <3>1
      <4>2. SplitByBilling(word, Yuan(p.paid), word \in WithHour, TencentCurrency(cur))
               = Component(word, 0, Yuan(p.paid), TencentCurrency(cur))
        BY <3>1 DEF SplitByBilling
      <4> QED
        BY <1>6, <4>1, <4>2
    <3>3. Right(Paid(a, <<Component(word, 0, Yuan(p.paid), TencentCurrency(cur))>>), "month", p)
      BY <1>2, SplitRead
    <3> QED
      BY <2>2, <3>2, <3>3
  <2> QED
    BY <2>1, <2>2
<1>8. ASSUME NEW comps, Right(comps, mode, p)
      PROVE  "FAIL" \notin mongodb(q, a, comps)
  <2>1. mongodb(q, a, comps) = IF isPrepaid(q) THEN AsMonthly(Yuan(Amount(m, "DiscountPrice")), comps)
                               ELSE AsHourly(Yuan(Amount(m, "UnitPrice")), comps)
    BY <1>4, Zenon DEF mongodb
  <2> QED
    BY <1>3, <1>8, <2>1, NoFailure DEF Right
<1> QED
  BY <1>7, <1>8

(***************************************************************************)
(* A cluster of CynosDB: compute, and storage that is paid in its own way. *)
(***************************************************************************)

\* The components of a month come to.
Sum(comps) == comps[1].monthly + (IF Len(comps) = 2 THEN comps[2].monthly ELSE 0)

\* The compute is offered for the hour, or for the month.
LEMMA ComputeOffered ==
    ASSUME NEW q, q.product = "cynosdb", NEW mode \in {"hour", "month"}, NEW p, Fair(p),
           NEW m, Same(m, MainFields(q, mode, p))
    PROVE  /\ mode = "hour" =>
                /\ Offers(m, "UnitPriceDiscount", "UnitPrice", 100, p)
                /\ Unit(m) = "HOUR"
           /\ mode = "month" =>
                /\ Offers(m, "TotalPriceDiscount", "TotalPrice", 100, p)
                /\ Amount(m, "TotalPriceDiscount") = Cut(p, 100 * p.paid)
<1>1. Interface(q) = "cynosdb"
  BY DEF Interface
<1>2. MainFields(q, mode, p) = Trade(p, mode, "HOUR")
  BY <1>1, SMT DEF MainFields
<1>3. CASE mode = "hour"
  <2> DEFINE f == [UnitPrice |-> 100 * p.list, ChargeUnit |-> "HOUR"]
  <2>1. Trade(p, mode, "HOUR") = Along(f, IfReduced(p, "UnitPriceDiscount", 100))
    BY <1>3 DEF Trade
  <2>2. DOMAIN f = {"UnitPrice", "ChargeUnit"} /\ f["UnitPrice"] = 100 * p.list /\ f["ChargeUnit"] = "HOUR"
    OBVIOUS
  <2> HIDE DEF f
  <2>3. Offers(m, "UnitPriceDiscount", "UnitPrice", 100, p)
    BY <1>2, <2>1, <2>2, AlongOffers DEF Lists, Discounts
  <2>4. Unit(m) = Unit(f)
    BY <1>2, <2>1, DiscountedUnit DEF Discounts
  <2> QED
    BY <1>3, <2>2, <2>3, <2>4 DEF Unit, Word
<1>4. CASE mode = "month"
  <2> DEFINE f == [TotalPrice |-> 100 * p.list]
  <2>1. Trade(p, mode, "HOUR") = Along(f, IfReduced(p, "TotalPriceDiscount", 100))
    BY <1>4 DEF Trade
  <2>2. DOMAIN f = {"TotalPrice"} /\ f["TotalPrice"] = 100 * p.list
    OBVIOUS
  <2> HIDE DEF f
  <2>3. Offers(m, "TotalPriceDiscount", "TotalPrice", 100, p)
    BY <1>2, <2>1, <2>2, AlongOffers DEF Lists, Discounts
  <2>4. Amount(m, "TotalPriceDiscount") = Cut(p, 100 * p.paid)
    BY <1>2, <2>1, <2>2, DiscountedFields DEF Given
  <2> QED
    BY <1>4, <2>3, <2>4
<1> QED
  BY <1>3, <1>4

\* The storage, of which by the hour only the rate is known.
LEMMA StorageOffered ==
    ASSUME NEW q, q.product = "cynosdb",
           q.params.StoragePayMode = "PREPAID" => q.params.StorageLimit \in Int /\ q.params.StorageLimit > 0,
           NEW p, Fair(p), NEW cur
    PROVE  LET line == Part(OtherParts(q, p.reduced), "StoragePrice")
               d == CynosComponent(line, q.params.StoragePayMode = "PREPAID", cur)
           IN  /\ Shows(line, TradePrices)
               /\ "monthly" \in DOMAIN d /\ d.hourly = 0 /\ d.monthly \in Int
               /\ Amount(line, "TotalPriceDiscount") = Cut(p, d.monthly)
               /\ Reads(d, OtherMode(q), Yuan(OtherPrice(q, p.reduced).paid))
<1> DEFINE storage == PriceOf("month", q.params.StorageLimit, p.reduced)
           one == PriceOf("hour", 1, p.reduced)
           line == Part(OtherParts(q, p.reduced), "StoragePrice")
           d == CynosComponent(line, q.params.StoragePayMode = "PREPAID", cur)
<1>1. Interface(q) = "cynosdb" /\ p.reduced \in BOOLEAN
  BY DEF Interface, Fair
<1>2. line = IF q.params.StoragePayMode = "PREPAID" THEN Trade(storage, "month", "") ELSE Trade(one, "hour", "GB*h")
  <2>1. \A reduced : OtherParts(q, reduced) =
           Only("StoragePrice", IF q.params.StoragePayMode = "PREPAID"
                                THEN Trade(PriceOf("month", q.params.StorageLimit, reduced), "month", "")
                                ELSE Trade(PriceOf("hour", 1, reduced), "hour", "GB*h"))
    <3>1. Interface(q) # "clb" /\ Interface(q) # "InquiryPriceCreateVpnGateway"
      BY <1>1
    <3> QED
      BY <1>1, <3>1, Zenon DEF OtherParts
  <2> DEFINE content == IF q.params.StoragePayMode = "PREPAID" THEN Trade(storage, "month", "")
                        ELSE Trade(one, "hour", "GB*h")
  <2>2. OtherParts(q, p.reduced) = Only("StoragePrice", content)
    BY <2>1, Zenon
  <2> HIDE DEF content
  <2>3. Part(Only("StoragePrice", content), "StoragePrice") = content
    BY OnlyPart
  <2> QED
    BY <2>2, <2>3, Zenon DEF content
<1>3. CASE q.params.StoragePayMode = "PREPAID"
  <2>1. Fair(storage) /\ storage.reduced = p.reduced
    BY <1>1, <1>3, FairPrice DEF Modes
  <2> HIDE DEF storage
  <2> DEFINE f == [TotalPrice |-> 100 * storage.list]
  <2>2. line = Along(f, IfReduced(storage, "TotalPriceDiscount", 100))
    BY <1>2, <1>3 DEF Trade
  <2>3. DOMAIN f = {"TotalPrice"} /\ f["TotalPrice"] = 100 * storage.list
    OBVIOUS
  <2> HIDE DEF f, line
  <2>4. Same(line, Along(f, IfReduced(storage, "TotalPriceDiscount", 100)))
    BY <2>2 DEF Same
  <2>5. Offers(line, "TotalPriceDiscount", "TotalPrice", 100, storage)
    BY <2>1, <2>3, <2>4, AlongOffers DEF Lists, Discounts
  <2>6. /\ Amount(line, "TotalPrice") > 0 /\ 100 * storage.paid \in Int
        /\ OrAmount(line, "TotalPriceDiscount", "TotalPrice") = 100 * storage.paid
    BY <2>1, <2>5, PaidIsFound
  <2>7. Amount(line, "TotalPriceDiscount") = Cut(storage, 100 * storage.paid)
    BY <2>3, <2>4, DiscountedFields DEF Given
  <2>8. \A n : Cut(storage, n) = Cut(p, n)
    BY <2>1, Zenon DEF Cut
  <2>9. Shows(line, TradePrices)
    BY <2>6 DEF Shows, TradePrices
  <2>10. "monthly" \in DOMAIN d /\ d.hourly = 0 /\ d.monthly = 100 * storage.paid
    <3>1. d = Component("MONTH", 0, OrAmount(line, "TotalPriceDiscount", "TotalPrice"), cur)
      BY <1>3, Zenon DEF CynosComponent, OrAmount
    <3> QED
      BY <2>6, <3>1 DEF Component
  <2>11. OtherMode(q) = "month" /\ OtherPrice(q, p.reduced) = storage
    <3>1. OtherMode(q) = "month"
      BY <1>1, <1>3, SMT DEF OtherMode
    <3> QED
      BY <3>1, Zenon DEF OtherPrice, storage
  <2> HIDE DEF d
  <2>12. Reads(d, OtherMode(q), Yuan(OtherPrice(q, p.reduced).paid))
    BY <2>10, <2>11 DEF Reads, Yuan
  <2> QED
    BY <2>6, <2>7, <2>8, <2>9, <2>10, <2>12 DEF line, d
<1>4. CASE q.params.StoragePayMode # "PREPAID"
  <2>0. one.list \in Int /\ one.list > 0
    <3>1. Fair(one)
      BY <1>1, FairPrice DEF Modes
    <3> QED
      BY <3>1 DEF Fair
  <2> HIDE DEF one
  <2> DEFINE f == [UnitPrice |-> 100 * one.list, ChargeUnit |-> "GB*h"]
  <2>1. line = Along(f, IfReduced(one, "UnitPriceDiscount", 100))
    BY <1>2, <1>4 DEF Trade
  <2>2. DOMAIN f = {"UnitPrice", "ChargeUnit"} /\ f["ChargeUnit"] = "GB*h" /\ f["UnitPrice"] = 100 * one.list
    OBVIOUS
  <2> HIDE DEF f, line
  <2>3. Same(line, Along(f, IfReduced(one, "UnitPriceDiscount", 100)))
    BY <2>1 DEF Same
  <2>4. Amount(line, "TotalPriceDiscount") = 0
    BY <2>2, <2>3, DiscountedFields DEF Given
  <2>5. Unit(line) = "GB*h"
    <3>1. Unit(line) = Unit(f)
      BY <2>3, DiscountedUnit DEF Discounts
    <3> QED
      BY <2>2, <3>1 DEF Unit, Word
  <2>6. d = Component("GB*H", 0, 0, cur)
    BY <1>4, <2>5 DEF CynosComponent
  <2>7. Cut(p, 0) = 0
    BY Zenon DEF Cut
  <2>8. Shows(line, TradePrices)
    <3>1. Amount(line, "UnitPrice") = 100 * one.list
      BY <2>2, <2>3, DiscountedFields
    <3> QED
      BY <2>0, <3>1 DEF Shows, TradePrices
  <2>9. OtherMode(q) = "gb"
    BY <1>1, <1>4, SMT DEF OtherMode
  <2>10. "monthly" \in DOMAIN d /\ d.hourly = 0 /\ d.monthly = 0
    BY <2>6 DEF Component
  <2> HIDE DEF d
  <2>11. Reads(d, OtherMode(q), Yuan(OtherPrice(q, p.reduced).paid))
    BY <2>9, <2>10 DEF Reads
  <2> QED
    BY <2>4, <2>7, <2>8, <2>10, <2>11 DEF line, d
<1> QED
  BY <1>3, <1>4

\* The total the judge of a month looks for.
CynosTotal(a) ==
    LET block == IF Shows(Part(a.wrapped, "InstancePrice"), {"UnitPriceDiscount", "TotalPriceDiscount"})
                 THEN a.wrapped ELSE a.top
    IN  Amount(Part(block, "InstancePrice"), "TotalPriceDiscount")
        + Amount(Part(block, "StoragePrice"), "TotalPriceDiscount")

LEMMA CynosMonth ==
    ASSUME NEW q, isPrepaid(q), NEW a, NEW comps
    PROVE  cynosdb(q, a, comps) = Verdicts(CynosTotal(a), {<<CynosTotal(a), Sum(comps)>>})
  BY Zenon DEF cynosdb, CynosTotal, Sum

\* What is read of the two parts.
Cluster(q, a, block, cur) ==
    LET line == Part(block, "StoragePrice")
        first == CynosComponent(Part(block, "InstancePrice"), q.params.InstancePayMode = "PREPAID", TencentCurrency(cur))
        second == CynosComponent(line, q.params.StoragePayMode = "PREPAID", TencentCurrency(cur))
    IN  Paid(a, <<first>> \o (IF Shows(line, TradePrices) THEN <<second>> ELSE <<>>))

LEMMA ClusterIsRead ==
    ASSUME NEW q, NEW a, NEW block, Placed(a, block), Shows(Part(block, "InstancePrice"), TradePrices), NEW cur
    PROVE  CynosParse(q, a, cur) = Cluster(q, a, block, cur)
<1> DEFINE shown(b) == {part \in {"InstancePrice", "StoragePrice"} : Shows(Part(b, part), TradePrices)}
           chosen == IF shown(a.wrapped) # {} THEN a.wrapped ELSE a.top
           first(b) == CynosComponent(Part(b, "InstancePrice"), q.params.InstancePayMode = "PREPAID", TencentCurrency(cur))
           second(b) == CynosComponent(Part(b, "StoragePrice"), q.params.StoragePayMode = "PREPAID", TencentCurrency(cur))
<1>1. CynosParse(q, a, cur) =
        Paid(a, <<first(chosen)>> \o (IF "StoragePrice" \in shown(chosen) THEN <<second(chosen)>> ELSE <<>>))
  BY Zenon DEF CynosParse
<1>2. \A part : ~Shows(Part(<<>>, part), TradePrices)
  BY DEF Shows, Part, Amount
<1>3. "InstancePrice" \in shown(block) /\ shown(<<>>) = {}
  BY <1>2
<1>4. chosen = block
  BY <1>3, Zenon DEF Placed
<1>5. "StoragePrice" \in shown(block) <=> Shows(Part(block, "StoragePrice"), TradePrices)
  OBVIOUS
<1> HIDE DEF shown, chosen
<1> QED
  BY <1>1, <1>4, <1>5, Zenon DEF Cluster

\* The component of the compute.
LEMMA ComputeRead ==
    ASSUME NEW p, Fair(p), NEW m, NEW cur
    PROVE  /\ Offers(m, "UnitPriceDiscount", "UnitPrice", 100, p) /\ Unit(m) = "HOUR"
                => Reads(CynosComponent(m, FALSE, cur), "hour", Yuan(p.paid)) /\ Shows(m, TradePrices)
           /\ Offers(m, "TotalPriceDiscount", "TotalPrice", 100, p)
                => Reads(CynosComponent(m, TRUE, cur), "month", Yuan(p.paid)) /\ Shows(m, TradePrices)
<1>1. ASSUME Offers(m, "UnitPriceDiscount", "UnitPrice", 100, p), Unit(m) = "HOUR"
      PROVE  Reads(CynosComponent(m, FALSE, cur), "hour", Yuan(p.paid)) /\ Shows(m, TradePrices)
  <2>1. Amount(m, "UnitPrice") > 0 /\ OrAmount(m, "UnitPriceDiscount", "UnitPrice") = 100 * p.paid
    BY <1>1, PaidIsFound
  <2> DEFINE n == OrAmount(m, "UnitPriceDiscount", "UnitPrice")
  <2>2. CynosComponent(m, FALSE, cur) = Component("HOUR", n, n * HoursPerMonth, cur)
    BY <1>1, Zenon DEF CynosComponent, OrAmount
  <2>3. Shows(m, TradePrices)
    BY <2>1 DEF Shows, TradePrices
  <2>4. n = Yuan(p.paid)
    BY <2>1 DEF Yuan
  <2> HIDE DEF n
  <2>5. Reads(Component("HOUR", n, n * HoursPerMonth, cur), "hour", n)
    BY DEF Reads, Component
  <2> QED
    BY <2>2, <2>3, <2>4, <2>5, Zenon
<1>2. ASSUME Offers(m, "TotalPriceDiscount", "TotalPrice", 100, p)
      PROVE  Reads(CynosComponent(m, TRUE, cur), "month", Yuan(p.paid)) /\ Shows(m, TradePrices)
  <2>1. Amount(m, "TotalPrice") > 0 /\ OrAmount(m, "TotalPriceDiscount", "TotalPrice") = 100 * p.paid
    BY <1>2, PaidIsFound
  <2> DEFINE n == OrAmount(m, "TotalPriceDiscount", "TotalPrice")
  <2>2. CynosComponent(m, TRUE, cur) = Component("MONTH", 0, n, cur)
    BY Zenon DEF CynosComponent, OrAmount
  <2>3. Shows(m, TradePrices)
    BY <2>1 DEF Shows, TradePrices
  <2>4. n = Yuan(p.paid)
    BY <2>1 DEF Yuan
  <2> HIDE DEF n
  <2>5. Reads(Component("MONTH", 0, n, cur), "month", n)
    BY DEF Reads, Component
  <2> QED
    BY <2>2, <2>3, <2>4, <2>5, Zenon
<1> QED
  BY <1>1, <1>2

\* A cluster by the hour is judged by its compute.
LEMMA CynosHourJudged ==
    ASSUME NEW q, ~isPrepaid(q), NEW p, Fair(p), NEW a, NEW block, Placed(a, block),
           Offers(Part(block, "InstancePrice"), "UnitPriceDiscount", "UnitPrice", 100, p),
           NEW comps, Right(comps, "hour", p)
    PROVE  "FAIL" \notin cynosdb(q, a, comps)
<1> DEFINE m == Part(block, "InstancePrice")
           fields == {"UnitPriceDiscount", "TotalPriceDiscount"}
           chosen == IF Shows(Part(a.wrapped, "InstancePrice"), fields) THEN a.wrapped ELSE a.top
           price == Amount(Part(chosen, "InstancePrice"), "UnitPriceDiscount")
<1>1. cynosdb(q, a, comps) = AsHourly(price, comps)
  BY Zenon DEF cynosdb
<1>2. price = 0 \/ price = Yuan(p.paid)
  <2>1. CASE Amount(m, "UnitPriceDiscount") = 100 * p.paid
    <3>1. Amount(m, "UnitPriceDiscount") > 0
      BY <2>1 DEF Fair
    <3>2. chosen = block
      BY <3>1, Chosen
    <3> QED
      BY <2>1, <3>2 DEF Yuan
  <2>2. CASE Amount(m, "UnitPriceDiscount") = 0
    <3>1. chosen \in {block, <<>>}
      BY Zenon DEF Placed
    <3>2. Amount(Part(<<>>, "InstancePrice"), "UnitPriceDiscount") = 0
      BY DEF Amount, Part
    <3> QED
      BY <2>2, <3>1, <3>2
  <2> QED
    BY <2>1, <2>2 DEF Offers
<1>3. Reads(comps[1], "hour", Yuan(p.paid))
  BY DEF Right
<1> HIDE DEF price
<1> QED
  BY <1>1, <1>2, <1>3, NoFailure

\* One by the month is judged by all that is paid, which only a discount tells.
LEMMA CynosMonthJudged ==
    ASSUME NEW p, Fair(p), NEW a, NEW block, Placed(a, block), NEW n \in Int,
           Amount(Part(block, "InstancePrice"), "TotalPriceDiscount") = Cut(p, 100 * p.paid),
           Amount(Part(block, "StoragePrice"), "TotalPriceDiscount") = Cut(p, n)
    PROVE  CynosTotal(a) = 0 \/ CynosTotal(a) = Yuan(p.paid) + n
<1> DEFINE fields == {"UnitPriceDiscount", "TotalPriceDiscount"}
           chosen == IF Shows(Part(a.wrapped, "InstancePrice"), fields) THEN a.wrapped ELSE a.top
<1>1. CynosTotal(a) = Amount(Part(chosen, "InstancePrice"), "TotalPriceDiscount")
                      + Amount(Part(chosen, "StoragePrice"), "TotalPriceDiscount")
  BY Zenon DEF CynosTotal
<1>2. CASE \A k : Cut(p, k) = k
  <2>1. Amount(Part(block, "InstancePrice"), "TotalPriceDiscount") > 0
    BY <1>2 DEF Fair
  <2>2. chosen = block
    BY <2>1, Chosen
  <2> QED
    BY <1>1, <1>2, <2>2 DEF Yuan, Fair
<1>3. CASE \A k : Cut(p, k) = 0
  <2>1. chosen \in {block, <<>>}
    BY Zenon DEF Placed
  <2>2. \A part : Amount(Part(<<>>, part), "TotalPriceDiscount") = 0
    BY DEF Amount, Part
  <2> QED
    BY <1>1, <1>3, <2>1, <2>2
<1> QED
  BY <1>2, <1>3, CutIs

\* The components of a month, their sum, and what the judge looks for.
Summed(comps, total, p) ==
    /\ comps # <<>> /\ Len(comps) = 2 /\ DOMAIN comps = {1, 2}
    /\ "monthly" \in DOMAIN comps[1] /\ comps[1].monthly = Yuan(p.paid) /\ Yuan(p.paid) \in Int
    /\ "monthly" \in DOMAIN comps[2] /\ comps[2].hourly = 0 /\ comps[2].monthly \in Int
    /\ total = 0 \/ total = Sum(comps)

LEMMA SummedIs ==
    ASSUME NEW p, Fair(p), NEW c, "monthly" \in DOMAIN c, c.monthly = Yuan(p.paid),
           NEW d, "monthly" \in DOMAIN d, d.hourly = 0, d.monthly \in Int,
           NEW total, total = 0 \/ total = Yuan(p.paid) + d.monthly
    PROVE  Summed(<<c>> \o <<d>>, total, p)
<1> DEFINE comps == <<c>> \o <<d>>
<1>1. comps # <<>> /\ comps[1] = c /\ DOMAIN comps = 1..Len(comps) /\ Len(comps) = 2 /\ comps[2] = d
  BY OneOrTwo DEF Follows
<1> HIDE DEF comps
<1>2. Yuan(p.paid) \in Int
  BY DEF Fair, Yuan
<1>3. Sum(comps) = Yuan(p.paid) + d.monthly
  BY <1>1, <1>2 DEF Sum
<1>4. DOMAIN comps = {1, 2}
  BY <1>1
<1>5. Summed(comps, total, p)
  BY <1>1, <1>2, <1>3, <1>4 DEF Summed
<1> QED
  BY <1>5 DEF comps

LEMMA CynosReads ==
    ASSUME NEW q, q.product = "cynosdb", NEW mode \in {"hour", "month"},
           q.params.InstancePayMode = "PREPAID" <=> mode = "month", isPrepaid(q) <=> mode = "month",
           q.params.StoragePayMode = "PREPAID" => q.params.StorageLimit \in Int /\ q.params.StorageLimit > 0,
           NEW p, Fair(p), NEW a, NEW block, Healthy(a, block, q, mode, p), NEW cur
    PROVE  /\ Right(CynosParse(q, a, cur), mode, p) /\ RestReads(CynosParse(q, a, cur), q, p.reduced)
           /\ mode = "hour" => \A comps : Right(comps, mode, p) => "FAIL" \notin cynosdb(q, a, comps)
           /\ mode = "month" => Summed(CynosParse(q, a, cur), CynosTotal(a), p)
<1> DEFINE m == Part(block, "InstancePrice")
           line == Part(block, "StoragePrice")
           currency == TencentCurrency(cur)
           first == CynosComponent(m, q.params.InstancePayMode = "PREPAID", currency)
           second == CynosComponent(line, q.params.StoragePayMode = "PREPAID", currency)
<1>1. Same(m, MainFields(q, mode, p)) /\ Placed(a, block) /\ a.errors = {} /\ line = Part(OtherParts(q, p.reduced), "StoragePrice")
  <2>1. MainPart(q) = "InstancePrice"
    BY Zenon DEF MainPart, Interface
  <2>2. "StoragePrice" # MainPart(q)
    BY <2>1
  <2> QED
    BY <2>1, <2>2, Zenon DEF Healthy, Placed
<1>2. /\ Shows(line, TradePrices)
      /\ "monthly" \in DOMAIN second /\ second.hourly = 0 /\ second.monthly \in Int
      /\ Amount(line, "TotalPriceDiscount") = Cut(p, second.monthly)
      /\ Reads(second, OtherMode(q), Yuan(OtherPrice(q, p.reduced).paid))
  <2>1. LET other == Part(OtherParts(q, p.reduced), "StoragePrice")
            d == CynosComponent(other, q.params.StoragePayMode = "PREPAID", currency)
        IN  /\ Shows(other, TradePrices)
            /\ "monthly" \in DOMAIN d /\ d.hourly = 0 /\ d.monthly \in Int
            /\ Amount(other, "TotalPriceDiscount") = Cut(p, d.monthly)
            /\ Reads(d, OtherMode(q), Yuan(OtherPrice(q, p.reduced).paid))
    BY StorageOffered
  <2> QED
    BY <1>1, <2>1, Zenon
<1>3. Reads(first, mode, Yuan(p.paid)) /\ Shows(m, TradePrices)
  <2>1. CASE mode = "hour"
    <3>1. Offers(m, "UnitPriceDiscount", "UnitPrice", 100, p) /\ Unit(m) = "HOUR"
      BY <1>1, <2>1, ComputeOffered
    <3>2. Reads(CynosComponent(m, FALSE, currency), "hour", Yuan(p.paid)) /\ Shows(m, TradePrices)
      BY <3>1, ComputeRead
    <3>3. ~(q.params.InstancePayMode = "PREPAID")
      BY <2>1
    <3>4. first = CynosComponent(m, FALSE, currency)
      BY <3>3, Zenon DEF CynosComponent
    <3> QED
      BY <2>1, <3>2, <3>4, Zenon
  <2>2. CASE mode = "month"
    <3>1. Offers(m, "TotalPriceDiscount", "TotalPrice", 100, p)
      BY <1>1, <2>2, ComputeOffered
    <3>2. Reads(CynosComponent(m, TRUE, currency), "month", Yuan(p.paid)) /\ Shows(m, TradePrices)
      BY <3>1, ComputeRead
    <3>3. q.params.InstancePayMode = "PREPAID"
      BY <2>2
    <3>4. first = CynosComponent(m, TRUE, currency)
      BY <3>3, Zenon DEF CynosComponent
    <3> QED
      BY <2>2, <3>2, <3>4, Zenon
  <2> QED
    BY <2>1, <2>2
<1>4. CynosParse(q, a, cur) = Paid(a, <<first>> \o <<second>>)
  <2>1. CynosParse(q, a, cur) = Cluster(q, a, block, cur)
    BY <1>1, <1>3, ClusterIsRead
  <2> QED
    BY <1>2, <2>1, Zenon DEF Cluster
<1>5. Follows(<<second>>, second)
  BY Zenon DEF Follows
<1>6. mode = "hour" => \A comps : Right(comps, mode, p) => "FAIL" \notin cynosdb(q, a, comps)
  <2> SUFFICES ASSUME mode = "hour", NEW comps, Right(comps, "hour", p)
               PROVE  "FAIL" \notin cynosdb(q, a, comps)
    OBVIOUS
  <2>1. Offers(m, "UnitPriceDiscount", "UnitPrice", 100, p)
    BY <1>1, ComputeOffered
  <2>2. ~isPrepaid(q)
    OBVIOUS
  <2> QED
    BY <1>1, <2>1, <2>2, CynosHourJudged
<1>7. mode = "month" => CynosTotal(a) = 0 \/ CynosTotal(a) = Yuan(p.paid) + second.monthly
  <2> SUFFICES ASSUME mode = "month"
               PROVE  CynosTotal(a) = 0 \/ CynosTotal(a) = Yuan(p.paid) + second.monthly
    OBVIOUS
  <2>1. Amount(m, "TotalPriceDiscount") = Cut(p, 100 * p.paid)
    BY <1>1, ComputeOffered
  <2> HIDE DEF second
  <2> QED
    BY <1>1, <1>2, <2>1, CynosMonthJudged
<1>8. "monthly" \in DOMAIN first
  <2>1. \A unit, h, n, c : "monthly" \in DOMAIN Component(unit, h, n, c)
    BY DEF Component
  <2> QED
    BY <2>1, Zenon DEF CynosComponent
<1> HIDE DEF first, second
<1>9. Priced(a, p, mode, first)
  BY <1>1, <1>3 DEF Priced, Modes
<1>10. Paid(a, <<first>> \o <<second>>) = <<first>> \o <<second>> /\ Right(<<first>> \o <<second>>, mode, p)
  <2>1. \A rest : Follows(rest, second) =>
          Paid(a, <<first>> \o rest) = <<first>> \o rest /\ Right(<<first>> \o rest, mode, p)
    BY <1>9, PaidIsRead
  <2> QED
    BY <1>5, <2>1, Zenon
<1>11. mode = "month" => Summed(<<first>> \o <<second>>, CynosTotal(a), p)
  <2> SUFFICES ASSUME mode = "month"
               PROVE  Summed(<<first>> \o <<second>>, CynosTotal(a), p)
    OBVIOUS
  <2>1. first.monthly = Yuan(p.paid)
    BY <1>3 DEF Reads
  <2> QED
    BY <1>2, <1>7, <1>8, <2>1, SummedIs
<1>12. RestReads(<<first>> \o <<second>>, q, p.reduced)
  <2>1. OtherMode(q) # "none"
    BY SMT DEF OtherMode, Interface
  <2> QED
    BY <1>2, <2>1, LineReads
<1> QED
  BY <1>4, <1>6, <1>10, <1>11, <1>12

-----------------------------------------------------------------------------

\* A list of names has the price of a new one, and that of another entry.
LEMMA NamesOffered ==
    ASSUME NEW p, Fair(p), NEW first
    PROVE  LET list == NameList(p, first) IN
           /\ list # <<>> /\ DOMAIN list = {1, 2}
           /\ \E n \in {1, 2} :
                /\ list[n].Operation = "new" /\ Word(list[n], "Operation") = "new"
                /\ OrAmount(list[n], "RealPrice", "Price") = p.paid
                /\ list[3 - n].Operation = "renew" /\ Word(list[3 - n], "Operation") = "renew"
                /\ OrAmount(list[3 - n], "RealPrice", "Price") = 7 * p.list
<1> DEFINE renew == [Operation |-> "renew", Price |-> 7 * p.list]
           offer == Along([Operation |-> "new", Price |-> p.list], IfReduced(p, "RealPrice", 1))
           list == NameList(p, first)
<1>1. /\ list # <<>> /\ DOMAIN list = {1, 2}
      /\ \E n \in {1, 2} : list[n] = offer /\ list[3 - n] = renew
  BY DEF NameList
<1>2. Word(offer, "Operation") = "new" /\ Amount(offer, "Price") = p.list /\ offer.Operation = "new"
  <2> DEFINE f == [Operation |-> "new", Price |-> p.list]
  <2>1. "Operation" \in DOMAIN f /\ "Price" \in DOMAIN f /\ f["Operation"] = "new" /\ f["Price"] = p.list
    OBVIOUS
  <2> HIDE DEF f
  <2>2. offer["Operation"] = f["Operation"]
    BY <2>1 DEF f, Along
  <2> QED
    BY <2>1, <2>2, AlongFields DEF f
<1>3. Amount(offer, "RealPrice") = Cut(p, p.paid)
  <2>1. Amount(offer, "RealPrice") = Amount(IfReduced(p, "RealPrice", 1), "RealPrice")
    BY AlongFields
  <2>2. Amount(IfReduced(p, "RealPrice", 1), "RealPrice") = Cut(p, 1 * p.paid)
    BY ReducedFields DEF Given
  <2>3. 1 * p.paid = p.paid
    BY DEF Fair
  <2> QED
    BY <2>1, <2>2, <2>3
<1> HIDE DEF offer
<1>4. OrAmount(offer, "RealPrice", "Price") = p.paid
  BY <1>2, <1>3 DEF Fair, Cut, OrAmount
<1>5. renew.Operation = "renew" /\ Word(renew, "Operation") = "renew"
  BY DEF Word
<1>6. OrAmount(renew, "RealPrice", "Price") = 7 * p.list
  BY DEF OrAmount, Amount
<1> HIDE DEF list, renew
<1>7. \E n \in {1, 2} :
        /\ list[n].Operation = "new" /\ Word(list[n], "Operation") = "new"
        /\ OrAmount(list[n], "RealPrice", "Price") = p.paid
        /\ list[3 - n].Operation = "renew" /\ Word(list[3 - n], "Operation") = "renew"
        /\ OrAmount(list[3 - n], "RealPrice", "Price") = 7 * p.list
  BY <1>1, <1>2, <1>4, <1>5, <1>6
<1> QED
  BY <1>1, <1>7 DEF list

\* The price of a name is that of the entry for a new one.
LEMMA DomainReads ==
    ASSUME NEW q, NEW p, Fair(p), NEW a, NEW first, Placed(a, NameList(p, first)), NEW cur
    PROVE  Right(DomainParse(q, a, cur), "year", p)
<1> DEFINE list == NameList(p, first)
           comp == Component("MONTH", 0, Yuan(p.paid) \div 12, TencentCurrency(cur))
<1>1. list # <<>> /\ DOMAIN list = {1, 2}
  BY NamesOffered
<1>2. PICK n \in {1, 2} : /\ Word(list[n], "Operation") = "new" /\ OrAmount(list[n], "RealPrice", "Price") = p.paid
                          /\ Word(list[3 - n], "Operation") = "renew"
  BY NamesOffered
<1> HIDE DEF list
<1>5. (IF a.wrapped # <<>> THEN a.wrapped ELSE a.top) = list /\ a.errors = {}
  BY <1>1 DEF Placed, list
<1> DEFINE new == {i \in DOMAIN list : Up(Word(list[i], "Operation")) = "NEW"}
<1>6. new = {n}
  <2>1. \A i \in {1, 2} : i = n \/ i = 3 - n
    OBVIOUS
  <2>2. Up("renew") # "NEW" /\ Up("new") = "NEW"
    BY WordsUp
  <2>3. \A i \in {1, 2} : Up(Word(list[i], "Operation")) = "NEW" <=> i = n
    BY <1>2, <2>1, <2>2
  <2> QED
    BY <1>1, <2>3
<1>7. new # {} /\ (CHOOSE i \in new : \A j \in new : i <= j) = n
  BY <1>6
<1> HIDE DEF new
<1>8. DomainParse(q, a, cur) = Paid(a, <<comp>>)
  <2> DEFINE all == IF a.wrapped # <<>> THEN a.wrapped ELSE a.top
             some == {i \in DOMAIN all : Up(Word(all[i], "Operation")) = "NEW"}
             chosen == IF some = {} THEN all[1] ELSE all[CHOOSE i \in some : \A j \in some : i <= j]
             price == IF Amount(chosen, "RealPrice") = 0 THEN Amount(chosen, "Price") ELSE Amount(chosen, "RealPrice")
  <2>1. DomainParse(q, a, cur) =
            IF all = <<>> THEN <<>>
            ELSE Paid(a, <<Component("MONTH", 0, Yuan(price) \div 12, TencentCurrency(cur))>>)
    BY Zenon DEF DomainParse
  <2>2. all = list /\ some = new
    BY <1>5 DEF new
  <2>3. chosen = list[n]
    BY <1>7, <2>2
  <2>4. price = p.paid
    BY <1>2, <2>3 DEF OrAmount
  <2> HIDE DEF all, price
  <2> QED
    BY <1>1, <2>1, <2>2, <2>4
<1>9. Reads(comp, "year", Yuan(p.paid))
  BY DEF Reads, Component
<1> HIDE DEF comp
<1>10. Priced(a, p, "year", comp)
  BY <1>5, <1>9 DEF Priced, Modes
<1>11. Follows(<<>>, comp)
  BY DEF Follows
<1>12. Paid(a, <<comp>>) = <<comp>> /\ Right(<<comp>>, "year", p)
  BY <1>10, <1>11, PaidIsRead
<1> QED
  BY <1>8, <1>12

\* The first entry of an answer with names is for a new one.
NewFirst(a) == \A list \in {a.top, a.wrapped} : list # <<>> => list[1].Operation = "new"

\* The judge is right about a list that starts with the price of a new name,
\* and fails what is read right of any other.
LEMMA DomainJudged ==
    ASSUME NEW q, NEW p, Fair(p), NEW a, NEW first, Placed(a, NameList(p, first)),
           NEW comps, Right(comps, "year", p)
    PROVE  /\ NewFirst(a) => "FAIL" \notin domain(q, a, comps)
           /\ ~NewFirst(a) /\ Yuan(7 * p.list) \div 12 # Yuan(p.paid) \div 12 => "FAIL" \in domain(q, a, comps)
<1> DEFINE list == NameList(p, first)
           yearly == Yuan(OrAmount(list[1], "RealPrice", "Price"))
           pairs == {<<yearly \div 12, comps[1].monthly>>}
<1>1. list # <<>> /\ DOMAIN list = {1, 2}
  BY NamesOffered
<1>2. \/ list[1].Operation = "new" /\ OrAmount(list[1], "RealPrice", "Price") = p.paid
      \/ list[1].Operation = "renew" /\ OrAmount(list[1], "RealPrice", "Price") = 7 * p.list
  <2>1. PICK n \in {1, 2} : /\ list[n].Operation = "new" /\ OrAmount(list[n], "RealPrice", "Price") = p.paid
                            /\ list[3 - n].Operation = "renew" /\ OrAmount(list[3 - n], "RealPrice", "Price") = 7 * p.list
    BY NamesOffered
  <2> HIDE DEF list
  <2> QED
    BY <2>1
<1> HIDE DEF list
<1>3. (IF a.wrapped # <<>> THEN a.wrapped ELSE a.top) = list
  BY <1>1 DEF Placed, list
<1>4. domain(q, a, comps) = Verdicts(yearly, pairs)
  BY <1>1, <1>3, Zenon DEF domain
<1>5. NewFirst(a) <=> list[1].Operation = "new"
  BY <1>1 DEF Placed, NewFirst, list
<1>6. comps[1].monthly = Yuan(p.paid) \div 12
  BY DEF Right, Reads
<1>7. NewFirst(a) => "FAIL" \notin Verdicts(yearly, pairs)
  <2> HAVE NewFirst(a)
  <2>1. yearly = Yuan(p.paid)
    BY <1>2, <1>5
  <2> HIDE DEF yearly
  <2> QED
    BY <1>6, <2>1 DEF Verdicts
<1>8. ~NewFirst(a) /\ Yuan(7 * p.list) \div 12 # Yuan(p.paid) \div 12 => "FAIL" \in Verdicts(yearly, pairs)
  <2> HAVE ~NewFirst(a) /\ Yuan(7 * p.list) \div 12 # Yuan(p.paid) \div 12
  <2>1. yearly = Yuan(7 * p.list)
    BY <1>2, <1>5
  <2>2. yearly # 0
    BY <2>1 DEF Yuan, Fair
  <2> HIDE DEF yearly
  <2>3. yearly \div 12 # comps[1].monthly
    BY <1>6, <2>1
  <2> QED
    BY <2>2, <2>3 DEF Verdicts
<1> QED
  BY <1>4, <1>7, <1>8

(***************************************************************************)
(* What passes costs as much as what does not fail.                        *)
(***************************************************************************)

LEMMA PairsAgree ==
    ASSUME NEW price, NEW pairs
    PROVE  /\ Verdicts(price, pairs) = {"PASS"} => price # 0 /\ \A n, x : <<n, x>> \in pairs => n = x
           /\ price # 0 /\ "FAIL" \notin Verdicts(price, pairs) => \A n, x : <<n, x>> \in pairs => n = x
<1>1. ASSUME price # 0, "FAIL" \notin Verdicts(price, pairs)
      PROVE  \A n, x : <<n, x>> \in pairs => n = x
  BY <1>1 DEF Verdicts
<1>2. ASSUME Verdicts(price, pairs) = {"PASS"}
      PROVE  price # 0 /\ "FAIL" \notin Verdicts(price, pairs)
  <2>1. price # 0
    BY <1>2 DEF Verdicts
  <2> QED
    BY <1>2, <2>1
<1> QED
  BY <1>1, <1>2

LEMMA FormsCompare ==
    ASSUME NEW price, NEW c, NEW d
    PROVE  /\ AsHourly(price, c) = {"PASS"} /\ "FAIL" \notin AsHourly(price, d) => c[1].monthly = d[1].monthly
           /\ AsMonthly(price, c) = {"PASS"} /\ "FAIL" \notin AsMonthly(price, d) => c[1].monthly = d[1].monthly
           /\ OnlyMonthly(price, c) = {"PASS"} /\ "FAIL" \notin OnlyMonthly(price, d) => c[1].monthly = d[1].monthly
<1> DEFINE hourly(x) == {<<price, x[1].hourly>>, <<price * HoursPerMonth, x[1].monthly>>}
           monthly(x) == {<<price, x[1].monthly>>}
           only(x) == {<<price, x[1].monthly>>, <<0, x[1].hourly>>}
<1>1. \A x : /\ <<price * HoursPerMonth, x[1].monthly>> \in hourly(x)
             /\ <<price, x[1].monthly>> \in monthly(x) /\ <<price, x[1].monthly>> \in only(x)
  OBVIOUS
<1>2. \A x : /\ AsHourly(price, x) = Verdicts(price, hourly(x)) /\ AsMonthly(price, x) = Verdicts(price, monthly(x))
             /\ OnlyMonthly(price, x) = Verdicts(price, only(x))
  BY DEF AsHourly, AsMonthly, OnlyMonthly
<1> HIDE DEF hourly, monthly, only
<1>3. Verdicts(price, hourly(c)) = {"PASS"} /\ "FAIL" \notin Verdicts(price, hourly(d)) => c[1].monthly = d[1].monthly
  BY <1>1, PairsAgree
<1>4. Verdicts(price, monthly(c)) = {"PASS"} /\ "FAIL" \notin Verdicts(price, monthly(d)) => c[1].monthly = d[1].monthly
  BY <1>1, PairsAgree
<1>5. Verdicts(price, only(c)) = {"PASS"} /\ "FAIL" \notin Verdicts(price, only(d)) => c[1].monthly = d[1].monthly
  BY <1>1, PairsAgree
<1> QED
  BY <1>2, <1>3, <1>4, <1>5

\* A judge of one component: whatever passes costs what does not fail.
Compares(name, q, a) ==
    \A c, d : Validate(name, q, a, c) = {"PASS"} /\ "FAIL" \notin Validate(name, q, a, d) => c[1].monthly = d[1].monthly

\* The products with such a judge; one of a cluster by the hour is, too.
AloneJudged ==
    {"cvm", "clb", "cbs", "mysql", "postgresql", "mariadb", "sqlserver", "dcdb", "eip", "redis",
     "vpn_gateway", "dc_gateway", "mongodb", "lighthouse", "ecm", "gaap", "cwp", "cloudhsm", "domain"}

LEMMA JudgesCompare ==
    ASSUME NEW name, NEW q, NEW a, name \in AloneJudged \/ (name = "cynosdb" /\ ~isPrepaid(q))
    PROVE  Compares(name, q, a)
<1>1. CASE name \in {"cvm", "clb"}
  <2>1. \A comps : Validate(name, q, a, comps) = cvmClb(q, a, comps)
    BY <1>1, SMT DEF Validate
  <2>2. \A c, d : cvmClb(q, a, c) = {"PASS"} /\ "FAIL" \notin cvmClb(q, a, d) => c[1].monthly = d[1].monthly
    BY FormsCompare, Zenon DEF cvmClb
  <2> QED
    BY <2>1, <2>2 DEF Compares
<1>2. CASE name = "cbs"
  <2>1. \A comps : Validate(name, q, a, comps) = cbs(q, a, comps)
    BY <1>2, SMT DEF Validate
  <2>2. \A c, d : cbs(q, a, c) = {"PASS"} /\ "FAIL" \notin cbs(q, a, d) => c[1].monthly = d[1].monthly
    BY FormsCompare, Zenon DEF cbs
  <2> QED
    BY <2>1, <2>2 DEF Compares
<1>3. CASE name \in {"mysql", "postgresql", "mariadb", "sqlserver", "dcdb"}
  <2>1. \A comps : Validate(name, q, a, comps) = cdbFen(q, a, comps)
    BY <1>3, SMT DEF Validate
  <2>2. \A c, d : cdbFen(q, a, c) = {"PASS"} /\ "FAIL" \notin cdbFen(q, a, d) => c[1].monthly = d[1].monthly
    BY FormsCompare, Zenon DEF cdbFen
  <2> QED
    BY <2>1, <2>2 DEF Compares
<1>4. CASE name = "eip"
  <2>1. \A comps : Validate(name, q, a, comps) = eip(q, a, comps)
    BY <1>4, SMT DEF Validate
  <2>2. \A c, d : eip(q, a, c) = {"PASS"} /\ "FAIL" \notin eip(q, a, d) => c[1].monthly = d[1].monthly
    BY FormsCompare, Zenon DEF eip
  <2> QED
    BY <2>1, <2>2 DEF Compares
<1>5. CASE name = "redis"
  <2>1. \A comps : Validate(name, q, a, comps) = redis(q, a, comps)
    BY <1>5, SMT DEF Validate
  <2>2. \A c, d : redis(q, a, c) = {"PASS"} /\ "FAIL" \notin redis(q, a, d) => c[1].monthly = d[1].monthly
    BY FormsCompare, Zenon DEF redis
  <2> QED
    BY <2>1, <2>2 DEF Compares
<1>6. CASE name = "vpn_gateway"
  <2>1. \A comps : Validate(name, q, a, comps) = vpn(q, a, comps)
    BY <1>6, SMT DEF Validate
  <2>2. \A c, d : vpn(q, a, c) = {"PASS"} /\ "FAIL" \notin vpn(q, a, d) => c[1].monthly = d[1].monthly
    BY FormsCompare, Zenon DEF vpn
  <2> QED
    BY <2>1, <2>2 DEF Compares
<1>7. CASE name = "dc_gateway"
  <2>1. \A comps : Validate(name, q, a, comps) = dcg(q, a, comps)
    BY <1>7, SMT DEF Validate
  <2>2. \A c, d : dcg(q, a, c) = {"PASS"} /\ "FAIL" \notin dcg(q, a, d) => c[1].monthly = d[1].monthly
    BY FormsCompare, Zenon DEF dcg
  <2> QED
    BY <2>1, <2>2 DEF Compares
<1>8. CASE name = "mongodb"
  <2>1. \A comps : Validate(name, q, a, comps) = mongodb(q, a, comps)
    BY <1>8, SMT DEF Validate
  <2>2. \A c, d : mongodb(q, a, c) = {"PASS"} /\ "FAIL" \notin mongodb(q, a, d) => c[1].monthly = d[1].monthly
    BY FormsCompare, Zenon DEF mongodb
  <2> QED
    BY <2>1, <2>2 DEF Compares
<1>9. CASE name = "lighthouse"
  <2>1. \A comps : Validate(name, q, a, comps) = lighthouse(q, a, comps)
    BY <1>9, SMT DEF Validate
  <2>2. \A c, d : lighthouse(q, a, c) = {"PASS"} /\ "FAIL" \notin lighthouse(q, a, d) => c[1].monthly = d[1].monthly
    BY FormsCompare, Zenon DEF lighthouse
  <2> QED
    BY <2>1, <2>2 DEF Compares
<1>10. CASE name = "ecm"
  <2>1. \A comps : Validate(name, q, a, comps) = ecm(q, a, comps)
    BY <1>10, SMT DEF Validate
  <2>2. \A c, d : ecm(q, a, c) = {"PASS"} /\ "FAIL" \notin ecm(q, a, d) => c[1].monthly = d[1].monthly
    BY FormsCompare, Zenon DEF ecm
  <2> QED
    BY <2>1, <2>2 DEF Compares
<1>11. CASE name = "gaap"
  <2>1. \A comps : Validate(name, q, a, comps) = gaap(q, a, comps)
    BY <1>11, SMT DEF Validate
  <2>2. \A c, d : gaap(q, a, c) = {"PASS"} /\ "FAIL" \notin gaap(q, a, d) => c[1].monthly = d[1].monthly
    <3> DEFINE p == Choose(a, "", {"DiscountProxyDailyPrice", "ProxyDailyPrice"})
               daily == Yuan(OrAmount(p, "DiscountProxyDailyPrice", "ProxyDailyPrice"))
               pairs(c) == {<<Daily(daily), c[1].monthly>>}
    <3>1. \A c : gaap(q, a, c) = Verdicts(daily, pairs(c))
      BY Zenon DEF gaap
    <3>2. \A c : <<Daily(daily), c[1].monthly>> \in pairs(c)
      OBVIOUS
    <3> HIDE DEF daily, pairs
    <3>3. ASSUME NEW c, NEW d, gaap(q, a, c) = {"PASS"}, "FAIL" \notin gaap(q, a, d)
          PROVE  c[1].monthly = d[1].monthly
      <4>1. Daily(daily) = c[1].monthly /\ daily # 0
        BY <3>1, <3>2, <3>3, PairsAgree
      <4>2. Daily(daily) = d[1].monthly
        BY <3>1, <3>2, <3>3, <4>1, PairsAgree
      <4> QED
        BY <4>1, <4>2
    <3> QED
      BY <3>3
  <2> QED
    BY <2>1, <2>2 DEF Compares
<1>12. CASE name = "cwp"
  <2>1. \A comps : Validate(name, q, a, comps) = cwp(q, a, comps)
    BY <1>12, SMT DEF Validate
  <2>2. \A c, d : cwp(q, a, c) = {"PASS"} /\ "FAIL" \notin cwp(q, a, d) => c[1].monthly = d[1].monthly
    BY FormsCompare, Zenon DEF cwp
  <2> QED
    BY <2>1, <2>2 DEF Compares
<1>13. CASE name = "cloudhsm"
  <2>1. \A comps : Validate(name, q, a, comps) = cloudhsm(q, a, comps)
    BY <1>13, SMT DEF Validate
  <2>2. \A c, d : cloudhsm(q, a, c) = {"PASS"} /\ "FAIL" \notin cloudhsm(q, a, d) => c[1].monthly = d[1].monthly
    BY FormsCompare, Zenon DEF cloudhsm
  <2> QED
    BY <2>1, <2>2 DEF Compares
<1>14. CASE name = "cynosdb"
  <2>1. \A comps : Validate(name, q, a, comps) = cynosdb(q, a, comps)
    BY <1>14, SMT DEF Validate
  <2>2. \A c, d : cynosdb(q, a, c) = {"PASS"} /\ "FAIL" \notin cynosdb(q, a, d) => c[1].monthly = d[1].monthly
    BY <1>14, FormsCompare, Zenon DEF cynosdb, AloneJudged
  <2> QED
    BY <2>1, <2>2 DEF Compares
<1>15. CASE name = "domain"
  <2>1. \A comps : Validate(name, q, a, comps) = domain(q, a, comps)
    BY <1>15, SMT DEF Validate
  <2> DEFINE list == IF a.wrapped # <<>> THEN a.wrapped ELSE a.top
             yearly == Yuan(OrAmount(list[1], "RealPrice", "Price"))
             pairs(c) == {<<yearly \div 12, c[1].monthly>>}
  <2>2. \A c : domain(q, a, c) = IF list = <<>> THEN {"FAIL"} ELSE Verdicts(yearly, pairs(c))
    BY Zenon DEF domain
  <2>3. \A c : <<yearly \div 12, c[1].monthly>> \in pairs(c)
    OBVIOUS
  <2> HIDE DEF list, yearly, pairs
  <2>4. ASSUME NEW c, NEW d, domain(q, a, c) = {"PASS"}, "FAIL" \notin domain(q, a, d)
        PROVE  c[1].monthly = d[1].monthly
    <3>1. list # <<>>
      BY <2>2, <2>4
    <3>2. yearly \div 12 = c[1].monthly /\ yearly # 0
      BY <2>2, <2>3, <2>4, <3>1, PairsAgree
    <3>3. yearly # 0 /\ "FAIL" \notin Verdicts(yearly, pairs(d))
      BY <2>2, <2>4, <3>1, <3>2
    <3>4. yearly \div 12 = d[1].monthly
      BY <2>3, <3>3, PairsAgree
    <3> QED
      BY <3>2, <3>4
  <2> QED
    BY <2>1, <2>4 DEF Compares
<1> QED
  BY <1>1, <1>2, <1>3, <1>4, <1>5, <1>6, <1>7, <1>8, <1>9, <1>10, <1>11, <1>12, <1>13, <1>14, <1>15 DEF AloneJudged

(***************************************************************************)
(* What a judge may make of a resource that is read, right or wrong.       *)
(***************************************************************************)

\* The components the judge of a product compares.
Examined(name, q, comps) == IF name = "cynosdb" /\ isPrepaid(q) THEN DOMAIN comps ELSE {1}

\* The judge does not fail what is read right, and passes nothing of which a
\* component it compares costs something else.
Sound(name, r, q, a) ==
    LET right(cur) == TencentParse(r, q, a, cur) IN
    /\ \A cur : right(cur) # <<>> => "FAIL" \notin Validate(name, q, a, right(cur))
    /\ \A cur : \A wrong \in Misreadings(right(Blank)) \cup {right(cur)} :
          right(cur) # <<>> /\ Validate(name, q, a, wrong) = {"PASS"} =>
              /\ right(Blank) # <<>>
              /\ \A i \in Examined(name, q, wrong) : wrong[i].monthly = right(Blank)[i].monthly

\* Whoever reads the answer reads what is paid.
ReadsRight(r, q, a, mode, p) == \A cur : Right(TencentParse(r, q, a, cur), mode, p)

LEMMA SoundByComponent ==
    ASSUME NEW name, NEW r, NEW q, name # "cynosdb" \/ ~isPrepaid(q), NEW a, Compares(name, q, a), NEW mode, NEW p, ReadsRight(r, q, a, mode, p),
           \A comps : Right(comps, mode, p) => "FAIL" \notin Validate(name, q, a, comps)
    PROVE  Sound(name, r, q, a)
<1>1. \A cur : "FAIL" \notin Validate(name, q, a, TencentParse(r, q, a, cur))
  BY DEF ReadsRight
<1>2. \A wrong : Validate(name, q, a, wrong) = {"PASS"} => wrong[1].monthly = TencentParse(r, q, a, Blank)[1].monthly
  BY <1>1 DEF Compares
<1>3. TencentParse(r, q, a, Blank) # <<>>
  BY DEF ReadsRight, Right
<1>4. \A comps : Examined(name, q, comps) = {1}
  BY Zenon DEF Examined
<1>5. \A wrong : \A i \in Examined(name, q, wrong) : Validate(name, q, a, wrong) = {"PASS"} =>
         wrong[i].monthly = TencentParse(r, q, a, Blank)[i].monthly
  BY <1>2, <1>4
<1> QED
  BY <1>1, <1>3, <1>5, Zenon DEF Sound

LEMMA SoundByNothing ==
    ASSUME NEW name, NEW r, NEW q, NEW a, \A cur : TencentParse(r, q, a, cur) = <<>>
    PROVE  Sound(name, r, q, a)
  BY Zenon DEF Sound

\* A component that is read wrong keeps its place and its fields.
LEMMA MisreadingsAre ==
    ASSUME NEW comps, NEW wrong \in Misreadings(comps)
    PROVE  /\ DOMAIN wrong = DOMAIN comps
           /\ \E i \in DOMAIN comps :
                /\ \A j \in DOMAIN comps \ {i} : wrong[j] = comps[j]
                /\ "monthly" \in DOMAIN comps[i] =>
                      wrong[i].monthly \in {0, 100 * comps[i].monthly, comps[i].monthly * HoursPerMonth, comps[i].hourly}
<1>1. PICK i \in DOMAIN comps :
           \E pair \in {<<0, 0>>, <<100 * comps[i].hourly, 100 * comps[i].monthly>>,
                        <<comps[i].monthly, comps[i].monthly * HoursPerMonth>>, <<0, comps[i].hourly>>} :
              wrong = [comps EXCEPT ![i].hourly = pair[1], ![i].monthly = pair[2]]
  <2> DEFINE of(i) == {[comps EXCEPT ![i].hourly = pair[1], ![i].monthly = pair[2]] :
                        pair \in {<<0, 0>>, <<100 * comps[i].hourly, 100 * comps[i].monthly>>,
                                  <<comps[i].monthly, comps[i].monthly * HoursPerMonth>>, <<0, comps[i].hourly>>}}
  <2>1. wrong \in UNION {of(i) : i \in DOMAIN comps}
    BY Zenon DEF Misreadings
  <2>2. PICK i \in DOMAIN comps : wrong \in of(i)
    BY <2>1, Zenon
  <2> QED
    BY <2>2, Zenon
<1>0. PICK pair \in {<<0, 0>>, <<100 * comps[i].hourly, 100 * comps[i].monthly>>,
                     <<comps[i].monthly, comps[i].monthly * HoursPerMonth>>, <<0, comps[i].hourly>>} :
         wrong = [comps EXCEPT ![i].hourly = pair[1], ![i].monthly = pair[2]]
  BY <1>1
<1>2. pair[2] \in {0, 100 * comps[i].monthly, comps[i].monthly * HoursPerMonth, comps[i].hourly}
  OBVIOUS
<1>3. DOMAIN wrong = DOMAIN comps /\ \A j \in DOMAIN comps \ {i} : wrong[j] = comps[j]
  BY <1>0
<1>4. "monthly" \in DOMAIN comps[i] => wrong[i].monthly = pair[2]
  BY <1>0
<1> QED
  BY <1>2, <1>3, <1>4

\* A cluster by the month.
LEMMA SoundBySum ==
    ASSUME NEW r, NEW q, isPrepaid(q), NEW a, NEW p, ReadsRight(r, q, a, "month", p),
           \A cur : Summed(TencentParse(r, q, a, cur), CynosTotal(a), p)
    PROVE  Sound("cynosdb", r, q, a)
<1> DEFINE right(cur) == TencentParse(r, q, a, cur)
           total == CynosTotal(a)
           judge(comps) == Validate("cynosdb", q, a, comps)
<1>1. \A comps : judge(comps) = Verdicts(total, {<<total, Sum(comps)>>})
  <2>1. \A comps : judge(comps) = cynosdb(q, a, comps)
    BY SMT DEF Validate
  <2> QED
    BY <2>1, CynosMonth
<1> HIDE DEF judge
<1>2. \A cur : "FAIL" \notin judge(right(cur))
  <2> TAKE cur
  <2> DEFINE comps == right(cur)
  <2>1. total = 0 \/ total = Sum(comps)
    BY DEF Summed
  <2> HIDE DEF comps, total
  <2>2. judge(comps) = Verdicts(total, {<<total, Sum(comps)>>})
    BY <1>1 DEF total
  <2>3. "FAIL" \notin judge(comps)
    BY <2>1, <2>2 DEF Verdicts
  <2> QED
    BY <2>3 DEF comps
<1>3. \A cur : right(cur)[1].monthly = Yuan(p.paid)
  BY DEF Summed
<1>4. ASSUME NEW wrong, judge(wrong) = {"PASS"}
      PROVE  total # 0 /\ total = Sum(wrong)
  <2> HIDE DEF total
  <2> DEFINE pairs == {<<total, Sum(wrong)>>}
  <2>1. <<total, Sum(wrong)>> \in pairs
    OBVIOUS
  <2>2. Verdicts(total, pairs) = {"PASS"}
    BY <1>1, <1>4
  <2> HIDE DEF pairs
  <2> QED
    BY <2>1, <2>2, PairsAgree
<1>5. ASSUME NEW wrong \in Misreadings(right(Blank)), judge(wrong) = {"PASS"}
      PROVE  \A i \in DOMAIN wrong : wrong[i].monthly = right(Blank)[i].monthly
  <2> DEFINE comps == right(Blank)
  <2>1. Summed(comps, total, p) /\ comps[1].hourly = 0
    BY DEF ReadsRight, Right, Reads
  <2> HIDE DEF comps, total
  <2>2. /\ Len(comps) = 2 /\ DOMAIN comps = 1..2
        /\ "monthly" \in DOMAIN comps[1] /\ comps[1].monthly \in Int
        /\ "monthly" \in DOMAIN comps[2] /\ comps[2].monthly \in Int /\ comps[2].hourly = 0
        /\ total = 0 \/ total = Sum(comps)
    BY <2>1 DEF Summed
  <2>3. Sum(wrong) = Sum(comps)
    BY <1>4, <1>5, <2>2
  <2>4. wrong \in Misreadings(comps)
    BY <1>5 DEF comps
  <2>5. DOMAIN wrong = DOMAIN comps
    BY <2>4, MisreadingsAre
  <2>6. PICK i \in DOMAIN comps :
           /\ \A j \in DOMAIN comps \ {i} : wrong[j] = comps[j]
           /\ "monthly" \in DOMAIN comps[i] =>
                 wrong[i].monthly \in {0, 100 * comps[i].monthly, comps[i].monthly * HoursPerMonth, comps[i].hourly}
    BY <2>4, MisreadingsAre
  <2>7. Len(wrong) = 2
    BY <2>2, <2>5
  <2>8. wrong[1].monthly + wrong[2].monthly = comps[1].monthly + comps[2].monthly
    BY <2>2, <2>3, <2>7 DEF Sum
  <2>9. CASE i = 1
    <3>1. wrong[1].monthly \in Int
      BY <2>1, <2>2, <2>6, <2>9 DEF HoursPerMonth
    <3>2. wrong[2] = comps[2]
      BY <2>2, <2>6, <2>9
    <3>3. wrong[1].monthly = comps[1].monthly
      BY <2>2, <2>8, <3>1, <3>2
    <3> QED
      BY <2>2, <2>5, <3>2, <3>3 DEF comps
  <2>10. CASE i = 2
    <3>1. wrong[2].monthly \in Int
      BY <2>2, <2>6, <2>10 DEF HoursPerMonth
    <3>2. wrong[1] = comps[1]
      BY <2>2, <2>6, <2>10
    <3>3. wrong[2].monthly = comps[2].monthly
      BY <2>2, <2>8, <3>1, <3>2
    <3> QED
      BY <2>2, <2>5, <3>2, <3>3 DEF comps
  <2> QED
    BY <2>2, <2>6, <2>9, <2>10
<1>6. ASSUME NEW cur, judge(right(cur)) = {"PASS"}
      PROVE  \A i \in DOMAIN right(cur) : right(cur)[i].monthly = right(Blank)[i].monthly
  <2> DEFINE c == right(cur)
             d == right(Blank)
  <2>1. Summed(c, total, p) /\ Summed(d, total, p)
    OBVIOUS
  <2>2. total # 0
    BY <1>4, <1>6
  <2> HIDE DEF c, d, total
  <2>3. /\ DOMAIN c = {1, 2} /\ Len(c) = 2 /\ Len(d) = 2
        /\ c[1].monthly \in Int /\ d[1].monthly = c[1].monthly
        /\ c[2].monthly \in Int /\ d[2].monthly \in Int
        /\ total = Sum(c) /\ total = Sum(d)
    BY <2>1, <2>2 DEF Summed
  <2>4. total = c[1].monthly + c[2].monthly /\ total = d[1].monthly + d[2].monthly
    BY <2>3 DEF Sum
  <2>5. c[2].monthly = d[2].monthly
    <3>1. c[1].monthly + c[2].monthly = c[1].monthly + d[2].monthly
      BY <2>3, <2>4, Zenon
    <3>2. \A x, y, z \in Int : x + y = x + z => y = z
      OBVIOUS
    <3> QED
      BY <2>3, <3>1, <3>2, Zenon
  <2> QED
    BY <2>3, <2>5 DEF c, d
<1>7. \A cur : right(cur) # <<>>
  BY DEF Summed
<1>8. \A comps : Examined("cynosdb", q, comps) = DOMAIN comps
  BY Zenon DEF Examined
<1> HIDE DEF total, right
<1>9. ASSUME NEW cur, NEW wrong \in Misreadings(right(Blank)) \cup {right(cur)}, judge(wrong) = {"PASS"}
      PROVE  \A i \in Examined("cynosdb", q, wrong) : wrong[i].monthly = right(Blank)[i].monthly
  BY <1>5, <1>6, <1>8, <1>9
<1> QED
  BY <1>2, <1>7, <1>9, Zenon DEF Sound, judge, right

(***************************************************************************)
(* The answer of a service, as EndToEnd.Price makes it.                    *)
(***************************************************************************)

Answers(a, q, mode) ==
    \E reduced \in BOOLEAN, wrapped \in BOOLEAN, stated \in BOOLEAN : \E currency :
        a = TencentAnswer(q, mode, "none", reduced, wrapped, stated, currency)

\* The units and the mode of a request are real.
Asked(q, mode) == q.product # "domain" /\ mode \in Modes /\ Units(q) \in Int /\ Units(q) > 0

LEMMA AnswerStates ==
    ASSUME NEW q, NEW mode, Asked(q, mode), NEW a, Answers(a, q, mode)
    PROVE  \E block, p : Fair(p) /\ Healthy(a, block, q, mode, p)
<1>1. PICK reduced \in BOOLEAN, wrapped \in BOOLEAN, stated \in BOOLEAN : \E currency :
           a = TencentAnswer(q, mode, "none", reduced, wrapped, stated, currency)
  BY DEF Answers
<1>2. PICK currency : a = TencentAnswer(q, mode, "none", reduced, wrapped, stated, currency)
  BY <1>1
<1>3. Fair(PriceOf(mode, Units(q), reduced))
  BY FairPrice DEF Asked
<1>4. \E block : Healthy(TencentAnswer(q, mode, "none", reduced, wrapped, stated, currency), block, q, mode,
                         PriceOf(mode, Units(q), reduced))
  BY HealthyAnswer DEF Asked
<1> QED
  BY <1>2, <1>3, <1>4, Zenon

LEMMA CVMSound ==
    ASSUME NEW r, HasNumbers(r), r.type = "tencentcloud_instance", NEW q \in Extract(r),
           NEW mode \in Understood(q), NEW a, Answers(a, q, mode)
    PROVE  Sound("cvm", r, q, a)
<1>1. q \in CVMExtract(r)
  BY SMT DEF Extract, DCDBTypes
<1>2. q.product = "cvm" /\ Units(q) = 1 /\ mode \in {"hour", "month"}
  BY <1>1, CVMAsked
<1>3. PICK block, p : Fair(p) /\ Healthy(a, block, q, mode, p)
  <2>1. Asked(q, mode)
    BY <1>2 DEF Asked, Modes
  <2> QED
    BY <2>1, AnswerStates
<1>4. ASSUME NEW cur
      PROVE  /\ Right(TencentParse(r, q, a, cur), mode, p)
             /\ \A comps : Right(comps, mode, p) => "FAIL" \notin cvmClb(q, a, comps)
  <2>1. TencentParse(r, q, a, cur) = CVMParse(q, a, cur)
    BY SMT DEF TencentParse, DCDBTypes
  <2>2. /\ Right(CVMParse(q, a, cur), mode, p)
        /\ \A comps : Right(comps, mode, p) => "FAIL" \notin cvmClb(q, a, comps)
    BY <1>2, <1>3, CVMReads
  <2> QED
    BY <2>1, <2>2
<1>5. \A comps : Validate("cvm", q, a, comps) = cvmClb(q, a, comps)
  BY SMT DEF Validate
<1>6. Compares("cvm", q, a)
  BY JudgesCompare DEF AloneJudged
<1>7. ReadsRight(r, q, a, mode, p)
  BY <1>4 DEF ReadsRight
<1>8. \A comps : Right(comps, mode, p) => "FAIL" \notin Validate("cvm", q, a, comps)
  BY <1>4, <1>5
<1> QED
  BY <1>6, <1>7, <1>8, SoundByComponent

LEMMA EIPSound ==
    ASSUME NEW r, HasNumbers(r), r.type = "tencentcloud_eip", NEW q \in Extract(r),
           NEW mode \in Understood(q), NEW a, Answers(a, q, mode)
    PROVE  Sound("eip", r, q, a)
<1>1. q \in EIPExtract(r)
  BY SMT DEF Extract, DCDBTypes
<1>2. /\ q.product = "vpc" /\ q.action = "InquiryPriceAllocateAddresses"
      /\ Units(q) \in Int /\ Units(q) > 0 /\ mode \in {"hour", "month"}
      /\ isPrepaid(q) <=> mode = "month"
      /\ Up(q.params.InternetChargeType) \in WithPrepaid <=> mode = "month"
  BY <1>1, EIPAsked
<1>3. PICK block, p : Fair(p) /\ Healthy(a, block, q, mode, p)
  <2>1. Asked(q, mode)
    BY <1>2 DEF Asked, Modes
  <2> QED
    BY <2>1, AnswerStates
<1>4. ASSUME NEW cur
      PROVE  /\ Right(TencentParse(r, q, a, cur), mode, p)
             /\ \A comps : Right(comps, mode, p) => "FAIL" \notin eip(q, a, comps)
  <2>1. TencentParse(r, q, a, cur) = EIPParse(q, a, cur)
    BY SMT DEF TencentParse, DCDBTypes
  <2>2. /\ Right(EIPParse(q, a, cur), mode, p)
        /\ \A comps : Right(comps, mode, p) => "FAIL" \notin eip(q, a, comps)
    BY <1>2, <1>3, EIPReads
  <2> QED
    BY <2>1, <2>2
<1>5. \A comps : Validate("eip", q, a, comps) = eip(q, a, comps)
  BY SMT DEF Validate
<1>6. Compares("eip", q, a)
  BY JudgesCompare DEF AloneJudged
<1>7. ReadsRight(r, q, a, mode, p)
  BY <1>4 DEF ReadsRight
<1>8. \A comps : Right(comps, mode, p) => "FAIL" \notin Validate("eip", q, a, comps)
  BY <1>4, <1>5
<1> QED
  BY <1>6, <1>7, <1>8, SoundByComponent

LEMMA CLBSound ==
    ASSUME NEW r, HasNumbers(r), r.type = "tencentcloud_clb_instance", NEW q \in Extract(r),
           NEW mode \in Understood(q), NEW a, Answers(a, q, mode)
    PROVE  Sound("clb", r, q, a)
<1>1. q \in CLBExtract(r)
  BY SMT DEF Extract, DCDBTypes
<1>2. q.product = "clb" /\ Units(q) = 1 /\ mode \in {"hour", "month"}
  BY <1>1, CLBAsked
<1>3. PICK block, p : Fair(p) /\ Healthy(a, block, q, mode, p)
  <2>1. Asked(q, mode)
    BY <1>2 DEF Asked, Modes
  <2> QED
    BY <2>1, AnswerStates
<1>4. ASSUME NEW cur
      PROVE  /\ Right(TencentParse(r, q, a, cur), mode, p)
             /\ \A comps : Right(comps, mode, p) => "FAIL" \notin cvmClb(q, a, comps)
  <2>1. TencentParse(r, q, a, cur) = CLBParse(q, a, cur)
    BY SMT DEF TencentParse, DCDBTypes
  <2>2. /\ Right(CLBParse(q, a, cur), mode, p)
        /\ \A comps : Right(comps, mode, p) => "FAIL" \notin cvmClb(q, a, comps)
    BY <1>2, <1>3, CLBReads
  <2> QED
    BY <2>1, <2>2
<1>5. \A comps : Validate("clb", q, a, comps) = cvmClb(q, a, comps)
  BY SMT DEF Validate
<1>6. Compares("clb", q, a)
  BY JudgesCompare DEF AloneJudged
<1>7. ReadsRight(r, q, a, mode, p)
  BY <1>4 DEF ReadsRight
<1>8. \A comps : Right(comps, mode, p) => "FAIL" \notin Validate("clb", q, a, comps)
  BY <1>4, <1>5
<1> QED
  BY <1>6, <1>7, <1>8, SoundByComponent

LEMMA PostgresSound ==
    ASSUME NEW r, HasNumbers(r), r.type = "tencentcloud_postgresql_instance", NEW q \in Extract(r),
           NEW mode \in Understood(q), NEW a, Answers(a, q, mode)
    PROVE  Sound("postgresql", r, q, a)
<1>1. q \in PostgresExtract(r)
  BY SMT DEF Extract, DCDBTypes
<1>2. /\ q.product = "postgres" /\ Units(q) \in Int /\ Units(q) > 0 /\ mode \in {"hour", "month"}
      /\ isPrepaid(q) <=> mode = "month"
      /\ q.params.InstanceChargeType = "POSTPAID" <=> mode = "hour"
  BY <1>1, PostgresAsked
<1>3. PICK block, p : Fair(p) /\ Healthy(a, block, q, mode, p)
  <2>1. Asked(q, mode)
    BY <1>2 DEF Asked, Modes
  <2> QED
    BY <2>1, AnswerStates
<1>4. ASSUME NEW cur
      PROVE  /\ Right(TencentParse(r, q, a, cur), mode, p)
             /\ \A comps : Right(comps, mode, p) => "FAIL" \notin cdbFen(q, a, comps)
  <2>1. TencentParse(r, q, a, cur) = PostgresParse(q, a, cur)
    BY SMT DEF TencentParse, DCDBTypes
  <2>2. /\ Right(PostgresParse(q, a, cur), mode, p)
        /\ \A comps : Right(comps, mode, p) => "FAIL" \notin cdbFen(q, a, comps)
    BY <1>2, <1>3, PostgresReads
  <2> QED
    BY <2>1, <2>2
<1>5. \A comps : Validate("postgresql", q, a, comps) = cdbFen(q, a, comps)
  BY SMT DEF Validate
<1>6. Compares("postgresql", q, a)
  BY JudgesCompare DEF AloneJudged
<1>7. ReadsRight(r, q, a, mode, p)
  BY <1>4 DEF ReadsRight
<1>8. \A comps : Right(comps, mode, p) => "FAIL" \notin Validate("postgresql", q, a, comps)
  BY <1>4, <1>5
<1> QED
  BY <1>6, <1>7, <1>8, SoundByComponent

LEMMA RedisSound ==
    ASSUME NEW r, HasNumbers(r), r.type = "tencentcloud_redis_instance", NEW q \in Extract(r),
           NEW mode \in Understood(q), NEW a, Answers(a, q, mode)
    PROVE  Sound("redis", r, q, a)
<1>1. q \in RedisExtract(r)
  BY SMT DEF Extract, DCDBTypes
<1>2. /\ q.product = "redis" /\ Units(q) \in Int /\ Units(q) > 0 /\ mode \in {"hour", "month"}
      /\ q.params.BillingMode = "0" <=> mode = "hour"
      /\ isPrepaid(q) <=> mode = "month"
  BY <1>1, RedisAsked
<1>3. PICK block, p : Fair(p) /\ Healthy(a, block, q, mode, p)
  <2>1. Asked(q, mode)
    BY <1>2 DEF Asked, Modes
  <2> QED
    BY <2>1, AnswerStates
<1>4. ASSUME NEW cur
      PROVE  /\ Right(TencentParse(r, q, a, cur), mode, p)
             /\ \A comps : Right(comps, mode, p) => "FAIL" \notin redis(q, a, comps)
  <2>1. TencentParse(r, q, a, cur) = RedisParse(q, a, cur)
    BY SMT DEF TencentParse, DCDBTypes
  <2>2. /\ Right(RedisParse(q, a, cur), mode, p)
        /\ \A comps : Right(comps, mode, p) => "FAIL" \notin redis(q, a, comps)
    BY <1>2, <1>3, RedisReads
  <2> QED
    BY <2>1, <2>2
<1>5. \A comps : Validate("redis", q, a, comps) = redis(q, a, comps)
  BY SMT DEF Validate
<1>6. Compares("redis", q, a)
  BY JudgesCompare DEF AloneJudged
<1>7. ReadsRight(r, q, a, mode, p)
  BY <1>4 DEF ReadsRight
<1>8. \A comps : Right(comps, mode, p) => "FAIL" \notin Validate("redis", q, a, comps)
  BY <1>4, <1>5
<1> QED
  BY <1>6, <1>7, <1>8, SoundByComponent

LEMMA VPNSound ==
    ASSUME NEW r, HasNumbers(r), r.type = "tencentcloud_vpn_gateway", NEW q \in Extract(r),
           NEW mode \in Understood(q), NEW a, Answers(a, q, mode)
    PROVE  Sound("vpn_gateway", r, q, a)
<1>1. q \in VPNExtract(r)
  BY SMT DEF Extract, DCDBTypes
<1>2. /\ q.product = "vpc" /\ q.action = "InquiryPriceCreateVpnGateway"
      /\ Units(q) \in Int /\ Units(q) > 0 /\ mode \in {"hour", "month"}
      /\ isPrepaid(q) <=> mode = "month"
  BY <1>1, VPNAsked
<1>3. PICK block, p : Fair(p) /\ Healthy(a, block, q, mode, p)
  <2>1. Asked(q, mode)
    BY <1>2 DEF Asked, Modes
  <2> QED
    BY <2>1, AnswerStates
<1>4. ASSUME NEW cur
      PROVE  /\ Right(TencentParse(r, q, a, cur), mode, p)
             /\ \A comps : Right(comps, mode, p) => "FAIL" \notin vpn(q, a, comps)
  <2>1. TencentParse(r, q, a, cur) = VPNParse(q, a, cur)
    BY SMT DEF TencentParse, DCDBTypes
  <2>2. /\ Right(VPNParse(q, a, cur), mode, p)
        /\ \A comps : Right(comps, mode, p) => "FAIL" \notin vpn(q, a, comps)
    BY <1>2, <1>3, VPNReads
  <2> QED
    BY <2>1, <2>2
<1>5. \A comps : Validate("vpn_gateway", q, a, comps) = vpn(q, a, comps)
  BY SMT DEF Validate
<1>6. Compares("vpn_gateway", q, a)
  BY JudgesCompare DEF AloneJudged
<1>7. ReadsRight(r, q, a, mode, p)
  BY <1>4 DEF ReadsRight
<1>8. \A comps : Right(comps, mode, p) => "FAIL" \notin Validate("vpn_gateway", q, a, comps)
  BY <1>4, <1>5
<1> QED
  BY <1>6, <1>7, <1>8, SoundByComponent

LEMMA MongoSound ==
    ASSUME NEW r, HasNumbers(r), r.type = "tencentcloud_mongodb_instance", NEW q \in Extract(r),
           NEW mode \in Understood(q), NEW a, Answers(a, q, mode)
    PROVE  Sound("mongodb", r, q, a)
<1>1. q \in MongoExtract(r)
  BY SMT DEF Extract, DCDBTypes
<1>2. /\ q.product = "mongodb" /\ Units(q) \in Int /\ Units(q) > 0 /\ mode \in {"hour", "month"}
      /\ isPrepaid(q) <=> mode = "month"
      /\ q.params.InstanceChargeType \in WithHour <=> mode = "hour"
  BY <1>1, MongoAsked
<1>3. PICK block, p : Fair(p) /\ Healthy(a, block, q, mode, p)
  <2>1. Asked(q, mode)
    BY <1>2 DEF Asked, Modes
  <2> QED
    BY <2>1, AnswerStates
<1>4. ASSUME NEW cur
      PROVE  /\ Right(TencentParse(r, q, a, cur), mode, p)
             /\ \A comps : Right(comps, mode, p) => "FAIL" \notin mongodb(q, a, comps)
  <2>1. TencentParse(r, q, a, cur) = MongoParse(q, a, cur)
    BY SMT DEF TencentParse, DCDBTypes
  <2>2. /\ Right(MongoParse(q, a, cur), mode, p)
        /\ \A comps : Right(comps, mode, p) => "FAIL" \notin mongodb(q, a, comps)
    BY <1>2, <1>3, MongoReads
  <2> QED
    BY <2>1, <2>2
<1>5. \A comps : Validate("mongodb", q, a, comps) = mongodb(q, a, comps)
  BY SMT DEF Validate
<1>6. Compares("mongodb", q, a)
  BY JudgesCompare DEF AloneJudged
<1>7. ReadsRight(r, q, a, mode, p)
  BY <1>4 DEF ReadsRight
<1>8. \A comps : Right(comps, mode, p) => "FAIL" \notin Validate("mongodb", q, a, comps)
  BY <1>4, <1>5
<1> QED
  BY <1>6, <1>7, <1>8, SoundByComponent

LEMMA MariaDBSound ==
    ASSUME NEW r, HasNumbers(r), r.type = "tencentcloud_mariadb_instance", NEW q \in Extract(r),
           NEW mode \in Understood(q), NEW a, Answers(a, q, mode)
    PROVE  Sound("mariadb", r, q, a)
<1>1. q \in MariaDBExtract(r)
  BY SMT DEF Extract, DCDBTypes
<1>2. /\ q.product = "mariadb" /\ Units(q) \in Int /\ Units(q) > 0 /\ mode \in {"hour", "month"}
      /\ isPrepaid(q) <=> mode = "month"
      /\ Up(q.params.Paymode) \in WithPostpaid <=> mode = "hour"
  BY <1>1, MariaDBAsked
<1>3. PICK block, p : Fair(p) /\ Healthy(a, block, q, mode, p)
  <2>1. Asked(q, mode)
    BY <1>2 DEF Asked, Modes
  <2> QED
    BY <2>1, AnswerStates
<1>4. ASSUME NEW cur
      PROVE  /\ Right(TencentParse(r, q, a, cur), mode, p)
             /\ \A comps : Right(comps, mode, p) => "FAIL" \notin cdbFen(q, a, comps)
  <2>1. TencentParse(r, q, a, cur) = MariaDBParse(q, a, cur)
    BY SMT DEF TencentParse, DCDBTypes
  <2>2. /\ Right(MariaDBParse(q, a, cur), mode, p)
        /\ \A comps : Right(comps, mode, p) => "FAIL" \notin cdbFen(q, a, comps)
    BY <1>2, <1>3, CentsRead
  <2> QED
    BY <2>1, <2>2
<1>5. \A comps : Validate("mariadb", q, a, comps) = cdbFen(q, a, comps)
  BY SMT DEF Validate
<1>6. Compares("mariadb", q, a)
  BY JudgesCompare DEF AloneJudged
<1>7. ReadsRight(r, q, a, mode, p)
  BY <1>4 DEF ReadsRight
<1>8. \A comps : Right(comps, mode, p) => "FAIL" \notin Validate("mariadb", q, a, comps)
  BY <1>4, <1>5
<1> QED
  BY <1>6, <1>7, <1>8, SoundByComponent

LEMMA SQLServerSound ==
    ASSUME NEW r, HasNumbers(r), r.type = "tencentcloud_sqlserver_instance", NEW q \in Extract(r),
           NEW mode \in Understood(q), NEW a, Answers(a, q, mode)
    PROVE  Sound("sqlserver", r, q, a)
<1>1. q \in SQLServerExtract(r)
  BY SMT DEF Extract, DCDBTypes
<1>2. /\ q.product = "sqlserver" /\ Units(q) \in Int /\ Units(q) > 0 /\ mode \in {"hour", "month"}
      /\ isPrepaid(q) <=> mode = "month"
      /\ q.params.InstanceChargeType # "PREPAID" <=> mode = "hour"
  BY <1>1, SQLServerAsked
<1>3. PICK block, p : Fair(p) /\ Healthy(a, block, q, mode, p)
  <2>1. Asked(q, mode)
    BY <1>2 DEF Asked, Modes
  <2> QED
    BY <2>1, AnswerStates
<1>4. ASSUME NEW cur
      PROVE  /\ Right(TencentParse(r, q, a, cur), mode, p)
             /\ \A comps : Right(comps, mode, p) => "FAIL" \notin cdbFen(q, a, comps)
  <2>1. TencentParse(r, q, a, cur) = SQLServerParse(q, a, cur)
    BY SMT DEF TencentParse, DCDBTypes
  <2>2. /\ Right(SQLServerParse(q, a, cur), mode, p)
        /\ \A comps : Right(comps, mode, p) => "FAIL" \notin cdbFen(q, a, comps)
    BY <1>2, <1>3, CentsRead
  <2> QED
    BY <2>1, <2>2
<1>5. \A comps : Validate("sqlserver", q, a, comps) = cdbFen(q, a, comps)
  BY SMT DEF Validate
<1>6. Compares("sqlserver", q, a)
  BY JudgesCompare DEF AloneJudged
<1>7. ReadsRight(r, q, a, mode, p)
  BY <1>4 DEF ReadsRight
<1>8. \A comps : Right(comps, mode, p) => "FAIL" \notin Validate("sqlserver", q, a, comps)
  BY <1>4, <1>5
<1> QED
  BY <1>6, <1>7, <1>8, SoundByComponent

LEMMA DCDBSound ==
    ASSUME NEW r, HasNumbers(r), r.type \in DCDBTypes, NEW q \in Extract(r),
           NEW mode \in Understood(q), NEW a, Answers(a, q, mode)
    PROVE  Sound("dcdb", r, q, a)
<1>1. q \in DCDBExtract(r)
  BY SMT DEF Extract, DCDBTypes
<1>2. /\ q.product = "dcdb" /\ Units(q) \in Int /\ Units(q) > 0 /\ mode \in {"hour", "month"}
      /\ isPrepaid(q) <=> mode = "month"
      /\ Up(q.params.Paymode) # "PREPAID" <=> mode = "hour"
  BY <1>1, DCDBAsked
<1>3. PICK block, p : Fair(p) /\ Healthy(a, block, q, mode, p)
  <2>1. Asked(q, mode)
    BY <1>2 DEF Asked, Modes
  <2> QED
    BY <2>1, AnswerStates
<1>4. ASSUME NEW cur
      PROVE  /\ Right(TencentParse(r, q, a, cur), mode, p)
             /\ \A comps : Right(comps, mode, p) => "FAIL" \notin cdbFen(q, a, comps)
  <2>1. TencentParse(r, q, a, cur) = DCDBParse(q, a, cur)
    BY SMT DEF TencentParse, DCDBTypes
  <2>2. /\ Right(DCDBParse(q, a, cur), mode, p)
        /\ \A comps : Right(comps, mode, p) => "FAIL" \notin cdbFen(q, a, comps)
    BY <1>2, <1>3, CentsRead
  <2> QED
    BY <2>1, <2>2
<1>5. \A comps : Validate("dcdb", q, a, comps) = cdbFen(q, a, comps)
  BY SMT DEF Validate
<1>6. Compares("dcdb", q, a)
  BY JudgesCompare DEF AloneJudged
<1>7. ReadsRight(r, q, a, mode, p)
  BY <1>4 DEF ReadsRight
<1>8. \A comps : Right(comps, mode, p) => "FAIL" \notin Validate("dcdb", q, a, comps)
  BY <1>4, <1>5
<1> QED
  BY <1>6, <1>7, <1>8, SoundByComponent

LEMMA DirectConnectSound ==
    ASSUME NEW r, HasNumbers(r), r.type = "tencentcloud_dc_gateway", NEW q \in Extract(r),
           NEW mode \in Understood(q), NEW a, Answers(a, q, mode)
    PROVE  Sound("dc_gateway", r, q, a)
<1>1. q \in DirectConnectExtract(r)
  BY SMT DEF Extract, DCDBTypes
<1>2. /\ q.product = "vpc" /\ q.action = "InquirePriceCreateDirectConnectGateway"
      /\ Units(q) = 1 /\ mode = "month"
  BY <1>1, DirectConnectAsked
<1>3. PICK block, p : Fair(p) /\ Healthy(a, block, q, mode, p)
  <2>1. Asked(q, mode)
    BY <1>2 DEF Asked, Modes
  <2> QED
    BY <2>1, AnswerStates
<1>4. ASSUME NEW cur
      PROVE  /\ Right(TencentParse(r, q, a, cur), mode, p)
             /\ \A comps : Right(comps, mode, p) => "FAIL" \notin dcg(q, a, comps)
  <2>1. TencentParse(r, q, a, cur) = DirectConnectParse(q, a, cur)
    BY SMT DEF TencentParse, DCDBTypes
  <2>2. /\ Right(DirectConnectParse(q, a, cur), mode, p)
        /\ \A comps : Right(comps, mode, p) => "FAIL" \notin dcg(q, a, comps)
    BY <1>2, <1>3, DirectConnectReads
  <2> QED
    BY <2>1, <2>2
<1>5. \A comps : Validate("dc_gateway", q, a, comps) = dcg(q, a, comps)
  BY SMT DEF Validate
<1>6. Compares("dc_gateway", q, a)
  BY JudgesCompare DEF AloneJudged
<1>7. ReadsRight(r, q, a, mode, p)
  BY <1>4 DEF ReadsRight
<1>8. \A comps : Right(comps, mode, p) => "FAIL" \notin Validate("dc_gateway", q, a, comps)
  BY <1>4, <1>5
<1> QED
  BY <1>6, <1>7, <1>8, SoundByComponent

LEMMA GAAPSound ==
    ASSUME NEW r, HasNumbers(r), r.type = "tencentcloud_gaap_proxy", NEW q \in Extract(r),
           NEW mode \in Understood(q), NEW a, Answers(a, q, mode)
    PROVE  Sound("gaap", r, q, a)
<1>1. q \in GAAPExtract(r)
  BY SMT DEF Extract, DCDBTypes
<1>2. q.product = "gaap" /\ Units(q) \in Int /\ Units(q) > 0 /\ mode = "day"
  BY <1>1, GAAPAsked
<1>3. PICK block, p : Fair(p) /\ Healthy(a, block, q, mode, p)
  <2>1. Asked(q, mode)
    BY <1>2 DEF Asked, Modes
  <2> QED
    BY <2>1, AnswerStates
<1>4. ASSUME NEW cur
      PROVE  /\ Right(TencentParse(r, q, a, cur), mode, p)
             /\ \A comps : Right(comps, mode, p) => "FAIL" \notin gaap(q, a, comps)
  <2>1. TencentParse(r, q, a, cur) = GAAPParse(q, a, cur)
    BY SMT DEF TencentParse, DCDBTypes
  <2>2. /\ Right(GAAPParse(q, a, cur), mode, p)
        /\ \A comps : Right(comps, mode, p) => "FAIL" \notin gaap(q, a, comps)
    BY <1>2, <1>3, GAAPReads
  <2> QED
    BY <2>1, <2>2
<1>5. \A comps : Validate("gaap", q, a, comps) = gaap(q, a, comps)
  BY SMT DEF Validate
<1>6. Compares("gaap", q, a)
  BY JudgesCompare DEF AloneJudged
<1>7. ReadsRight(r, q, a, mode, p)
  BY <1>4 DEF ReadsRight
<1>8. \A comps : Right(comps, mode, p) => "FAIL" \notin Validate("gaap", q, a, comps)
  BY <1>4, <1>5
<1> QED
  BY <1>6, <1>7, <1>8, SoundByComponent

LEMMA LighthouseSound ==
    ASSUME NEW r, HasNumbers(r), r.type = "tencentcloud_lighthouse_instance", NEW q \in Extract(r),
           NEW mode \in Understood(q), NEW a, Answers(a, q, mode)
    PROVE  Sound("lighthouse", r, q, a)
<1>1. q \in LighthouseExtract(r)
  BY SMT DEF Extract, DCDBTypes
<1>2. q.product = "lighthouse" /\ Units(q) \in Int /\ Units(q) > 0 /\ mode = "month"
  BY <1>1, OnlyAsked
<1>3. PICK block, p : Fair(p) /\ Healthy(a, block, q, mode, p)
  <2>1. Asked(q, mode)
    BY <1>2 DEF Asked, Modes
  <2> QED
    BY <2>1, AnswerStates
<1>4. ASSUME NEW cur
      PROVE  /\ Right(TencentParse(r, q, a, cur), mode, p)
             /\ \A comps : Right(comps, mode, p) => "FAIL" \notin lighthouse(q, a, comps)
  <2>1. TencentParse(r, q, a, cur) = LighthouseParse(q, a, cur)
    BY SMT DEF TencentParse, DCDBTypes
  <2>2. /\ Right(LighthouseParse(q, a, cur), mode, p)
        /\ \A comps : Right(comps, mode, p) => "FAIL" \notin lighthouse(q, a, comps)
    BY <1>2, <1>3, BundlesRead
  <2> QED
    BY <2>1, <2>2
<1>5. \A comps : Validate("lighthouse", q, a, comps) = lighthouse(q, a, comps)
  BY SMT DEF Validate
<1>6. Compares("lighthouse", q, a)
  BY JudgesCompare DEF AloneJudged
<1>7. ReadsRight(r, q, a, mode, p)
  BY <1>4 DEF ReadsRight
<1>8. \A comps : Right(comps, mode, p) => "FAIL" \notin Validate("lighthouse", q, a, comps)
  BY <1>4, <1>5
<1> QED
  BY <1>6, <1>7, <1>8, SoundByComponent

LEMMA ECMSound ==
    ASSUME NEW r, HasNumbers(r), r.type = "tencentcloud_ecm_instance", NEW q \in Extract(r),
           NEW mode \in Understood(q), NEW a, Answers(a, q, mode)
    PROVE  Sound("ecm", r, q, a)
<1>1. q \in ECMExtract(r)
  BY SMT DEF Extract, DCDBTypes
<1>2. q.product = "ecm" /\ Units(q) \in Int /\ Units(q) > 0 /\ mode = "hour"
  BY <1>1, OnlyAsked
<1>3. PICK block, p : Fair(p) /\ Healthy(a, block, q, mode, p)
  <2>1. Asked(q, mode)
    BY <1>2 DEF Asked, Modes
  <2> QED
    BY <2>1, AnswerStates
<1>4. ASSUME NEW cur
      PROVE  /\ Right(TencentParse(r, q, a, cur), mode, p)
             /\ \A comps : Right(comps, mode, p) => "FAIL" \notin ecm(q, a, comps)
  <2>1. TencentParse(r, q, a, cur) = ECMParse(q, a, cur)
    BY SMT DEF TencentParse, DCDBTypes
  <2>2. /\ Right(ECMParse(q, a, cur), mode, p)
        /\ \A comps : Right(comps, mode, p) => "FAIL" \notin ecm(q, a, comps)
    BY <1>2, <1>3, ECMReads
  <2> QED
    BY <2>1, <2>2
<1>5. \A comps : Validate("ecm", q, a, comps) = ecm(q, a, comps)
  BY SMT DEF Validate
<1>6. Compares("ecm", q, a)
  BY JudgesCompare DEF AloneJudged
<1>7. ReadsRight(r, q, a, mode, p)
  BY <1>4 DEF ReadsRight
<1>8. \A comps : Right(comps, mode, p) => "FAIL" \notin Validate("ecm", q, a, comps)
  BY <1>4, <1>5
<1> QED
  BY <1>6, <1>7, <1>8, SoundByComponent

LEMMA YunjingSound ==
    ASSUME NEW r, HasNumbers(r), r.type = "tencentcloud_cwp_license_order", NEW q \in Extract(r),
           NEW mode \in Understood(q), NEW a, Answers(a, q, mode)
    PROVE  Sound("cwp", r, q, a)
<1>1. q \in YunjingExtract(r)
  BY SMT DEF Extract, DCDBTypes
<1>2. q.product = "yunjing" /\ Units(q) \in Int /\ Units(q) > 0 /\ mode = "month"
  BY <1>1, OnlyAsked
<1>3. PICK block, p : Fair(p) /\ Healthy(a, block, q, mode, p)
  <2>1. Asked(q, mode)
    BY <1>2 DEF Asked, Modes
  <2> QED
    BY <2>1, AnswerStates
<1>4. ASSUME NEW cur
      PROVE  /\ Right(TencentParse(r, q, a, cur), mode, p)
             /\ \A comps : Right(comps, mode, p) => "FAIL" \notin cwp(q, a, comps)
  <2>1. TencentParse(r, q, a, cur) = YunjingParse(q, a, cur)
    BY SMT DEF TencentParse, DCDBTypes
  <2>2. /\ Right(YunjingParse(q, a, cur), mode, p)
        /\ \A comps : Right(comps, mode, p) => "FAIL" \notin cwp(q, a, comps)
    BY <1>2, <1>3, BundlesRead
  <2> QED
    BY <2>1, <2>2
<1>5. \A comps : Validate("cwp", q, a, comps) = cwp(q, a, comps)
  BY SMT DEF Validate
<1>6. Compares("cwp", q, a)
  BY JudgesCompare DEF AloneJudged
<1>7. ReadsRight(r, q, a, mode, p)
  BY <1>4 DEF ReadsRight
<1>8. \A comps : Right(comps, mode, p) => "FAIL" \notin Validate("cwp", q, a, comps)
  BY <1>4, <1>5
<1> QED
  BY <1>6, <1>7, <1>8, SoundByComponent

LEMMA CloudHSMSound ==
    ASSUME NEW r, HasNumbers(r), r.type = "tencentcloud_cloudhsm_instance", NEW q \in Extract(r),
           NEW mode \in Understood(q), NEW a, Answers(a, q, mode)
    PROVE  Sound("cloudhsm", r, q, a)
<1>1. q \in CloudHSMExtract(r)
  BY SMT DEF Extract, DCDBTypes
<1>2. q.product = "cloudhsm" /\ Units(q) \in Int /\ Units(q) > 0 /\ mode = "month"
  BY <1>1, OnlyAsked
<1>3. PICK block, p : Fair(p) /\ Healthy(a, block, q, mode, p)
  <2>1. Asked(q, mode)
    BY <1>2 DEF Asked, Modes
  <2> QED
    BY <2>1, AnswerStates
<1>4. ASSUME NEW cur
      PROVE  /\ Right(TencentParse(r, q, a, cur), mode, p)
             /\ \A comps : Right(comps, mode, p) => "FAIL" \notin cloudhsm(q, a, comps)
  <2>1. TencentParse(r, q, a, cur) = CloudHSMParse(q, a, cur)
    BY SMT DEF TencentParse, DCDBTypes
  <2>2. /\ Right(CloudHSMParse(q, a, cur), mode, p)
        /\ \A comps : Right(comps, mode, p) => "FAIL" \notin cloudhsm(q, a, comps)
    BY <1>2, <1>3, CloudHSMReads
  <2> QED
    BY <2>1, <2>2
<1>5. \A comps : Validate("cloudhsm", q, a, comps) = cloudhsm(q, a, comps)
  BY SMT DEF Validate
<1>6. Compares("cloudhsm", q, a)
  BY JudgesCompare DEF AloneJudged
<1>7. ReadsRight(r, q, a, mode, p)
  BY <1>4 DEF ReadsRight
<1>8. \A comps : Right(comps, mode, p) => "FAIL" \notin Validate("cloudhsm", q, a, comps)
  BY <1>4, <1>5
<1> QED
  BY <1>6, <1>7, <1>8, SoundByComponent

LEMMA MySQLSound ==
    ASSUME NEW r, HasNumbers(r), r.type = "tencentcloud_mysql_instance", NEW q \in Extract(r),
           NEW mode \in Understood(q), NEW a, Answers(a, q, mode), q.params.PayType # "PRE_PAID"
    PROVE  Sound("mysql", r, q, a)
<1>1. q \in MySQLExtract(r)
  BY SMT DEF Extract, DCDBTypes
<1>2. /\ q.product = "cdb" /\ Units(q) \in Int /\ Units(q) > 0 /\ ~isPrepaid(q)
      /\ mode = "hour" /\ q.params.PayType = "HOUR_PAID"
  BY <1>1, MySQLAsked
<1>3. PICK block, p : Fair(p) /\ Healthy(a, block, q, mode, p)
  <2>1. Asked(q, mode)
    BY <1>2 DEF Asked, Modes
  <2> QED
    BY <2>1, AnswerStates
<1>4. ASSUME NEW cur
      PROVE  /\ Right(TencentParse(r, q, a, cur), mode, p)
             /\ \A comps : Right(comps, mode, p) => "FAIL" \notin cdbFen(q, a, comps)
  <2>1. TencentParse(r, q, a, cur) = MySQLParse(q, a, cur)
    BY SMT DEF TencentParse, DCDBTypes
  <2>2. /\ Right(MySQLParse(q, a, cur), mode, p)
        /\ \A comps : Right(comps, mode, p) => "FAIL" \notin cdbFen(q, a, comps)
    BY <1>2, <1>3, MySQLReads
  <2> QED
    BY <2>1, <2>2
<1>5. \A comps : Validate("mysql", q, a, comps) = cdbFen(q, a, comps)
  BY SMT DEF Validate
<1>6. Compares("mysql", q, a)
  BY JudgesCompare DEF AloneJudged
<1>7. ReadsRight(r, q, a, mode, p)
  BY <1>4 DEF ReadsRight
<1>8. \A comps : Right(comps, mode, p) => "FAIL" \notin Validate("mysql", q, a, comps)
  BY <1>4, <1>5
<1> QED
  BY <1>6, <1>7, <1>8, SoundByComponent

LEMMA CynosSound ==
    ASSUME NEW r, HasNumbers(r), r.type = "tencentcloud_cynosdb_cluster", NEW q \in Extract(r),
           NEW mode \in Understood(q), NEW a, Answers(a, q, mode)
    PROVE  Sound("cynosdb", r, q, a)
<1>1. q \in CynosExtract(r)
  BY SMT DEF Extract, DCDBTypes
<1>2. /\ q.product = "cynosdb" /\ Units(q) \in Int /\ Units(q) > 0 /\ mode \in {"hour", "month"}
      /\ isPrepaid(q) <=> mode = "month"
      /\ q.params.InstancePayMode = "PREPAID" <=> mode = "month"
      /\ q.params.StoragePayMode = "PREPAID" => q.params.StorageLimit \in Int /\ q.params.StorageLimit > 0
  BY <1>1, CynosAsked
<1>3. PICK block, p : Fair(p) /\ Healthy(a, block, q, mode, p)
  <2>1. Asked(q, mode)
    BY <1>2 DEF Asked, Modes
  <2> QED
    BY <2>1, AnswerStates
<1>4. ASSUME NEW cur
      PROVE  /\ Right(TencentParse(r, q, a, cur), mode, p)
             /\ mode = "hour" => \A comps : Right(comps, mode, p) => "FAIL" \notin cynosdb(q, a, comps)
             /\ mode = "month" => Summed(TencentParse(r, q, a, cur), CynosTotal(a), p)
  <2>1. TencentParse(r, q, a, cur) = CynosParse(q, a, cur)
    BY SMT DEF TencentParse, DCDBTypes
  <2>2. /\ Right(CynosParse(q, a, cur), mode, p)
        /\ mode = "hour" => \A comps : Right(comps, mode, p) => "FAIL" \notin cynosdb(q, a, comps)
        /\ mode = "month" => Summed(CynosParse(q, a, cur), CynosTotal(a), p)
    BY <1>2, <1>3, CynosReads
  <2> QED
    BY <2>1, <2>2
<1>5. ReadsRight(r, q, a, mode, p)
  BY <1>4 DEF ReadsRight
<1>6. CASE mode = "hour"
  <2>1. \A comps : Validate("cynosdb", q, a, comps) = cynosdb(q, a, comps)
    BY SMT DEF Validate
  <2>2. ~isPrepaid(q)
    BY <1>2, <1>6
  <2>3. Compares("cynosdb", q, a)
    BY <2>2, JudgesCompare
  <2>4. \A comps : Right(comps, mode, p) => "FAIL" \notin Validate("cynosdb", q, a, comps)
    BY <1>4, <1>6, <2>1
  <2> QED
    BY <1>5, <2>2, <2>3, <2>4, SoundByComponent
<1>7. CASE mode = "month"
  <2>1. isPrepaid(q) /\ ReadsRight(r, q, a, "month", p)
    BY <1>2, <1>5, <1>7
  <2>2. \A cur : Summed(TencentParse(r, q, a, cur), CynosTotal(a), p)
    BY <1>4, <1>7
  <2> QED
    BY <2>1, <2>2, SoundBySum
<1> QED
  BY <1>2, <1>6, <1>7

\* A disk of no size has no price.
LEMMA CBSSound ==
    ASSUME NEW r, HasNumbers(r), r.type = "tencentcloud_cbs_storage", NEW q \in Extract(r),
           NEW mode \in Understood(q), NEW a, Answers(a, q, mode)
    PROVE  Sound("cbs", r, q, a)
<1>1. q \in CBSExtract(r)
  BY SMT DEF Extract, DCDBTypes
<1>2. q.product = "cbs" /\ Units(q) \in Int /\ mode \in {"hour", "month"}
  BY <1>1, CBSAsked
<1>3. \A cur : TencentParse(r, q, a, cur) = CBSParse(q, a, cur)
  BY SMT DEF TencentParse, DCDBTypes
<1>4. CASE Units(q) > 0
  <2>1. PICK block, p : Fair(p) /\ Healthy(a, block, q, mode, p)
    <3>1. Asked(q, mode)
      BY <1>2, <1>4 DEF Asked, Modes
    <3> QED
      BY <3>1, AnswerStates
  <2>2. ASSUME NEW cur
        PROVE  /\ Right(TencentParse(r, q, a, cur), mode, p)
               /\ \A comps : Right(comps, mode, p) => "FAIL" \notin cbs(q, a, comps)
    <3>1. /\ Right(CBSParse(q, a, cur), mode, p)
          /\ \A comps : Right(comps, mode, p) => "FAIL" \notin cbs(q, a, comps)
      BY <1>2, <2>1, CBSReads
    <3> QED
      BY <1>3, <3>1
  <2>3. \A comps : Validate("cbs", q, a, comps) = cbs(q, a, comps)
    BY SMT DEF Validate
  <2>4. Compares("cbs", q, a)
    BY JudgesCompare DEF AloneJudged
  <2>5. ReadsRight(r, q, a, mode, p)
    BY <2>2 DEF ReadsRight
  <2>6. \A comps : Right(comps, mode, p) => "FAIL" \notin Validate("cbs", q, a, comps)
    BY <2>2, <2>3
  <2> QED
    BY <2>4, <2>5, <2>6, SoundByComponent
<1>5. CASE Units(q) <= 0
  <2>1. PICK reduced \in BOOLEAN, wrapped \in BOOLEAN, stated \in BOOLEAN : \E currency :
             a = TencentAnswer(q, mode, "none", reduced, wrapped, stated, currency)
    BY DEF Answers
  <2>2. PICK currency : a = TencentAnswer(q, mode, "none", reduced, wrapped, stated, currency)
    BY <2>1
  <2> DEFINE p == PriceOf(mode, Units(q), reduced)
  <2>3. \E block : Healthy(TencentAnswer(q, mode, "none", reduced, wrapped, stated, currency), block, q, mode, p)
    BY <1>2, HealthyAnswer
  <2>4. PICK block : Healthy(a, block, q, mode, p)
    BY <2>2, <2>3, Zenon
  <2>5. p.list \in Int /\ p.list <= 0 /\ p.paid \in Int /\ p.paid <= 0
    <3>1. Listed[mode] \in {3, 9} /\ Reduced[mode] \in {2, 6}
      BY <1>2 DEF Listed, Reduced
    <3>2. \A n \in {3, 9, 2, 6} : n * Units(q) \in Int /\ n * Units(q) <= 0
      BY <1>2, <1>5
    <3>3. p.list = Listed[mode] * Units(q) /\ p.paid \in {Listed[mode] * Units(q), Reduced[mode] * Units(q)}
      BY DEF PriceOf
    <3> HIDE DEF p
    <3> QED
      BY <3>1, <3>2, <3>3
  <2> HIDE DEF p
  <2>6. \A cur : CBSParse(q, a, cur) = <<>>
    BY <1>2, <2>4, <2>5, CBSRefused
  <2>7. \A cur : TencentParse(r, q, a, cur) = <<>>
    BY <1>3, <2>6
  <2> QED
    BY <2>7, SoundByNothing
<1> QED
  BY <1>2, <1>4, <1>5

\* What is asked for a name, and the answer.
LEMMA NameStated ==
    ASSUME NEW r, HasNumbers(r), r.type = "tencentcloud_domain_registration", NEW q \in Extract(r),
           NEW mode \in Understood(q), NEW a, Answers(a, q, mode)
    PROVE  /\ mode = "year"
           /\ \A cur : TencentParse(r, q, a, cur) = DomainParse(q, a, cur)
           /\ \E p, first : /\ Fair(p) /\ p.list = 24 /\ p.paid \in {12, 24}
                            /\ Placed(a, NameList(p, first))
<1>1. q \in DomainExtract(r)
  BY SMT DEF Extract, DCDBTypes
<1>2. q.product = "domain" /\ mode = "year" /\ Units(q) = 1
  BY <1>1, OnlyAsked
<1>3. \A cur : TencentParse(r, q, a, cur) = DomainParse(q, a, cur)
  BY SMT DEF TencentParse, DCDBTypes
<1>4. PICK reduced \in BOOLEAN, wrapped \in BOOLEAN, stated \in BOOLEAN : \E currency :
           a = TencentAnswer(q, mode, "none", reduced, wrapped, stated, currency)
  BY DEF Answers
<1>5. PICK currency : a = TencentAnswer(q, mode, "none", reduced, wrapped, stated, currency)
  BY <1>4
<1> DEFINE p == PriceOf(mode, Units(q), reduced)
<1>6. Fair(p)
  BY <1>2, FairPrice DEF Modes
<1>7. Placed(a, NameList(p, stated))
  BY <1>2, <1>5, SMT DEF TencentAnswer, Placed
<1>8. p.list = 24 /\ p.paid \in {12, 24}
  BY <1>2 DEF PriceOf, Listed, Reduced
<1> HIDE DEF p
<1> QED
  BY <1>2, <1>3, <1>6, <1>7, <1>8

LEMMA DomainSound ==
    ASSUME NEW r, HasNumbers(r), r.type = "tencentcloud_domain_registration", NEW q \in Extract(r),
           NEW mode \in Understood(q), NEW a, Answers(a, q, mode), NewFirst(a)
    PROVE  Sound("domain", r, q, a)
<1>1. PICK p, first : Fair(p) /\ Placed(a, NameList(p, first))
  BY NameStated
<1>2. ReadsRight(r, q, a, "year", p)
  BY <1>1, NameStated, DomainReads DEF ReadsRight
<1>3. \A comps : Validate("domain", q, a, comps) = domain(q, a, comps)
  BY SMT DEF Validate
<1>4. \A comps : Right(comps, "year", p) => "FAIL" \notin Validate("domain", q, a, comps)
  BY <1>1, <1>3, DomainJudged
<1>5. Compares("domain", q, a)
  BY JudgesCompare DEF AloneJudged
<1> QED
  BY <1>2, <1>4, <1>5, SoundByComponent

(***************************************************************************)
(* The two that are misjudged.                                             *)
(***************************************************************************)

\* A judge that takes another entry of the list fails the right one.
LEMMA DomainFails ==
    ASSUME NEW r, HasNumbers(r), r.type = "tencentcloud_domain_registration", NEW q \in Extract(r),
           NEW mode \in Understood(q), NEW a, Answers(a, q, mode), ~NewFirst(a), NEW cur
    PROVE  "FAIL" \in Validate("domain", q, a, TencentParse(r, q, a, cur))
<1>1. PICK p, first : Fair(p) /\ p.list = 24 /\ p.paid \in {12, 24} /\ Placed(a, NameList(p, first))
  BY NameStated
<1>2. Right(TencentParse(r, q, a, cur), "year", p)
  BY <1>1, NameStated, DomainReads
<1>3. Yuan(7 * p.list) \div 12 # Yuan(p.paid) \div 12
  BY <1>1 DEF Yuan
<1>4. \A comps : Validate("domain", q, a, comps) = domain(q, a, comps)
  BY SMT DEF Validate
<1> QED
  BY <1>1, <1>2, <1>3, <1>4, DomainJudged

\* A judge that looks for a price for the hour fails the one for the month.
LEMMA MySQLFails ==
    ASSUME NEW r, HasNumbers(r), r.type = "tencentcloud_mysql_instance", NEW q \in Extract(r),
           NEW mode \in Understood(q), NEW a, Answers(a, q, mode), q.params.PayType = "PRE_PAID", NEW cur
    PROVE  "FAIL" \in Validate("mysql", q, a, TencentParse(r, q, a, cur))
<1>1. q \in MySQLExtract(r)
  BY SMT DEF Extract, DCDBTypes
<1>2. /\ q.product = "cdb" /\ Units(q) \in Int /\ Units(q) > 0 /\ ~isPrepaid(q)
      /\ mode = "month" /\ q.params.PayType # "HOUR_PAID"
  BY <1>1, MySQLAsked
<1>3. PICK block, p : Fair(p) /\ Healthy(a, block, q, mode, p)
  <2>1. Asked(q, mode)
    BY <1>2 DEF Asked, Modes
  <2> QED
    BY <2>1, AnswerStates
<1>4. TencentParse(r, q, a, cur) = MySQLParse(q, a, cur)
  BY SMT DEF TencentParse, DCDBTypes
<1>5. /\ Right(MySQLParse(q, a, cur), mode, p)
      /\ \A comps : Right(comps, mode, p) => "FAIL" \in cdbFen(q, a, comps)
  BY <1>2, <1>3, MySQLReads
<1>6. \A comps : Validate("mysql", q, a, comps) = cdbFen(q, a, comps)
  BY SMT DEF Validate
<1> QED
  BY <1>4, <1>5, <1>6

(***************************************************************************)
(* All products.                                                           *)
(***************************************************************************)

\* A resource of a product, with the answer to its request.
Asks(name, r, q, mode, a) ==
    /\ \E i \in DOMAIN AllTestCases : name = AllTestCases[i]
    /\ r.type \in ResourceTypes[name] \ Unmapped
    /\ HasNumbers(r) /\ q \in Extract(r) /\ mode \in Understood(q) /\ Answers(a, q, mode)
    /\ name = "mysql" => q.params.PayType # "PRE_PAID"
    /\ name = "domain" => NewFirst(a)

LEMMA ProductSound ==
    ASSUME NEW name, NEW r, NEW q, NEW mode, NEW a, Asks(name, r, q, mode, a)
    PROVE  Sound(name, r, q, a)
<1>1. /\ name \in {"cvm", "cbs", "eip", "clb", "mysql", "postgresql", "redis", "vpn_gateway", "dc_gateway",
                   "mongodb", "mariadb", "cynosdb", "lighthouse", "ecm", "sqlserver", "dcdb", "gaap", "cwp", "cloudhsm",
                   "domain"}
      /\ HasNumbers(r) /\ q \in Extract(r) /\ mode \in Understood(q) /\ Answers(a, q, mode)
      /\ r.type \in ResourceTypes[name] \ Unmapped
      /\ name = "mysql" => q.params.PayType # "PRE_PAID"
      /\ name = "domain" => NewFirst(a)
  <2>1. DOMAIN AllTestCases = 1..20
    BY DEF AllTestCases
  <2>2. PICK i \in 1..20 : name = AllTestCases[i]
    BY <2>1 DEF Asks
  <2> QED
    BY <2>2, SMT DEF Asks, AllTestCases
<1>2. CASE name \in {"cvm", "cbs", "eip", "clb", "mysql"}
  <2>1. /\ name = "cvm" => r.type = "tencentcloud_instance"
        /\ name = "cbs" => r.type = "tencentcloud_cbs_storage"
        /\ name = "eip" => r.type = "tencentcloud_eip"
        /\ name = "clb" => r.type = "tencentcloud_clb_instance"
        /\ name = "mysql" => r.type = "tencentcloud_mysql_instance"
    BY <1>1 DEF ResourceTypes
  <2> QED
    BY <1>1, <1>2, <2>1, CVMSound, CBSSound, EIPSound, CLBSound, MySQLSound
<1>3. CASE name \in {"postgresql", "redis", "vpn_gateway", "dc_gateway", "mongodb"}
  <2>1. /\ name = "postgresql" => r.type = "tencentcloud_postgresql_instance"
        /\ name = "redis" => r.type = "tencentcloud_redis_instance"
        /\ name = "vpn_gateway" => r.type = "tencentcloud_vpn_gateway"
        /\ name = "dc_gateway" => r.type = "tencentcloud_dc_gateway"
        /\ name = "mongodb" => r.type = "tencentcloud_mongodb_instance"
    BY <1>1 DEF ResourceTypes
  <2> QED
    BY <1>1, <1>3, <2>1, PostgresSound, RedisSound, VPNSound, DirectConnectSound, MongoSound
<1>4. CASE name \in {"mariadb", "cynosdb", "lighthouse", "ecm", "sqlserver"}
  <2>1. /\ name = "mariadb" => r.type = "tencentcloud_mariadb_instance"
        /\ name = "cynosdb" => r.type = "tencentcloud_cynosdb_cluster"
        /\ name = "lighthouse" => r.type = "tencentcloud_lighthouse_instance"
        /\ name = "ecm" => r.type = "tencentcloud_ecm_instance"
        /\ name = "sqlserver" => r.type = "tencentcloud_sqlserver_instance"
    BY <1>1 DEF ResourceTypes
  <2> QED
    BY <1>1, <1>4, <2>1, MariaDBSound, CynosSound, LighthouseSound, ECMSound, SQLServerSound
<1>5. CASE name \in {"dcdb", "gaap", "cwp", "cloudhsm", "domain"}
  <2>1. /\ name = "dcdb" => r.type \in DCDBTypes
        /\ name = "gaap" => r.type = "tencentcloud_gaap_proxy"
        /\ name = "cwp" => r.type = "tencentcloud_cwp_license_order"
        /\ name = "cloudhsm" => r.type = "tencentcloud_cloudhsm_instance"
        /\ name = "domain" => r.type = "tencentcloud_domain_registration"
    BY <1>1 DEF ResourceTypes, DCDBTypes, Unmapped
  <2> QED
    BY <1>1, <1>5, <2>1, DCDBSound, GAAPSound, YunjingSound, CloudHSMSound, DomainSound
<1> QED
  BY <1>1, <1>2, <1>3, <1>4, <1>5

(***************************************************************************)
(* The judges.                                                             *)
(***************************************************************************)

\* The checks of a resource: at least one, and each has one of three statuses.
AreChecks(verdict) == verdict \subseteq {"PASS", "FAIL", "SUSPICIOUS"} /\ verdict # {}

LEMMA VerdictsAreChecks == \A price, pairs : AreChecks(Verdicts(price, pairs))
  BY DEF AreChecks, Verdicts

LEMMA WaysToJudge ==
    \A price, comps : /\ AreChecks(AsHourly(price, comps))
                      /\ AreChecks(AsMonthly(price, comps))
                      /\ AreChecks(OnlyMonthly(price, comps))
  BY VerdictsAreChecks DEF AsHourly, AsMonthly, OnlyMonthly

\* Every judge comes to some verdict.
LEMMA JudgesJudge ==
    ASSUME NEW i \in DOMAIN AllTestCases, NEW q, NEW a, NEW comps
    PROVE  AreChecks(Validate(AllTestCases[i], q, a, comps))
<1>1. AreChecks(cvmClb(q, a, comps)) /\ AreChecks(cbs(q, a, comps)) /\ AreChecks(lighthouse(q, a, comps))
  BY WaysToJudge, Zenon DEF cvmClb, cbs, lighthouse
<1>2. AreChecks(ecm(q, a, comps)) /\ AreChecks(cdbFen(q, a, comps)) /\ AreChecks(redis(q, a, comps))
  BY WaysToJudge, Zenon DEF ecm, cdbFen, redis
<1>3. AreChecks(mongodb(q, a, comps)) /\ AreChecks(cynosdb(q, a, comps)) /\ AreChecks(gaap(q, a, comps))
  BY WaysToJudge, VerdictsAreChecks, Zenon DEF mongodb, cynosdb, gaap
<1>4. AreChecks(vpn(q, a, comps)) /\ AreChecks(eip(q, a, comps)) /\ AreChecks(dcg(q, a, comps))
  BY WaysToJudge, Zenon DEF vpn, eip, dcg
<1>5. AreChecks(cwp(q, a, comps)) /\ AreChecks(cloudhsm(q, a, comps))
  BY WaysToJudge, Zenon DEF cwp, cloudhsm
<1>6. AreChecks(domain(q, a, comps))
  <2>1. AreChecks({"FAIL"})
    BY DEF AreChecks
  <2> QED
    BY <2>1, VerdictsAreChecks, Zenon DEF domain
<1>7. AllTestCases[i] \in {"cvm", "cbs", "eip", "clb", "mysql", "postgresql", "redis", "vpn_gateway",
                           "dc_gateway", "mongodb", "mariadb", "cynosdb", "lighthouse", "ecm",
                           "sqlserver", "dcdb", "gaap", "cwp", "cloudhsm", "domain"}
  BY DEF AllTestCases
<1> QED
  BY <1>1, <1>2, <1>3, <1>4, <1>5, <1>6, <1>7 DEF Validate

(***************************************************************************)
(* The inductive invariant.                                                *)
(***************************************************************************)

\* Of a product that is under test.
Testing == {"next", "planned", "asked", "answered", "skipped", "priced", "judged"}

\* What the resources so far came to is in the checks, or in the status.
Accounted ==
    /\ met \subseteq {"unmapped", "unasked", "error", "failed", "passed", "suspicious"}
    /\ "failed" \in met => "FAIL" \in checks
    /\ "FAIL" \in checks => "failed" \in met \/ "FAIL" \in verdicts
    /\ "suspicious" \in met => checks \cap {"FAIL", "SUSPICIOUS"} # {}
    /\ met \cap {"unasked", "error"} # {} => status # "ALL_PASS"

\* The stages of the test.
Staged ==
    /\ todo \subseteq DOMAIN AllTestCases
    /\ hasFail \in BOOLEAN
    /\ stage \in Testing \cup {"start", "product", "over"}
    /\ stage \in Testing => todo # {} /\ status \in {"ALL_PASS", "API_ERROR", "SKIP"}
    /\ stage \notin Testing => met = {} /\ checks = {}
    /\ IF stage = "judged" THEN AreChecks(verdicts) /\ verdicts \subseteq checks ELSE verdicts = {}
    /\ stage = "start" => report = <<>> /\ ~hasFail

\* The report and the exit code.
Reported ==
    /\ report # <<>> =>
        /\ report.status = "ALL_PASS" => report.met \subseteq {"passed", "unmapped"}
        /\ "failed" \in report.met <=> report.status = "HAS_FAIL"
        /\ report.status = "HAS_FAIL" => report.conclusion = "failed" /\ hasFail
    /\ stage # "over" => exit = -1
    /\ exit \in {-1, 0, 1, 2}
    /\ exit = 0 => ~hasFail
    /\ hasFail => exit \in {-1, 1}

TestInv == Staged /\ Accounted /\ Reported

LEMMA InitTestInv == InitTest => TestInv
  BY DEF InitTest, TestInv, Staged, Accounted, Reported, Testing, AreChecks

\* The product under test is one of the test cases.
LEMMA OneUnderTest ==
    ASSUME todo \subseteq DOMAIN AllTestCases, todo # {}
    PROVE  Min(todo) \in DOMAIN AllTestCases
<1>1. todo \in SUBSET Nat
  BY DEF AllTestCases
<1>2. PICK m \in todo : \A n \in todo : m <= n
  BY <1>1, NatMinimum
<1>3. Min(todo) \in todo
  BY <1>2 DEF Min
<1> QED
  BY <1>3

(***************************************************************************)
(* The steps.                                                              *)
(***************************************************************************)

\* Whichever products are selected, none has been tested yet.
LEMMA StartKeeps == TestInv /\ Start => TestInv'
<1> SUFFICES ASSUME TestInv, Start
             PROVE  TestInv'
  OBVIOUS
<1>1. /\ stage = "start" /\ stage' \in {"product", "over"}
      /\ todo' \subseteq DOMAIN AllTestCases
      /\ IF stage' = "product" THEN exit' = exit ELSE exit' \in {1, 2}
      /\ UNCHANGED <<verdicts, checks, status, met, report, hasFail>>
  BY DEF Start, TestInv, Staged, test
<1> QED
  BY <1>1 DEF TestInv, Staged, Accounted, Reported, Testing

\* A product without a usable plan is reported without a verdict.
LEMMA AbandonProductKeeps == TestInv /\ AbandonProduct => TestInv'
<1> SUFFICES ASSUME TestInv, AbandonProduct
             PROVE  TestInv'
  OBVIOUS
<1>1. PICK as \in {"MANUAL", "SKIP"} : EndProduct(as, "none")
  BY DEF AbandonProduct
<1>2. /\ stage = "product" /\ stage' = "product"
      /\ todo' \subseteq todo
      /\ report' = [status |-> as, conclusion |-> "none", met |-> {}]
      /\ UNCHANGED <<verdicts, checks, status, met, hasFail, exit>>
  BY <1>1 DEF AbandonProduct, EndProduct, TestInv, Staged, Testing
<1>3. Staged'
  BY <1>2 DEF TestInv, Staged, Testing
<1>4. Accounted'
  <2>1. UNCHANGED <<verdicts, checks, status, met>>
    BY <1>2
  <2> QED
    BY <2>1 DEF TestInv, Accounted
<1>5. Reported'
  BY <1>2 DEF TestInv, Reported
<1> QED
  BY <1>3, <1>4, <1>5 DEF TestInv

\* Testing a product starts without checks.
LEMMA StartProductKeeps == TestInv /\ StartProduct => TestInv'
<1> SUFFICES ASSUME TestInv, StartProduct
             PROVE  TestInv'
  OBVIOUS
<1>1. /\ stage = "product" /\ stage' = "next" /\ todo # {}
      /\ status' = "ALL_PASS" /\ checks' = {} /\ met' = {}
      /\ UNCHANGED <<todo, verdicts, report, hasFail, exit>>
  BY DEF StartProduct
<1> QED
  BY <1>1 DEF TestInv, Staged, Accounted, Reported, Testing

\* The checks decide on the status of the product, and else its resources do.
LEMMA FinishProductKeeps == TestInv /\ FinishProduct => TestInv'
<1> SUFFICES ASSUME TestInv, FinishProduct
             PROVE  TestInv'
  OBVIOUS
<1>1. /\ stage = "next" /\ stage' = "product"
      /\ todo' \subseteq todo
      /\ report' = [status |-> FinalStatus, conclusion |-> Conclusion, met |-> met]
      /\ hasFail' = (hasFail \/ "FAIL" \in checks)
      /\ checks' = {} /\ met' = {}
      /\ UNCHANGED <<verdicts, exit>>
  BY DEF FinishProduct, EndProduct
<1>2. verdicts = {} /\ status \in {"ALL_PASS", "API_ERROR", "SKIP"} /\ exit = -1
  BY <1>1 DEF TestInv, Staged, Reported, Testing
<1>3. /\ FinalStatus = "ALL_PASS" => met \subseteq {"passed", "unmapped"}
      /\ "failed" \in met <=> FinalStatus = "HAS_FAIL"
      /\ FinalStatus = "HAS_FAIL" => Conclusion = "failed" /\ hasFail'
  <2>1. FinalStatus = IF "FAIL" \in checks THEN "HAS_FAIL"
                      ELSE IF "SUSPICIOUS" \in checks THEN "HAS_SUSPICIOUS" ELSE status
    BY DEF FinalStatus
  <2>2. "FAIL" \in checks => Conclusion = "failed"
    BY DEF Conclusion
  <2>3. "failed" \in met <=> "FAIL" \in checks
    BY <1>2 DEF TestInv, Accounted
  <2>4. FinalStatus = "HAS_FAIL" <=> "FAIL" \in checks
    BY <1>2, <2>1
  <2>5. FinalStatus = "ALL_PASS" => met \subseteq {"passed", "unmapped"}
    <3> SUFFICES ASSUME FinalStatus = "ALL_PASS", NEW came \in met
                 PROVE  came \in {"passed", "unmapped"}
      OBVIOUS
    <3>1. "FAIL" \notin checks /\ "SUSPICIOUS" \notin checks /\ status = "ALL_PASS"
      BY <1>2, <2>1
    <3>2. came \in {"unmapped", "unasked", "error", "failed", "passed", "suspicious"}
      BY DEF TestInv, Accounted
    <3>3. came # "failed" /\ came # "suspicious" /\ came # "unasked" /\ came # "error"
      BY <3>1 DEF TestInv, Accounted
    <3> QED
      BY <3>2, <3>3
  <2> QED
    BY <1>1, <2>2, <2>3, <2>4, <2>5
<1>4. Staged'
  BY <1>1, <1>2 DEF TestInv, Staged, Testing
<1>5. Accounted'
  BY <1>1 DEF TestInv, Accounted
<1>6. Reported'
  BY <1>1, <1>2, <1>3 DEF TestInv, Reported
<1> QED
  BY <1>4, <1>5, <1>6 DEF TestInv

\* The exit code is that of the checks.
LEMMA SummariseKeeps == TestInv /\ Summarise => TestInv'
<1> SUFFICES ASSUME TestInv, Summarise
             PROVE  TestInv'
  OBVIOUS
<1>1. /\ stage = "product" /\ stage' = "over"
      /\ exit' = IF hasFail THEN 1 ELSE 0
      /\ UNCHANGED <<todo, verdicts, checks, status, met, report, hasFail>>
  BY DEF Summarise
<1> QED
  BY <1>1 DEF TestInv, Staged, Accounted, Reported, Testing

\* The steps of a resource on its way to a price.
LEMMA PricingKeeps ==
    TestInv /\ (StartResource \/ Price \/ Misread) => TestInv'
<1> SUFFICES ASSUME TestInv, StartResource \/ Price \/ Misread
             PROVE  TestInv'
  OBVIOUS
<1>1. /\ stage \in Testing \ {"judged"} /\ stage' \in Testing \ {"judged"}
      /\ UNCHANGED test
  <2>1. CASE StartResource
    BY <2>1 DEF StartResource, Testing
  <2>2. CASE Misread
    BY <2>2 DEF Misread, test, Testing
  <2>3. CASE Price
    <3>1. Ask => stage = "planned" /\ stage' \in {"asked", "skipped"}
      BY DEF Ask, Skip
    <3>2. QueryFails => stage = "asked" /\ stage' = "skipped"
      BY DEF QueryFails, Skip
    <3>3. AnswerTencent => stage = "asked" /\ stage' = "answered"
      BY DEF AnswerTencent, Answered
    <3>4. Read => stage = "answered" /\ stage' \in {"priced", "skipped"}
      BY DEF Read, Skip
    <3> QED
      BY <2>3, <3>1, <3>2, <3>3, <3>4 DEF Price, Testing
  <2> QED
    BY <2>1, <2>2, <2>3
<1> QED
  BY <1>1 DEF TestInv, Staged, Accounted, Reported, Testing, test

\* A resource is judged, and nothing is added up yet.
LEMMA JudgeKeeps == TestInv /\ Judge => TestInv'
<1> SUFFICES ASSUME TestInv, Judge
             PROVE  TestInv'
  OBVIOUS
<1>1. /\ stage = "priced" /\ stage' = "judged"
      /\ verdicts' = Validate(Tested, request, answer, quote)
      /\ checks' = checks \cup verdicts'
      /\ UNCHANGED <<todo, status, met, report, hasFail, exit>>
  BY DEF Judge
<1>2. Min(todo) \in DOMAIN AllTestCases
  BY <1>1, OneUnderTest DEF TestInv, Staged, Testing
<1>3. AreChecks(verdicts')
  BY <1>1, <1>2, JudgesJudge DEF Tested
<1>4. Staged'
  BY <1>1, <1>3 DEF TestInv, Staged, Testing
<1>5. verdicts = {}
  BY <1>1 DEF TestInv, Staged
<1>6. Accounted'
  BY <1>1, <1>5 DEF TestInv, Accounted
<1>7. Reported'
  BY <1>1 DEF TestInv, Reported
<1> QED
  BY <1>4, <1>6, <1>7 DEF TestInv

\* What is the end of a resource, however it comes to it.
LEMMA EndResourceKeeps ==
    ASSUME TestInv, NEW as \in {"ALL_PASS", "API_ERROR", "SKIP"}, NEW came, EndResource(as, came),
           stage \in Testing,
           came \in {"unmapped", "unasked", "error", "failed", "passed", "suspicious"},
           as = "ALL_PASS" => status = "ALL_PASS" /\ came \notin {"unasked", "error"},
           came = "failed" => "FAIL" \in verdicts,
           "FAIL" \in verdicts => came = "failed",
           came = "suspicious" => "SUSPICIOUS" \in verdicts
    PROVE  TestInv'
<1>1. /\ status' = as /\ met' = met \cup {came}
      /\ stage' = "next" /\ verdicts' = {}
      /\ UNCHANGED <<todo, checks, report, hasFail, exit>>
  BY DEF EndResource
<1>2. verdicts \subseteq checks
  BY DEF TestInv, Staged
<1>3. Staged'
  BY <1>1 DEF TestInv, Staged, Testing
<1>4. Accounted'
  BY <1>1, <1>2 DEF TestInv, Accounted
<1>5. Reported'
  BY <1>1 DEF TestInv, Reported, Testing
<1> QED
  BY <1>3, <1>4, <1>5 DEF TestInv

LEMMA ResourceEndsKeeps ==
    TestInv /\ (PassUnmapped \/ PassUnasked \/ PassError \/ Judged) => TestInv'
<1> SUFFICES ASSUME TestInv, PassUnmapped \/ PassUnasked \/ PassError \/ Judged
             PROVE  TestInv'
  OBVIOUS
<1>1. stage \in Testing => status \in {"ALL_PASS", "API_ERROR", "SKIP"}
  BY DEF TestInv, Staged
<1>2. stage # "judged" => verdicts = {}
  BY DEF TestInv, Staged
<1>3. CASE PassUnmapped
  <2>1. stage = "next" /\ EndResource(status, "unmapped")
    BY <1>3 DEF PassUnmapped
  <2> QED
    BY <1>1, <1>2, <2>1, EndResourceKeeps DEF Testing
<1>4. CASE PassUnasked
  <2>1. stage = "asked" /\ EndResource("SKIP", "unasked")
    BY <1>4 DEF PassUnasked
  <2> QED
    BY <1>2, <2>1, EndResourceKeeps DEF Testing
<1>5. CASE PassError
  <2>1. stage = "skipped" /\ EndResource("API_ERROR", "error")
    BY <1>5 DEF PassError
  <2> QED
    BY <1>2, <2>1, EndResourceKeeps DEF Testing
<1>6. CASE Judged
  <2> DEFINE came == CASE "FAIL" \in verdicts -> "failed" [] verdicts = {"PASS"} -> "passed" [] OTHER -> "suspicious"
  <2>1. stage = "judged" /\ EndResource(status, came)
    BY <1>6 DEF Judged
  <2>2. AreChecks(verdicts)
    BY <2>1 DEF TestInv, Staged
  <2>3. /\ came \in {"failed", "passed", "suspicious"}
        /\ came = "failed" => "FAIL" \in verdicts
        /\ "FAIL" \in verdicts => came = "failed"
        /\ came = "suspicious" => "SUSPICIOUS" \in verdicts
    BY <2>2 DEF AreChecks
  <2> HIDE DEF came
  <2> QED
    BY <1>1, <2>1, <2>3, EndResourceKeeps DEF Testing
<1> QED
  BY <1>3, <1>4, <1>5, <1>6

\* No step of the test breaks the invariant.
LEMMA NextTestInv == TestInv /\ [NextTest]_<<stage, pricing, test>> => TestInv'
<1> SUFFICES ASSUME TestInv, [NextTest]_<<stage, pricing, test>>
             PROVE  TestInv'
  OBVIOUS
<1>1. CASE UNCHANGED <<stage, pricing, test>>
  BY <1>1 DEF TestInv, Staged, Accounted, Reported, test
<1> QED
  BY <1>1, StartKeeps, AbandonProductKeeps, StartProductKeeps, FinishProductKeeps, SummariseKeeps,
     PricingKeeps, JudgeKeeps, ResourceEndsKeeps DEF NextTest

\* The invariant holds in every reachable state.
LEMMA AlwaysTestInv == TestSpec => []TestInv
  BY InitTestInv, NextTestInv, PTL DEF TestSpec

(***************************************************************************)
(* The theorem.                                                            *)
(***************************************************************************)

\* The status of a product is the worst that its checks and its resources came to,
\* in whatever order they came, and so is the exit code (runProduct, printSummary).
THEOREM StatusIsAlwaysEarned == TestSpec => []StatusIsEarned
<1>1. TestInv => StatusIsEarned
  BY DEF TestInv, Reported, StatusIsEarned
<1> QED
  BY <1>1, AlwaysTestInv, PTL

(***************************************************************************)
(* The resources of a product.                                             *)
(***************************************************************************)

\* They are of a type of the product.
LEMMA ResourcesAre ==
    ASSUME NEW name, NEW T, NEW resources \in Seq(T)
    PROVE  ResourcesOf(name, resources) \in Seq({x \in T : x.type \in ResourceTypes[name]})
<1> DEFINE own == {x \in T : x.type \in ResourceTypes[name]}
           L == Len(resources)
           among(h, n) == IF resources[n].type \in ResourceTypes[name] THEN Append(h[n - 1], resources[n]) ELSE h[n - 1]
           step(h, n) == IF n = 0 THEN <<>> ELSE among(h, n)
           Filtered(n) == n <= L => \E h \in [0..n -> Seq(own)] : \A k \in 0..n : h[k] = step(h, k)
           N == {n \in Nat : Filtered(n)}
<1>0. L \in Nat /\ \A n \in 1..L : resources[n] \in T
  OBVIOUS
<1>1. 0 \in N
  <2> DEFINE h == [k \in 0..0 |-> <<>>]
  <2>1. h \in [0..0 -> Seq(own)] /\ \A k \in 0..0 : h[k] = step(h, k)
    OBVIOUS
  <2>2. Filtered(0)
    BY <2>1
  <2> HIDE DEF Filtered
  <2> QED
    BY <2>2
<1>2. ASSUME NEW n \in N PROVE n + 1 \in N
  <2>0. n \in Nat /\ n + 1 \in Nat /\ Filtered(n)
    <3> HIDE DEF Filtered
    <3> QED
      OBVIOUS
  <2>6. CASE ~(n + 1 <= L)
    <3>1. Filtered(n + 1)
      BY <2>6
    <3> HIDE DEF Filtered
    <3> QED
      BY <2>0, <3>1
  <2>7. CASE n + 1 <= L
    <3>1. PICK h \in [0..n -> Seq(own)] : \A k \in 0..n : h[k] = step(h, k)
      BY <1>0, <2>0, <2>7
    <3> DEFINE next == IF resources[n + 1].type \in ResourceTypes[name] THEN Append(h[n], resources[n + 1]) ELSE h[n]
               g == [k \in 0..n + 1 |-> IF k <= n THEN h[k] ELSE next]
    <3>2. resources[n + 1] \in T
      BY <1>0, <2>0, <2>7
    <3>3. next \in Seq(own)
      <4>1. h[n] \in Seq(own)
        BY <3>1
      <4>2. resources[n + 1].type \in ResourceTypes[name] => resources[n + 1] \in own
        BY <3>2
      <4> HIDE DEF own
      <4> QED
        BY <4>1, <4>2
    <3>4. g \in [0..n + 1 -> Seq(own)]
      <4> HIDE DEF own, next
      <4> QED
        BY <3>3
    <3>5. ASSUME NEW k \in 0..n + 1 PROVE g[k] = step(g, k)
      <4>1. CASE k = n + 1
        <5>1. k # 0 /\ k - 1 = n /\ g[k] = next /\ g[n] = h[n]
          BY <4>1
        <5> QED
          BY <4>1, <5>1
      <4>2. CASE k \in 0..n
        <5>1. g[k] = h[k] /\ (k # 0 => g[k - 1] = h[k - 1])
          BY <4>2
        <5>2. h[k] = step(h, k)
          BY <3>1, <4>2
        <5> HIDE DEF g
        <5> QED
          BY <5>1, <5>2
      <4> QED
        BY <4>1, <4>2
    <3> HIDE DEF g, own
    <3>6. Filtered(n + 1)
      BY <3>4, <3>5
    <3> HIDE DEF Filtered
    <3> QED
      BY <2>0, <3>6
  <2> QED
    BY <2>6, <2>7
<1>3. N \in SUBSET Nat
  OBVIOUS
<1> HIDE DEF N
<1>4. L \in N
  BY <1>0, <1>1, <1>2, <1>3, NatClosure
<1>5. PICK h \in [0..L -> Seq(own)] : \A k \in 0..L : h[k] = step(h, k)
  <2>1. Filtered(L)
    <3> HIDE DEF Filtered
    <3> QED
      BY <1>4, Zenon DEF N
  <2>2. L <= L
    BY <1>0
  <2> HIDE DEF L, step, own
  <2> QED
    BY <2>1, <2>2
<1> DEFINE found == CHOOSE o : o = [n \in 0..L |-> step(o, n)]
<1>6. found = [n \in 0..L |-> step(found, n)]
  <2>1. h = [n \in 0..L |-> step(h, n)]
    BY <1>5
  <2> HIDE DEF step
  <2> QED
    BY <2>1
<1>7. ResourcesOf(name, resources) = found[L]
  BY Zenon DEF ResourcesOf
<1> HIDE DEF found
<1> DEFINE M == {n \in Nat : n <= L => found[n] \in Seq(own)}
<1>8. 0 \in M
  <2>1. found[0] = <<>>
    BY <1>0, <1>6
  <2> QED
    BY <2>1
<1>9. ASSUME NEW n \in M PROVE n + 1 \in M
  <2> SUFFICES ASSUME n + 1 <= L PROVE found[n + 1] \in Seq(own)
    OBVIOUS
  <2>1. found[n] \in Seq(own) /\ n + 1 \in 0..L /\ resources[n + 1] \in T
    BY <1>0
  <2>2. found[n + 1] = IF resources[n + 1].type \in ResourceTypes[name] THEN Append(found[n], resources[n + 1])
                       ELSE found[n]
    <3>1. found[n + 1] = step(found, n + 1)
      BY <1>6, <2>1
    <3>2. n + 1 # 0 /\ (n + 1) - 1 = n
      OBVIOUS
    <3> QED
      BY <3>1, <3>2
  <2>3. resources[n + 1].type \in ResourceTypes[name] => resources[n + 1] \in own
    BY <2>1
  <2> HIDE DEF own
  <2> QED
    BY <2>1, <2>2, <2>3
<1>10. M \in SUBSET Nat
  OBVIOUS
<1> HIDE DEF M
<1>11. L \in M
  BY <1>0, <1>8, <1>9, <1>10, NatClosure
<1>12. found[L] \in Seq(own)
  BY <1>0, <1>11 DEF M
<1> QED
  BY <1>7, <1>12

(***************************************************************************)
(* The way of a resource through the test.                                 *)
(***************************************************************************)

\* A resource of the product under test.
OfProduct(r) == HasNumbers(r) /\ r.type \in ResourceTypes[Tested]

\* The service answered the request without a fault.
WellAnswered == \E mode \in Understood(request) : Answers(answer, request, mode)

\* The answer was read, right or wrong.
IsRead(comps) ==
    \/ \E cur : comps = TencentParse(plan, request, answer, cur) /\ comps # <<>>
    \/ TencentParse(plan, request, answer, "") # <<>> /\ comps \in Misreadings(TencentParse(plan, request, answer, ""))

\* The resources that are left, the one in hand among them.
Queued ==
    /\ stage \in Testing => \E S : left \in Seq(S) /\ \A r \in S : OfProduct(r)
    /\ stage \in Testing \ {"next"} => left # <<>> /\ OfProduct(plan) /\ plan.type \notin Unmapped

\* Its request, the answer to it, and what was made of that.
Followed ==
    /\ stage \in {"asked", "answered", "priced", "judged"} => request \in Extract(plan)
    /\ stage \in {"answered", "priced", "judged"} => request.provider = "tencent"
    /\ stage = "answered" => WellAnswered \/ \A cur : TencentParse(plan, request, answer, cur) = <<>>
    /\ stage \in {"priced", "judged"} => WellAnswered /\ IsRead(quote)
    /\ stage = "judged" => verdicts = Validate(Tested, request, answer, quote)

WayInv == TestInv /\ Queued /\ Followed

LEMMA InitWay == InitTest => Queued /\ Followed
  BY DEF InitTest, Queued, Followed, Testing

\* The resources of a product are those of its type in what is planned for it.
LEMMA StartProductWay == WayInv /\ StartProduct => Queued' /\ Followed'
<1> SUFFICES ASSUME WayInv, StartProduct PROVE Queued' /\ Followed'
  OBVIOUS
<1>1. PICK resources \in Trials[Tested] : left' = ResourcesOf(Tested, resources)
  BY DEF StartProduct
<1>2. stage' = "next" /\ todo' = todo /\ todo # {} /\ todo \subseteq DOMAIN AllTestCases
  BY DEF StartProduct, WayInv, TestInv, Staged
<1>3. Min(todo) \in DOMAIN AllTestCases
  BY <1>2, OneUnderTest
<1> DEFINE T == {resources[j] : j \in DOMAIN resources}
           own == {x \in T : x.type \in ResourceTypes[Tested]}
<1>4. resources \in Seq(T) /\ \A j \in DOMAIN resources : HasNumbers(resources[j])
  BY <1>1, <1>3, TrialsAssumption, Zenon DEF Tested
<1>5. \A x \in own : HasNumbers(x) /\ x.type \in ResourceTypes[Tested]
  BY <1>4, Zenon
<1> HIDE DEF T
<1>6. left' \in Seq(own)
  BY <1>1, <1>4, ResourcesAre
<1> HIDE DEF own
<1>7. \A x \in own : OfProduct(x)'
  BY <1>2, <1>5, Zenon DEF OfProduct, Tested
<1>8. Queued'
  BY <1>2, <1>6, <1>7 DEF Queued
<1>9. Followed'
  BY <1>2 DEF Followed
<1> QED
  BY <1>8, <1>9

LEMMA StartResourceWay == WayInv /\ StartResource => Queued' /\ Followed'
<1> SUFFICES ASSUME WayInv, StartResource PROVE Queued' /\ Followed'
  OBVIOUS
<1>1. /\ stage = "next" /\ left # <<>> /\ Head(left).type \notin Unmapped
      /\ plan' = Head(left) /\ stage' = "planned" /\ left' = left /\ todo' = todo
  BY DEF StartResource, test
<1>2. PICK S : left \in Seq(S) /\ \A r \in S : OfProduct(r)
  BY <1>1 DEF WayInv, Queued, Testing
<1>3. Head(left) \in S
  BY <1>1, <1>2
<1>4. \A r : OfProduct(r)' <=> OfProduct(r)
  BY <1>1 DEF OfProduct, Tested
<1>5. OfProduct(plan')
  BY <1>1, <1>2, <1>3
<1>6. OfProduct(plan)'
  BY <1>1, <1>5 DEF OfProduct, Tested
<1>7. \A r \in S : OfProduct(r)'
  BY <1>2, <1>4
<1>8. Queued'
  BY <1>1, <1>2, <1>6, <1>7 DEF Queued, Testing
<1>9. Followed'
  BY <1>1 DEF Followed
<1> QED
  BY <1>8, <1>9

\* The next resource is one of those that were left.
LEMMA EndResourceWay ==
    ASSUME WayInv, stage \in Testing, NEW as, NEW came, EndResource(as, came), left # <<>>
    PROVE  Queued' /\ Followed'
<1>1. stage' = "next" /\ left' = Tail(left) /\ todo' = todo
  BY DEF EndResource
<1>2. PICK S : left \in Seq(S) /\ \A r \in S : OfProduct(r)
  BY DEF WayInv, Queued
<1>3. Tail(left) \in Seq(S)
  BY <1>2
<1>4. \A r : OfProduct(r)' <=> OfProduct(r)
  BY <1>1 DEF OfProduct, Tested
<1>5. \A r \in S : OfProduct(r)'
  BY <1>2, <1>4
<1>6. Queued'
  BY <1>1, <1>3, <1>5 DEF Queued
<1>7. Followed'
  BY <1>1 DEF Followed
<1> QED
  BY <1>6, <1>7

LEMMA ResourceEndsWay ==
    WayInv /\ (PassUnmapped \/ PassUnasked \/ PassError \/ Judged) => Queued' /\ Followed'
<1> SUFFICES ASSUME WayInv, PassUnmapped \/ PassUnasked \/ PassError \/ Judged
             PROVE  Queued' /\ Followed'
  OBVIOUS
<1>1. stage \in Testing \ {"next"} => left # <<>>
  BY DEF WayInv, Queued
<1>2. CASE PassUnmapped
  <2>1. stage = "next" /\ left # <<>> /\ EndResource(status, "unmapped")
    BY <1>2 DEF PassUnmapped
  <2> QED
    BY <2>1, EndResourceWay DEF Testing
<1>3. CASE PassUnasked
  <2>1. stage = "asked" /\ EndResource("SKIP", "unasked")
    BY <1>3 DEF PassUnasked
  <2> QED
    BY <1>1, <2>1, EndResourceWay DEF Testing
<1>4. CASE PassError
  <2>1. stage = "skipped" /\ EndResource("API_ERROR", "error")
    BY <1>4 DEF PassError
  <2> QED
    BY <1>1, <2>1, EndResourceWay DEF Testing
<1>5. CASE Judged
  <2> DEFINE came == CASE "FAIL" \in verdicts -> "failed" [] verdicts = {"PASS"} -> "passed" [] OTHER -> "suspicious"
  <2>1. stage = "judged" /\ EndResource(status, came)
    BY <1>5 DEF Judged
  <2> HIDE DEF came
  <2> QED
    BY <1>1, <2>1, EndResourceWay DEF Testing
<1> QED
  BY <1>2, <1>3, <1>4, <1>5

\* A step with a resource in hand leaves those that are left alone.
LEMMA InHand ==
    ASSUME WayInv, stage \in Testing \ {"next"}, stage' \in Testing \ {"next"}, UNCHANGED <<plan, left, todo>>
    PROVE  Queued'
<1>1. PICK S : left \in Seq(S) /\ \A r \in S : OfProduct(r)
  BY DEF WayInv, Queued
<1>2. \A r : OfProduct(r)' <=> OfProduct(r)
  BY DEF OfProduct, Tested
<1>3. \A r \in S : OfProduct(r)'
  BY <1>1, <1>2
<1>4. left # <<>> /\ OfProduct(plan) /\ plan.type \notin Unmapped
  BY DEF WayInv, Queued
<1>5. OfProduct(plan)'
  BY <1>4 DEF OfProduct, Tested
<1> QED
  BY <1>1, <1>3, <1>4, <1>5 DEF Queued

LEMMA AskWay == WayInv /\ Ask /\ UNCHANGED test => Queued' /\ Followed'
<1> SUFFICES ASSUME WayInv, Ask, UNCHANGED test PROVE Queued' /\ Followed'
  OBVIOUS
<1>1. /\ stage = "planned" /\ UNCHANGED <<plan, left, todo>>
      /\ stage' = "skipped" \/ (stage' = "asked" /\ request' \in Extract(plan))
  BY DEF Ask, Skip, test
<1>2. Queued'
  BY <1>1, InHand DEF Testing
<1>3. Followed'
  BY <1>1 DEF Followed
<1> QED
  BY <1>2, <1>3

LEMMA QueryFailsWay == WayInv /\ QueryFails /\ UNCHANGED test => Queued' /\ Followed'
<1> SUFFICES ASSUME WayInv, QueryFails, UNCHANGED test PROVE Queued' /\ Followed'
  OBVIOUS
<1>1. stage = "asked" /\ stage' = "skipped" /\ UNCHANGED <<plan, left, todo>>
  BY DEF QueryFails, Skip, test
<1>2. Queued'
  BY <1>1, InHand DEF Testing
<1>3. Followed'
  BY <1>1 DEF Followed
<1> QED
  BY <1>2, <1>3

\* The service answers what it was asked, or nothing that a mapper reads.
LEMMA AnswerWay == WayInv /\ AnswerTencent /\ UNCHANGED test => Queued' /\ Followed'
<1> SUFFICES ASSUME WayInv, AnswerTencent, UNCHANGED test PROVE Queued' /\ Followed'
  OBVIOUS
<1>1. PICK mode \in Understood(request), wrong \in Faults, reduced \in BOOLEAN, wrapped \in BOOLEAN,
           stated \in BOOLEAN :
        /\ answer' = TencentAnswer(request, mode, wrong, reduced, wrapped, stated, Due(reduced).currency)
        /\ Answered(wrong, reduced)
  BY Zenon DEF AnswerTencent
<1>2. /\ stage = "asked" /\ stage' = "answered" /\ UNCHANGED <<plan, request, left, todo>>
      /\ request.provider = "tencent" /\ request \in Extract(plan)
  BY <1>1 DEF Answered, AnswerTencent, WayInv, Followed, test
<1>3. Queued'
  BY <1>2, InHand DEF Testing
<1>4. CASE wrong = "none"
  <2> DEFINE currency == Due(reduced).currency
  <2>1. answer' = TencentAnswer(request, mode, "none", reduced, wrapped, stated, currency)
    BY <1>1, <1>4
  <2> HIDE DEF currency
  <2>2. Answers(answer', request, mode)
    BY <2>1, Zenon DEF Answers
  <2>3. WellAnswered'
    BY <1>2, <2>2, Zenon DEF WellAnswered
  <2> QED
    BY <1>2, <1>3, <2>3 DEF Followed
<1>5. CASE wrong # "none"
  <2>1. \A cur : TencentParse(plan, request, answer', cur) = <<>>
    BY <1>1, <1>2, <1>5, TencentRefuses DEF Faults
  <2> QED
    BY <1>2, <1>3, <2>1 DEF Followed
<1> QED
  BY <1>4, <1>5

\* What is read is read of the answer to the request.
LEMMA ReadWay == WayInv /\ stage = "answered" /\ (Read \/ Misread) /\ UNCHANGED test => Queued' /\ Followed'
<1> SUFFICES ASSUME WayInv, stage = "answered", Read \/ Misread, UNCHANGED test PROVE Queued' /\ Followed'
  OBVIOUS
<1> DEFINE right(cur) == TencentParse(plan, request, answer, cur)
<1>1. request.provider = "tencent" /\ request \in Extract(plan)
  BY DEF WayInv, Followed
<1>2. \A cur : Parse(plan, request, answer, cur) = {right(cur)} \ {<<>>}
  BY <1>1, Zenon DEF Parse
<1>3. UNCHANGED <<plan, request, answer, left, todo>>
  BY DEF Read, Misread, test
<1>4. \/ stage' = "skipped"
      \/ stage' = "priced" /\ IsRead(quote') /\ \E cur : right(cur) # <<>>
  <2>1. CASE Read
    <3> DEFINE cur == ExpectedCurrencyFor(request.provider)
    <3>1. \/ stage' = "skipped"
          \/ stage' = "priced" /\ quote' \in Parse(plan, request, answer, cur)
      BY <2>1, Zenon DEF Read, Skip
    <3> HIDE DEF cur
    <3>2. stage' = "skipped" \/ (stage' = "priced" /\ quote' = right(cur) /\ quote' # <<>>)
      BY <1>2, <3>1
    <3> QED
      BY <3>2, Zenon DEF IsRead
  <2>2. CASE Misread
    <3>1. PICK comps \in Parse(plan, request, answer, "") : \E wrong \in Misreadings(comps) : quote' = wrong
      BY <2>2 DEF Misread
    <3>2. comps = right("") /\ comps # <<>>
      BY <1>2, <3>1
    <3>3. stage' = "priced"
      BY <2>2 DEF Misread
    <3> QED
      BY <3>1, <3>2, <3>3, Zenon DEF IsRead
  <2> QED
    BY <2>1, <2>2
<1>5. Queued'
  BY <1>3, <1>4, InHand DEF Testing
<1>6. CASE stage' = "skipped"
  BY <1>5, <1>6 DEF Followed
<1>7. CASE stage' = "priced" /\ IsRead(quote') /\ \E cur : right(cur) # <<>>
  <2>1. WellAnswered
    BY <1>7 DEF WayInv, Followed
  <2>2. WellAnswered'
    BY <1>3, <2>1 DEF WellAnswered
  <2>3. IsRead(quote)'
    BY <1>3, <1>7 DEF IsRead
  <2> QED
    BY <1>1, <1>3, <1>5, <1>7, <2>2, <2>3 DEF Followed
<1> QED
  BY <1>4, <1>6, <1>7

LEMMA JudgeWay == WayInv /\ Judge => Queued' /\ Followed'
<1> SUFFICES ASSUME WayInv, Judge PROVE Queued' /\ Followed'
  OBVIOUS
<1>1. /\ stage = "priced" /\ stage' = "judged" /\ verdicts' = Validate(Tested, request, answer, quote)
      /\ UNCHANGED <<plan, request, answer, quote, left, todo>>
  BY DEF Judge, pricing
<1>2. Queued'
  BY <1>1, InHand DEF Testing
<1>3. /\ request.provider = "tencent" /\ request \in Extract(plan) /\ WellAnswered /\ IsRead(quote)
  BY <1>1 DEF WayInv, Followed
<1>4. WellAnswered' /\ IsRead(quote)'
  BY <1>1, <1>3 DEF WellAnswered, IsRead
<1>5. verdicts' = Validate(Tested', request', answer', quote')
  BY <1>1 DEF Tested
<1> QED
  BY <1>1, <1>2, <1>3, <1>4, <1>5 DEF Followed

\* Between two products there is nothing to say.
LEMMA OtherWay ==
    WayInv /\ (Start \/ AbandonProduct \/ FinishProduct \/ Summarise) => Queued' /\ Followed'
<1>1. Start \/ AbandonProduct \/ FinishProduct \/ Summarise => stage' \in {"product", "over"}
  BY DEF Start, AbandonProduct, FinishProduct, Summarise, EndProduct
<1> QED
  BY <1>1 DEF Queued, Followed, Testing

LEMMA NextWay == WayInv /\ [NextTest]_<<stage, pricing, test>> => WayInv'
<1> SUFFICES ASSUME WayInv, [NextTest]_<<stage, pricing, test>> PROVE WayInv'
  OBVIOUS
<1>1. TestInv'
  BY NextTestInv DEF WayInv
<1>2. CASE Price
  <2>1. UNCHANGED test /\ (Ask \/ QueryFails \/ AnswerTencent \/ Read)
    BY <1>2 DEF Price
  <2>2. Read => stage = "answered"
    BY DEF Read
  <2> QED
    BY <1>1, <2>1, <2>2, AskWay, QueryFailsWay, AnswerWay, ReadWay DEF WayInv
<1>3. CASE Misread
  <2>1. stage = "answered" /\ UNCHANGED test
    BY <1>3 DEF Misread, test
  <2> QED
    BY <1>1, <1>3, <2>1, ReadWay DEF WayInv
<1>4. CASE UNCHANGED <<stage, pricing, test>>
  <2>1. UNCHANGED <<plan, request, answer, quote, stage, left, todo, verdicts>>
    BY <1>4 DEF pricing, test
  <2>2. \A r : OfProduct(r)' <=> OfProduct(r)
    BY <2>1 DEF OfProduct, Tested
  <2>3. Queued'
    <3>1. CASE stage \in Testing
      <4>1. PICK S : left \in Seq(S) /\ \A r \in S : OfProduct(r)
        BY <3>1 DEF WayInv, Queued
      <4>2. \A r \in S : OfProduct(r)'
        BY <2>2, <4>1
      <4>3. OfProduct(plan)' <=> OfProduct(plan)
        BY <2>1 DEF OfProduct, Tested
      <4> QED
        BY <2>1, <4>1, <4>2, <4>3 DEF WayInv, Queued
    <3>2. CASE stage \notin Testing
      BY <2>1, <3>2 DEF Queued
    <3> QED
      BY <3>1, <3>2
  <2>4. Followed'
    <3>1. WellAnswered' <=> WellAnswered
      BY <2>1 DEF WellAnswered
    <3>2. IsRead(quote)' <=> IsRead(quote)
      BY <2>1 DEF IsRead
    <3>3. Tested' = Tested
      BY <2>1 DEF Tested
    <3> QED
      BY <2>1, <3>1, <3>2, <3>3 DEF WayInv, Followed
  <2> QED
    BY <1>1, <2>3, <2>4 DEF WayInv
<1> QED
  BY <1>1, <1>2, <1>3, <1>4, StartProductWay, StartResourceWay, ResourceEndsWay, JudgeWay, OtherWay DEF NextTest, WayInv

LEMMA AlwaysWay == TestSpec => []WayInv
<1>1. InitTest => WayInv
  BY InitTestInv, InitWay DEF WayInv
<1> QED
  BY <1>1, NextWay, PTL DEF TestSpec

(***************************************************************************)
(* What the judges say is true.                                            *)
(***************************************************************************)

\* What was judged is a resource of the product under test, with the answer to
\* its request.
LEMMA JudgedIsAnswered ==
    ASSUME WayInv, stage = "judged"
    PROVE  /\ \E i \in DOMAIN AllTestCases : Tested = AllTestCases[i]
           /\ OfProduct(plan) /\ plan.type \notin Unmapped
           /\ request \in Extract(plan) /\ request.provider = "tencent"
           /\ \E mode \in Understood(request) : Answers(answer, request, mode)
           /\ IsRead(quote) /\ verdicts = Validate(Tested, request, answer, quote)
<1>1. todo \subseteq DOMAIN AllTestCases /\ todo # {}
  BY DEF WayInv, TestInv, Staged, Testing
<1>2. Min(todo) \in DOMAIN AllTestCases
  BY <1>1, OneUnderTest
<1>3. \E i \in DOMAIN AllTestCases : Tested = AllTestCases[i]
  BY <1>2 DEF Tested
<1>4. OfProduct(plan) /\ plan.type \notin Unmapped
  BY DEF WayInv, Queued, Testing
<1>5. /\ request \in Extract(plan) /\ request.provider = "tencent" /\ WellAnswered /\ IsRead(quote)
      /\ verdicts = Validate(Tested, request, answer, quote)
  BY DEF WayInv, Followed
<1> QED
  BY <1>3, <1>4, <1>5, Zenon DEF WellAnswered

\* Of the products, the judge of MySQL and that of names may be wrong.
LEMMA MisjudgedIs ==
    Misjudged <=> \/ Tested = "mysql" /\ request.params.PayType = "PRE_PAID"
                  \/ Tested = "domain" /\ ~NewFirst(answer)
  BY Zenon DEF Misjudged, NewFirst

LEMMA JudgedIsSound ==
    ASSUME WayInv, stage = "judged", ~Misjudged
    PROVE  Sound(Tested, plan, request, answer)
<1>1. PICK mode \in Understood(request) : Answers(answer, request, mode)
  BY JudgedIsAnswered
<1>2. /\ Tested = "mysql" => request.params.PayType # "PRE_PAID"
      /\ Tested = "domain" => NewFirst(answer)
  BY MisjudgedIs, Zenon
<1>3. Asks(Tested, plan, request, mode, answer)
  BY <1>1, <1>2, JudgedIsAnswered DEF Asks, OfProduct
<1> QED
  BY <1>3, ProductSound

LEMMA MisjudgedFails ==
    ASSUME WayInv, stage = "judged", Misjudged, NEW cur
    PROVE  "FAIL" \in Validate(Tested, request, answer, TencentParse(plan, request, answer, cur))
<1>1. PICK mode \in Understood(request) : Answers(answer, request, mode)
  BY JudgedIsAnswered
<1>2. HasNumbers(plan) /\ plan.type \in ResourceTypes[Tested] /\ request \in Extract(plan)
  BY JudgedIsAnswered DEF OfProduct
<1>3. CASE Tested = "mysql" /\ request.params.PayType = "PRE_PAID"
  <2>1. plan.type = "tencentcloud_mysql_instance"
    BY <1>2, <1>3 DEF ResourceTypes
  <2> QED
    BY <1>1, <1>2, <1>3, <2>1, MySQLFails
<1>4. CASE Tested = "domain" /\ ~NewFirst(answer)
  <2>1. plan.type = "tencentcloud_domain_registration"
    BY <1>2, <1>4 DEF ResourceTypes
  <2> QED
    BY <1>1, <1>2, <1>4, <2>1, DomainFails
<1> QED
  BY <1>3, <1>4, MisjudgedIs

\* A judge fails a resource whose price is read right if, and only if, it is a
\* MySQL instance that is prepaid, or a name whose list starts with another
\* entry: whatever is planned, and wherever the answer has the price and
\* whatever it leaves out.
THEOREM NoJudgeIsWrong == TestSpec => []NoFalseAlarm
<1>1. WayInv => NoFalseAlarm
  <2> SUFFICES ASSUME WayInv, stage = "judged", ReadRight PROVE "FAIL" \in verdicts <=> Misjudged
    BY Zenon DEF NoFalseAlarm
  <2> DEFINE right(cur) == TencentParse(plan, request, answer, cur)
  <2>1. request.provider = "tencent" /\ verdicts = Validate(Tested, request, answer, quote)
    BY JudgedIsAnswered
  <2>2. quote = right("") /\ right("") # <<>>
    <3>1. Parse(plan, request, answer, "") = {right("")} \ {<<>>}
      BY <2>1, Zenon DEF Parse
    <3> QED
      BY <3>1 DEF ReadRight
  <2>3. ~Misjudged => "FAIL" \notin verdicts
    <3> HAVE ~Misjudged
    <3>1. Sound(Tested, plan, request, answer)
      BY JudgedIsSound
    <3> QED
      BY <2>1, <2>2, <3>1, Zenon DEF Sound
  <2>4. Misjudged => "FAIL" \in verdicts
    BY <2>1, <2>2, MisjudgedFails
  <2> QED
    BY <2>3, <2>4, Zenon
<1> QED
  BY <1>1, AlwaysWay, PTL

\* When all checks of a resource pass that is not misjudged, the components its
\* judge compares cost what the mapper of today reads: the two of a prepaid
\* CynosDB cluster, and the first of any other resource.  No mistake of
\* Misreadings in one of these passes.
THEOREM MisreadIsAlwaysCaught == TestSpec => []MisreadIsCaught
<1>1. WayInv => MisreadIsCaught
  <2> SUFFICES ASSUME WayInv, stage = "judged", verdicts = {"PASS"}, ~Misjudged
               PROVE  \E comps \in Parse(plan, request, answer, "") :
                          \A i \in LookedAt : quote[i].monthly = comps[i].monthly
    BY Zenon DEF MisreadIsCaught
  <2> DEFINE right(cur) == TencentParse(plan, request, answer, cur)
  <2>1. /\ request.provider = "tencent" /\ IsRead(quote)
        /\ Validate(Tested, request, answer, quote) = {"PASS"}
    BY JudgedIsAnswered
  <2>2. PICK cur : /\ right(cur) # <<>>
                   /\ quote \in Misreadings(right("")) \cup {right(cur)}
    BY <2>1, Zenon DEF IsRead
  <2>3. Sound(Tested, plan, request, answer)
    BY JudgedIsSound
  <2>4. /\ right("") # <<>>
        /\ \A i \in Examined(Tested, request, quote) : quote[i].monthly = right("")[i].monthly
    BY <2>1, <2>2, <2>3, Zenon DEF Sound, Blank
  <2>5. Parse(plan, request, answer, "") = {right("")} \ {<<>>}
    BY <2>1, Zenon DEF Parse
  <2>6. LookedAt = Examined(Tested, request, quote)
    BY Zenon DEF LookedAt, Examined
  <2> HIDE DEF right
  <2> QED
    BY <2>4, <2>5, <2>6
<1> QED
  BY <1>1, AlwaysWay, PTL

(***************************************************************************)
(* What a mapper of Tencent Cloud reads of any answer of its service.      *)
(***************************************************************************)

\* The types whose requests always ask for some units.
Countable == TencentTypes \ {"tencentcloud_cbs_storage", "tencentcloud_domain_registration"}

\* The price is read as it is stated: asked for by mode, and p for a period.
ReadAsStated(r, q, mode) ==
    /\ Asked(q, mode)
    /\ \A p, a, block, cur : Fair(p) /\ Healthy(a, block, q, mode, p) =>
          Right(TencentParse(r, q, a, cur), mode, p) /\ RestReads(TencentParse(r, q, a, cur), q, p.reduced)

LEMMA StatedIsRead ==
    ASSUME NEW r, HasNumbers(r), r.type \in Countable, NEW q \in Extract(r), NEW mode \in Understood(q)
    PROVE  ReadAsStated(r, q, mode)
<1>1. CASE r.type = "tencentcloud_instance"
  <2>1. q \in CVMExtract(r)
    BY <1>1, SMT DEF Extract, DCDBTypes
  <2>2. q.product = "cvm" /\ Units(q) = 1 /\ mode \in {"hour", "month"}
    BY <2>1, CVMAsked
  <2>3. ASSUME NEW p, NEW a, NEW block, NEW cur, Fair(p), Healthy(a, block, q, mode, p)
        PROVE  Right(TencentParse(r, q, a, cur), mode, p) /\ RestReads(TencentParse(r, q, a, cur), q, p.reduced)
    <3>1. TencentParse(r, q, a, cur) = CVMParse(q, a, cur)
      BY <1>1, SMT DEF TencentParse, DCDBTypes
    <3>2. Right(CVMParse(q, a, cur), mode, p) /\ RestReads(CVMParse(q, a, cur), q, p.reduced)
      BY <2>2, <2>3, CVMReads
    <3> QED
      BY <3>1, <3>2
  <2> QED
    BY <2>2, <2>3 DEF ReadAsStated, Asked, Modes
<1>2. CASE r.type = "tencentcloud_eip"
  <2>1. q \in EIPExtract(r)
    BY <1>2, SMT DEF Extract, DCDBTypes
  <2>2. /\ q.product = "vpc" /\ q.action = "InquiryPriceAllocateAddresses"
        /\ Units(q) \in Int /\ Units(q) > 0 /\ mode \in {"hour", "month"}
        /\ isPrepaid(q) <=> mode = "month"
        /\ Up(q.params.InternetChargeType) \in WithPrepaid <=> mode = "month"
    BY <2>1, EIPAsked
  <2>3. ASSUME NEW p, NEW a, NEW block, NEW cur, Fair(p), Healthy(a, block, q, mode, p)
        PROVE  Right(TencentParse(r, q, a, cur), mode, p) /\ RestReads(TencentParse(r, q, a, cur), q, p.reduced)
    <3>1. TencentParse(r, q, a, cur) = EIPParse(q, a, cur)
      BY <1>2, SMT DEF TencentParse, DCDBTypes
    <3>2. Right(EIPParse(q, a, cur), mode, p)
      BY <2>2, <2>3, EIPReads
    <3>3. OtherMode(q) = "none"
      BY <2>2, SMT DEF OtherMode, Interface
    <3>4. RestReads(EIPParse(q, a, cur), q, p.reduced)
      BY <3>2, <3>3, SimpleAlone, AloneReads DEF Right
    <3> QED
      BY <3>1, <3>2, <3>4
  <2> QED
    BY <2>2, <2>3 DEF ReadAsStated, Asked, Modes
<1>3. CASE r.type = "tencentcloud_clb_instance"
  <2>1. q \in CLBExtract(r)
    BY <1>3, SMT DEF Extract, DCDBTypes
  <2>2. q.product = "clb" /\ Units(q) = 1 /\ mode \in {"hour", "month"}
    BY <2>1, CLBAsked
  <2>3. ASSUME NEW p, NEW a, NEW block, NEW cur, Fair(p), Healthy(a, block, q, mode, p)
        PROVE  Right(TencentParse(r, q, a, cur), mode, p) /\ RestReads(TencentParse(r, q, a, cur), q, p.reduced)
    <3>1. TencentParse(r, q, a, cur) = CLBParse(q, a, cur)
      BY <1>3, SMT DEF TencentParse, DCDBTypes
    <3>2. Right(CLBParse(q, a, cur), mode, p) /\ RestReads(CLBParse(q, a, cur), q, p.reduced)
      BY <2>2, <2>3, CLBReads
    <3> QED
      BY <3>1, <3>2
  <2> QED
    BY <2>2, <2>3 DEF ReadAsStated, Asked, Modes
<1>4. CASE r.type = "tencentcloud_postgresql_instance"
  <2>1. q \in PostgresExtract(r)
    BY <1>4, SMT DEF Extract, DCDBTypes
  <2>2. /\ q.product = "postgres" /\ Units(q) \in Int /\ Units(q) > 0 /\ mode \in {"hour", "month"}
        /\ isPrepaid(q) <=> mode = "month"
        /\ q.params.InstanceChargeType = "POSTPAID" <=> mode = "hour"
    BY <2>1, PostgresAsked
  <2>3. ASSUME NEW p, NEW a, NEW block, NEW cur, Fair(p), Healthy(a, block, q, mode, p)
        PROVE  Right(TencentParse(r, q, a, cur), mode, p) /\ RestReads(TencentParse(r, q, a, cur), q, p.reduced)
    <3>1. TencentParse(r, q, a, cur) = PostgresParse(q, a, cur)
      BY <1>4, SMT DEF TencentParse, DCDBTypes
    <3>2. Right(PostgresParse(q, a, cur), mode, p)
      BY <2>2, <2>3, PostgresReads
    <3>3. OtherMode(q) = "none"
      BY <2>2, SMT DEF OtherMode, Interface
    <3>4. RestReads(PostgresParse(q, a, cur), q, p.reduced)
      BY <3>2, <3>3, SimpleAlone, AloneReads DEF Right
    <3> QED
      BY <3>1, <3>2, <3>4
  <2> QED
    BY <2>2, <2>3 DEF ReadAsStated, Asked, Modes
<1>5. CASE r.type = "tencentcloud_redis_instance"
  <2>1. q \in RedisExtract(r)
    BY <1>5, SMT DEF Extract, DCDBTypes
  <2>2. /\ q.product = "redis" /\ Units(q) \in Int /\ Units(q) > 0 /\ mode \in {"hour", "month"}
        /\ q.params.BillingMode = "0" <=> mode = "hour"
        /\ isPrepaid(q) <=> mode = "month"
    BY <2>1, RedisAsked
  <2>3. ASSUME NEW p, NEW a, NEW block, NEW cur, Fair(p), Healthy(a, block, q, mode, p)
        PROVE  Right(TencentParse(r, q, a, cur), mode, p) /\ RestReads(TencentParse(r, q, a, cur), q, p.reduced)
    <3>1. TencentParse(r, q, a, cur) = RedisParse(q, a, cur)
      BY <1>5, SMT DEF TencentParse, DCDBTypes
    <3>2. Right(RedisParse(q, a, cur), mode, p)
      BY <2>2, <2>3, RedisReads
    <3>3. OtherMode(q) = "none"
      BY <2>2, SMT DEF OtherMode, Interface
    <3>4. RestReads(RedisParse(q, a, cur), q, p.reduced)
      BY <3>2, <3>3, SimpleAlone, AloneReads DEF Right
    <3> QED
      BY <3>1, <3>2, <3>4
  <2> QED
    BY <2>2, <2>3 DEF ReadAsStated, Asked, Modes
<1>6. CASE r.type = "tencentcloud_vpn_gateway"
  <2>1. q \in VPNExtract(r)
    BY <1>6, SMT DEF Extract, DCDBTypes
  <2>2. /\ q.product = "vpc" /\ q.action = "InquiryPriceCreateVpnGateway"
        /\ Units(q) \in Int /\ Units(q) > 0 /\ mode \in {"hour", "month"}
        /\ isPrepaid(q) <=> mode = "month"
    BY <2>1, VPNAsked
  <2>3. ASSUME NEW p, NEW a, NEW block, NEW cur, Fair(p), Healthy(a, block, q, mode, p)
        PROVE  Right(TencentParse(r, q, a, cur), mode, p) /\ RestReads(TencentParse(r, q, a, cur), q, p.reduced)
    <3>1. TencentParse(r, q, a, cur) = VPNParse(q, a, cur)
      BY <1>6, SMT DEF TencentParse, DCDBTypes
    <3>2. Right(VPNParse(q, a, cur), mode, p) /\ RestReads(VPNParse(q, a, cur), q, p.reduced)
      BY <2>2, <2>3, VPNReads
    <3> QED
      BY <3>1, <3>2
  <2> QED
    BY <2>2, <2>3 DEF ReadAsStated, Asked, Modes
<1>7. CASE r.type = "tencentcloud_mongodb_instance"
  <2>1. q \in MongoExtract(r)
    BY <1>7, SMT DEF Extract, DCDBTypes
  <2>2. /\ q.product = "mongodb" /\ Units(q) \in Int /\ Units(q) > 0 /\ mode \in {"hour", "month"}
        /\ isPrepaid(q) <=> mode = "month"
        /\ q.params.InstanceChargeType \in WithHour <=> mode = "hour"
    BY <2>1, MongoAsked
  <2>3. ASSUME NEW p, NEW a, NEW block, NEW cur, Fair(p), Healthy(a, block, q, mode, p)
        PROVE  Right(TencentParse(r, q, a, cur), mode, p) /\ RestReads(TencentParse(r, q, a, cur), q, p.reduced)
    <3>1. TencentParse(r, q, a, cur) = MongoParse(q, a, cur)
      BY <1>7, SMT DEF TencentParse, DCDBTypes
    <3>2. Right(MongoParse(q, a, cur), mode, p)
      BY <2>2, <2>3, MongoReads
    <3>3. OtherMode(q) = "none"
      BY <2>2, SMT DEF OtherMode, Interface
    <3>4. RestReads(MongoParse(q, a, cur), q, p.reduced)
      BY <3>2, <3>3, SimpleAlone, AloneReads DEF Right
    <3> QED
      BY <3>1, <3>2, <3>4
  <2> QED
    BY <2>2, <2>3 DEF ReadAsStated, Asked, Modes
<1>8. CASE r.type = "tencentcloud_mariadb_instance"
  <2>1. q \in MariaDBExtract(r)
    BY <1>8, SMT DEF Extract, DCDBTypes
  <2>2. /\ q.product = "mariadb" /\ Units(q) \in Int /\ Units(q) > 0 /\ mode \in {"hour", "month"}
        /\ isPrepaid(q) <=> mode = "month"
        /\ Up(q.params.Paymode) \in WithPostpaid <=> mode = "hour"
    BY <2>1, MariaDBAsked
  <2>3. ASSUME NEW p, NEW a, NEW block, NEW cur, Fair(p), Healthy(a, block, q, mode, p)
        PROVE  Right(TencentParse(r, q, a, cur), mode, p) /\ RestReads(TencentParse(r, q, a, cur), q, p.reduced)
    <3>1. TencentParse(r, q, a, cur) = MariaDBParse(q, a, cur)
      BY <1>8, SMT DEF TencentParse, DCDBTypes
    <3>2. Right(MariaDBParse(q, a, cur), mode, p)
      BY <2>2, <2>3, CentsRead
    <3>3. OtherMode(q) = "none"
      BY <2>2, SMT DEF OtherMode, Interface
    <3>4. RestReads(MariaDBParse(q, a, cur), q, p.reduced)
      BY <3>2, <3>3, SimpleAlone, AloneReads DEF Right
    <3> QED
      BY <3>1, <3>2, <3>4
  <2> QED
    BY <2>2, <2>3 DEF ReadAsStated, Asked, Modes
<1>9. CASE r.type = "tencentcloud_sqlserver_instance"
  <2>1. q \in SQLServerExtract(r)
    BY <1>9, SMT DEF Extract, DCDBTypes
  <2>2. /\ q.product = "sqlserver" /\ Units(q) \in Int /\ Units(q) > 0 /\ mode \in {"hour", "month"}
        /\ isPrepaid(q) <=> mode = "month"
        /\ q.params.InstanceChargeType # "PREPAID" <=> mode = "hour"
    BY <2>1, SQLServerAsked
  <2>3. ASSUME NEW p, NEW a, NEW block, NEW cur, Fair(p), Healthy(a, block, q, mode, p)
        PROVE  Right(TencentParse(r, q, a, cur), mode, p) /\ RestReads(TencentParse(r, q, a, cur), q, p.reduced)
    <3>1. TencentParse(r, q, a, cur) = SQLServerParse(q, a, cur)
      BY <1>9, SMT DEF TencentParse, DCDBTypes
    <3>2. Right(SQLServerParse(q, a, cur), mode, p)
      BY <2>2, <2>3, CentsRead
    <3>3. OtherMode(q) = "none"
      BY <2>2, SMT DEF OtherMode, Interface
    <3>4. RestReads(SQLServerParse(q, a, cur), q, p.reduced)
      BY <3>2, <3>3, SimpleAlone, AloneReads DEF Right
    <3> QED
      BY <3>1, <3>2, <3>4
  <2> QED
    BY <2>2, <2>3 DEF ReadAsStated, Asked, Modes
<1>10. CASE r.type \in DCDBTypes
  <2>1. q \in DCDBExtract(r)
    BY <1>10, SMT DEF Extract, DCDBTypes
  <2>2. /\ q.product = "dcdb" /\ Units(q) \in Int /\ Units(q) > 0 /\ mode \in {"hour", "month"}
        /\ isPrepaid(q) <=> mode = "month"
        /\ Up(q.params.Paymode) # "PREPAID" <=> mode = "hour"
    BY <2>1, DCDBAsked
  <2>3. ASSUME NEW p, NEW a, NEW block, NEW cur, Fair(p), Healthy(a, block, q, mode, p)
        PROVE  Right(TencentParse(r, q, a, cur), mode, p) /\ RestReads(TencentParse(r, q, a, cur), q, p.reduced)
    <3>1. TencentParse(r, q, a, cur) = DCDBParse(q, a, cur)
      BY <1>10, SMT DEF TencentParse, DCDBTypes
    <3>2. Right(DCDBParse(q, a, cur), mode, p)
      BY <2>2, <2>3, CentsRead
    <3>3. OtherMode(q) = "none"
      BY <2>2, SMT DEF OtherMode, Interface
    <3>4. RestReads(DCDBParse(q, a, cur), q, p.reduced)
      BY <3>2, <3>3, SimpleAlone, AloneReads DEF Right
    <3> QED
      BY <3>1, <3>2, <3>4
  <2> QED
    BY <2>2, <2>3 DEF ReadAsStated, Asked, Modes
<1>11. CASE r.type = "tencentcloud_dc_gateway"
  <2>1. q \in DirectConnectExtract(r)
    BY <1>11, SMT DEF Extract, DCDBTypes
  <2>2. /\ q.product = "vpc" /\ q.action = "InquirePriceCreateDirectConnectGateway"
        /\ Units(q) = 1 /\ mode = "month"
    BY <2>1, DirectConnectAsked
  <2>3. ASSUME NEW p, NEW a, NEW block, NEW cur, Fair(p), Healthy(a, block, q, mode, p)
        PROVE  Right(TencentParse(r, q, a, cur), mode, p) /\ RestReads(TencentParse(r, q, a, cur), q, p.reduced)
    <3>1. TencentParse(r, q, a, cur) = DirectConnectParse(q, a, cur)
      BY <1>11, SMT DEF TencentParse, DCDBTypes
    <3>2. Right(DirectConnectParse(q, a, cur), mode, p)
      BY <2>2, <2>3, DirectConnectReads
    <3>3. OtherMode(q) = "none"
      BY <2>2, SMT DEF OtherMode, Interface
    <3>4. RestReads(DirectConnectParse(q, a, cur), q, p.reduced)
      BY <3>2, <3>3, SimpleAlone, AloneReads DEF Right
    <3> QED
      BY <3>1, <3>2, <3>4
  <2> QED
    BY <2>2, <2>3 DEF ReadAsStated, Asked, Modes
<1>12. CASE r.type = "tencentcloud_gaap_proxy"
  <2>1. q \in GAAPExtract(r)
    BY <1>12, SMT DEF Extract, DCDBTypes
  <2>2. q.product = "gaap" /\ Units(q) \in Int /\ Units(q) > 0 /\ mode = "day"
    BY <2>1, GAAPAsked
  <2>3. ASSUME NEW p, NEW a, NEW block, NEW cur, Fair(p), Healthy(a, block, q, mode, p)
        PROVE  Right(TencentParse(r, q, a, cur), mode, p) /\ RestReads(TencentParse(r, q, a, cur), q, p.reduced)
    <3>1. TencentParse(r, q, a, cur) = GAAPParse(q, a, cur)
      BY <1>12, SMT DEF TencentParse, DCDBTypes
    <3>2. Right(GAAPParse(q, a, cur), mode, p)
      BY <2>2, <2>3, GAAPReads
    <3>3. OtherMode(q) = "none"
      BY <2>2, SMT DEF OtherMode, Interface
    <3>4. RestReads(GAAPParse(q, a, cur), q, p.reduced)
      BY <3>2, <3>3, SimpleAlone, AloneReads DEF Right
    <3> QED
      BY <3>1, <3>2, <3>4
  <2> QED
    BY <2>2, <2>3 DEF ReadAsStated, Asked, Modes
<1>13. CASE r.type = "tencentcloud_lighthouse_instance"
  <2>1. q \in LighthouseExtract(r)
    BY <1>13, SMT DEF Extract, DCDBTypes
  <2>2. q.product = "lighthouse" /\ Units(q) \in Int /\ Units(q) > 0 /\ mode = "month"
    BY <2>1, OnlyAsked
  <2>3. ASSUME NEW p, NEW a, NEW block, NEW cur, Fair(p), Healthy(a, block, q, mode, p)
        PROVE  Right(TencentParse(r, q, a, cur), mode, p) /\ RestReads(TencentParse(r, q, a, cur), q, p.reduced)
    <3>1. TencentParse(r, q, a, cur) = LighthouseParse(q, a, cur)
      BY <1>13, SMT DEF TencentParse, DCDBTypes
    <3>2. Right(LighthouseParse(q, a, cur), mode, p)
      BY <2>2, <2>3, BundlesRead
    <3>3. OtherMode(q) = "none"
      BY <2>2, SMT DEF OtherMode, Interface
    <3>4. RestReads(LighthouseParse(q, a, cur), q, p.reduced)
      BY <3>2, <3>3, SimpleAlone, AloneReads DEF Right
    <3> QED
      BY <3>1, <3>2, <3>4
  <2> QED
    BY <2>2, <2>3 DEF ReadAsStated, Asked, Modes
<1>14. CASE r.type = "tencentcloud_ecm_instance"
  <2>1. q \in ECMExtract(r)
    BY <1>14, SMT DEF Extract, DCDBTypes
  <2>2. q.product = "ecm" /\ Units(q) \in Int /\ Units(q) > 0 /\ mode = "hour"
    BY <2>1, OnlyAsked
  <2>3. ASSUME NEW p, NEW a, NEW block, NEW cur, Fair(p), Healthy(a, block, q, mode, p)
        PROVE  Right(TencentParse(r, q, a, cur), mode, p) /\ RestReads(TencentParse(r, q, a, cur), q, p.reduced)
    <3>1. TencentParse(r, q, a, cur) = ECMParse(q, a, cur)
      BY <1>14, SMT DEF TencentParse, DCDBTypes
    <3>2. Right(ECMParse(q, a, cur), mode, p)
      BY <2>2, <2>3, ECMReads
    <3>3. OtherMode(q) = "none"
      BY <2>2, SMT DEF OtherMode, Interface
    <3>4. RestReads(ECMParse(q, a, cur), q, p.reduced)
      BY <3>2, <3>3, SimpleAlone, AloneReads DEF Right
    <3> QED
      BY <3>1, <3>2, <3>4
  <2> QED
    BY <2>2, <2>3 DEF ReadAsStated, Asked, Modes
<1>15. CASE r.type = "tencentcloud_cwp_license_order"
  <2>1. q \in YunjingExtract(r)
    BY <1>15, SMT DEF Extract, DCDBTypes
  <2>2. q.product = "yunjing" /\ Units(q) \in Int /\ Units(q) > 0 /\ mode = "month"
    BY <2>1, OnlyAsked
  <2>3. ASSUME NEW p, NEW a, NEW block, NEW cur, Fair(p), Healthy(a, block, q, mode, p)
        PROVE  Right(TencentParse(r, q, a, cur), mode, p) /\ RestReads(TencentParse(r, q, a, cur), q, p.reduced)
    <3>1. TencentParse(r, q, a, cur) = YunjingParse(q, a, cur)
      BY <1>15, SMT DEF TencentParse, DCDBTypes
    <3>2. Right(YunjingParse(q, a, cur), mode, p)
      BY <2>2, <2>3, BundlesRead
    <3>3. OtherMode(q) = "none"
      BY <2>2, SMT DEF OtherMode, Interface
    <3>4. RestReads(YunjingParse(q, a, cur), q, p.reduced)
      BY <3>2, <3>3, SimpleAlone, AloneReads DEF Right
    <3> QED
      BY <3>1, <3>2, <3>4
  <2> QED
    BY <2>2, <2>3 DEF ReadAsStated, Asked, Modes
<1>16. CASE r.type = "tencentcloud_cloudhsm_instance"
  <2>1. q \in CloudHSMExtract(r)
    BY <1>16, SMT DEF Extract, DCDBTypes
  <2>2. q.product = "cloudhsm" /\ Units(q) \in Int /\ Units(q) > 0 /\ mode = "month"
    BY <2>1, OnlyAsked
  <2>3. ASSUME NEW p, NEW a, NEW block, NEW cur, Fair(p), Healthy(a, block, q, mode, p)
        PROVE  Right(TencentParse(r, q, a, cur), mode, p) /\ RestReads(TencentParse(r, q, a, cur), q, p.reduced)
    <3>1. TencentParse(r, q, a, cur) = CloudHSMParse(q, a, cur)
      BY <1>16, SMT DEF TencentParse, DCDBTypes
    <3>2. Right(CloudHSMParse(q, a, cur), mode, p)
      BY <2>2, <2>3, CloudHSMReads
    <3>3. OtherMode(q) = "none"
      BY <2>2, SMT DEF OtherMode, Interface
    <3>4. RestReads(CloudHSMParse(q, a, cur), q, p.reduced)
      BY <3>2, <3>3, SimpleAlone, AloneReads DEF Right
    <3> QED
      BY <3>1, <3>2, <3>4
  <2> QED
    BY <2>2, <2>3 DEF ReadAsStated, Asked, Modes
<1>17. CASE r.type = "tencentcloud_mysql_instance"
  <2>1. q \in MySQLExtract(r)
    BY <1>17, SMT DEF Extract, DCDBTypes
  <2>2. /\ q.product = "cdb" /\ Units(q) \in Int /\ Units(q) > 0 /\ mode \in {"hour", "month"}
        /\ ~isPrepaid(q)
        /\ q.params.PayType = "HOUR_PAID" <=> mode = "hour"
    BY <2>1, MySQLAsked
  <2>3. ASSUME NEW p, NEW a, NEW block, NEW cur, Fair(p), Healthy(a, block, q, mode, p)
        PROVE  Right(TencentParse(r, q, a, cur), mode, p) /\ RestReads(TencentParse(r, q, a, cur), q, p.reduced)
    <3>1. TencentParse(r, q, a, cur) = MySQLParse(q, a, cur)
      BY <1>17, SMT DEF TencentParse, DCDBTypes
    <3>2. Right(MySQLParse(q, a, cur), mode, p)
      BY <2>2, <2>3, MySQLReads
    <3>3. OtherMode(q) = "none"
      BY <2>2, SMT DEF OtherMode, Interface
    <3>4. RestReads(MySQLParse(q, a, cur), q, p.reduced)
      BY <3>2, <3>3, SimpleAlone, AloneReads DEF Right
    <3> QED
      BY <3>1, <3>2, <3>4
  <2> QED
    BY <2>2, <2>3 DEF ReadAsStated, Asked, Modes
<1>18. CASE r.type = "tencentcloud_cynosdb_cluster"
  <2>1. q \in CynosExtract(r)
    BY <1>18, SMT DEF Extract, DCDBTypes
  <2>2. /\ q.product = "cynosdb" /\ Units(q) \in Int /\ Units(q) > 0 /\ mode \in {"hour", "month"}
        /\ isPrepaid(q) <=> mode = "month"
        /\ q.params.InstancePayMode = "PREPAID" <=> mode = "month"
        /\ q.params.StoragePayMode = "PREPAID" => q.params.StorageLimit \in Int /\ q.params.StorageLimit > 0
    BY <2>1, CynosAsked
  <2>3. ASSUME NEW p, NEW a, NEW block, NEW cur, Fair(p), Healthy(a, block, q, mode, p)
        PROVE  Right(TencentParse(r, q, a, cur), mode, p) /\ RestReads(TencentParse(r, q, a, cur), q, p.reduced)
    <3>1. TencentParse(r, q, a, cur) = CynosParse(q, a, cur)
      BY <1>18, SMT DEF TencentParse, DCDBTypes
    <3>2. Right(CynosParse(q, a, cur), mode, p) /\ RestReads(CynosParse(q, a, cur), q, p.reduced)
      BY <2>2, <2>3, CynosReads
    <3> QED
      BY <3>1, <3>2
  <2> QED
    BY <2>2, <2>3 DEF ReadAsStated, Asked, Modes
<1> QED
  BY <1>1, <1>2, <1>3, <1>4, <1>5, <1>6, <1>7, <1>8, <1>9, <1>10, <1>11, <1>12, <1>13, <1>14, <1>15, <1>16, <1>17, <1>18 DEF Countable, TencentTypes

\* What costs nothing, or less, without units.
LEMMA NoUnits ==
    ASSUME NEW mode \in {"hour", "month"}, NEW units \in Int, ~(units > 0), NEW reduced
    PROVE  LET p == PriceOf(mode, units, reduced) IN p.list \in Int /\ p.list <= 0 /\ p.paid \in Int /\ p.paid <= 0
<1> DEFINE p == PriceOf(mode, units, reduced)
<1>1. Listed[mode] \in {3, 9} /\ Reduced[mode] \in {2, 6}
  BY DEF Listed, Reduced
<1>2. \A n \in {3, 9, 2, 6} : n * units \in Int /\ n * units <= 0
  OBVIOUS
<1>3. p.list = Listed[mode] * units /\ p.paid \in {Listed[mode] * units, Reduced[mode] * units}
  BY DEF PriceOf
<1> HIDE DEF p
<1>4. p.list \in Int /\ p.list <= 0 /\ p.paid \in Int /\ p.paid <= 0
  BY <1>1, <1>2, <1>3
<1> QED
  BY <1>4 DEF p

(***************************************************************************)
(* The price of a resource of Tencent Cloud.                               *)
(***************************************************************************)

\* The answer the service gave, without a fault, to a request that is paid by mode, and its price p.
States(a, q, mode, p) ==
    \E reduced \in BOOLEAN, wrapped \in BOOLEAN, stated \in BOOLEAN : \E currency :
        /\ a = TencentAnswer(q, mode, "none", reduced, wrapped, stated, currency)
        /\ p = PriceOf(mode, Units(q), reduced)

\* The components are the price p, and that of the other line if there is one.
AllRight(comps, q, mode, p) == Right(comps, mode, p) /\ RestReads(comps, q, p.reduced)

\* The mapper reads what is stated, and only a disk without a size has no price.
LEMMA StatedPrice ==
    ASSUME NEW r, HasNumbers(r), r.type \in TencentTypes, NEW q \in Extract(r), NEW mode \in Understood(q),
           NEW a, NEW p, States(a, q, mode, p), NEW cur
    PROVE  IF Units(q) > 0 THEN AllRight(TencentParse(r, q, a, cur), q, mode, p) ELSE TencentParse(r, q, a, cur) = <<>>
<1>1. PICK reduced \in BOOLEAN, wrapped \in BOOLEAN, stated \in BOOLEAN : \E currency :
          /\ a = TencentAnswer(q, mode, "none", reduced, wrapped, stated, currency)
          /\ p = PriceOf(mode, Units(q), reduced)
  BY DEF States
<1>2. PICK currency : /\ a = TencentAnswer(q, mode, "none", reduced, wrapped, stated, currency)
                      /\ p = PriceOf(mode, Units(q), reduced)
  BY <1>1
<1>3. q.product # "domain" => \E block : Healthy(a, block, q, mode, p)
  BY <1>2, HealthyAnswer
<1>4. mode \in Modes /\ Units(q) \in Int /\ Units(q) > 0 => Fair(p)
  BY <1>2, FairPrice
<1>5. CASE r.type \in Countable
  <2>1. ReadAsStated(r, q, mode)
    BY <1>5, StatedIsRead
  <2>2. Asked(q, mode)
    BY <2>1 DEF ReadAsStated
  <2>3. Fair(p) /\ Units(q) > 0
    BY <1>4, <2>2 DEF Asked
  <2>4. PICK block : Healthy(a, block, q, mode, p)
    BY <1>3, <2>2 DEF Asked
  <2> QED
    BY <2>1, <2>3, <2>4 DEF ReadAsStated, AllRight
<1>6. CASE r.type = "tencentcloud_cbs_storage"
  <2>1. q \in CBSExtract(r)
    BY <1>6, SMT DEF Extract, DCDBTypes
  <2>2. q.product = "cbs" /\ Units(q) \in Int /\ mode \in {"hour", "month"}
    BY <2>1, CBSAsked
  <2>3. PICK block : Healthy(a, block, q, mode, p)
    BY <1>3, <2>2
  <2>4. TencentParse(r, q, a, cur) = CBSParse(q, a, cur)
    BY <1>6, SMT DEF TencentParse, DCDBTypes
  <2>5. CASE Units(q) > 0
    <3>1. Right(CBSParse(q, a, cur), mode, p)
      BY <1>4, <2>2, <2>3, <2>5, CBSReads DEF Modes
    <3>2. OtherMode(q) = "none"
      BY <2>2, SMT DEF OtherMode, Interface
    <3>3. RestReads(CBSParse(q, a, cur), q, p.reduced)
      BY <3>1, <3>2, SimpleAlone, AloneReads DEF Right
    <3> QED
      BY <2>4, <2>5, <3>1, <3>3 DEF AllRight
  <2>6. CASE ~(Units(q) > 0)
    <3>1. p.list \in Int /\ p.list <= 0 /\ p.paid \in Int /\ p.paid <= 0
      BY <1>2, <2>2, <2>6, NoUnits
    <3>2. CBSParse(q, a, cur) = <<>>
      BY <2>2, <2>3, <3>1, CBSRefused
    <3> QED
      BY <2>4, <2>6, <3>2
  <2> QED
    BY <2>5, <2>6
<1>7. CASE r.type = "tencentcloud_domain_registration"
  <2>1. q \in DomainExtract(r)
    BY <1>7, SMT DEF Extract, DCDBTypes
  <2>2. q.product = "domain" /\ mode = "year" /\ Units(q) = 1
    BY <2>1, OnlyAsked
  <2>3. Fair(p)
    BY <1>4, <2>2 DEF Modes
  <2>4. Placed(a, NameList(p, stated))
    BY <1>2, <2>2, SMT DEF TencentAnswer, Placed
  <2>5. TencentParse(r, q, a, cur) = DomainParse(q, a, cur)
    BY <1>7, SMT DEF TencentParse, DCDBTypes
  <2>6. Right(DomainParse(q, a, cur), "year", p)
    BY <2>3, <2>4, DomainReads
  <2>7. OtherMode(q) = "none"
    BY <2>2, SMT DEF OtherMode, Interface
  <2>8. RestReads(DomainParse(q, a, cur), q, p.reduced)
    BY <2>6, <2>7, SimpleAlone, AloneReads DEF Right
  <2> QED
    BY <2>2, <2>5, <2>6, <2>8 DEF AllRight
<1> QED
  BY <1>5, <1>6, <1>7 DEF Countable

\* An answer without a fault is refused only when nothing was asked for, and
\* every component of a price is a price that it states.
PricedAsStated ==
    request.provider = "tencent" /\ fault = "none" =>
        /\ stage = "answered" =>
              (Units(request) > 0 <=> Parse(plan, request, answer, ExpectedCurrencyFor("tencent")) # {})
        /\ stage = "priced" =>
              \E mode \in Understood(request) : \E p :
                 States(answer, request, mode, p) /\ AllRight(quote, request, mode, p)

\* The resource has numbers, and its answer is one to its request.
StatedInv ==
    /\ HasNumbers(plan)
    /\ stage \in {"asked", "answered", "priced"} => request \in Extract(plan)
    /\ stage \in {"answered", "priced"} /\ request.provider = "tencent" /\ fault = "none" =>
          \E mode \in Understood(request) : \E p : States(answer, request, mode, p)
    /\ stage = "priced" => \E cur : quote \in Parse(plan, request, answer, cur)

LEMMA InitStated == Init => StatedInv
  BY PlansAssumption DEF Init, StatedInv

LEMMA NextStated == StatedInv /\ [Next]_vars => StatedInv'
<1> SUFFICES ASSUME StatedInv, [Next]_vars PROVE StatedInv'
  OBVIOUS
<1>1. CASE Ask
  <2>1. plan' = plan /\ (stage' = "skipped" \/ (stage' = "asked" /\ request' \in Extract(plan)))
    BY <1>1 DEF Ask, Skip
  <2> QED
    BY <2>1 DEF StatedInv, HasNumbers
<1>2. CASE QueryFails
  <2>1. plan' = plan /\ stage' = "skipped"
    BY <1>2 DEF QueryFails, Skip
  <2> QED
    BY <2>1 DEF StatedInv, HasNumbers
<1>3. CASE AnswerTencent
  <2>1. PICK mode \in Understood(request), wrong \in Faults, reduced \in BOOLEAN, wrapped \in BOOLEAN,
             stated \in BOOLEAN :
          /\ answer' = TencentAnswer(request, mode, wrong, reduced, wrapped, stated, Due(reduced).currency)
          /\ Answered(wrong, reduced)
    BY <1>3, Zenon DEF AnswerTencent
  <2>2. /\ stage = "asked" /\ stage' = "answered" /\ plan' = plan /\ request' = request /\ fault' = wrong
    BY <1>3, <2>1 DEF AnswerTencent, Answered
  <2>3. wrong = "none" => States(answer', request, mode, PriceOf(mode, Units(request), reduced))
    <3> HAVE wrong = "none"
    <3> DEFINE currency == Due(reduced).currency
    <3>1. answer' = TencentAnswer(request, mode, "none", reduced, wrapped, stated, currency)
      BY <2>1
    <3> HIDE DEF currency
    <3> QED
      BY <3>1, Zenon DEF States
  <2>4. fault' = "none" => \E m \in Understood(request) : \E p : States(answer', request, m, p)
    BY <2>2, <2>3
  <2>5. (\E m \in Understood(request) : \E p : States(answer, request, m, p))'
            <=> \E m \in Understood(request) : \E p : States(answer', request, m, p)
    BY <2>2 DEF States
  <2> QED
    BY <2>2, <2>4, <2>5 DEF StatedInv, HasNumbers
<1>4. CASE AnswerBss
  <2>1. /\ stage = "asked" /\ request.provider \in {"alibaba", "huawei"}
        /\ stage' = "answered" /\ plan' = plan /\ request' = request
    BY <1>4 DEF AnswerBss, Answered
  <2> QED
    BY <2>1 DEF StatedInv, HasNumbers
<1>5. CASE AnswerAws
  <2>1. /\ stage = "asked" /\ request.provider = "aws"
        /\ stage' = "answered" /\ plan' = plan /\ request' = request
    BY <1>5 DEF AnswerAws, Answered
  <2> QED
    BY <2>1 DEF StatedInv, HasNumbers
<1>6. CASE Read
  <2>1. /\ stage = "answered" /\ UNCHANGED <<plan, request, answer, fault>>
        /\ \/ stage' = "skipped"
           \/ stage' = "priced" /\ quote' \in Parse(plan, request, answer, ExpectedCurrencyFor(request.provider))
    BY <1>6, Zenon DEF Read, Skip
  <2>2. (\E mode \in Understood(request) : \E p : States(answer, request, mode, p))'
            <=> \E mode \in Understood(request) : \E p : States(answer, request, mode, p)
    BY <2>1 DEF States
  <2>3. stage' = "priced" => (\E cur : quote \in Parse(plan, request, answer, cur))'
    BY <2>1
  <2> QED
    BY <2>1, <2>2, <2>3 DEF StatedInv, HasNumbers
<1>7. CASE UNCHANGED vars
  <2>1. UNCHANGED <<plan, stage, request, answer, fault, quote>>
    BY <1>7 DEF vars
  <2>2. (\E mode \in Understood(request) : \E p : States(answer, request, mode, p))'
            <=> \E mode \in Understood(request) : \E p : States(answer, request, mode, p)
    BY <2>1 DEF States
  <2>3. (\E cur : quote \in Parse(plan, request, answer, cur))' <=> \E cur : quote \in Parse(plan, request, answer, cur)
    BY <2>1
  <2> QED
    BY <2>1, <2>2, <2>3 DEF StatedInv, HasNumbers
<1> QED
  BY <1>1, <1>2, <1>3, <1>4, <1>5, <1>6, <1>7 DEF Next

\* A resource of Tencent Cloud costs what the service says that the units and
\* the period of its request cost, after the discount, wherever the answer has
\* that and whatever it leaves out; the line of the answer for its bandwidth or
\* storage is the second component and there is no other; and an answer is
\* refused when, and only when, its request asks for no units.
THEOREM TencentIsPricedAsStated == Spec => []PricedAsStated
<1>1. StatedInv => PricedAsStated
  <2> SUFFICES ASSUME StatedInv, request.provider = "tencent", fault = "none", stage \in {"answered", "priced"}
               PROVE  /\ stage = "answered" =>
                            (Units(request) > 0 <=> Parse(plan, request, answer, ExpectedCurrencyFor("tencent")) # {})
                      /\ stage = "priced" =>
                            \E mode \in Understood(request) : \E p :
                               States(answer, request, mode, p) /\ AllRight(quote, request, mode, p)
    BY DEF PricedAsStated
  <2>1. HasNumbers(plan) /\ request \in Extract(plan)
    BY DEF StatedInv
  <2>2. plan.type \in TencentTypes
    BY <2>1, WhoIsAsked
  <2>a. PICK mode \in Understood(request) : \E p : States(answer, request, mode, p)
    BY DEF StatedInv
  <2>3. PICK p : States(answer, request, mode, p)
    BY <2>a
  <2>4. \A cur : IF Units(request) > 0 THEN AllRight(TencentParse(plan, request, answer, cur), request, mode, p)
                 ELSE TencentParse(plan, request, answer, cur) = <<>>
    BY <2>1, <2>2, <2>3, StatedPrice
  <2>5. \A cur : Parse(plan, request, answer, cur) = {TencentParse(plan, request, answer, cur)} \ {<<>>}
    BY Zenon DEF Parse
  <2>6. stage = "priced" => AllRight(quote, request, mode, p)
    <3> HAVE stage = "priced"
    <3>1. PICK cur : quote \in Parse(plan, request, answer, cur)
      BY DEF StatedInv
    <3>2. quote = TencentParse(plan, request, answer, cur) /\ quote # <<>>
      BY <2>5, <3>1
    <3> QED
      BY <2>4, <3>2
  <2>7. ASSUME NEW cur PROVE Units(request) > 0 <=> Parse(plan, request, answer, cur) # {}
    <3>1. Units(request) > 0 <=> TencentParse(plan, request, answer, cur) # <<>>
      BY <2>4 DEF AllRight, Right
    <3> QED
      BY <2>5, <3>1
  <2> QED
    BY <2>3, <2>6, <2>7
<1> QED
  BY <1>1, InitStated, NextStated, PTL DEF Spec

(***************************************************************************)
(* The currency a price is labelled with.                                  *)
(***************************************************************************)

\* Fields that state no currency, and those that state no other than cur.
Silent(fields) == "Currency" \notin DOMAIN fields
Agrees(fields, cur) == Silent(fields) \/ fields.Currency = cur
AllAgree(block, cur) == \A part : Agrees(Part(block, part), cur)

\* What the answers are put together from.
LEMMA SilentPieces ==
    /\ Silent(<<>>)
    /\ \A field, n : field # "Currency" => Silent(Only(field, n))
    /\ \A f, g : Silent(f) /\ Silent(g) => Silent(Along(f, g))
    /\ \A p, field, factor : field # "Currency" => Silent(IfReduced(p, field, factor))
<1>1. Silent(<<>>)
  BY DEF Silent
<1>2. \A field, n : field # "Currency" => Silent(Only(field, n))
  BY DEF Silent, Only
<1>3. \A f, g : Silent(f) /\ Silent(g) => Silent(Along(f, g))
  BY DEF Silent, Along
<1>4. \A p, field, factor : field # "Currency" => Silent(IfReduced(p, field, factor))
  BY <1>1, <1>2, Zenon DEF IfReduced
<1> QED
  BY <1>1, <1>2, <1>3, <1>4

\* No form of a price states a currency of its own.
LEMMA SilentForms ==
    ASSUME NEW p, NEW mode, NEW unit, NEW factor
    PROVE  /\ Silent(Rates(p, unit)) /\ Silent(Totals(p, unit)) /\ Silent(Sale(p, factor))
           /\ Silent(Trade(p, mode, unit))
<1>1. \A x, y : Silent([UnitPrice |-> x, ChargeUnit |-> y]) /\ Silent([OriginalPrice |-> x]) /\ Silent([TotalPrice |-> x])
  BY DEF Silent
<1>2. \A x, y, z : Silent([OriginalPrice |-> x, DiscountPrice |-> y, ChargeUnit |-> z])
  BY DEF Silent
<1>3. /\ "UnitPriceDiscount" # "Currency" /\ "DiscountPrice" # "Currency" /\ "TotalPriceDiscount" # "Currency"
  OBVIOUS
<1>4. Silent(Rates(p, unit)) /\ Silent(Totals(p, unit)) /\ Silent(Sale(p, factor))
  BY <1>1, <1>2, <1>3, SilentPieces, Zenon DEF Rates, Totals, Sale
<1>5. Silent(Trade(p, mode, unit))
  BY <1>1, <1>3, SilentPieces, Zenon DEF Trade
<1> QED
  BY <1>4, <1>5

LEMMA SilentFields ==
    ASSUME NEW q, NEW mode, NEW p
    PROVE  Silent(MainFields(q, mode, p))
<1>1. /\ \A x, y : Silent([UnitPrice |-> x, ChargeUnit |-> y]) /\ Silent([TotalCost |-> x, OriginalCost |-> y])
      /\ \A x : /\ Silent([TotalCost |-> x]) /\ Silent([OriginalPrice |-> x]) /\ Silent([Price |-> x])
                /\ Silent([UnitPrice |-> x]) /\ Silent([ProxyDailyPrice |-> x])
  BY DEF Silent
<1>2. \A x, y, z : /\ Silent([UnitPrice |-> x, DiscountPrice |-> y, ChargeUnit |-> z])
                   /\ Silent([Price |-> x, HighPrecisionPrice |-> y, AmountUnit |-> z])
  BY DEF Silent
<1>3. /\ "DiscountPrice" # "Currency" /\ "RealTotalCost" # "Currency" /\ "Price" # "Currency"
      /\ "DiscountProxyDailyPrice" # "Currency"
  OBVIOUS
<1> QED
  BY <1>1, <1>2, <1>3, SilentPieces, SilentForms, Zenon DEF MainFields

LEMMA SilentParts ==
    ASSUME NEW q, NEW reduced, NEW part
    PROVE  Silent(Part(OtherParts(q, reduced), part))
<1>1. Silent([x \in {} |-> 0])
  BY DEF Silent
<1>2. \A name, f : Silent(f) => Silent(Part(Only(name, f), part))
  <2> TAKE name, f
  <2>1. Part(Only(name, f), part) \in {f, [x \in {} |-> 0]}
    BY DEF Part, Only
  <2> QED
    BY <1>1, <2>1
<1>3. Silent(Part(<<>>, part))
  BY <1>1 DEF Part
<1> QED
  BY <1>2, <1>3, SilentForms, Zenon DEF OtherParts

LEMMA SilentNames ==
    ASSUME NEW p, NEW first, NEW part
    PROVE  Silent(Part(NameList(p, first), part))
<1> DEFINE renew == [Operation |-> "renew", Price |-> 7 * p.list]
           new == Along([Operation |-> "new", Price |-> p.list], IfReduced(p, "RealPrice", 1))
<1>1. Silent(renew) /\ Silent([x \in {} |-> 0])
  BY DEF Silent
<1>2. Silent(new)
  <2>1. Silent([Operation |-> "new", Price |-> p.list]) /\ "RealPrice" # "Currency"
    BY DEF Silent
  <2> QED
    BY <2>1, SilentPieces
<1>3. NameList(p, first) \in {<<renew, new>>, <<new, renew>>}
  BY DEF NameList
<1> HIDE DEF renew, new
<1> QED
  BY <1>1, <1>2, <1>3 DEF Part

\* What an answer of Tencent Cloud states of the currency is the one it is in.
SaysOnly(a, cur) == AllAgree(a.top, cur) /\ AllAgree(a.wrapped, cur)

LEMMA AnswerSays ==
    ASSUME NEW q, NEW mode, NEW wrong, NEW reduced, NEW wrapped, NEW stated, NEW cur
    PROVE  SaysOnly(TencentAnswer(q, mode, wrong, reduced, wrapped, stated, cur), cur)
<1> DEFINE p == IF wrong = "zero" THEN [list |-> 0, paid |-> 0, reduced |-> reduced]
                ELSE PriceOf(mode, Units(q), reduced)
           word == IF stated /\ q.product # "domain" THEN [Currency |-> cur] ELSE <<>>
           fields == Along(MainFields(q, mode, p), word)
           main == Only(MainPart(q), fields)
           block == IF wrong = "empty" THEN <<>>
                    ELSE IF q.product = "domain" THEN NameList(p, stated)
                    ELSE IF wrong = "zero" THEN main
                    ELSE Along(main, OtherParts(q, reduced))
           a == TencentAnswer(q, mode, wrong, reduced, wrapped, stated, cur)
<1>1. /\ a.top = IF wrapped THEN <<>> ELSE block
      /\ a.wrapped = IF wrapped THEN block ELSE <<>>
  BY DEF TencentAnswer
<1>2. Agrees(fields, cur)
  <2>1. Silent(MainFields(q, mode, p))
    BY SilentFields
  <2> HIDE DEF p
  <2> QED
    BY <2>1 DEF Agrees, Silent, Along
<1> HIDE DEF fields
<1>3. AllAgree(<<>>, cur)
  BY DEF AllAgree, Agrees, Silent, Part
<1>4. AllAgree(main, cur)
  <2>1. \A part : Part(main, part) \in {fields, [x \in {} |-> 0]}
    BY DEF Part, Only
  <2>2. Silent([x \in {} |-> 0])
    BY DEF Silent
  <2> QED
    BY <1>2, <2>1, <2>2 DEF AllAgree, Agrees
<1>5. AllAgree(Along(main, OtherParts(q, reduced)), cur)
  <2> SUFFICES ASSUME NEW part PROVE Agrees(Part(Along(main, OtherParts(q, reduced)), part), cur)
    BY DEF AllAgree
  <2> DEFINE others == OtherParts(q, reduced)
  <2>1. Silent(Part(others, part)) /\ Agrees(Part(main, part), cur)
    BY <1>4, SilentParts DEF AllAgree
  <2> HIDE DEF others, main
  <2>2. Part(Along(main, others), part) \in {Part(main, part), Part(others, part)}
    BY DEF Part, Along
  <2> QED
    BY <2>1, <2>2 DEF Agrees, others
<1> HIDE DEF main
<1>6. AllAgree(block, cur)
  <2>1. AllAgree(NameList(p, stated), cur)
    BY SilentNames DEF AllAgree, Agrees
  <2> HIDE DEF p
  <2> QED
    BY <1>3, <1>4, <1>5, <2>1
<1> HIDE DEF block, a
<1>7. SaysOnly(a, cur)
  BY <1>1, <1>3, <1>6 DEF SaysOnly
<1> QED
  BY <1>7 DEF a

\* Every component is in the currency.
Labelled(comps, cur) == \A i \in DOMAIN comps : comps[i].currency = cur

Currencies == {"USD", "CNY"}

LEMMA KeepsCurrency ==
    ASSUME NEW cur
    PROVE  /\ \A unit, x, y : Component(unit, x, y, cur).currency = cur
           /\ \A unit, x, y : FromPrice(unit, x, y, cur).currency = cur
           /\ \A unit, x, postpaid : SplitByBilling(unit, x, postpaid, cur).currency = cur
           /\ \A x : DailyComponent(x, cur).currency = cur
<1>1. \A unit, x, y : Component(unit, x, y, cur).currency = cur
  BY DEF Component
<1>2. ASSUME NEW unit, NEW x, NEW y PROVE FromPrice(unit, x, y, cur).currency = cur
  BY <1>1, Zenon DEF FromPrice
<1>3. ASSUME NEW unit, NEW x, NEW postpaid PROVE SplitByBilling(unit, x, postpaid, cur).currency = cur
  BY <1>1, Zenon DEF SplitByBilling
<1>4. ASSUME NEW x PROVE DailyComponent(x, cur).currency = cur
  BY <1>1, Zenon DEF DailyComponent
<1> QED
  BY <1>1, <1>2, <1>3, <1>4

\* The lines of an answer, each with a component of its own.
LEMMA KeepsOfLine ==
    ASSUME NEW p, NEW prepaid, NEW cur
    PROVE  /\ CLBComponent(p, cur).currency = cur /\ VPNComponent(p, cur).currency = cur
           /\ CynosComponent(p, prepaid, cur).currency = cur
<1>1. CLBComponent(p, cur).currency = cur
  BY KeepsCurrency DEF CLBComponent
<1>2. VPNComponent(p, cur).currency = cur
  BY KeepsCurrency DEF VPNComponent
<1>3. CynosComponent(p, prepaid, cur).currency = cur
  BY KeepsCurrency DEF CynosComponent
<1> QED
  BY <1>1, <1>2, <1>3

LEMMA LabelledOne ==
    ASSUME NEW c, NEW a
    PROVE  Labelled(<<c>>, c.currency) /\ Labelled(Paid(a, <<c>>), c.currency)
<1>1. Labelled(<<c>>, c.currency) /\ Labelled(<<>>, c.currency)
  BY DEF Labelled
<1> QED
  BY <1>1, Zenon DEF Paid

LEMMA LabelledBoth ==
    ASSUME NEW a, NEW c, NEW d, NEW rest, Follows(rest, d), c.currency = d.currency
    PROVE  Labelled(Paid(a, <<c>> \o rest), c.currency)
<1> DEFINE both == <<c>> \o rest
<1>1. /\ both[1] = c /\ DOMAIN both = 1..Len(both)
      /\ rest = <<>> => Len(both) = 1
      /\ rest = <<d>> => Len(both) = 2 /\ both[2] = d
  BY OneOrTwo
<1>2. Labelled(<<>>, c.currency)
  BY DEF Labelled
<1> HIDE DEF both
<1>3. Labelled(both, c.currency)
  BY <1>1 DEF Labelled, Follows
<1>4. Labelled(Paid(a, both), c.currency)
  BY <1>2, <1>3, Zenon DEF Paid
<1> QED
  BY <1>4 DEF both

\* The currency a mapper expects, whatever the answer leaves out.
LEMMA Expected ==
    ASSUME NEW cur \in Currencies
    PROVE  /\ TencentCurrency(cur) = cur
           /\ \A fields : Agrees(fields, cur) => OrText(Word(fields, "Currency"), TencentCurrency(cur)) = cur
           /\ \A fields : Agrees(fields, cur) => Word(fields, "Currency") \in {"", cur}
           /\ \A x : OrText(cur, x) = cur /\ OrText("", x) = x
<1>1. TencentCurrency(cur) = cur
  BY DEF TencentCurrency, Trim, Currencies
<1>2. \A x : OrText(cur, x) = cur /\ OrText("", x) = x
  BY DEF OrText, Currencies
<1>3. \A fields : Agrees(fields, cur) => Word(fields, "Currency") \in {"", cur}
  BY DEF Agrees, Silent, Word
<1> QED
  BY <1>1, <1>2, <1>3

\* The mappers of one component that expect the currency.
LEMMA SimpleLabels ==
    ASSUME NEW q, NEW a, NEW cur \in Currencies
    PROVE  /\ Labelled(LighthouseParse(q, a, cur), cur) /\ Labelled(ECMParse(q, a, cur), cur)
           /\ Labelled(EIPParse(q, a, cur), cur) /\ Labelled(DirectConnectParse(q, a, cur), cur)
           /\ Labelled(GAAPParse(q, a, cur), cur) /\ Labelled(YunjingParse(q, a, cur), cur)
           /\ Labelled(CloudHSMParse(q, a, cur), cur) /\ Labelled(DomainParse(q, a, cur), cur)
           /\ Labelled(MongoParse(q, a, cur), cur) /\ Labelled(MariaDBParse(q, a, cur), cur)
           /\ Labelled(SQLServerParse(q, a, cur), cur) /\ Labelled(DCDBParse(q, a, cur), cur)
<1>a. TencentCurrency(cur) = cur
  BY Expected
<1>b. \A unit, x, y : Labelled(Paid(a, <<Component(unit, x, y, cur)>>), cur)
  <2> SUFFICES ASSUME NEW unit, NEW x, NEW y PROVE Labelled(Paid(a, <<Component(unit, x, y, cur)>>), cur)
    OBVIOUS
  <2> DEFINE c == Component(unit, x, y, cur)
  <2>1. c.currency = cur
    BY KeepsCurrency
  <2> HIDE DEF c
  <2>2. Labelled(Paid(a, <<c>>), cur)
    BY <2>1, LabelledOne
  <2> QED
    BY <2>2 DEF c
<1>c. \A unit, x, postpaid : Labelled(Paid(a, <<SplitByBilling(unit, x, postpaid, cur)>>), cur)
  <2> SUFFICES ASSUME NEW unit, NEW x, NEW postpaid PROVE Labelled(Paid(a, <<SplitByBilling(unit, x, postpaid, cur)>>), cur)
    OBVIOUS
  <2> DEFINE c == SplitByBilling(unit, x, postpaid, cur)
  <2>1. c.currency = cur
    BY KeepsCurrency
  <2> HIDE DEF c
  <2>2. Labelled(Paid(a, <<c>>), cur)
    BY <2>1, LabelledOne
  <2> QED
    BY <2>2 DEF c
<1>d. Labelled(<<>>, cur)
  BY DEF Labelled
<1>1. Labelled(LighthouseParse(q, a, cur), cur)
  BY <1>a, <1>b, <1>c, <1>d, Zenon DEF LighthouseParse
<1>2. Labelled(ECMParse(q, a, cur), cur)
  BY <1>a, <1>b, <1>c, <1>d, Zenon DEF ECMParse, SimpleHourlyCost
<1>3. Labelled(EIPParse(q, a, cur), cur)
  BY <1>a, <1>b, <1>c, <1>d, Zenon DEF EIPParse
<1>4. Labelled(DirectConnectParse(q, a, cur), cur)
  BY <1>a, <1>b, <1>c, <1>d, Zenon DEF DirectConnectParse
<1>5. Labelled(GAAPParse(q, a, cur), cur)
  BY <1>a, <1>b, <1>c, <1>d, Zenon DEF GAAPParse
<1>6. Labelled(YunjingParse(q, a, cur), cur)
  BY <1>a, <1>b, <1>c, <1>d, Zenon DEF YunjingParse
<1>7. Labelled(CloudHSMParse(q, a, cur), cur)
  BY <1>a, <1>b, <1>c, <1>d, Zenon DEF CloudHSMParse
<1>8. Labelled(DomainParse(q, a, cur), cur)
  BY <1>a, <1>b, <1>c, <1>d, Zenon DEF DomainParse
<1>9. Labelled(MongoParse(q, a, cur), cur)
  BY <1>a, <1>b, <1>c, <1>d, Zenon DEF MongoParse
<1>10. Labelled(MariaDBParse(q, a, cur), cur)
  BY <1>a, <1>b, <1>c, <1>d, Zenon DEF MariaDBParse
<1>11. Labelled(SQLServerParse(q, a, cur), cur)
  BY <1>a, <1>b, <1>c, <1>d, Zenon DEF SQLServerParse
<1>12. Labelled(DCDBParse(q, a, cur), cur)
  BY <1>a, <1>b, <1>c, <1>d, Zenon DEF DCDBParse
<1> QED
  BY <1>1, <1>2, <1>3, <1>4, <1>5, <1>6, <1>7, <1>8, <1>9, <1>10, <1>11, <1>12

LEMMA LabelledAll ==
    ASSUME NEW cur, NEW T, \A d \in T : d.currency = cur, NEW comps \in Seq(T)
    PROVE  Labelled(comps, cur)
  BY DEF Labelled

LEMMA LabelledPaid ==
    ASSUME NEW a, NEW cur, NEW comps, Labelled(comps, cur)
    PROVE  Labelled(Paid(a, comps), cur)
<1>1. Labelled(<<>>, cur)
  BY DEF Labelled
<1> QED
  BY <1>1, Zenon DEF Paid

\* The mappers that prefer the currency of the answer.
LEMMA StatedLabels ==
    ASSUME NEW q, NEW a, NEW cur \in Currencies, SaysOnly(a, cur)
    PROVE  /\ Labelled(CBSParse(q, a, cur), cur) /\ Labelled(MySQLParse(q, a, cur), cur)
           /\ Labelled(PostgresParse(q, a, cur), cur) /\ Labelled(RedisParse(q, a, cur), cur)
<1>1. \A part, fields : Agrees(Choose(a, part, fields), cur)
  BY Zenon DEF SaysOnly, AllAgree, Choose
<1>2. ASSUME NEW unit, NEW x, NEW postpaid PROVE Labelled(Paid(a, <<SplitByBilling(unit, x, postpaid, cur)>>), cur)
  <2> DEFINE c == SplitByBilling(unit, x, postpaid, cur)
  <2>1. c.currency = cur
    BY KeepsCurrency
  <2> HIDE DEF c
  <2>2. Labelled(Paid(a, <<c>>), cur)
    BY <2>1, LabelledOne
  <2> QED
    BY <2>2 DEF c
<1>3. Labelled(CBSParse(q, a, cur), cur)
  <2> DEFINE p == Choose(a, "DiskPrice", UnitPrices)
             c == FromPrice(Unit(p), Yuan(Rate(p)), Yuan(Amount(p, "DiscountPrice")),
                            OrText(Word(p, "Currency"), TencentCurrency(cur)))
  <2>1. OrText(Word(p, "Currency"), TencentCurrency(cur)) = cur
    BY <1>1, Expected
  <2>2. c.currency = cur
    BY <2>1, KeepsCurrency
  <2>3. CBSParse(q, a, cur) = Paid(a, <<c>>)
    BY Zenon DEF CBSParse
  <2> HIDE DEF c
  <2> QED
    BY <2>2, <2>3, LabelledOne
\* What the fields of the answer itself state, wrapped or not.
<1>4. OrText(OrText(Word(Part(a.wrapped, ""), "Currency"), Word(Part(a.top, ""), "Currency")), TencentCurrency(cur)) = cur
  <2> DEFINE inner == Word(Part(a.wrapped, ""), "Currency")
             outer == Word(Part(a.top, ""), "Currency")
  <2>1. Agrees(Part(a.wrapped, ""), cur) /\ Agrees(Part(a.top, ""), cur)
    BY DEF SaysOnly, AllAgree
  <2>2. inner \in {"", cur} /\ outer \in {"", cur}
    BY <2>1, Expected
  <2> HIDE DEF inner, outer
  <2>3. OrText(OrText(inner, outer), cur) = cur
    <3>1. \A x : OrText(cur, x) = cur /\ OrText("", x) = x
      BY Expected
    <3>2. OrText(inner, outer) \in {"", cur}
      BY <2>2, <3>1
    <3> QED
      BY <3>1, <3>2
  <2>4. TencentCurrency(cur) = cur
    BY Expected
  <2> QED
    BY <2>3, <2>4 DEF inner, outer
<1>5. TencentPrice(a, cur).currency = cur
  <2>1. TencentPrice(a, cur).currency =
           OrText(OrText(Word(Part(a.wrapped, ""), "Currency"), Word(Part(a.top, ""), "Currency")), TencentCurrency(cur))
    BY DEF TencentPrice
  <2> QED
    BY <1>4, <2>1
<1>6. Labelled(MySQLParse(q, a, cur), cur) /\ Labelled(PostgresParse(q, a, cur), cur)
  BY <1>2, <1>5, Zenon DEF MySQLParse, PostgresParse
<1>7. Labelled(RedisParse(q, a, cur), cur)
  BY <1>2, <1>4, Zenon DEF RedisParse
<1> QED
  BY <1>3, <1>6, <1>7

\* The mappers that add lines to the component of the machine.
LEMMA LineLabels ==
    ASSUME NEW q, NEW a, NEW cur \in Currencies
    PROVE  /\ SaysOnly(a, cur) => Labelled(CVMParse(q, a, cur), cur)
           /\ Labelled(CLBParse(q, a, cur), cur) /\ Labelled(VPNParse(q, a, cur), cur)
           /\ Labelled(CynosParse(q, a, cur), cur)
<1>0. TencentCurrency(cur) = cur
  BY Expected
<1>1. ASSUME SaysOnly(a, cur) PROVE Labelled(CVMParse(q, a, cur), cur)
  <2> DEFINE block == IF Shows(Part(a.wrapped, "InstancePrice"), UnitPrices) THEN a.wrapped ELSE a.top
             machine == Part(block, "InstancePrice")
             line == Part(block, "BandwidthPrice")
             currency == OrText(Word(machine, "Currency"), TencentCurrency(cur))
             c == FromPrice(Unit(machine), Yuan(Rate(machine)), Yuan(Amount(machine, "DiscountPrice")), currency)
             d == FromPrice(Unit(line), Yuan(Rate(line)), Yuan(Rate(line)), currency)
             others == IF Shows(line, {"UnitPrice", "UnitPriceDiscount"}) THEN <<d>> ELSE <<>>
  <2>1. Agrees(machine, cur)
    BY <1>1, Zenon DEF SaysOnly, AllAgree
  <2>2. currency = cur
    BY <2>1, Expected
  <2>3. c.currency = cur /\ d.currency = cur
    BY <2>2, KeepsCurrency
  <2>4. CVMParse(q, a, cur) = Paid(a, <<c>> \o others)
    BY Zenon DEF CVMParse
  <2> HIDE DEF c, d
  <2>5. Follows(others, d)
    BY DEF Follows
  <2> HIDE DEF others
  <2> QED
    BY <2>3, <2>4, <2>5, LabelledBoth
<1>2. Labelled(CLBParse(q, a, cur), cur)
  <2> DEFINE block == IF \E i \in 1..3 : Shows(Part(a.wrapped, CLBParts[i]), AllPrices) THEN a.wrapped ELSE a.top
             c(i) == CLBComponent(Part(block, CLBParts[i]), TencentCurrency(cur))
             of(i) == IF i = 1 \/ Shows(Part(block, CLBParts[i]), AllPrices) THEN <<c(i)>> ELSE <<>>
             T == {c(1), c(2), c(3)}
  <2>1. CLBParse(q, a, cur) = Paid(a, of(1) \o of(2) \o of(3))
    BY Zenon DEF CLBParse
  <2>2. \A i : c(i).currency = cur
    BY <1>0, KeepsOfLine
  <2> HIDE DEF c, block
  <2>3. of(1) \in Seq(T) /\ of(2) \in Seq(T) /\ of(3) \in Seq(T)
    <3>1. <<c(1)>> \in Seq(T) /\ <<c(2)>> \in Seq(T) /\ <<c(3)>> \in Seq(T) /\ <<>> \in Seq(T)
      OBVIOUS
    <3> HIDE DEF T
    <3> QED
      BY <3>1, Zenon
  <2>4. \A d \in T : d.currency = cur
    BY <2>2
  <2> HIDE DEF of, T
  <2>5. of(1) \o of(2) \o of(3) \in Seq(T)
    BY <2>3
  <2>6. Labelled(of(1) \o of(2) \o of(3), cur)
    BY <2>4, <2>5, LabelledAll
  <2> QED
    BY <2>1, <2>6, LabelledPaid
<1>3. Labelled(VPNParse(q, a, cur), cur)
  <2> DEFINE block == IF \/ Shows(Part(a.wrapped, "InstancePrice"), {"UnitPrice", "DiscountPrice"})
                         \/ Shows(Part(a.wrapped, "BandwidthPrice"), {"UnitPrice"})
                      THEN a.wrapped ELSE a.top
             machine == Part(block, "InstancePrice")
             line == Part(block, "BandwidthPrice")
             c == VPNComponent(machine, TencentCurrency(cur))
             d == VPNComponent(line, TencentCurrency(cur))
             others == IF Shows(line, {"UnitPrice", "DiscountPrice", "OriginalPrice"}) THEN <<d>> ELSE <<>>
  <2>1. c.currency = cur /\ d.currency = cur
    BY <1>0, KeepsOfLine
  <2>2. VPNParse(q, a, cur) = Paid(a, <<c>> \o others)
    BY Zenon DEF VPNParse
  <2> HIDE DEF c, d
  <2>3. Follows(others, d)
    BY DEF Follows
  <2> HIDE DEF others
  <2> QED
    BY <2>1, <2>2, <2>3, LabelledBoth
<1>4. Labelled(CynosParse(q, a, cur), cur)
  <2> DEFINE shown(block) == {part \in {"InstancePrice", "StoragePrice"} : Shows(Part(block, part), TradePrices)}
             block == IF shown(a.wrapped) # {} THEN a.wrapped ELSE a.top
             c == CynosComponent(Part(block, "InstancePrice"), q.params.InstancePayMode = "PREPAID",
                                 TencentCurrency(cur))
             d == CynosComponent(Part(block, "StoragePrice"), q.params.StoragePayMode = "PREPAID",
                                 TencentCurrency(cur))
             others == IF "StoragePrice" \in shown(block) THEN <<d>> ELSE <<>>
  <2>1. c.currency = cur /\ d.currency = cur
    BY <1>0, KeepsOfLine
  <2>2. CynosParse(q, a, cur) = Paid(a, <<c>> \o others)
    BY Zenon DEF CynosParse
  <2> HIDE DEF c, d
  <2>3. Follows(others, d)
    BY DEF Follows
  <2> HIDE DEF others
  <2> QED
    BY <2>1, <2>2, <2>3, LabelledBoth
<1> QED
  BY <1>1, <1>2, <1>3, <1>4

\* Whatever a resource of Tencent Cloud costs is in the currency.
LEMMA TencentLabels ==
    ASSUME NEW r, r.type \in TencentTypes, NEW q, NEW a, NEW cur \in Currencies, SaysOnly(a, cur)
    PROVE  Labelled(TencentParse(r, q, a, cur), cur)
  BY SimpleLabels, StatedLabels, LineLabels DEF TencentParse, TencentTypes, DCDBTypes

\* The parts of a sequence of sequences have the elements of its own.
LEMMA Flattened ==
    ASSUME NEW T, NEW parts \in Seq(Seq(T))
    PROVE  FlattenSeq(parts) \in Seq(T)
<1> DEFINE L == Len(parts)
           step(h, n) == IF n = 1 THEN parts[n] ELSE h[n - 1] \o parts[n]
           Joined(n) == n <= L => \E h \in [1..n -> Seq(T)] : \A k \in 1..n : h[k] = step(h, k)
           N == {n \in Nat : Joined(n)}
<1>0. L \in Nat /\ \A n \in 1..L : parts[n] \in Seq(T)
  OBVIOUS
<1>1. 0 \in N
  <2> DEFINE h == [k \in 1..0 |-> <<>>]
  <2>1. h \in [1..0 -> Seq(T)] /\ \A k \in 1..0 : h[k] = step(h, k)
    OBVIOUS
  <2>2. Joined(0)
    BY <2>1
  <2> HIDE DEF Joined
  <2> QED
    BY <2>2
<1>2. ASSUME NEW n \in N PROVE n + 1 \in N
  <2>0. n \in Nat /\ n + 1 \in Nat /\ Joined(n)
    <3> HIDE DEF Joined
    <3> QED
      OBVIOUS
  <2>1. CASE ~(n + 1 <= L)
    <3>1. Joined(n + 1)
      BY <2>1
    <3> HIDE DEF Joined
    <3> QED
      BY <2>0, <3>1
  <2>2. CASE n + 1 <= L
    <3>0. n <= L
      BY <1>0, <2>0, <2>2
    <3>1. PICK h \in [1..n -> Seq(T)] : \A k \in 1..n : h[k] = step(h, k)
      <4> HIDE DEF L, step
      <4> QED
        BY <2>0, <3>0
    <3> DEFINE next == IF n = 0 THEN parts[n + 1] ELSE h[n] \o parts[n + 1]
               g == [k \in 1..n + 1 |-> IF k <= n THEN h[k] ELSE next]
    <3>2. next \in Seq(T)
      <4>1. parts[n + 1] \in Seq(T)
        BY <1>0, <2>0, <2>2
      <4>2. n # 0 => h[n] \in Seq(T)
        BY <2>0, <3>1
      <4> QED
        BY <4>1, <4>2
    <3>3. g \in [1..n + 1 -> Seq(T)]
      <4> HIDE DEF next
      <4> QED
        BY <2>0, <3>1, <3>2
    <3>4. ASSUME NEW k \in 1..n + 1 PROVE g[k] = step(g, k)
      <4>1. CASE k = n + 1
        <5>1. g[k] = next /\ (n # 0 => k # 1 /\ k - 1 = n /\ g[n] = h[n]) /\ (n = 0 => k = 1)
          BY <2>0, <4>1
        <5> HIDE DEF g
        <5> QED
          BY <4>1, <5>1
      <4>2. CASE k \in 1..n
        <5>1. g[k] = h[k] /\ (k # 1 => g[k - 1] = h[k - 1])
          BY <2>0, <4>2
        <5>2. h[k] = step(h, k)
          BY <3>1, <4>2
        <5> HIDE DEF g
        <5> QED
          BY <5>1, <5>2
      <4> QED
        BY <2>0, <4>1, <4>2
    <3> HIDE DEF g
    <3>5. Joined(n + 1)
      BY <3>3, <3>4
    <3> HIDE DEF Joined
    <3> QED
      BY <2>0, <3>5
  <2> QED
    BY <2>1, <2>2
<1>3. N \in SUBSET Nat
  OBVIOUS
<1> HIDE DEF N
<1>4. L \in N
  BY <1>0, <1>1, <1>2, <1>3, NatClosure
<1>5. PICK h \in [1..L -> Seq(T)] : \A k \in 1..L : h[k] = step(h, k)
  <2>1. Joined(L)
    <3> HIDE DEF Joined
    <3> QED
      BY <1>4, Zenon DEF N
  <2>2. L <= L
    BY <1>0
  <2> HIDE DEF L, step
  <2> QED
    BY <2>1, <2>2
<1> DEFINE flat == CHOOSE o : o = [n \in 1..L |-> step(o, n)]
<1>6. flat = [n \in 1..L |-> step(flat, n)]
  <2>1. h = [n \in 1..L |-> step(h, n)]
    BY <1>5
  <2> HIDE DEF step
  <2> QED
    BY <2>1
<1>7. FlattenSeq(parts) = IF L = 0 THEN parts ELSE flat[L]
  BY Zenon DEF FlattenSeq
<1> HIDE DEF flat
<1> DEFINE M == {n \in Nat : n \in 1..L => flat[n] \in Seq(T)}
<1>8. 0 \in M
  BY <1>0
<1>9. ASSUME NEW n \in M PROVE n + 1 \in M
  <2> SUFFICES ASSUME n + 1 \in 1..L PROVE flat[n + 1] \in Seq(T)
    OBVIOUS
  <2>1. parts[n + 1] \in Seq(T) /\ (n # 0 => flat[n] \in Seq(T))
    BY <1>0
  <2>2. flat[n + 1] = step(flat, n + 1)
    BY <1>6
  <2>3. flat[n + 1] = IF n = 0 THEN parts[n + 1] ELSE flat[n] \o parts[n + 1]
    <3>1. (n + 1 = 1 <=> n = 0) /\ (n + 1) - 1 = n
      OBVIOUS
    <3> QED
      BY <2>2, <3>1
  <2> QED
    BY <2>1, <2>3
<1>10. M \in SUBSET Nat
  OBVIOUS
<1> HIDE DEF M
<1>11. L \in M
  BY <1>0, <1>8, <1>9, <1>10, NatClosure
<1>12. L # 0 => flat[L] \in Seq(T)
  BY <1>0, <1>11 DEF M
<1>13. L = 0 => parts \in Seq(T)
  BY <1>0
<1> QED
  BY <1>7, <1>12, <1>13

LEMMA LabelledHour ==
    ASSUME NEW x, NEW cur
    PROVE  Labelled(SimpleHourlyCost(x, cur), cur)
<1> DEFINE c == Component("HOUR", x, x * HoursPerMonth, cur)
<1>1. c.currency = cur /\ SimpleHourlyCost(x, cur) = <<c>>
  BY KeepsCurrency DEF SimpleHourlyCost
<1> HIDE DEF c
<1> QED
  BY <1>1, LabelledOne

\* The mappers of Alibaba Cloud, of any number of modules.
LEMMA AlibabaLabels ==
    ASSUME NEW r, NEW q, NEW a, NEW cur \in Currencies, a.currency \in {Blank, cur},
           r.type = "alicloud_eip" => \E n \in Nat : DOMAIN a.modules = 1..n
    PROVE  Labelled(AlibabaParse(r, q, a, cur), cur)
<1>0. AlibabaCurrency(a, cur) = cur
  BY Expected DEF AlibabaCurrency, Blank
<1>1. Labelled(<<>>, cur)
  BY DEF Labelled
<1>2. Labelled(AlibabaHourlyParse(q, a, cur), cur)
  BY <1>0, <1>1, LabelledHour, Zenon DEF AlibabaHourlyParse
<1>3. Labelled(AlibabaNATParse(q, a, cur), cur)
  <2> DEFINE c == DailyComponent(CHOOSE p \in AlibabaPrice(a) : TRUE, cur)
  <2>1. AlibabaNATParse(q, a, cur) = IF AlibabaPrice(a) = {} THEN <<>> ELSE <<c>>
    <3> HIDE DEF c
    <3>1. AlibabaNATParse(q, a, cur) = IF AlibabaPrice(a) = {} THEN <<>>
                                       ELSE <<DailyComponent(CHOOSE p \in AlibabaPrice(a) : TRUE, AlibabaCurrency(a, cur))>>
      BY Zenon DEF AlibabaNATParse
    <3> QED
      BY <1>0, <3>1 DEF c
  <2>2. c.currency = cur
    BY KeepsCurrency
  <2> HIDE DEF c
  <2> QED
    BY <1>1, <2>1, <2>2, LabelledOne
<1>4. CASE r.type = "alicloud_eip"
  <2> DEFINE m == a.modules
             day(i) == DailyComponent(ModuleCost(m[i]), cur)
             hour(i) == Component("HOUR", ModuleCost(m[i]), ModuleCost(m[i]) * HoursPerMonth, cur)
             of(i) == CASE m[i].code = "Bandwidth" -> <<day(i)>>
                        [] m[i].code = "ISP" -> <<hour(i)>>
                        [] OTHER -> <<>>
             parts == [i \in DOMAIN m |-> of(i)]
             T == {day(i) : i \in DOMAIN m} \cup {hour(i) : i \in DOMAIN m}
  <2>1. AlibabaEIPParse(q, a, cur) \in {FlattenSeq(parts), AlibabaNATParse(q, a, cur)}
    BY <1>0, Zenon DEF AlibabaEIPParse, SimpleHourlyCost
  <2>2. \A i : day(i).currency = cur /\ hour(i).currency = cur
    BY KeepsCurrency
  <2>3. \A d \in T : d.currency = cur
    BY <2>2
  <2>4. \A i \in DOMAIN m : of(i) \in Seq(T)
    <3> TAKE i \in DOMAIN m
    <3>1. day(i) \in T /\ hour(i) \in T
      OBVIOUS
    <3> HIDE DEF day, hour, T
    <3>2. <<day(i)>> \in Seq(T) /\ <<hour(i)>> \in Seq(T) /\ <<>> \in Seq(T)
      BY <3>1
    <3> QED
      BY <3>2, Zenon
  <2> HIDE DEF of, T
  <2>5. parts \in Seq(Seq(T))
    BY <1>4, <2>4
  <2> HIDE DEF parts
  <2>6. Labelled(FlattenSeq(parts), cur)
    BY <2>3, <2>5, Flattened, LabelledAll
  <2>7. AlibabaParse(r, q, a, cur) = AlibabaEIPParse(q, a, cur)
    BY <1>4, SMT DEF AlibabaParse
  <2> QED
    BY <1>3, <2>1, <2>6, <2>7
<1>5. CASE r.type # "alicloud_eip"
  BY <1>2, <1>3, <1>5 DEF AlibabaParse
<1> QED
  BY <1>4, <1>5

LEMMA HuaweiLabels ==
    ASSUME NEW r, NEW q, NEW a, NEW cur \in Currencies, a.currency \in {Blank, cur}
    PROVE  Labelled(HuaweiParse(r, q, a, cur), cur)
<1>0. HuaweiCurrency(a, cur) = cur
  BY Expected DEF HuaweiCurrency, Blank
<1>1. Labelled(<<>>, cur)
  BY DEF Labelled
<1>2. Labelled(HuaweiHourlyParse(q, a, cur), cur)
  BY <1>0, <1>1, LabelledHour, Zenon DEF HuaweiHourlyParse
<1>3. Labelled(<<Component("GB", 0, 0, cur)>>, cur)
  <2> DEFINE c == Component("GB", 0, 0, cur)
  <2>1. c.currency = cur
    BY KeepsCurrency
  <2> HIDE DEF c
  <2>2. Labelled(<<c>>, cur)
    BY <2>1, LabelledOne
  <2> QED
    BY <2>2 DEF c
<1> QED
  BY <1>0, <1>2, <1>3, Zenon DEF HuaweiParse, HuaweiEIPParse

\* What the mapper of a table makes of documents, as a set of pairs put together.
LEMMA DynamoParts ==
    ASSUME NEW q, NEW docs
    PROVE  AwsDynamoDBParse(q, docs) =
             {reads \o writes :
                 reads \in IF q.params.quantity[1] > 0
                              THEN AwsHourly(docs, "ReadCapacityUnit-Hrs", q.params.quantity[1]) ELSE {<<>>},
                 writes \in IF q.params.quantity[2] > 0
                               THEN AwsHourly(docs, "WriteCapacityUnit-Hrs", q.params.quantity[2]) ELSE {<<>>}}
  BY SMT DEF AwsDynamoDBParse

LEMMA PairPutTogether ==
    ASSUME NEW R, NEW W, NEW comps \in {reads \o writes : reads \in R, writes \in W}
    PROVE  \E reads \in R : \E writes \in W : comps = reads \o writes
  BY SMT

\* The prices of AWS are in dollars on every site.
LEMMA AwsLabels ==
    ASSUME NEW r, NEW q, NEW docs, NEW comps \in AwsParse(r, q, docs)
    PROVE  Labelled(comps, "USD")
<1>1. ASSUME NEW match, NEW count, NEW s \in AwsHourly(docs, match, count)
      PROVE  \E c : s = <<c>> /\ c.currency = "USD"
  <2>1. PICK p \in AwsPrices(docs, match) : s = SimpleHourlyCost(Yuan(p) * OrNumber(count, 1), "USD")
    BY DEF AwsHourly
  <2> QED
    BY <2>1, KeepsCurrency DEF SimpleHourlyCost
<1>2. CASE r.type = "aws_ebs_volume"
  <2>1. comps \in AwsEBSParse(q, docs)
    BY <1>2, SMT DEF AwsParse
  <2>2. PICK p \in AwsPrices(docs, q.params.match) :
           comps = <<Component("GB-MONTH", 0, Yuan(p) * OrNumber(q.params.quantity, 1), "USD")>>
    BY <2>1 DEF AwsEBSParse
  <2> DEFINE c == Component("GB-MONTH", 0, Yuan(p) * OrNumber(q.params.quantity, 1), "USD")
  <2>3. c.currency = "USD"
    BY KeepsCurrency
  <2> HIDE DEF c
  <2>4. Labelled(<<c>>, "USD")
    BY <2>3, LabelledOne
  <2> QED
    BY <2>2, <2>4 DEF c
<1>3. CASE r.type = "aws_dynamodb_table"
  <2> DEFINE R == IF q.params.quantity[1] > 0 THEN AwsHourly(docs, "ReadCapacityUnit-Hrs", q.params.quantity[1]) ELSE {<<>>}
             W == IF q.params.quantity[2] > 0 THEN AwsHourly(docs, "WriteCapacityUnit-Hrs", q.params.quantity[2]) ELSE {<<>>}
  <2>1. comps \in AwsDynamoDBParse(q, docs)
    BY <1>3, SMT DEF AwsParse
  <2>9. comps \in {reads \o writes : reads \in R, writes \in W}
    BY <2>1, DynamoParts
  <2>3. \A s \in R \cup W : s = <<>> \/ \E c : s = <<c>> /\ c.currency = "USD"
    BY <1>1
  <2> HIDE DEF R, W
  <2>10. PICK reads \in R : \E writes \in W : comps = reads \o writes
    BY <2>9, PairPutTogether
  <2>2. PICK writes \in W : comps = reads \o writes
    BY <2>10
  <2>4. PICK c : c.currency = "USD" /\ reads \in {<<>>, <<c>>}
    <3>1. \E c : c.currency = "USD"
      BY KeepsCurrency
    <3> QED
      BY <2>2, <2>3, <3>1
  <2>5. PICK d : d.currency = "USD" /\ writes \in {<<>>, <<d>>}
    BY <2>2, <2>3, <2>4
  <2>6. reads \in Seq({c, d}) /\ writes \in Seq({c, d})
    <3>1. <<c>> \in Seq({c, d}) /\ <<d>> \in Seq({c, d}) /\ <<>> \in Seq({c, d})
      OBVIOUS
    <3> QED
      BY <2>4, <2>5, <3>1
  <2>7. comps \in Seq({c, d})
    BY <2>2, <2>6
  <2> QED
    BY <2>4, <2>5, <2>7, LabelledAll
<1>4. CASE r.type \notin {"aws_ebs_volume", "aws_dynamodb_table"}
  <2>1. comps \in AwsHourly(docs, q.params.match, q.params.quantity)
    BY <1>4 DEF AwsParse, AwsHourlyParse
  <2>2. PICK c : comps = <<c>> /\ c.currency = "USD"
    BY <1>1, <2>1
  <2> QED
    BY <2>2, LabelledOne
<1> QED
  BY <1>2, <1>3, <1>4

\* The modules of a request for an address are a sequence.
LEMMA AddressHasModules ==
    ASSUME NEW r, r.type = "alicloud_eip", NEW q \in Extract(r)
    PROVE  DOMAIN q.params = 1..3
<1>1. q \in AlibabaEIPExtract(r)
  BY SMT DEF Extract, DCDBTypes
<1> DEFINE traffic == Up(Text(r, "internet_charge_type")) = "PAYBYTRAFFIC"
           modules ==
             <<AlibabaModule("Bandwidth", "Day", <<OrNumber(Number(r, "bandwidth"), 5) * 1024>>),
               AlibabaModule("InternetChargeType", "Usage", <<IF traffic THEN 1 ELSE 0>>),
               AlibabaModule("ISP", "Hour", <<"BGP">>)>>
<1>2. AlibabaEIPExtract(r) = AlibabaRequest(TRUE, "eip", r, modules)
  BY SMT DEF AlibabaEIPExtract
<1>3. DOMAIN modules = 1..3
  BY SMT
<1> HIDE DEF modules
<1>4. q.params = modules
  BY <1>1, <1>2 DEF AlibabaRequest, When
<1> QED
  BY <1>3, <1>4

\* Before an answer is read, the mapper would label what it makes of it with
\* the currency of the cloud.
LabelInv ==
    /\ site \in {"domestic", "intl"}
    /\ stage \in {"asked", "answered"} => request \in Extract(plan)
    /\ stage = "answered" =>
          \A comps \in Parse(plan, request, answer, ExpectedCurrencyFor(request.provider)) : Labelled(comps, due.currency)
    /\ stage = "priced" => Labelled(quote, due.currency)

\* The currency of the cloud is the one its mappers are told to expect.
LEMMA DueIsExpected ==
    ASSUME NEW reduced, site \in {"domestic", "intl"}
    PROVE  /\ request.provider = "aws" => Due(reduced).currency = "USD"
           /\ request.provider # "aws" => Due(reduced).currency = ExpectedCurrencyFor(request.provider)
           /\ ExpectedCurrencyFor(request.provider) \in Currencies
<1>1. Due(reduced).currency = IF request.provider = "aws" \/ site = "intl" THEN "USD" ELSE "CNY"
  BY DEF Due
<1> QED
  BY <1>1 DEF ExpectedCurrencyFor, Currencies

LEMMA TencentAnswerLabels == LabelInv /\ AnswerTencent => LabelInv'
<1> SUFFICES ASSUME LabelInv, AnswerTencent PROVE LabelInv'
  OBVIOUS
<1>1. request \in Extract(plan) /\ request.provider = "tencent" /\ site \in {"domestic", "intl"}
  BY DEF LabelInv, AnswerTencent
<1>2. PICK mode \in Understood(request), wrong \in Faults, reduced \in BOOLEAN, wrapped \in BOOLEAN,
           stated \in BOOLEAN :
        /\ answer' = TencentAnswer(request, mode, wrong, reduced, wrapped, stated, Due(reduced).currency)
        /\ Answered(wrong, reduced)
  BY Zenon DEF AnswerTencent
<1>3. /\ stage' = "answered" /\ plan' = plan /\ request' = request /\ site' = site
      /\ due'.currency = Due(reduced).currency
  BY <1>2 DEF Answered
<1> DEFINE cur == Due(reduced).currency
<1>4. cur = ExpectedCurrencyFor(request.provider) /\ cur \in Currencies
  <2>1. "tencent" # "aws"
    OBVIOUS
  <2> QED
    BY <1>1, <2>1, DueIsExpected
<1> HIDE DEF cur
<1>5. SaysOnly(answer', cur)
  BY <1>2, AnswerSays DEF cur
<1>6. plan.type \in TencentTypes
  BY <1>1, WhoIsAsked
<1>7. Labelled(TencentParse(plan, request, answer', cur), cur)
  BY <1>4, <1>5, <1>6, TencentLabels
<1>8. Parse(plan, request, answer', cur) = {TencentParse(plan, request, answer', cur)} \ {<<>>}
  BY <1>1, Zenon DEF Parse
<1>9. \A comps \in Parse(plan, request, answer', ExpectedCurrencyFor(request.provider)) : Labelled(comps, cur)
  BY <1>4, <1>7, <1>8
<1>10. ExpectedCurrencyFor(request.provider)' = ExpectedCurrencyFor(request.provider) /\ due'.currency = cur
  BY <1>3 DEF ExpectedCurrencyFor, cur
<1> QED
  BY <1>1, <1>3, <1>9, <1>10 DEF LabelInv

\* What Alibaba Cloud and Huawei Cloud say of the currency, and the modules
\* of an answer about an address.
LEMMA AlibabaSays ==
    ASSUME NEW r, NEW q \in Extract(r), NEW wrong, NEW reduced, NEW stated, NEW cur
    PROVE  LET a == AlibabaAnswer(q, wrong, reduced, stated, cur) IN
           /\ a.currency \in {Blank, cur}
           /\ r.type = "alicloud_eip" => \E n \in Nat : DOMAIN a.modules = 1..n
<1> DEFINE a == AlibabaAnswer(q, wrong, reduced, stated, cur)
<1>1. a.currency \in {Blank, cur}
  BY DEF AlibabaAnswer, Blank
<1>2. DOMAIN a.modules = {} \/ DOMAIN a.modules = DOMAIN q.params
  BY DEF AlibabaAnswer
<1> HIDE DEF a
<1>3. ASSUME r.type = "alicloud_eip" PROVE \E n \in Nat : DOMAIN a.modules = 1..n
  <2>1. DOMAIN q.params = 1..3
    BY <1>3, AddressHasModules
  <2>2. {} = 1..0 /\ 0 \in Nat /\ 3 \in Nat
    OBVIOUS
  <2> QED
    BY <1>2, <2>1, <2>2
<1> QED
  BY <1>1, <1>3 DEF a

LEMMA HuaweiSays ==
    ASSUME NEW q, NEW wrong, NEW reduced, NEW stated, NEW cur
    PROVE  HuaweiAnswer(q, wrong, reduced, stated, cur).currency \in {Blank, cur}
  BY DEF HuaweiAnswer, Blank

LEMMA BssAnswerLabels == LabelInv /\ AnswerBss => LabelInv'
<1> SUFFICES ASSUME LabelInv, AnswerBss PROVE LabelInv'
  OBVIOUS
<1>1. request \in Extract(plan) /\ request.provider \in {"alibaba", "huawei"} /\ site \in {"domestic", "intl"}
  BY DEF LabelInv, AnswerBss
<1>2. PICK wrong \in Faults, reduced \in BOOLEAN, stated \in BOOLEAN :
        /\ answer' = IF request.provider = "alibaba"
                     THEN AlibabaAnswer(request, wrong, reduced, stated, Due(reduced).currency)
                     ELSE HuaweiAnswer(request, wrong, reduced, stated, Due(reduced).currency)
        /\ Answered(wrong, reduced)
  BY Zenon DEF AnswerBss
<1>3. /\ stage' = "answered" /\ plan' = plan /\ request' = request /\ site' = site
      /\ due'.currency = Due(reduced).currency
  BY <1>2 DEF Answered
<1> DEFINE cur == Due(reduced).currency
<1>4. cur = ExpectedCurrencyFor(request.provider) /\ cur \in Currencies
  <2>1. request.provider # "aws"
    BY <1>1
  <2> QED
    BY <1>1, <2>1, DueIsExpected
<1>5. request.provider = "alibaba" => answer' = AlibabaAnswer(request, wrong, reduced, stated, cur)
  BY <1>2
<1>6. request.provider = "huawei" => answer' = HuaweiAnswer(request, wrong, reduced, stated, cur)
  BY <1>2
<1>7. due'.currency = cur
  BY <1>3
<1> HIDE DEF cur
<1>8. ASSUME request.provider = "alibaba"
      PROVE  \A comps \in Parse(plan, request, answer', cur) : Labelled(comps, cur)
  <2>1. /\ answer'.currency \in {Blank, cur}
        /\ plan.type = "alicloud_eip" => \E n \in Nat : DOMAIN answer'.modules = 1..n
    BY <1>1, <1>5, <1>8, AlibabaSays
  <2>2. Labelled(AlibabaParse(plan, request, answer', cur), cur)
    BY <1>4, <2>1, AlibabaLabels
  <2>3. Parse(plan, request, answer', cur) = {AlibabaParse(plan, request, answer', cur)} \ {<<>>}
    BY <1>8, Zenon DEF Parse
  <2> QED
    BY <2>2, <2>3
<1>9. ASSUME request.provider = "huawei"
      PROVE  \A comps \in Parse(plan, request, answer', cur) : Labelled(comps, cur)
  <2>1. answer'.currency \in {Blank, cur}
    BY <1>6, <1>9, HuaweiSays
  <2>2. Labelled(HuaweiParse(plan, request, answer', cur), cur)
    BY <1>4, <2>1, HuaweiLabels
  <2>3. Parse(plan, request, answer', cur) = {HuaweiParse(plan, request, answer', cur)} \ {<<>>}
    BY <1>9, Zenon DEF Parse
  <2> QED
    BY <2>2, <2>3
<1>10. \A comps \in Parse(plan, request, answer', ExpectedCurrencyFor(request.provider)) : Labelled(comps, cur)
  <2>1. \A comps \in Parse(plan, request, answer', cur) : Labelled(comps, cur)
    BY <1>1, <1>8, <1>9
  <2> QED
    BY <1>4, <2>1
<1>11. ExpectedCurrencyFor(request.provider)' = ExpectedCurrencyFor(request.provider)
  BY <1>3 DEF ExpectedCurrencyFor
<1> QED
  BY <1>1, <1>3, <1>7, <1>10, <1>11 DEF LabelInv

LEMMA AwsAnswerLabels == LabelInv /\ AnswerAws => LabelInv'
<1> SUFFICES ASSUME LabelInv, AnswerAws PROVE LabelInv'
  OBVIOUS
<1>1. request \in Extract(plan) /\ request.provider = "aws" /\ site \in {"domestic", "intl"}
  BY DEF LabelInv, AnswerAws
<1>2. PICK wrong \in Faults \ {"refused"} : \E list \in Permuted(AwsList(request, wrong)) :
        \E ends \in PageEnds(Len(list)) : \E docs \in AwsQuery(list, ends) :
            answer' = docs /\ Answered(IF Len(docs) < Len(list) THEN "cut" ELSE wrong, TRUE)
  BY Zenon DEF AnswerAws
<1>3. PICK list \in Permuted(AwsList(request, wrong)) : \E ends \in PageEnds(Len(list)) :
        \E docs \in AwsQuery(list, ends) :
            answer' = docs /\ Answered(IF Len(docs) < Len(list) THEN "cut" ELSE wrong, TRUE)
  BY <1>2
<1>4. PICK ends \in PageEnds(Len(list)) : \E docs \in AwsQuery(list, ends) :
            answer' = docs /\ Answered(IF Len(docs) < Len(list) THEN "cut" ELSE wrong, TRUE)
  BY <1>3
<1>5. PICK docs \in AwsQuery(list, ends) :
        answer' = docs /\ Answered(IF Len(docs) < Len(list) THEN "cut" ELSE wrong, TRUE)
  BY <1>4
<1>6. /\ stage' = "answered" /\ plan' = plan /\ request' = request /\ site' = site
      /\ due'.currency = Due(TRUE).currency
  BY <1>5 DEF Answered
<1>7. due'.currency = "USD"
  <2>1. Due(TRUE).currency = "USD"
    BY <1>1 DEF Due
  <2> QED
    BY <1>6, <2>1
<1>8. Parse(plan, request, answer', ExpectedCurrencyFor(request.provider)) = AwsParse(plan, request, answer')
  BY <1>1, Zenon DEF Parse
<1>9. \A comps \in AwsParse(plan, request, answer') : Labelled(comps, "USD")
  BY AwsLabels
<1>10. ExpectedCurrencyFor(request.provider)' = ExpectedCurrencyFor(request.provider)
  BY <1>6 DEF ExpectedCurrencyFor
<1> QED
  BY <1>1, <1>6, <1>7, <1>8, <1>9, <1>10 DEF LabelInv

LEMMA OtherStepsLabel == LabelInv /\ (Ask \/ QueryFails \/ Read \/ UNCHANGED vars) => LabelInv'
<1>1. ASSUME LabelInv, Ask PROVE LabelInv'
  <2>1. stage' = "skipped" \/ (stage' = "asked" /\ request' \in Extract(plan))
    BY <1>1 DEF Ask, Skip
  <2>2. plan' = plan /\ site' = site
    BY <1>1 DEF Ask
  <2> QED
    BY <1>1, <2>1, <2>2 DEF LabelInv
<1>2. ASSUME LabelInv, QueryFails PROVE LabelInv'
  <2>1. stage' = "skipped" /\ site' = site
    BY <1>2 DEF QueryFails, Skip
  <2> QED
    BY <1>2, <2>1 DEF LabelInv
<1>3. ASSUME LabelInv, Read PROVE LabelInv'
  <2>1. \/ stage' = "skipped"
        \/ stage' = "priced" /\ quote' \in Parse(plan, request, answer, ExpectedCurrencyFor(request.provider))
    BY <1>3 DEF Read, Skip
  <2>2. stage = "answered" /\ due' = due /\ site' = site
    BY <1>3 DEF Read
  <2> QED
    BY <1>3, <2>1, <2>2 DEF LabelInv
<1>4. ASSUME LabelInv, UNCHANGED vars PROVE LabelInv'
  <2>1. UNCHANGED <<plan, site, stage, request, answer, due, quote>>
    BY <1>4 DEF vars
  <2> QED
    BY <1>4, <2>1 DEF LabelInv, ExpectedCurrencyFor
<1> QED
  BY <1>1, <1>2, <1>3, <1>4

\* Whatever is planned, on either site and for every cloud, each part of a
\* price is labelled with the currency the cloud charges in, whether the
\* answer states a currency or leaves it out: the third conjunct of
\* QuoteIsTrue (ExpectedCurrencyFor, and the fallback of each mapper).
LabelledAsDue == stage = "priced" => \A i \in DOMAIN quote : quote[i].currency = due.currency

\* The steps keep what the answers say of the currency (LabelInv).
THEOREM QuotesAreLabelled == Spec => []LabelledAsDue
<1>1. Init => LabelInv
  BY DEF Init, LabelInv
<1>2. LabelInv /\ [Next]_vars => LabelInv'
  BY TencentAnswerLabels, BssAnswerLabels, AwsAnswerLabels, OtherStepsLabel DEF Next
<1>3. LabelInv => LabelledAsDue
  BY DEF LabelInv, LabelledAsDue, Labelled
<1> QED
  BY <1>1, <1>2, <1>3, PTL DEF Spec

(***************************************************************************)
(* What AWS costs.                                                         *)
(***************************************************************************)

\* The price that the documents of a list have, by the unit.
AwsListPrice(q) ==
    LET twice(condition) == IF condition THEN 2 ELSE 1 IN
    Reduced[IF q.params.match = "EBS:VolumeUsage" THEN "month" ELSE "hour"]
    * twice(<<"deploymentOption", "Multi-AZ">> \in q.params.filters)
    * twice(<<"location", "us-east-1">> \notin q.params.filters)

LEMMA AwsListPriceIs ==
    ASSUME NEW q
    PROVE  AwsListPrice(q) \in Int /\ AwsListPrice(q) > 0
<1> DEFINE twice(condition) == IF condition THEN 2 ELSE 1
           unit == Reduced[IF q.params.match = "EBS:VolumeUsage" THEN "month" ELSE "hour"]
           x == twice(<<"deploymentOption", "Multi-AZ">> \in q.params.filters)
           y == twice(<<"location", "us-east-1">> \notin q.params.filters)
<1>1. unit \in {2, 6}
  BY DEF Reduced
<1>2. x \in {1, 2} /\ y \in {1, 2}
  OBVIOUS
<1>3. AwsListPrice(q) = unit * x * y
  BY Zenon DEF AwsListPrice
<1> HIDE DEF unit, x, y
<1>4. unit * x \in {2, 4, 6, 12}
  BY <1>1, <1>2
<1>5. unit * x * y \in {2, 4, 6, 8, 12, 24}
  BY <1>2, <1>4
<1> QED
  BY <1>3, <1>5

\* A document with this price or without one, or one that no usage finds.
Costing(document, usages, price) ==
    \/ document.prices \subseteq {0, price}
    \/ document.usage = {} /\ Blank \notin usages

\* A document that the usage finds, with the price.
Finds(document, match, price) == match \in document.usage /\ document.prices = {price}

\* Whatever else is in the list, what a usage finds in it has the one price,
\* and a list without a fault has it for each usage.
LEMMA AwsListCosts ==
    ASSUME NEW q, NEW wrong \in {"none", "empty", "zero"}
    PROVE  \E S : /\ AwsList(q, wrong) \in Seq(S)
                  /\ \A d \in S : Costing(d, Usages(q), AwsListPrice(q))
                  /\ wrong = "none" =>
                        \A match \in Usages(q) : \E k \in DOMAIN AwsList(q, wrong) :
                            Finds(AwsList(q, wrong)[k], match, AwsListPrice(q))
<1>1. CASE wrong = "empty"
  <2>1. AwsList(q, wrong) = <<>>
    BY <1>1 DEF AwsList
  <2>2. AwsList(q, wrong) \in Seq({})
    BY <2>1
  <2> QED
    BY <1>1, <2>2
<1>2. CASE wrong \in {"none", "zero"}
  <2> DEFINE twice(condition) == IF condition THEN 2 ELSE 1
             price == Reduced[IF q.params.match = "EBS:VolumeUsage" THEN "month" ELSE "hour"]
                      * twice(<<"deploymentOption", "Multi-AZ">> \in q.params.filters)
                      * twice(<<"location", "us-east-1">> \notin q.params.filters)
             document(usage, amount) == [usage |-> {usage}, prices |-> {amount}]
             wanted == IF q.product = "AmazonDynamoDB" THEN <<"ReadCapacityUnit-Hrs", "WriteCapacityUnit-Hrs">>
                       ELSE <<q.params.match>>
             priced == [i \in DOMAIN wanted |-> document(wanted[i], IF wrong = "zero" THEN 0 ELSE price)]
             free == document(wanted[1], 0)
             other == [usage |-> {}, prices |-> {5}]
             first == IF wanted = <<"">> THEN <<free>> ELSE <<other, free>>
             F == {document(wanted[i], 0) : i \in DOMAIN wanted} \cup {document(wanted[i], price) : i \in DOMAIN wanted}
  <2>1. AwsList(q, wrong) = IF wanted = <<"">> THEN <<free>> \o priced ELSE <<other, free>> \o priced
    <3>1. wrong # "empty"
      BY <1>2
    <3> QED
      BY <3>1, Zenon DEF AwsList
  <2>2. DOMAIN wanted = 1..Len(wanted) /\ Len(wanted) \in {1, 2} /\ 1 \in DOMAIN wanted
        /\ \A match \in Usages(q) : \E i \in DOMAIN wanted : wanted[i] = match
    <3>1. CASE q.product = "AmazonDynamoDB"
      <4>1. wanted = <<"ReadCapacityUnit-Hrs", "WriteCapacityUnit-Hrs">>
        BY <3>1
      <4>2. Usages(q) = {"ReadCapacityUnit-Hrs", "WriteCapacityUnit-Hrs"}
        BY <3>1 DEF Usages
      <4> HIDE DEF wanted
      <4> QED
        BY <4>1, <4>2
    <3>2. CASE q.product # "AmazonDynamoDB"
      <4>1. wanted = <<q.params.match>>
        BY <3>2
      <4>2. Usages(q) = {q.params.match}
        BY <3>2 DEF Usages
      <4> HIDE DEF wanted
      <4> QED
        BY <4>1, <4>2
    <3> QED
      BY <3>1, <3>2
  <2>3. \A d \in F : d.prices = {0} \/ d.prices = {price}
    OBVIOUS
  <2>4. wanted # <<"">> => Blank \notin Usages(q)
    BY DEF Usages, Blank
  <2>5. price = AwsListPrice(q)
    BY Zenon DEF AwsListPrice
  <2>6. wrong = "none" => priced = [i \in DOMAIN wanted |-> document(wanted[i], price)]
    OBVIOUS
  <2>7. priced \in [1..Len(wanted) -> F] /\ free \in F
    <3>1. DOMAIN priced = 1..Len(wanted)
      BY <2>2
    <3>2. \A i \in DOMAIN wanted : priced[i] \in F
      OBVIOUS
    <3>3. free \in F
      BY <2>2
    <3> HIDE DEF F, free, priced
    <3> QED
      <4>1. priced = [i \in DOMAIN wanted |-> priced[i]]
        BY DEF priced
      <4> QED
        BY <2>2, <3>2, <3>3, <4>1
  <2>8. \A i \in DOMAIN wanted : wrong = "none" => Finds(priced[i], wanted[i], price)
    BY DEF Finds
  <2>9. other.usage = {}
    OBVIOUS
  <2>10. AwsList(q, wrong) = first \o priced
    BY <2>1, Zenon
  <2> DEFINE S == IF wanted = <<"">> THEN F ELSE F \cup {other}
  <2>11. \A d \in S : Costing(d, Usages(q), price)
    <3> HIDE DEF F, other, wanted, price
    <3>1. \A d \in F : Costing(d, Usages(q), price)
      BY <2>3 DEF Costing
    <3>2. wanted # <<"">> => Costing(other, Usages(q), price)
      BY <2>4, <2>9 DEF Costing
    <3> QED
      BY <3>1, <3>2, Zenon
  <2>12. first \in Seq(S) /\ priced \in Seq(S) /\ Len(priced) = Len(wanted)
    <3> HIDE DEF F, free, priced, other, wanted
    <3>1. priced \in Seq(F) /\ Len(priced) = Len(wanted)
      BY <2>2, <2>7
    <3>2. CASE wanted = <<"">>
      <4>1. first = <<free>> /\ S = F
        BY <3>2
      <4> HIDE DEF S, first
      <4> QED
        BY <2>7, <3>1, <4>1
    <3>3. CASE wanted # <<"">>
      <4>1. first = <<other, free>> /\ S = F \cup {other}
        BY <3>3
      <4> HIDE DEF S, first
      <4> QED
        BY <2>7, <3>1, <4>1
    <3> QED
      BY <3>2, <3>3
  <2> HIDE DEF F, free, priced, other, wanted, price, first, S
  <2>13. AwsList(q, wrong) \in Seq(S)
    BY <2>10, <2>12, ConcatProperties
  <2>14. ASSUME wrong = "none", NEW match \in Usages(q)
         PROVE  \E k \in DOMAIN AwsList(q, wrong) : Finds(AwsList(q, wrong)[k], match, price)
    <3>1. PICK i \in DOMAIN wanted : wanted[i] = match
      BY <2>2
    <3>2. Finds(priced[i], match, price)
      BY <2>8, <2>14, <3>1
    <3>3. i \in 1..Len(priced)
      BY <2>2, <2>12, <3>1
    <3>4. Len(first) + i \in DOMAIN (first \o priced) /\ (first \o priced)[Len(first) + i] = priced[i]
      BY <2>12, <3>3
    <3> QED
      BY <2>10, <3>2, <3>4
  <2> QED
    BY <2>5, <2>11, <2>13, <2>14
<1> QED
  BY <1>1, <1>2

\* Turning a list around and gathering all of it lose no document.
LEMMA AllIsGathered ==
    ASSUME NEW S, NEW s \in Seq(S), NEW list \in Permuted(s), NEW ends \in PageEnds(Len(list)),
           NEW docs \in AwsQuery(list, ends), Len(docs) >= Len(list)
    PROVE  \A k \in DOMAIN s : \E i \in DOMAIN docs : docs[i] = s[k]
<1>1. list \in Seq(S) /\ \A k \in DOMAIN s : \E i \in DOMAIN list : list[i] = s[k]
  <2>1. Reverse(s) = [i \in 1..Len(s) |-> s[(Len(s) - i) + 1]]
    BY DEF Reverse
  <2>2. Reverse(s) \in Seq(S)
    BY <2>1
  <2>3. \A k \in DOMAIN s : Len(s) - k + 1 \in DOMAIN Reverse(s) /\ Reverse(s)[Len(s) - k + 1] = s[k]
    BY <2>1
  <2> QED
    BY <2>2, <2>3 DEF Permuted
<1>2. CASE docs = list
  BY <1>1, <1>2
<1>3. CASE docs # list
  <2>1. ends[Len(ends)] = Len(list)
    <3>1. CASE \E k : ends = <<k, Len(list)>>
      BY <3>1
    <3>2. CASE ends = <<Len(list)>>
      BY <3>2
    <3> QED
      BY <3>1, <3>2 DEF PageEnds
  <2>2. docs = SubSeq(list, 1, MaxResults) /\ ends[Len(ends)] >= MaxResults
    BY <1>3 DEF AwsQuery, When
  <2>3. MaxResults \in 1..Len(list)
    BY <1>1, <2>1, <2>2, MaxResultsIsPositive
  <2>4. Len(docs) = MaxResults
    BY <1>1, <2>2, <2>3
  <2>5. MaxResults = Len(list)
    BY <1>1, <2>3, <2>4
  <2>6. docs = list
    BY <1>1, <2>2, <2>3, <2>5
  <2> QED
    BY <1>3, <2>6
<1> QED
  BY <1>2, <1>3

\* What is found in documents whose prices are one and 0, wherever they are.
LEMMA OnePriceIsFound ==
    ASSUME NEW S, NEW docs \in Seq(S), NEW usages, NEW price \in Int,
           \A i \in DOMAIN docs : Costing(docs[i], usages, price), NEW match \in usages
    PROVE  AwsPrices(docs, match) \subseteq {price}
<1> DEFINE priced == {i \in Matching(docs, match) : \E p \in docs[i].prices : p > 0}
           first == CHOOSE i \in priced : \A j \in priced : i <= j
<1>1. AwsPrices(docs, match) = IF priced = {} THEN {} ELSE {p \in docs[first].prices : p > 0}
  BY Zenon DEF AwsPrices
<1>2. priced \in SUBSET Nat
  <2>1. priced \subseteq DOMAIN docs
    BY Zenon DEF Matching
  <2> QED
    BY <2>1
<1>3. \A i \in priced : docs[i].prices \subseteq {0, price}
  BY DEF Matching, Costing, Blank
<1> HIDE DEF priced
<1>4. CASE priced = {}
  BY <1>1, <1>4
<1>5. CASE priced # {}
  <2>1. \E i \in priced : \A j \in priced : i <= j
    BY <1>2, <1>5, NatMinimum
  <2>2. first \in priced
    BY <2>1
  <2> HIDE DEF first
  <2>3. docs[first].prices \subseteq {0, price}
    BY <1>3, <2>2
  <2> QED
    BY <1>1, <1>5, <2>3
<1> QED
  BY <1>4, <1>5

LEMMA OnePriceIsThere ==
    ASSUME NEW S, NEW docs \in Seq(S), NEW usages, NEW price \in Int, price > 0,
           \A i \in DOMAIN docs : Costing(docs[i], usages, price), NEW match \in usages,
           \E i \in DOMAIN docs : Finds(docs[i], match, price)
    PROVE  AwsPrices(docs, match) = {price}
<1> DEFINE priced == {i \in Matching(docs, match) : \E p \in docs[i].prices : p > 0}
           first == CHOOSE i \in priced : \A j \in priced : i <= j
<1>1. AwsPrices(docs, match) = IF priced = {} THEN {} ELSE {p \in docs[first].prices : p > 0}
  BY Zenon DEF AwsPrices
<1>2. priced \in SUBSET Nat
  <2>1. priced \subseteq DOMAIN docs
    BY Zenon DEF Matching
  <2> QED
    BY <2>1
<1>3. priced # {}
  <2>1. PICK i \in DOMAIN docs : match \in docs[i].usage /\ docs[i].prices = {price}
    BY DEF Finds
  <2>2. i \in Matching(docs, match)
    BY <2>1, Zenon DEF Matching
  <2>3. \E p \in docs[i].prices : p > 0
    BY <2>1
  <2> QED
    BY <2>2, <2>3
<1>4. \A i \in priced : \E p \in docs[i].prices : p > 0
  OBVIOUS
<1> HIDE DEF priced
<1>5. first \in priced
  <2>1. \E i \in priced : \A j \in priced : i <= j
    BY <1>2, <1>3, NatMinimum
  <2> QED
    BY <2>1
<1> HIDE DEF first
<1>6. AwsPrices(docs, match) # {}
  BY <1>1, <1>3, <1>4, <1>5
<1> QED
  BY <1>6, OnePriceIsFound

LEMMA PairIsThere ==
    ASSUME NEW R, NEW W, NEW x \in R, NEW y \in W
    PROVE  x \o y \in {reads \o writes : reads \in R, writes \in W}
  BY SMT

\* What a resource of AWS costs at the price of the list.
AwsCost(r, q) ==
    LET price == Yuan(AwsListPrice(q))
        units == q.params.quantity
        of(count) == IF count > 0 THEN SimpleHourlyCost(price * OrNumber(count, 1), "USD") ELSE <<>>
    IN  IF r.type = "aws_ebs_volume" THEN <<Component("GB-MONTH", 0, price * OrNumber(units, 1), "USD")>>
        ELSE IF r.type = "aws_dynamodb_table" THEN of(units[1]) \o of(units[2])
        ELSE SimpleHourlyCost(price * OrNumber(units, 1), "USD")

\* What the mappers make of documents with the price, or without one.
LEMMA AwsCosts ==
    ASSUME NEW r, NEW q \in Extract(r), q.provider = "aws", NEW docs,
           \A match \in Usages(q) : AwsPrices(docs, match) \subseteq {AwsListPrice(q)}
    PROVE  /\ AwsParse(r, q, docs) \subseteq {AwsCost(r, q)}
           /\ (\A match \in Usages(q) : AwsPrices(docs, match) # {}) => AwsParse(r, q, docs) # {}
<1> DEFINE price == AwsListPrice(q)
           hourly(count) == SimpleHourlyCost(Yuan(price) * OrNumber(count, 1), "USD")
<1>1. ASSUME NEW match \in Usages(q), NEW count
      PROVE  /\ AwsHourly(docs, match, count) \subseteq {hourly(count)}
             /\ AwsPrices(docs, match) # {} => AwsHourly(docs, match, count) # {}
  <2>1. \A p \in AwsPrices(docs, match) : p = price
    OBVIOUS
  <2>2. AwsHourly(docs, match, count) =
           {SimpleHourlyCost(Yuan(p) * OrNumber(count, 1), "USD") : p \in AwsPrices(docs, match)}
    BY Zenon DEF AwsHourly
  <2> QED
    BY <2>1, <2>2, Zenon
<1>2. CASE r.type = "aws_ebs_volume"
  <2>1. AwsParse(r, q, docs) = AwsEBSParse(q, docs)
    BY <1>2, SMT DEF AwsParse
  <2>2. q.params.match \in Usages(q)
    BY <1>2, WhoIsAsked DEF Usages
  <2>3. AwsEBSParse(q, docs) = {<<Component("GB-MONTH", 0, Yuan(p) * OrNumber(q.params.quantity, 1), "USD")>> :
                                  p \in AwsPrices(docs, q.params.match)}
    BY Zenon DEF AwsEBSParse
  <2>4. AwsCost(r, q) = <<Component("GB-MONTH", 0, Yuan(price) * OrNumber(q.params.quantity, 1), "USD")>>
    BY <1>2, Zenon DEF AwsCost
  <2>5. \A p \in AwsPrices(docs, q.params.match) : p = price
    BY <2>2
  <2> HIDE DEF price
  <2>6. AwsParse(r, q, docs) \subseteq {AwsCost(r, q)}
    BY <2>1, <2>3, <2>4, <2>5
  <2>7. AwsPrices(docs, q.params.match) # {} => AwsParse(r, q, docs) # {}
    BY <2>1, <2>3
  <2> QED
    BY <2>2, <2>6, <2>7
<1>3. CASE r.type = "aws_dynamodb_table"
  <2> DEFINE reading == "ReadCapacityUnit-Hrs"
             writing == "WriteCapacityUnit-Hrs"
             n == q.params.quantity
             R == IF n[1] > 0 THEN AwsHourly(docs, reading, n[1]) ELSE {<<>>}
             W == IF n[2] > 0 THEN AwsHourly(docs, writing, n[2]) ELSE {<<>>}
             read == IF n[1] > 0 THEN hourly(n[1]) ELSE <<>>
             write == IF n[2] > 0 THEN hourly(n[2]) ELSE <<>>
             pairs == {reads \o writes : reads \in R, writes \in W}
  <2>1. AwsParse(r, q, docs) = pairs
    <3>1. AwsParse(r, q, docs) = AwsDynamoDBParse(q, docs)
      BY <1>3, SMT DEF AwsParse
    <3> QED
      BY <3>1, DynamoParts
  <2>2. reading \in Usages(q) /\ writing \in Usages(q)
    BY <1>3, WhoIsAsked DEF Usages
  <2>3. AwsCost(r, q) = read \o write
    BY <1>3, Zenon DEF AwsCost
  <2> HIDE DEF hourly
  <2>4. R \subseteq {read} /\ W \subseteq {write}
    BY <1>1, <2>2
  <2>5. (\A match \in Usages(q) : AwsPrices(docs, match) # {}) => R # {} /\ W # {}
    BY <1>1, <2>2
  <2> HIDE DEF R, W, read, write
  <2>6. \A comps \in pairs : comps = read \o write
    <3> TAKE comps \in pairs
    <3>1. PICK reads \in R : \E writes \in W : comps = reads \o writes
      BY PairPutTogether
    <3>2. PICK writes \in W : comps = reads \o writes
      BY <3>1
    <3>3. reads = read /\ writes = write
      BY <2>4
    <3> QED
      BY <3>2, <3>3
  <2>7. ASSUME R # {}, W # {} PROVE pairs # {}
    <3>1. PICK x \in R : TRUE
      BY <2>7
    <3>2. PICK y \in W : TRUE
      BY <2>7
    <3>3. x \o y \in pairs
      BY PairIsThere
    <3> HIDE DEF pairs
    <3> QED
      BY <3>3
  <2> HIDE DEF pairs
  <2> QED
    BY <2>1, <2>3, <2>5, <2>6, <2>7
<1>4. CASE r.type \notin {"aws_ebs_volume", "aws_dynamodb_table"}
  <2>1. AwsParse(r, q, docs) = AwsHourly(docs, q.params.match, q.params.quantity)
    BY <1>4 DEF AwsParse, AwsHourlyParse
  <2>2. q.params.match \in Usages(q)
    BY <1>4, WhoIsAsked DEF Usages
  <2>3. AwsCost(r, q) = hourly(q.params.quantity)
    BY <1>4, Zenon DEF AwsCost
  <2> HIDE DEF hourly
  <2> QED
    BY <1>1, <2>1, <2>2, <2>3
<1> QED
  BY <1>2, <1>3, <1>4

\* What a price of AWS is made of: the price of the documents the mapper looks
\* for, whatever else is in the list, however it is sorted and cut into pages,
\* and even when the query stops at MaxResults; and a list that was gathered
\* whole is not refused (awsBackend.query, parseAWSPriceListMatching).
PricedAsListed ==
    request.provider = "aws" =>
        /\ stage = "priced" => quote = AwsCost(plan, request)
        /\ stage = "answered" /\ fault = "none" =>
              Parse(plan, request, answer, ExpectedCurrencyFor("aws")) # {}

\* Before the documents are read, they hold this price and no other.
ListedInv ==
    /\ stage \in {"asked", "answered"} => request \in Extract(plan)
    /\ stage = "answered" /\ request.provider = "aws" =>
           /\ AwsParse(plan, request, answer) \subseteq {AwsCost(plan, request)}
           /\ fault = "none" => AwsParse(plan, request, answer) # {}
    /\ stage = "priced" /\ request.provider = "aws" => quote = AwsCost(plan, request)

LEMMA AwsAnswerLists == ListedInv /\ AnswerAws => ListedInv'
<1> SUFFICES ASSUME ListedInv, AnswerAws PROVE ListedInv'
  OBVIOUS
<1>1. request \in Extract(plan) /\ request.provider = "aws"
  BY DEF ListedInv, AnswerAws
<1>2. PICK wrong \in Faults \ {"refused"} : \E list \in Permuted(AwsList(request, wrong)) :
        \E ends \in PageEnds(Len(list)) : \E docs \in AwsQuery(list, ends) :
            answer' = docs /\ Answered(IF Len(docs) < Len(list) THEN "cut" ELSE wrong, TRUE)
  BY Zenon DEF AnswerAws
<1>3. PICK list \in Permuted(AwsList(request, wrong)) : \E ends \in PageEnds(Len(list)) :
        \E docs \in AwsQuery(list, ends) :
            answer' = docs /\ Answered(IF Len(docs) < Len(list) THEN "cut" ELSE wrong, TRUE)
  BY <1>2
<1>4. PICK ends \in PageEnds(Len(list)) : \E docs \in AwsQuery(list, ends) :
            answer' = docs /\ Answered(IF Len(docs) < Len(list) THEN "cut" ELSE wrong, TRUE)
  BY <1>3
<1>5. PICK docs \in AwsQuery(list, ends) :
        answer' = docs /\ Answered(IF Len(docs) < Len(list) THEN "cut" ELSE wrong, TRUE)
  BY <1>4
<1>6. /\ stage' = "answered" /\ plan' = plan /\ request' = request
      /\ fault' = IF Len(docs) < Len(list) THEN "cut" ELSE wrong
  BY <1>5 DEF Answered
<1> DEFINE price == AwsListPrice(request)
           all == AwsList(request, wrong)
<1>7. wrong \in {"none", "empty", "zero"}
  BY DEF Faults
<1>8. price \in Int /\ price > 0
  BY AwsListPriceIs
<1>9. PICK S : /\ all \in Seq(S)
               /\ \A d \in S : Costing(d, Usages(request), price)
               /\ wrong = "none" =>
                     \A match \in Usages(request) : \E k \in DOMAIN all : Finds(all[k], match, price)
  BY <1>7, AwsListCosts
<1>10. list \in Permuted(all)
  BY <1>3
<1> HIDE DEF price, all
<1>11. docs \in Seq(S)
  BY <1>9, <1>10, GatheredFromList
<1>12. list \in Seq(S)
  <2>1. Reverse(all) = [i \in 1..Len(all) |-> all[(Len(all) - i) + 1]]
    BY DEF Reverse
  <2>2. Reverse(all) \in Seq(S)
    BY <1>9, <2>1
  <2> QED
    BY <1>9, <1>10, <2>2 DEF Permuted
<1>13. \A i \in DOMAIN docs : Costing(docs[i], Usages(request), price)
  BY <1>9, <1>11
<1>14. \A match \in Usages(request) : AwsPrices(docs, match) \subseteq {price}
  BY <1>8, <1>11, <1>13, OnePriceIsFound
<1>15. ASSUME fault' = "none", NEW match \in Usages(request) PROVE AwsPrices(docs, match) # {}
  <2>1. wrong = "none" /\ ~(Len(docs) < Len(list))
    BY <1>6, <1>7, <1>15
  <2>2. Len(docs) >= Len(list)
    BY <1>11, <1>12, <2>1
  <2>3. PICK k \in DOMAIN all : Finds(all[k], match, price)
    BY <1>9, <1>15, <2>1
  <2>4. PICK i \in DOMAIN docs : docs[i] = all[k]
    BY <1>9, <1>10, <2>2, AllIsGathered
  <2>5. \E i2 \in DOMAIN docs : Finds(docs[i2], match, price)
    BY <2>3, <2>4
  <2>6. AwsPrices(docs, match) = {price}
    BY <1>8, <1>11, <1>13, <1>15, <2>5, OnePriceIsThere
  <2> QED
    BY <2>6
<1>16. AwsParse(plan, request, docs) \subseteq {AwsCost(plan, request)}
  BY <1>1, <1>14, AwsCosts DEF price
<1>17. fault' = "none" => AwsParse(plan, request, docs) # {}
  BY <1>1, <1>14, <1>15, AwsCosts DEF price
<1> QED
  BY <1>1, <1>5, <1>6, <1>16, <1>17 DEF ListedInv

LEMMA OtherStepsList == ListedInv /\ (Ask \/ QueryFails \/ AnswerTencent \/ AnswerBss \/ Read \/ UNCHANGED vars) => ListedInv'
<1>1. ASSUME ListedInv, Ask PROVE ListedInv'
  <2>1. stage' = "skipped" \/ (stage' = "asked" /\ request' \in Extract(plan))
    BY <1>1 DEF Ask, Skip
  <2>2. plan' = plan
    BY <1>1 DEF Ask
  <2> QED
    BY <2>1, <2>2 DEF ListedInv
<1>2. ASSUME ListedInv, QueryFails PROVE ListedInv'
  <2>1. stage' = "skipped"
    BY <1>2 DEF QueryFails, Skip
  <2> QED
    BY <2>1 DEF ListedInv
<1>3. ASSUME ListedInv, AnswerTencent \/ AnswerBss PROVE ListedInv'
  <2>1. stage' = "answered" /\ plan' = plan /\ request' = request /\ stage = "asked"
    BY <1>3 DEF AnswerTencent, AnswerBss, Answered
  <2>2. request.provider # "aws"
    BY <1>3 DEF AnswerTencent, AnswerBss
  <2> QED
    BY <1>3, <2>1, <2>2 DEF ListedInv
<1>4. ASSUME ListedInv, Read PROVE ListedInv'
  <2>1. \/ stage' = "skipped"
        \/ stage' = "priced" /\ quote' \in Parse(plan, request, answer, ExpectedCurrencyFor(request.provider))
    BY <1>4 DEF Read, Skip
  <2>2. stage = "answered" /\ plan' = plan /\ request' = request
    BY <1>4 DEF Read
  <2>3. request.provider = "aws" =>
            Parse(plan, request, answer, ExpectedCurrencyFor(request.provider)) = AwsParse(plan, request, answer)
    BY Zenon DEF Parse
  <2> QED
    BY <1>4, <2>1, <2>2, <2>3 DEF ListedInv
<1>5. ASSUME ListedInv, UNCHANGED vars PROVE ListedInv'
  <2>1. UNCHANGED <<plan, stage, request, answer, fault, quote>>
    BY <1>5 DEF vars
  <2> QED
    BY <1>5, <2>1 DEF ListedInv
<1> QED
  BY <1>1, <1>2, <1>3, <1>4, <1>5

\* The steps keep what the gathered documents hold (ListedInv).
THEOREM AwsIsPricedAsListed == Spec => []PricedAsListed
<1>1. Init => ListedInv
  BY DEF Init, ListedInv
<1>2. ListedInv /\ [Next]_vars => ListedInv'
  BY AwsAnswerLists, OtherStepsList DEF Next
<1>3. ListedInv => PricedAsListed
  <2>1. request.provider = "aws" =>
            Parse(plan, request, answer, ExpectedCurrencyFor("aws")) = AwsParse(plan, request, answer)
    BY Zenon DEF Parse
  <2> QED
    BY <2>1 DEF ListedInv, PricedAsListed
<1> QED
  BY <1>1, <1>2, <1>3, PTL DEF Spec
=============================================================================
