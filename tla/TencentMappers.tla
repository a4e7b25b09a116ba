--------------------------- MODULE TencentMappers ---------------------------
(***************************************************************************)
(* The mappers of Tencent Cloud (resources/<product>.go): what Extract     *)
(* asks for a planned resource, and what Parse makes of the answer.        *)
(*                                                                         *)
(* XExtract(r) is the set of the request, {} when the resource lacks an    *)
(* attribute; a request keeps the parameters that are required, that count *)
(* units or that say how the resource is paid.  XParse(q, answer, cur) is  *)
(* the sequence of components, <<>> when the answer is refused; cur is the *)
(* currency that is expected.                                              *)
(***************************************************************************)
EXTENDS PriceForms

\* The request of a mapper, if it has what it requires.
Request(required, product, action, r, params) ==
    When(required, {[provider |-> "tencent", product |-> product, action |-> action,
                     region |-> r.region, params |-> params]})

\* How long a prepaid request is for; 0 when it does not say.
OneMonthIf(prepaid) == IF prepaid THEN 1 ELSE 0

UnitPrices == {"UnitPrice", "UnitPriceDiscount", "DiscountPrice"}
AllPrices == UnitPrices \cup {"OriginalPrice"}
Rate(p) == PreferDiscount(Amount(p, "UnitPriceDiscount"), Amount(p, "UnitPrice"))

-----------------------------------------------------------------------------
(* Virtual machines and disks. *)

CVMExtract(r) ==
    LET mode == OrText(Text(r, "instance_charge_type"), "POSTPAID_BY_HOUR") IN
    Request(\A a \in {"instance_type", "image_id", "availability_zone"} : Text(r, a) # "",
        "cvm", "InquiryPriceRunInstances", r,
        [InstanceType |-> Text(r, "instance_type"), Zone |-> Text(r, "availability_zone"),
         InstanceChargeType |-> mode, InstanceCount |-> 1, Period |-> OneMonthIf(mode = "PREPAID")])

CVMParse(q, answer, cur) ==
    LET block == IF Shows(Part(answer.wrapped, "InstancePrice"), UnitPrices)
                 THEN answer.wrapped ELSE answer.top
        machine == Part(block, "InstancePrice")
        line == Part(block, "BandwidthPrice")
        currency == OrText(Word(machine, "Currency"), TencentCurrency(cur))
    IN  Paid(answer,
            <<FromPrice(Unit(machine), Yuan(Rate(machine)), Yuan(Amount(machine, "DiscountPrice")), currency)>>
            \o IF Shows(line, {"UnitPrice", "UnitPriceDiscount"})
               THEN <<FromPrice(Unit(line), Yuan(Rate(line)), Yuan(Rate(line)), currency)>> ELSE <<>>)

CBSExtract(r) ==
    LET size == EitherNumber(r, "storage_size", "disk_size")
        kind == OrText(Text(r, "storage_type"), Text(r, "disk_type"))
        mode == OrText(Text(r, "charge_type"), "POSTPAID_BY_HOUR")
    IN  Request(kind # "" /\ size # 0 /\ Text(r, "availability_zone") # "",
            "cbs", "InquiryPriceCreateDisks", r,
            [DiskType |-> kind, DiskSize |-> size, DiskChargeType |-> mode,
             DiskCount |-> 1, Period |-> OneMonthIf(mode = "PREPAID")])

CBSParse(q, answer, cur) ==
    LET p == Choose(answer, "DiskPrice", UnitPrices) IN
    Paid(answer, <<FromPrice(Unit(p), Yuan(Rate(p)), Yuan(Amount(p, "DiscountPrice")),
                             OrText(Word(p, "Currency"), TencentCurrency(cur)))>>)

LighthouseExtract(r) ==
    Request(Trim(Text(r, "bundle_id")) # "", "lighthouse", "InquirePriceCreateInstances", r,
        [BundleId |-> Text(r, "bundle_id"), Period |-> 1,
         InstanceCount |-> OrNumber(Number(r, "instance_count"), 1)])

Discounted(p) == PreferDiscount(Amount(p, "DiscountPrice"), Amount(p, "OriginalPrice"))
Prices == {"OriginalPrice", "DiscountPrice"}

LighthouseParse(q, answer, cur) ==
    Paid(answer, <<Component("MONTH", 0, Yuan(Discounted(Choose(answer, "InstancePrice", Prices))),
                             TencentCurrency(cur))>>)

ECMExtract(r) ==
    Request(Trim(Text(r, "instance_type")) # "", "ecm", "DescribePriceRunInstance", r,
        [InstanceType |-> Text(r, "instance_type"), InstanceChargeType |-> "1",
         InstanceCount |-> OrNumber(Number(r, "instance_count"), 1)])

ECMParse(q, answer, cur) ==
    Paid(answer, SimpleHourlyCost(Discounted(Choose(answer, "InstancePrice", Prices)), TencentCurrency(cur)))

-----------------------------------------------------------------------------
(* Networks. *)

CLBExtract(r) ==
    Request(TRUE, "clb", "InquiryPriceCreateLoadBalancer", r,
        [LoadBalancerType |-> OrText(Text(r, "network_type"), "OPEN"), GoodsNum |-> 1,
         LoadBalancerChargeType |-> OrText(Text(r, "load_balancer_charge_type"), "POSTPAID"),
         InternetChargeType |->
            IF Number(r, "internet_max_bandwidth_out") > 0
            THEN OrText(Text(r, "internet_charge_type"), "TRAFFIC_POSTPAID_BY_HOUR") ELSE ""])

CLBParts == <<"InstancePrice", "BandwidthPrice", "LcuPrice">>

\* By traffic only the rate is known, and costs nothing.
CLBComponent(p, currency) ==
    IF Up(Unit(p)) = "GB" THEN Component("GB", 0, 0, currency)
    ELSE FromPrice(Unit(p), Yuan(Rate(p)), Yuan(Amount(p, "DiscountPrice")), currency)

CLBParse(q, answer, cur) ==
    LET block == IF \E i \in 1..3 : Shows(Part(answer.wrapped, CLBParts[i]), AllPrices)
                 THEN answer.wrapped ELSE answer.top
        of(i) == IF i = 1 \/ Shows(Part(block, CLBParts[i]), AllPrices)
                 THEN <<CLBComponent(Part(block, CLBParts[i]), TencentCurrency(cur))>> ELSE <<>>
    IN  Paid(answer, of(1) \o of(2) \o of(3))

EIPExtract(r) ==
    LET mode == OrText(Trim(Text(r, "internet_charge_type")), "TRAFFIC_POSTPAID_BY_HOUR") IN
    Request(TRUE, "vpc", "InquiryPriceAllocateAddresses", r,
        [InternetChargeType |-> mode, Period |-> OneMonthIf(Up(mode) \in WithPrepaid),
         InternetMaxBandwidthOut |-> OrNumber(Number(r, "internet_max_bandwidth_out"), 1)])

EIPParse(q, answer, cur) ==
    LET p == Choose(answer, "AddressPrice", {"UnitPrice", "DiscountPrice", "OriginalPrice"})
        prepaid == Up(q.params.InternetChargeType) \in WithPrepaid
        other == Amount(p, IF prepaid THEN "OriginalPrice" ELSE "UnitPrice")
        price == IF Amount(p, "DiscountPrice") = 0 THEN other ELSE Amount(p, "DiscountPrice")
    IN  Paid(answer, <<SplitByBilling(Unit(p), Yuan(price), ~prepaid, TencentCurrency(cur))>>)

VPNExtract(r) ==
    LET bandwidth == OrNumber(Number(r, "bandwidth"), Number(r, "internet_max_bandwidth_out"))
        mode == OrText(OrText(Up(Text(r, "charge_type")), Up(Text(r, "instance_charge_type"))),
                       "POSTPAID_BY_HOUR")
    IN  Request(bandwidth > 0, "vpc", "InquiryPriceCreateVpnGateway", r,
            [InternetMaxBandwidthOut |-> bandwidth, InstanceChargeType |-> mode,
             Period |-> OneMonthIf(mode = "PREPAID")])

\* By the hour the discount is a rate; with no unit it is the month's price.
VPNComponent(p, currency) ==
    LET discount == Amount(p, "DiscountPrice")
        hourly == IF discount = 0 THEN Rate(p) ELSE discount
    IN  CASE Up(Unit(p)) = "GB" -> Component("GB", 0, 0, currency)
          [] Up(Unit(p)) = "HOUR" -> Component(Unit(p), Yuan(hourly), Yuan(hourly) * HoursPerMonth, currency)
          [] OTHER -> FromPrice(Unit(p), 0, Yuan(discount), currency)

VPNParse(q, answer, cur) ==
    LET block == IF \/ Shows(Part(answer.wrapped, "InstancePrice"), {"UnitPrice", "DiscountPrice"})
                    \/ Shows(Part(answer.wrapped, "BandwidthPrice"), {"UnitPrice"})
                 THEN answer.wrapped ELSE answer.top
        line == Part(block, "BandwidthPrice")
    IN  Paid(answer,
            <<VPNComponent(Part(block, "InstancePrice"), TencentCurrency(cur))>>
            \o IF Shows(line, {"UnitPrice", "DiscountPrice", "OriginalPrice"})
               THEN <<VPNComponent(line, TencentCurrency(cur))>> ELSE <<>>)

DirectConnectExtract(r) ==
    Request(TRUE, "vpc", "InquirePriceCreateDirectConnectGateway", r, [x \in {} |-> 0])

\* The price that is paid, of either place, before the list price.
DirectConnectParse(q, answer, cur) ==
    LET at(i) == Amount(Part(IF i % 2 = 1 THEN answer.top ELSE answer.wrapped, ""),
                        IF i <= 2 THEN "RealTotalCost" ELSE "TotalCost")
        shown == {i \in 1..4 : at(i) # 0}
        first == CHOOSE i \in shown : \A j \in shown : i <= j
    IN  IF shown = {} THEN <<>>
        ELSE Paid(answer, <<Component("MONTH", 0, Yuan(at(first)), TencentCurrency(cur))>>)

GAAPExtract(r) ==
    LET servers == EitherText(r, "realserver_region", "real_server_region")
        flow == Number(r, "billing_type") = 1 \/ Up(Text(r, "billing_type")) = "FLOW"
    IN  Request(/\ Trim(Text(r, "access_region")) # "" /\ Trim(servers) # ""
                /\ Number(r, "bandwidth") > 0 /\ Number(r, "concurrent") > 0,
            "gaap", "InquiryPriceCreateProxy", r,
            [AccessRegion |-> Text(r, "access_region"), RealServerRegion |-> servers,
             Bandwidth |-> Number(r, "bandwidth"), BillingType |-> IF flow THEN "1" ELSE "0"])

GAAPParse(q, answer, cur) ==
    LET p == Choose(answer, "", {"DiscountProxyDailyPrice", "ProxyDailyPrice"})
        daily == PreferDiscount(Amount(p, "DiscountProxyDailyPrice"), Amount(p, "ProxyDailyPrice"))
    IN  Paid(answer, <<Component("DAY", 0, Daily(Yuan(daily)), TencentCurrency(cur))>>)

-----------------------------------------------------------------------------
(* Databases. *)

\* One spelling of the charge type is not known.
MySQLPayType_Bug(mode) == IF mode = "PREPAID" THEN "PRE_PAID" ELSE "HOUR_PAID"
MySQLPayType(mode) == IF mode \in {"PREPAID", "PRE_PAID"} THEN "PRE_PAID" ELSE "HOUR_PAID"

MySQLExtract(r) ==
    LET zone == EitherText(r, "availability_zone", "zone")
        memory == EitherNumber(r, "mem_size", "memory")
        volume == EitherNumber(r, "volume_size", "volume")
    IN  Request(zone # "" /\ memory # 0 /\ volume # 0, "cdb", "DescribeDBPrice", r,
            [Zone |-> zone, Memory |-> memory, Volume |-> volume, Period |-> 1,
             GoodsNum |-> OrNumber(Number(r, "count"), 1), PayType |-> MySQLPayType(Up(Text(r, "charge_type")))])

\* The price of the answer is in hundredths.
MySQLParse(q, answer, cur) ==
    LET p == TencentPrice(answer, cur) IN
    Paid(answer, <<SplitByBilling(q.params.PayType, PreferDiscount(p.price, p.original),
                                  q.params.PayType = "HOUR_PAID", p.currency)>>)

\* pgSpecTable: cores and memory of each class on sale.
PgSpecTable ==
    <<<<1, 2>>, <<2, 4>>, <<2, 6>>, <<4, 8>>, <<4, 16>>, <<6, 24>>, <<8, 16>>, <<8, 32>>, <<8, 48>>,
      <<8, 64>>, <<12, 24>>, <<12, 64>>, <<16, 32>>, <<16, 96>>, <<20, 128>>, <<24, 48>>, <<24, 192>>,
      <<28, 240>>, <<32, 64>>, <<32, 128>>, <<48, 480>>, <<64, 256>>, <<64, 384>>, <<64, 512>>,
      <<90, 720>>, <<128, 720>>, <<156, 960>>>>

\* pgSpecCode: the class with these cores and this memory, else the first
\* with this memory; <<>> for none.
PgSpecCode(cpu, memory) ==
    LET fitting == {i \in DOMAIN PgSpecTable : PgSpecTable[i][2] = memory}
        exact == {i \in fitting : PgSpecTable[i][1] = cpu}
        pool == IF exact = {} THEN fitting ELSE exact
    IN  IF pool = {} THEN <<>> ELSE PgSpecTable[CHOOSE i \in pool : \A j \in pool : i <= j]

PostgresExtract(r) ==
    LET zone == EitherText(r, "availability_zone", "zone")
        named == Trim(Text(r, "spec_code"))
        spec == IF named # "" THEN <<named>> ELSE PgSpecCode(Number(r, "cpu"), Number(r, "memory"))
        storage == EitherNumber(r, "storage", "volume")
        said == OrText(OrText(Up(Text(r, "instance_charge_type")), Up(Text(r, "charge_type"))), "PREPAID")
    IN  Request(zone # "" /\ spec # <<>> /\ storage # 0, "postgres", "InquiryPriceCreateDBInstances", r,
            [Zone |-> zone, SpecCode |-> spec, Storage |-> storage, Period |-> 1,
             InstanceCount |-> OrNumber(Number(r, "count"), 1),
             InstanceChargeType |-> IF said \in WithPostpaid THEN "POSTPAID" ELSE said])

PostgresParse(q, answer, cur) ==
    LET p == TencentPrice(answer, cur) IN
    Paid(answer, <<SplitByBilling(q.params.InstanceChargeType, PreferDiscount(p.price, p.original),
                                  q.params.InstanceChargeType = "POSTPAID", p.currency)>>)

RedisExtract(r) ==
    LET zone == EitherText(r, "availability_zone", "zone") IN
    Request(zone # "" /\ Number(r, "mem_size") # 0, "redis", "InquiryPriceCreateInstance", r,
        [ZoneName |-> zone, MemSize |-> Number(r, "mem_size"), Period |-> 1,
         TypeId |-> IF Number(r, "type_id") = 0 THEN 6 ELSE Number(r, "type_id"),
         GoodsNum |-> OrNumber(Number(r, "count"), 1),
         BillingMode |-> IF Up(Text(r, "charge_type")) \in {"PREPAID", "PRE_PAID"} THEN "1" ELSE "0"])

\* Millionths of a hundredth.
MicroPents == 1000000

\* normalizeTencentAmount
Normalize(price, unit) ==
    CASE Up(unit) = "PENT" -> price
      [] Up(unit) = "MICROPENT" -> price \div MicroPents
      [] OTHER -> Yuan(price)

\* The price of high precision, of either place, before the other one.
RedisParse(q, answer, cur) ==
    LET top == Part(answer.top, "")
        wrapped == Part(answer.wrapped, "")
        of(field) == PreferDiscount(Amount(wrapped, field), Amount(top, field))
        word(field, default) == OrText(OrText(Word(wrapped, field), Word(top, field)), default)
        price == PreferDiscount(of("HighPrecisionPrice"), of("Price"))
        hourly == q.params.BillingMode = "0"
    IN  Paid(answer, <<SplitByBilling(IF hourly THEN "HOUR" ELSE "MONTH",
                                      Normalize(price, word("AmountUnit", "pent")), hourly,
                                      word("Currency", TencentCurrency(cur)))>>)

\* A charge type goes to the service as the plan has it.
MongoPayMode_Bug(said) == said
MongoPayMode(said) == IF said = "POSTPAID" THEN "POSTPAID_BY_HOUR" ELSE said

MongoExtract(r) ==
    LET zone == EitherText(r, "available_zone", "availability_zone")
        said == OrText(OrText(Up(Text(r, "charge_type")), Up(Text(r, "instance_charge_type"))),
                       "POSTPAID_BY_HOUR")
    IN  Request(zone # "" /\ Number(r, "memory") > 0 /\ Number(r, "volume") > 0,
            "mongodb", "InquirePriceCreateDBInstances", r,
            [Zone |-> zone, Memory |-> Number(r, "memory"), Volume |-> Number(r, "volume"), Period |-> 1,
             NodeNum |-> OrNumber(Number(r, "node_num"), 3), GoodsNum |-> OrNumber(Number(r, "count"), 1),
             MachineCode |-> OrText(Up(Text(r, "machine_type")), "GE.LD.T1"),
             InstanceChargeType |-> MongoPayMode(said)])

MongoParse(q, answer, cur) ==
    LET p == Choose(answer, "Price", {"DiscountPrice", "UnitPrice"})
        total == IF Amount(p, "DiscountPrice") = 0 THEN Amount(p, "OriginalPrice") ELSE Amount(p, "DiscountPrice")
        rate == IF Amount(p, "UnitPrice") = 0 THEN total ELSE Amount(p, "UnitPrice")
        hourly == q.params.InstanceChargeType \in WithHour
    IN  Paid(answer, <<SplitByBilling(q.params.InstanceChargeType, Yuan(IF hourly THEN rate ELSE total),
                                      hourly, TencentCurrency(cur))>>)

MariaDBExtract(r) ==
    LET zone == EitherText(r, "availability_zone", "zones")
        said == OrText(Up(Text(r, "instance_charge_type")), Up(Text(r, "charge_type")))
        for == Number(r, "prepaid_period") > 0 \/ Number(r, "period") > 0
        postpaid == said \in WithPostpaid \/ (said = "" /\ ~for)
    IN  Request(zone # "" /\ Number(r, "memory") > 0 /\ Number(r, "storage") > 0,
            "mariadb", "DescribePrice", r,
            [Zone |-> zone, Memory |-> Number(r, "memory"), Storage |-> Number(r, "storage"), Period |-> 1,
             NodeCount |-> OrNumber(Number(r, "node_count"), 2), Count |-> OrNumber(Number(r, "count"), 1),
             Paymode |-> IF postpaid THEN "postpaid" ELSE "prepaid", AmountUnit |-> "pent"])

MariaDBParse(q, answer, cur) ==
    Paid(answer, <<SplitByBilling(Up(q.params.Paymode), DiscountedFromCents(answer),
                                  Up(q.params.Paymode) \in WithPostpaid, TencentCurrency(cur))>>)

SQLServerExtract(r) ==
    LET zone == EitherText(r, "availability_zone", "zone")
        said == OrText(Up(Text(r, "charge_type")), Up(Text(r, "instance_charge_type")))
    IN  Request(zone # "" /\ Number(r, "memory") > 0 /\ Number(r, "storage") > 0,
            "sqlserver", "InquiryPriceCreateDBInstances", r,
            [Zone |-> zone, Memory |-> Number(r, "memory"), Storage |-> Number(r, "storage"), Period |-> 1,
             GoodsNum |-> OrNumber(Number(r, "count"), 1), InstanceType |-> OrText(Text(r, "instance_type"), "SI"),
             InstanceChargeType |-> IF said = "PREPAID" THEN "PREPAID" ELSE "POSTPAID"])

SQLServerParse(q, answer, cur) ==
    Paid(answer, <<SplitByBilling(q.params.InstanceChargeType, DiscountedFromCents(answer),
                                  q.params.InstanceChargeType # "PREPAID", TencentCurrency(cur))>>)

\* The kind of resource says how it is paid.
DCDBExtract(r) ==
    LET zone == OrText(EitherText(r, "availability_zone", "zones"), Text(r, "zone")) IN
    Request(zone # "" /\ \A a \in {"shard_memory", "shard_storage", "shard_count"} : Number(r, a) > 0,
        "dcdb", "DescribeDCDBPrice", r,
        [Zone |-> zone, ShardMemory |-> Number(r, "shard_memory"), ShardStorage |-> Number(r, "shard_storage"),
         ShardCount |-> Number(r, "shard_count"), ShardNodeCount |-> OrNumber(Number(r, "shard_node_count"), 2),
         Count |-> OrNumber(Number(r, "count"), 1), AmountUnit |-> "pent", Period |-> 1,
         Paymode |-> IF r.type = "tencentcloud_dcdb_hourdb_instance" THEN "postpaid" ELSE "prepaid"])

DCDBParse(q, answer, cur) ==
    Paid(answer, <<SplitByBilling(Up(q.params.Paymode), DiscountedFromCents(answer),
                                  Up(q.params.Paymode) # "PREPAID", TencentCurrency(cur))>>)

\* How the compute of a cluster is paid, and how its storage is.
CynosPayMode(r, said) ==
    IF Up(Text(r, "db_mode")) = "SERVERLESS" THEN "SERVERLESS"
    ELSE IF said \in FromPrepaid THEN "PREPAID" ELSE "POSTPAID"

CynosStoragePayMode(r, said) ==
    IF Number(r, "storage_pay_mode") = 1 \/ (Number(r, "storage_pay_mode") = 0 /\ said \in FromPrepaid)
    THEN "PREPAID" ELSE "POSTPAID"

CynosExtract(r) ==
    LET zone == EitherText(r, "available_zone", "availability_zone")
        said == OrText(Up(Text(r, "charge_type")), Up(Text(r, "instance_charge_type")))
        cpu == EitherNumber(r, "cpu", "instance_cpu_core")
        memory == EitherNumber(r, "memory", "instance_memory_size")
        storage == OrNumber(Number(r, "storage_limit"), Number(r, "storage"))
        mode == CynosPayMode(r, said)
        storageMode == CynosStoragePayMode(r, said)
        serverless == mode = "SERVERLESS"
    IN  Request(/\ zone # ""
                /\ IF serverless THEN Number(r, "max_cpu") > 0 ELSE cpu > 0 /\ memory > 0
                /\ storageMode = "PREPAID" => storage > 0,
            "cynosdb", "InquirePriceCreate", r,
            [Zone |-> zone, GoodsNum |-> OrNumber(Number(r, "instance_count"), 1),
             InstancePayMode |-> mode, StoragePayMode |-> storageMode, StorageLimit |-> storage,
             Ccu |-> IF serverless THEN Number(r, "max_cpu") ELSE 0,
             Cpu |-> IF serverless THEN 0 ELSE cpu, Memory |-> IF serverless THEN 0 ELSE memory,
             TimeSpan |-> OneMonthIf(mode = "PREPAID")])

TradePrices == {"TotalPriceDiscount", "UnitPriceDiscount", "TotalPrice", "UnitPrice"}

\* cynosComponent: the total of a month, or a rate by the hour, in
\* hundredths; of storage by the GB and hour only the rate is known.
CynosComponent(p, prepaid, currency) ==
    LET of(discount, list) == IF Amount(p, discount) = 0 THEN Amount(p, list) ELSE Amount(p, discount)
        unit == of("UnitPriceDiscount", "UnitPrice")
    IN  IF prepaid THEN Component("MONTH", 0, of("TotalPriceDiscount", "TotalPrice"), currency)
        ELSE IF Unit(p) \in {"GB*h", "GB*H"} THEN Component("GB*H", 0, 0, currency)
        ELSE Component("HOUR", unit, unit * HoursPerMonth, currency)

CynosParse(q, answer, cur) ==
    LET shown(block) == {part \in {"InstancePrice", "StoragePrice"} : Shows(Part(block, part), TradePrices)}
        block == IF shown(answer.wrapped) # {} THEN answer.wrapped ELSE answer.top
    IN  Paid(answer,
            <<CynosComponent(Part(block, "InstancePrice"), q.params.InstancePayMode = "PREPAID",
                             TencentCurrency(cur))>>
            \o IF "StoragePrice" \in shown(block)
               THEN <<CynosComponent(Part(block, "StoragePrice"), q.params.StoragePayMode = "PREPAID",
                                     TencentCurrency(cur))>>
               ELSE <<>>)

-----------------------------------------------------------------------------
(* Licences, hardware and names. *)

\* One machine for each licence.
YunjingExtract(r) ==
    Request(TRUE, "yunjing", "InquiryPriceOpenProVersionPrepaid", r,
        [Machines |-> OrNumber(Number(r, "license_num"), 1), Period |-> 1])

YunjingParse(q, answer, cur) ==
    Paid(answer, <<Component("MONTH", 0, Yuan(Discounted(Choose(answer, "", Prices))), TencentCurrency(cur))>>)

CloudHSMExtract(r) ==
    Request(TRUE, "cloudhsm", "InquiryPriceBuyVsm", r,
        [GoodsNum |-> OrNumber(Number(r, "goods_num"), 1), PayMode |-> "1", TimeSpan |-> 1,
         HsmType |-> OrText(Trim(Text(r, "hsm_type")), "virtualization")])

\* The wrapped part counts when it states a cost, be it 0.
CloudHSMParse(q, answer, cur) ==
    LET wrapped == Part(answer.wrapped, "")
        p == IF {"TotalCost", "OriginalCost"} \cap DOMAIN wrapped # {} THEN wrapped ELSE Part(answer.top, "")
    IN  Paid(answer, <<Component("MONTH", 0,
                                 Yuan(PreferDiscount(Amount(p, "TotalCost"), Amount(p, "OriginalCost"))),
                                 TencentCurrency(cur))>>)

DomainExtract(r) ==
    LET name == Trim(Text(r, "domain_name")) IN
    Request(name # "", "domain", "DescribeDomainPriceList", r,
        [Domain |-> name, Year |-> OrNumber(Number(r, "period"), 1), Operation |-> "new"])

\* The price of a year, of the entry for a new name if the list has one.
\* The parts of a block are the entries of its list, 1, 2, ...
DomainParse(q, answer, cur) ==
    LET list == IF answer.wrapped # <<>> THEN answer.wrapped ELSE answer.top
        new == {i \in DOMAIN list : Up(Word(list[i], "Operation")) = "NEW"}
        chosen == IF new = {} THEN list[1] ELSE list[CHOOSE i \in new : \A j \in new : i <= j]
        price == IF Amount(chosen, "RealPrice") = 0 THEN Amount(chosen, "Price") ELSE Amount(chosen, "RealPrice")
    IN  IF list = <<>> THEN <<>>
        ELSE Paid(answer, <<Component("MONTH", 0, Yuan(price) \div 12, TencentCurrency(cur))>>)
=============================================================================
