----------------------------- MODULE BssMappers -----------------------------
(***************************************************************************)
(* The mappers of Alibaba Cloud and Huawei Cloud (resources/alibaba_*.go,  *)
(* resources/huawei_*.go), their price readers (resources/pricehelper.go)  *)
(* and the requests their backends make of them.                           *)
(*                                                                         *)
(* A module of an Alibaba request is [code, by, config], by what period it *)
(* is priced; a product of a Huawei request is [kind, spec, size, measure].*)
(* An answer of Alibaba is [currency, modules], a sequence of [code, after,*)
(* original]; one of Huawei is [amount, official, currency], the set of    *)
(* each amount that is there.                                              *)
(***************************************************************************)
EXTENDS PriceForms, SequencesExt

\* Configurations that name Windows.
WindowsImages == {"win2022", "Windows"}

AlibabaModule(code, by, config) == [code |-> code, by |-> by, config |-> config]

AlibabaRequest(required, product, r, modules) ==
    When(required, {[provider |-> "alibaba", product |-> product, action |-> "GetPayAsYouGoPrice",
                     region |-> r.region, params |-> modules]})

AlibabaECSExtract(r) ==
    LET type == Trim(Text(r, "instance_type"))
        os == IF Text(r, "image_id") \in WindowsImages THEN "windows" ELSE "linux"
        disk == Trim(Text(r, "system_disk_category"))
    IN  AlibabaRequest(type # "", "ecs", r,
            <<AlibabaModule("InstanceType", "Hour", <<type, os>>)>>
            \o IF disk = "" THEN <<>>
               ELSE <<AlibabaModule("SystemDisk", "Hour", <<disk, OrNumber(Number(r, "system_disk_size"), 40)>>)>>)

AlibabaDiskExtract(r) ==
    AlibabaRequest(TRUE, "yundisk", r,
        <<AlibabaModule("DataDisk", "Hour",
            <<OrText(Trim(Text(r, "category")), "cloud_essd"), OrNumber(Number(r, "size"), 40)>>)>>)

\* The bandwidth is in Kbps; how it is charged is a module of its own.
AlibabaEIPExtract(r) ==
    LET traffic == Up(Text(r, "internet_charge_type")) = "PAYBYTRAFFIC" IN
    AlibabaRequest(TRUE, "eip", r,
        <<AlibabaModule("Bandwidth", "Day", <<OrNumber(Number(r, "bandwidth"), 5) * 1024>>),
          AlibabaModule("InternetChargeType", "Usage", <<IF traffic THEN 1 ELSE 0>>),
          AlibabaModule("ISP", "Hour", <<"BGP">>)>>)

AlibabaSLBExtract(r) ==
    AlibabaRequest(TRUE, "slb", r,
        <<AlibabaModule("LoadBalancerSpec", "Hour", <<OrText(Trim(Text(r, "specification")), "slb.s1.small")>>),
          AlibabaModule("InternetTrafficOut", "Usage", <<0>>),
          AlibabaModule("InstanceRent", "Hour", <<1>>),
          AlibabaModule("Bandwidth", "Hour", <<OrNumber(Number(r, "bandwidth"), 1) * 1024>>)>>)

AlibabaRDSExtract(r) ==
    LET class == Trim(Text(r, "instance_type")) IN
    AlibabaRequest(class # "", "rds", r,
        <<AlibabaModule("DBInstanceClass", "Hour", <<class>>),
          AlibabaModule("DBInstanceStorage", "Hour", <<OrNumber(Number(r, "instance_storage"), 40)>>)>>)

AlibabaRedisExtract(r) ==
    AlibabaRequest(TRUE, "redisa", r,
        <<AlibabaModule("InstanceClass", "Hour",
            <<OrText(Trim(Text(r, "instance_class")), "redis.master.small.default")>>)>>)

AlibabaMongoDBExtract(r) ==
    AlibabaRequest(TRUE, "dds", r,
        <<AlibabaModule("DBInstanceClass", "Hour", <<OrText(Trim(Text(r, "db_instance_class")), "dds.mongo.mid")>>),
          AlibabaModule("DBInstanceStorage", "Hour", <<OrNumber(Number(r, "db_instance_storage"), 20)>>)>>)

AlibabaNATExtract(r) ==
    AlibabaRequest(TRUE, "nat_gw", r,
        <<AlibabaModule("Spec", "Day", <<OrText(Trim(Text(r, "specification")), "Small")>>)>>)

AlibabaVPNExtract(r) ==
    AlibabaRequest(TRUE, "vpn", r,
        <<AlibabaModule("Bandwidth", "Hour", <<OrNumber(Number(r, "bandwidth"), 10)>>)>>)

\* parseAlibabaModules: the cost of a module, after its discount if any.
ModuleCost(m) == Yuan(IF m.after <= 0 THEN m.original ELSE m.after)
AlibabaCurrency(answer, expected) == OrText(answer.currency, OrText(expected, "CNY"))

\* parseAlibabaPrice, the set of the price: no price that is not positive.
AlibabaPrice(answer) ==
    LET total == SumFunction([i \in DOMAIN answer.modules |-> ModuleCost(answer.modules[i])])
    IN  When(total > 0, {total})

\* Parse of a mapper that prices by the hour.
AlibabaHourlyParse(q, answer, cur) ==
    LET price == AlibabaPrice(answer) IN
    IF price = {} THEN <<>>
    ELSE SimpleHourlyCost(CHOOSE p \in price : TRUE, AlibabaCurrency(answer, cur))

\* The hourly rate of a price by the day divides it by the days of a month.
DailyComponent(price, currency) ==
    Component("DAY", (price * 24) \div HoursPerMonth, Daily(price), currency)

AlibabaNATParse(q, answer, cur) ==
    LET price == AlibabaPrice(answer) IN
    IF price = {} THEN <<>>
    ELSE <<DailyComponent(CHOOSE p \in price : TRUE, AlibabaCurrency(answer, cur))>>

\* Each module by its own period; what is not itemized, by the day.
AlibabaEIPParse(q, answer, cur) ==
    LET currency == AlibabaCurrency(answer, cur)
        of(m) == CASE m.code = "Bandwidth" -> <<DailyComponent(ModuleCost(m), currency)>>
                   [] m.code = "ISP" -> SimpleHourlyCost(ModuleCost(m), currency)
                   [] OTHER -> <<>>
    IN  IF \E i \in DOMAIN answer.modules : answer.modules[i].code \in {"Bandwidth", "ISP"}
        THEN FlattenSeq([i \in DOMAIN answer.modules |-> of(answer.modules[i])])
        ELSE AlibabaNATParse(q, answer, cur)

-----------------------------------------------------------------------------
(* Huawei Cloud. *)

\* huaweiProductInfo: a price by the hour.
HuaweiProduct(kind, spec, size) == [kind |-> kind, spec |-> spec, size |-> size, measure |-> 4]
\* huaweiProductInfoEx for traffic: a price by the GB.
HuaweiTraffic(spec, size) == [kind |-> "bandwidth", spec |-> spec, size |-> size, measure |-> 10]

HuaweiRequest(required, product, r, products) ==
    When(required, {[provider |-> "huawei", product |-> product, action |-> "ListOnDemandResourceRatings",
                     region |-> r.region, params |-> products]})

\* The one product of most mappers, its specification with a default.
HuaweiOne(product, r, kind, attribute, default) ==
    HuaweiRequest(TRUE, product, r, <<HuaweiProduct(kind, OrText(Trim(Text(r, attribute)), default), 0)>>)

HuaweiECSExtract(r) ==
    LET flavor == Trim(Text(r, "flavor_id")) IN
    HuaweiRequest(flavor # "", "ecs", r, <<HuaweiProduct("vm", flavor, 0)>>)

HuaweiEVSExtract(r) ==
    HuaweiRequest(TRUE, "evs", r,
        <<HuaweiProduct("volume", OrText(Trim(Text(r, "volume_type")), "SAS"), OrNumber(Number(r, "size"), 40))>>)

HuaweiELBExtract(r) == HuaweiOne("elb", r, "elb", "type", "L7")
HuaweiNATExtract(r) == HuaweiOne("nat", r, "natgateway", "spec", "1")
HuaweiRDSExtract(r) == HuaweiOne("rds", r, "database", "flavor", "rds.mysql.c2.large")
HuaweiDCSExtract(r) == HuaweiOne("dcs", r, "dcs", "flavor", "redis.single.xu1.large.1")
HuaweiDDSExtract(r) == HuaweiOne("dds", r, "dds", "flavor", "dds.mongodb.s6.large.2.shard")
HuaweiCCEExtract(r) == HuaweiOne("cce", r, "cce", "cluster_type", "VirtualMachine")

\* The charge mode and the size are in a nested block; its attributes are
\* named after it.
HuaweiEIPExtract(r) ==
    LET type == OrText(Trim(Text(r, "type")), "5_bgp")
        mode == OrText(Up(Text(r, "bandwidth.charge_mode")), Up(Text(r, "charging_mode")))
        size == OrNumber(Number(r, "bandwidth.size"), 5)
    IN  HuaweiRequest(TRUE, "eip", r,
            <<HuaweiProduct("ip", type, 0),
              IF mode = "TRAFFIC" THEN HuaweiTraffic(type, size) ELSE HuaweiProduct("bandwidth", type, size)>>)

\* parseHuaweiPrice, the set of the price.
HuaweiPrice(answer) ==
    LET amount == IF \E a \in answer.amount : a > 0 THEN answer.amount ELSE answer.official
    IN  {Yuan(a) : a \in {b \in amount : b > 0}}

HuaweiCurrency(answer, expected) == OrText(answer.currency, OrText(expected, "CNY"))

HuaweiHourlyParse(q, answer, cur) ==
    LET price == HuaweiPrice(answer) IN
    IF price = {} THEN <<>>
    ELSE SimpleHourlyCost(CHOOSE p \in price : TRUE, HuaweiCurrency(answer, cur))

IsHuaweiTraffic(q) == \E i \in DOMAIN q.params : q.params[i].measure = 10

\* By traffic the whole answer is taken for a rate by the GB.
HuaweiEIPParse(q, answer, cur) ==
    IF HuaweiPrice(answer) # {} /\ IsHuaweiTraffic(q)
    THEN <<Component("GB", 0, 0, HuaweiCurrency(answer, cur))>>
    ELSE HuaweiHourlyParse(q, answer, cur)
=============================================================================
