------------------------------- MODULE Quotes -------------------------------
(***************************************************************************)
(* The way of one resource from the plan to its price: the mapper that is  *)
(* registered for its type (resources/registry.go) makes a request, the    *)
(* handler of the product (pricing/handlers.go) or the backend of the      *)
(* cloud sends it, and the mapper reads the answer (priceResource of       *)
(* cmd/cloudtab/main.go).                                                  *)
(*                                                                         *)
(* The services are external.  They are modelled from what the mappers and *)
(* their tests say of them: which parameter says how a resource is paid    *)
(* and which words it takes, which parameters count units, and in which    *)
(* fields, unit and place the answer states the price.  A service answers  *)
(* what it was ASKED; planned, a field of a resource no mapper reads, says *)
(* what the plan means: how many units it buys by the hour, the month, the *)
(* day or the year.  A resource that means nothing, <<>>, cannot be        *)
(* priced.                                                                 *)
(***************************************************************************)
EXTENDS TencentMappers, BssMappers, AwsMappers, TLC

CONSTANT Plans    \* planned resources: [type, region, text, number, planned]

\* The number attributes of a resource are whole numbers (getInt).
HasNumbers(r) == \A name \in DOMAIN r.number : r.number[name] \in Int

ASSUME PlansAssumption == \A r \in Plans : HasNumbers(r)

VARIABLES
    plan,      \* the resource
    site,      \* the site of its cloud
    stage,     \* how far it is
    request,   \* what Extract made of it
    answer,    \* what the service said
    fault,     \* ghost: what went wrong with the answer, if anything
    due,       \* ghost: what a month costs, as [amount, currency]
    quote      \* the components of its price

vars == <<plan, site, stage, request, answer, fault, due, quote>>

\* No fault, an error beside the prices, no prices and prices of 0; a list
\* that was cut, and a call that failed.
Faults == {"none", "refused", "empty", "zero"}

-----------------------------------------------------------------------------
(* Mappers and handlers. *)

DCDBTypes == {"tencentcloud_dcdb_db_instance", "tencentcloud_dcdb_hourdb_instance", "tencentcloud_dcdb_instance"}

\* The mappers of DefaultRegistry that ask a service; {} also for a type
\* that is not registered.
Extract(r) ==
    CASE r.type = "tencentcloud_instance" -> CVMExtract(r)
      [] r.type = "tencentcloud_cbs_storage" -> CBSExtract(r)
      [] r.type = "tencentcloud_eip" -> EIPExtract(r)
      [] r.type = "tencentcloud_clb_instance" -> CLBExtract(r)
      [] r.type = "tencentcloud_mysql_instance" -> MySQLExtract(r)
      [] r.type = "tencentcloud_postgresql_instance" -> PostgresExtract(r)
      [] r.type = "tencentcloud_redis_instance" -> RedisExtract(r)
      [] r.type = "tencentcloud_vpn_gateway" -> VPNExtract(r)
      [] r.type = "tencentcloud_dc_gateway" -> DirectConnectExtract(r)
      [] r.type = "tencentcloud_mongodb_instance" -> MongoExtract(r)
      [] r.type = "tencentcloud_mariadb_instance" -> MariaDBExtract(r)
      [] r.type = "tencentcloud_cynosdb_cluster" -> CynosExtract(r)
      [] r.type = "tencentcloud_lighthouse_instance" -> LighthouseExtract(r)
      [] r.type = "tencentcloud_ecm_instance" -> ECMExtract(r)
      [] r.type = "tencentcloud_sqlserver_instance" -> SQLServerExtract(r)
      [] r.type \in DCDBTypes -> DCDBExtract(r)
      [] r.type = "tencentcloud_gaap_proxy" -> GAAPExtract(r)
      [] r.type = "tencentcloud_cwp_license_order" -> YunjingExtract(r)
      [] r.type = "tencentcloud_cloudhsm_instance" -> CloudHSMExtract(r)
      [] r.type = "tencentcloud_domain_registration" -> DomainExtract(r)
      [] r.type = "huaweicloud_compute_instance" -> HuaweiECSExtract(r)
      [] r.type = "huaweicloud_evs_volume" -> HuaweiEVSExtract(r)
      [] r.type = "huaweicloud_vpc_eip" -> HuaweiEIPExtract(r)
      [] r.type = "huaweicloud_elb_loadbalancer" -> HuaweiELBExtract(r)
      [] r.type = "huaweicloud_nat_gateway" -> HuaweiNATExtract(r)
      [] r.type = "huaweicloud_rds_instance" -> HuaweiRDSExtract(r)
      [] r.type = "huaweicloud_dcs_instance" -> HuaweiDCSExtract(r)
      [] r.type = "huaweicloud_dds_instance" -> HuaweiDDSExtract(r)
      [] r.type = "huaweicloud_cce_cluster" -> HuaweiCCEExtract(r)
      [] r.type = "alicloud_instance" -> AlibabaECSExtract(r)
      [] r.type = "alicloud_disk" -> AlibabaDiskExtract(r)
      [] r.type = "alicloud_eip" -> AlibabaEIPExtract(r)
      [] r.type = "alicloud_slb_load_balancer" -> AlibabaSLBExtract(r)
      [] r.type = "alicloud_db_instance" -> AlibabaRDSExtract(r)
      [] r.type = "alicloud_kvstore_instance" -> AlibabaRedisExtract(r)
      [] r.type = "alicloud_mongodb_instance" -> AlibabaMongoDBExtract(r)
      [] r.type = "alicloud_nat_gateway" -> AlibabaNATExtract(r)
      [] r.type = "alicloud_vpn_gateway" -> AlibabaVPNExtract(r)
      [] r.type = "aws_instance" -> AwsInstanceExtract(r)
      [] r.type = "aws_ebs_volume" -> AwsEBSExtract(r)
      [] r.type = "aws_db_instance" -> AwsDBExtract(r)
      [] r.type = "aws_elasticache_cluster" -> AwsElastiCacheExtract(r)
      [] r.type = "aws_lb" -> AwsLBExtract(r)
      [] r.type = "aws_elb" -> AwsELBExtract(r)
      [] r.type = "aws_rds_cluster_instance" -> AwsRDSClusterExtract(r)
      [] r.type = "aws_redshift_cluster" -> AwsRedshiftExtract(r)
      [] r.type \in {"aws_opensearch_domain", "aws_elasticsearch_domain"} -> AwsOpenSearchExtract(r)
      [] r.type = "aws_docdb_cluster_instance" -> AwsDocDBExtract(r)
      [] r.type = "aws_neptune_cluster_instance" -> AwsNeptuneExtract(r)
      [] r.type = "aws_memorydb_cluster" -> AwsMemoryDBExtract(r)
      [] r.type = "aws_mq_broker" -> AwsMQExtract(r)
      [] r.type = "aws_msk_cluster" -> AwsMSKExtract(r)
      [] r.type = "aws_dynamodb_table" -> AwsDynamoDBExtract(r)
      [] r.type = "aws_eks_cluster" -> AwsEKSExtract(r)
      [] r.type = "aws_nat_gateway" -> AwsNATExtract(r)
      [] OTHER -> {}

\* The components a mapper of Tencent Cloud makes of the answer a.
TencentParse(r, q, a, cur) ==
    CASE r.type = "tencentcloud_instance" -> CVMParse(q, a, cur)
      [] r.type = "tencentcloud_cbs_storage" -> CBSParse(q, a, cur)
      [] r.type = "tencentcloud_eip" -> EIPParse(q, a, cur)
      [] r.type = "tencentcloud_clb_instance" -> CLBParse(q, a, cur)
      [] r.type = "tencentcloud_mysql_instance" -> MySQLParse(q, a, cur)
      [] r.type = "tencentcloud_postgresql_instance" -> PostgresParse(q, a, cur)
      [] r.type = "tencentcloud_redis_instance" -> RedisParse(q, a, cur)
      [] r.type = "tencentcloud_vpn_gateway" -> VPNParse(q, a, cur)
      [] r.type = "tencentcloud_dc_gateway" -> DirectConnectParse(q, a, cur)
      [] r.type = "tencentcloud_mongodb_instance" -> MongoParse(q, a, cur)
      [] r.type = "tencentcloud_mariadb_instance" -> MariaDBParse(q, a, cur)
      [] r.type = "tencentcloud_cynosdb_cluster" -> CynosParse(q, a, cur)
      [] r.type = "tencentcloud_lighthouse_instance" -> LighthouseParse(q, a, cur)
      [] r.type = "tencentcloud_ecm_instance" -> ECMParse(q, a, cur)
      [] r.type = "tencentcloud_sqlserver_instance" -> SQLServerParse(q, a, cur)
      [] r.type \in DCDBTypes -> DCDBParse(q, a, cur)
      [] r.type = "tencentcloud_gaap_proxy" -> GAAPParse(q, a, cur)
      [] r.type = "tencentcloud_cwp_license_order" -> YunjingParse(q, a, cur)
      [] r.type = "tencentcloud_cloudhsm_instance" -> CloudHSMParse(q, a, cur)
      [] r.type = "tencentcloud_domain_registration" -> DomainParse(q, a, cur)

AlibabaParse(r, q, a, cur) ==
    CASE r.type = "alicloud_eip" -> AlibabaEIPParse(q, a, cur)
      [] r.type = "alicloud_nat_gateway" -> AlibabaNATParse(q, a, cur)
      [] OTHER -> AlibabaHourlyParse(q, a, cur)

HuaweiParse(r, q, a, cur) ==
    IF r.type = "huaweicloud_vpc_eip" THEN HuaweiEIPParse(q, a, cur) ELSE HuaweiHourlyParse(q, a, cur)

AwsParse(r, q, a) ==
    CASE r.type = "aws_ebs_volume" -> AwsEBSParse(q, a)
      [] r.type = "aws_dynamodb_table" -> AwsDynamoDBParse(q, a)
      [] OTHER -> AwsHourlyParse(q, a)

\* What the mapper may make of the answer a: nothing when it refuses it.
Parse(r, q, a, cur) ==
    CASE q.provider = "tencent" -> {TencentParse(r, q, a, cur)} \ {<<>>}
      [] q.provider = "alibaba" -> {AlibabaParse(r, q, a, cur)} \ {<<>>}
      [] q.provider = "huawei" -> {HuaweiParse(r, q, a, cur)} \ {<<>>}
      [] q.provider = "aws" -> AwsParse(r, q, a)

\* handlers: the actions of each product of Tencent Cloud.
Handlers ==
    [cvm |-> {"InquiryPriceRunInstances"}, cbs |-> {"InquiryPriceCreateDisks"},
     clb |-> {"InquiryPriceCreateLoadBalancer"}, cdb |-> {"DescribeDBPrice"},
     postgres |-> {"InquiryPriceCreateDBInstances"}, redis |-> {"InquiryPriceCreateInstance"},
     vpc |-> {"InquiryPriceCreateVpnGateway", "InquiryPriceAllocateAddresses",
              "InquirePriceCreateDirectConnectGateway"},
     mongodb |-> {"InquirePriceCreateDBInstances"}, mariadb |-> {"DescribePrice"},
     cynosdb |-> {"InquirePriceCreate"}, lighthouse |-> {"InquirePriceCreateInstances"},
     ecm |-> {"DescribePriceRunInstance"}, sqlserver |-> {"InquiryPriceCreateDBInstances"},
     dcdb |-> {"DescribeDCDBPrice"}, gaap |-> {"InquiryPriceCreateProxy"},
     yunjing |-> {"InquiryPriceOpenProVersionPrepaid"}, cloudhsm |-> {"InquiryPriceBuyVsm"},
     domain |-> {"DescribeDomainPriceList"}]

\* unavailableOnSites
Unavailable == {<<"cloudhsm", "intl">>}

Handled(q) ==
    q.provider = "tencent" =>
        q.product \in DOMAIN Handlers /\ q.action \in Handlers[q.product] /\ <<q.product, site>> \notin Unavailable

\* ExpectedCurrencyFor: what an answer that does not say is taken to be in.
ExpectedCurrencyFor(provider) == IF provider # "aws" /\ site = "intl" THEN "USD" ELSE "CNY"

-----------------------------------------------------------------------------
(* What things cost.  The rates tell the modes, and the list price from    *)
(* the price that is paid.                                                 *)

Listed == [hour |-> 3, month |-> 9, day |-> 48, year |-> 24, gb |-> 0]
Reduced == [hour |-> 2, month |-> 6, day |-> 24, year |-> 12, gb |-> 0]

PriceOf(mode, units, reduced) ==
    [list |-> Listed[mode] * units, reduced |-> reduced,
     paid |-> (IF reduced THEN Reduced[mode] ELSE Listed[mode]) * units]

PerMonth(mode, amount) ==
    CASE mode = "hour" -> Yuan(amount) * 730
      [] mode = "day" -> (Yuan(amount) * 730) \div 24
      [] mode = "year" -> Yuan(amount) \div 12
      [] OTHER -> Yuan(amount)

\* What a month of the plan costs.
Due(reduced) ==
    [amount |-> SumFunction([m \in DOMAIN plan.planned |-> PerMonth(m, PriceOf(m, plan.planned[m], reduced).paid)]),
     currency |-> IF request.provider = "aws" \/ site = "intl" THEN "USD" ELSE "CNY"]

-----------------------------------------------------------------------------
(* The services of Tencent Cloud. *)

Interface(q) == IF q.product = "vpc" THEN q.action ELSE q.product

\* The parameter that says how a resource is paid, and the words it takes.
PayField ==
    [cvm |-> "InstanceChargeType", cbs |-> "DiskChargeType", clb |-> "LoadBalancerChargeType",
     InquiryPriceCreateVpnGateway |-> "InstanceChargeType",
     InquiryPriceAllocateAddresses |-> "InternetChargeType", cdb |-> "PayType",
     postgres |-> "InstanceChargeType", redis |-> "BillingMode", mongodb |-> "InstanceChargeType",
     mariadb |-> "Paymode", dcdb |-> "Paymode", sqlserver |-> "InstanceChargeType",
     cynosdb |-> "InstancePayMode"]

ByHour(interface) ==
    CASE interface \in {"cvm", "cbs", "mongodb", "InquiryPriceCreateVpnGateway"} -> {"POSTPAID_BY_HOUR"}
      [] interface \in {"clb", "postgres", "sqlserver"} -> {"POSTPAID"}
      [] interface \in {"mariadb", "dcdb"} -> {"postpaid"}
      [] interface = "cynosdb" -> {"POSTPAID", "SERVERLESS"}
      [] interface = "cdb" -> {"HOUR_PAID"}
      [] interface = "redis" -> {"0"}
      [] OTHER -> {"TRAFFIC_POSTPAID_BY_HOUR", "BANDWIDTH_POSTPAID_BY_HOUR"}

ByMonth(interface) ==
    CASE interface = "cdb" -> {"PRE_PAID"}
      [] interface = "redis" -> {"1"}
      [] interface \in {"mariadb", "dcdb"} -> {"prepaid"}
      [] interface = "InquiryPriceAllocateAddresses" -> {"BANDWIDTH_PREPAID_BY_MONTH"}
      [] OTHER -> {"PREPAID"}

OnlyMode ==
    [ecm |-> "hour", gaap |-> "day", lighthouse |-> "month", yunjing |-> "month", cloudhsm |-> "month",
     InquirePriceCreateDirectConnectGateway |-> "month", domain |-> "year"]

\* How many months a prepaid request is for; the service wants to be told.
Months(q) == {q.params[f] : f \in DOMAIN q.params \cap {"Period", "TimeSpan"}}

\* The set of the mode the service understands: none when it refuses.
Understood(q) ==
    LET interface == Interface(q)
        word == q.params[PayField[interface]]
    IN  IF interface \in DOMAIN OnlyMode THEN {OnlyMode[interface]}
        ELSE When(word \in ByHour(interface), {"hour"})
             \cup When(word \in ByMonth(interface) /\ Months(q) \in {{}, {1}}, {"month"})

\* The parameters that count units.
Counts ==
    {"InstanceCount", "DiskSize", "GoodsNum", "Count", "ShardCount", "Machines", "InternetMaxBandwidthOut"}

\* A class of PostgreSQL costs by its cores.
Units(q) ==
    FoldSet(LAMBDA f, n : n * q.params[f], 1, DOMAIN q.params \cap Counts)
    * (IF q.product = "postgres" /\ Len(q.params.SpecCode) = 2 THEN q.params.SpecCode[1] ELSE 1)
    * (IF q.product = "gaap" THEN q.params.Bandwidth ELSE 1)

\* A part or a field alone, and two groups of them together.
Only(name, content) == [x \in {name} |-> content]
Along(f, g) == [x \in DOMAIN f \cup DOMAIN g |-> IF x \in DOMAIN f THEN f[x] ELSE g[x]]

\* A field that is there only when there is a discount.
IfReduced(p, field, factor) == IF p.reduced THEN Only(field, factor * p.paid) ELSE <<>>

Rates(p, unit) == Along([UnitPrice |-> p.list, ChargeUnit |-> unit], IfReduced(p, "UnitPriceDiscount", 1))
Totals(p, unit) == [OriginalPrice |-> p.list, DiscountPrice |-> p.paid, ChargeUnit |-> unit]
Sale(p, factor) == Along([OriginalPrice |-> factor * p.list], IfReduced(p, "DiscountPrice", factor))

Trade(p, mode, unit) ==
    IF mode = "month" THEN Along([TotalPrice |-> 100 * p.list], IfReduced(p, "TotalPriceDiscount", 100))
    ELSE Along([UnitPrice |-> 100 * p.list, ChargeUnit |-> unit], IfReduced(p, "UnitPriceDiscount", 100))

\* The main part of an answer, and its name.
MainPart(q) ==
    CASE Interface(q) \in {"cvm", "clb", "cynosdb", "lighthouse", "ecm", "InquiryPriceCreateVpnGateway"}
         -> "InstancePrice"
      [] Interface(q) = "cbs" -> "DiskPrice"
      [] Interface(q) = "mongodb" -> "Price"
      [] Interface(q) = "InquiryPriceAllocateAddresses" -> "AddressPrice"
      [] OTHER -> ""

MainFields(q, mode, p) ==
    CASE Interface(q) \in {"cvm", "cbs", "clb"} -> IF mode = "hour" THEN Rates(p, "HOUR") ELSE Totals(p, "MONTH")
      [] Interface(q) = "InquiryPriceCreateVpnGateway" ->
         IF mode = "hour" THEN [UnitPrice |-> p.list, DiscountPrice |-> p.paid, ChargeUnit |-> "HOUR"]
                          ELSE Totals(p, "")
      [] Interface(q) = "InquiryPriceAllocateAddresses" ->
         IF mode = "hour" THEN Along([UnitPrice |-> p.list, ChargeUnit |-> "HOUR"], IfReduced(p, "DiscountPrice", 1))
                          ELSE Sale(p, 1)
      [] Interface(q) = "InquirePriceCreateDirectConnectGateway" ->
         Along([TotalCost |-> p.list], IfReduced(p, "RealTotalCost", 1))
      [] Interface(q) \in {"cdb", "postgres", "mariadb", "sqlserver", "dcdb"} ->
         Along([OriginalPrice |-> 100 * p.list], IfReduced(p, "Price", 100))
      [] Interface(q) = "redis" ->
         IF p.reduced THEN [Price |-> 100 * p.paid, HighPrecisionPrice |-> 100 * MicroPents * p.paid,
                            AmountUnit |-> "microPent"]
                      ELSE [Price |-> 100 * p.paid]
      [] Interface(q) = "mongodb" -> IF mode = "hour" THEN [UnitPrice |-> p.paid] ELSE Totals(p, "")
      [] Interface(q) = "cynosdb" -> Trade(p, mode, "HOUR")
      [] Interface(q) = "ecm" -> Sale(p, 100)
      [] Interface(q) = "gaap" ->
         Along([ProxyDailyPrice |-> p.list], IfReduced(p, "DiscountProxyDailyPrice", 1))
      [] Interface(q) = "cloudhsm" -> [TotalCost |-> p.paid, OriginalCost |-> p.list]
      [] OTHER -> Sale(p, 1)

\* The other lines of an answer.  Traffic is priced by the GB.
OtherParts(q, reduced) ==
    LET one == PriceOf("hour", 1, reduced) IN
    CASE Interface(q) = "clb" ->
         (CASE q.params.InternetChargeType = "BANDWIDTH_POSTPAID_BY_HOUR" -> Only("BandwidthPrice", Rates(one, "HOUR"))
            [] q.params.InternetChargeType = "TRAFFIC_POSTPAID_BY_HOUR" -> Only("BandwidthPrice", Rates(one, "GB"))
            [] OTHER -> <<>>)
      [] Interface(q) = "InquiryPriceCreateVpnGateway" -> Only("BandwidthPrice", Rates(one, "GB"))
      [] Interface(q) = "cynosdb" ->
         Only("StoragePrice", IF q.params.StoragePayMode = "PREPAID"
                              THEN Trade(PriceOf("month", q.params.StorageLimit, reduced), "month", "")
                              ELSE Trade(one, "hour", "GB*h"))
      [] OTHER -> <<>>

\* A list of names has an entry to renew, before or after the one for a new
\* name.
NameList(p, renewFirst) ==
    LET renew == [Operation |-> "renew", Price |-> 7 * p.list]
        new == Along([Operation |-> "new", Price |-> p.list], IfReduced(p, "RealPrice", 1))
    IN  IF renewFirst THEN <<renew, new>> ELSE <<new, renew>>

\* Without prices, with prices of 0, or with an error beside the prices.  A
\* list of names never says its currency; there stated chooses the order.
TencentAnswer(q, mode, wrong, reduced, wrapped, stated, currency) ==
    LET p == IF wrong = "zero" THEN [list |-> 0, paid |-> 0, reduced |-> reduced]
             ELSE PriceOf(mode, Units(q), reduced)
        word == IF stated /\ q.product # "domain" THEN [Currency |-> currency] ELSE <<>>
        main == Only(MainPart(q), Along(MainFields(q, mode, p), word))
        block == IF wrong = "empty" THEN <<>>
                 ELSE IF q.product = "domain" THEN NameList(p, stated)
                 ELSE IF wrong = "zero" THEN main
                 ELSE Along(main, OtherParts(q, reduced))
    IN  [errors |-> IF wrong = "refused" THEN {IF wrapped THEN "wrapped" ELSE "top"} ELSE {},
         top |-> IF wrapped THEN <<>> ELSE block, wrapped |-> IF wrapped THEN block ELSE <<>>]

-----------------------------------------------------------------------------
(* The services of the other clouds. *)

\* One unit for each module, by its own period; a use costs nothing ahead.
AlibabaAnswer(q, wrong, reduced, stated, currency) ==
    LET mode == [Hour |-> "hour", Day |-> "day", Usage |-> "gb"]
        of(m) == LET p == PriceOf(mode[m.by], IF wrong = "zero" THEN 0 ELSE 1, reduced) IN
                 [code |-> m.code, after |-> IF reduced THEN p.paid ELSE 0, original |-> p.list]
    IN  [currency |-> IF stated THEN currency ELSE "",
         modules |-> IF wrong \in {"refused", "empty"} THEN <<>>
                     ELSE [i \in DOMAIN q.params |-> of(q.params[i])]]

HuaweiAnswer(q, wrong, reduced, stated, currency) ==
    LET units == Cardinality({i \in DOMAIN q.params : q.params[i].measure = 4})
        p == PriceOf("hour", IF wrong = "zero" THEN 0 ELSE units, reduced)
        said == wrong \notin {"refused", "empty"}
    IN  [amount |-> When(said /\ reduced, {p.paid}), official |-> When(said, {p.list}),
         currency |-> IF stated THEN currency ELSE ""]

\* The list of AWS: what the resource is, something else that matches its
\* filters but is used in another way, and the same without a price.  Two zones cost twice as much as
\* one, and every region but the default one twice as much as that one.
AwsList(q, wrong) ==
    LET twice(condition) == IF condition THEN 2 ELSE 1
        price == Reduced[IF q.params.match = "EBS:VolumeUsage" THEN "month" ELSE "hour"]
                 * twice(<<"deploymentOption", "Multi-AZ">> \in q.params.filters)
                 * twice(<<"location", "us-east-1">> \notin q.params.filters)
        document(usage, amount) == [usage |-> {usage}, prices |-> {amount}]
        wanted == IF q.product = "AmazonDynamoDB" THEN <<"ReadCapacityUnit-Hrs", "WriteCapacityUnit-Hrs">>
                  ELSE <<q.params.match>>
        priced == [i \in DOMAIN wanted |-> document(wanted[i], IF wrong = "zero" THEN 0 ELSE price)]
        free == document(wanted[1], 0)
        other == [usage |-> {}, prices |-> {5}]
    IN  IF wrong = "empty" THEN <<>>
        ELSE IF wanted = <<"">> THEN <<free>> \o priced
        ELSE <<other, free>> \o priced

Permuted(s) == {s, Reverse(s)}
\* Where the pages of a list of n documents end, of one page or two.
PageEnds(n) == {<<k, n>> : k \in 0..n} \cup {<<n>>}

-----------------------------------------------------------------------------
(* The steps. *)

Init ==
    /\ plan \in Plans
    /\ site \in {"domestic", "intl"}
    /\ stage = "planned"
    /\ request = <<>> /\ answer = <<>> /\ quote = <<>>
    /\ fault = "none"
    /\ due = [amount |-> 0, currency |-> ""]

Skip == stage' = "skipped"

\* The mapper makes a request, or the resource is skipped with its reason.
Ask ==
    /\ stage = "planned"
    /\ \/ \E q \in Extract(plan) : stage' = "asked" /\ request' = q
       \/ Extract(plan) = {} /\ Skip /\ UNCHANGED request
    /\ UNCHANGED <<plan, site, answer, fault, due, quote>>

\* No handler, a product the site does not have, a service that does not
\* understand the request or a call that fails.
QueryFails ==
    /\ stage = "asked"
    /\ \/ (~Handled(request) \/ (request.provider = "tencent" /\ Understood(request) = {})) /\ UNCHANGED fault
       \/ fault' = "lost"
    /\ Skip
    /\ UNCHANGED <<plan, site, request, answer, due, quote>>

Answered(wrong, reduced) ==
    /\ stage' = "answered"
    /\ fault' = wrong
    /\ due' = Due(reduced)
    /\ UNCHANGED <<plan, site, request, quote>>

AnswerTencent ==
    /\ stage = "asked" /\ request.provider = "tencent" /\ Handled(request)
    /\ \E mode \in Understood(request), wrong \in Faults, reduced, wrapped, stated \in BOOLEAN :
        /\ answer' = TencentAnswer(request, mode, wrong, reduced, wrapped, stated, Due(reduced).currency)
        /\ Answered(wrong, reduced)

AnswerBss ==
    /\ stage = "asked" /\ request.provider \in {"alibaba", "huawei"}
    /\ \E wrong \in Faults, reduced, stated \in BOOLEAN :
        /\ answer' = IF request.provider = "alibaba"
                     THEN AlibabaAnswer(request, wrong, reduced, stated, Due(reduced).currency)
                     ELSE HuaweiAnswer(request, wrong, reduced, stated, Due(reduced).currency)
        /\ Answered(wrong, reduced)

\* The documents that were gathered, or no answer when the list is longer.
AnswerAws ==
    /\ stage = "asked" /\ request.provider = "aws"
    /\ \E wrong \in Faults \ {"refused"} : \E list \in Permuted(AwsList(request, wrong)) :
       \E ends \in PageEnds(Len(list)) : \E docs \in AwsQuery(list, ends) :
        /\ answer' = docs
        /\ Answered(IF Len(docs) < Len(list) THEN "cut" ELSE wrong, TRUE)

\* The mapper reads the answer, and an answer it refuses skips the resource.
Read ==
    /\ stage = "answered"
    /\ LET parsed == Parse(plan, request, answer, ExpectedCurrencyFor(request.provider)) IN
       \/ \E comps \in parsed : stage' = "priced" /\ quote' = comps
       \/ parsed = {} /\ Skip /\ UNCHANGED quote
    /\ UNCHANGED <<plan, site, request, answer, fault, due>>

Next == Ask \/ QueryFails \/ AnswerTencent \/ AnswerBss \/ AnswerAws \/ Read

Spec == Init /\ [][Next]_vars

-----------------------------------------------------------------------------
(* Properties. *)

Monthly == FoldLeft(LAMBDA sum, c : sum + c.monthly, 0, quote)

\* A price is the price of what was planned: asked for with the right way to
\* pay and the right units, and read from the right fields, in the right unit
\* and by the right period; and what has no price is not given one, be it in a
\* region the price list does not know (awsLocation).  Of a public address of
\* Huawei Cloud that is paid by traffic only a rate is known (HuaweiEIP).  And
\* it is labelled with the currency the cloud charges in, whether the answer
\* states it or not.
QuoteIsTrue ==
    stage = "priced" =>
        /\ plan.planned # <<>>
        /\ fault \in {"none", "cut"} /\ "gb" \notin DOMAIN plan.planned => Monthly = due.amount
        /\ \A i \in DOMAIN quote : quote[i].currency = due.currency

\* A resource with a price gets it: the request is one the service takes,
\* and the mapper finds the price in its answer.  What a site does not sell
\* is skipped (unavailableOnSites).
HealthyIsQuoted ==
    stage = "skipped" /\ fault = "none" /\ plan.planned # <<>>
        => DOMAIN request # {} /\ <<request.product, site>> \in Unavailable

\* No price is made of an answer that is an error, of an empty one, or of one
\* without a positive price (validateTencentPaidPrice, parseAlibabaPrice,
\* parseHuaweiPrice, firstOnDemandUSD).  The items of a public address of
\* Alibaba Cloud are not checked; NothingIsFree is about them.
NoPriceFromFaults ==
    stage = "priced" => fault \in {"none", "cut"} \/ (fault = "zero" /\ plan.type = "alicloud_eip")

\* "A response that yields no positive price ... is an ERROR, not a zero-cost
\* component": nothing is priced from an answer whose prices are all 0.
NothingIsFree == stage = "priced" => fault # "zero"
=============================================================================
