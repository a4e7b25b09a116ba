----------------------------- MODULE Validators -----------------------------
(***************************************************************************)
(* The judges of the end-to-end test (e2etest/tencentcloud/validators.go   *)
(* and products.go).  Each reads the price from the answer a second time,  *)
(* in its own way, and compares it with the components the mapper made.    *)
(*                                                                         *)
(* XVerdicts(q, answer, comps) is the set of the statuses of the checks.   *)
(* A price of 0 is suspicious and ends the checks; otherwise the price     *)
(* itself is a check that passes.  Amounts that are compared are in        *)
(* hundredths, so the tolerance of 0.01 is equality.                       *)
(***************************************************************************)
EXTENDS TencentMappers

\* Without checkPreZero.
Verdicts_Bug(price, pairs) == {"PASS"} \cup {IF pair[1] = pair[2] THEN "PASS" ELSE "FAIL" : pair \in pairs}

\* checkPreZero, then compareVal of each pair.
Verdicts(price, pairs) ==
    IF price = 0 THEN {"SUSPICIOUS"}
    ELSE {"PASS"} \cup {IF pair[1] = pair[2] THEN "PASS" ELSE "FAIL" : pair \in pairs}

AsHourly(price, comps) ==
    Verdicts(price, {<<price, comps[1].hourly>>, <<price * HoursPerMonth, comps[1].monthly>>})
AsMonthly(price, comps) == Verdicts(price, {<<price, comps[1].monthly>>})
OnlyMonthly(price, comps) == Verdicts(price, {<<price, comps[1].monthly>>, <<0, comps[1].hourly>>})

OrAmount(p, field, other) == IF Amount(p, field) = 0 THEN Amount(p, other) ELSE Amount(p, field)

\* Without the parameter in which MariaDB and DCDB name their way to pay.
ChargeKeys_Bug == {"InstanceChargeType", "ChargeType", "InternetChargeType", "InstancePayMode"}

\* The parameters isPrepaid looks at, besides the billing mode.  A block with
\* a prepaid period counts too; the mappers send one where the mode says it
\* as well, or to a judge that does not ask.
ChargeKeys == {"InstanceChargeType", "ChargeType", "InternetChargeType", "InstancePayMode", "Paymode"}

isPrepaid(q) ==
    \/ Word(q.params, "BillingMode") = "1"
    \/ \E key \in ChargeKeys : Up(Word(q.params, key)) \in WithPrepaid

-----------------------------------------------------------------------------
(* Virtual machines, balancers and disks. *)

cvmClb(q, answer, comps) ==
    LET p == Choose(answer, "InstancePrice", UnitPrices) IN
    IF isPrepaid(q) THEN OnlyMonthly(Yuan(Amount(p, "DiscountPrice")), comps)
    ELSE AsHourly(Yuan(Amount(p, "UnitPriceDiscount")), comps)

\* A disk is taken to be paid by the hour.
cbs(q, answer, comps) ==
    AsHourly(Yuan(Amount(Choose(answer, "DiskPrice", UnitPrices), "UnitPriceDiscount")), comps)

lighthouse(q, answer, comps) ==
    OnlyMonthly(Yuan(OrAmount(Choose(answer, "InstancePrice", Prices), "DiscountPrice", "OriginalPrice")), comps)

ecm(q, answer, comps) ==
    AsHourly(OrAmount(Choose(answer, "InstancePrice", Prices), "DiscountPrice", "OriginalPrice"), comps)

-----------------------------------------------------------------------------
(* Databases, in hundredths. *)

cdbFen(q, answer, comps) ==
    LET top == Part(answer.top, "")
        wrapped == Part(answer.wrapped, "")
        price == IF Shows(wrapped, {"Price", "OriginalPrice"}) THEN OrAmount(wrapped, "Price", "OriginalPrice")
                 ELSE OrAmount(top, "Price", "OriginalPrice")
    IN  IF isPrepaid(q) THEN OnlyMonthly(price, comps) ELSE AsHourly(price, comps)

redis(q, answer, comps) ==
    LET p == Choose(answer, "", {"Price", "HighPrecisionPrice"})
        price == Normalize(OrAmount(p, "HighPrecisionPrice", "Price"), OrText(Trim(Word(p, "AmountUnit")), "pent"))
    IN  IF isPrepaid(q) THEN AsMonthly(price, comps) ELSE AsHourly(price, comps)

mongodb(q, answer, comps) ==
    LET p == Choose(answer, "Price", {"UnitPrice", "DiscountPrice"}) IN
    IF isPrepaid(q) THEN AsMonthly(Yuan(Amount(p, "DiscountPrice")), comps)
    ELSE AsHourly(Yuan(Amount(p, "UnitPrice")), comps)

\* Prepaid, compute and storage against the sum of all components; by the
\* hour only the compute.
cynosdb(q, answer, comps) ==
    LET block == IF Shows(Part(answer.wrapped, "InstancePrice"), {"UnitPriceDiscount", "TotalPriceDiscount"})
                 THEN answer.wrapped ELSE answer.top
        of(part, field) == Amount(Part(block, part), field)
        total == of("InstancePrice", "TotalPriceDiscount") + of("StoragePrice", "TotalPriceDiscount")
        sum == comps[1].monthly + (IF Len(comps) = 2 THEN comps[2].monthly ELSE 0)
    IN  IF isPrepaid(q) THEN Verdicts(total, {<<total, sum>>})
        ELSE AsHourly(of("InstancePrice", "UnitPriceDiscount"), comps)

-----------------------------------------------------------------------------
(* Networks. *)

gaap(q, answer, comps) ==
    LET p == Choose(answer, "", {"DiscountProxyDailyPrice", "ProxyDailyPrice"})
        daily == Yuan(OrAmount(p, "DiscountProxyDailyPrice", "ProxyDailyPrice"))
    IN  Verdicts(daily, {<<Daily(daily), comps[1].monthly>>})

vpn(q, answer, comps) ==
    LET p == Choose(answer, "InstancePrice", {"UnitPrice", "DiscountPrice"}) IN
    IF isPrepaid(q) THEN AsMonthly(Yuan(OrAmount(p, "DiscountPrice", "OriginalPrice")), comps)
    ELSE AsHourly(Yuan(OrAmount(p, "DiscountPrice", "UnitPrice")), comps)

eip(q, answer, comps) ==
    LET p == Choose(answer, "AddressPrice", {"UnitPrice", "DiscountPrice", "OriginalPrice"}) IN
    IF isPrepaid(q) THEN AsMonthly(Yuan(OrAmount(p, "DiscountPrice", "OriginalPrice")), comps)
    ELSE AsHourly(Yuan(OrAmount(p, "DiscountPrice", "UnitPrice")), comps)

\* The price that is paid, of either place, before the list price.
dcg(q, answer, comps) ==
    LET first(m, n) == IF m = 0 THEN n ELSE m
        of(field) == first(Amount(Part(answer.top, ""), field), Amount(Part(answer.wrapped, ""), field))
    IN  AsMonthly(Yuan(first(of("RealTotalCost"), of("TotalCost"))), comps)

-----------------------------------------------------------------------------
(* Licences, hardware and names. *)

cwp(q, answer, comps) ==
    OnlyMonthly(Yuan(OrAmount(Choose(answer, "", Prices), "DiscountPrice", "OriginalPrice")), comps)

cloudhsm(q, answer, comps) ==
    LET wrapped == Part(answer.wrapped, "")
        p == IF {"TotalCost", "OriginalCost"} \cap DOMAIN wrapped # {} THEN wrapped ELSE Part(answer.top, "")
    IN  OnlyMonthly(Yuan(OrAmount(p, "TotalCost", "OriginalCost")), comps)

\* The first entry of the list, whatever it is the price of.
domain(q, answer, comps) ==
    LET list == IF answer.wrapped # <<>> THEN answer.wrapped ELSE answer.top
        yearly == Yuan(OrAmount(list[1], "RealPrice", "Price"))
    IN  IF list = <<>> THEN {"FAIL"} ELSE Verdicts(yearly, {<<yearly \div 12, comps[1].monthly>>})

-----------------------------------------------------------------------------
(* The products under test. *)

\* allTestCases, in their order.
AllTestCases ==
    <<"cvm", "cbs", "eip", "clb", "mysql", "postgresql", "redis", "vpn_gateway", "dc_gateway", "mongodb",
      "mariadb", "cynosdb", "lighthouse", "ecm", "sqlserver", "dcdb", "gaap", "cwp", "cloudhsm", "domain">>

\* The types of resource of each product.  The types of dcdb are those with
\* its prefix; the last one has no mapper.
ResourceTypes ==
    [cvm |-> {"tencentcloud_instance"}, cbs |-> {"tencentcloud_cbs_storage"}, eip |-> {"tencentcloud_eip"},
     clb |-> {"tencentcloud_clb_instance"}, mysql |-> {"tencentcloud_mysql_instance"},
     postgresql |-> {"tencentcloud_postgresql_instance"}, redis |-> {"tencentcloud_redis_instance"},
     vpn_gateway |-> {"tencentcloud_vpn_gateway"}, dc_gateway |-> {"tencentcloud_dc_gateway"},
     mongodb |-> {"tencentcloud_mongodb_instance"}, mariadb |-> {"tencentcloud_mariadb_instance"},
     cynosdb |-> {"tencentcloud_cynosdb_cluster"}, lighthouse |-> {"tencentcloud_lighthouse_instance"},
     ecm |-> {"tencentcloud_ecm_instance"}, sqlserver |-> {"tencentcloud_sqlserver_instance"},
     dcdb |-> {"tencentcloud_dcdb_db_instance", "tencentcloud_dcdb_hourdb_instance",
               "tencentcloud_dcdb_instance", "tencentcloud_dcdb_account"},
     gaap |-> {"tencentcloud_gaap_proxy"}, cwp |-> {"tencentcloud_cwp_license_order"},
     cloudhsm |-> {"tencentcloud_cloudhsm_instance"}, domain |-> {"tencentcloud_domain_registration"}]

\* The statuses of the checks of product name.
Validate(name, q, answer, comps) ==
    CASE name \in {"cvm", "clb"} -> cvmClb(q, answer, comps)
      [] name = "cbs" -> cbs(q, answer, comps)
      [] name \in {"mysql", "postgresql", "mariadb", "sqlserver", "dcdb"} -> cdbFen(q, answer, comps)
      [] name = "eip" -> eip(q, answer, comps)
      [] name = "redis" -> redis(q, answer, comps)
      [] name = "vpn_gateway" -> vpn(q, answer, comps)
      [] name = "dc_gateway" -> dcg(q, answer, comps)
      [] name = "mongodb" -> mongodb(q, answer, comps)
      [] name = "cynosdb" -> cynosdb(q, answer, comps)
      [] name = "lighthouse" -> lighthouse(q, answer, comps)
      [] name = "ecm" -> ecm(q, answer, comps)
      [] name = "gaap" -> gaap(q, answer, comps)
      [] name = "cwp" -> cwp(q, answer, comps)
      [] name = "cloudhsm" -> cloudhsm(q, answer, comps)
      [] name = "domain" -> domain(q, answer, comps)
=============================================================================
