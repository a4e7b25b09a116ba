------------------------------ MODULE UsageFile ------------------------------
(***************************************************************************)
(* The usage file (parser/usage.go): what is accepted of it, and what the  *)
(* resources that are priced from usage alone make of it                   *)
(* (resources/tencentcloud_static.go).                                     *)
(*                                                                         *)
(* A file is [documents, mapping, version, resources, legacy]: the number  *)
(* of its documents, whether the top level is a mapping, the optional      *)
(* version, and the two contents.  A field that may be absent is the set   *)
(* of its value.  A blank stands for a text that is empty when trimmed.    *)
(***************************************************************************)
EXTENDS Integers, FiniteSets, Functions

CONSTANTS
    Largest,    \* the largest amount a float holds
    Upper       \* upper case, on every spelling of a currency

ASSUME UsageAssumption == Largest \in Nat

IsFinite(x) == -Largest <= x /\ x <= Largest

\* An item as it can be read, right or wrong.
AtMostOne(optional) == \A x, y \in optional : x = y
Readable(item) ==
    /\ AtMostOne(item.quantity) /\ item.quantity \subseteq Int
    /\ AtMostOne(item.rate)
    /\ \A rate \in item.rate :
        /\ AtMostOne(rate.amount) /\ rate.amount \subseteq Int
        /\ AtMostOne(rate.per) /\ rate.per \subseteq Int

ValidSource(s) ==
    /\ s.kind \in {"provider_documentation", "contract", "historical_bill", "other"}
    /\ s.reference # ""
    /\ s.asOf = "date"
    /\ s.confidence \in {"high", "medium", "low"}

ValidRate(r) ==
    /\ \E amount \in r.amount : IsFinite(amount) /\ amount >= 0
    /\ \E per \in r.per : IsFinite(per) /\ per > 0
    /\ \E currency \in r.currency : currency # ""
    /\ \E source \in r.source : ValidSource(source)

ValidItem(id, item) ==
    /\ id # ""
    /\ \E quantity \in item.quantity : IsFinite(quantity) /\ quantity >= 0
    /\ \E unit \in item.unit : unit # ""
    /\ item.pricing = {"supplied"}
    /\ \E rate \in item.rate : ValidRate(rate)

\* validateUsageDocument
ValidResources(resources) ==
    \A address \in DOMAIN resources :
        /\ address # <<>> /\ DOMAIN resources[address] # {}
        /\ \A id \in DOMAIN resources[address] : ValidItem(id, resources[address][id])

\* LoadUsageFile, as a condition; a file without a version is a legacy one.
Accepted(file) ==
    \/ file.documents = 0
    \/ /\ file.documents = 1 /\ file.mapping
       /\ \A v \in file.version : v = 1 /\ file.resources # {}
                                        /\ \A rs \in file.resources : ValidResources(rs)

The(set) == CHOOSE x \in set : TRUE

\* An item as it is used, the currency in upper case.
Item(item) ==
    LET rate == The(item.rate) IN
    [quantity |-> The(item.quantity), unit |-> The(item.unit),
     amount |-> The(rate.amount), per |-> The(rate.per), currency |-> Upper[The(rate.currency)]]

Nothing == [x \in {} |-> x]

\* LoadUsageFile, as what it returns.
Usage(file) ==
    IF file.documents = 0 THEN [version |-> 0, legacy |-> Nothing, resources |-> Nothing]
    ELSE IF file.version = {} THEN [version |-> 0, legacy |-> file.legacy, resources |-> Nothing]
    ELSE LET rs == The(file.resources) IN
         [version |-> 1, legacy |-> Nothing,
          resources |-> [a \in DOMAIN rs |-> [id \in DOMAIN rs[a] |-> Item(rs[a][id])]]]

-----------------------------------------------------------------------------
(* Resources priced from usage. *)

\* newUsageRateMapper for each of the resources: the unit of every item.
Vocabulary ==
    [tencentcloud_cos_bucket |->
        [standard_storage |-> "GB-month", get_requests |-> "request",
         put_requests |-> "request", internet_egress |-> "GB"],
     tencentcloud_cdn_domain |-> [traffic |-> "GB", https_requests |-> "request"],
     tencentcloud_cfs_file_system |-> [standard_storage |-> "GB-month"],
     tencentcloud_scf_function |->
        [compute |-> "GB-second", invocations |-> "request", internet_egress |-> "GB"],
     aws_s3_bucket |->
        [standard_storage |-> "GB-month", get_requests |-> "request",
         put_requests |-> "request", internet_egress |-> "GB"],
     aws_efs_file_system |-> [standard_storage |-> "GB-month"],
     aws_eip |-> [address_hours |-> "address-hour"]]

MonthlyCost(item) == (item.quantity * item.amount) \div item.per
UsageTotal(items) == SumFunction([id \in DOMAIN items |-> MonthlyCost(items[id])])

\* EstimateUsage, as a condition, on items that were accepted: all the items
\* of the vocabulary and no other, in its units, with a finite cost.
Estimable(allowed, items) ==
    /\ DOMAIN items # {} /\ DOMAIN items = DOMAIN allowed
    /\ \A id \in DOMAIN items : items[id].unit = allowed[id]
    /\ \A id \in DOMAIN items : IsFinite(MonthlyCost(items[id]))
    /\ IsFinite(UsageTotal(items))

\* EstimateUsage, as what it returns: the amount of each currency.
Estimate(items) ==
    [c \in {items[id].currency : id \in DOMAIN items} |->
        SumFunction([id \in {i \in DOMAIN items : items[i].currency = c} |-> MonthlyCost(items[id])])]
=============================================================================
