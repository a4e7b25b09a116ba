----------------------------- MODULE AwsMappers -----------------------------
(***************************************************************************)
(* The mappers of AWS (resources/aws_*.go), and how the backend gathers    *)
(* the pages of its price list (pricing/aws_backend.go).                   *)
(*                                                                         *)
(* A request filters the price list by attributes, <<field, value>>, and   *)
(* keeps what Parse needs later: the fragment of the usage type it looks   *)
(* for and how many units to multiply by.  A document of the list is       *)
(* [attributes, usage, prices]: its attributes, the fragments its usage    *)
(* type contains and the prices of its dimensions in dollars, in no order. *)
(* An XParse(q, docs) is the set of the components that may come out, {}   *)
(* when the answer is refused.                                             *)
(***************************************************************************)
EXTENDS PriceForms

CONSTANT MaxResults    \* awsMaxResults: how many documents a query may gather

ASSUME MaxResultsIsPositive == MaxResults \in Nat \ {0}

\* awsRegionToLocation; a location has one region, so the region stands for it.
AwsRegions ==
    {"us-east-1", "us-east-2", "us-west-1", "us-west-2", "ca-central-1", "eu-west-1", "eu-west-2",
     "eu-west-3", "eu-central-1", "eu-north-1", "eu-south-1", "ap-east-1", "ap-south-1",
     "ap-northeast-1", "ap-northeast-2", "ap-northeast-3", "ap-southeast-1", "ap-southeast-2",
     "ap-southeast-3", "ap-southeast-4", "ap-south-2", "eu-central-2", "eu-south-2", "me-central-1",
     "il-central-1", "ca-west-1", "sa-east-1", "me-south-1", "af-south-1"}

AwsRegionOrDefault(region) == OrText(Trim(region), "us-east-1")

\* awsLocation, the set of the location: an unknown region has none.
AwsLocation(region) == {AwsRegionOrDefault(region)} \cap AwsRegions

\* awsPriceRequest, if the mapper has what it requires and the region is known.
AwsRequest(required, service, r, filters, match, quantity) ==
    When(required,
         {[provider |-> "aws", product |-> service, action |-> "", region |-> AwsRegionOrDefault(r.region),
           params |-> [filters |-> filters \cup {<<"location", location>>},
                       match |-> match, quantity |-> quantity]] : location \in AwsLocation(r.region)})

-----------------------------------------------------------------------------
(* Gathering the list. *)

\* query: pages until MaxResults documents are there; an error, {}, when the
\* list goes on after that, and no error when the last page did.  The i-th page
\* ends with document ends[i] of the list.
AwsQuery(list, ends) ==
    LET enough == {i \in DOMAIN ends : ends[i] >= MaxResults}
    IN  IF enough = {} THEN {list}
        ELSE When(enough = {Len(ends)}, {SubSeq(list, 1, MaxResults)})

-----------------------------------------------------------------------------
(* Reading it. *)

Matching(docs, match) == {i \in DOMAIN docs : match = "" \/ match \in docs[i].usage}

\* parseAWSPriceList and parseAWSPriceListMatching, with firstOnDemandUSD: a
\* positive price of the first document that has one; the dimensions of a
\* document are walked in no order.
AwsPrices(docs, match) ==
    LET priced == {i \in Matching(docs, match) : \E p \in docs[i].prices : p > 0}
        first == CHOOSE i \in priced : \A j \in priced : i <= j
    IN  IF priced = {} THEN {} ELSE {p \in docs[first].prices : p > 0}

\* awsSimpleCost, awsScaledCost and parseUsageMatched.
AwsHourly(docs, match, count) ==
    {SimpleHourlyCost(Yuan(p) * OrNumber(count, 1), "USD") : p \in AwsPrices(docs, match)}

\* Parse of the mappers that price by the hour.
AwsHourlyParse(q, docs) == AwsHourly(docs, q.params.match, q.params.quantity)

AwsEBSParse(q, docs) ==
    {<<Component("GB-MONTH", 0, Yuan(p) * OrNumber(q.params.quantity, 1), "USD")>> :
        p \in AwsPrices(docs, q.params.match)}

\* The capacities for reads and writes, both or no price at all.
AwsDynamoDBParse(q, docs) ==
    LET of(match, count) == IF count > 0 THEN AwsHourly(docs, match, count) ELSE {<<>>} IN
    {reads \o writes : reads \in of("ReadCapacityUnit-Hrs", q.params.quantity[1]),
                       writes \in of("WriteCapacityUnit-Hrs", q.params.quantity[2])}

-----------------------------------------------------------------------------
(* Machines and disks. *)

AwsTenancy(said) == CASE said = "dedicated" -> "Dedicated" [] said = "host" -> "Host" [] OTHER -> "Shared"

AwsInstanceExtract(r) ==
    AwsRequest(Text(r, "instance_type") # "", "AmazonEC2", r,
        {<<"instanceType", Text(r, "instance_type")>>, <<"tenancy", AwsTenancy(Text(r, "tenancy"))>>,
         <<"operatingSystem", "Linux">>, <<"preInstalledSw", "NA">>, <<"capacitystatus", "Used">>}, "", 1)

\* The price is of a GB and a month.
AwsEBSExtract(r) ==
    AwsRequest(Number(r, "size") > 0, "AmazonEC2", r,
        {<<"volumeApiName", OrText(Text(r, "type"), "gp2")>>, <<"productFamily", "Storage">>},
        "EBS:VolumeUsage", Number(r, "size"))

AwsLBFamily ==
    [application |-> "Load Balancer-Application", network |-> "Load Balancer-Network",
     gateway |-> "Load Balancer-Gateway"]

AwsELBRequest(required, r, family) ==
    AwsRequest(required, "AWSELB", r,
        {<<"locationType", "AWS Region">>, <<"productFamily", family>>}, "LoadBalancerUsage", 1)

AwsLBExtract(r) ==
    LET kind == OrText(Text(r, "load_balancer_type"), "application") IN
    IF kind \in DOMAIN AwsLBFamily THEN AwsELBRequest(TRUE, r, AwsLBFamily[kind]) ELSE {}

AwsELBExtract(r) == AwsELBRequest(TRUE, r, "Load Balancer")

AwsEKSExtract(r) == AwsRequest(TRUE, "AmazonEKS", r, {}, "AmazonEKS-Hours", 1)

AwsNATExtract(r) ==
    AwsRequest(TRUE, "AmazonEC2", r, {<<"productFamily", "NAT Gateway">>}, "NatGateway-Hours", 1)

-----------------------------------------------------------------------------
(* Databases. *)

\* awsRDSEngine, "" for an engine that is not known.
AwsRDSEngine(engine) ==
    CASE engine = "mysql" -> "MySQL"
      [] engine \in {"postgres", "postgresql"} -> "PostgreSQL"
      [] engine = "mariadb" -> "MariaDB"
      [] engine \in {"oracle-se", "oracle-se1", "oracle-se2", "oracle-ee", "oracle-ee-cdb", "oracle-se2-cdb"}
         -> "Oracle"
      [] engine \in {"sqlserver-ee", "sqlserver-se", "sqlserver-ex", "sqlserver-web"} -> "SQL Server"
      [] engine \in {"aurora-mysql", "aurora"} -> "Aurora MySQL"
      [] engine = "aurora-postgresql" -> "Aurora PostgreSQL"
      [] OTHER -> ""

AwsRDSRequest(class, service, r, filters) ==
    AwsRequest(class # "", service, r,
        {<<"instanceType", class>>, <<"productFamily", "Database Instance">>} \cup filters, "", 1)

\* A flag that is set is the number 1.
AwsDBExtract(r) ==
    LET engine == AwsRDSEngine(Text(r, "engine")) IN
    When(engine # "", AwsRDSRequest(Text(r, "instance_class"), "AmazonRDS", r,
        {<<"databaseEngine", engine>>,
         <<"deploymentOption", IF Number(r, "multi_az") = 1 THEN "Multi-AZ" ELSE "Single-AZ">>}))

AwsRDSClusterExtract(r) ==
    AwsRDSRequest(Text(r, "instance_class"), "AmazonRDS", r,
        {<<"databaseEngine", OrText(AwsRDSEngine(Text(r, "engine")), "Aurora MySQL")>>,
         <<"deploymentOption", "Single-AZ">>})

AwsDocDBExtract(r) == AwsRDSRequest(Text(r, "instance_class"), "AmazonDocDB", r, {})
AwsNeptuneExtract(r) == AwsRDSRequest(Text(r, "instance_class"), "AmazonNeptune", r, {})

AwsCacheEngine(engine) ==
    CASE engine \in {"redis", "valkey", ""} -> "Redis" [] engine = "memcached" -> "Memcached" [] OTHER -> ""

AwsElastiCacheExtract(r) ==
    LET engine == AwsCacheEngine(Text(r, "engine")) IN
    AwsRequest(Text(r, "node_type") # "" /\ engine # "", "AmazonElastiCache", r,
        {<<"instanceType", Text(r, "node_type")>>, <<"cacheEngine", engine>>,
         <<"productFamily", "Cache Instance">>}, "", OrNumber(Number(r, "num_cache_nodes"), 1))

AwsRedshiftExtract(r) ==
    AwsRequest(Text(r, "node_type") # "", "AmazonRedshift", r,
        {<<"instanceType", Text(r, "node_type")>>, <<"productFamily", "Compute Instance">>},
        "", OrNumber(Number(r, "number_of_nodes"), 1))

AwsOpenSearchExtract(r) ==
    LET type == Text(r, "cluster_config.instance_type") IN
    AwsRequest(type # "", "AmazonES", r, {<<"instanceType", type>>},
        "", OrNumber(Number(r, "cluster_config.instance_count"), 1))

\* Capacity for reads and for writes; what is paid by use is not priced.
AwsDynamoDBExtract(r) ==
    LET reads == Number(r, "read_capacity")
        writes == Number(r, "write_capacity")
    IN  AwsRequest(Text(r, "billing_mode") \in {"", "PROVISIONED"} /\ (reads > 0 \/ writes > 0),
            "AmazonDynamoDB", r, {<<"groupDescription", "DynamoDB Provisioned">>}, "", <<reads, writes>>)

-----------------------------------------------------------------------------
(* Streams: the type of the machine is in the usage type only. *)

\* Every replica is a node beside the one of its shard.
MemoryDBNodes(shards, replicas) == OrNumber(shards, 1) * (1 + OrNumber(replicas, 0))

AwsMemoryDBExtract(r) ==
    AwsRequest(Text(r, "node_type") # "", "MemoryDB", r, {}, Text(r, "node_type"),
        MemoryDBNodes(Number(r, "num_shards"), Number(r, "num_replicas_per_shard")))

AwsMQExtract(r) ==
    LET multi == Text(r, "deployment_mode") \in {"ACTIVE_STANDBY_MULTI_AZ", "CLUSTER_MULTI_AZ"} IN
    AwsRequest(Text(r, "host_instance_type") # "" /\ Text(r, "engine_type") \in {"ActiveMQ", "RabbitMQ"},
        "AmazonMQ", r,
        {<<"brokerEngine", Text(r, "engine_type")>>, <<"productFamily", "Broker Instances">>,
         <<"deploymentOption", IF multi THEN "Multi-AZ" ELSE "Single-AZ">>},
        Text(r, "host_instance_type"), 1)

\* mskUsageFragment: the type without its prefix.
MskFragment(type) == IF type = "kafka.m5.large" THEN "m5.large" ELSE type

AwsMSKExtract(r) ==
    LET type == Text(r, "broker_node_group_info.instance_type") IN
    AwsRequest(type # "", "AmazonMSK", r,
        {<<"productFamily", "Managed Streaming for Apache Kafka (MSK)">>},
        MskFragment(type), OrNumber(Number(r, "number_of_broker_nodes"), 1))
=============================================================================
