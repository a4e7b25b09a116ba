------------------------------ MODULE MCQuotes ------------------------------
(***************************************************************************)
(* Constants of the runs of Quotes.                                        *)
(***************************************************************************)
EXTENDS Quotes

None == [x \in {} |-> 0]
Plan(type, text, number, planned) ==
    [type |-> type, region |-> "region", text |-> text, number |-> number, planned |-> planned]

Hours(n) == [hour |-> n]
Month(n) == [month |-> n]

TencentMachines ==
    LET cvm == [instance_type |-> "S5", image_id |-> "img", availability_zone |-> "z1"]
        disk == [storage_type |-> "CLOUD_SSD", availability_zone |-> "z1"]
    IN {Plan("tencentcloud_instance", cvm, None, Hours(1)),
        Plan("tencentcloud_instance", cvm @@ [instance_charge_type |-> "PREPAID"], None, Month(1)),
        Plan("tencentcloud_instance", [instance_type |-> "S5"], None, None),
        Plan("tencentcloud_cbs_storage", disk, [storage_size |-> 2], Hours(2)),
        Plan("tencentcloud_cbs_storage", disk @@ [charge_type |-> "PREPAID"], [disk_size |-> 3], Month(3)),
        Plan("tencentcloud_lighthouse_instance", [bundle_id |-> "b"], [instance_count |-> 2], Month(2)),
        Plan("tencentcloud_lighthouse_instance", [bundle_id |-> " "], None, None),
        Plan("tencentcloud_ecm_instance", [instance_type |-> "S"], None, Hours(1))}

TencentNetworks ==
    LET proxy == [access_region |-> "a", realserver_region |-> "b"] IN
    {Plan("tencentcloud_clb_instance", None, None, Hours(1)),
     Plan("tencentcloud_clb_instance", None, [internet_max_bandwidth_out |-> 5], Hours(1)),
     Plan("tencentcloud_clb_instance", [internet_charge_type |-> "BANDWIDTH_POSTPAID_BY_HOUR"],
          [internet_max_bandwidth_out |-> 5], Hours(2)),
     Plan("tencentcloud_clb_instance", [load_balancer_charge_type |-> "PREPAID"], None, Month(1)),
     Plan("tencentcloud_eip", None, [internet_max_bandwidth_out |-> 2], Hours(2)),
     Plan("tencentcloud_eip", [internet_charge_type |-> "BANDWIDTH_PREPAID_BY_MONTH"], None, Month(1)),
     Plan("tencentcloud_vpn_gateway", [charge_type |-> "prepaid"], [bandwidth |-> 2], Month(2)),
     Plan("tencentcloud_vpn_gateway", None, [internet_max_bandwidth_out |-> 2], Hours(2)),
     Plan("tencentcloud_vpn_gateway", None, None, None),
     Plan("tencentcloud_dc_gateway", None, None, Month(1)),
     Plan("tencentcloud_gaap_proxy", proxy, [bandwidth |-> 2, concurrent |-> 1], [day |-> 2]),
     Plan("tencentcloud_gaap_proxy", proxy, [bandwidth |-> 2], None)}

TencentDatabases ==
    LET zone == [availability_zone |-> "z1"]
        sizes == [memory |-> 4, volume |-> 5]
        stored == [memory |-> 4, storage |-> 5]
        cluster == [cpu |-> 2, memory |-> 4]
        shards == [shard_memory |-> 2, shard_storage |-> 3, shard_count |-> 2]
        paid(as) == zone @@ [charge_type |-> as]
    IN {Plan("tencentcloud_mysql_instance", zone, sizes, Hours(1)),
        Plan("tencentcloud_mysql_instance", paid("prepaid"), sizes @@ [count |-> 2], Month(2)),
        Plan("tencentcloud_mysql_instance", paid("PRE_PAID"), [mem_size |-> 4, volume_size |-> 5], Month(1)),
        Plan("tencentcloud_mysql_instance", zone, None, None),
        Plan("tencentcloud_postgresql_instance", paid("POSTPAID_BY_HOUR"), [cpu |-> 4, memory |-> 16, storage |-> 1], Hours(4)),
        Plan("tencentcloud_postgresql_instance", zone, [cpu |-> 8, memory |-> 64, storage |-> 1], Month(8)),
        Plan("tencentcloud_postgresql_instance", zone, [cpu |-> 12, memory |-> 64, storage |-> 1], Month(12)),
        Plan("tencentcloud_postgresql_instance", zone, [cpu |-> 3, memory |-> 4, storage |-> 1], Month(2)),
        Plan("tencentcloud_postgresql_instance", zone, [memory |-> 64, storage |-> 1], Month(8)),
        Plan("tencentcloud_postgresql_instance", zone @@ [spec_code |-> "pg"], [storage |-> 1], Month(1)),
        Plan("tencentcloud_postgresql_instance", zone, [cpu |-> 1, memory |-> 3, storage |-> 1], None),
        Plan("tencentcloud_redis_instance", zone, [mem_size |-> 1, count |-> 3], Hours(3)),
        Plan("tencentcloud_redis_instance", paid("prepaid"), [mem_size |-> 1], Month(1)),
        Plan("tencentcloud_mongodb_instance", zone, sizes, Hours(1)),
        Plan("tencentcloud_mongodb_instance", paid("postpaid"), sizes, Hours(1)),
        Plan("tencentcloud_mongodb_instance", paid("prepaid"), sizes @@ [count |-> 2], Month(2)),
        Plan("tencentcloud_mariadb_instance", zone, stored, Hours(1)),
        Plan("tencentcloud_mariadb_instance", zone, stored @@ [period |-> 3], Month(1)),
        Plan("tencentcloud_mariadb_instance", paid("POSTPAID_BY_HOUR"), stored @@ [period |-> 3], Hours(1)),
        Plan("tencentcloud_sqlserver_instance", zone, stored, Hours(1)),
        Plan("tencentcloud_sqlserver_instance", paid("prepaid"), stored @@ [count |-> 2], Month(2)),
        Plan("tencentcloud_dcdb_db_instance", zone, shards, Month(2)),
        Plan("tencentcloud_dcdb_hourdb_instance", zone, shards @@ [count |-> 2], Hours(4)),
        Plan("tencentcloud_cynosdb_cluster", zone, cluster, Hours(1)),
        Plan("tencentcloud_cynosdb_cluster", paid("PREPAID_BY_MONTH"), cluster @@ [storage_limit |-> 5], Month(6)),
        Plan("tencentcloud_cynosdb_cluster", zone, cluster @@ [storage_limit |-> 5, storage_pay_mode |-> 1],
             [hour |-> 1, month |-> 5]),
        Plan("tencentcloud_cynosdb_cluster", zone @@ [db_mode |-> "serverless"], [max_cpu |-> 2, instance_count |-> 2], Hours(2)),
        Plan("tencentcloud_cynosdb_cluster", paid("PREPAID"), cluster, None)}

TencentOthers ==
    {Plan("tencentcloud_cwp_license_order", None, [license_num |-> 3], Month(3)),
     Plan("tencentcloud_cloudhsm_instance", None, None, Month(1)),
     Plan("tencentcloud_domain_registration", [domain_name |-> "d"], [period |-> 2], [year |-> 1]),
     Plan("tencentcloud_domain_registration", None, None, None),
     Plan("tencentcloud_unknown", None, None, None)}

BssPlans ==
    LET huawei(name) == Plan("huaweicloud_" \o name, None, None, Hours(1))
        free == [hour |-> 1, gb |-> 1]
    IN {huawei(name) : name \in {"evs_volume", "elb_loadbalancer", "nat_gateway", "rds_instance",
                                 "dcs_instance", "dds_instance", "cce_cluster"}}
       \cup {Plan("huaweicloud_compute_instance", [flavor_id |-> "s6"], None, Hours(1)),
             Plan("huaweicloud_compute_instance", None, None, None),
             Plan("huaweicloud_vpc_eip", None, [size |-> 5], Hours(2)),
             Plan("huaweicloud_vpc_eip", "bandwidth.charge_mode" :> "traffic", None, free),
             Plan("alicloud_instance", [instance_type |-> "g6", system_disk_category |-> "essd"], None, Hours(2)),
             Plan("alicloud_instance", [instance_type |-> " "], None, None),
             Plan("alicloud_disk", None, None, Hours(1)),
             Plan("alicloud_eip", [internet_charge_type |-> "PayByTraffic"], None, [hour |-> 1, day |-> 1]),
             Plan("alicloud_slb_load_balancer", None, None, Hours(3)),
             Plan("alicloud_db_instance", [instance_type |-> "m"], None, Hours(2)),
             Plan("alicloud_kvstore_instance", None, None, Hours(1)),
             Plan("alicloud_mongodb_instance", None, None, Hours(2)),
             Plan("alicloud_nat_gateway", None, None, [day |-> 1]),
             Plan("alicloud_vpn_gateway", None, None, Hours(1))}

At(region, p) == [p EXCEPT !.region = region]

AwsPlans ==
    LET db == [instance_class |-> "db.m5", engine |-> "postgres"] IN
    {At("us-east-1", p) : p \in
        {Plan("aws_instance", [instance_type |-> "m5", tenancy |-> "dedicated"], None, Hours(1)),
         Plan("aws_instance", None, None, None),
         Plan("aws_ebs_volume", None, [size |-> 8], Month(8)),
         Plan("aws_db_instance", db, [multi_az |-> 1], Hours(2)),
         Plan("aws_db_instance", [db EXCEPT !.engine = "db2"], None, None),
         Plan("aws_elasticache_cluster", [node_type |-> "t3"], [num_cache_nodes |-> 3], Hours(3)),
         Plan("aws_lb", [load_balancer_type |-> "network"], None, Hours(1)),
         Plan("aws_lb", [load_balancer_type |-> "other"], None, None),
         Plan("aws_elb", None, None, Hours(1)),
         Plan("aws_rds_cluster_instance", [instance_class |-> "r5"], None, Hours(1)),
         Plan("aws_redshift_cluster", [node_type |-> "ra3"], [number_of_nodes |-> 2], Hours(2)),
         Plan("aws_opensearch_domain", "cluster_config.instance_type" :> "m5",
              "cluster_config.instance_count" :> 2, Hours(2)),
         Plan("aws_docdb_cluster_instance", db, None, Hours(1)),
         Plan("aws_neptune_cluster_instance", db, None, Hours(1)),
         Plan("aws_memorydb_cluster", [node_type |-> "r6"], [num_shards |-> 2, num_replicas_per_shard |-> 1], Hours(4)),
         Plan("aws_mq_broker", [host_instance_type |-> "mq.m5", engine_type |-> "RabbitMQ",
                                deployment_mode |-> "CLUSTER_MULTI_AZ"], None, Hours(2)),
         Plan("aws_msk_cluster", "broker_node_group_info.instance_type" :> "kafka.m5.large",
              [number_of_broker_nodes |-> 3], Hours(3)),
         Plan("aws_dynamodb_table", None, [read_capacity |-> 3, write_capacity |-> 2], Hours(5)),
         Plan("aws_dynamodb_table", [billing_mode |-> "PAY_PER_REQUEST"], [read_capacity |-> 3], None),
         Plan("aws_eks_cluster", None, None, Hours(1))}}
    \cup {At("", Plan("aws_nat_gateway", None, None, Hours(1))),
          At("eu-west-1", Plan("aws_nat_gateway", None, None, Hours(2))),
          At("mars-1", Plan("aws_nat_gateway", None, None, None))}

AllPlans == TencentMachines \cup TencentNetworks \cup TencentDatabases \cup TencentOthers \cup BssPlans \cup AwsPlans
=============================================================================
