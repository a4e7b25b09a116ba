----------------------------- MODULE MCEndToEnd -----------------------------
(***************************************************************************)
(* Constants of the runs of EndToEnd, over the resources of MCQuotes.      *)
(***************************************************************************)
EXTENDS EndToEnd, MCQuotes

TencentPlans == TencentMachines \cup TencentNetworks \cup TencentDatabases \cup TencentOthers

\* Two resources of a product that may differ, and one that has no mapper.
Account == Plan("tencentcloud_dcdb_account", None, None, None)
Pairs ==
    [name \in DOMAIN ResourceTypes |->
        LET own == {p \in TencentPlans : p.type \in ResourceTypes[name]} \cup {Account}
        IN  {<<p, q>> : p, q \in own}]

EachAndAll == {{name} : name \in DOMAIN ResourceTypes} \cup {DOMAIN ResourceTypes, {"none of them"}}
=============================================================================
