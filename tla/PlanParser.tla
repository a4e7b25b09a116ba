----------------------------- MODULE PlanParser -----------------------------
(***************************************************************************)
(* How a Terraform plan becomes the list of resources to price             *)
(* (parser/plan.go).                                                       *)
(*                                                                         *)
(* An address is a sequence of tokens: a module call or a resource is one  *)
(* token, and an index is made of its characters, "[", a key, "]", where a *)
(* key in quotes may hold any character, escaped or not.  A provider key   *)
(* is <<name>>, or <<name, n>> for an alias; the number stands for its     *)
(* place in the sorted order.  The empty tuple is no key, "" no region.    *)
(*                                                                         *)
(* The configuration is the sequence of its modules in the order of the    *)
(* walk, [path, resources]; a resource there is [address, key], its        *)
(* address relative to the module or from the root.                        *)
(***************************************************************************)
EXTENDS Integers, Sequences, SequencesExt, TLC

DoubleQuote == "\""
Backslash == "\\"

Scanned == [out |-> <<>>, index |-> FALSE, quote |-> FALSE, escaped |-> FALSE]

\* The first closing bracket ends the index, quoted or not.
ScanStep_Bug(s, char) ==
    IF ~s.index THEN IF char = "[" THEN [s EXCEPT !.index = TRUE] ELSE [s EXCEPT !.out = Append(@, char)]
    ELSE IF char = "]" THEN [s EXCEPT !.index = FALSE] ELSE s

ScanStep(s, char) ==
    CASE ~s.index -> IF char = "[" THEN [s EXCEPT !.index = TRUE]
                     ELSE [s EXCEPT !.out = Append(@, char)]
      [] s.index /\ s.escaped -> [s EXCEPT !.escaped = FALSE]
      [] s.index /\ ~s.escaped /\ s.quote /\ char = Backslash -> [s EXCEPT !.escaped = TRUE]
      [] s.index /\ ~s.escaped /\ char = DoubleQuote -> [s EXCEPT !.quote = ~@]
      [] s.index /\ ~s.escaped /\ ~s.quote /\ char = "]" -> [s EXCEPT !.index = FALSE]
      [] OTHER -> s

\* normalizeResourceAddress: the address without its indices.
Normalize(address) ==
    LET scan[i \in 0..Len(address)] ==
            IF i = 0 THEN Scanned ELSE ScanStep(scan[i - 1], address[i])
    IN  scan[Len(address)].out

-----------------------------------------------------------------------------
(* Regions. *)

\* resourceProviderConfigKeys, for one module: its resources under their
\* address as it is written, and from the root.
ProviderKeys(m) ==
    LET names == {[written |-> Normalize(r.address), key |-> r.key] : r \in m.resources}
        rooted == {[written |-> m.path \o n.written, key |-> n.key] :
                    n \in {x \in names : m.path # <<>> /\ ~IsPrefix(m.path, x.written)}}
    IN  [a \in {n.written : n \in names \cup rooted} |->
            (CHOOSE n \in names \cup rooted : n.written = a).key]

\* A module that comes later overrides what is there.
ResourceProviders(config) ==
    LET keys == [n \in DOMAIN config |-> ProviderKeys(config[n])]
        Naming(a) == {n \in DOMAIN config : a \in DOMAIN keys[n]}
        last(a) == CHOOSE n \in Naming(a) : \A other \in Naming(a) : other <= n
    IN  [a \in UNION {DOMAIN keys[n] : n \in DOMAIN config} |-> keys[last(a)][a]]

RegionOf(regions, key) == IF key \in DOMAIN regions THEN regions[key] ELSE ""

\* fallbackProviderRegion: the default provider, or its first alias that has a
\* region.
FallbackRegion(name, regions) ==
    LET aliases == {k \in DOMAIN regions : Len(k) = 2 /\ k[1] = name /\ regions[k] # ""} IN
    IF RegionOf(regions, <<name>>) # "" THEN RegionOf(regions, <<name>>)
    ELSE IF aliases = {} THEN ""
    ELSE regions[CHOOSE k \in aliases : \A other \in aliases : k[2] <= other[2]]

\* terraformProviderName and ProviderForType; a type is <<prefix, type>>.
ProviderName(type) == IF type[1] \in {"aws", "huaweicloud", "alicloud"} THEN type[1] ELSE "tencentcloud"

\* resolveResourceRegion: a resource's own attribute, or its provider, or,
\* when the configuration does not name its provider, what the type suggests.
Region(doc, r) ==
    LET keys == ResourceProviders(doc.config)
        address == Normalize(r.address)
        own == IF "region" \in DOMAIN r.after THEN r.after["region"] ELSE ""
    IN  IF own # "" THEN own
        ELSE IF address \in DOMAIN keys /\ keys[address] # <<>> THEN RegionOf(doc.regions, keys[address])
        ELSE FallbackRegion(ProviderName(r.type), doc.regions)

-----------------------------------------------------------------------------
(* The two ways to read a plan. *)

\* The elements of s at the places in I, in their order.
Those(s, I) == [k \in 1..Cardinality(I) |-> s[CHOOSE i \in I : Cardinality({j \in I : j <= i}) = k]]

Planned(doc, r) == [address |-> r.address, type |-> r.type, after |-> r.after, region |-> Region(doc, r)]

\* A replacement is not seen.
ContributesToCost_Bug(actions) == actions \in {<<"create">>, <<"update">>}

\* A replacement is a delete and a create, in either order.
ContributesToCost(actions) == "create" \in ToSet(actions) \/ "update" \in ToSet(actions)

LoadPlanJSON(doc) ==
    LET priced == Those(doc.changes, {i \in DOMAIN doc.changes : ContributesToCost(doc.changes[i].actions)})
    IN  [i \in DOMAIN priced |-> Planned(doc, priced[i])]

\* The inventory, if the plan has one, with the modules walked as they nest.
LoadPlanInventoryJSON(doc) ==
    IF doc.inventory = {} THEN LoadPlanJSON(doc)
    ELSE LET all == CHOOSE seq \in doc.inventory : TRUE
             managed == Those(all, {i \in DOMAIN all : all[i].mode = "managed"})
         IN  [i \in DOMAIN managed |-> Planned(doc, managed[i])]
=============================================================================
