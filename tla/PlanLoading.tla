---------------------------- MODULE PlanLoading ----------------------------
(***************************************************************************)
(* From a plan and a usage file to what the workers are given              *)
(* (cmd/cloudtab/main.go): the file is read and then the plan, versioned   *)
(* usage is checked as a whole, and each resource is looked at with its    *)
(* own usage.  A resource that needs a quote is left at "query"; the       *)
(* modules QueryEngine and Quotes take over there.                         *)
(***************************************************************************)
EXTENDS PlanParser, UsageFile

CONSTANTS
    Commands,   \* "breakdown", "diff": a diff reads each of its plans this way
    Worlds,     \* what Terraform is about to do: sequences of resource instances
                \* [address, of, keys, type, mode, after, actions], `of' being
                \* the address without indices and `keys' the indices
    Setups,     \* configurations of providers, [config, regions]; some old
                \* plans have none
    Files,      \* usage files
    Supported   \* the types that are priced with a quote

VARIABLES
    command, world, setup, file,
    legacyPlan, \* the plan has no inventory
    stage,      \* "usage", "plan", "check", "price", "done" or "failed"
    usage,      \* the accepted usage, once there is one
    loaded,     \* the resources of the plan
    results     \* what became of the first of them

\* What Terraform may do with a managed instance, and what leaves it in place.
ChangeActions == {<<"no-op">>, <<"create">>, <<"update">>, <<"delete">>, <<"forget">>,
                  <<"delete", "create">>, <<"create", "delete">>, <<"create", "forget">>}
Stays(r) == r.actions \notin {<<"delete">>, <<"forget">>}

\* How Terraform writes an index: a number, or a string in quotes, in which a
\* backslash comes before every quote and every backslash of the key.
IsNumber(key) ==
    /\ key \in Seq(Range(key)) /\ Len(key) > 2 /\ key[1] = "[" /\ key[Len(key)] = "]"
    /\ \A i \in 2..Len(key) - 1 : key[i] \notin {DoubleQuote, "]"}
IsQuoted(key) ==
    /\ key \in Seq(Range(key)) /\ Len(key) >= 4 /\ key[1] = "[" /\ key[Len(key)] = "]"
    /\ key[2] = DoubleQuote /\ key[Len(key) - 1] = DoubleQuote
    /\ \E escapes \in SUBSET (3..Len(key) - 3) :
        /\ \A i \in escapes : key[i] = Backslash /\ i + 1 \notin escapes
        /\ \A i \in 3..Len(key) - 2 :
            key[i] \in {DoubleQuote, Backslash} => i \in escapes \/ i - 1 \in escapes

\* An address: every name in it with its index, if it has one.
Spelled(names, keys) ==
    LET upTo[n \in 0..Len(names)] ==
            IF n = 0 THEN <<>> ELSE upTo[n - 1] \o <<names[n]>> \o keys[n]
    IN  upTo[Len(names)]
IsAddress(names) == names \in Seq(Range(names)) /\ "[" \notin Range(names)

\* What Terraform writes of an instance, at most one of each address that stays:
\* data sources are only read, and everything else is never read.
ASSUME WorldAssumption ==
    \A w \in Worlds :
        /\ w \in Seq(Range(w))
        /\ \A i \in DOMAIN w :
            \/ w[i].mode = "data" /\ w[i].actions \in {<<"no-op">>, <<"read">>}
            \/ w[i].mode = "managed" /\ w[i].actions \in ChangeActions
        /\ \A i \in DOMAIN w :
            /\ IsAddress(w[i].of) /\ w[i].address = Spelled(w[i].of, w[i].keys)
            /\ \A n \in DOMAIN w[i].of :
                w[i].keys[n] = <<>> \/ IsNumber(w[i].keys[n]) \/ IsQuoted(w[i].keys[n])
        /\ \A i, j \in DOMAIN w :
            w[i].address = w[j].address /\ Stays(w[i]) /\ Stays(w[j]) => i = j

\* The address from the root of a resource of the configuration.
Rooted(m, c) == IF IsPrefix(m.path, c.address) THEN c.address ELSE m.path \o c.address
Configured(config) ==
    UNION {{config[n]} \X config[n].resources : n \in DOMAIN config}

\* A configuration knows no instances, and has one resource of an address.
ASSUME SetupAssumption ==
    \A s \in Setups :
        /\ s.config \in Seq(Range(s.config))
        /\ \A o \in Configured(s.config) : IsAddress(o[2].address)
        /\ \A o, p \in Configured(s.config) : Rooted(o[1], o[2]) = Rooted(p[1], p[2]) => o = p

\* A usage file has each of its optional fields once, if at all.
ASSUME FilesAssumption ==
    \A f \in Files :
        /\ AtMostOne(f.version) /\ AtMostOne(f.resources)
        /\ \A rs \in f.resources : \A a \in DOMAIN rs : \A id \in DOMAIN rs[a] : Readable(rs[a][id])

inputs == <<command, world, setup, file, legacyPlan>>
vars == <<inputs, stage, usage, loaded, results>>

-----------------------------------------------------------------------------
(* The plan that Terraform writes. *)

PlanDocument ==
    [changes |-> world,
     inventory |-> IF legacyPlan THEN {} ELSE {Those(world, {i \in DOMAIN world : Stays(world[i])})},
     config |-> setup.config, regions |-> setup.regions]

\* The configured resource of an instance has its path and its name, whatever
\* the keys of the indices are.
Owner(r) == {o \in Configured(setup.config) : r.of = Rooted(o[1], o[2])}

Init ==
    /\ command \in Commands /\ world \in Worlds /\ setup \in Setups /\ file \in Files
    /\ legacyPlan \in BOOLEAN
    /\ setup.config # <<>> => \A i \in DOMAIN world : Stays(world[i]) => Owner(world[i]) # {}
    /\ stage = "usage" /\ usage = {} /\ loaded = <<>> /\ results = <<>>

LoadUsage ==
    /\ stage = "usage"
    /\ usage' = IF Accepted(file) THEN {Usage(file)} ELSE {}
    /\ stage' = IF Accepted(file) THEN "plan" ELSE "failed"
    /\ UNCHANGED <<inputs, loaded, results>>

LoadPlan ==
    /\ stage = "plan"
    /\ loaded' = IF command = "diff" THEN LoadPlanInventoryJSON(PlanDocument) ELSE LoadPlanJSON(PlanDocument)
    /\ stage' = "check"
    /\ UNCHANGED <<inputs, usage, results>>

\* Just that there is such a resource.
UsageFits_Bug(u) == \A a \in DOMAIN u.resources : \E i \in DOMAIN loaded : loaded[i].address = a

\* validateVersionedUsage: every resource of the file is in the plan, is
\* priced from usage, and could be.
UsageFits(u) ==
    u.version # 0 =>
        \A a \in DOMAIN u.resources : \E i \in DOMAIN loaded :
            /\ loaded[i].address = a
            /\ loaded[i].type[2] \in DOMAIN Vocabulary
            /\ Estimable(Vocabulary[loaded[i].type[2]], u.resources[a])

CheckUsage ==
    /\ stage = "check"
    /\ stage' = IF \A u \in usage : UsageFits(u) THEN "price" ELSE "failed"
    /\ UNCHANGED <<inputs, usage, loaded, results>>

\* The plan's attributes win.
MergeUsageIntoAfter_Bug(after, attributes) ==
    [k \in DOMAIN after \cup DOMAIN attributes |-> IF k \in DOMAIN after THEN after[k] ELSE attributes[k]]

\* mergeUsageIntoAfter: "usage wins on key conflict".
MergeUsageIntoAfter(after, attributes) ==
    [k \in DOMAIN after \cup DOMAIN attributes |-> IF k \in DOMAIN attributes THEN attributes[k] ELSE after[k]]

\* prepareResourceUsage
WithLegacyUsage(r, u) ==
    IF r.address \in DOMAIN u.legacy
    THEN [r EXCEPT !.after = MergeUsageIntoAfter(@, u.legacy[r.address])] ELSE r

NoCost == [c \in {} |-> 0]

\* priceResource, as far as it goes without a quote.
Outcome(r, u) ==
    LET prepared == WithLegacyUsage(r, u)
        priced == r.type[2] \in DOMAIN Vocabulary
        given == r.address \in DOMAIN u.resources
        result(what, cost) == [what |-> what, cost |-> cost, request |-> prepared]
    IN  CASE ~priced /\ r.type[2] \notin Supported -> result("unsupported", NoCost)
          [] ~priced /\ r.type[2] \in Supported -> result("query", NoCost)
          [] priced /\ ~given -> result("usage_required", NoCost)
          [] priced /\ given /\ ~Estimable(Vocabulary[r.type[2]], u.resources[r.address]) ->
                result("usage_error", NoCost)
          [] OTHER -> result("cost", Estimate(u.resources[r.address]))

PriceNext ==
    /\ stage = "price" /\ Len(results) < Len(loaded)
    /\ \E u \in usage : results' = Append(results, Outcome(loaded[Len(results) + 1], u))
    /\ UNCHANGED <<inputs, stage, usage, loaded>>

Finish ==
    /\ stage = "price" /\ Len(results) = Len(loaded)
    /\ stage' = "done"
    /\ UNCHANGED <<inputs, usage, loaded, results>>

Next == LoadUsage \/ LoadPlan \/ CheckUsage \/ PriceNext \/ Finish
Spec == Init /\ [][Next]_vars

-----------------------------------------------------------------------------
\* A diff prices what is there after the plan, unchanged resources included,
\* and a breakdown what the plan creates, updates or replaces; neither a data
\* source nor a resource that goes away is priced, and none is lost or doubled.
\* A plan without an inventory only tells the changes.
LoadsWhatIsPlanned ==
    LET inventory == command = "diff" /\ ~legacyPlan
        wanted == {i \in DOMAIN world :
                    /\ world[i].mode = "managed" /\ Stays(world[i])
                    /\ inventory \/ world[i].actions # <<"no-op">>}
    IN  stage \in {"check", "price", "done"} =>
            /\ Len(loaded) = Cardinality(wanted)
            /\ {loaded[i].address : i \in DOMAIN loaded} = {world[i].address : i \in wanted}

\* The region that the configuration really gives an instance: its attribute
\* or its provider's.
RealRegion(r) ==
    IF "region" \in DOMAIN r.after /\ r.after["region"] # "" THEN r.after["region"]
    ELSE LET key == (CHOOSE o \in Owner(r) : TRUE)[2].key IN
         IF key \in DOMAIN setup.regions THEN setup.regions[key] ELSE ""
HasProvider(r) == \E o \in Owner(r) : o[2].key # <<>>

\* README: aliases are resolved per resource through the provider key, so two
\* aliases of a cloud can use different regions.
RegionIsExact ==
    \A i \in DOMAIN loaded : \A j \in DOMAIN world :
        loaded[i].address = world[j].address /\ Stays(world[j]) /\ HasProvider(world[j])
            => loaded[i].region = RealRegion(world[j])

\* The same, unless a resource of a module is written under the address of one
\* of the root.
Shadowed(r) ==
    \E n \in DOMAIN setup.config :
        setup.config[n].path # <<>> /\ \E c \in setup.config[n].resources : c.address = r.of
            /\ ~IsPrefix(setup.config[n].path, c.address)
UnshadowedRegionIsExact ==
    \A i \in DOMAIN loaded : \A j \in DOMAIN world :
          /\ loaded[i].address = world[j].address /\ Stays(world[j])
          /\ HasProvider(world[j]) /\ ~Shadowed(world[j])
        => loaded[i].region = RealRegion(world[j])

\* Usage that cannot be priced is found before any resource is: no worker
\* meets it, and nothing has been asked of a provider by then.
BadUsageStopsTheRun ==
    \A i \in DOMAIN results : results[i].what # "usage_error"

\* What the stated quantities and rates of a resource come to.
StatedCost(a) ==
    LET items == [id \in DOMAIN The(file.resources)[a] |-> Item(The(file.resources)[a][id])]
    IN  [c \in {items[id].currency : id \in DOMAIN items} |->
            SumFunction([id \in DOMAIN items |-> IF items[id].currency = c THEN MonthlyCost(items[id]) ELSE 0])]

\* Usage becomes a cost only as a whole: every quantity that matters is stated,
\* and the cost is what the file says; without usage there is none.  And what a
\* legacy file says of a resource reaches its request and no other, and leaves
\* its other attributes alone.
UsageIsApplied ==
    \A i \in DOMAIN results :
        LET r == loaded[i]
            legacy == file.documents = 1 /\ file.version = {} /\ r.address \in DOMAIN file.legacy
        IN  /\ results[i].what = "cost" =>
                /\ file.version = {1} /\ r.address \in DOMAIN The(file.resources)
                /\ DOMAIN The(file.resources)[r.address] = DOMAIN Vocabulary[r.type[2]]
                /\ results[i].cost = StatedCost(r.address)
            /\ DOMAIN results[i].request.after =
                    DOMAIN r.after \cup (IF legacy THEN DOMAIN file.legacy[r.address] ELSE {})
            /\ \A k \in DOMAIN results[i].request.after :
                results[i].request.after[k] =
                    IF legacy /\ k \in DOMAIN file.legacy[r.address]
                    THEN file.legacy[r.address][k] ELSE r.after[k]
=============================================================================
