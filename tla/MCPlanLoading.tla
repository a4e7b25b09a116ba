--------------------------- MODULE MCPlanLoading ---------------------------
(* Instances of PlanLoading for TLC: resources in the root and in a module, *)
(* with and without indices, under two regions, and a usage file with each  *)
(* of the mistakes that are told apart.                                     *)
EXTENDS PlanLoading

Spellings == ("" :> "") @@ ("usd" :> "USD") @@ ("USD" :> "USD") @@ ("CNY" :> "CNY")

Web == <<"aws", "aws_instance">>
Cdn == <<"tencentcloud", "tencentcloud_cdn_domain">>
Other == <<"aws", "aws_iam_role">>
Instance(of, keys, type, actions) ==
    [address |-> Spelled(of, keys), of |-> of, keys |-> keys, type |-> type,
     mode |-> "managed", actions |-> actions, after |-> ("size" :> "small")]
InRegion(r, region) == [r EXCEPT !.after = @ @@ ("region" :> region)]

Key == <<"[", DoubleQuote, "]", Backslash, DoubleQuote, "x", DoubleQuote, "]">>
Number == <<"[", "0", "]">>
Plain == <<<<>>>>

Flat == <<
    Instance(<<"web">>, Plain, Web, <<"update">>),
    Instance(<<"cdn">>, Plain, Cdn, <<"no-op">>),
    [Instance(<<"data">>, Plain, Web, <<"read">>) EXCEPT !.mode = "data"],
    Instance(<<"old">>, Plain, Web, <<"delete">>)>>
Indexed == <<
    Instance(<<"web">>, <<Key>>, Web, <<"create">>),
    Instance(<<"web">>, <<Number>>, Web, <<"no-op">>),
    Instance(<<"cdn">>, Plain, Cdn, <<"create">>)>>
Nested == <<
    Instance(<<"web">>, Plain, Web, <<"delete", "create">>),
    InRegion(Instance(<<"module.m", "web">>, <<Key, <<>>>>, Web, <<"create", "delete">>), "north"),
    Instance(<<"module.m", "web">>, <<Number, <<>>>>, Web, <<"no-op">>),
    Instance(<<"module.m", "role">>, <<Number, <<>>>>, Other, <<"create">>),
    Instance(<<"gone">>, Plain, Cdn, <<"forget">>)>>
AllWorlds == {Flat, Indexed, Nested}

Main == <<"aws">>
West == <<"aws", 1>>
Tencent == <<"tencentcloud">>
In(path, resources) == [path |-> path, resources |-> resources]
Resource(address, key) == [address |-> address, key |-> key]
Root(webKey) == In(<<>>, {Resource(<<"web">>, webKey), Resource(<<"cdn">>, Tencent), Resource(<<"data">>, Main)})
Module(written) == In(<<"module.m">>, {Resource(written \o <<"web">>, West), Resource(written \o <<"role">>, Main)})
Regions == (Main :> "east") @@ (West :> "west") @@ (Tencent :> "")
AllSetups == {
    [config |-> <<Root(Main)>>, regions |-> Regions],
    [config |-> <<Root(West), Module(<<>>)>>, regions |-> Regions],
    [config |-> <<Root(Main), Module(<<>>)>>, regions |-> Regions],
    [config |-> <<Root(West), Module(<<"module.m">>)>>, regions |-> Regions],
    [config |-> <<>>, regions |-> (West :> "west") @@ (<<"aws", 2>> :> "south")]}

Source == [kind |-> "contract", reference |-> "2026-17", asOf |-> "date", confidence |-> "high"]
Rate == [amount |-> {2}, per |-> {1}, currency |-> {"usd"}, source |-> {Source}]
Use(quantity, unit) ==
    [quantity |-> {quantity}, unit |-> {unit}, pricing |-> {"supplied"}, rate |-> {Rate}]
Good == [traffic |-> Use(3, "GB"), https_requests |-> Use(0, "request")]
NoFile == [documents |-> 0, mapping |-> FALSE, version |-> {}, resources |-> {}, legacy |-> Nothing]
Legacy == [NoFile EXCEPT !.documents = 1, !.mapping = TRUE,
                         !.legacy = (<<"web">> :> ("size" :> "large" @@ "count" :> "2"))]
Versioned(resources) == [Legacy EXCEPT !.version = {1}, !.resources = {resources}, !.legacy = Nothing]
ForCdn(items) == Versioned(<<"cdn">> :> items)
AllFiles == {
    NoFile, Legacy,
    [Legacy EXCEPT !.documents = 2],
    [Legacy EXCEPT !.mapping = FALSE],
    [ForCdn(Good) EXCEPT !.version = {2}],
    [ForCdn(Good) EXCEPT !.resources = {}],
    ForCdn(Good),
    ForCdn([traffic |-> Use(3, "GB")]),
    ForCdn([Good EXCEPT !.traffic = Use(3, "request")]),
    ForCdn([Good EXCEPT !.traffic = Use(-1, "GB")]),
    ForCdn([Good EXCEPT !.traffic = Use(6, "GB")]),
    ForCdn([Good EXCEPT !.traffic.rate = {[Rate EXCEPT !.currency = {"CNY"}, !.per = {3}]}]),
    ForCdn([Good EXCEPT !.traffic.rate = {[Rate EXCEPT !.per = {0}]}]),
    ForCdn([Good EXCEPT !.traffic.rate = {[Rate EXCEPT !.source = {[Source EXCEPT !.kind = "rumour"]}]}]),
    Versioned(<<"web">> :> Good),
    Versioned(<<"gone">> :> Good)}
Both == {"breakdown", "diff"}
JustNested == {Nested}
JustNoFile == {NoFile}
=============================================================================
