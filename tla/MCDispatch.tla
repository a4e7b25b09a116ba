----------------------------- MODULE MCDispatch -----------------------------
(* Instances of Dispatch for TLC.                                          *)
EXTENDS Dispatch

CONSTANTS w1, w2

TwoWorkers == {w1, w2}

Request(provider, product, region) ==
    [provider |-> provider, product |-> product, region |-> region]

\* Two requests of one provider: of one SDK client, if north is the fallback
\* region, or of one backend.  Providers share nothing that is modelled here.
TwoOfAProvider ==
    {{Request("tencentcloud", "cloudhsm", r) : r \in {"north", NoRegion}}}
    \cup {{Request(p, "product", r) : r \in {"north", "south"}} : p \in Lazy}
InTheNorth == {{Request("tencentcloud", "cvm", "north")}}

OneCustom == {"gateway"}
NoPlaceholders == {}
Placeholders == {<<"cloudhsm", "intl">>}

All(selector) == [p \in Providers |-> selector]
Setting(flag, env, region) == [flag |-> flag, env |-> env, region |-> region]
OwnGateway == [All("") EXCEPT !["tencentcloud"] = "gateway"]

\* Every selector by flag and in the environment, and one against the other.
\* Flags of the lazy providers that are mistyped end the run.
FlagOrEnvironment ==
    {Setting(All(s), All(""), "north") : s \in Selectors}
    \cup {Setting(OwnGateway, All(""), "north"), Setting(All(""), All("gateway"), "north"),
          Setting(All("intl"), All("domestic"), "north")}
OwnDomain == {Setting(f, All(""), "north") : f \in {All(""), OwnGateway}}
=============================================================================
