-------------------------- MODULE MCReportPipeline --------------------------
(* Instances of ReportPipeline for TLC.  Addresses are numbers, in no        *)
(* particular order in a plan.                                               *)
EXTENDS ReportPipeline

Diff == {"before", "after"}
FiveResources == [before |-> <<3, 1, 4, 2>>, after |-> <<2>>]

Setting(concurrency, failOnError, failOnSkipped) ==
    [concurrency |-> concurrency, failOnError |-> failOnError, failOnSkipped |-> failOnSkipped]
DefaultOrTwo == {Setting(0, TRUE, FALSE), Setting(2, FALSE, TRUE)}

PricedOrPanic == {"priced", "panic"}
=============================================================================
