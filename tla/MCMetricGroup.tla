--------------------------- MODULE MCMetricGroup ----------------------------
(***************************************************************************)
(* Two exporters that create the group and one that may not, of one        *)
(* daemon; groups that are as wanted, have a clock besides, lack a metric, *)
(* are scheduled, or have another id.                                      *)
(***************************************************************************)
EXTENDS MetricGroup

CONSTANTS e1, e2, e3

AllExporters == {e1, e2, e3}
TwoCreators == {e1, e2}
NoSet == {}
OneToken == {"t"}
Ids == {"ours", "default"}
Group(id, metrics, policy) ==
  [id |-> id, metrics |-> metrics, scope |-> "all", policy |-> policy]
Puts ==
  {Group("ours", exporterMetricIDs, "on_demand"),
   Group("ours", exporterMetricIDs \cup {"clock_dc_0"}, "on_demand"),
   Group("ours", exporterMetricIDs, "scheduled"),
   Group("default", exporterMetricIDs \cup ClockIds, "on_demand")}
=============================================================================
