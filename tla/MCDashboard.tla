---------------------------- MODULE MCDashboard ----------------------------
(* An instance of Dashboard: two sessions, the metric cards and, without a *)
(* timeout, the windows of multi_metric_windows.py.                        *)
EXTENDS Dashboard, TLC

CONSTANTS s1, s2

MCSessions == {s1, s2}
MCMaxCalls == s1 :> 2 @@ s2 :> 1
MCOps == {"get_latest_metrics_with_changes", "get_windowed_aggregates"}
MCTimed == {"get_latest_metrics_with_changes"}
=============================================================================
