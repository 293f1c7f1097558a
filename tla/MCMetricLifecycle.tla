--------------------------- MODULE MCMetricLifecycle ---------------------------
(* Small instances of MetricLifecycle for TLC: the default policy (two         *)
(* detections to open, two healthy windows to resolve) with a cooldown of      *)
(* three windows, so that it outlasts the detections that open an incident.    *)
EXTENDS MetricLifecycle
===============================================================================
