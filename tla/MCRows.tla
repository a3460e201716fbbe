------------------------------- MODULE MCRows -------------------------------
(* Small instances of Rows and, apart from it, of AlertMonitor for TLC.    *)
EXTENDS Rows, MCAlertMonitor

\* By name, and by unit: one label occurs under both.
MCGroupings == <<{"nginx", "cron"}, {"nginx", "ssh"}>>

VARIABLE part

MCInit == part \in {"rows", "alerts"} /\ Init /\ AlertsInit

MCNext ==
  /\ UNCHANGED part
  /\ \/ part = "rows" /\ Next /\ UNCHANGED alertVars
     \/ part = "alerts" /\ AlertsNext /\ UNCHANGED vars

\* The fairness of Rows and of AlertMonitor, each in its part.
MCFairness ==
  /\ WF_vars(part = "rows" /\ Tick)
  /\ WF_vars(part = "rows" /\ \E sample \in SUBSET Groupings[by] : Refresh(sample))
  /\ WF_alertVars(part = "alerts" /\ ComputeAnomalies)
  /\ WF_alertVars(part = "alerts" /\ TimePasses)

MCSpec == MCInit /\ [][MCNext]_<<part, vars, alertVars>> /\ MCFairness
=============================================================================
