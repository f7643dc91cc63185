----------------------------- MODULE MCDashboard -----------------------------
(* A sync is started and ends while the dashboard is shown.                *)
EXTENDS Dashboard

MCCount(v) == IF v = 2 THEN 1 ELSE 0
=============================================================================
