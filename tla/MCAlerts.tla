------------------------------ MODULE MCAlerts ------------------------------
(* TLC instances of Alerts.  Its liveness property excludes symmetry.      *)
EXTENDS Alerts
=============================================================================
