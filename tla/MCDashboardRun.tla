---------------------------- MODULE MCDashboardRun ----------------------------
(***************************************************************************)
(* Instances of DashboardRun for TLC: a workflow of evaluate, one node that*)
(* evaluate may skip, and a last one.                                      *)
(***************************************************************************)
EXTENDS DashboardRun
=============================================================================
