---------------------------- MODULE MCDashboard ----------------------------
(* Model checking of Dashboard: pages of two projects out of four. *)
EXTENDS Dashboard, TLC

CONSTANTS w1, w2

=============================================================================
