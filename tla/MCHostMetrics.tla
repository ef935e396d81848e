---------------------------- MODULE MCHostMetrics ----------------------------
(* Instance of HostMetrics for TLC.                                         *)
EXTENDS HostMetrics
=============================================================================
