---------------------------- MODULE MCAdcMonitor ----------------------------
(* Instance of AdcMonitor for TLC.                                         *)
EXTENDS AdcMonitor
=============================================================================
