---------------------------- MODULE MCAscMonitor ----------------------------
(* AscMonitor with two hosts behind ssh and the APC monitor. *)
EXTENDS AscMonitor
=============================================================================
