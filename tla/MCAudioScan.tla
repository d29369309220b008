----------------------------- MODULE MCAudioScan ------------------------------
(* Values of AudioScan's constant functions for TLC. *)
EXTENDS AudioScan

MCFullDelay == [i \in Inputs |-> 1]
MCDumpDelay == [i \in Inputs |-> 1]
===============================================================================
