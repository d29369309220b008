----------------------------- MODULE MCAudioDelay -----------------------------
(* Values of AudioDelay's constant functions for TLC. *)
EXTENDS AudioDelay

MCFullDelay == [i \in Inputs |-> 3]
MCDumpDelay == [i \in Inputs |-> 1]
===============================================================================
