------------------------------ MODULE DelayLine -------------------------------
(***************************************************************************)
(* What the delay engine promises of each input, whatever its threads do:  *)
(* a line of audio that grows by what is captured and shrinks by what is   *)
(* played and by dumps of the right size, and a mode that listeners may    *)
(* follow.  In particular a full delay is given up (Entered to Entering)   *)
(* only by a dump, and a delay that is gone (Exited) is never said to be   *)
(* still going (Exiting).                                                  *)
(***************************************************************************)
EXTENDS Integers

CONSTANTS
  Lines,      \* the inputs
  Capacity,   \* the most bytes a line may hold
  DumpSize,   \* the bytes a dump is asked to remove, per line
  Slack       \* the most bytes the device may play in one step

VARIABLES
  line,       \* bytes in each line
  mode,       \* Exited, Entering, Entered or Exiting
  cutting     \* a dump has cut the line and its mode is yet to follow

lineVars == <<line, mode, cutting>>

Modes == {"Exited", "Entering", "Entered", "Exiting"}

LineInit ==
  /\ line \in [Lines -> 0 .. Slack]
  /\ mode = [i \in Lines |-> "Exited"]
  /\ cutting = [i \in Lines |-> FALSE]

(* All the lines grow together, each by what it has room for. *)
Grow ==
  /\ line' \in [Lines -> 0 .. Capacity]
  /\ \A i \in Lines : line[i] <= line'[i]
  /\ UNCHANGED <<mode, cutting>>

Shrink(i) ==
  /\ \E n \in 1 .. Slack :
       /\ n <= line[i]
       /\ line' = [line EXCEPT ![i] = @ - n]
  /\ UNCHANGED <<mode, cutting>>

(* A dump takes its size but for what is played meanwhile, or everything. *)
Dump(i) ==
  /\ ~cutting[i] /\ mode[i] # "Exited"
  /\ \E left \in 0 .. line[i] :
       /\ line[i] - left <= DumpSize[i]
       /\ left = 0 \/ line[i] - left >= DumpSize[i] - Slack
       /\ line' = [line EXCEPT ![i] = left]
  /\ cutting' = [cutting EXCEPT ![i] = TRUE]
  /\ UNCHANGED mode

AfterDump(i) ==
  /\ cutting[i]
  /\ cutting' = [cutting EXCEPT ![i] = FALSE]
  /\ \/ mode[i] \in {"Entering", "Entered"}
        /\ mode' = [mode EXCEPT ![i] = "Entering"]
     \/ mode[i] = "Exiting"
        /\ \E m \in {"Exiting", "Exited"} : mode' = [mode EXCEPT ![i] = m]
  /\ UNCHANGED line

(* The mode that may follow another without a dump. *)
Follows(old, new) ==
  \/ new \in {"Entered", "Exited"}
  \/ new = "Entering" /\ old # "Entered"
  \/ new = "Exiting" /\ old # "Exited"

Change(i) ==
  /\ ~cutting[i]
  /\ \E new \in Modes :
       /\ Follows(mode[i], new)
       /\ mode' = [mode EXCEPT ![i] = new]
  /\ UNCHANGED <<line, cutting>>

LineNext ==
  \/ Grow
  \/ \E i \in Lines : Shrink(i) \/ Dump(i) \/ AfterDump(i) \/ Change(i)

LineSpec == LineInit /\ [][LineNext]_lineVars
===============================================================================
