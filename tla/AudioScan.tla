------------------------------ MODULE AudioScan -------------------------------
(***************************************************************************)
(* How the delay's state reaches the rest of the daemon.  Every 100 msecs  *)
(* the main thread's scanTimerData() compares its copies with the members  *)
(* the audio thread writes and, when they differ, copies the two, one      *)
(* after the other, and emits delayStateChanged(): the GPIO, breakaway and *)
(* CIC routers, the lamps, the Cunctator clients and the saved state all   *)
(* know the delay only through that signal.                                *)
(***************************************************************************)
EXTENDS AudioDelay

VARIABLES
  hpi_delay_state, hpi_delay_interval,   \* the copies, as last emitted
  scanning   \* the input whose state, but not interval, is copied, or None

reported == <<hpi_delay_state, hpi_delay_interval>>
scanVars == <<reported, scanning>>
allVars == <<vars, scanVars>>

(* The copies are not initialised by the constructor. *)
ScanInit ==
  /\ Init
  /\ hpi_delay_state \in [Inputs -> DelayStates]
  /\ hpi_delay_interval \in [Inputs -> 0 .. Word - 1]
  /\ scanning = None

(* Wrong variants: only one of the two members is compared.                *)
DiffersInState(i) == hpi_delay_state[i] # delay_state_taken[i]
DiffersInInterval(i) == hpi_delay_interval[i] # delay_interval[i]

Differs(i) ==
  \/ hpi_delay_state[i] # delay_state_taken[i]
  \/ hpi_delay_interval[i] # delay_interval[i]

(* A wrong variant: the scan runs in the middle of a slot.                 *)
ScanStateNested(i) ==
  /\ scanning = None
  /\ Differs(i)
  /\ hpi_delay_state' = [hpi_delay_state EXCEPT ![i] = delay_state_taken[i]]
  /\ scanning' = i
  /\ UNCHANGED <<vars, hpi_delay_interval>>

ScanState(i) ==
  /\ dumping = None /\ scanning = None
  /\ Differs(i)
  /\ hpi_delay_state' = [hpi_delay_state EXCEPT ![i] = delay_state_taken[i]]
  /\ scanning' = i
  /\ UNCHANGED <<vars, hpi_delay_interval>>

ScanInterval ==
  /\ scanning # None
  /\ hpi_delay_interval' =
       [hpi_delay_interval EXCEPT ![scanning] = delay_interval[scanning]]
  /\ scanning' = None
  /\ UNCHANGED <<vars, hpi_delay_state>>

(* The slots of AudioDelay's main thread wait for a scan to end. *)
Slots ==
  /\ scanning = None
  /\ MainThread
  /\ UNCHANGED scanVars

Others ==
  /\ AudioCallback \/ \E i \in Inputs : Play(i)
  /\ UNCHANGED scanVars

ScanTimer == ScanInterval \/ \E i \in Inputs : ScanState(i)

ScanNext == Slots \/ Others \/ ScanTimer

(* The timer is periodic, and the event loop finishes what it begins. *)
ScanFairness ==
  /\ WF_allVars(AudioCallback /\ UNCHANGED scanVars)
  /\ WF_allVars(DumpDelaySet /\ UNCHANGED scanVars)
  /\ WF_allVars(ScanInterval)
  /\ \A i \in Inputs : SF_allVars(ScanState(i))

ScanSpec == ScanInit /\ [][ScanNext]_allVars /\ ScanFairness

-----------------------------------------------------------------------------
(* The types of the copies; only one slot of the main thread runs at once. *)
ScanTypeOK ==
  /\ TypeOK
  /\ hpi_delay_state \in [Inputs -> DelayStates]
  /\ hpi_delay_interval \in [Inputs -> 0 .. Word - 1]
  /\ scanning \in Inputs \cup {None}
  /\ scanning = None \/ dumping = None

(***************************************************************************)
(* The pair that is emitted may be torn: the state of one moment with the  *)
(* interval of a later one.  A torn or stale pair is never the last word:  *)
(* once an input's delay stays as it is, that is what its listeners have   *)
(* been told, whatever was in the copies at the start.                     *)
(***************************************************************************)
ReportSettles ==
  \A i \in Inputs :
    <>[][FALSE]_<<delay_state_taken[i], delay_interval[i]>>
      => <>[](/\ hpi_delay_state[i] = delay_state_taken[i]
              /\ hpi_delay_interval[i] = delay_interval[i])

(***************************************************************************)
(* An Exit that the operator does not take back is eventually reported:    *)
(* the listeners are told that the delay is being left.                    *)
(***************************************************************************)
ExitReported ==
  \A i \in Inputs :
    delay_state_set[i] = "Exiting"
      ~> \/ delay_state_set[i] # "Exiting"
         \/ hpi_delay_state[i] \in {"Exiting", "Exited"}
===============================================================================
