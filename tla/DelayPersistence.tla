--------------------------- MODULE DelayPersistence ---------------------------
(***************************************************************************)
(* Persistence of the delay state (lwnetrouterd.cpp, state.cpp): whether   *)
(* an input is delayed is saved with every report of the audio router, and *)
(* the first report after a start, which says that the audio thread runs,  *)
(* enters a delay that was saved instead of being saved itself.            *)
(*                                                                         *)
(* One input.  What it shares with others is the file, which every save    *)
(* writes as a whole (SaveForOthers).                                      *)
(***************************************************************************)
EXTENDS DelayEngine

VARIABLES
  running,                           \* the daemon is up
  delay_active, delay_initialized,   \* of State
  file,                              \* DelayActive in the state file
  savefailed          \* the last save() was not completed

store == <<delay_active, delay_initialized, file, savefailed>>
vars == <<running, engine, store>>

Init ==
  /\ running = TRUE
  /\ EngineInit
  /\ file \in BOOLEAN /\ savefailed = FALSE
  /\ delay_active = file /\ delay_initialized = FALSE

(* The operator gives commands at any time, dumps among them.              *)
Engine ==
  /\ running
  /\ \/ ThreadInit \/ Take \/ RampUp \/ RampDown \/ Dump
     \/ \E state \in {"Entering", "Exiting"} : SetDelayState(state)
  /\ UNCHANGED <<running, store>>

-----------------------------------------------------------------------------
(* save(): the file follows unless the temporary file cannot be opened or  *)
(* renamed.  A file whose writing was cut short, which nobody looks at, is *)
(* renamed like any other; an entry that it lacks is read back as 0.       *)
Save(active) ==
  \/ file' = active /\ savefailed' = FALSE
  \/ savefailed' = TRUE /\ file' \in {file, FALSE}

(* Any other input's report, or a crosspoint, saves this input as well.    *)
SaveForOthers ==
  /\ running
  /\ Save(delay_active)
  /\ UNCHANGED <<running, engine, delay_active, delay_initialized>>

(* A wrong variant: only an entering delay is taken for active.            *)
ActiveWhileEntering(state) == state = "Entering"

Active(state) == state \in {"Entering", "Entered"}

(* A wrong variant: a delay that is left is not saved as such.             *)
SetDelayActiveUnsaved(active) ==
  /\ delay_active' = active
  /\ IF active THEN Save(TRUE) ELSE UNCHANGED <<file, savefailed>>

SetDelayActive(active) == delay_active' = active /\ Save(active)

(* A wrong variant: the first report restores nothing.                     *)
RestoreNothing == delay_initialized' = TRUE /\ UNCHANGED delay_state_set

Restore ==
  /\ delay_initialized' = TRUE
  /\ IF delay_active THEN delay_state_set' = "Entering"
                     ELSE UNCHANGED delay_state_set

(* The slot delayStateChangedData() of a report.                           *)
DelayStateChanged ==
  /\ running
  /\ Report
  /\ \/ /\ delay_initialized
        /\ SetDelayActive(Active(delay.state))
        /\ UNCHANGED <<delay_state_set, delay_initialized>>
     \/ /\ ~delay_initialized
        /\ Restore
        /\ UNCHANGED <<delay_active, file, savefailed>>
  /\ UNCHANGED running

NothingChanged == running /\ NoReport /\ UNCHANGED <<running, store>>

ScanTimer == DelayStateChanged \/ NothingChanged

-----------------------------------------------------------------------------
Crash ==
  /\ running
  /\ running' = FALSE
  /\ UNCHANGED <<engine, store>>

Restart ==
  /\ ~running
  /\ running' = TRUE
  /\ EngineRestart
  /\ delay_active' = file /\ delay_initialized' = FALSE
  /\ savefailed' = FALSE /\ UNCHANGED file

Next == Engine \/ ScanTimer \/ SaveForOthers \/ Crash \/ Restart

(* The audio thread starts and looks at its command; the timer is periodic.*)
Spec ==
  Init /\ [][Next]_vars
       /\ WF_vars(Engine /\ ThreadInit) /\ WF_vars(Engine /\ Take)
       /\ WF_vars(ScanTimer)

-----------------------------------------------------------------------------
(* The types.                                                              *)
TypeOK ==
  /\ EngineTypeOK
  /\ running \in BOOLEAN
  /\ delay_active \in BOOLEAN /\ delay_initialized \in BOOLEAN
  /\ file \in BOOLEAN /\ savefailed \in BOOLEAN

(***************************************************************************)
(* The file holds what State holds, but for a save that was not completed, *)
(* and the next save of any input makes good for it: across crashes and    *)
(* restarts.                                                               *)
(***************************************************************************)
FileCurrent == running /\ ~savefailed => file = delay_active

(***************************************************************************)
(* A delay that is reported Entered is saved: the report that was used for *)
(* restoring, and not saved, was not the one that counted, whatever the    *)
(* copies held at the start, and whenever the operator entered the delay.  *)
(***************************************************************************)
EnteredIsSaved ==
  running /\ delay_initialized /\ ~savefailed /\ hpi.state = "Entered" => file

(***************************************************************************)
(* A saved delay is entered again after a start, unless the operator gives *)
(* a command first, or the uninitialised copies happened to hold Exited    *)
(* and 0, so that there is nothing to report.                              *)
(***************************************************************************)
DelayRestored ==
  running /\ delay_active /\ ~delay_initialized /\ hpi # NoDelay
    ~> ~running \/ delay_state_set # "Bypassed"
===============================================================================
