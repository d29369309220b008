------------------------ MODULE CunctatorClientsProofs ------------------------
(***************************************************************************)
(* Theorems about DelayPersistence and CunctatorClients, for every full    *)
(* delay.  First the persistence by itself; then that what was proved of   *)
(* it holds with a client beside it, whose requests are among the steps of *)
(* DelayPersistence or stutter there.                                      *)
(***************************************************************************)
EXTENDS CunctatorClients, TLAPS

(* The report that restores, and is not saved, is not one of an entered    *)
(* delay: until there has been a report the ramp gets no further than two  *)
(* steps, because a scan reports what the copies do not happen to hold, and*)
(* when they hold one step, the scan after the next one reports that.      *)
FirstSteps == {0, 1}

BeforeFirstReport ==
  running /\ ~delay_initialized =>
    /\ ~threaded => ramped
    /\ threaded =>
         /\ delay.state # "Entered" /\ delay.steps \in {Wrapped, 0, 1, 2}
         /\ ~ramped => delay.steps \in FirstSteps /\ hpi.steps \in FirstSteps
         /\ delay.steps \notin FirstSteps => hpi.steps \in FirstSteps

(* After it, an entered delay that was reported is held to be active.      *)
EnteredIsActive ==
  running /\ delay_initialized /\ hpi.state = "Entered" => delay_active

IndInv ==
  /\ EngineTypeOK
  /\ FileCurrent
  /\ BeforeFirstReport
  /\ EnteredIsActive

LEMMA AtFields ==
  ASSUME NEW state, NEW steps
  PROVE  At(state, steps).state = state /\ At(state, steps).steps = steps
BY DEF At

LEMMA AtDelays ==
  ASSUME NEW state \in DelayStates, NEW steps \in Wrapped .. Full
  PROVE  At(state, steps) \in Delays
BY DEF At, Delays

(* The steps that a ramp or a dump may come to are intervals.              *)
LEMMA StepsTyped ==
  ASSUME delay.steps \in Wrapped .. Full
  PROVE  /\ OneStepUp \subseteq {At("Entering", n) : n \in 0 .. Full}
         /\ Measured \subseteq 0 .. Full
         /\ DumpedTo \subseteq Wrapped .. Full
<1>1. Full \in Nat /\ Full >= 3
  BY FullAssumption
<1>2. OneStepUp \subseteq {At("Entering", n) : n \in 0 .. Full}
  BY <1>1 DEF OneStepUp
<1>3. Measured \subseteq 0 .. Full
  BY <1>1 DEF Measured, Wrapped
<1>4. DumpedTo \subseteq Wrapped .. Full
  BY <1>1 DEF DumpedTo, Wrapped
<1> QED BY <1>2, <1>3, <1>4

-----------------------------------------------------------------------------
LEMMA EngineTypes ==
  ASSUME EngineTypeOK, Engine
  PROVE  EngineTypeOK'
<1> USE DEF EngineTypeOK
<1>1. delay.steps \in Wrapped .. Full /\ Full \in Nat
  BY FullAssumption DEF Delays
<1>2. NoDelay \in Delays
  BY AtDelays, <1>1 DEF NoDelay, DelayStates, Wrapped
<1>3. \A n \in Wrapped .. Full :
        At("Entering", n) \in Delays /\ At("Exiting", n) \in Delays
  BY AtDelays DEF DelayStates
<1>4. At("Entered", Full) \in Delays
  BY AtDelays, <1>1 DEF DelayStates, Wrapped
<1>0. /\ OneStepUp \subseteq Delays
      /\ \A n \in Measured : At("Exiting", n) \in Delays
      /\ DumpedTo \subseteq Wrapped .. Full
  BY <1>1, <1>3, StepsTyped DEF Wrapped
<1>5. CASE ThreadInit
  BY <1>2, <1>5 DEF ThreadInit
<1>6. CASE Take
  <2>1. CASE TakeEntering
    <3>1. /\ delay' \in OneStepUp
                       \cup {At("Entering", delay.steps), At("Entered", Full)}
          /\ ramped' \in {ramped, TRUE}
          /\ UNCHANGED <<threaded, delay_state_set, hpi>>
      BY <2>1 DEF TakeEntering, Becomes
    <3> QED BY <3>1, <1>0, <1>1, <1>3, <1>4
  <2>2. CASE TakeExiting
    BY <2>2, <1>0, <1>2 DEF TakeExiting, Becomes
  <2> QED BY <1>6, <2>1, <2>2 DEF Take
<1>7. CASE RampUp
  <2>1. delay' \in OneStepUp \cup {At("Entered", Full)}
    BY <1>7 DEF RampUp, Becomes
  <2> QED BY <1>0, <1>4, <1>7, <2>1 DEF RampUp, Becomes
<1>8. CASE RampDown
  BY <1>0, <1>2, <1>8 DEF RampDown, Becomes
<1>9. CASE Dump
  <2>1. PICK n \in DumpedTo :
          delay' \in {At("Entering", n), NoDelay, At("Exiting", n)}
    BY <1>9 DEF Dump, Becomes
  <2>2. delay' \in Delays
    BY <2>1, <1>0, <1>2, <1>3
  <2> QED BY <1>9, <2>2 DEF Dump, Becomes
<1>10. CASE \E state \in {"Entering", "Exiting"} : SetDelayState(state)
  BY <1>10 DEF SetDelayState
<1> QED BY <1>5, <1>6, <1>7, <1>8, <1>9, <1>10 DEF Engine

(* The engine, on its way to the first report.                             *)
LEMMA FirstMeasured ==
  ASSUME delay.steps \in {Wrapped, 0, 1, 2}, NEW n \in Measured,
         delay.steps = Wrapped => ramped
  PROVE  n \in {0, 1, 2} /\ (delay.steps \in FirstSteps => n \in FirstSteps)
BY DEF Measured, Wrapped, FirstSteps

LEMMA EngineBefore ==
  ASSUME EngineTypeOK, BeforeFirstReport, Engine
  PROVE  BeforeFirstReport'
<1> SUFFICES ASSUME running, ~delay_initialized
             PROVE  BeforeFirstReport'
  BY DEF Engine, BeforeFirstReport, store
<1>1. Full \in Nat /\ Full >= 3
  BY FullAssumption
<1>2. UNCHANGED <<running, delay_initialized, hpi>>
  BY DEF Engine, store, ThreadInit, Take, TakeEntering, TakeExiting, RampUp,
         RampDown, Dump, Becomes, SetDelayState
<1>3. CASE ThreadInit
  BY <1>2, <1>3, AtFields DEF ThreadInit, NoDelay, BeforeFirstReport, FirstSteps
<1>4. CASE threaded /\ UNCHANGED threaded
  <2>1. /\ delay.state # "Entered" /\ delay.steps \in {Wrapped, 0, 1, 2}
        /\ ~ramped => delay.steps \in FirstSteps /\ hpi.steps \in FirstSteps
        /\ delay.steps \notin FirstSteps => hpi.steps \in FirstSteps
        /\ ramped \in BOOLEAN
    BY <1>4 DEF BeforeFirstReport, EngineTypeOK
  <2>2. delay.steps = Wrapped => ramped /\ delay.steps \notin FirstSteps
    BY <2>1 DEF Wrapped, FirstSteps
  <2>3. ~AtSetpoint
    BY <1>1, <2>1 DEF AtSetpoint, Unsigned, Wrapped, FirstSteps
  \* What is left to show of a step that ends in a state and steps.
  <2>4. ASSUME NEW state, state # "Entered", NEW n \in {Wrapped, 0, 1, 2},
               delay' = At(state, n),
               ~ramped' => n \in FirstSteps /\ hpi.steps \in FirstSteps,
               n \notin FirstSteps => hpi.steps \in FirstSteps
        PROVE  BeforeFirstReport'
    BY <1>2, <1>4, <2>4, AtFields DEF BeforeFirstReport
  <2>5. CASE TakeEntering
    <3>1. CASE delay' = At("Entering", delay.steps) /\ UNCHANGED ramped
      BY <2>1, <2>4, <3>1
    <3>2. CASE /\ ~ramped \/ delay = NoDelay
               /\ delay' \in OneStepUp /\ ramped' = TRUE
      <4>1. delay.steps \in FirstSteps
        BY <2>1, <3>2, AtFields DEF NoDelay, FirstSteps
      <4>2. PICK n \in {delay.steps + 1} : delay' = At("Entering", n)
        BY <3>2, <4>1 DEF OneStepUp, Unsigned, Wrapped, FirstSteps
      <4>3. n \in {1, 2} /\ (n = 2 => hpi.steps \in FirstSteps)
        BY <2>1, <3>2, <4>1, <4>2, AtFields DEF NoDelay, FirstSteps
      <4> QED BY <2>4, <3>2, <4>2, <4>3 DEF FirstSteps
    <3> QED BY <2>3, <2>5, <3>1, <3>2 DEF TakeEntering, Becomes
  <2>6. CASE TakeExiting \/ RampDown
    <3>1. ramped' \in {ramped, TRUE}
      BY <2>6 DEF TakeExiting, RampDown
    <3>2. CASE delay' = NoDelay
      BY <2>1, <2>4, <3>1, <3>2 DEF NoDelay, FirstSteps
    <3>3. CASE \E n \in Measured : delay' = At("Exiting", n)
      <4>1. PICK n \in Measured : delay' = At("Exiting", n)
        BY <3>3
      <4>2. n \in {0, 1, 2} /\ (delay.steps \in FirstSteps => n \in FirstSteps)
        BY <2>1, <2>2, FirstMeasured
      <4> QED BY <2>1, <2>4, <3>1, <4>1, <4>2
    <3> QED BY <2>6, <3>2, <3>3 DEF TakeExiting, RampDown, Becomes
  <2>7. CASE RampUp
    <3>1. ~ramped /\ delay' \in OneStepUp /\ ramped' = TRUE
      BY <2>3, <2>7 DEF RampUp, Becomes
    <3>2. PICK n \in {delay.steps + 1} : delay' = At("Entering", n)
      BY <2>1, <3>1 DEF OneStepUp, Unsigned, Wrapped, FirstSteps
    <3>3. n \in {1, 2}
      BY <2>1, <3>1, <3>2 DEF FirstSteps
    <3> QED BY <2>1, <2>4, <3>1, <3>2, <3>3
  <2>8. CASE Dump
    <3>1. PICK n \in DumpedTo :
            \/ delay' = At("Entering", n) \/ delay' = At("Exiting", n)
            \/ n = 0 /\ delay' = At("Exited", n)
      BY <2>8 DEF Dump, Becomes, NoDelay
    <3>2. /\ n \in {Wrapped, 0, 1, 2}
          /\ delay.steps \in FirstSteps => n \in FirstSteps
      BY <1>1, <2>1 DEF DumpedTo, Unsigned, Wrapped, FirstSteps
    <3>3. UNCHANGED ramped
      BY <2>8 DEF Dump
    <3> QED BY <2>1, <2>4, <3>1, <3>2, <3>3
  <2>9. CASE \E state \in {"Entering", "Exiting"} : SetDelayState(state)
    BY <1>2, <1>4, <2>9 DEF SetDelayState, BeforeFirstReport
  <2>10. ~ThreadInit
    BY <1>4 DEF ThreadInit
  <2> QED BY <2>5, <2>6, <2>7, <2>8, <2>9, <2>10 DEF Engine, Take
<1>5. CASE ~threaded /\ \E state \in {"Entering", "Exiting"} : SetDelayState(state)
  BY <1>2, <1>5 DEF SetDelayState, BeforeFirstReport
<1> QED BY <1>3, <1>4, <1>5 DEF Engine, Take, TakeEntering, TakeExiting, RampUp,
        RampDown, Dump, Becomes, SetDelayState

-----------------------------------------------------------------------------
LEMMA InitInv == Init => IndInv
BY DEF Init, EngineInit, IndInv, EngineTypeOK, FileCurrent, BeforeFirstReport,
       EnteredIsActive

LEMMA IndStep ==
  ASSUME IndInv, [Next]_vars
  PROVE  IndInv'
<1> USE DEF IndInv
<1>1. CASE Engine
  <2>1. UNCHANGED <<running, store, hpi>>
    BY <1>1 DEF Engine, ThreadInit, Take, TakeEntering, TakeExiting, RampUp,
                RampDown, Dump, Becomes, SetDelayState
  <2>2. FileCurrent' /\ EnteredIsActive'
    BY <2>1 DEF FileCurrent, EnteredIsActive, store
  <2> QED BY <1>1, <2>2, EngineTypes, EngineBefore
<1>2. CASE DelayStateChanged
  <2>1. /\ running /\ running' = running
        /\ threaded /\ hpi' = delay /\ delay' = delay /\ threaded' = threaded
        /\ ramped' = FALSE /\ delay_initialized' = TRUE
    BY <1>2 DEF DelayStateChanged, Report, Restore
  <2>2. EngineTypeOK'
    <3>1. delay_state_set' \in {delay_state_set, "Entering"}
      BY <1>2 DEF DelayStateChanged, Restore
    <3> QED BY <2>1, <3>1 DEF EngineTypeOK
  <2>3. CASE delay_initialized
    <3>1. SetDelayActive(Active(delay.state))
      BY <1>2, <2>3 DEF DelayStateChanged
    <3>2. FileCurrent'
      BY <3>1 DEF SetDelayActive, Save, FileCurrent
    <3>3. EnteredIsActive'
      BY <2>1, <3>1 DEF SetDelayActive, Active, EnteredIsActive
    <3> QED BY <2>1, <2>2, <3>2, <3>3 DEF BeforeFirstReport
  <2>4. CASE ~delay_initialized
    <3>1. UNCHANGED <<delay_active, file, savefailed>>
      BY <1>2, <2>4 DEF DelayStateChanged
    <3>2. FileCurrent'
      BY <2>1, <3>1 DEF FileCurrent
    <3>3. EnteredIsActive'
      BY <2>1, <2>4 DEF EnteredIsActive, BeforeFirstReport
    <3> QED BY <2>1, <2>2, <3>2, <3>3 DEF BeforeFirstReport
  <2> QED BY <2>3, <2>4
<1>3. CASE NothingChanged
  <2>1. EngineTypeOK' /\ FileCurrent' /\ EnteredIsActive'
    BY <1>3 DEF NothingChanged, NoReport, EngineTypeOK, FileCurrent, EnteredIsActive, store
  <2>2. BeforeFirstReport'    \* the copies agree with the delay
    BY <1>3 DEF NothingChanged, NoReport, BeforeFirstReport, store
  <2> QED BY <2>1, <2>2
<1>4. CASE SaveForOthers
  BY <1>4 DEF SaveForOthers, Save, engine, EngineTypeOK, FileCurrent,
              BeforeFirstReport, EnteredIsActive
<1>5. CASE Crash
  BY <1>5 DEF Crash, engine, EngineTypeOK, FileCurrent, BeforeFirstReport,
              EnteredIsActive
<1>6. CASE Restart
  BY <1>6 DEF Restart, EngineRestart, EngineTypeOK, FileCurrent,
              BeforeFirstReport, EnteredIsActive
<1>7. CASE UNCHANGED vars
  BY <1>7 DEF vars, engine, store, EngineTypeOK, FileCurrent,
              BeforeFirstReport, EnteredIsActive
<1> QED BY <1>1, <1>2, <1>3, <1>4, <1>5, <1>6, <1>7 DEF Next, ScanTimer

-----------------------------------------------------------------------------
(* The types of the file and of State, which the invariant does not need.  *)
StoreTypes ==
  /\ running \in BOOLEAN
  /\ delay_active \in BOOLEAN /\ delay_initialized \in BOOLEAN
  /\ file \in BOOLEAN /\ savefailed \in BOOLEAN

LEMMA StoreInit == Init => StoreTypes
BY DEF Init, StoreTypes

LEMMA StoreStep ==
  ASSUME StoreTypes, [Next]_vars
  PROVE  StoreTypes'
<1> USE DEF StoreTypes
<1>1. CASE Engine
  BY <1>1 DEF Engine, store
<1>2. CASE DelayStateChanged
  <2>1. running' = running
    BY <1>2 DEF DelayStateChanged
  <2>2. CASE delay_initialized
    <3>1. SetDelayActive(Active(delay.state)) /\ UNCHANGED delay_initialized
      BY <1>2, <2>2 DEF DelayStateChanged
    <3>2. Active(delay.state) \in BOOLEAN
      BY DEF Active
    <3>3. delay_active' \in BOOLEAN
      BY <3>1, <3>2, Zenon DEF SetDelayActive
    <3>4. file' \in BOOLEAN /\ savefailed' \in BOOLEAN
      BY <3>1, <3>2, Zenon DEF SetDelayActive, Save
    <3> QED BY <2>1, <3>1, <3>3, <3>4, Zenon
  <2>3. CASE ~delay_initialized
    BY <1>2, <2>1, <2>3 DEF DelayStateChanged, Restore
  <2> QED BY <2>2, <2>3
<1>3. CASE NothingChanged
  BY <1>3 DEF NothingChanged, store
<1>4. CASE SaveForOthers
  <2>1. UNCHANGED <<running, delay_active, delay_initialized>>
    BY <1>4 DEF SaveForOthers
  <2>2. file' \in BOOLEAN /\ savefailed' \in BOOLEAN
    BY <1>4, Zenon DEF SaveForOthers, Save
  <2> QED BY <2>1, <2>2
<1>5. CASE Crash
  BY <1>5 DEF Crash, store
<1>6. CASE Restart
  BY <1>6 DEF Restart
<1>7. CASE UNCHANGED vars
  BY <1>7 DEF vars, store
<1> QED BY <1>1, <1>2, <1>3, <1>4, <1>5, <1>6, <1>7 DEF Next, ScanTimer

(***************************************************************************)
(* Across failed saves, crashes and restarts the state file holds what     *)
(* State holds, but for a save not completed (State::save).                  *)
(***************************************************************************)
THEOREM FileIsCurrent == Spec => []FileCurrent
<1>1. IndInv => FileCurrent
  BY DEF IndInv
<1> QED BY <1>1, InitInv, IndStep, PTL DEF Spec

(***************************************************************************)
(* A delay that is reported Entered is saved, although the first report    *)
(* after a start is not, and whatever the members held before they were    *)
(* set (MainObject::delayStateChangedData).                                *)
(***************************************************************************)
THEOREM EnteredSaved == Spec => []EnteredIsSaved
<1>1. IndInv => EnteredIsSaved
  BY DEF IndInv, EnteredIsActive, FileCurrent, EnteredIsSaved
<1> QED BY <1>1, InitInv, IndStep, PTL DEF Spec

-----------------------------------------------------------------------------
(* With a client.                                                          *)
NoneWhenDown == ~running => client = "absent"

ClientsInv == IndInv /\ NoneWhenDown /\ ClientsCurrent

LEMMA ClientsInitInv == ClientsInit => ClientsInv
<1> SUFFICES ASSUME ClientsInit PROVE ClientsInv
  OBVIOUS
<1>1. IndInv
  BY InitInv DEF ClientsInit
<1>2. NoneWhenDown /\ ClientsCurrent
  BY DEF ClientsInit, NoneWhenDown, ClientsCurrent
<1> QED BY <1>1, <1>2 DEF ClientsInv

(* A client adds no step to the persistence.                               *)
LEMMA ClientsSimulate ==
  ASSUME [ClientsNext]_allvars
  PROVE  [Next]_vars
<1>1. CASE Connect \/ DropConnection \/ GetDelayState
  BY <1>1 DEF Connect, DropConnection, GetDelayState
<1>2. CASE ClientSetsDelayState
  BY <1>2 DEF ClientSetsDelayState, Connected, Next, Engine
<1>3. CASE ClientsScan
  BY <1>3 DEF ClientsScan, Next, ScanTimer
<1>4. CASE (Engine \/ SaveForOthers \/ Restart) /\ UNCHANGED cunctator
  BY <1>4 DEF Next
<1>5. CASE Crash /\ Absent
  BY <1>5 DEF Next
<1>6. CASE UNCHANGED allvars
  BY <1>6 DEF allvars
<1> QED BY <1>1, <1>2, <1>3, <1>4, <1>5, <1>6 DEF ClientsNext

LEMMA ClientsStep ==
  ASSUME ClientsInv, [ClientsNext]_allvars
  PROVE  ClientsInv'
<1> USE DEF ClientsInv, NoneWhenDown, ClientsCurrent
<1>1. IndInv'
  BY ClientsSimulate, IndStep
<1>2. CASE Connect \/ DropConnection \/ GetDelayState
  BY <1>1, <1>2 DEF Connect, DropConnection, GetDelayState, Connected, Absent,
                    vars, engine
<1>3. CASE ClientSetsDelayState
  BY <1>1, <1>3 DEF ClientSetsDelayState, SetDelayState, Connected, cunctator
<1>4. CASE DelayStateChanged /\ SendDelayState
  <2>1. running /\ running' = running /\ hpi' = delay
    BY <1>4 DEF DelayStateChanged, Report, Restore
  <2>2. CASE Connected
    BY <1>1, <1>4, <2>1, <2>2 DEF SendDelayState
  <2>3. CASE ~Connected
    BY <1>1, <1>4, <2>1, <2>3 DEF SendDelayState, Connected, cunctator
  <2> QED BY <2>2, <2>3
<1>5. CASE NothingChanged /\ UNCHANGED cunctator
  BY <1>1, <1>5 DEF NothingChanged, NoReport, store, cunctator
<1>6. CASE Engine /\ UNCHANGED cunctator
  <2>1. UNCHANGED <<running, hpi>>
    BY <1>6 DEF Engine, ThreadInit, Take, TakeEntering, TakeExiting, RampUp,
                RampDown, Dump, Becomes, SetDelayState
  <2> QED BY <1>1, <1>6, <2>1 DEF cunctator
<1>7. CASE SaveForOthers /\ UNCHANGED cunctator
  BY <1>1, <1>7 DEF SaveForOthers, engine, cunctator
<1>8. CASE Restart /\ UNCHANGED cunctator
  BY <1>1, <1>8 DEF Restart, cunctator
<1>9. CASE Crash /\ Absent
  BY <1>1, <1>9 DEF Absent
<1>10. CASE UNCHANGED allvars
  BY <1>1, <1>10 DEF allvars, vars, engine, cunctator
<1> QED BY <1>2, <1>3, <1>4, <1>5, <1>6, <1>7, <1>8, <1>9, <1>10
        DEF ClientsNext, ClientsScan

-----------------------------------------------------------------------------
(* What a client is told is a state and an interval that a delay may have. *)
ClientTypes ==
  /\ StoreTypes
  /\ client \in {"absent", "nothing", "report", "answer"}
  /\ told \in Delays

LEMMA NoDelayTyped == NoDelay \in Delays
BY AtDelays, FullAssumption DEF NoDelay, DelayStates, Wrapped

LEMMA ClientTypesStep ==
  ASSUME ClientsInv, ClientTypes, [ClientsNext]_allvars
  PROVE  ClientTypes'
<1> USE DEF ClientTypes
<1>1. StoreTypes'
  BY ClientsSimulate, StoreStep
<1>2. delay \in Delays /\ hpi \in Delays /\ hpi' \in Delays
  BY ClientsSimulate, IndStep DEF ClientsInv, IndInv, EngineTypeOK
<1>3. CASE Connect \/ DropConnection \/ GetDelayState
  BY <1>1, <1>2, <1>3, NoDelayTyped DEF Connect, DropConnection, GetDelayState, Absent
<1>4. CASE ClientSetsDelayState
  BY <1>1, <1>4 DEF ClientSetsDelayState, cunctator
<1>5. CASE ClientsScan
  BY <1>1, <1>2, <1>5 DEF ClientsScan, SendDelayState, cunctator
<1>6. CASE UNCHANGED cunctator
  BY <1>1, <1>6 DEF cunctator
<1>7. CASE Crash /\ Absent
  BY <1>1, <1>7, NoDelayTyped DEF Absent
<1> QED BY <1>3, <1>4, <1>5, <1>6, <1>7 DEF ClientsNext, allvars

(***************************************************************************)
(* Engine, State, file and client keep their types through crashes and     *)
(* restarts, and a daemon that is down has no client (ProtocolCunc's       *)
(* sockets go with their process).                                         *)
(***************************************************************************)
THEOREM ClientsTypeCorrect == ClientsSpec => []ClientsTypeOK
<1>1. ClientsInit => ClientsInv /\ ClientTypes
  BY ClientsInitInv, StoreInit, NoDelayTyped DEF ClientsInit, ClientTypes
<1>2. ClientsInv /\ ClientTypes => ClientsTypeOK
  BY DEF ClientsInv, IndInv, NoneWhenDown, ClientTypes, StoreTypes, ClientsTypeOK, TypeOK
<1> QED BY <1>1, <1>2, ClientsStep, ClientTypesStep, PTL DEF ClientsSpec

(***************************************************************************)
(* With clients that set, dump and ask, the state file holds what State    *)
(* holds, but for a save not completed (State::save).                        *)
(***************************************************************************)
THEOREM ClientsFileIsCurrent == ClientsSpec => []FileCurrent
<1>1. ClientsInv => FileCurrent
  BY DEF ClientsInv, IndInv
<1> QED BY <1>1, ClientsInitInv, ClientsStep, PTL DEF ClientsSpec

(***************************************************************************)
(* With clients, a delay that is reported Entered is saved                 *)
(* (MainObject::delayStateChangedData).                                    *)
(***************************************************************************)
THEOREM ClientsEnteredSaved == ClientsSpec => []EnteredIsSaved
<1>1. ClientsInv => EnteredIsSaved
  BY DEF ClientsInv, IndInv, EnteredIsActive, FileCurrent, EnteredIsSaved
<1> QED BY <1>1, ClientsInitInv, ClientsStep, PTL DEF ClientsSpec

(***************************************************************************)
(* A client that was last told by a broadcast has what was last reported,  *)
(* through everything that happens to engine, file and daemon              *)
(* (ProtocolCunc::sendDelayState).                                         *)
(***************************************************************************)
THEOREM ClientsStayCurrent == ClientsSpec => []ClientsCurrent
<1>1. ClientsInv => ClientsCurrent
  BY DEF ClientsInv
<1> QED BY <1>1, ClientsInitInv, ClientsStep, PTL DEF ClientsSpec
===============================================================================
