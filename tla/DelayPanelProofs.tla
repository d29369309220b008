--------------------------- MODULE DelayPanelProofs ---------------------------
(***************************************************************************)
(* Theorems about DelayLamps and DelayPanel, for every size of the delay   *)
(* and the timers: first the lamps by themselves, then with the panel that *)
(* is told of the changes and the daemon that exits, dies and starts.      *)
(***************************************************************************)
EXTENDS DelayPanel, TLAPS

(* The flash timer drives Buttons only: the lines of the other buttons are *)
(* right in every phase because these are never lit.                       *)
SpareOff == \A line \in Lines \ Buttons : delay_states[line] = "Off"

IndInv ==
  /\ TypeOK
  /\ LinesShowButtons
  /\ LampsShowReport
  /\ DumpSeen
  /\ SpareOff

LEMMA InitInv == Init => IndInv
<1> SUFFICES ASSUME Init PROVE IndInv
  OBVIOUS
<1> USE DEF Init, EngineInit
<1>1. TypeOK
  <2>1. EngineTypeOK
    BY DEF EngineTypeOK
  <2>2. delay_states \in [Lines -> ButtonStates]
    BY DEF ButtonStates
  <2>3. gpio_states \in [Lines -> BOOLEAN]
    OBVIOUS
  <2>4. phase \in 0 .. 3 /\ resetting \in 0 .. ResetTicks
    BY LampsAssumption
  <2> QED BY <2>1, <2>2, <2>3, <2>4 DEF TypeOK
<1>2. LinesShowButtons
  BY DEF LinesShowButtons, Lit
<1>3. LampsShowReport
  BY DEF LampsShowReport
<1>4. DumpSeen
  BY DEF DumpSeen, Lines, DumpLine
<1>5. SpareOff
  BY DEF SpareOff
<1> QED BY <1>1, <1>2, <1>3, <1>4, <1>5 DEF IndInv

-----------------------------------------------------------------------------
(* What sendDelayState() and its helpers compute has the type of the lamps.*)
LEMMA LampTypes ==
  ASSUME TypeOK, NEW state, NEW steps
  PROVE  /\ DelayLamps(state) \in [Lines -> ButtonStates]
         /\ DumpLamp(steps) \in ButtonStates
<1>1. DelayLamps(state) \in [Lines -> ButtonStates]
  BY DEF DelayLamps, TypeOK, ButtonStates, Lines, DumpLine, ExitLine, EnterLine
<1>2. DumpLamp(steps) \in ButtonStates
  BY DEF DumpLamp, TypeOK, ButtonStates, Lines, DumpLine
<1> QED BY <1>1, <1>2

(* Every function of buttons leads to a function of lines.                 *)
LEMMA SetButtonsType ==
  ASSUME NEW states \in [Lines -> ButtonStates], SetButtons(states)
  PROVE  /\ delay_states' \in [Lines -> ButtonStates]
         /\ gpio_states' \in [Lines -> BOOLEAN]
         /\ \A line \in Lines : gpio_states'[line] = Lit(states[line], phase)
BY DEF SetButtons, Lit

LEMMA AtDelays ==
  ASSUME NEW state \in DelayStates, NEW steps \in Wrapped .. Full
  PROVE  At(state, steps) \in Delays
BY DEF At, Delays

(* The steps that a ramp or a dump may come to are intervals.              *)
LEMMA StepsTyped ==
  ASSUME delay.steps \in Wrapped .. Full
  PROVE  /\ OneStepUp \subseteq {At("Entering", n) : n \in 0 .. Full}
         /\ Measured \subseteq 0 .. Full
         /\ DumpedTo \subseteq Wrapped .. Full
<1>1. Full \in Nat /\ Full >= 3
  BY FullAssumption
<1>2. OneStepUp \subseteq {At("Entering", n) : n \in 0 .. Full}
  BY <1>1 DEF OneStepUp
<1>3. Measured \subseteq 0 .. Full
  BY <1>1 DEF Measured, Wrapped
<1>4. DumpedTo \subseteq Wrapped .. Full
  BY <1>1 DEF DumpedTo, Wrapped
<1> QED BY <1>2, <1>3, <1>4

(* The engine keeps its types, whoever calls it.                           *)
LEMMA EngineTypes ==
  ASSUME EngineTypeOK
  PROVE  /\ ThreadInit \/ Take \/ RampUp \/ RampDown \/ Dump \/ NoReport
              => EngineTypeOK'
         /\ Report /\ UNCHANGED delay_state_set => EngineTypeOK'
<1> USE DEF EngineTypeOK
<1>1. delay.steps \in Wrapped .. Full /\ Full \in Nat
  BY FullAssumption DEF Delays
<1>2. NoDelay \in Delays
  BY AtDelays, <1>1 DEF NoDelay, DelayStates, Wrapped
<1>3. \A n \in Wrapped .. Full :
        At("Entering", n) \in Delays /\ At("Exiting", n) \in Delays
  BY AtDelays DEF DelayStates
<1>4. At("Entered", Full) \in Delays
  BY AtDelays, <1>1 DEF DelayStates, Wrapped
<1>0. /\ OneStepUp \subseteq Delays
      /\ \A n \in Measured : At("Exiting", n) \in Delays
      /\ DumpedTo \subseteq Wrapped .. Full
  BY <1>1, <1>3, StepsTyped DEF Wrapped
<1>5. ThreadInit => EngineTypeOK'
  BY <1>2 DEF ThreadInit
<1>6. Take => EngineTypeOK'
  <2>1. ASSUME TakeEntering PROVE EngineTypeOK'
    <3>1. /\ delay' \in OneStepUp
                       \cup {At("Entering", delay.steps), At("Entered", Full)}
          /\ ramped' \in {ramped, TRUE}
          /\ UNCHANGED <<threaded, delay_state_set, hpi>>
      BY <2>1 DEF TakeEntering, Becomes
    <3> QED BY <3>1, <1>0, <1>1, <1>3, <1>4
  <2>2. ASSUME TakeExiting PROVE EngineTypeOK'
    BY <2>2, <1>0, <1>2 DEF TakeExiting, Becomes
  <2> QED BY <2>1, <2>2 DEF Take
<1>7. RampUp => EngineTypeOK'
  <2> SUFFICES ASSUME RampUp PROVE EngineTypeOK'
    OBVIOUS
  <2>1. delay' \in OneStepUp \cup {At("Entered", Full)}
    BY DEF RampUp, Becomes
  <2> QED BY <1>0, <1>4, <2>1 DEF RampUp, Becomes
<1>8. RampDown => EngineTypeOK'
  BY <1>0, <1>2 DEF RampDown, Becomes
<1>9. Dump => EngineTypeOK'
  <2> SUFFICES ASSUME Dump PROVE delay' \in Delays
    BY DEF Dump, Becomes
  <2>1. PICK n \in DumpedTo :
          delay' \in {At("Entering", n), NoDelay, At("Exiting", n)}
    BY DEF Dump, Becomes
  <2> QED BY <2>1, <1>0, <1>2, <1>3
<1>10. NoReport => EngineTypeOK'
  BY DEF NoReport
<1>11. Report /\ UNCHANGED delay_state_set => EngineTypeOK'
  BY DEF Report
<1> QED BY <1>5, <1>6, <1>7, <1>8, <1>9, <1>10, <1>11

(* The remaining actions keep the types of lamps and timers.               *)
LEMMA TypeStep ==
  ASSUME TypeOK, [Next]_vars
  PROVE  TypeOK'
<1> USE DEF TypeOK
<1>1. CASE Thread \/ Ramp \/ ServeDump
  <2>1. EngineTypeOK'
    BY <1>1, EngineTypes DEF Thread, Ramp, ServeDump
  <2> QED BY <1>1, <2>1 DEF Thread, Ramp, ServeDump, lamps
<1>2. CASE ScanTimer
  <2>1. CASE SendDelayState
    <3> DEFINE states == [DelayLamps(delay.state) EXCEPT ![DumpLine] =
                            DumpLamp(delay.steps)]
    <3>1. EngineTypeOK'
      BY <2>1, EngineTypes DEF SendDelayState
    <3>2. states \in [Lines -> ButtonStates]
      BY LampTypes DEF Lines, DumpLine
    <3>3. SetButtons(states)
      BY <2>1 DEF SendDelayState
    <3> HIDE DEF states
    <3>4. delay_states' \in [Lines -> ButtonStates] /\ gpio_states' \in [Lines -> BOOLEAN]
      BY <3>2, <3>3, SetButtonsType
    <3> QED BY <2>1, <3>1, <3>4 DEF SendDelayState
  <2>2. CASE NoReport /\ UNCHANGED <<lamps, delay_dump, pressed, reported>>
    BY <2>2, EngineTypes DEF lamps
  <2> QED BY <1>2, <2>1, <2>2 DEF ScanTimer
<1>3. CASE DumpPressed
  <2> DEFINE states == [delay_states EXCEPT ![DumpLine] = "FastFlash"]
  <2>1. EngineTypeOK'
    BY <1>3 DEF DumpPressed, engine, EngineTypeOK
  <2>2. states \in [Lines -> ButtonStates]
    BY DEF ButtonStates
  <2>3. UNCHANGED <<phase, pressed, reported>>
    BY <1>3 DEF DumpPressed
  <2>4. CASE delay.steps > 0
    <3>1. SetButtons(states) /\ resetting' = ResetTicks /\ delay_dump' = TRUE
      BY <1>3, <2>4 DEF DumpPressed
    <3> HIDE DEF states
    <3>2. delay_states' \in [Lines -> ButtonStates] /\ gpio_states' \in [Lines -> BOOLEAN]
      BY <2>2, <3>1, SetButtonsType
    <3> QED BY <2>1, <2>3, <3>1, <3>2, LampsAssumption
  <2>5. CASE ~(delay.steps > 0)
    <3>1. UNCHANGED <<delay_dump, resetting, delay_states, gpio_states>>
      BY <1>3, <2>5 DEF DumpPressed
    <3> QED BY <2>1, <2>3, <3>1
  <2> QED BY <2>4, <2>5
<1>4. CASE Flash
  <2>1. EngineTypeOK'
    BY <1>4 DEF Flash, engine, EngineTypeOK
  <2>2. delay_states' \in [Lines -> ButtonStates]
    BY <1>4 DEF Flash, DumpReset, ButtonStates
  <2>3. gpio_states' \in [Lines -> BOOLEAN]
    BY <1>4 DEF Flash, Lit
  <2>4. phase' \in 0 .. 3 /\ resetting' \in 0 .. ResetTicks
    BY <1>4, LampsAssumption DEF Flash
  <2> QED BY <1>4, <2>1, <2>2, <2>3, <2>4 DEF Flash
<1>5. CASE \E line \in {ExitLine, PauseLine, EnterLine} : Pressed(line)
  <2>1. PICK line \in {ExitLine, PauseLine, EnterLine} : Pressed(line)
    BY <1>5
  <2>2. delay_state_set' \in {"Bypassed", "Entering", "Exiting"}
    BY <2>1 DEF Pressed, SetDelayState, CommandOf, EngineTypeOK
  <2> QED BY <2>1, <2>2 DEF Pressed, SetDelayState, EngineTypeOK, lamps
<1>6. CASE UNCHANGED vars
  BY <1>6 DEF vars, lamps, engine, EngineTypeOK
<1> QED BY <1>1, <1>2, <1>3, <1>4, <1>5, <1>6 DEF Next

(* Steps of the engine that are not reported leave the lamps alone.        *)
LEMMA Unreported ==
  ASSUME IndInv, TypeOK', UNCHANGED <<lamps, hpi, reported>>
  PROVE  IndInv'
BY DEF IndInv, LinesShowButtons, LampsShowReport, DumpSeen, SpareOff, lamps

LEMMA IndStep ==
  ASSUME IndInv, [Next]_vars
  PROVE  IndInv'
<1>1. TypeOK'
  BY TypeStep DEF IndInv
<1>2. CASE Thread \/ Ramp \/ ServeDump
  <2>1. UNCHANGED <<lamps, hpi, reported>>
    BY <1>2 DEF Thread, Ramp, ServeDump, ThreadInit, Take, TakeEntering,
                TakeExiting, RampUp, RampDown, Dump, Becomes
  <2> QED BY <1>1, <2>1, Unreported
<1>3. CASE SendDelayState
  <2> DEFINE states == [DelayLamps(delay.state) EXCEPT ![DumpLine] =
                          DumpLamp(delay.steps)]
  <2>1. states \in [Lines -> ButtonStates]
    BY LampTypes DEF Lines, DumpLine, IndInv
  <2>2. SetButtons(states)
    BY <1>3 DEF SendDelayState
  <2>3. hpi' = delay /\ UNCHANGED <<phase, resetting>>
    BY <1>3 DEF SendDelayState, Report
  <2>4. LinesShowButtons'
    <3> HIDE DEF states
    <3>1. delay_states' = states
      BY <2>2 DEF SetButtons
    <3> QED BY <2>1, <2>2, <2>3, <3>1, SetButtonsType DEF LinesShowButtons
  <2>5. LampsShowReport'
    BY <2>2, <2>3 DEF LampsShowReport, SetButtons, DelayLamps, Lines, DumpLine,
                      ExitLine, EnterLine
  <2>6. DumpSeen'
    <3>1. delay_states'[DumpLine] = DumpLamp(delay.steps)
      BY <2>1, <2>2, LampTypes DEF SetButtons, Lines, DumpLine, IndInv
    <3>2. hpi.steps \in Int /\ resetting \in Nat
      BY FullAssumption, LampsAssumption DEF IndInv, TypeOK, EngineTypeOK, Delays, Wrapped
    <3>3. CASE resetting > 0
      <4>1. delay_states[DumpLine] = "FastFlash"
        BY <3>3 DEF IndInv, DumpSeen
      <4> QED BY <3>1, <3>3, <4>1, <2>3 DEF DumpSeen, DumpLamp
    <3>4. CASE ~(resetting > 0)
      BY <3>1, <3>4, <2>3 DEF DumpSeen, DumpLamp
    <3> QED BY <3>3, <3>4
  <2>7. SpareOff'
    BY <2>2 DEF SpareOff, SetButtons, DelayLamps, Lines, Buttons, DumpLine,
                ExitLine, EnterLine
  <2> QED BY <1>1, <2>4, <2>5, <2>6, <2>7 DEF IndInv
<1>4. CASE NoReport /\ UNCHANGED <<lamps, delay_dump, pressed, reported>>
  BY <1>1, <1>4, Unreported DEF NoReport
<1>5. CASE DumpPressed
  <2> DEFINE states == [delay_states EXCEPT ![DumpLine] = "FastFlash"]
  <2>1. CASE delay.steps > 0
    <3>1. SetButtons(states) /\ resetting' = ResetTicks
      BY <1>5, <2>1 DEF DumpPressed
    <3>2. UNCHANGED <<hpi, reported, phase>>
      BY <1>5 DEF DumpPressed, engine
    <3>3. states \in [Lines -> ButtonStates]
      BY DEF IndInv, TypeOK, ButtonStates
    <3>4. LinesShowButtons'
      <4> HIDE DEF states
      <4>1. delay_states' = states
        BY <3>1 DEF SetButtons
      <4> QED BY <3>1, <3>2, <3>3, <4>1, SetButtonsType DEF LinesShowButtons
    <3>5. LampsShowReport'
      BY <3>1, <3>2 DEF IndInv, LampsShowReport, SetButtons, TypeOK, Lines,
                        DumpLine, ExitLine, EnterLine
    <3>6. DumpSeen'
      BY <3>1, LampsAssumption DEF SetButtons, DumpSeen, IndInv, TypeOK, Lines, DumpLine
    <3>7. SpareOff'
      BY <3>1 DEF SpareOff, SetButtons, IndInv, TypeOK, Lines, Buttons, DumpLine
    <3> QED BY <1>1, <3>4, <3>5, <3>6, <3>7 DEF IndInv
  <2>2. CASE ~(delay.steps > 0)
    <3>1. UNCHANGED <<lamps, hpi, reported>>
      BY <1>5, <2>2 DEF DumpPressed, lamps, engine
    <3> QED BY <1>1, <3>1, Unreported
  <2> QED BY <2>1, <2>2
<1>6. CASE Flash
  <2>1. UNCHANGED <<hpi, reported>>
    BY <1>6 DEF Flash, engine
  <2>2. /\ \A line \in Lines \ {DumpLine} : delay_states'[line] = delay_states[line]
        /\ delay_states'[DumpLine] =
             IF resetting = 1 THEN "Off" ELSE delay_states[DumpLine]
    BY <1>6 DEF Flash, DumpReset, IndInv, TypeOK, Lines, DumpLine
  <2>3. LampsShowReport'
    BY <2>1, <2>2 DEF IndInv, LampsShowReport, Lines, DumpLine, ExitLine, EnterLine
  <2>4. DumpSeen'
    <3>1. resetting \in Nat
      BY LampsAssumption DEF IndInv, TypeOK
    <3>2. resetting' = IF resetting > 0 THEN resetting - 1 ELSE 0
      BY <1>6 DEF Flash
    <3> QED BY <2>1, <2>2, <3>1, <3>2 DEF IndInv, DumpSeen
  <2>5. SpareOff'
    BY <2>2 DEF SpareOff, IndInv, Lines, Buttons, DumpLine
  <2>6. LinesShowButtons'
    <3>1. \A line \in Buttons : gpio_states'[line] = Lit(delay_states'[line], phase')
      BY <1>6 DEF Flash, Lines, Buttons
    <3>2. \A line \in Lines \ Buttons : gpio_states'[line] = gpio_states[line]
      BY <1>6 DEF Flash
    <3>3. \A line \in Lines \ Buttons : gpio_states'[line] = Lit("Off", phase')
      BY <3>2 DEF IndInv, LinesShowButtons, SpareOff, Lit
    <3> QED BY <2>5, <3>1, <3>3 DEF LinesShowButtons, SpareOff
  <2> QED BY <1>1, <2>3, <2>4, <2>5, <2>6 DEF IndInv
<1>7. CASE \E line \in {ExitLine, PauseLine, EnterLine} : Pressed(line)
  <2>1. UNCHANGED <<lamps, hpi, reported>>
    BY <1>7 DEF Pressed, SetDelayState
  <2> QED BY <1>1, <2>1, Unreported
<1>8. CASE UNCHANGED vars
  <2>1. UNCHANGED <<lamps, hpi, reported>>
    BY <1>8 DEF vars, engine
  <2> QED BY <1>1, <2>1, Unreported
<1> QED BY <1>2, <1>3, <1>4, <1>5, <1>6, <1>7, <1>8 DEF Next, ScanTimer

-----------------------------------------------------------------------------
(***************************************************************************)
(* The types of engine and lamps, for every size (protocol_gpio.cpp,       *)
(* delaycontrol.cpp).                                                      *)
(***************************************************************************)
THEOREM LampsTypeCorrect == Spec => []TypeOK
<1>1. IndInv => TypeOK
  BY DEF IndInv
<1> QED BY <1>1, InitInv, IndStep, PTL DEF Spec

(***************************************************************************)
(* Every GPI line is as its button and the flash phase say: setButtonState *)
(* and flashData never leave one behind, although the timer drives four    *)
(* of the five lines only.                                                 *)
(***************************************************************************)
THEOREM LinesCorrect == Spec => []LinesShowButtons
<1>1. IndInv => LinesShowButtons
  BY DEF IndInv
<1> QED BY <1>1, InitInv, IndStep, PTL DEF Spec

(***************************************************************************)
(* Exit's and Enter's lamps show what was last reported, however presses,  *)
(* dumps and timers come between (ProtocolGpio::sendDelayState).           *)
(***************************************************************************)
THEOREM LampsCorrect == Spec => []LampsShowReport
<1>1. IndInv => LampsShowReport
  BY DEF IndInv
<1> QED BY <1>1, InitInv, IndStep, PTL DEF Spec

(***************************************************************************)
(* The dump lamp flashes exactly as long as the reset timer runs, and is   *)
(* lit otherwise only if another full dump was reported to be possible.    *)
(***************************************************************************)
THEOREM DumpLampCorrect == Spec => []DumpSeen
<1>1. IndInv => DumpSeen
  BY DEF IndInv
<1> QED BY <1>1, InitInv, IndStep, PTL DEF Spec

-----------------------------------------------------------------------------
(* With a panel.                                                           *)
(* A daemon that is down holds what one that starts has.                   *)
Forgotten ==
  /\ delay_states = [line \in Lines |-> "Off"] /\ gpio_states = PanelOff
  /\ phase = 0 /\ resetting = 0
  /\ delay_dump = FALSE /\ pressed = PauseLine /\ reported = FALSE

(* What DelayControl believes to have sent is what was sent.               *)
PanelInv ==
  /\ IndInv
  /\ daemon \in {"running", "exited", "dead"} /\ global_exiting \in BOOLEAN
  /\ panel \in [Lines -> BOOLEAN]
  /\ daemon = "running" => panel = gpio_states
  /\ daemon = "exited" => panel = PanelOff
  /\ daemon # "running" => Forgotten

(* Such values satisfy what was proved of the lamps.                       *)
LEMMA ForgottenInv ==
  ASSUME EngineTypeOK, Forgotten
  PROVE  IndInv
<1> USE DEF Forgotten, PanelOff
<1>1. TypeOK
  <2>1. delay_states \in [Lines -> ButtonStates]
    BY DEF ButtonStates
  <2>2. gpio_states \in [Lines -> BOOLEAN]
    OBVIOUS
  <2>3. phase \in 0 .. 3 /\ resetting \in 0 .. ResetTicks
    BY LampsAssumption
  <2> QED BY <2>1, <2>2, <2>3 DEF TypeOK
<1>2. LinesShowButtons
  BY DEF LinesShowButtons, Lit
<1>3. LampsShowReport
  BY DEF LampsShowReport
<1>4. DumpSeen
  BY DEF DumpSeen, Lines, DumpLine
<1>5. SpareOff
  BY DEF SpareOff
<1> QED BY <1>1, <1>2, <1>3, <1>4, <1>5 DEF IndInv

LEMMA PanelInitInv == PanelInit => PanelInv
<1> SUFFICES ASSUME PanelInit PROVE PanelInv
  OBVIOUS
<1>1. IndInv
  BY InitInv DEF PanelInit
<1>2. panel = gpio_states /\ panel \in [Lines -> BOOLEAN]
  BY DEF PanelInit, Init, PanelOff
<1> QED BY <1>1, <1>2 DEF PanelInit, PanelInv

(* The end of a daemon, however it comes.                                  *)
LEMMA ForgetStep ==
  ASSUME Forget
  PROVE  IndInv' /\ Forgotten'
<1>1. Forgotten'
  BY DEF Forget, Forgotten
<1>2. NoDelay \in Delays
  BY AtDelays, FullAssumption DEF NoDelay, DelayStates, Wrapped
<1>3. EngineTypeOK'
  BY <1>2 DEF Forget, EngineTypeOK
<1>4. IndInv'
  BY <1>1, <1>3, ForgottenInv, PTL
<1> QED BY <1>1, <1>4

LEMMA PanelStep ==
  ASSUME PanelInv, [PanelNext]_panelvars
  PROVE  PanelInv'
<1> USE DEF PanelInv
<1>1. CASE Daemon(Next)
  <2>1. IndInv'
    BY <1>1, IndStep DEF Daemon
  <2>2. gpio_states \in [Lines -> BOOLEAN] /\ gpio_states' \in [Lines -> BOOLEAN]
    BY <2>1 DEF IndInv, TypeOK
  <2>3. panel' = gpio_states'
    BY <1>1, <2>2 DEF Daemon, SendGpi
  <2> QED BY <1>1, <2>1, <2>2, <2>3 DEF Daemon
<1>2. CASE Exit
  <2>1. PanelOff \in [Lines -> BOOLEAN]
    BY DEF PanelOff
  <2> QED BY <1>2, <2>1, ForgetStep DEF Exit, SwitchOff, Forget
<1>3. CASE Crash
  BY <1>3, ForgetStep DEF Crash, Forget
<1>4. CASE Restart
  <2>1. EngineTypeOK'
    BY <1>4 DEF Restart, EngineRestart, EngineTypeOK
  <2>2. Forgotten'
    BY <1>4 DEF Restart, Forgotten, lamps
  <2>3. IndInv'
    <3>1. EngineTypeOK' /\ Forgotten' => IndInv'
      BY ForgottenInv, PTL
    <3> QED BY <2>1, <2>2, <3>1
  <2>4. panel' = gpio_states' /\ panel' \in [Lines -> BOOLEAN]
    BY <1>4, <2>2 DEF Restart, Forgotten, PanelOff
  <2> QED BY <1>4, <2>3, <2>4 DEF Restart
<1>5. CASE UNCHANGED panelvars
  <2>1. IndInv'
    BY <1>5, IndStep DEF panelvars
  <2> QED BY <1>5, <2>1 DEF panelvars, vars, lamps, onair, Forgotten
<1>6. CASE Signal
  <2>1. IndInv'
    BY <1>6, IndStep DEF Signal
  <2> QED BY <1>6, <2>1 DEF Signal, vars, lamps, Forgotten
<1> QED BY <1>1, <1>2, <1>3, <1>4, <1>5, <1>6 DEF PanelNext

-----------------------------------------------------------------------------
(***************************************************************************)
(* The types of engine, lamps and panel, for every size (protocol_gpio.cpp,*)
(* delaycontrol.cpp).                                                      *)
(***************************************************************************)
THEOREM PanelTypeCorrect == PanelSpec => []PanelTypeOK
<1>1. PanelInv => PanelTypeOK
  BY DEF PanelInv, IndInv, PanelTypeOK
<1> QED BY <1>1, PanelInitInv, PanelStep, PTL DEF PanelSpec

(***************************************************************************)
(* What was last sent of each line is as its button and the flash phase    *)
(* say, although only changes are sent, and all are off after an exit: the *)
(* constructor's and the destructor's lines make up for what an earlier    *)
(* daemon left (DelayControl).                                             *)
(***************************************************************************)
THEOREM PanelCorrect == PanelSpec => []PanelShowsButtons
<1>1. PanelInv => PanelShowsButtons
  BY DEF PanelInv, IndInv, LinesShowButtons, PanelShowsButtons
<1> QED BY <1>1, PanelInitInv, PanelStep, PTL DEF PanelSpec

(***************************************************************************)
(* Exit's and Enter's lamps show what was last reported, by this daemon    *)
(* (ProtocolGpio::sendDelayState).                                         *)
(***************************************************************************)
THEOREM PanelLampsCorrect == PanelSpec => []LampsShowReport
<1>1. PanelInv => LampsShowReport
  BY DEF PanelInv, IndInv
<1> QED BY <1>1, PanelInitInv, PanelStep, PTL DEF PanelSpec

(***************************************************************************)
(* The dump lamp flashes exactly as long as the reset timer runs, also     *)
(* when daemons exit, die and start (ProtocolGpio::dumpResetData).         *)
(***************************************************************************)
THEOREM PanelDumpLampCorrect == PanelSpec => []DumpSeen
<1>1. PanelInv => DumpSeen
  BY DEF PanelInv, IndInv
<1> QED BY <1>1, PanelInitInv, PanelStep, PTL DEF PanelSpec
===============================================================================
