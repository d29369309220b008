------------------------------ MODULE DelayLamps ------------------------------
(***************************************************************************)
(* The buttons of an input's GPIO delay control (protocol_gpio.cpp,        *)
(* delaycontrol.cpp): GPOs give commands to the engine, its reports and    *)
(* dumps set the buttons' lamps, and a flash timer drives the GPI lines.   *)
(* The input has a DelayControlSource.                                     *)
(***************************************************************************)
EXTENDS DelayEngine

CONSTANTS
  DumpDelay,    \* the input's DumpDelay, in the engine's steps
  ResetTicks    \* 2000 msecs in periods of the flash timer: 10

ASSUME LampsAssumption ==
  /\ DumpDelay \in 1 .. Full
  /\ ResetTicks \in Nat \ {0}

Lines == 0 .. 4
DumpLine == 0
ExitLine == 1
PauseLine == 2
EnterLine == 3
Buttons == 0 .. 3

ButtonStates == {"Off", "On", "SlowFlash", "FastFlash"}

VARIABLES
  delay_states,   \* what a button shows
  gpio_states,    \* the GPI line that lights it
  phase,          \* delay_flash_phase, modulo 4
  resetting,      \* ticks until the dump reset timer runs out, 0 if inactive
  delay_dump,     \* a dump that the engine has still to carry out
  pressed,        \* the last of Exit and Enter that was pressed, or Pause
  reported        \* there has been a report

lamps == <<delay_states, gpio_states, phase, resetting>>
vars == <<engine, lamps, delay_dump, pressed, reported>>

Init ==
  /\ EngineInit
  /\ delay_states = [line \in Lines |-> "Off"]
  /\ gpio_states = [line \in Lines |-> FALSE]
  /\ phase = 0 /\ resetting = 0
  /\ delay_dump = FALSE /\ pressed = PauseLine /\ reported = FALSE

-----------------------------------------------------------------------------
(* The line of a button in a state, in a phase of the flash timer.         *)
Lit(state, ph) ==
  \/ state = "On"
  \/ state = "SlowFlash" /\ ph \in {0, 1}
  \/ state = "FastFlash" /\ ph \in {0, 2}

(* A wrong variant: the line of a flashing button waits for the timer.     *)
SetButtonsLate(states) ==
  /\ delay_states' = states
  /\ gpio_states' = [line \in Lines |-> states[line] = "On"]

(* setButtonState() of those buttons that change.                          *)
SetButtons(states) ==
  /\ delay_states' = states
  /\ gpio_states' = [line \in Lines |-> Lit(states[line], phase)]

(* A wrong variant: what was shown before stays.                           *)
DelayLampsKept(state) ==
  LET Show(line, lamp) == [delay_states EXCEPT ![line] = lamp] IN
  CASE state = "Entering" -> Show(EnterLine, "SlowFlash")
    [] state = "Entered" -> Show(EnterLine, "On")
    [] state = "Exiting" -> Show(ExitLine, "SlowFlash")
    [] state = "Exited" -> Show(ExitLine, "On")
    [] OTHER -> delay_states

(* All buttons but Dump are switched off, then one on again.               *)
DelayLamps(state) ==
  LET off == [line \in Lines |-> IF line = DumpLine THEN delay_states[line]
                                                    ELSE "Off"]
      Show(line, lamp) == [off EXCEPT ![line] = lamp]
  IN  CASE state = "Entering" -> Show(EnterLine, "SlowFlash")
        [] state = "Entered" -> Show(EnterLine, "On")
        [] state = "Exiting" -> Show(ExitLine, "SlowFlash")
        [] state = "Exited" -> Show(ExitLine, "On")
        [] OTHER -> off

(* A wrong variant: a report overwrites the lamp of a dump.                *)
DumpLampAlways(steps) == IF steps >= DumpDelay THEN "On" ELSE "Off"

DumpLamp(steps) ==
  IF resetting > 0 THEN delay_states[DumpLine]
  ELSE IF steps >= DumpDelay THEN "On" ELSE "Off"

(* sendDelayState(), called by the scan.                                   *)
SendDelayState ==
  /\ Report
  /\ SetButtons([DelayLamps(delay.state) EXCEPT ![DumpLine] =
                   DumpLamp(delay.steps)])
  /\ reported' = TRUE
  /\ UNCHANGED <<delay_state_set, phase, resetting, delay_dump, pressed>>

ScanTimer ==
  \/ SendDelayState
  \/ NoReport /\ UNCHANGED <<lamps, delay_dump, pressed, reported>>

(* sendDelayDumped(), called by dumpDelay() when there is delay to dump.   *)
DumpPressed ==
  /\ IF delay.steps > 0
     THEN /\ delay_dump' = TRUE /\ resetting' = ResetTicks
          /\ SetButtons([delay_states EXCEPT ![DumpLine] = "FastFlash"])
     ELSE UNCHANGED <<delay_dump, resetting, delay_states, gpio_states>>
  /\ UNCHANGED <<engine, phase, pressed, reported>>

(* A wrong variant: Engage is taken to be the line of Pause.               *)
CommandOfPause(line) ==
  CASE line = ExitLine -> "Exiting"
    [] line = PauseLine -> "Entering"
    [] OTHER -> delay_state_set

CommandOf(line) ==
  CASE line = ExitLine -> "Exiting"
    [] line = EnterLine -> "Entering"
    [] OTHER -> delay_state_set

(* gpioReceivedData(): the other buttons.                                  *)
Pressed(line) ==
  /\ SetDelayState(CommandOf(line))
  /\ pressed' = line
  /\ UNCHANGED <<lamps, delay_dump, reported>>

DumpReset == [delay_states EXCEPT ![DumpLine] = "Off"]

(* In 200 msecs the scan is made twice and the thread loops 20 times.      *)
CaughtUp ==
  threaded => hpi = delay /\ (delay_dump => delay.state = "Exited")

(* flashData(), 200 msecs later, and dumpResetData() when its time has     *)
(* come.  Only four buttons flash: the last is never lit.                  *)
Flash ==
  /\ CaughtUp
  /\ phase' = (phase + 1) % 4
  /\ resetting' = IF resetting > 0 THEN resetting - 1 ELSE 0
  /\ delay_states' = IF resetting = 1 THEN DumpReset ELSE delay_states
  /\ gpio_states' = [line \in Lines |->
       IF line \in Buttons THEN Lit(delay_states'[line], phase')
                           ELSE gpio_states[line]]
  /\ UNCHANGED <<engine, delay_dump, pressed, reported>>

(* The audio thread; a dump flag is cleared when it is served.             *)
Ramp == (RampUp \/ RampDown) /\ UNCHANGED <<lamps, delay_dump, pressed, reported>>

Thread ==
  (ThreadInit \/ Take) /\ UNCHANGED <<lamps, delay_dump, pressed, reported>>

ServeDump ==
  /\ delay_dump /\ Dump
  /\ delay_dump' = FALSE
  /\ UNCHANGED <<lamps, pressed, reported>>

Next ==
  \/ Thread \/ Ramp \/ ServeDump
  \/ ScanTimer \/ DumpPressed \/ Flash
  \/ \E line \in {ExitLine, PauseLine, EnterLine} : Pressed(line)

(* The thread loops, the card plays, so that a ramp moves, and both timers *)
(* are periodic.                                                           *)
Spec ==
  Init /\ [][Next]_vars
       /\ WF_vars(Thread) /\ WF_vars(ServeDump) /\ WF_vars(Ramp)
       /\ WF_vars(ScanTimer) /\ WF_vars(Flash)

-----------------------------------------------------------------------------
(* The types.                                                              *)
TypeOK ==
  /\ EngineTypeOK
  /\ delay_states \in [Lines -> ButtonStates]
  /\ gpio_states \in [Lines -> BOOLEAN]
  /\ phase \in 0 .. 3 /\ resetting \in 0 .. ResetTicks
  /\ pressed \in {ExitLine, PauseLine, EnterLine}
  /\ delay_dump \in BOOLEAN /\ reported \in BOOLEAN

(***************************************************************************)
(* A line is as its button and the common phase say, whenever the button   *)
(* was set between two ticks of the flash timer.                           *)
(***************************************************************************)
LinesShowButtons ==
  \A line \in Lines : gpio_states[line] = Lit(delay_states[line], phase)

(***************************************************************************)
(* The lamps show the state that was last reported: one of Exit and Enter, *)
(* flashing while the delay is on its way, however commands and dumps      *)
(* followed each other.                                                    *)
(***************************************************************************)
LampsShowReport ==
  reported =>
    /\ delay_states[EnterLine] =
         (CASE hpi.state = "Entering" -> "SlowFlash"
            [] hpi.state = "Entered" -> "On"
            [] OTHER -> "Off")
    /\ delay_states[ExitLine] =
         (CASE hpi.state = "Exiting" -> "SlowFlash"
            [] hpi.state = "Exited" -> "On"
            [] OTHER -> "Off")

(***************************************************************************)
(* A dump is seen for two seconds, whatever is reported meanwhile, and not *)
(* for longer; then the lamp is on only if another dump would be full.     *)
(***************************************************************************)
DumpSeen ==
  /\ resetting > 0 <=> delay_states[DumpLine] = "FastFlash"
  /\ delay_states[DumpLine] = "On" => hpi.steps >= DumpDelay

(***************************************************************************)
(* "... illuminate the 'Dump' button whenever there is at least            *)
(* 'DumpDelay' time on the delay" (ChangeLog:103-105), as last reported.   *)
(***************************************************************************)
DumpLampLit ==
  reported /\ resetting = 0 /\ hpi.steps >= DumpDelay
    => delay_states[DumpLine] = "On"

(***************************************************************************)
(* Once there has been a report, Enter is shown when nothing else is       *)
(* pressed afterwards: its lamp flashes or is on, through any dumps.  Exit *)
(* likewise.                                                               *)
(***************************************************************************)
PressShown ==
  \A line \in {ExitLine, EnterLine} :
    reported /\ pressed = line
      ~> pressed # line \/ delay_states[line] # "Off"
===============================================================================
