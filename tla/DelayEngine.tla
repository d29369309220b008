------------------------------ MODULE DelayEngine ------------------------------
(***************************************************************************)
(* The delay engine of one input as the rest of the daemon sees it: what   *)
(* scanTimerData() reports, a state and an interval in steps of 100 msecs  *)
(* (router_hpiaudio.cpp; AudioDelay has the detail).                       *)
(*                                                                         *)
(* A step of the ramp takes seconds and the scan 100 msecs: there is a     *)
(* scan between any two, and a ramp up goes through two steps at least:    *)
(* the setpoint of a full delay of one second is 225 msecs.  A command is  *)
(* taken within msecs, and with it the first step where there is audio for *)
(* one.  The thread is assumed to have started before the first scan.  One *)
(* thing is left out: an exited delay whose audio goes on growing because  *)
(* of the time scale of another input (ExitedNeverSlowed of AudioDelay)    *)
(* may be entered in one step.                                             *)
(*                                                                         *)
(* The interval is unsigned in the engine and an int in its reports: one   *)
(* that a dump has wrapped (DumpStopsAtZero of AudioDelay) is negative.    *)
(***************************************************************************)
EXTENDS Integers

CONSTANT Full     \* the interval of a full delay, in steps

ASSUME FullAssumption == Full \in Nat /\ Full >= 3

DelayStates ==
  {"Unknown", "Bypassed", "Entered", "Entering", "Exited", "Exiting"}

Wrapped == -1   \* stands for any negative interval
Unsigned(steps) == IF steps = Wrapped THEN Full + 1 ELSE steps

Delays == [state : DelayStates, steps : Wrapped .. Full]
At(state, steps) == [state |-> state, steps |-> steps]
NoDelay == At("Exited", 0)

VARIABLES
  threaded,           \* the audio thread has initialised its members
  delay_state_set,    \* the command
  delay,              \* delay_state_taken and delay_interval
  ramped,             \* a step of the ramp must wait for the next scan
  hpi                 \* hpi_delay_state and hpi_delay_interval

engine == <<threaded, delay_state_set, delay, ramped, hpi>>

(* The members that the constructor does not set hold anything.            *)
EngineInit ==
  /\ threaded = FALSE /\ ramped = TRUE
  /\ delay_state_set = "Bypassed"
  /\ delay \in Delays /\ hpi \in Delays

EngineRestart ==
  /\ threaded' = FALSE /\ ramped' = TRUE
  /\ delay_state_set' = "Bypassed"
  /\ delay' \in Delays /\ hpi' \in Delays

-----------------------------------------------------------------------------
ThreadInit ==
  /\ ~threaded
  /\ threaded' = TRUE /\ delay' = NoDelay
  /\ UNCHANGED <<delay_state_set, ramped, hpi>>

SetDelayState(state) ==
  /\ delay_state_set' = state
  /\ UNCHANGED <<threaded, delay, ramped, hpi>>

Becomes(states) ==
  /\ delay' \in states
  /\ UNCHANGED <<threaded, delay_state_set, hpi>>

(* The next step of a ramp up; a wrapped interval is not raised.           *)
OneStepUp ==
  {At("Entering", n) : n \in {Unsigned(delay.steps) + 1} \cap 0 .. Full - 1}

(* The audio is at the setpoint: a quick Exit and Enter leave it there.    *)
AtSetpoint ==
  Unsigned(delay.steps) >= 2 /\ (~ramped \/ delay.steps = Full)

(* What a delay that is being left may be measured at.  A dump that wraps  *)
(* the interval leaves less than 200 msecs of audio, and more only when a  *)
(* scan has gone by.                                                       *)
Measured ==
  0 .. IF delay.steps # Wrapped THEN delay.steps ELSE IF ramped THEN 2 ELSE Full

TakeEntering ==
  /\ delay_state_set = "Entering" /\ delay.state \in {"Exited", "Exiting"}
  /\ \/ Becomes({At("Entering", delay.steps)}) /\ UNCHANGED ramped
     \/ /\ ~ramped \/ delay = NoDelay
        /\ Becomes(OneStepUp) /\ ramped' = TRUE
     \/ /\ delay.state = "Exiting" /\ AtSetpoint
        /\ Becomes({At("Entered", Full)}) /\ ramped' = TRUE

TakeExiting ==
  /\ delay_state_set = "Exiting" /\ delay.state \in {"Entered", "Entering"}
  /\ Becomes({At("Exiting", n) : n \in Measured} \cup {NoDelay})
  /\ UNCHANGED ramped

Take == threaded /\ (TakeEntering \/ TakeExiting)

(* A wrong variant: the ramp goes on beyond the full delay.                *)
RampUpEndless ==
  /\ threaded /\ ~ramped
  /\ delay_state_set = "Entering" /\ delay.state = "Entering"
  /\ Becomes({At("Entering", delay.steps + 1)})
  /\ ramped' = TRUE

RampUp ==
  /\ threaded
  /\ delay_state_set = "Entering" /\ delay.state = "Entering"
  /\ \/ ~ramped /\ Becomes(OneStepUp)
     \/ AtSetpoint /\ Becomes({At("Entered", Full)})
  /\ ramped' = TRUE

(* A wrapped interval is put right at once.                                *)
RampDown ==
  /\ threaded
  /\ ~ramped \/ delay.steps = Wrapped
  /\ delay_state_set = "Exiting" /\ delay.state = "Exiting"
  /\ Becomes({At("Exiting", n) : n \in Measured \ {delay.steps}}
               \cup {NoDelay})
  /\ ramped' = TRUE

(* A dump of any size; a delay that is exited cannot be dumped.  A dump is *)
(* a second or more and the interval less than 200 msecs behind the audio, *)
(* so that an interval that wraps was of two steps at least.               *)
DumpedTo ==
  {0} \cup 0 .. delay.steps
    \cup {n \in {Wrapped} : Unsigned(delay.steps) >= 2}

Dump ==
  /\ threaded
  /\ \E n \in DumpedTo :
       \/ /\ delay.state \in {"Entered", "Entering"}
          /\ Becomes({At("Entering", n)})
       \/ /\ delay.state = "Exiting"
          /\ Becomes({IF n = 0 THEN NoDelay ELSE At("Exiting", n)})
  /\ UNCHANGED ramped

-----------------------------------------------------------------------------
(* scanTimerData(): a difference is copied and reported; the slots that    *)
(* are told may give a command.                                            *)
Report ==
  /\ threaded /\ hpi # delay
  /\ hpi' = delay /\ ramped' = FALSE
  /\ UNCHANGED <<threaded, delay>>

NoReport ==
  /\ threaded /\ hpi = delay /\ ramped
  /\ ramped' = FALSE
  /\ UNCHANGED <<threaded, delay_state_set, delay, hpi>>

EngineTypeOK ==
  /\ threaded \in BOOLEAN /\ ramped \in BOOLEAN
  /\ delay_state_set \in {"Bypassed", "Entering", "Exiting"}
  /\ delay \in Delays /\ hpi \in Delays
===============================================================================
