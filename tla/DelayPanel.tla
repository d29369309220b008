------------------------------ MODULE DelayPanel -------------------------------
(***************************************************************************)
(* The panel with an input's delay buttons, as it is lit over the network: *)
(* DelayControl sends only the GPI lines that change, so what the panel    *)
(* shows depends on everything that was sent before, by this daemon or by  *)
(* one that has exited or died (delaycontrol.cpp, lwnetrouterd.cpp).       *)
(* A message that is sent is taken to arrive.                              *)
(***************************************************************************)
EXTENDS DelayLamps

VARIABLES
  daemon,           \* "running", "exited" on a signal, or "dead"
  global_exiting,   \* there was a signal
  panel             \* per line, what was sent last

onair == <<daemon, global_exiting, panel>>
panelvars == <<vars, onair>>

PanelOff == [line \in Lines |-> FALSE]

(* The constructor of DelayControl sends every line.                       *)
PanelInit ==
  /\ Init
  /\ daemon = "running" /\ global_exiting = FALSE
  /\ panel = PanelOff

(* SendGpi() of every line that a step sets.                               *)
SendGpi ==
  panel' = [line \in Lines |->
    IF gpio_states'[line] # gpio_states[line] THEN gpio_states'[line]
                                              ELSE panel[line]]

Daemon(step) ==
  daemon = "running" /\ step /\ SendGpi /\ UNCHANGED <<daemon, global_exiting>>

(* SIGINT or SIGTERM is only noted.                                        *)
Signal ==
  /\ daemon = "running"
  /\ global_exiting' = TRUE
  /\ UNCHANGED <<vars, daemon, panel>>

(* What a process held is lost: its next life begins with these values.    *)
Forget ==
  /\ global_exiting' = FALSE
  /\ threaded' = FALSE /\ ramped' = TRUE /\ delay_state_set' = "Bypassed"
  /\ delay' = NoDelay /\ hpi' = NoDelay
  /\ delay_states' = [line \in Lines |-> "Off"] /\ gpio_states' = PanelOff
  /\ phase' = 0 /\ resetting' = 0
  /\ delay_dump' = FALSE /\ pressed' = PauseLine /\ reported' = FALSE

(* A wrong variant: the lines are left as they are.                        *)
SwitchOffNone == UNCHANGED panel

(* The destructor of DelayControl sends every line.                        *)
SwitchOff == panel' = PanelOff

(* exitData(), every 500 msecs; the routers are not deleted.               *)
Exit ==
  /\ daemon = "running" /\ global_exiting
  /\ daemon' = "exited"
  /\ SwitchOff
  /\ Forget

Crash ==
  /\ daemon = "running"
  /\ daemon' = "dead"
  /\ UNCHANGED panel
  /\ Forget

Restart ==
  /\ daemon # "running"
  /\ daemon' = "running"
  /\ panel' = PanelOff
  /\ EngineRestart
  /\ UNCHANGED <<lamps, delay_dump, pressed, reported, global_exiting>>

PanelNext == Daemon(Next) \/ Signal \/ Exit \/ Crash \/ Restart

(* As in DelayLamps, while there is a daemon.                              *)
PanelSpec ==
  PanelInit /\ [][PanelNext]_panelvars
    /\ WF_panelvars(Daemon(Thread)) /\ WF_panelvars(Daemon(ServeDump))
    /\ WF_panelvars(Daemon(Ramp)) /\ WF_panelvars(Daemon(ScanTimer))
    /\ WF_panelvars(Daemon(Flash))

-----------------------------------------------------------------------------
(* The types, of a daemon that runs or is down.                            *)
PanelTypeOK ==
  /\ TypeOK
  /\ daemon \in {"running", "exited", "dead"}
  /\ global_exiting \in BOOLEAN
  /\ panel \in [Lines -> BOOLEAN]

(***************************************************************************)
(* While the daemon runs the panel shows every button as its state and the *)
(* flash phase say, whenever it was set between two ticks and whatever an  *)
(* earlier daemon had left there; after an orderly exit it is dark.        *)
(***************************************************************************)
PanelShowsButtons ==
  /\ daemon = "running" =>
       \A line \in Lines : panel[line] = Lit(delay_states[line], phase)
  /\ daemon = "exited" => panel = PanelOff
===============================================================================
