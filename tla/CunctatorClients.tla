--------------------------- MODULE CunctatorClients ----------------------------
(***************************************************************************)
(* A client of the Cunctator protocol (protocol_cunc.cpp) beside the       *)
(* persistence of the delay state: every report of the audio router is     *)
(* broadcast, after it was saved; a query is answered with the members of  *)
(* the audio thread, not with what was last reported                       *)
(* (cuncDelayStateRequestedData() in lwnetrouterd.cpp).                    *)
(***************************************************************************)
EXTENDS DelayPersistence

VARIABLES
  client,   \* "absent", or by what it was last told: "nothing", "report", "answer"
  told      \* the state and interval it was told

cunctator == <<client, told>>
allvars == <<vars, cunctator>>

ClientsInit == Init /\ client = "absent" /\ told = NoDelay

Connected == running /\ client # "absent"

Absent == client' = "absent" /\ told' = NoDelay

Connect ==
  /\ running /\ client = "absent"
  /\ client' = "nothing"
  /\ UNCHANGED <<vars, told>>

(* "DC", or the client has gone.                                           *)
DropConnection ==
  /\ Connected
  /\ Absent
  /\ UNCHANGED vars

(* A wrong variant: what was reported before is broadcast.                 *)
SendPrevious ==
  IF Connected THEN client' = "report" /\ told' = hpi ELSE UNCHANGED cunctator

(* sendDelayState() to all clients, the last slot of a report.             *)
SendDelayState ==
  IF Connected THEN client' = "report" /\ told' = hpi' ELSE UNCHANGED cunctator

(* "DS": sendDelayState() to the one that asks.                            *)
GetDelayState ==
  /\ Connected
  /\ client' = "answer" /\ told' = delay
  /\ UNCHANGED vars

(* "SS": states other than these two are ignored.                          *)
ClientSetsDelayState ==
  /\ Connected
  /\ \E state \in {"Entering", "Exiting"} : SetDelayState(state)
  /\ UNCHANGED <<running, store, cunctator>>

ClientsScan ==
  \/ DelayStateChanged /\ SendDelayState
  \/ NothingChanged /\ UNCHANGED cunctator

(* "DP" is among the engine's dumps.                                       *)
ClientsNext ==
  \/ Connect \/ DropConnection \/ GetDelayState \/ ClientSetsDelayState
  \/ ClientsScan
  \/ (Engine \/ SaveForOthers \/ Restart) /\ UNCHANGED cunctator
  \/ Crash /\ Absent

(* As in DelayPersistence.                                                 *)
ClientsSpec ==
  ClientsInit /\ [][ClientsNext]_allvars
    /\ WF_allvars(Engine /\ ThreadInit /\ UNCHANGED cunctator)
    /\ WF_allvars(Engine /\ Take /\ UNCHANGED cunctator)
    /\ WF_allvars(ClientsScan)

-----------------------------------------------------------------------------
(* The types; there is no client of a daemon that is down.                 *)
ClientsTypeOK ==
  /\ TypeOK
  /\ client \in {"absent", "nothing", "report", "answer"}
  /\ told \in Delays
  /\ ~running => client = "absent"

(***************************************************************************)
(* A client that was last told by a broadcast has what was last reported,  *)
(* however often it asked before, and across everything that the engine    *)
(* did since.  (One that was last told by an answer may have what the      *)
(* engine held between two scans and never reported.)                      *)
(***************************************************************************)
ClientsCurrent == client = "report" => told = hpi
===============================================================================
