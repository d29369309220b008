----------------------------- MODULE Crosspoints ------------------------------
(***************************************************************************)
(* Crosspoint switching in lwnetrouterd: a command of the RML or the SAP   *)
(* protocol is a Qt signal whose slots run one after the other, in the     *)
(* order MainObject connects them: each router keeps a crosspoint table of *)
(* its own, the audio router also drives the mixer and tells the SAP       *)
(* clients, and State saves the table to a file.  The daemon may die       *)
(* between any two of these steps and is started again from the file.      *)
(***************************************************************************)
EXTENDS Integers, Sequences

CONSTANTS
  NumInputs,    \* config()->inputQuantity()
  NumOutputs,   \* config()->outputQuantity()
  Clients,      \* SAP clients
  MaxBelow      \* bound on how far below 0 a SAP client's number may be

ASSUME CrosspointsAssumption ==
  NumInputs \in Nat \ {0} /\ NumOutputs \in Nat \ {0} /\ MaxBelow \in Nat

Off == -1
Inputs == 0 .. NumInputs - 1
Outputs == 0 .. NumOutputs - 1

(* What the tables hold: an input, or a negative number, which acts as OFF. *)
(* SAP's numbers are not checked from below, so that it need not be Off.   *)
Sources == Off - MaxBelow .. NumInputs - 1

Routers == {"audio", "gpio", "breakaway", "cic"}

(* A wrong variant: RML's signal is not connected to the breakaway router. *)
RmlSlotsShort == <<"audio", "gpio", "state">>

(* The slots of crosspointChangeReceived, in the order of connection.      *)
RmlSlots == <<"audio", "gpio", "breakaway", "state">>
SapSlots == <<"audio", "gpio", "breakaway", "cic", "state">>

(* Wrong variants: the source after the last input is not taken for OFF,   *)
(* and OFF is told in RML's way.                                           *)
SapInputUnclamped(n) == n - 1
SapNumberLikeRml(input) == input + 1

(* Protocols number outputs and inputs from 1.  RML's OFF is input 0; SAP  *)
(* advertises OFF as the input after the last, and takes every input after *)
(* the last for it; a number below 1 goes on as it is.                     *)
SapNumbers == -MaxBelow .. NumInputs + 1

RmlInput(n) == n - 1
SapInput(n) == IF n - 1 >= NumInputs THEN Off ELSE n - 1
SapNumber(input) == (IF input < 0 THEN NumInputs ELSE input) + 1

-----------------------------------------------------------------------------
VARIABLES
  running,        \* the daemon is up
  crosspoints,    \* router_crosspoints of each router
  mixer,          \* for each output, the input streams whose gain is on
  state_cross_points,   \* State's table
  file,           \* the CrossPoint entries of the state file
  savefailed,     \* the last save() was not completed
  slots,          \* the slots still to run for the command in progress
  output, input,  \* its arguments
  asked,          \* the number a SAP client asked for, or 0
  told            \* what each connected client was last told, per output

vars == <<running, crosspoints, mixer, state_cross_points, file, savefailed,
          slots, output, input, asked, told>>

job == <<slots, output, input, asked>>

Idle == running /\ slots = <<>>

(* No answer yet; a connected client has a table, another none.            *)
Unknown == 0
Connected == DOMAIN told
Tell(o, n) == [c \in Connected |-> [told[c] EXCEPT ![o] = n]]

(* The daemon starts from any saved table: each router is set in turn      *)
(* before the event loop runs, so no client or command comes in between.   *)
StartFrom(table) ==
  /\ running' = TRUE
  /\ crosspoints' = [r \in Routers |-> table]
  /\ mixer' = [o \in Outputs |-> IF table[o] >= 0 THEN {table[o]} ELSE {}]
  /\ state_cross_points' = table

Init ==
  /\ running = TRUE
  /\ \E table \in [Outputs -> Sources] :
       /\ crosspoints = [r \in Routers |-> table]
       /\ mixer = [o \in Outputs |-> IF table[o] >= 0 THEN {table[o]} ELSE {}]
       /\ state_cross_points = table
       /\ file = table
  /\ savefailed = FALSE
  /\ slots = <<>> /\ output = 0 /\ input = Off /\ asked = 0
  /\ told = <<>>

-----------------------------------------------------------------------------
(* Commands.                                                               *)

RmlCommand(n, o) ==
  /\ Idle
  /\ n \in 0 .. NumInputs
  /\ slots' = RmlSlots /\ output' = o /\ input' = RmlInput(n) /\ asked' = 0
  /\ UNCHANGED <<running, crosspoints, mixer, state_cross_points, file,
                 savefailed, told>>

ActivateRoute(n, o) ==
  /\ Idle
  /\ n \in SapNumbers
  /\ slots' = SapSlots /\ output' = o /\ input' = SapInput(n) /\ asked' = n
  /\ UNCHANGED <<running, crosspoints, mixer, state_cross_points, file,
                 savefailed, told>>

(* sapCrosspointRequestedData(): the client that asks is told the audio     *)
(* router's table, one output of it or all of them.                        *)
CrosspointRequested(c, asks) ==
  told' = [told EXCEPT ![c] = [o \in Outputs |->
    IF o \in asks THEN SapNumber(crosspoints["audio"][o]) ELSE @[o]]]

RouteStat(c, asks) ==
  /\ Idle /\ c \in Connected
  /\ CrosspointRequested(c, asks)
  /\ UNCHANGED <<running, crosspoints, mixer, state_cross_points, file,
                 savefailed, job>>

Connect(c) ==
  /\ Idle /\ c \notin Connected
  /\ told' = [d \in Connected \cup {c} |->
                IF d = c THEN [o \in Outputs |-> Unknown] ELSE told[d]]
  /\ UNCHANGED <<running, crosspoints, mixer, state_cross_points, file,
                 savefailed, job>>

Disconnect(c) ==
  /\ c \in Connected
  /\ told' = [d \in Connected \ {c} |-> told[d]]
  /\ UNCHANGED <<running, crosspoints, mixer, state_cross_points, file,
                 savefailed, job>>

-----------------------------------------------------------------------------
(* The slots.                                                              *)

Runs(slot) == running /\ slots # <<>> /\ Head(slots) = slot

SetCrossPoint(r) ==
  crosspoints' = [crosspoints EXCEPT ![r][output] = input]

(* A wrong variant: SAP clients are not told.                              *)
AudioSlotSilent ==
  /\ Runs("audio")
  /\ mixer' = [mixer EXCEPT ![output] =
       (@ \ Inputs) \cup (IF input >= 0 THEN {input} ELSE {})]
  /\ SetCrossPoint("audio")
  /\ slots' = Tail(slots)
  /\ UNCHANGED <<running, state_cross_points, file, savefailed, output, input,
                 asked, told>>

(* RouterHpiAudio::crossPointSet() turns every input off for the output,   *)
(* then the wanted one on; crossPointChanged goes to the SAP clients.      *)
AudioSlot ==
  /\ Runs("audio")
  /\ mixer' = [mixer EXCEPT ![output] =
       (@ \ Inputs) \cup (IF input >= 0 THEN {input} ELSE {})]
  /\ SetCrossPoint("audio")
  /\ told' = Tell(output, SapNumber(input))
  /\ slots' = Tail(slots)
  /\ UNCHANGED <<running, state_cross_points, file, savefailed, output, input,
                 asked>>

RouterSlot(r) ==
  /\ Runs(r)
  /\ SetCrossPoint(r)
  /\ slots' = Tail(slots)
  /\ UNCHANGED <<running, mixer, state_cross_points, file, savefailed, output,
                 input, asked, told>>

(* A wrong variant: the new value is not saved.                            *)
StateSlotUnsaved ==
  /\ Runs("state")
  /\ state_cross_points' = [state_cross_points EXCEPT ![output] = input]
  /\ slots' = <<>>
  /\ UNCHANGED <<running, crosspoints, mixer, file, savefailed, output, input,
                 asked, told>>

(* State::setCrossPoint() keeps the value whether or not save() can open   *)
(* its temporary file; the file changes at the rename, if ever.            *)
StateSlot ==
  /\ Runs("state")
  /\ state_cross_points' = [state_cross_points EXCEPT ![output] = input]
  /\ \/ slots' = <<"rename">> /\ UNCHANGED savefailed
     \/ slots' = <<>> /\ savefailed' = TRUE
  /\ UNCHANGED <<running, crosspoints, mixer, file, output, input, asked, told>>

(* What is read back from a file whose writing was cut short: the entries  *)
(* before the cut, at the cut whatever its text now says, then the default.*)
CutShort(table) ==
  {t \in [Outputs -> Sources] :
     \E k \in Outputs : \A o \in Outputs :
       (o < k => t[o] = table[o]) /\ (o > k => t[o] = Off)}

(* save() does not look at what fprintf(), fclose() and rename() return: a *)
(* file that could not be written in full is renamed like any other.       *)
Rename ==
  /\ Runs("rename")
  /\ \/ file' = state_cross_points /\ savefailed' = FALSE
     \/ file' \in CutShort(state_cross_points) /\ savefailed' = TRUE
     \/ file' = file /\ savefailed' = TRUE
  /\ slots' = <<>>
  /\ UNCHANGED <<running, crosspoints, mixer, state_cross_points, output, input,
                 asked, told>>

Slot ==
  \/ AudioSlot \/ StateSlot \/ Rename
  \/ \E r \in Routers \ {"audio"} : RouterSlot(r)

-----------------------------------------------------------------------------
(* The daemon dies, at any step; the mixer stays as it is.                 *)
Crash ==
  /\ running
  /\ running' = FALSE
  /\ slots' = <<>> /\ output' = 0 /\ input' = Off /\ asked' = 0
  /\ told' = <<>>
  /\ UNCHANGED <<crosspoints, mixer, state_cross_points, file, savefailed>>

(* systemd starts it again.                                                *)
Restart ==
  /\ ~running
  /\ StartFrom(file)
  /\ savefailed' = FALSE
  /\ UNCHANGED <<file, job, told>>

Next ==
  \/ \E n \in SapNumbers, o \in Outputs :
       RmlCommand(n, o) \/ ActivateRoute(n, o)
  \/ \E c \in Clients :
       \/ Connect(c) \/ Disconnect(c) \/ RouteStat(c, Outputs)
       \/ \E o \in Outputs : RouteStat(c, {o})
  \/ Slot
  \/ Crash \/ Restart

Spec == Init /\ [][Next]_vars

-----------------------------------------------------------------------------
(* The types: no command leaves an input after the last in a table or the   *)
(* file, and none is in progress while the daemon is down.                  *)
TypeOK ==
  /\ running \in BOOLEAN
  /\ crosspoints \in [Routers -> [Outputs -> Sources]]
  /\ mixer \in [Outputs -> SUBSET Inputs]
  /\ state_cross_points \in [Outputs -> Sources]
  /\ file \in [Outputs -> Sources]
  /\ savefailed \in BOOLEAN
  /\ slots \in Seq(Routers \cup {"state", "rename"})
  /\ output \in Outputs /\ input \in Sources
  /\ asked \in SapNumbers
  /\ Connected \subseteq Clients
  /\ told \in [Connected -> [Outputs -> 0 .. NumInputs + 1]]
  /\ running \/ (slots = <<>> /\ told = <<>>)

(***************************************************************************)
(* Between commands the routers whose slots every command calls and the    *)
(* saved state agree on every output, and the mixer passes exactly the     *)
(* input they name; during a command only its output may differ.           *)
(***************************************************************************)
Agree(o) ==
  /\ crosspoints["gpio"][o] = crosspoints["audio"][o]
  /\ crosspoints["breakaway"][o] = crosspoints["audio"][o]
  /\ state_cross_points[o] = crosspoints["audio"][o]

Routed(o) ==
  mixer[o] = IF crosspoints["audio"][o] >= 0
               THEN {crosspoints["audio"][o]} ELSE {}

Settled(o) == running /\ (slots = <<>> \/ o # output)

RoutersAgree ==
  \A o \in Outputs : Settled(o) => Agree(o) /\ Routed(o)

(***************************************************************************)
(* A crash loses the command in progress and no other: the file holds      *)
(* every settled output, unless the last save was not completed; and one   *)
(* save that succeeds makes good every one that failed before it.          *)
(***************************************************************************)
FileTracks ==
  \A o \in Outputs :
    Settled(o) /\ ~savefailed => file[o] = crosspoints["audio"][o]

(***************************************************************************)
(* No SAP client is left with an old answer: what a client has last been   *)
(* told of an output, by a broadcast or by an answer, is what the mixer    *)
(* does.  The numbers are the client's own: OFF goes back as it came.      *)
(***************************************************************************)
ClientsCurrent ==
  \A c \in Connected, o \in Outputs :
    told[c][o] # Unknown =>
      told[c][o] = SapNumber(crosspoints["audio"][o])

SapEcho ==
  [][ AudioSlot /\ asked \in 1 .. NumInputs + 1
        => \A c \in Connected : told'[c][output] = asked ]_vars

(***************************************************************************)
(* The CIC router sends by its own table.  Started from the saved state it *)
(* agrees with the audio router ("Initialize State", lwnetrouterd.cpp:186, *)
(* sets all four routers to the same crosspoint); it should still agree    *)
(* when a command has been carried out.                                    *)
(***************************************************************************)
CicFollowsAudio ==
  \A o \in Outputs :
    Settled(o) => crosspoints["cic"][o] = crosspoints["audio"][o]
===============================================================================
