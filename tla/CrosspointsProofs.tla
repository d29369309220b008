--------------------------- MODULE CrosspointsProofs ---------------------------
(* Theorems about Crosspoints, for any number of inputs, outputs and SAP   *)
(* clients.                                                                *)
EXTENDS Crosspoints, TLAPS

(* How far a command has come, by the slots it has still to run.           *)
BeforeAudio == {RmlSlots, SapSlots}
BeforeGpio == {<<"gpio", "breakaway", "state">>,
               <<"gpio", "breakaway", "cic", "state">>}
BeforeBreakaway == {<<"breakaway", "state">>, <<"breakaway", "cic", "state">>}
BeforeState == {<<"cic", "state">>, <<"state">>}
BeforeRename == {<<"rename">>}

Stages ==
  BeforeAudio \cup BeforeGpio \cup BeforeBreakaway \cup BeforeState
    \cup BeforeRename \cup {<<>>}

(* Each router whose slot has run has the command's input.                 *)
AudioRan ==
  slots \notin BeforeAudio => crosspoints["audio"][output] = input
GpioRan ==
  slots \notin BeforeAudio \cup BeforeGpio
    => crosspoints["gpio"][output] = input
BreakawayRan ==
  slots \in BeforeState \cup BeforeRename
    => crosspoints["breakaway"][output] = input
StateRan == slots \in BeforeRename => state_cross_points[output] = input

InProgress ==
  running =>
    /\ slots \in Stages
    /\ slots # <<>> => AudioRan /\ GpioRan /\ BreakawayRan /\ StateRan

(* The mixer changes with the audio router, also during a command.         *)
AllRouted == running => \A o \in Outputs : Routed(o)

(* What a SAP client asks for is what the command carries.                 *)
AsAsked ==
  slots \in BeforeAudio /\ asked # 0 => input = SapInput(asked)

IndInv ==
  /\ TypeOK
  /\ InProgress
  /\ AllRouted
  /\ RoutersAgree
  /\ FileTracks
  /\ ClientsCurrent
  /\ AsAsked

-----------------------------------------------------------------------------
(* The numbers that the protocols exchange.                                *)
LEMMA Numbers ==
  /\ \A n \in 0 .. NumInputs : RmlInput(n) \in Sources
  /\ \A n \in SapNumbers : SapInput(n) \in Sources
  /\ 0 \in SapNumbers /\ Off \in Sources
  /\ \A i \in Sources : i >= 0 => i \in Inputs
  /\ \A i \in Sources : SapNumber(i) \in 1 .. NumInputs + 1
  /\ \A n \in 1 .. NumInputs + 1 : SapNumber(SapInput(n)) = n
BY CrosspointsAssumption
   DEF RmlInput, SapInput, SapNumber, SapNumbers, Sources, Inputs, Off

LEMMA StagesType == Stages \subseteq Seq(Routers \cup {"state", "rename"})
BY DEF Stages, BeforeAudio, BeforeGpio, BeforeBreakaway, BeforeState,
       BeforeRename, RmlSlots, SapSlots, Routers

(* The order of the slots.                                                 *)
LEMMA Order ==
  ASSUME NEW s \in Stages, s # <<>>
  PROVE  \/ s \in BeforeAudio /\ Head(s) = "audio" /\ Tail(s) \in BeforeGpio
         \/ s \in BeforeGpio /\ Head(s) = "gpio" /\ Tail(s) \in BeforeBreakaway
         \/ /\ s \in BeforeBreakaway /\ Head(s) = "breakaway"
            /\ Tail(s) \in BeforeState
         \/ s \in BeforeState /\ Head(s) = "cic" /\ Tail(s) \in BeforeState
         \/ s \in BeforeState /\ Head(s) = "state"
         \/ s \in BeforeRename /\ Head(s) = "rename"
<1>1. CASE s \in BeforeAudio
  <2>1. CASE s = RmlSlots
    BY <2>1 DEF RmlSlots, BeforeAudio, BeforeGpio
  <2>2. CASE s = SapSlots
    BY <2>2 DEF SapSlots, BeforeAudio, BeforeGpio
  <2> QED BY <1>1, <2>1, <2>2 DEF BeforeAudio
<1>2. CASE s \in BeforeGpio
  <2>1. CASE s = <<"gpio", "breakaway", "state">>
    BY <2>1 DEF BeforeGpio, BeforeBreakaway
  <2>2. CASE s = <<"gpio", "breakaway", "cic", "state">>
    BY <2>2 DEF BeforeGpio, BeforeBreakaway
  <2> QED BY <1>2, <2>1, <2>2 DEF BeforeGpio
<1>3. CASE s \in BeforeBreakaway
  <2>1. CASE s = <<"breakaway", "state">>
    BY <2>1 DEF BeforeBreakaway, BeforeState
  <2>2. CASE s = <<"breakaway", "cic", "state">>
    BY <2>2 DEF BeforeBreakaway, BeforeState
  <2> QED BY <1>3, <2>1, <2>2 DEF BeforeBreakaway
<1>4. CASE s \in BeforeState
  <2>1. CASE s = <<"cic", "state">>
    BY <2>1 DEF BeforeState
  <2>2. CASE s = <<"state">>
    BY <2>2 DEF BeforeState
  <2> QED BY <1>4, <2>1, <2>2 DEF BeforeState
<1>5. CASE s \in BeforeRename
  BY <1>5 DEF BeforeRename
<1> QED BY <1>1, <1>2, <1>3, <1>4, <1>5 DEF Stages

(* The stages exclude each other.                                          *)
LEMMA Apart ==
  /\ \A s \in BeforeGpio : s \notin BeforeAudio
  /\ \A s \in BeforeBreakaway : s \notin BeforeAudio \cup BeforeGpio
  /\ \A s \in BeforeState :
       s \notin BeforeAudio \cup BeforeGpio \cup BeforeBreakaway
  /\ \A s \in BeforeRename :
       s \notin BeforeAudio \cup BeforeGpio \cup BeforeBreakaway \cup BeforeState
  /\ \A s \in Stages : s = <<>> =>
       s \notin BeforeAudio \cup BeforeGpio \cup BeforeBreakaway
                \cup BeforeState \cup BeforeRename
BY DEF BeforeAudio, BeforeGpio, BeforeBreakaway, BeforeState, BeforeRename,
       RmlSlots, SapSlots

LEMMA NobodyConnected == DOMAIN <<>> = {}
OBVIOUS

-----------------------------------------------------------------------------
LEMMA InitInv == Init => IndInv
<1> SUFFICES ASSUME Init PROVE IndInv
  OBVIOUS
<1>1. PICK table \in [Outputs -> Sources] :
        /\ crosspoints = [r \in Routers |-> table]
        /\ mixer = [o \in Outputs |-> IF table[o] >= 0 THEN {table[o]} ELSE {}]
        /\ state_cross_points = table
        /\ file = table
  BY DEF Init
<1>2. slots = <<>> /\ told = <<>> /\ running = TRUE /\ savefailed = FALSE
      /\ output = 0 /\ input = Off /\ asked = 0
  BY DEF Init
<1>3. Connected = {}
  BY <1>2, NobodyConnected DEF Connected
<1>4. \A o \in Outputs : Agree(o) /\ Routed(o)
  BY <1>1 DEF Agree, Routed, Routers
<1>5. TypeOK
  <2>1. mixer \in [Outputs -> SUBSET Inputs]
    BY <1>1, Numbers
  <2>2. slots \in Seq(Routers \cup {"state", "rename"})
    BY <1>2
  <2>3. output \in Outputs /\ input \in Sources /\ asked \in SapNumbers
    BY <1>2, CrosspointsAssumption, Numbers DEF Outputs
  <2>4. told \in [Connected -> [Outputs -> 0 .. NumInputs + 1]]
    BY <1>2, <1>3
  <2> QED BY <1>1, <1>2, <1>3, <2>1, <2>2, <2>3, <2>4 DEF TypeOK
<1>6. InProgress /\ AsAsked
  BY <1>2 DEF InProgress, Stages, AsAsked
<1>7. FileTracks
  BY <1>1 DEF FileTracks, Routers
<1> QED BY <1>3, <1>4, <1>5, <1>6, <1>7
        DEF IndInv, AllRouted, RoutersAgree, ClientsCurrent

-----------------------------------------------------------------------------
(* The commands, which change no table.                                    *)
LEMMA CommandStep ==
  ASSUME IndInv, NEW n \in SapNumbers, NEW o \in Outputs,
         RmlCommand(n, o) \/ ActivateRoute(n, o)
  PROVE  IndInv'
<1>1. /\ running /\ slots = <<>>
      /\ slots' \in BeforeAudio /\ output' \in Outputs /\ input' \in Sources
      /\ asked' \in SapNumbers
      /\ asked' # 0 => input' = SapInput(asked')
  BY Numbers DEF RmlCommand, ActivateRoute, Idle, BeforeAudio
<1>2. UNCHANGED <<running, crosspoints, mixer, state_cross_points, file,
                  savefailed, told>>
  BY DEF RmlCommand, ActivateRoute
<1>3. slots' \in Stages /\ slots' \in Seq(Routers \cup {"state", "rename"})
  BY <1>1, StagesType DEF Stages
<1>4. TypeOK'
  BY <1>1, <1>2, <1>3 DEF IndInv, TypeOK, Connected
<1>5. InProgress'
  BY <1>1, <1>2, <1>3, Apart
     DEF InProgress, AudioRan, GpioRan, BreakawayRan, StateRan
<1>6. AllRouted'
  BY <1>2 DEF IndInv, AllRouted, Routed
<1>7. RoutersAgree' /\ FileTracks'
  BY <1>1, <1>2 DEF IndInv, RoutersAgree, FileTracks, Settled, Agree, Routed
<1>8. ClientsCurrent' /\ AsAsked'
  BY <1>1, <1>2 DEF IndInv, ClientsCurrent, Connected, AsAsked
<1> QED BY <1>4, <1>5, <1>6, <1>7, <1>8 DEF IndInv

(* The clients, which change nothing but what they are told.               *)
LEMMA ClientStep ==
  ASSUME IndInv, NEW c \in Clients,
         \/ Connect(c) \/ Disconnect(c)
         \/ \E asks \in {Outputs} \cup {{o} : o \in Outputs} : RouteStat(c, asks)
  PROVE  IndInv'
<1>1. UNCHANGED <<running, crosspoints, mixer, state_cross_points, file,
                  savefailed, job>>
  BY DEF Connect, Disconnect, RouteStat
<1>2. running \/ (slots' = <<>> /\ told' = <<>>)
  <2>1. CASE ~running
    <3>1. Connected = {}
      BY <2>1, NobodyConnected DEF IndInv, TypeOK, Connected
    <3> QED BY <2>1, <3>1 DEF Connect, Disconnect, RouteStat, Idle
  <2> QED BY <2>1
<1>3. /\ Connected' \subseteq Clients
      /\ told' \in [Connected' -> [Outputs -> 0 .. NumInputs + 1]]
      /\ ClientsCurrent'
  <2>1. CASE Connect(c)
    <3>1. Connected' = Connected \cup {c}
      BY <2>1 DEF Connect, Connected
    <3>2. \A d \in Connected' : told'[d] =
            IF d = c THEN [o \in Outputs |-> Unknown] ELSE told[d]
      BY <2>1, <3>1 DEF Connect
    <3>3. told' \in [Connected' -> [Outputs -> 0 .. NumInputs + 1]]
      BY <2>1, <3>1, CrosspointsAssumption DEF Connect, IndInv, TypeOK, Unknown
    <3>4. ClientsCurrent'
      BY <1>1, <3>1, <3>2 DEF IndInv, ClientsCurrent
    <3> QED BY <3>1, <3>3, <3>4 DEF IndInv, TypeOK
  <2>2. CASE Disconnect(c)
    <3>1. Connected' = Connected \ {c}
      BY <2>2 DEF Disconnect, Connected
    <3>2. \A d \in Connected' : told'[d] = told[d]
      BY <2>2, <3>1 DEF Disconnect
    <3>3. told' \in [Connected' -> [Outputs -> 0 .. NumInputs + 1]]
      BY <2>2, <3>1 DEF Disconnect, IndInv, TypeOK
    <3>4. ClientsCurrent'
      BY <1>1, <3>1, <3>2 DEF IndInv, ClientsCurrent
    <3> QED BY <3>1, <3>3, <3>4 DEF IndInv, TypeOK
  <2>3. CASE \E asks \in {Outputs} \cup {{o} : o \in Outputs} : RouteStat(c, asks)
    <3>1. PICK asks \in {Outputs} \cup {{o} : o \in Outputs} : RouteStat(c, asks)
      BY <2>3
    <3> DEFINE answer == [o \in Outputs |->
                 IF o \in asks THEN SapNumber(crosspoints["audio"][o])
                               ELSE told[c][o]]
    <3>2. c \in Connected /\ told' = [told EXCEPT ![c] = answer]
      BY <3>1 DEF RouteStat, CrosspointRequested
    <3>3. answer \in [Outputs -> 0 .. NumInputs + 1]
      <4>1. told[c] \in [Outputs -> 0 .. NumInputs + 1]
        BY <3>2 DEF IndInv, TypeOK
      <4>2. \A o \in Outputs : crosspoints["audio"][o] \in Sources
        BY DEF IndInv, TypeOK, Routers
      <4>3. \A o \in Outputs :
              SapNumber(crosspoints["audio"][o]) \in 0 .. NumInputs + 1
        BY <4>2, Numbers, CrosspointsAssumption
      <4> QED BY <4>1, <4>3
    <3>4. Connected' = Connected
      BY <3>2 DEF Connected, IndInv, TypeOK
    <3>5. told' \in [Connected' -> [Outputs -> 0 .. NumInputs + 1]]
      BY <3>2, <3>3, <3>4 DEF IndInv, TypeOK
    <3>6. told'[c] = answer /\ \A d \in Connected \ {c} : told'[d] = told[d]
      BY <3>2 DEF IndInv, TypeOK
    <3>7. ClientsCurrent'
      BY <1>1, <3>2, <3>4, <3>6 DEF IndInv, ClientsCurrent
    <3> QED BY <3>4, <3>5, <3>7 DEF IndInv, TypeOK
  <2> QED BY <2>1, <2>2, <2>3
<1>4. TypeOK'
  BY <1>1, <1>2, <1>3 DEF IndInv, TypeOK, job
<1>5. InProgress' /\ AllRouted' /\ AsAsked'
  BY <1>1 DEF IndInv, InProgress, AllRouted, AsAsked, AudioRan, GpioRan,
              BreakawayRan, StateRan, Routed, job
<1>6. RoutersAgree' /\ FileTracks'
  BY <1>1 DEF IndInv, RoutersAgree, FileTracks, Settled, Agree, Routed, job
<1> QED BY <1>3, <1>4, <1>5, <1>6 DEF IndInv

-----------------------------------------------------------------------------
(* A slot that is not the last leaves the other outputs as they were.      *)
LEMMA Meanwhile ==
  ASSUME IndInv, AllRouted',
         running, slots # <<>>, slots' # <<>>,
         UNCHANGED <<running, file, savefailed, output>>,
         \A o \in Outputs \ {output} :
           /\ \A r \in Routers : crosspoints'[r][o] = crosspoints[r][o]
           /\ state_cross_points'[o] = state_cross_points[o]
  PROVE  RoutersAgree' /\ FileTracks'
<1>1. \A o \in Outputs : Settled(o)' => o # output /\ Settled(o)
  BY DEF Settled
<1>2. {"audio", "gpio", "breakaway"} \subseteq Routers
  BY DEF Routers
<1>3. \A o \in Outputs : Settled(o)' => Agree(o)'
  BY <1>1, <1>2 DEF IndInv, RoutersAgree, Agree
<1>4. \A o \in Outputs : Settled(o)' => Routed(o)'
  BY DEF AllRouted, Settled
<1>5. FileTracks'
  BY <1>1, <1>2 DEF IndInv, FileTracks
<1> QED BY <1>3, <1>4, <1>5 DEF RoutersAgree

(* When the last slot has run, the command's output agrees as well.        *)
LEMMA Ran ==
  ASSUME IndInv, running, slots \in BeforeState \cup BeforeRename
  PROVE  \A r \in {"audio", "gpio", "breakaway"} : crosspoints[r][output] = input
BY Apart DEF IndInv, InProgress, AudioRan, GpioRan, BreakawayRan, Stages

LEMMA AudioSlotStep ==
  ASSUME IndInv, AudioSlot
  PROVE  IndInv'
<1>1. /\ running /\ slots # <<>> /\ Head(slots) = "audio"
      /\ slots \in Stages /\ output \in Outputs /\ input \in Sources
      /\ crosspoints \in [Routers -> [Outputs -> Sources]]
      /\ mixer \in [Outputs -> SUBSET Inputs]
  BY DEF IndInv, TypeOK, InProgress, AudioSlot, Runs
<1>2. slots' \in BeforeGpio /\ slots' # <<>> /\ slots' \in Stages
  BY <1>1, Order, Apart DEF AudioSlot, Stages, BeforeGpio
<1>3. UNCHANGED <<running, state_cross_points, file, savefailed, output, input,
                  asked>>
  BY DEF AudioSlot
<1>4. /\ crosspoints' \in [Routers -> [Outputs -> Sources]]
      /\ crosspoints'["audio"][output] = input
      /\ \A o \in Outputs \ {output}, r \in Routers :
           crosspoints'[r][o] = crosspoints[r][o]
  BY <1>1 DEF AudioSlot, SetCrossPoint, Routers
<1>5. /\ mixer' \in [Outputs -> SUBSET Inputs]
      /\ mixer'[output] = IF input >= 0 THEN {input} ELSE {}
      /\ \A o \in Outputs \ {output} : mixer'[o] = mixer[o]
  <2>1. mixer[output] \ Inputs = {}
    BY <1>1
  <2>2. (IF input >= 0 THEN {input} ELSE {}) \in SUBSET Inputs
    BY <1>1, Numbers
  <2>3. mixer' = [mixer EXCEPT ![output] = IF input >= 0 THEN {input} ELSE {}]
    BY <1>1, <2>1 DEF AudioSlot
  <2> QED BY <1>1, <2>2, <2>3
<1>6. AllRouted'
  <2>1. Routed(output)'
    BY <1>3, <1>4, <1>5 DEF Routed
  <2>2. \A o \in Outputs \ {output} : Routed(o)'
    BY <1>1, <1>4, <1>5 DEF IndInv, AllRouted, Routed, Routers
  <2> QED BY <1>3, <2>1, <2>2 DEF AllRouted, Routed
<1>7. RoutersAgree' /\ FileTracks'
  BY <1>1, <1>2, <1>3, <1>4, <1>6, Meanwhile
<1>8. Connected' = Connected
      /\ told' \in [Connected' -> [Outputs -> 0 .. NumInputs + 1]]
      /\ \A c \in Connected : /\ told'[c][output] = SapNumber(input)
                             /\ \A o \in Outputs \ {output} :
                                  told'[c][o] = told[c][o]
  <2>1. told' = [c \in Connected |->
                   [told[c] EXCEPT ![output] = SapNumber(input)]]
    BY DEF AudioSlot, Tell
  <2>2. Connected' = Connected
    BY <2>1 DEF Connected
  <2>3. SapNumber(input) \in 0 .. NumInputs + 1
    BY <1>1, Numbers, CrosspointsAssumption
  <2>4. \A c \in Connected : told[c] \in [Outputs -> 0 .. NumInputs + 1]
    BY DEF IndInv, TypeOK
  <2> QED BY <1>1, <2>1, <2>2, <2>3, <2>4
<1>9. ClientsCurrent'
  <2>1. \A c \in Connected' : told'[c][output] = SapNumber(crosspoints'["audio"][output])
    BY <1>4, <1>8
  <2>2. ASSUME NEW c \in Connected', NEW o \in Outputs \ {output},
               told'[c][o] # Unknown
        PROVE  told'[c][o] = SapNumber(crosspoints'["audio"][o])
    BY <1>4, <1>8, <2>2 DEF IndInv, ClientsCurrent, Routers
  <2> QED BY <2>1, <2>2 DEF ClientsCurrent
<1>10. TypeOK'
  BY <1>1, <1>2, <1>3, <1>4, <1>5, <1>8, StagesType DEF IndInv, TypeOK
<1>11. InProgress' /\ AsAsked'
  BY <1>2, <1>3, <1>4, Apart
     DEF InProgress, AudioRan, GpioRan, BreakawayRan, StateRan, AsAsked
<1> QED BY <1>6, <1>7, <1>9, <1>10, <1>11 DEF IndInv

LEMMA RouterSlotStep ==
  ASSUME IndInv, NEW r \in Routers \ {"audio"}, RouterSlot(r)
  PROVE  IndInv'
<1>1. /\ running /\ slots # <<>> /\ Head(slots) = r
      /\ slots \in Stages /\ output \in Outputs /\ input \in Sources
      /\ crosspoints \in [Routers -> [Outputs -> Sources]]
      /\ slots' = Tail(slots)
  BY DEF IndInv, TypeOK, InProgress, RouterSlot, Runs
<1>2. UNCHANGED <<running, mixer, state_cross_points, file, savefailed, output,
                  input, asked, told>>
  BY DEF RouterSlot
<1>3. \/ r = "gpio" /\ slots \in BeforeGpio /\ slots' \in BeforeBreakaway
      \/ r = "breakaway" /\ slots \in BeforeBreakaway /\ slots' \in BeforeState
      \/ r = "cic" /\ slots \in BeforeState /\ slots' \in BeforeState
  BY <1>1, Order DEF Routers
<1>4. slots' # <<>> /\ slots' \in Stages
  BY <1>3, Apart DEF Stages
<1>5. /\ crosspoints' \in [Routers -> [Outputs -> Sources]]
      /\ crosspoints'[r][output] = input
      /\ \A q \in Routers \ {r} : crosspoints'[q] = crosspoints[q]
      /\ \A q \in Routers, o \in Outputs \ {output} :
           crosspoints'[q][o] = crosspoints[q][o]
  BY <1>1 DEF RouterSlot, SetCrossPoint
<1>6. crosspoints'["audio"] = crosspoints["audio"]
  BY <1>5 DEF Routers
<1>7. AllRouted'
  BY <1>2, <1>6 DEF IndInv, AllRouted, Routed
<1>8. RoutersAgree' /\ FileTracks'
  BY <1>1, <1>2, <1>4, <1>5, <1>7, Meanwhile
<1>9. ClientsCurrent'
  BY <1>2, <1>6 DEF IndInv, ClientsCurrent, Connected
<1>10. TypeOK'
  BY <1>1, <1>2, <1>4, <1>5, StagesType DEF IndInv, TypeOK, Connected
<1>11. InProgress' /\ AsAsked'
  <2>1. CASE r = "gpio"
    <3>1. slots \in BeforeGpio /\ slots' \in BeforeBreakaway
      BY <1>3, <2>1
    <3>2. crosspoints["audio"][output] = input
      BY <1>1, <3>1, Apart DEF IndInv, InProgress, AudioRan
    <3> QED BY <1>2, <1>4, <1>5, <1>6, <2>1, <3>1, <3>2, Apart
            DEF InProgress, AudioRan, GpioRan, BreakawayRan, StateRan, AsAsked
  <2>2. CASE r = "breakaway"
    <3>1. slots \in BeforeBreakaway /\ slots' \in BeforeState
      BY <1>3, <2>2
    <3>2. crosspoints["audio"][output] = input
          /\ crosspoints["gpio"][output] = input
      BY <1>1, <3>1, Apart DEF IndInv, InProgress, AudioRan, GpioRan
    <3>3. crosspoints'["gpio"] = crosspoints["gpio"]
      BY <1>5, <2>2 DEF Routers
    <3> QED BY <1>2, <1>4, <1>5, <1>6, <2>2, <3>1, <3>2, <3>3, Apart
            DEF InProgress, AudioRan, GpioRan, BreakawayRan, StateRan, AsAsked
  <2>3. CASE r = "cic"
    <3>1. slots \in BeforeState /\ slots' \in BeforeState
      BY <1>3, <2>3
    <3>2. \A q \in {"audio", "gpio", "breakaway"} : crosspoints'[q][output] = input
      BY <1>1, <1>5, <2>3, <3>1, Ran DEF Routers
    <3> QED BY <1>2, <1>4, <3>1, <3>2, Apart
            DEF InProgress, AudioRan, GpioRan, BreakawayRan, StateRan, AsAsked
  <2> QED BY <1>3, <2>1, <2>2, <2>3
<1> QED BY <1>7, <1>8, <1>9, <1>10, <1>11 DEF IndInv

LEMMA StateSlotStep ==
  ASSUME IndInv, StateSlot
  PROVE  IndInv'
<1>1. /\ running /\ slots # <<>> /\ Head(slots) = "state"
      /\ slots \in Stages /\ output \in Outputs /\ input \in Sources
      /\ state_cross_points \in [Outputs -> Sources]
  BY DEF IndInv, TypeOK, InProgress, StateSlot, Runs
<1>2. slots \in BeforeState
  BY <1>1, Order
<1>3. UNCHANGED <<running, crosspoints, mixer, file, output, input, asked, told>>
  BY DEF StateSlot
<1>4. /\ state_cross_points' \in [Outputs -> Sources]
      /\ state_cross_points'[output] = input
      /\ \A o \in Outputs \ {output} :
           state_cross_points'[o] = state_cross_points[o]
  BY <1>1 DEF StateSlot
<1>5. \A r \in {"audio", "gpio", "breakaway"} : crosspoints'[r][output] = input
  BY <1>1, <1>2, <1>3, Ran
<1>6. AllRouted' /\ ClientsCurrent'
  BY <1>3 DEF IndInv, AllRouted, Routed, ClientsCurrent, Connected
<1>7. CASE slots' = <<"rename">> /\ UNCHANGED savefailed
  <2>1. slots' \in BeforeRename /\ slots' \in Stages /\ slots' # <<>>
    BY <1>7, Apart DEF BeforeRename, Stages
  <2>2. RoutersAgree' /\ FileTracks'
    BY <1>1, <1>3, <1>4, <1>6, <1>7, <2>1, Meanwhile
  <2>3. TypeOK'
    BY <1>1, <1>3, <1>4, <1>7, <2>1, StagesType DEF IndInv, TypeOK, Connected
  <2>4. InProgress' /\ AsAsked'
    BY <1>3, <1>4, <1>5, <2>1, Apart
       DEF InProgress, AudioRan, GpioRan, BreakawayRan, StateRan, AsAsked
  <2> QED BY <1>6, <2>2, <2>3, <2>4 DEF IndInv
<1>8. CASE slots' = <<>> /\ savefailed' = TRUE
  <2>1. slots' \in Stages /\ slots' \notin BeforeAudio
    BY <1>8, Apart DEF Stages
  <2>2. \A o \in Outputs : Agree(o)'
    <3>1. Agree(output)'
      BY <1>3, <1>4, <1>5 DEF Agree
    <3>2. \A o \in Outputs \ {output} : Agree(o)'
      BY <1>1, <1>3, <1>4 DEF IndInv, RoutersAgree, Settled, Agree
    <3> QED BY <1>3, <3>1, <3>2 DEF Agree
  <2>3. RoutersAgree' /\ FileTracks'
    BY <1>6, <1>8, <2>2 DEF RoutersAgree, FileTracks, AllRouted, Settled
  <2>4. TypeOK'
    BY <1>1, <1>3, <1>4, <1>8, <2>1, StagesType DEF IndInv, TypeOK, Connected
  <2>5. InProgress' /\ AsAsked'
    BY <1>8, <2>1 DEF InProgress, AsAsked
  <2> QED BY <1>6, <2>3, <2>4, <2>5 DEF IndInv
<1> QED BY <1>7, <1>8 DEF StateSlot

LEMMA RenameStep ==
  ASSUME IndInv, Rename
  PROVE  IndInv'
<1>1. /\ running /\ slots # <<>> /\ slots \in BeforeRename
      /\ state_cross_points \in [Outputs -> Sources]
      /\ file \in [Outputs -> Sources]
  BY Order DEF IndInv, TypeOK, InProgress, Rename, Runs
<1>2. UNCHANGED <<running, crosspoints, mixer, state_cross_points, output, input,
                  asked, told>>
      /\ slots' = <<>>
  BY DEF Rename
<1>3. /\ file' \in [Outputs -> Sources] /\ savefailed' \in BOOLEAN
      /\ ~savefailed' => file' = state_cross_points
  BY <1>1 DEF Rename, CutShort
<1>4. \A o \in Outputs : Agree(o)
  <2>1. Agree(output)
    BY <1>1, Ran DEF IndInv, InProgress, StateRan, Agree
  <2>2. \A o \in Outputs \ {output} : Agree(o)
    BY <1>1 DEF IndInv, RoutersAgree, Settled
  <2> QED BY <2>1, <2>2
<1>5. slots' \in Stages /\ slots' \notin BeforeAudio
  BY <1>2, Apart DEF Stages
<1>6. AllRouted' /\ ClientsCurrent'
  BY <1>2 DEF IndInv, AllRouted, Routed, ClientsCurrent, Connected
<1>7. RoutersAgree' /\ FileTracks'
  BY <1>2, <1>3, <1>4, <1>6
     DEF RoutersAgree, FileTracks, AllRouted, Settled, Agree
<1>8. TypeOK'
  BY <1>1, <1>2, <1>3, <1>5, StagesType DEF IndInv, TypeOK, Connected
<1>9. InProgress' /\ AsAsked'
  BY <1>2, <1>5 DEF InProgress, AsAsked
<1> QED BY <1>6, <1>7, <1>8, <1>9 DEF IndInv

-----------------------------------------------------------------------------
(* A crash and the start after it.                                         *)
LEMMA CrashStep ==
  ASSUME IndInv, Crash
  PROVE  IndInv'
<1>1. /\ running' = FALSE /\ slots' = <<>> /\ told' = <<>> /\ asked' = 0
      /\ output' \in Outputs /\ input' \in Sources
      /\ UNCHANGED <<crosspoints, mixer, state_cross_points, file, savefailed>>
  BY CrosspointsAssumption, Numbers DEF Crash, Outputs
<1>2. Connected' = {}
  BY <1>1, NobodyConnected DEF Connected
<1>3. slots' \in Seq(Routers \cup {"state", "rename"})
      /\ asked' \in SapNumbers
      /\ told' \in [Connected' -> [Outputs -> 0 .. NumInputs + 1]]
  BY <1>1, <1>2, Numbers
<1>4. TypeOK'
  BY <1>1, <1>2, <1>3 DEF IndInv, TypeOK
<1> QED BY <1>1, <1>2, <1>4
        DEF IndInv, InProgress, AllRouted, RoutersAgree, FileTracks, Settled,
            ClientsCurrent, AsAsked

LEMMA RestartStep ==
  ASSUME IndInv, Restart
  PROVE  IndInv'
<1>1. /\ ~running /\ slots = <<>> /\ told = <<>>
      /\ file \in [Outputs -> Sources]
  BY DEF IndInv, TypeOK, Restart
<1>2. /\ running' = TRUE /\ slots' = <<>> /\ told' = <<>>
      /\ crosspoints' = [r \in Routers |-> file]
      /\ mixer' = [o \in Outputs |-> IF file[o] >= 0 THEN {file[o]} ELSE {}]
      /\ state_cross_points' = file /\ savefailed' = FALSE
      /\ UNCHANGED <<file, output, input, asked>>
  BY <1>1 DEF Restart, StartFrom, job
<1>3. Connected' = {}
  BY <1>2, NobodyConnected DEF Connected
<1>4. \A o \in Outputs : Agree(o)' /\ Routed(o)'
  BY <1>1, <1>2 DEF Agree, Routed, Routers
<1>5. TypeOK'
  <2>1. mixer' \in [Outputs -> SUBSET Inputs]
    BY <1>1, <1>2, Numbers
  <2>2. told' \in [Connected' -> [Outputs -> 0 .. NumInputs + 1]]
    BY <1>2, <1>3
  <2> QED BY <1>1, <1>2, <1>3, <2>1, <2>2 DEF IndInv, TypeOK
<1>6. slots' \in Stages /\ slots' \notin BeforeAudio
  BY <1>2, Apart DEF Stages
<1>7. InProgress' /\ AsAsked'
  BY <1>2, <1>6 DEF InProgress, AsAsked
<1>8. FileTracks'
  BY <1>2 DEF FileTracks, Routers
<1> QED BY <1>3, <1>4, <1>5, <1>7, <1>8
        DEF IndInv, AllRouted, RoutersAgree, ClientsCurrent

LEMMA StutterStep ==
  ASSUME IndInv, UNCHANGED vars
  PROVE  IndInv'
BY DEF vars, IndInv, TypeOK, Connected, InProgress, AudioRan, GpioRan,
       BreakawayRan, StateRan, AllRouted, RoutersAgree, FileTracks, Settled,
       Agree, Routed, ClientsCurrent, AsAsked

(* The invariant is kept by every step.                                    *)
LEMMA IndStep == IndInv /\ [Next]_vars => IndInv'
<1> SUFFICES ASSUME IndInv, [Next]_vars PROVE IndInv'
  OBVIOUS
<1>1. CASE \E n \in SapNumbers, o \in Outputs :
             RmlCommand(n, o) \/ ActivateRoute(n, o)
  BY <1>1, CommandStep
<1>2. CASE \E c \in Clients :
             \/ Connect(c) \/ Disconnect(c) \/ RouteStat(c, Outputs)
             \/ \E o \in Outputs : RouteStat(c, {o})
  <2>1. PICK c \in Clients :
          \/ Connect(c) \/ Disconnect(c) \/ RouteStat(c, Outputs)
          \/ \E o \in Outputs : RouteStat(c, {o})
    BY <1>2
  <2>2. \/ Connect(c) \/ Disconnect(c)
        \/ \E asks \in {Outputs} \cup {{o} : o \in Outputs} : RouteStat(c, asks)
    BY <2>1
  <2> QED BY <2>2, ClientStep
<1>3. CASE AudioSlot
  BY <1>3, AudioSlotStep
<1>4. CASE StateSlot
  BY <1>4, StateSlotStep
<1>5. CASE Rename
  BY <1>5, RenameStep
<1>6. CASE \E r \in Routers \ {"audio"} : RouterSlot(r)
  BY <1>6, RouterSlotStep
<1>7. CASE Crash
  BY <1>7, CrashStep
<1>8. CASE Restart
  BY <1>8, RestartStep
<1>9. CASE UNCHANGED vars
  BY <1>9, StutterStep
<1> QED BY <1>1, <1>2, <1>3, <1>4, <1>5, <1>6, <1>7, <1>8, <1>9 DEF Next, Slot

LEMMA IndAlways == Spec => []IndInv
<1>1. Init => IndInv
  BY InitInv
<1>2. IndInv /\ [Next]_vars => IndInv'
  BY IndStep
<1> QED BY <1>1, <1>2, PTL DEF Spec

-----------------------------------------------------------------------------
(* Whatever numbers the protocols carry, OFF and numbers below it included, *)
(* no table, mixer or file comes to hold an input after the last, and a     *)
(* stopped daemon has no command in progress.                               *)
THEOREM CrosspointsTypeCorrect == Spec => []TypeOK
<1>1. IndInv => TypeOK
  BY DEF IndInv
<1> QED BY <1>1, IndAlways, PTL

(* The tables of the audio, GPIO and breakaway routers and State, and the  *)
(* mixer, agree on every output but that of the command in progress.       *)
THEOREM RoutersAlwaysAgree == Spec => []RoutersAgree
<1>1. IndInv => RoutersAgree
  BY DEF IndInv
<1> QED BY <1>1, IndAlways, PTL

(* The state file holds every settled output unless the last save was not  *)
(* completed, so a crash loses no command but the one in progress.         *)
THEOREM FileAlwaysTracks == Spec => []FileTracks
<1>1. IndInv => FileTracks
  BY DEF IndInv
<1> QED BY <1>1, IndAlways, PTL

(* What a SAP client was last told of an output is what the mixer does.    *)
THEOREM ClientsAlwaysCurrent == Spec => []ClientsCurrent
<1>1. IndInv => ClientsCurrent
  BY DEF IndInv
<1> QED BY <1>1, IndAlways, PTL

(* Every SAP client is told of a SAP command with the number it came with, *)
(* OFF included.                                                           *)
THEOREM SapEchoes == Spec => SapEcho
<1>1. ASSUME IndInv, AudioSlot, asked \in 1 .. NumInputs + 1,
             NEW c \in Connected
      PROVE  told'[c][output] = asked
  <2>1. /\ running /\ slots # <<>> /\ Head(slots) = "audio"
        /\ slots \in Stages /\ output \in Outputs
    BY <1>1 DEF IndInv, TypeOK, InProgress, AudioSlot, Runs
  <2>2. slots \in BeforeAudio
    BY <2>1, Order
  <2>3. input = SapInput(asked)
    BY <1>1, <2>2, CrosspointsAssumption DEF IndInv, AsAsked
  <2>4. SapNumber(input) = asked
    BY <1>1, <2>3, Numbers
  <2>5. told[c] \in [Outputs -> 0 .. NumInputs + 1]
    BY <1>1 DEF IndInv, TypeOK
  <2> QED BY <1>1, <2>1, <2>4, <2>5 DEF AudioSlot, Tell
<1>2. IndInv /\ [Next]_vars =>
        [ AudioSlot /\ asked \in 1 .. NumInputs + 1
            => \A c \in Connected : told'[c][output] = asked ]_vars
  BY <1>1
<1> QED BY <1>2, IndAlways, PTL DEF Spec, SapEcho
===============================================================================
