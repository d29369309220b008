-------------------------------- MODULE Netcues --------------------------------
(***************************************************************************)
(* The event routers in the daemon: their events come from RML datagrams   *)
(* (protocol_rml.cpp) and, by the configuration's addresses, from the      *)
(* network, and what the GPIO router's scan sends goes as a netcue to the  *)
(* serial port, whose device (ttydevice.cpp) has a queue of its own and a  *)
(* timer that hands it to the kernel.                                      *)
(*                                                                         *)
(* Inputs, outputs and lines are numbered from 1, as in the file and in    *)
(* the protocols; the code counts them from 0.                             *)
(***************************************************************************)
EXTENDS EventRouter, Configuration, SequencesExt

CONSTANTS
  Netcue,       \* per output and line the text, empty if not configured
  LineEnd,
  TtyLimit,     \* the most that the device lets the kernel hold: 2048
  UartSize,     \* what the kernel can hold
  UnsignedSize, \* 2^32
  RunProfiles,  \* bound on the files with which the routers are then run
  MaxBacklog    \* bound on the characters not yet sent when an event comes

ASSUME NetcuesAssumption ==
  /\ Inputs = 1 .. InputQuantity
  /\ Outputs = 1 .. Cardinality(Outputs) /\ Lines = 1 .. Cardinality(Lines)
  /\ Cardinality(Outputs) \in Nat /\ Inputs \subseteq Lines
  /\ TtyLimit \in Nat /\ UartSize \in Nat /\ TtyLimit <= UartSize
  /\ UnsignedSize \in Nat /\ Cardinality(Lines) \in Nat
  /\ InputQuantity < UnsignedSize /\ Cardinality(Lines) < UnsignedSize

(* A text is a value of the file, on one line of it.                       *)
ASSUME NetcueAssumption ==
  /\ Netcue \in [Outputs -> [Lines -> Seq(STRING)]] /\ LineEnd \in STRING
  /\ \A o \in Outputs, l \in Lines : LineEnd \notin Range(Netcue[o][l])

VARIABLES
  started,            \* the routers and protocols have been constructed
  rml_accum,          \* "" or "begun", a command without its end
  tty_open,
  tty_write_queue,
  uart                \* what the kernel holds and has not yet transmitted

router == <<kind, gpio_events, gpio_delay_intervals, gpio_debounce_timers,
            router_crosspoints, scanned, sent>>
tty == <<tty_open, tty_write_queue, uart>>
netcues == <<router, configuration, started, rml_accum, tty>>

NetcuesInit ==
  /\ Init
  /\ ConfigInit
  /\ started = FALSE /\ rml_accum = ""
  /\ tty_open = FALSE /\ tty_write_queue = <<>> /\ uart = <<>>

LoadConfiguration ==
  /\ ~started
  /\ ReadConfiguration \/ ReloadConfiguration
  /\ UNCHANGED <<router, started, rml_accum, tty>>

(***************************************************************************)
(* open(), called by the router's constructor if a port is configured: it  *)
(* may fail, and that is only logged.                                      *)
(***************************************************************************)
OpenDevice ==
  /\ tty_open' \in (IF kind = "gpio" THEN BOOLEAN ELSE {FALSE})
  /\ UNCHANGED <<tty_write_queue, uart>>

StartRouters ==
  /\ loading = "loaded" /\ ~started /\ profile \in RunProfiles
  /\ started' = TRUE
  /\ OpenDevice
  /\ UNCHANGED <<router, configuration, rml_accum>>

-----------------------------------------------------------------------------
(* The sources of events.                                                  *)
Calm == Len(tty_write_queue) + Len(uart) <= MaxBacklog

Unsigned(n) == n % UnsignedSize

(* "GO <input> <line> <1 for closed>"                                      *)
RmlGo(input, line, closed) ==
  /\ Unsigned(input - 1) < InputQuantity
  /\ Unsigned(line - 1) < Cardinality(Lines) /\ closed
  /\ SendRelay(input, line)

(* "DX <input> <length>": the length is taken from the first argument.     *)
RmlDx(input) ==
  /\ Unsigned(input - 1) < InputQuantity
  /\ SendBreakaway(input, input)

(* A datagram that ends a command: the whole one, or the rest of one that  *)
(* was begun.                                                              *)
RmlCommand ==
  /\ rml_accum' = ""
  /\ \E input \in 0 .. InputQuantity + 1 :
       \/ RmlDx(input)
       \/ \E line \in 0 .. Cardinality(Lines) + 1, closed \in BOOLEAN :
            RmlGo(input, line, closed)

(* The accumulator is that of all senders: what one has begun spoils the   *)
(* command of another.  ProcessCommand() finds nothing that it knows.      *)
RmlFragment ==
  /\ rml_accum' = IF rml_accum = "" THEN "begun" ELSE ""
  /\ UNCHANGED router

(* A Livewire GPO from an input's address that is meant for its source:    *)
(* `source' is the input that has the event's source number, if any.       *)
GpioReceived(addr, source, line, state) ==
  /\ InputOf(addr) > 0 /\ state /\ source = InputOf(addr)
  /\ SendRelay(InputOf(addr), line)

CicFrom(addr, code) == InputOf(addr) > 0 /\ CicReceived(InputOf(addr), code)

NetworkEvent ==
  \E addr \in Addresses, line \in Lines :
    \/ \E source \in 0 .. InputQuantity, state \in BOOLEAN :
         GpioReceived(addr, source, line, state)
    \/ CicFrom(addr, line)

EventReceived ==
  /\ started /\ Calm
  /\ \/ kind \in {"gpio", "breakaway"} /\ (RmlCommand \/ RmlFragment)
     \/ NetworkEvent /\ UNCHANGED rml_accum
  /\ UNCHANGED <<configuration, started, tty>>

-----------------------------------------------------------------------------
(* SendGpo() of the events that are due, to the device: event by event,    *)
(* and of each one output by output.                                       *)
CueOf(o, line) == Append(Netcue[o][line], LineEnd)

CuesDue(i) ==
  FlattenSeq([j \in DOMAIN Due(i) |->
    FlattenSeq([o \in Outputs |-> IF router_crosspoints[o] = i
                                  THEN CueOf(o, Due(i)[j].line) ELSE <<>>])])

AllCuesDue == FlattenSeq([i \in Inputs |-> CuesDue(i)])

ScanEvents ==
  /\ started
  /\ ScanTimer
  /\ tty_write_queue' =
       IF tty_open THEN tty_write_queue \o AllCuesDue ELSE tty_write_queue
  /\ UNCHANGED <<configuration, started, rml_accum, tty_open, uart>>

(* A wrong variant: what the kernel still holds is not counted.            *)
WriteCountFull ==
  IF Len(tty_write_queue) < TtyLimit THEN Len(tty_write_queue) ELSE TtyLimit

(* As much as the kernel can take, by TIOCOUTQ.                            *)
WriteCount ==
  LET n == TtyLimit - Len(uart) IN
  IF Len(tty_write_queue) < n THEN Len(tty_write_queue) ELSE n

(* The device does not block: write() takes what fits, and how much that   *)
(* was nobody asks.                                                        *)
Accepted(chars) ==
  LET room == UartSize - Len(uart) IN
  IF Len(chars) <= room THEN chars ELSE SubSeq(chars, 1, room)

(* writeTtyData(), on the device's own timer of 10 msecs.                  *)
WriteTtyData ==
  /\ tty_open /\ WriteCount # 0
  /\ uart' = uart \o Accepted(SubSeq(tty_write_queue, 1, WriteCount))
  /\ tty_write_queue' =
       SubSeq(tty_write_queue, WriteCount + 1, Len(tty_write_queue))
  /\ UNCHANGED <<router, configuration, started, rml_accum, tty_open>>

(* The port transmits a character.                                         *)
UartTransmits ==
  /\ uart # <<>>
  /\ uart' = Tail(uart)
  /\ UNCHANGED <<router, configuration, started, rml_accum, tty_open,
                 tty_write_queue>>

(* What else the router is told, and time.                                 *)
Elsewhere ==
  /\ started
  /\ \/ \E i \in Inputs, m \in 0 .. MaxInterval : SetDelayState(i, m)
     \/ \E o \in Outputs, i \in Inputs \cup {NoInput} : SetCrossPoint(o, i)
     \/ Tick
  /\ UNCHANGED <<configuration, started, rml_accum, tty>>

NetcuesNext ==
  \/ LoadConfiguration \/ StartRouters
  \/ EventReceived \/ Elsewhere
  \/ ScanEvents \/ WriteTtyData \/ UartTransmits

NetcuesSpec == NetcuesInit /\ [][NetcuesNext]_netcues

-----------------------------------------------------------------------------
(***************************************************************************)
(* The types; the kernel is never asked to hold more than it can, so that  *)
(* the count of writeTtyData() is not negative.                            *)
(***************************************************************************)
NetcuesTypeOK ==
  /\ TypeOK
  /\ ConfigurationTypeOK
  /\ started \in BOOLEAN /\ rml_accum \in {"", "begun"}
  /\ tty_open \in BOOLEAN
  /\ Len(uart) <= TtyLimit
  /\ ~tty_open => tty_write_queue = <<>>

(***************************************************************************)
(* However scans, the device's timer and the transmission interleave, and  *)
(* however much is due at once after a dump, whole netcues leave the port  *)
(* in the order in which they were sent, and nothing is lost in between.   *)
(***************************************************************************)
AllCues == {CueOf(o, l) : o \in Outputs, l \in Lines}

Line == INSTANCE NetcueLine WITH line <- uart \o tty_write_queue,
                                 Cues <- AllCues
ImplementsNetcueLine == Line!Spec
===============================================================================
