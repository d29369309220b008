# A TLA+ development of lwnetrouter

`lwnetrouterd` is the control daemon of a broadcast audio delay and router. It
copies audio from the inputs of an AudioScience card through an adjustable
*delay* to its outputs, switches which input an output carries, forwards the
events that accompany the audio (GPIO relays, "breakaways", CIC codes) delayed by
as much as the audio, and is commanded over four protocols. `lwnetdelay` is a
small desktop applet that commands the delay.

This directory models the daemon in TLA+, checks the models with TLC on small
instances and proves with TLAPS, for all sizes, every safety property and every
refinement that the passing runs check: of the delay engine and its scan, the crosspoints,
the configuration, the event routers, the serial line, the saved delay states, the lamps,
the stream command server and what the clients are told. `PROJECT.json` maps every
definition to the source lines it stands for (paths there begin at the root of the
checkout, `src/`).

## 1. Inventory

The daemon is one Qt process with two threads. The *main thread* runs the Qt event
loop: slots run to completion, one at a time, and signals are direct calls in the
order of connection. The *audio thread* is a POSIX thread in an endless loop with a
10 msec sleep. The two share eight arrays with no lock.

| Component | Source (`src/lwnetrouterd/`) | State | Operations |
|---|---|---|---|
| audio delay engine | `router_hpiaudio.cpp`, `ringbuffer.cpp` | per input: ring buffer, output stream, commanded state, dump flag, state taken, interval; one `timescale` | `__AudioCallback`, `__AudioDump`, `setDelayState`, `dumpDelay` |
| delay reporting | `router_hpiaudio.cpp` | copies of state and interval as last emitted | `scanTimerData` every 100 msecs, emits `delayStateChanged` |
| crosspoint routers | `router.cpp` and the four routers | a crosspoint table each; the card's mixer | `setCrossPoint` |
| persistent state | `state.cpp`, `lwnetrouterd.cpp` | crosspoints, delay-active flags, initialised flags, the state file | `load`, `save`, `setCrossPoint`, `setDelayActive`, `delayStateChangedData` |
| GPIO, breakaway and CIC routers | `router_gpio.cpp`, `router_breakaway.cpp`, `router_cic.cpp` | a queue of time-stamped events per input, the input's interval, debounce timers | `sendRelay`, `sendBreakaway`, `readyReadData`, `setDelayState`, `scanTimerData` every 10 msecs |
| RML | `protocol_rml.cpp` | an accumulator of unfinished commands | `DX`, `GO`, `ST` |
| SAP | `protocol_sap.cpp` | none of its own | `ActivateRoute`, `RouteStat`, listings |
| Cunctator | `protocol_cunc.cpp` | none of its own | `SS`, `DP`, queries; broadcasts delay changes and dumps |
| stream command server | `streamcmdserver.cpp` | connection slots with buffers, garbage and reconnect timers | accept, read, close, collect, send |
| GPIO control | `protocol_gpio.cpp`, `delaycontrol.cpp` | dump reset timers; per button a state, a line, a flash phase | buttons in, lamps out; sends only lines that change |
| serial device | `ttydevice.cpp` | a write queue and its timer; what the kernel holds | `open`, `write`, `writeTtyData` |
| wiring | `lwnetrouterd.cpp` | all of the above; `global_exiting` | start, connections, signals, exit |
| configuration | `../common/config.cpp` | read once, constant afterwards | `load`, with its search for duplicates; `input` |
| applet | `../lwnetdelay/` | a receive buffer, button modes | buttons out, `DS`, `DP`, `DM` in |
| harnesses | `../tests/` | - | measure a running system; not tests of this code |

How they interact: a *delay command* goes from Cunctator or GPIO control to the
engine's members, is seen by the audio thread within a loop, taken, and reported by
the scan to the three event routers, the lamps, the Cunctator clients and the saved
state. A *crosspoint command* goes from RML or SAP to the audio, GPIO, breakaway
(and, from SAP only, CIC) routers and to the saved state; the audio router drives the
mixer and has SAP broadcast the change.

What is hard, and what must hold:

* **Engine** - two threads with no lock and a device that plays in between: a dump
  computed from a stale sample, requests crossing, state and interval written apart,
  unsigned arithmetic. The buffers stay in bounds; a dump removes what it should;
  Exit and Enter are obeyed through any dumps; state and interval fit together.
* **Reporting** - torn reads, uninitialised copies: listeners must converge.
* **Crosspoints** - five slots per command, failing saves, crash and restart: tables,
  mixer, clients and file must agree on everything that is not being changed.
* **Event routers** - the delay changes under waiting events: no event early, none
  held back, none lost, order kept.
* **Persistence** - first report after a start is special; crash in between.
* **Stream server** - slots reused, one timer for two purposes, clients back before their
  dead connection is collected, partial reads.
* **Lamps** - a reset timer races with reports; the panel only hears of changes, and
  keeps what an earlier daemon has lit.
* **Cunctator clients** - a broadcast carries the scan's copies, an answer the thread's
  members.
* **Netcues** - three queues between a relay and the wire, each with its own timer: no
  netcue may be cut, lost or overtaken.
* **Configuration** - lists ended by the first gap; duplicates within and across sections.

The `hazards` of `PROJECT.json` list these at their lines with the properties that
cover each; the note of one without a property says why: the code does what is described
and nothing in the repository promises otherwise, or the effect is below the models' level.

## 2. Modules

| Module | Models |
|---|---|
| `DelayLine` | the abstract specification of the engine: per input a length of audio that grows, is played and is dumped, and the mode that listeners may follow |
| `AudioDelay` | the engine: one action per access of a thread to a shared member |
| `AudioDelayProofs` | theorems about `AudioDelay` and `AudioScan` |
| `AudioScan` | `AudioDelay` composed with the main thread's 100 msec scan |
| `Crosspoints` | crosspoint commands, their slots, mixer, SAP clients, state file, crash and restart |
| `CrosspointsProofs` | theorems about `Crosspoints` |
| `EventRouter` | the queue of delayed events of the three event routers |
| `EventRouterProofs` | theorems about `EventRouter` |
| `Configuration` | reading the inputs' addresses, duplicates, starting again |
| `NetcueLine` | the abstract specification of the serial port: whole netcues, in order |
| `Netcues` | `EventRouter` composed with `Configuration`, the sources of its events (RML, Livewire, CIC) and the serial device |
| `NetcuesProofs` | theorems about `Netcues`: that it implements `EventRouter` and `NetcueLine`, and about `Configuration` |
| `DelayEngine` | the engine as its listeners see it, reduced to reports; used by the next four |
| `DelayPersistence` | delay-active flags, the state file, the first report after a start, crash and restart |
| `CunctatorClients` | `DelayPersistence` composed with a client of the Cunctator protocol |
| `CunctatorClientsProofs` | theorems about `DelayPersistence` and `CunctatorClients` |
| `DelayLamps` | the GPIO delay control: buttons, lamps, flash and dump reset timers |
| `DelayPanel` | `DelayLamps` composed with the panel it lights, signals, exits, deaths and starts |
| `DelayPanelProofs` | theorems about `DelayLamps` and `DelayPanel` |
| `StreamServer` | connections, commands and garbage of the stream command server |
| `StreamServerProofs` | theorems about `StreamServer` |
| `FiniteRecursion` | lemmas for the proofs: recursive functions on `0 .. N`, induction, least elements |
| `MCAudioDelay`, `MCAudioScan`, `MCNetcues`, `MCStreamServer` | values for constants that are functions |

Operators commented "wrong variant" are used by no specification. Each is a
plausible mistake in the definition that follows it, kept to show that the
properties would notice: with the definition's body replaced by the variant, TLC
reports the property named in `PROJECT.json` (`mutants`) violated.

### AudioDelay

Audio is abstracted to its length in bytes: `rb[i]` is `Ringbuffer::ring_length`,
`out[i]` what the output stream has still to play (`out_data_to_play`), `space` what
is in `pcm` between `Ringbuffer::read` and `HPI_OutStreamWriteBuf`. The other
variables carry the names of the code. `pc` is the audio thread's position, `cur`
the input of its inner loop:

| `pc` | actions | code (`router_hpiaudio.cpp`) |
|---|---|---|
| `init` | `ThreadInit` | 120-127; until then state and interval are garbage |
| `capture` | `Capture` | 132-149, all inputs by the same number of bytes |
| `dump`, `cut`, `clear`, `retake` | `SkipDump`, `DumpInfo`, `CutPart`, `CutAll`, `CutNothing`, `DumpClear`, `DumpRetake` | 154-174 and `__AudioDump` |
| `fill` | `EnterReached`, `EnterRamp`, `EnterHold`, `ExitReached`, `ExitRamp`, `ExitHold`, `Bypass` | 176-227, up to the first of the two writes |
| `full`, `entering`, `zero`, `exiting` | `StoreFull`, `StoreEntering`, `StoreZero`, `StoreExiting` | the second write: 189, 198, 207, 216 |
| `output` | `Output` | 229-239 |

Thread-local work is part of the shared access next to it: nobody can observe it.
`DumpDelayTest` and `DumpDelaySet` are the two halves of `dumpDelay()`. Reads and
writes of one member are atomic (aligned words, one byte): the code's data races are
over which value is seen, and every order of accesses is explored. `Play` is the
device: any number of bytes, any time, of a started stream; how fast it plays (the
time scale) is only known as `unity`, `slower` or `faster`. `HPI_OutStreamReset`
empties and stops a stream, `Output` starts it again. That the operator never gives
an input the states Bypassed, Entered or Exited follows from `setDelayState()`.

`delay_interval` keeps its width as arithmetic modulo `Word` (2^32); `delayInterval()`
and the reports hand it on as an int (`Signed`). `DumpServed` says that a requested dump is
carried out, not only that its flag is cleared: the thread goes through the cut afterwards.
It excepts the request that `dumpDelay()` makes when the cut is done and the flag not yet
cleared (between lines 88 and 89): the code clears it together with the one it has served,
and that dump is lost. Sizes are
constants: `BytesPerMsec` (8*48), `QuantumMsec` (100, so `Quantum` is 38400),
`MsecPerSec` (1000), `Fudge` (775), `ExitBytes` (4096), `RingSize`.

### DelayLine

The promise an input's listeners rely on. Dumps happen only when the mode is not
Exited, remove at most the dump's size, and less only if nothing is left or by what
was played meanwhile; a dump leads Entered back to Entering, and no other step does;
Exited never turns into Exiting. `AudioDelay!DL` is the refinement mapping: the line
is everything between capture and loudspeaker (`out` + `space` in transit + `rb`),
the mode is `delay_state_taken`.

### AudioScan

Adds the copies `hpi_delay_state` and `hpi_delay_interval`, uninitialised at the
start as in the code, and splits the scan of one input into its two reads (404,
405); the audio thread runs in between, other slots do not.

### Crosspoints

A command (`RmlCommand`, `ActivateRoute`) loads `slots` with the list that
`lwnetrouterd.cpp` connects to its signal, and each `Slot` runs the head. `told` is
what each connected SAP client was last told, by the broadcast or by `RouteStat`, in
SAP's numbering. `StateSlot` and `Rename` are `State::setCrossPoint()` and the end of
`save()`: the file changes when the temporary file is renamed, and not at all when it could
not be opened or renamed. The code looks at no result of `fprintf()`, `fclose()` and
`rename()`, so a file whose writing was cut short is renamed like any other: its entries
before the cut are good, that at the cut may read as anything, those behind it as the
default (`CutShort`). `savefailed` says that the last save ended in one of these ways.
The tables hold an input, OFF (-1), or a number below it: SAP's `ActivateRoute` turns what is
too large into OFF, but stores a number below 1 less one in every table and in the file
(`protocol_sap.cpp:194-201`; `MaxBelow` bounds how far below). Such a number acts as OFF
in the mixer and in `RouteStat`, and names no input to the event routers. `Crash` may happen between any two slots;
`Restart` loads the file and sets all four routers. The mixer is modelled as the set
of input streams that are on for an output.

### EventRouter

`kind` says which of the three routers a behaviour is of; it never changes. An event
is its line and its age in scan periods of 10 msecs: that is what
`timestamp().addMSecs(interval) <= now` depends on while the clock is not stepped. An
interval below 0 (finding 1) makes every event due, as 0 does, and is 0 here. The debounce
timers are Qt's coarse ones, which may run up to 5% short or long; `Debounce` is the least
that they run, so `Debounced` promises 95% of the configured interval, and a timer that runs
longer only drops more.
`Tick` is a period, `ScanTimer` the scan in it.

### Configuration, Netcues, NetcueLine

`Configuration` reads a file key by key: `AppendAddress`, `RefuseAddress` and `EndSection`
are the outcomes of one turn of the inner loop (`config.cpp:101-127`), and the search for
an address looks, as the code's does, into the list it is about to join. A refused file
ends the daemon; `ReloadConfiguration` is its next start, with the file as it is by then.
(The daemon exits with 256, of which the caller sees 0; the service restarts it always.)
`Entries` is where the file names an address, of any number of keys; a section is a finite
sequence of them (`ProfilesAssumption`).

`Netcues` starts the routers with a file that was taken (`StartRouters`, where opening
the serial port may fail, which is only logged) and then lets events come from where
they come from: `RmlCommand` and `RmlFragment` are datagrams that end a command or leave
one unfinished, in one accumulator for all senders, with the code's unsigned arithmetic
on their arguments (`Unsigned`); `GpioReceived` and `CicFrom` go by the address's input.
`ScanEvents` is the router's scan with the netcues it sends; `WriteTtyData` is the device's
timer, which hands the kernel no more than the kernel has room for by its own count;
`UartTransmits` is the port. A netcue is a short sequence of characters and its line end,
of any content, so that a cut would be seen. A line without a netcue sends a line end, as
the code does. What waits in any of the queues is lost at an exit.

`NetcueLine` is what the line promises; `ImplementsNetcueLine` maps it to what the kernel
holds followed by what the device holds.

### DelayEngine, DelayPersistence, CunctatorClients

`DelayEngine` has no specification of its own: it gives the modules that extend it
the engine's reports, with an interval in steps of 100 msecs as `scanTimerData()` sees
them, and the copies `hpi` they are compared with. `Take` is the next loop's reaction
to a command, which may be the first step of the ramp or, after a quick Exit and Enter with
the audio still there, Entered at once; `RampUp` and `RampDown` are a step of the ramp, `Dump`
a dump of any size, which may leave the interval negative (`Wrapped`, finding 1).
`ramped` keeps the scan in front of the ramp: a step takes seconds, the scan 100 msecs. An
interval moves in steps of 100 msecs though a full delay or a dump in the daemon is whole
seconds, what is dumped is any number of steps, and the audio behind the interval is known
only as far as `AtSetpoint` and `Measured` say. The thread is taken to have started before
the first scan, and an Exited delay to have no audio: the audio that another input's time
scale may leave on it (finding 2) could be entered in one step, which is left out.
Members that no constructor sets hold anything until the thread's `ThreadInit`.

`DelayPersistence` adds the slot `delayStateChangedData()` to every report
(`DelayStateChanged`): the first one after a start restores (`Restore`), the others
save (`SetDelayActive`). `Save` may fail, or leave a file that was cut short, `Crash` may happen between any two actions,
and `SaveForOthers` is a save caused by another input or an output.

`CunctatorClients` adds a client that connects, asks, commands and leaves. `SendDelayState`
is the last slot of every report and tells it the copies (`hpi`); `GetDelayState` answers
with the thread's members (`delay`), as `cuncDelayStateRequestedData()` does. So an answer
may run ahead of the broadcasts, even tell what is never reported, and may hold garbage
before the thread's start; `ClientsCurrent` says that a broadcast always brings a client
back.

### DelayLamps, DelayPanel

`DelayLamps` adds `sendDelayState()` to every report. `delay_states`, `gpio_states` and
`phase` are `DelayControl`'s members (the phase modulo 4, as it is used), `resetting`
the dump reset timer in periods of the flash timer. `DumpPressed` is `dumpDelay()` with
`sendDelayDumped()` behind it, wherever the dump was asked for. `Flash` is a period of
200 msecs, in which the thread and the scan have caught up.

`DelayPanel` adds `panel`, what was last sent of each line. `SendGpi` sends the lines that
change; the constructor (`Restart`) and the destructor (`SwitchOff`, in `Exit`) send all.
`Signal` only sets `global_exiting`, which `Exit` reads on the 500 msec timer, any number
of other steps later. After a `Crash` the panel is whatever it was. Steps of the daemon
are those of `DelayLamps`, which knows nothing of the panel.

### StreamServer

`conn[c]` is a socket and its `StreamCmdConnection`; `slots` is `cmd_connections` and
`mapped` what the two signal mappers know. A socket is used again only when it was collected,
but a client is not bound to one: one that dropped may be back at once, on another socket and
in another slot, while its dead one waits for the timer. A client sends one of
`Scripts`, character by character as far as commands are concerned; `ReadyRead` delivers
any part of the rest, reads at most `ReadSize` characters and processes them, quits and
answers included; `Reading` is the loop over what was read, after each character. A socket with something to write lingers in "closing" (`Closed`,
`Flush`), as Qt's do; `PeerCloses` is the client's side. `timer` is the garbage timer,
`Tick` its countdown and `CollectGarbage` its slot. Nothing calls `connectToHost()`, so no
connection is persistent and the pending sockets do not exist.

Every disconnect starts the 5 seconds anew (`streamcmdserver.cpp:306`). While clients drop and
come back within 5 seconds of each other nothing is collected and the list of slots grows, in
the daemon without bound, in the model to the number of `Sockets`. What holds is that a slot
is added only when each is held by a connection not yet collected (`SlotAddedWhenAllHeld`),
and that whoever is gone is collected when the disconnections end (`GoneCollected`): in the
model they do, since a socket has to be collected before it can disconnect again.

## 3. Runs

| Run | States | Shows |
|---|---|---|
| `audio_delay` | 204,861 | every property of the engine and that it implements `DelayLine` |
| `dump_wrap` | stops at the violation | finding 1 |
| `time_scale` | stops at the violation | finding 2 |
| `audio_scan` | 561,460 | listeners converge on the engine's state and are told of an Exit |
| `crosspoints` | 782,621 | everything agrees with the audio router, through failed saves and crashes |
| `cic_routing` | stops at the violation | finding 3 |
| `event_router` | 1,982,620 | addresses taken as listed; events leave exactly when due, whatever their source; netcues leave the port whole and in order |
| `delay_persistence` | 143,755 | entered delays are saved, saved delays entered, through crashes; a client that was told by a broadcast is up to date |
| `stream_server` | 100,625 | commands whole and in order, answers to who asked, what is gone is collected, nobody else disconnected |
| `applet_commands` | stops at the violation | finding 4 |
| `delay_lamps` | 217,895 | the panel shows the buttons through exits, deaths and starts; lamps follow reports, dumps and timers; a press is shown |
| `dump_lamp` | stops at the violation | finding 5 |

Bounds. `audio_delay` has one input (inputs share only `cur` and `timescale`; the
proofs are for any number), 2 bytes a msec, a quantum of 4 bytes, a setpoint of 10
bytes and a ring of 12, so that ramps take several loops, a dump may take part, all
or nothing of the buffer, the buffer may overflow and the interval may wrap modulo 16, twice
what a full delay needs, so that it is negative as an int (modulo 5 in `audio_scan`);
a dump is as long as a quantum, which makes the three cases of `__AudioDump` happen in
one instance (in the daemon nothing is cut only when `DumpDelay` is 0). One poll
captures at most 3 bytes, less than a quantum, as in the daemon. `time_scale`
needs two inputs. `audio_scan` uses the smallest sizes that still ramp, because its
temporal properties are costly. `crosspoints` has two inputs, OFF and one number below it
(`MaxBelow` 1: the code asks only whether a number is below 0), two outputs
(one changing, one settled) and a client; saved tables are arbitrary. `event_router` reads every file with up to two keys in
each of two sections, of addresses or gaps (so duplicates within a section, across
sections, and lists cut by a gap all occur), and then runs with a file where one of two
addresses is an input's (`RunProfiles`; the addresses matter to the routers only through
`InputOf`). The kernel holds 2 characters instead of 2048, netcues have up to 2, and no
event is accepted while 4 characters wait (`MaxBacklog`): the queue is longer than the
kernel's limit when several are due at once. That the kernel can hold at least 2048
characters is an assumption (`TtyLimit <= UartSize`): if it could not, `write()` would
take less than it was given and `writeTtyData()`, which does not look, would lose the
rest. `UnsignedSize` is 256 instead of 2^32. The router
has an output that is configured and one that is not, two lines, delays of up to 3
periods, debouncing of 2, and up to 3 waiting events: enough for several events to
become due in one scan and for the delay to change under each of them.
`delay_persistence` and `delay_lamps` have a full delay of three steps, so that a ramp
is reported at least twice, and every possible content of uninitialised members; one
client is enough, since clients share no state; a dump
lamp flashes for 3 periods instead of 10. `stream_server` has two sockets on which clients
come and go without end, one while the other waits for its collection, reads of 3 characters, which end inside and between commands, and
waits of 1 and 3 ticks.

Deadlock is checked in every run and never found: no part may stop.

Fairness. `AudioDelay` assumes weak fairness of the audio thread, which loops for ever
and polls a device that keeps delivering (a poll without data is a stuttering step),
and of finishing a slot that was begun. Nothing obliges an operator to give a command
or the device to play; so the model does not promise that a ramp ends, and the
properties are about obeying, not about arriving. `AudioScan` adds that the scan's
timer is periodic (strong fairness per input: the comparison is made again and again,
and may be found false now and then). `DelayPersistence` assumes that the thread starts and takes commands and that the scan
is periodic, and `CunctatorClients` the same of the composed steps; `DelayLamps` also that
the flash timer is, and that a ramp moves because the card plays; `DelayPanel` assumes this
of a daemon that runs, and neither that a signal comes nor that a daemon exits or is
started. `StreamServer` assumes of the one timer that it expires,
and of no client that it sends, reads or leaves. `Crosspoints`, `EventRouter` and `Netcues`
state safety only; the
bound on ages (`NoneForgotten`) is what says that every event is sent.

### Findings

1. `dump_wrap`, `DumpStopsAtZero`: a dump early in a ramp subtracts more than the interval,
   which lags behind the audio. The uint32_t wraps, and is reported as an int: a negative
   delay, where the sample configuration promises 0. Until the setpoint is reached or the
   delay is exited (going up only replaces it by something larger, and as unsigned nothing
   is) the event routers send the input's events at once though its audio is delayed, the
   dump lamp is not lit, and `dumpDelay()` refuses further dumps.
2. `time_scale`, `ExitedNeverSlowed`: the one `timescale` variable carries the ramp
   of one input over to the next when that one takes a path that does not assign it.
3. `cic_routing`, `CicFollowsAudio`: RML's crosspoint signal is not connected to the
   CIC router.
4. `applet_commands`, `AppletHeard`: lwnetdelay(1) ends its commands with CR and LF,
   the Cunctator server wants '!': no command of the applet is ever carried out.
5. `dump_lamp`, `DumpLampLit`: the dump lamp goes off two seconds after a dump and, if
   the last report came before that, stays off although a full dump is available.

Other things the code does are not counted as findings, since no document contradicts
them: an Exit that arrives between the first report after a start and the next scan takes
the restored Enter back before it is reported, so the state file keeps the delay as
active (`lwnetrouterd.cpp:262-266`); `DX` takes the breakaway's length from the argument
with the input's number (`protocol_rml.cpp:70`); an empty RML command reads the first
element of an empty list; `config.cpp:48` reads the key `SoftwareAutorityPort`. The sample
configuration names `NetcueIpAddress1` and puts `CicProgramCode` under `[Input<n>]`, where
the code reads `NetcueUdpAddress<n>` and `[Output<n>]`.

## 4. Proofs

`AudioDelayProofs` proves, for every number of inputs and all sizes that satisfy
`SizesAssumption` and `DelaysAssumption` (positive sizes; a full delay that fits into
an int, half the interval's word):

* `TypeCorrect`: `Spec => []TypeOK`; types need that reads do not exceed the ring
  buffer, which `ReadFits` and the bounds give;
* `BuffersBounded`: `Spec => []BufferBounds`;
* `StateIntervalAgree`: `Spec => []StateMatchesInterval`;
* `DumpsAreExact`: `Spec => DumpExact`;
* `Refinement`: `Spec => ImplementsDelayLine`.
* `ScanImplementsEngine`: `ScanSpec => Spec`, that the engine with its scan is an engine, so
  that all of the above holds of it, and `ScanImplementsLine`: `ScanSpec => ImplementsDelayLine`;
* `ScanTypeCorrect`: `ScanSpec => []ScanTypeOK`.

The inductive invariant is `IndInv`: the three invariants, `SampleValid` (the sample
taken for a dump is not exceeded before the stream is emptied: the device only plays,
and only the thread itself writes) and `TakesOwnStates` (which states may be taken at
each `pc`). Without `SampleValid` the size of a dump is not bounded; without
`TakesOwnStates` the pair of state and interval in the middle of the two writes is
unconstrained and the induction fails. `TypeStep`, `BoundsStep` and `StateStep` prove
one conjunct each over all actions; `IndStep` combines them; `RefineStep` maps every
action to a step of `DelayLine` or to a stutter, citing `IndInv`. `ScanSimulates` maps a
step of the scan to a stutter of the engine. The scan's types need the engine's `IndInv`:
what is copied is typed because the original is (`ScanTypesStep`), and no step of the thread
touches a dump half set (`NotDumping`).

`CrosspointsProofs` proves, for any numbers of inputs and outputs and any set of clients:

* `CrosspointsTypeCorrect`: `Spec => []TypeOK`: however far below 1 the numbers of SAP
  clients are, no table and no file names an input after the last;
* `RoutersAlwaysAgree`: `Spec => []RoutersAgree`;
* `FileAlwaysTracks`: `Spec => []FileTracks`;
* `ClientsAlwaysCurrent`: `Spec => []ClientsCurrent`;
* `SapEchoes`: `Spec => SapEcho`.

None of the first four is inductive: they say nothing of the output of the command in
progress, which must be right when its last slot has run. `IndInv` adds `InProgress`, that
the slots still to run are one of the possible remainders (`Stages`) and that every router
whose slot has run has the command's input (`AudioRan`, `GpioRan`, `BreakawayRan`,
`StateRan`); `AllRouted`, that the mixer follows the audio router even in between; and
`AsAsked`, what a SAP command's number has to do with its input. `Order` and `Apart` say
how the remainders follow each other and exclude each other, `Meanwhile` that a slot leaves
the other outputs alone, and there is one lemma per slot, for the commands, for the clients
and for crash and restart.

`EventRouterProofs` proves, for any inputs, outputs, lines, queues, debounce interval and
delays, `Spec => []TypeOK`, `[]Debounced`, `[]NoneForgotten`, `NothingOverdue` and
`SentAsReceived`. `IndInv` adds `Ordered` (events wait in the order of their ages, so that
the first young one has only younger ones behind it), `TimersRun` (a line's debounce timer
runs until its last event is old enough) and `ScanLeavesYoung` (what a scan leaves may grow
older by one period). `DueCountIs` is the lemma they rest on: the search from the front
stops at the first event that is too young, and there is such a place; it needs the least
element of a set of numbers (`Least` of `FiniteRecursion`).

`NetcuesProofs` proves `NetcuesImplementRouter`, `NetcuesSpec => Spec` of `EventRouter`:
that whatever the protocols, the configuration, the serial device and the port do is a step
of the router or leaves it alone. It needs that `Unsigned` never takes a number for an input
or line that does not exist (`UnsignedIs`, from `InputQuantity < UnsignedSize`) and that an
address speaks for an input that is configured (`InputOfIs`). `NetcuesDebounced`,
`NetcuesNoneForgotten`, `NetcuesNothingOverdue` and `NetcuesSentAsReceived` follow, and are
properties of the run `event_router`. The run's others are proved here too, for any files,
texts, limits and numbers of sections, outputs and lines:

* `FilesReadAsListed`: `NetcuesSpec => AddressesAsListed`. Its invariant, `ConfigInv`, says
  that what was appended so far is the file's keys up to there, none of them missing
  (`Kept`), that a section which was left was left at a gap (`Ended`), and that all that
  was appended is different (`Distinct`). Two entries of one address would then be two
  places of the lists (taken) or are the place due and the one where it was found (refused).
* `NetcuesTypeCorrect`: `NetcuesSpec => []NetcuesTypeOK`.
* `NetcuesImplementLine`: `NetcuesSpec => ImplementsNetcueLine`. The invariant, `TtyInv`, is
  about the device only: queue and kernel hold sequences of characters, the kernel no more
  than the limit, and a port that did not open has nothing. What a scan appends is zero or
  more whole netcues: `CuesAreText`, since flattening a sequence of netcues gives what is
  made of netcues (`Flattened`: what holds of the empty sequence and is kept by joining holds
  of the flattened sequence), and `TextIsWhole`: what is made of netcues ends with a line
  end and is cut into netcues by its line ends, because no text contains one
  (`NetcueAssumption`: a text is a value on one line of the file). `WriteTtyData` moves
  characters from one sequence to the next, which the mapping does not see (`PiecesJoined`),
  and `UartTransmits` takes the first (`TailJoined`).

`StreamServerProofs` proves, for any set of sockets (`SocketsAssumption`), any streams
of characters (`ScriptsAssumption`), any read size and any waits of which the first is the
shorter one (`SizesAssumption`):

* `ServerTypeCorrect`: `Spec => []TypeOK`;
* `SlotsStayMapped`: `Spec => []SlotsMapped`;
* `SlotAddedWhenAllHeld`: `Spec => [][...]_vars`, that the list of slots grows only in a step
  before which each slot is held by a connection that has not been collected;
* `CommandsReadAsSent`: `Spec => []CommandsAsSent`;
* `QueriesAnsweredOnce`: `Spec => []AnsweredOnce`;
* `GarbageStaysTimed`: `Spec => []GarbageTimed`;
* `ClientsStayConnected`: `Spec => StaysConnected`.

`IndInv` has three parts. `SlotsInv`: a slot is held by the socket that is mapped to it and
by no other (`Held`, `Owned`). `TimerInv` is `GarbageTimed` with the timer's type. `ConnsInv`
says of each connection: what was not yet read is the end of what has arrived (`Arrived`);
buffer and commands are those of the characters read so far (`Upto`); and it has been answered
the questions before it quit, which one that is open has not done (`Answering`).
These are also the invariant of the loop inside one `ReadyRead`: it starts with `Upto` at what
was consumed before and adds one character at a time.

Stream, text and loop are recursive functions (`Sent`, `Bare`, `Reading`). That such a function
on `0 .. N` exists is `Recursion` of `FiniteRecursion`, proved from the well-foundedness of the
numbers; what holds at 0 and is handed on holds up to `N` by `Induct`. Both take a function or
a set where the library's theorems take an operator, which the provers cannot instantiate.

`CunctatorClientsProofs` first proves, of `DelayPersistence` and for every `Full` that satisfies `FullAssumption` (a full
delay of at least three steps), `FileIsCurrent`: `Spec => []FileCurrent` and `EnteredSaved`:
`Spec => []EnteredIsSaved`, and then carries them over to the daemon with its clients.

`EnteredIsSaved` is not inductive: the first report after a start is not saved. `IndInv`
adds `BeforeFirstReport`, that until then the ramp has gone no further than two steps: a scan
reports what the copies do not happen to hold, and when they hold the first step the next
scan reports the second. So this report is never of an entered delay. It adds
`EnteredIsActive`, that any later report of one sets the flag. `EngineTypes` and
`EngineBefore` are the engine's part, `IndStep` the slots', the crash's and the restart's.

Of `CunctatorClients` it proves:

* `ClientsTypeCorrect`: `ClientsSpec => []ClientsTypeOK`;
* `ClientsFileIsCurrent`: `ClientsSpec => []FileCurrent`;
* `ClientsEnteredSaved`: `ClientsSpec => []EnteredIsSaved`;
* `ClientsStayCurrent`: `ClientsSpec => []ClientsCurrent`.

Every step of `ClientsSpec` is a step of `DelayPersistence` or leaves its variables alone
(`ClientsSimulate`); the invariant adds `NoneWhenDown`, that a daemon that is down has no
client, since a restart resets the copies.

`DelayPanelProofs` proves of `DelayLamps`, for all values of the constants that satisfy their
assumptions:

* `LampsTypeCorrect`: `Spec => []TypeOK`;
* `LinesCorrect`: `Spec => []LinesShowButtons`;
* `LampsCorrect`: `Spec => []LampsShowReport`;
* `DumpLampCorrect`: `Spec => []DumpSeen`.

The flash timer drives four of the five lines; `LinesShowButtons` is inductive only with
`SpareOff`, that the fifth, which has no button, stays off.

And of `DelayPanel`:

* `PanelTypeCorrect`: `PanelSpec => []PanelTypeOK`;
* `PanelCorrect`: `PanelSpec => []PanelShowsButtons`;
* `PanelLampsCorrect`: `PanelSpec => []LampsShowReport`;
* `PanelDumpLampCorrect`: `PanelSpec => []DumpSeen`.

`PanelInv` is the lamps' invariant with two more parts: that what `DelayControl` believes to
have sent is what was sent last, and `Forgotten`, that a daemon that is down has nothing but
initial values, so that the next one can start from them.

Only model-checked: liveness (`ExitObeyed`, `EnterObeyed`, `DumpServed`, `ReportSettles`,
`ExitReported`, `PressShown`, `DelayRestored`, `GoneCollected`), which is out of the prover's reach with
fairness. Every other property of the passing runs is stated by a theorem. The properties of
the runs that stop at a violation are false of the code.

## 5. Plan

1. done: the engine, scan, crosspoints, event routers with configuration and serial port,
   persistence and lamps with clients and panel, the stream command server, and the proofs
   above.
2. `DelayEngine` as an abstraction of `AudioScan`: that what the scan reports are the
   reports of `DelayEngine`, so that lamps, clients and persistence rest on the detailed
   engine.
3. `DelayRamp`: the engine at the granularity of whole loops with the time scale, for
   liveness of ramps (Entering leads to Entered while the device plays slower than
   it captures).
4. The arguments of SAP and Cunctator commands in `StreamServer`, with their error answers.
5. Proofs: that the reports of `AudioScan` are those of `DelayEngine`, once it is stated
   (2); what holds of the engine's reports at every moment between two scans.

## 6. Not modelled

The bytes of audio, names, addresses and message texts; the configuration's other values,
which are read once and are constants here; syslog; the AudioScience library, the Livewire
library (`SyGpioServer`, `SyLwrpClient`, and its profile reader, by which an address that is
present but no address may be taken for a null one) and Qt beyond how the daemon uses them;
indexing outside a table by outputs that do not exist (the models take existing ones); steps
of the wall clock; the name listings of SAP and Cunctator, which answer from constant data;
an empty RML command. A serial device that fails after it was opened loses what it is given
without a sign; the port is taken to work. `connectToHost()` has no caller, and the slots for
pending and persistent connections are reached by nothing. The applet sends nothing that is
heard (finding 4), so what it does with an answer is not reached either, and its widgets are
presentation. The measuring harnesses and the build are no part of the program. What is left
for later is in the plan and, with its status, in `PROJECT.json`.
