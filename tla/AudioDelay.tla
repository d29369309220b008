------------------------------ MODULE AudioDelay ------------------------------
(***************************************************************************)
(* The audio delay engine of lwnetrouterd (router_hpiaudio.cpp): one POSIX *)
(* thread, __AudioCallback, copies audio from the input streams through a  *)
(* ring buffer per input to the output streams and carries out the delay   *)
(* commands, while the Qt main thread writes those commands and reads the  *)
(* delay's state, through members shared with no lock.                     *)
(*                                                                         *)
(* An action is one access of a thread to the shared members, together     *)
(* with the work on its own data around it.  Audio is abstracted to its    *)
(* LENGTH in bytes: `rb' is what an input's ring buffer holds, `out' what  *)
(* its output stream still has to play, `space' what the thread holds in   *)
(* `pcm' between the read and the write.                                   *)
(***************************************************************************)
EXTENDS Integers

CONSTANTS
  NumInputs,      \* config()->inputQuantity()
  BytesPerMsec,   \* 8*48: bytes of one millisecond of stereo float audio
  QuantumMsec,    \* 100: the output stream is refilled to this many msecs
  MsecPerSec,     \* 1000
  Fudge,          \* 775: the latency SetpointBytes() takes off
  ExitBytes,      \* 4096: below this many bytes the delay counts as gone
  RingSize,       \* SetpointBytes(MAX_DELAY*1100)
  FullDelay,      \* config()->inputFullDelay(), seconds
  DumpDelay,      \* config()->inputDumpDelay(), seconds
  Word,           \* 2^32: delay_interval is a uint32_t
  MaxCapture      \* bound on the bytes one poll of the input streams returns

ASSUME SizesAssumption ==
  /\ NumInputs \in Nat \ {0}
  /\ BytesPerMsec \in Nat \ {0}
  /\ QuantumMsec \in Nat \ {0}
  /\ MsecPerSec \in Nat \ {0}
  /\ Fudge \in Nat
  /\ ExitBytes \in Nat
  /\ RingSize \in Nat
  /\ Word \in Nat \ {0}
  /\ MaxCapture \in Nat \ {0}

Inputs == 0 .. NumInputs - 1

None == -1

(* full_delays[i]*1000 is an int.                                          *)
ASSUME DelaysAssumption ==
  /\ FullDelay \in [Inputs -> Nat]
  /\ DumpDelay \in [Inputs -> Nat]
  /\ \A i \in Inputs : 2 * (FullDelay[i] * MsecPerSec) < Word

(* delayInterval() and delayStateChanged() hand the uint32_t on as an int. *)
Signed(n) == IF 2 * n < Word THEN n ELSE n - Word

DelayStates ==
  {"Unknown", "Bypassed", "Entered", "Entering", "Exited", "Exiting"}

TimeScales == {"unity", "slower", "faster"}

Quantum == BytesPerMsec * QuantumMsec

SetpointBytes(msec) ==
  IF msec < Fudge THEN 0 ELSE BytesPerMsec * (msec - Fudge)

FullMsec(i) == MsecPerSec * FullDelay[i]
DumpMsec(i) == MsecPerSec * DumpDelay[i]

Smaller(a, b) == IF a <= b THEN a ELSE b
Larger(a, b) == IF a >= b THEN a ELSE b

-----------------------------------------------------------------------------
VARIABLES
  \* written by the main thread, read by the audio thread
  delay_state_set, delay_dump,
  \* written by the audio thread, read by the main thread
  delay_state_taken, delay_interval,
  \* owned by the audio thread and the audio device
  rb, out, started,
  \* the audio thread's program counter and locals; all `static' in the code,
  \* so `timescale' keeps its value from one input to the next
  pc, cur, space, seen, timescale,
  \* the main thread: the input whose dumpDelay() has passed its test, or None
  dumping

shared == <<delay_state_set, delay_dump, delay_state_taken, delay_interval>>
audio == <<rb, out, started>>
locals == <<space, seen, timescale>>
vars == <<shared, audio, pc, cur, locals, dumping>>

PCs == {"init", "capture", "dump", "cut", "clear", "retake", "fill", "full",
        "entering", "zero", "exiting", "output"}

(***************************************************************************)
(* The constructor has filled every output stream with a quantum of        *)
(* silence and started the thread.  delay_state_taken and delay_interval   *)
(* are not initialised before the thread does it.                          *)
(***************************************************************************)
Init ==
  /\ delay_state_set = [i \in Inputs |-> "Bypassed"]
  /\ delay_dump = [i \in Inputs |-> FALSE]
  /\ delay_state_taken \in [Inputs -> DelayStates]
  /\ delay_interval \in [Inputs -> 0 .. Word - 1]
  /\ rb = [i \in Inputs |-> 0]
  /\ out = [i \in Inputs |-> Quantum]
  /\ started = [i \in Inputs |-> FALSE]
  /\ pc = "init" /\ cur = 0
  /\ space = 0 /\ seen = 0 /\ timescale = "unity"
  /\ dumping = None

-----------------------------------------------------------------------------
(* The main thread.  Its slots run to completion, one at a time.           *)

SetDelayState(i, state) ==
  /\ dumping = None
  /\ state \in {"Entering", "Exiting"}      \* the other states are ignored
  /\ delay_state_set' = [delay_state_set EXCEPT ![i] = state]
  /\ UNCHANGED <<delay_dump, delay_state_taken, delay_interval, audio, pc,
                 cur, locals, dumping>>

(* dumpDelay() tests the interval, then sets the flag: two accesses. *)
DumpDelayTest(i) ==
  /\ dumping = None
  /\ Signed(delay_interval[i]) > 0
  /\ dumping' = i
  /\ UNCHANGED <<shared, audio, pc, cur, locals>>

DumpDelaySet ==
  /\ dumping # None
  /\ delay_dump' = [delay_dump EXCEPT ![dumping] = TRUE]
  /\ dumping' = None
  /\ UNCHANGED <<delay_state_set, delay_state_taken, delay_interval, audio, pc,
                 cur, locals>>

-----------------------------------------------------------------------------
(* The audio device plays; a stopped stream does not.                      *)

Play(i) ==
  /\ started[i]
  /\ \E n \in 1 .. out[i] : out' = [out EXCEPT ![i] = @ - n]
  /\ UNCHANGED <<shared, rb, started, pc, cur, locals, dumping>>

-----------------------------------------------------------------------------
(* The audio thread, __AudioCallback.                                      *)

ThreadInit ==
  /\ pc = "init"
  /\ delay_interval' = [i \in Inputs |-> 0]
  /\ delay_state_taken' = [i \in Inputs |-> "Exited"]
  /\ pc' = "capture"
  /\ UNCHANGED <<delay_state_set, delay_dump, audio, cur, locals, dumping>>

(* A wrong variant: what the ring buffer has no room for is not cut off.   *)
CaptureUntruncated ==
  /\ pc = "capture"
  /\ \E n \in 1 .. MaxCapture : rb' = [i \in Inputs |-> rb[i] + n]
  /\ pc' = "dump" /\ cur' = 0
  /\ UNCHANGED <<shared, out, started, locals, dumping>>

(* A poll with no input data changes nothing: it is a stuttering step. *)
Capture ==
  /\ pc = "capture"
  /\ \E n \in 1 .. MaxCapture :
       rb' = [i \in Inputs |-> Smaller(rb[i] + n, RingSize)]
  /\ pc' = "dump" /\ cur' = 0
  /\ UNCHANGED <<shared, out, started, locals, dumping>>

Dumpable == {"Entering", "Entered", "Exiting"}

(* A wrong variant: a request that cannot be carried out is forgotten.     *)
SkipDumpForgetting ==
  /\ pc = "dump"
  /\ ~delay_dump[cur] \/ delay_state_taken[cur] \notin Dumpable
  /\ delay_dump' = [delay_dump EXCEPT ![cur] = FALSE]
  /\ pc' = "fill"
  /\ UNCHANGED <<delay_state_set, delay_state_taken, delay_interval, audio, cur,
                 locals, dumping>>

SkipDump ==
  /\ pc = "dump"
  /\ ~delay_dump[cur] \/ delay_state_taken[cur] \notin Dumpable
  /\ pc' = "fill"
  /\ UNCHANGED <<shared, audio, cur, locals, dumping>>

(* __AudioDump() asks the device how much is left to play ... *)
DumpInfo ==
  /\ pc = "dump"
  /\ delay_dump[cur]
  /\ delay_state_taken[cur] \in Dumpable
  /\ seen' = out[cur]
  /\ pc' = "cut"
  /\ UNCHANGED <<shared, audio, cur, space, timescale, dumping>>

DumpApplies(i) == DumpMsec(i) > seen \div BytesPerMsec
(* A wrong variant: what the output stream holds is dumped twice.          *)
DumpBytesTwice(i) == BytesPerMsec * DumpMsec(i)

DumpBytes(i) == BytesPerMsec * DumpMsec(i) - seen

(* ... cuts the ring buffer by the rest of the dump and empties the stream, *)
CutPart ==
  /\ pc = "cut"
  /\ DumpApplies(cur) /\ DumpBytes(cur) <= rb[cur]
  /\ rb' = [rb EXCEPT ![cur] = @ - DumpBytes(cur)]
  /\ delay_interval' = [delay_interval EXCEPT ![cur] =
       (@ - (DumpBytes(cur) + seen) \div BytesPerMsec) % Word]
  /\ out' = [out EXCEPT ![cur] = 0]
  /\ started' = [started EXCEPT ![cur] = FALSE]
  /\ pc' = "clear"
  /\ UNCHANGED <<delay_state_set, delay_dump, delay_state_taken, cur, locals,
                 dumping>>

(* or all of the ring buffer when it holds less, *)
CutAll ==
  /\ pc = "cut"
  /\ DumpApplies(cur) /\ DumpBytes(cur) > rb[cur]
  /\ rb' = [rb EXCEPT ![cur] = 0]
  /\ delay_interval' = [delay_interval EXCEPT ![cur] = 0]
  /\ out' = [out EXCEPT ![cur] = 0]
  /\ started' = [started EXCEPT ![cur] = FALSE]
  /\ pc' = "clear"
  /\ UNCHANGED <<delay_state_set, delay_dump, delay_state_taken, cur, locals,
                 dumping>>

CutNothing ==
  /\ pc = "cut"
  /\ ~DumpApplies(cur)
  /\ pc' = "clear"
  /\ UNCHANGED <<shared, audio, cur, locals, dumping>>

(* clears the request *)
DumpClear ==
  /\ pc = "clear"
  /\ delay_dump' = [delay_dump EXCEPT ![cur] = FALSE]
  /\ pc' = "retake"
  /\ UNCHANGED <<delay_state_set, delay_state_taken, delay_interval, audio, cur,
                 locals, dumping>>

(* A wrong variant: a delay that was full stays so.                        *)
StateAfterDumpFull(state, interval) ==
  IF state = "Exiting" /\ interval = 0 THEN "Exited" ELSE state

(* and the caller takes the state that follows. *)
StateAfterDump(state, interval) ==
  IF state \in {"Entering", "Entered"} THEN "Entering"
  ELSE IF interval = 0 THEN "Exited" ELSE state

DumpRetake ==
  /\ pc = "retake"
  /\ delay_state_taken' = [delay_state_taken EXCEPT ![cur] =
       StateAfterDump(@, delay_interval[cur])]
  /\ pc' = "fill"
  /\ UNCHANGED <<delay_state_set, delay_dump, delay_interval, audio, cur,
                 locals, dumping>>

(***************************************************************************)
(* The refill: read from the ring buffer what brings the output stream to  *)
(* a quantum, measure the delay (without the bytes just read), read the    *)
(* commanded state and make the first of the two writes it asks for.       *)
(***************************************************************************)
(* A wrong variant: more is read than the ring buffer holds.               *)
BytesReadShort(i) == Quantum - out[i]

BytesRead(i) == Smaller(Quantum - out[i], rb[i])
DelayBytes(i) == out[i] + rb[i] - BytesRead(i)
MeasuredMsec(i) == QuantumMsec * (DelayBytes(i) \div Quantum)

Refill ==
  /\ pc = "fill"
  /\ space' = BytesRead(cur)
  /\ rb' = [rb EXCEPT ![cur] = @ - BytesRead(cur)]
  /\ UNCHANGED <<delay_state_set, delay_dump, out, started, cur, seen, dumping>>

AtSetpoint(i) == DelayBytes(i) > SetpointBytes(FullMsec(i))

EnterReached ==
  /\ Refill
  /\ delay_state_set[cur] = "Entering" /\ AtSetpoint(cur)
  /\ timescale' = "unity"
  /\ delay_state_taken' = [delay_state_taken EXCEPT ![cur] = "Entered"]
  /\ pc' = "full"
  /\ UNCHANGED delay_interval

(* A wrong variant: the ramp starts again whenever the delay is short of   *)
(* the setpoint, although it has been reached.                             *)
EnterRampAgain ==
  /\ Refill
  /\ delay_state_set[cur] = "Entering" /\ ~AtSetpoint(cur)
  /\ delay_interval' = [delay_interval EXCEPT ![cur] =
       Larger(@, MeasuredMsec(cur))]
  /\ timescale' = "slower"
  /\ pc' = "entering"
  /\ UNCHANGED delay_state_taken

EnterRamp ==
  /\ Refill
  /\ delay_state_set[cur] = "Entering" /\ ~AtSetpoint(cur)
  /\ delay_state_taken[cur] # "Entered"
  /\ delay_interval' = [delay_interval EXCEPT ![cur] =
       Larger(@, MeasuredMsec(cur))]
  /\ timescale' = "slower"
  /\ pc' = "entering"
  /\ UNCHANGED delay_state_taken

EnterHold ==
  /\ Refill
  /\ delay_state_set[cur] = "Entering" /\ ~AtSetpoint(cur)
  /\ delay_state_taken[cur] = "Entered"
  /\ pc' = "output"
  /\ UNCHANGED <<timescale, delay_state_taken, delay_interval>>

ExitReached ==
  /\ Refill
  /\ delay_state_set[cur] = "Exiting" /\ DelayBytes(cur) < ExitBytes
  /\ timescale' = "unity"
  /\ delay_state_taken' = [delay_state_taken EXCEPT ![cur] = "Exited"]
  /\ pc' = "zero"
  /\ UNCHANGED delay_interval

ExitRamp ==
  /\ Refill
  /\ delay_state_set[cur] = "Exiting" /\ DelayBytes(cur) >= ExitBytes
  /\ delay_state_taken[cur] # "Exited"
  /\ delay_interval' = [delay_interval EXCEPT ![cur] =
       Smaller(@, MeasuredMsec(cur))]
  /\ timescale' = "faster"
  /\ pc' = "exiting"
  /\ UNCHANGED delay_state_taken

ExitHold ==
  /\ Refill
  /\ delay_state_set[cur] = "Exiting" /\ DelayBytes(cur) >= ExitBytes
  /\ delay_state_taken[cur] = "Exited"
  /\ pc' = "output"
  /\ UNCHANGED <<timescale, delay_state_taken, delay_interval>>

Bypass ==
  /\ Refill
  /\ delay_state_set[cur] = "Bypassed"
  /\ timescale' = "unity"
  /\ pc' = "output"
  /\ UNCHANGED <<delay_state_taken, delay_interval>>

(* The second write. *)
StoreInterval(at, msec) ==
  /\ pc = at
  /\ delay_interval' = [delay_interval EXCEPT ![cur] = msec]
  /\ pc' = "output"
  /\ UNCHANGED <<delay_state_set, delay_dump, delay_state_taken, audio, cur,
                 locals, dumping>>

StoreTaken(at, state) ==
  /\ pc = at
  /\ delay_state_taken' = [delay_state_taken EXCEPT ![cur] = state]
  /\ pc' = "output"
  /\ UNCHANGED <<delay_state_set, delay_dump, delay_interval, audio, cur,
                 locals, dumping>>

(* Wrong variants: the two ramps store each other's state.                 *)
StoreEnteringSwapped == StoreTaken("entering", "Exiting")
StoreExitingSwapped == StoreTaken("exiting", "Entering")

StoreFull == StoreInterval("full", FullMsec(cur))
StoreEntering == StoreTaken("entering", "Entering")
StoreZero == StoreInterval("zero", 0)
StoreExiting == StoreTaken("exiting", "Exiting")

(* Write to the stream; a stream that a dump stopped is started again. *)
Output ==
  /\ pc = "output"
  /\ out' = [out EXCEPT ![cur] = @ + space]
  /\ started' = [started EXCEPT ![cur] = TRUE]
  /\ space' = 0
  /\ IF cur + 1 < NumInputs
       THEN pc' = "dump" /\ cur' = cur + 1
       ELSE pc' = "capture" /\ cur' = 0
  /\ UNCHANGED <<shared, rb, seen, timescale, dumping>>

-----------------------------------------------------------------------------
AudioDump == DumpInfo \/ CutPart \/ CutAll \/ CutNothing \/ DumpClear

AudioCallback ==
  \/ ThreadInit \/ Capture
  \/ SkipDump \/ AudioDump \/ DumpRetake
  \/ EnterReached \/ EnterRamp \/ EnterHold
  \/ ExitReached \/ ExitRamp \/ ExitHold \/ Bypass
  \/ StoreFull \/ StoreEntering \/ StoreZero \/ StoreExiting
  \/ Output

MainThread ==
  \/ \E i \in Inputs, state \in DelayStates : SetDelayState(i, state)
  \/ \E i \in Inputs : DumpDelayTest(i)
  \/ DumpDelaySet

Next == AudioCallback \/ MainThread \/ \E i \in Inputs : Play(i)

(***************************************************************************)
(* The audio thread polls for ever and the device delivers input audio; a  *)
(* slot of the main thread that was begun is finished.  Nothing obliges an *)
(* operator to give a command or the device to play.                       *)
(***************************************************************************)
Fairness == WF_vars(AudioCallback) /\ WF_vars(DumpDelaySet)

Spec == Init /\ [][Next]_vars
FairSpec == Spec /\ Fairness

-----------------------------------------------------------------------------
(* Every variable keeps its type; `space' and `seen' are at most a quantum. *)
TypeOK ==
  /\ delay_state_set \in [Inputs -> {"Bypassed", "Entering", "Exiting"}]
  /\ delay_dump \in [Inputs -> BOOLEAN]
  /\ delay_state_taken \in [Inputs -> DelayStates]
  /\ delay_interval \in [Inputs -> 0 .. Word - 1]
  /\ rb \in [Inputs -> Nat]
  /\ out \in [Inputs -> Nat]
  /\ started \in [Inputs -> BOOLEAN]
  /\ pc \in PCs
  /\ cur \in Inputs
  /\ space \in Nat
  /\ seen \in Nat
  /\ timescale \in TimeScales
  /\ dumping \in Inputs \cup {None}

(***************************************************************************)
(* `space=38400-out_data_to_play' is an unsigned subtraction and the ring  *)
(* buffer copies with memcpy: neither may ever exceed its buffer, whatever *)
(* dumps, commands and device progress come between the measuring of the   *)
(* stream and the write to it.                                             *)
(***************************************************************************)
InTransit(i) ==
  IF cur = i /\ pc \in {"full", "entering", "zero", "exiting", "output"}
    THEN space ELSE 0

BufferBounds ==
  \A i \in Inputs : out[i] + InTransit(i) <= Quantum /\ rb[i] <= RingSize

(***************************************************************************)
(* The state and the interval are two members written at different lines.  *)
(* Outside the few steps between the two writes, an input reported Exited  *)
(* has the interval 0 and one reported Entered its full delay: dumps and   *)
(* changes of mind in the middle of a ramp included.                       *)
(***************************************************************************)
Writing(i, pcs) == cur = i /\ pc \in pcs

ExitedIsZero ==
  \A i \in Inputs :
    pc # "init" /\ delay_state_taken[i] = "Exited"
      => delay_interval[i] = 0 \/ Writing(i, {"zero", "entering"})

EnteredIsFull ==
  \A i \in Inputs :
    pc # "init" /\ delay_state_taken[i] = "Entered"
      => \/ delay_interval[i] = FullMsec(i)
         \/ Writing(i, {"full", "clear", "retake", "exiting"})

StateMatchesInterval == ExitedIsZero /\ EnteredIsFull

(* What else the invariants above rest on: the sample of the device taken   *)
(* for a dump is not exceeded before the stream is emptied, and the thread  *)
(* takes only the four states of its own.                                   *)
SampleValid ==
  pc = "cut" => out[cur] <= seen /\ seen <= Quantum

OwnStates == {"Exited", "Entering", "Entered", "Exiting"}

TakesOwnStates ==
  /\ pc # "init" => \A i \in Inputs : delay_state_taken[i] \in OwnStates
  /\ pc \in {"cut", "clear", "retake"} => delay_state_taken[cur] \in Dumpable
  /\ pc = "full" => delay_state_taken[cur] = "Entered"
  /\ pc = "zero" => delay_state_taken[cur] = "Exited"
  /\ pc = "entering" => delay_state_taken[cur] # "Entered"
  /\ pc = "exiting" => delay_state_taken[cur] # "Exited"

IndInv ==
  TypeOK /\ BufferBounds /\ StateMatchesInterval /\ SampleValid /\ TakesOwnStates

(***************************************************************************)
(* A dump never removes more audio than DumpDelay seconds, counting what   *)
(* the output stream held when the thread asked; it removes less only when *)
(* nothing is left, or by what was played in the meantime.                 *)
(***************************************************************************)
Line(i) == out[i] + InTransit(i) + rb[i]

DumpExact ==
  [][ CutPart \/ CutAll =>
        /\ Line(cur)' <= Line(cur)
        /\ Line(cur) - Line(cur)' <= BytesPerMsec * DumpMsec(cur)
        /\ \/ Line(cur)' = 0
           \/ Line(cur) - Line(cur)'
                = BytesPerMsec * DumpMsec(cur) - (seen - out[cur]) ]_vars

(* An operator's Exit is obeyed: the thread leaves Entering and Entered     *)
(* unless the operator changes the command, dumps in between included.      *)
ExitObeyed ==
  \A i \in Inputs :
    delay_state_set[i] = "Exiting"
      ~> delay_state_set[i] # "Exiting"
         \/ delay_state_taken[i] \in {"Exiting", "Exited"}

(* An operator's Enter is obeyed in the same way. *)
EnterObeyed ==
  \A i \in Inputs :
    delay_state_set[i] = "Entering"
      ~> delay_state_set[i] # "Entering"
         \/ delay_state_taken[i] \in {"Entering", "Entered"}

(* A dump requested while the delay is being entered or is entered is       *)
(* carried out (the thread goes through the cut of __AudioDump() for that   *)
(* input afterwards), unless the operator exits the delay first.  It is not *)
(* enough that the flag is cleared.  A request that is made when the cut is *)
(* done and the flag not yet cleared is excepted: the code loses it.        *)
DumpServed ==
  \A i \in Inputs :
    delay_dump[i] /\ ~Writing(i, {"clear"}) /\ delay_state_set[i] = "Entering"
      ~> Writing(i, {"clear"}) \/ delay_state_set[i] # "Entering"

-----------------------------------------------------------------------------
(***************************************************************************)
(* The engine implements the abstract delay line.                          *)
(***************************************************************************)
DL == INSTANCE DelayLine WITH
  Lines <- Inputs,
  Capacity <- RingSize + Quantum,
  DumpSize <- [i \in Inputs |-> BytesPerMsec * DumpMsec(i)],
  Slack <- Quantum,
  line <- [i \in Inputs |-> Line(i)],
  mode <- [i \in Inputs |->
             IF pc = "init" THEN "Exited" ELSE delay_state_taken[i]],
  cutting <- [i \in Inputs |-> Writing(i, {"clear", "retake"})]

(* Every step of the two threads and the device is a step of the line: no   *)
(* audio is lost but to a dump of the right size, and the reported state    *)
(* moves only as the line's mode may.                                       *)
ImplementsDelayLine == DL!LineSpec

-----------------------------------------------------------------------------
(***************************************************************************)
(* "If this is more than the currently available delay, the delay will be  *)
(* set to '0'" (conf/lwnetrouter-sample.conf): the interval that a dump     *)
(* leaves, as the rest of the daemon reads it, is not below 0.             *)
(***************************************************************************)
DumpStopsAtZero ==
  [][ CutPart \/ CutAll => Signed(delay_interval[cur]') >= 0 ]_vars

(***************************************************************************)
(* "The maximum timeshift to apply when ramping the delay up or down"      *)
(* (conf/lwnetrouter-sample.conf): an input that is not ramping is played  *)
(* at its own speed, never slowed down.                                    *)
(***************************************************************************)
ExitedNeverSlowed ==
  [][ Output /\ delay_state_taken[cur] = "Exited" => timescale # "slower" ]_vars
=============================================================================
