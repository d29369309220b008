--------------------------- MODULE AudioDelayProofs ---------------------------
(***************************************************************************)
(* Theorems about AudioDelay, for any number of inputs, any sizes and any  *)
(* delays that satisfy its two assumptions; then about AudioScan, which    *)
(* reads the engine's members between the engine's own steps and never     *)
(* disturbs them, so that what holds of the engine holds of one that is    *)
(* scanned.                                                                *)
(***************************************************************************)
EXTENDS AudioScan, TLAPS

(* A product grows with its second factor, and only with it. *)
LEMMA TimesMonotonic ==
  ASSUME NEW k \in Nat \ {0}, NEW a \in Int, NEW b \in Int, k * a <= k * b
  PROVE  a <= b
  OBVIOUS

LEMMA DivisionBounds ==
  ASSUME NEW a \in Nat, NEW d \in Nat \ {0}
  PROVE  a \div d \in Nat /\ d * (a \div d) <= a
  OBVIOUS

LEMMA ModuloRange ==
  ASSUME NEW a \in Int, NEW d \in Nat \ {0}
  PROVE  a % d \in 0 .. d - 1
  OBVIOUS

(* What the constants and the sizes derived from them are. *)
LEMMA Sizes ==
  /\ 0 \in Inputs /\ Inputs \subseteq Nat
  /\ \A i \in Inputs : i + 1 < NumInputs => i + 1 \in Inputs
  /\ BytesPerMsec \in Nat \ {0} /\ QuantumMsec \in Nat \ {0}
  /\ RingSize \in Nat /\ MaxCapture \in Nat /\ Word \in Nat \ {0}
  /\ Quantum \in Nat \ {0}
  /\ \A i \in Inputs : FullMsec(i) \in Nat /\ FullMsec(i) < Word
  /\ \A i \in Inputs : DumpMsec(i) \in Nat
  /\ \A m \in Nat : SetpointBytes(m) \in Nat
  <1>1. Quantum \in Nat \ {0}
    BY SizesAssumption DEF Quantum
  <1>2. ASSUME NEW i \in Inputs
        PROVE  /\ FullMsec(i) \in Nat /\ FullMsec(i) < Word
               /\ DumpMsec(i) \in Nat
    <2>1. FullDelay[i] \in Nat /\ DumpDelay[i] \in Nat
          /\ 2 * (FullDelay[i] * MsecPerSec) < Word
      BY DelaysAssumption
    <2>2. MsecPerSec \in Nat /\ Word \in Nat
      BY SizesAssumption
    <2> DEFINE full == FullDelay[i] * MsecPerSec
    <2>3. full \in Nat /\ 2 * full < Word
      BY <2>1, <2>2
    <2>4. full < Word
      <3> HIDE DEF full
      <3> QED BY <2>2, <2>3
    <2>5. MsecPerSec * FullDelay[i] = full
      BY <2>1, <2>2
    <2> QED BY <2>1, <2>2, <2>3, <2>4, <2>5 DEF FullMsec, DumpMsec
  <1>3. \A m \in Nat : SetpointBytes(m) \in Nat
    BY SizesAssumption DEF SetpointBytes
  <1> QED BY <1>1, <1>2, <1>3, SizesAssumption DEF Inputs

-----------------------------------------------------------------------------
(* Type correctness.                                                       *)

LEMMA TypeInit == Init => TypeOK
  <1> SUFFICES ASSUME Init PROVE TypeOK
    OBVIOUS
  <1>1. 0 \in Inputs /\ Quantum \in Nat
    BY Sizes
  <1> QED BY <1>1 DEF Init, TypeOK, DelayStates, PCs, TimeScales

(* What a refill reads and what it leaves. *)
LEMMA ReadFits ==
  ASSUME TypeOK, NEW i \in Inputs, out[i] <= Quantum
  PROVE  /\ BytesRead(i) \in Nat
         /\ BytesRead(i) <= rb[i]
         /\ out[i] + BytesRead(i) <= Quantum
  BY Sizes DEF TypeOK, BytesRead, Smaller

LEMMA MeasureFits ==
  ASSUME TypeOK, NEW i \in Inputs, out[i] <= Quantum
  PROVE  /\ MeasuredMsec(i) \in Nat
         /\ ~AtSetpoint(i) => MeasuredMsec(i) <= FullMsec(i)
  <1> DEFINE q == DelayBytes(i) \div Quantum
  <1>1. DelayBytes(i) \in Nat
    BY ReadFits DEF DelayBytes, TypeOK
  <1>2. q \in Nat /\ Quantum * q <= DelayBytes(i)
    BY <1>1, Sizes, DivisionBounds
  <1>3. MeasuredMsec(i) = QuantumMsec * q /\ QuantumMsec * q \in Nat
    BY <1>2, Sizes DEF MeasuredMsec
  <1>4. ASSUME ~AtSetpoint(i) PROVE MeasuredMsec(i) <= FullMsec(i)
    <2>1. FullMsec(i) \in Nat
      BY Sizes
    <2>2. DelayBytes(i) <= SetpointBytes(FullMsec(i))
      BY <1>1, <1>4, <2>1, Sizes DEF AtSetpoint
    <2>3. SetpointBytes(FullMsec(i)) <= BytesPerMsec * FullMsec(i)
      <3>1. Fudge \in Nat /\ BytesPerMsec \in Nat
        BY SizesAssumption
      <3>2. BytesPerMsec * (FullMsec(i) - Fudge)
              = BytesPerMsec * FullMsec(i) - BytesPerMsec * Fudge
        BY <2>1, <3>1
      <3>3. BytesPerMsec * Fudge \in Nat /\ BytesPerMsec * FullMsec(i) \in Nat
        BY <2>1, <3>1
      <3> QED BY <3>2, <3>3 DEF SetpointBytes
    <2>4. Quantum * q = BytesPerMsec * (QuantumMsec * q)
      BY <1>2, SizesAssumption DEF Quantum
    <2>5. BytesPerMsec * (QuantumMsec * q) <= BytesPerMsec * FullMsec(i)
      <3>1. SetpointBytes(FullMsec(i)) \in Nat
        BY <2>1, Sizes
      <3>2. BytesPerMsec * FullMsec(i) \in Nat
        BY <2>1, Sizes
      <3>3. BytesPerMsec * (QuantumMsec * q) \in Nat
        BY <1>3, Sizes
      <3> QED BY <1>1, <1>2, <2>2, <2>3, <2>4, <3>1, <3>2, <3>3
    <2> QED BY <1>3, <2>1, <2>5, Sizes, TimesMonotonic
  <1> QED BY <1>3, <1>4

LEMMA TypeStep == TypeOK /\ BufferBounds /\ [Next]_vars => TypeOK'
  <1> SUFFICES ASSUME TypeOK, BufferBounds, [Next]_vars PROVE TypeOK'
    OBVIOUS
  <1> USE DEF shared, audio, locals
  <1>1. CASE UNCHANGED vars
    BY <1>1 DEF vars, TypeOK
  <1>2. CASE MainThread
    BY <1>2 DEF MainThread, SetDelayState, DumpDelayTest, DumpDelaySet, TypeOK
  <1>3. ASSUME NEW i \in Inputs, Play(i) PROVE TypeOK'
    BY <1>3 DEF Play, TypeOK
  <1>4. CASE ThreadInit
    BY <1>4, Sizes DEF ThreadInit, TypeOK, PCs, DelayStates
  <1>5. CASE Capture
    <2>1. \A n \in 1 .. MaxCapture, i \in Inputs :
            Smaller(rb[i] + n, RingSize) \in Nat
      BY Sizes DEF Smaller, TypeOK
    <2>2. rb' \in [Inputs -> Nat]
      BY <1>5, <2>1 DEF Capture
    <2> QED BY <1>5, <2>2, Sizes DEF Capture, TypeOK, PCs
  <1>6. CASE SkipDump \/ DumpInfo \/ CutNothing \/ DumpClear
    BY <1>6 DEF SkipDump, DumpInfo, CutNothing, DumpClear, TypeOK, PCs
  <1>7. CASE CutPart
    <2>1. seen \div BytesPerMsec \in Nat /\ DumpMsec(cur) \in Nat
      BY DivisionBounds, Sizes DEF TypeOK
    <2>2. DumpBytes(cur) \in Int
      BY <2>1, Sizes DEF DumpBytes, TypeOK
    <2>3. rb[cur] - DumpBytes(cur) \in Nat
      BY <1>7, <2>2 DEF CutPart, TypeOK
    <2>4. \A n \in Int : (delay_interval[cur] - n) % Word \in 0 .. Word - 1
      <3>1. delay_interval[cur] \in Int /\ Word \in Nat \ {0}
        BY Sizes DEF TypeOK
      <3> QED BY <3>1, ModuloRange
    <2>5. (DumpBytes(cur) + seen) \div BytesPerMsec \in Int
      BY <2>2, Sizes DEF TypeOK
    <2>6. delay_interval' \in [Inputs -> 0 .. Word - 1]
      BY <1>7, <2>4, <2>5 DEF CutPart, TypeOK
    <2>7. rb' \in [Inputs -> Nat] /\ out' \in [Inputs -> Nat]
      BY <1>7, <2>3 DEF CutPart, TypeOK
    <2> QED BY <1>7, <2>6, <2>7 DEF CutPart, TypeOK, PCs
  <1>8. CASE CutAll
    BY <1>8, Sizes DEF CutAll, TypeOK, PCs
  <1>9. CASE DumpRetake
    BY <1>9 DEF DumpRetake, StateAfterDump, TypeOK, PCs, DelayStates
  <1>10. ASSUME Refill
         PROVE  /\ rb' \in [Inputs -> Nat] /\ space' \in Nat
                /\ MeasuredMsec(cur) \in Nat
                /\ ~AtSetpoint(cur) => MeasuredMsec(cur) \in 0 .. Word - 1
    <2>1. cur \in Inputs /\ out[cur] <= Quantum
      BY Sizes DEF TypeOK, BufferBounds, InTransit
    <2>2. BytesRead(cur) \in Nat /\ BytesRead(cur) <= rb[cur]
      BY <2>1, ReadFits
    <2>3. rb[cur] - BytesRead(cur) \in Nat
      BY <2>1, <2>2 DEF TypeOK
    <2>4. FullMsec(cur) \in Nat /\ FullMsec(cur) < Word
      BY <2>1, Sizes
    <2>5. /\ MeasuredMsec(cur) \in Nat
          /\ ~AtSetpoint(cur) => MeasuredMsec(cur) <= FullMsec(cur)
      BY <2>1, MeasureFits
    <2>6. rb' \in [Inputs -> Nat] /\ space' \in Nat
      BY <1>10, <2>2, <2>3 DEF Refill, TypeOK
    <2> QED BY <2>4, <2>5, <2>6, Sizes
  <1>11. CASE EnterReached \/ ExitReached \/ EnterHold \/ ExitHold \/ Bypass
    BY <1>10, <1>11 DEF EnterReached, ExitReached, EnterHold, ExitHold, Bypass,
       Refill, TypeOK, PCs, DelayStates, TimeScales
  <1>12. CASE EnterRamp
    <2>1. Larger(delay_interval[cur], MeasuredMsec(cur)) \in 0 .. Word - 1
      BY <1>10, <1>12, Sizes DEF EnterRamp, Larger, TypeOK
    <2> QED BY <1>10, <1>12, <2>1 DEF EnterRamp, Refill, TypeOK, PCs, TimeScales
  <1>13. CASE ExitRamp
    <2>1. Smaller(delay_interval[cur], MeasuredMsec(cur)) \in 0 .. Word - 1
      BY <1>10, <1>13, Sizes DEF ExitRamp, Smaller, TypeOK
    <2> QED BY <1>10, <1>13, <2>1 DEF ExitRamp, Refill, TypeOK, PCs, TimeScales
  <1>14. CASE StoreFull \/ StoreZero
    <2>1. FullMsec(cur) \in 0 .. Word - 1 /\ 0 \in 0 .. Word - 1
      BY Sizes DEF TypeOK
    <2> QED BY <1>14, <2>1 DEF StoreFull, StoreZero, StoreInterval, TypeOK, PCs
  <1>15. CASE StoreEntering \/ StoreExiting
    BY <1>15 DEF StoreEntering, StoreExiting, StoreTaken, TypeOK, PCs,
       DelayStates
  <1>16. CASE Output
    BY <1>16, Sizes DEF Output, TypeOK, PCs
  <1> QED
    BY <1>1, <1>2, <1>3, <1>4, <1>5, <1>6, <1>7, <1>8, <1>9, <1>11, <1>12,
       <1>13, <1>14, <1>15, <1>16 DEF Next, AudioCallback, AudioDump
-----------------------------------------------------------------------------
(* The buffers.                                                            *)

(* A dump of anything removes at least a byte, so dump() is never called    *)
(* with 0, which would empty the ring buffer.                               *)
LEMMA DumpPositive ==
  ASSUME TypeOK, DumpApplies(cur)
  PROVE  /\ DumpBytes(cur) \in Nat \ {0}
         /\ DumpBytes(cur) + seen = BytesPerMsec * DumpMsec(cur)
         /\ BytesPerMsec * DumpMsec(cur) \in Nat
  <1> DEFINE q == seen \div BytesPerMsec
  <1>1. seen \in Nat /\ BytesPerMsec \in Nat \ {0} /\ DumpMsec(cur) \in Nat
    BY Sizes DEF TypeOK
  <1>2. q \in Nat /\ seen < BytesPerMsec * (q + 1)
    BY <1>1
  <1>3. q + 1 <= DumpMsec(cur)
    BY <1>1, <1>2 DEF DumpApplies
  <1>4. BytesPerMsec * (q + 1) <= BytesPerMsec * DumpMsec(cur)
    BY <1>1, <1>2, <1>3
  <1>5. BytesPerMsec * DumpMsec(cur) \in Nat /\ BytesPerMsec * (q + 1) \in Nat
    BY <1>1, <1>2
  <1> QED BY <1>1, <1>2, <1>4, <1>5 DEF DumpBytes

LEMMA BoundsStep ==
  TypeOK /\ BufferBounds /\ SampleValid /\ [Next]_vars
    => BufferBounds' /\ SampleValid'
  <1> SUFFICES ASSUME TypeOK, BufferBounds, SampleValid, [Next]_vars
               PROVE  BufferBounds' /\ SampleValid'
    OBVIOUS
  <1> USE DEF shared, audio, locals, BufferBounds, SampleValid, InTransit
  <1>1. CASE UNCHANGED vars
    BY <1>1 DEF vars
  <1>2. CASE MainThread
    BY <1>2 DEF MainThread, SetDelayState, DumpDelayTest, DumpDelaySet
  <1>3. ASSUME NEW i \in Inputs, Play(i) PROVE BufferBounds' /\ SampleValid'
    <2>1. \A j \in Inputs : out'[j] \in Nat /\ out'[j] <= out[j]
      BY <1>3 DEF Play, TypeOK
    <2> QED BY <1>3, <2>1, Sizes DEF Play, TypeOK
  <1>4. CASE ThreadInit
    BY <1>4 DEF ThreadInit
  <1>5. CASE Capture
    <2>1. \A i \in Inputs : rb'[i] <= RingSize
      BY <1>5, Sizes DEF Capture, Smaller, TypeOK
    <2>2. \A i \in Inputs : out[i] \in Nat /\ out[i] <= Quantum
      BY <1>5, Sizes DEF Capture, TypeOK
    <2>3. out' = out /\ pc' = "dump"
      BY <1>5 DEF Capture
    <2>4. Quantum \in Nat
      BY Sizes
    <2> QED BY <2>1, <2>2, <2>3, <2>4
  <1>6. CASE SkipDump \/ CutNothing \/ DumpClear \/ DumpRetake
    BY <1>6 DEF SkipDump, CutNothing, DumpClear, DumpRetake
  <1>7. CASE DumpInfo
    BY <1>7, Sizes DEF DumpInfo, TypeOK
  <1>8. CASE CutPart
    <2>1. DumpBytes(cur) \in Nat
      BY <1>8, DumpPositive DEF CutPart
    <2>2. pc' = "clear" /\ Quantum \in Nat /\ RingSize \in Nat
      BY <1>8, Sizes DEF CutPart
    <2>3. \A i \in Inputs : out'[i] \in Nat /\ out'[i] <= Quantum
      BY <1>8, <2>2 DEF CutPart, TypeOK
    <2>4. \A i \in Inputs : rb'[i] <= RingSize
      BY <1>8, <2>1, <2>2 DEF CutPart, TypeOK
    <2> QED BY <2>2, <2>3, <2>4
  <1>9. CASE CutAll
    BY <1>9, Sizes DEF CutAll, TypeOK
  <1>10. ASSUME Refill, ~ pc' \in {"cut"}
         PROVE  BufferBounds' /\ SampleValid'
    <2>1. out[cur] <= Quantum /\ cur \in Inputs
      BY <1>10, Sizes DEF Refill, TypeOK
    <2>2. /\ BytesRead(cur) \in Nat
          /\ BytesRead(cur) <= rb[cur]
          /\ out[cur] + BytesRead(cur) <= Quantum
      BY <2>1, ReadFits
    <2> QED BY <1>10, <2>1, <2>2, Sizes DEF Refill, TypeOK
  <1>11. CASE \/ EnterReached \/ EnterRamp \/ EnterHold
              \/ ExitReached \/ ExitRamp \/ ExitHold \/ Bypass
    BY <1>10, <1>11 DEF EnterReached, EnterRamp, EnterHold, ExitReached,
       ExitRamp, ExitHold, Bypass
  <1>12. CASE StoreFull \/ StoreEntering \/ StoreZero \/ StoreExiting
    BY <1>12 DEF StoreFull, StoreEntering, StoreZero, StoreExiting,
       StoreInterval, StoreTaken
  <1>13. CASE Output
    BY <1>13, Sizes DEF Output, TypeOK
  <1> QED
    BY <1>1, <1>2, <1>3, <1>4, <1>5, <1>6, <1>7, <1>8, <1>9, <1>11, <1>12,
       <1>13 DEF Next, AudioCallback, AudioDump
-----------------------------------------------------------------------------
(* The reported state and the reported interval.                           *)

LEMMA StateStep ==
  TypeOK /\ StateMatchesInterval /\ TakesOwnStates /\ [Next]_vars
    => StateMatchesInterval' /\ TakesOwnStates'
  <1> SUFFICES ASSUME TypeOK, StateMatchesInterval, TakesOwnStates, [Next]_vars
               PROVE  StateMatchesInterval' /\ TakesOwnStates'
    OBVIOUS
  <1> USE DEF shared, audio, locals, StateMatchesInterval, ExitedIsZero,
          EnteredIsFull, TakesOwnStates, OwnStates, Writing
  <1>0. \A i \in Inputs : FullMsec(i)' = FullMsec(i)
    BY DEF FullMsec
  <1>1. CASE UNCHANGED vars
    BY <1>0, <1>1 DEF vars
  <1>2. CASE MainThread
    BY <1>0, <1>2 DEF MainThread, SetDelayState, DumpDelayTest, DumpDelaySet
  <1>3. ASSUME NEW i \in Inputs, Play(i)
        PROVE StateMatchesInterval' /\ TakesOwnStates'
    BY <1>0, <1>3 DEF Play
  <1>4. CASE ThreadInit
    BY <1>4 DEF ThreadInit
  <1>5. CASE Capture
    BY <1>0, <1>5 DEF Capture
  <1>6. CASE SkipDump \/ DumpInfo \/ CutNothing \/ DumpClear
    BY <1>0, <1>6 DEF SkipDump, DumpInfo, CutNothing, DumpClear, Dumpable
  <1>7. CASE CutPart \/ CutAll
    BY <1>0, <1>7 DEF CutPart, CutAll, Dumpable, TypeOK
  <1>8. CASE DumpRetake
    BY <1>0, <1>8 DEF DumpRetake, StateAfterDump, Dumpable, TypeOK
  <1>9. CASE EnterReached \/ EnterRamp \/ EnterHold
    BY <1>0, <1>9 DEF EnterReached, EnterRamp, EnterHold, Refill, TypeOK
  <1>10. CASE ExitReached \/ ExitHold \/ Bypass
    BY <1>0, <1>10 DEF ExitReached, ExitHold, Bypass, Refill, TypeOK
  <1>11. CASE ExitRamp
    BY <1>0, <1>11 DEF ExitRamp, Refill, TypeOK
  <1>12. CASE StoreFull \/ StoreZero
    <2>1. CASE StoreFull
      <3>1. \A i \in Inputs : i # cur => delay_interval'[i] = delay_interval[i]
        BY <2>1 DEF StoreFull, StoreInterval, TypeOK
      <3>2. delay_interval'[cur] = FullMsec(cur)
        BY <2>1 DEF StoreFull, StoreInterval, TypeOK
      <3> QED BY <1>0, <2>1, <3>1, <3>2 DEF StoreFull, StoreInterval
    <2>2. CASE StoreZero
      BY <1>0, <2>2 DEF StoreZero, StoreInterval, TypeOK
    <2> QED BY <1>12, <2>1, <2>2
  <1>13. CASE StoreEntering \/ StoreExiting
    BY <1>0, <1>13 DEF StoreEntering, StoreExiting, StoreTaken, TypeOK
  <1>14. CASE Output
    BY <1>0, <1>14 DEF Output
  <1> QED
    BY <1>1, <1>2, <1>3, <1>4, <1>5, <1>6, <1>7, <1>8, <1>9, <1>10, <1>11,
       <1>12, <1>13, <1>14 DEF Next, AudioCallback, AudioDump

-----------------------------------------------------------------------------
(* The inductive invariant and what follows from it.                       *)

LEMMA IndInit == Init => IndInv
  <1> SUFFICES ASSUME Init PROVE IndInv
    OBVIOUS
  <1>1. TypeOK
    BY TypeInit
  <1>2. BufferBounds
    BY <1>1, Sizes DEF Init, BufferBounds, InTransit, TypeOK
  <1>3. StateMatchesInterval /\ SampleValid /\ TakesOwnStates
    BY DEF Init, StateMatchesInterval, ExitedIsZero, EnteredIsFull, SampleValid,
           TakesOwnStates
  <1> QED BY <1>1, <1>2, <1>3 DEF IndInv

LEMMA IndStep == IndInv /\ [Next]_vars => IndInv'
  BY TypeStep, BoundsStep, StateStep DEF IndInv

LEMMA IndInvariant == Spec => []IndInv
  BY IndInit, IndStep, PTL DEF Spec

(* Every reachable state is well typed; in particular delay_interval stays  *)
(* a 32-bit unsigned value by wrapping, never by growing.                   *)
THEOREM TypeCorrect == Spec => []TypeOK
  <1>1. IndInv => TypeOK
    BY DEF IndInv
  <1> QED BY <1>1, IndInvariant, PTL

(* The refill never exceeds the output stream's quantum, nor the ring       *)
(* buffer its size.                                                         *)
THEOREM BuffersBounded == Spec => []BufferBounds
  <1>1. IndInv => BufferBounds
    BY DEF IndInv
  <1> QED BY <1>1, IndInvariant, PTL

(* Between passes, Exited means an interval of 0 and Entered a full one.    *)
THEOREM StateIntervalAgree == Spec => []StateMatchesInterval
  <1>1. IndInv => StateMatchesInterval
    BY DEF IndInv
  <1> QED BY <1>1, IndInvariant, PTL

(* A dump removes the configured amount and never more.                     *)
THEOREM DumpsAreExact == Spec => DumpExact
  <1> DEFINE size == BytesPerMsec * DumpMsec(cur)
  <1> DEFINE Exact ==
        CutPart \/ CutAll =>
          /\ Line(cur)' <= Line(cur)
          /\ Line(cur) - Line(cur)' <= size
          /\ \/ Line(cur)' = 0
             \/ Line(cur) - Line(cur)' = size - (seen - out[cur])
  <1>1. ASSUME IndInv, [Next]_vars PROVE [Exact]_vars
    <2>1. TypeOK /\ SampleValid
      BY <1>1 DEF IndInv
    <2>2. SUFFICES ASSUME CutPart \/ CutAll PROVE Exact
      OBVIOUS
    <2>3. /\ DumpBytes(cur) \in Nat \ {0}
          /\ DumpBytes(cur) + seen = size /\ size \in Nat
      BY <2>1, <2>2, DumpPositive DEF CutPart, CutAll
    <2>4. /\ Line(cur) = out[cur] + rb[cur]
          /\ Line(cur)' = out'[cur] + rb'[cur]
          /\ out[cur] \in Nat /\ rb[cur] \in Nat /\ out[cur] <= seen
          /\ seen \in Nat
      BY <2>1, <2>2 DEF Line, InTransit, CutPart, CutAll, TypeOK, SampleValid
    <2>5. CASE CutPart
      <3>1. out'[cur] = 0 /\ rb'[cur] = rb[cur] - DumpBytes(cur)
            /\ DumpBytes(cur) <= rb[cur]
        BY <2>1, <2>5 DEF CutPart, TypeOK
      <3> QED BY <2>3, <2>4, <3>1
    <2>6. CASE CutAll
      <3>1. out'[cur] = 0 /\ rb'[cur] = 0 /\ rb[cur] < DumpBytes(cur)
        BY <2>1, <2>3, <2>6 DEF CutAll, TypeOK
      <3> QED BY <2>3, <2>4, <3>1
    <2> QED BY <2>2, <2>5, <2>6
  <1> QED BY <1>1, IndInvariant, PTL DEF Spec, DumpExact
-----------------------------------------------------------------------------
(* The engine implements the abstract delay line.                          *)

AbsLine == [i \in Inputs |-> Line(i)]
AbsMode ==
  [i \in Inputs |-> IF pc = "init" THEN "Exited" ELSE delay_state_taken[i]]
AbsCutting == [i \in Inputs |-> Writing(i, {"clear", "retake"})]

LEMMA LineTypes ==
  ASSUME IndInv
  PROVE  /\ cur \in Inputs
         /\ \A i \in Inputs : Line(i) \in 0 .. RingSize + Quantum
         /\ \A i \in Inputs : out[i] \in Nat /\ rb[i] \in Nat
  BY Sizes DEF IndInv, TypeOK, BufferBounds, Line, InTransit

LEMMA RefineInit == Init => DL!LineInit
  <1> SUFFICES ASSUME Init PROVE DL!LineInit
    OBVIOUS
  <1>1. \A i \in Inputs : Line(i) = Quantum
    BY Sizes DEF Init, Line, InTransit
  <1>2. AbsLine \in [Inputs -> 0 .. Quantum]
    BY <1>1, Sizes DEF AbsLine
  <1>3. AbsMode = [i \in Inputs |-> "Exited"]
    BY DEF Init, AbsMode
  <1>4. AbsCutting = [i \in Inputs |-> FALSE]
    BY DEF Init, AbsCutting, Writing
  <1> QED BY <1>2, <1>3, <1>4 DEF DL!LineInit, AbsLine, AbsMode, AbsCutting

(* A step that leaves an input's bytes, mode and dump alone is a stutter.   *)
LEMMA SameAbstract ==
  ASSUME \A i \in Inputs : Line(i)' = Line(i),
         pc # "init", pc' # "init",
         delay_state_taken' = delay_state_taken,
         \A i \in Inputs :
           Writing(i, {"clear", "retake"})' = Writing(i, {"clear", "retake"})
  PROVE  UNCHANGED <<AbsLine, AbsMode, AbsCutting>>
  BY DEF AbsLine, AbsMode, AbsCutting

LEMMA RefineStep ==
  IndInv /\ IndInv' /\ [Next]_vars => [DL!LineNext]_(DL!lineVars)
  <1> SUFFICES ASSUME IndInv, IndInv', [Next]_vars
               PROVE  DL!LineNext \/ UNCHANGED <<AbsLine, AbsMode, AbsCutting>>
    BY DEF DL!lineVars, AbsLine, AbsMode, AbsCutting
  <1> USE DEF shared, audio, locals
  <1> DEFINE Same == UNCHANGED <<AbsLine, AbsMode, AbsCutting>>
  <1>0. TypeOK /\ TakesOwnStates /\ SampleValid
    BY DEF IndInv
  <1>1. CASE UNCHANGED vars
    BY <1>1 DEF vars, AbsLine, AbsMode, AbsCutting, Line, InTransit, Writing
  <1>2. CASE MainThread
    BY <1>2 DEF MainThread, SetDelayState, DumpDelayTest, DumpDelaySet,
       AbsLine, AbsMode, AbsCutting, Line, InTransit, Writing
  <1>3. ASSUME NEW i \in Inputs, Play(i) PROVE DL!Shrink(i)
    <2>1. PICK n \in 1 .. out[i] : out' = [out EXCEPT ![i] = @ - n]
      BY <1>3 DEF Play
    <2>2. n \in 1 .. Quantum /\ n <= Line(i)
      BY <1>0, <2>1, Sizes DEF IndInv, BufferBounds, InTransit, Line, TypeOK
    <2>3. AbsLine' = [AbsLine EXCEPT ![i] = @ - n]
      <3>1. \A j \in Inputs : Line(j)' = IF j = i THEN Line(j) - n ELSE Line(j)
        BY <1>0, <1>3, <2>1, Sizes DEF Play, Line, InTransit, TypeOK
      <3> QED BY <3>1 DEF AbsLine
    <2>4. UNCHANGED <<AbsMode, AbsCutting>>
      BY <1>3 DEF Play, AbsMode, AbsCutting, Writing
    <2> QED BY <2>2, <2>3, <2>4 DEF DL!Shrink, AbsLine, AbsMode, AbsCutting
  <1>4. CASE ThreadInit
    BY <1>4 DEF ThreadInit, AbsLine, AbsMode, AbsCutting, Line, InTransit,
       Writing
  <1>5. CASE Capture
    <2>1. \A i \in Inputs : Line(i)' >= Line(i)
      <3> TAKE i \in Inputs
      <3>1. PICK n \in 1 .. MaxCapture :
              rb' = [j \in Inputs |-> Smaller(rb[j] + n, RingSize)]
        BY <1>5 DEF Capture
      <3>2. rb'[i] >= rb[i] /\ rb'[i] \in Nat
        BY <1>0, <3>1, Sizes DEF IndInv, BufferBounds, Smaller, TypeOK
      <3>3. Line(i) = out[i] + rb[i] /\ Line(i)' = out[i] + rb'[i]
        BY <1>5, LineTypes, <3>2 DEF Capture, Line, InTransit
      <3> QED BY <3>2, <3>3, LineTypes
    <2>2. \A i \in Inputs : Line(i)' \in 0 .. RingSize + Quantum
      <3>1. \A i \in Inputs : out'[i] \in Nat /\ out'[i] <= Quantum
        BY <1>5, Sizes DEF Capture, IndInv, TypeOK, BufferBounds, InTransit
      <3>2. \A i \in Inputs : rb'[i] \in Nat /\ rb'[i] <= RingSize
        BY DEF IndInv, TypeOK, BufferBounds
      <3>3. \A i \in Inputs : Line(i)' = out'[i] + rb'[i]
        BY <1>5, <3>1, <3>2 DEF Capture, Line, InTransit
      <3> QED BY <3>1, <3>2, <3>3, Sizes
    <2>3. UNCHANGED <<AbsMode, AbsCutting>>
      BY <1>5 DEF Capture, AbsMode, AbsCutting, Writing
    <2> QED BY <2>1, <2>2, <2>3 DEF DL!LineNext, DL!Grow, AbsMode, AbsCutting
  <1>6. CASE SkipDump \/ DumpInfo \/ DumpClear
    <2>1. \A i \in Inputs : Line(i)' = Line(i)
      BY <1>6 DEF SkipDump, DumpInfo, DumpClear, Line, InTransit
    <2>2. \A i \in Inputs :
            Writing(i, {"clear", "retake"})' = Writing(i, {"clear", "retake"})
      BY <1>6 DEF SkipDump, DumpInfo, DumpClear, Writing
    <2>3. /\ pc # "init" /\ pc' # "init"
          /\ delay_state_taken' = delay_state_taken
      BY <1>6 DEF SkipDump, DumpInfo, DumpClear
    <2> QED BY <2>1, <2>2, <2>3, SameAbstract
  <1>7. CASE CutPart \/ CutAll \/ CutNothing
    <2> DEFINE size == BytesPerMsec * DumpMsec(cur)
    <2>1. /\ cur \in Inputs /\ out[cur] \in Nat /\ rb[cur] \in Nat
          /\ Line(cur) = out[cur] + rb[cur]
          /\ seen \in Nat /\ out[cur] <= seen /\ seen <= Quantum
          /\ Quantum \in Nat /\ size \in Nat
      BY <1>0, <1>7, Sizes DEF CutPart, CutAll, CutNothing, Line, InTransit,
         TypeOK, SampleValid
    <2>2. \A j \in Inputs \ {cur} : Line(j)' = Line(j)
      BY <1>0, <1>7 DEF CutPart, CutAll, CutNothing, Line, InTransit, TypeOK
    <2>3. /\ Line(cur)' \in 0 .. Line(cur)
          /\ Line(cur) - Line(cur)' <= size
          /\ Line(cur)' = 0 \/ Line(cur) - Line(cur)' >= size - Quantum
      <3>1. CASE CutPart
        <4>1. /\ DumpBytes(cur) \in Nat /\ DumpBytes(cur) <= rb[cur]
              /\ DumpBytes(cur) + seen = size
          BY <1>0, <3>1, DumpPositive DEF CutPart
        <4>2. Line(cur)' = rb[cur] - DumpBytes(cur)
          BY <1>0, <2>1, <3>1, <4>1 DEF CutPart, Line, InTransit, TypeOK
        <4> QED BY <2>1, <4>1, <4>2
      <3>2. CASE CutAll
        <4>1. /\ DumpBytes(cur) \in Nat /\ DumpBytes(cur) > rb[cur]
              /\ DumpBytes(cur) + seen = size
          BY <1>0, <3>2, DumpPositive DEF CutAll
        <4>2. Line(cur)' = 0
          BY <1>0, <2>1, <3>2 DEF CutAll, Line, InTransit, TypeOK
        <4> QED BY <2>1, <4>1, <4>2
      <3>3. CASE CutNothing
        <4> DEFINE q == seen \div BytesPerMsec
        <4>1. Line(cur)' = Line(cur)
          BY <3>3 DEF CutNothing, Line, InTransit
        <4>2. DumpMsec(cur) \in Nat /\ BytesPerMsec \in Nat \ {0}
          BY <2>1, Sizes
        <4>3. q \in Nat /\ BytesPerMsec * q <= seen /\ DumpMsec(cur) <= q
          BY <2>1, <3>3, <4>2, DivisionBounds DEF CutNothing, DumpApplies
        <4>4. size <= BytesPerMsec * q /\ BytesPerMsec * q \in Nat
          BY <4>2, <4>3
        <4>5. size <= Quantum
          BY <2>1, <4>3, <4>4
        <4> HIDE DEF size
        <4> QED BY <2>1, <4>1, <4>5
      <3> QED BY <1>7, <3>1, <3>2, <3>3
    <2>4. /\ ~ AbsCutting[cur] /\ AbsMode[cur] # "Exited"
          /\ AbsMode' = AbsMode
          /\ AbsCutting' = [AbsCutting EXCEPT ![cur] = TRUE]
      <3>1. /\ pc = "cut" /\ pc' = "clear" /\ cur' = cur
            /\ delay_state_taken' = delay_state_taken
        BY <1>7 DEF CutPart, CutAll, CutNothing
      <3> QED BY <1>0, <2>1, <3>1 DEF AbsCutting, AbsMode, Writing,
             TakesOwnStates, Dumpable
    <2>5. AbsLine' = [AbsLine EXCEPT ![cur] = Line(cur)']
      <3>1. cur' = cur
        BY <1>7 DEF CutPart, CutAll, CutNothing
      <3> QED BY <2>1, <2>2, <3>1 DEF AbsLine
    <2>6. DL!Dump(cur)
      <3> HIDE DEF size
      <3>1. AbsLine[cur] = Line(cur)
        BY <2>1 DEF AbsLine
      <3>2. [i \in Inputs |-> BytesPerMsec * DumpMsec(i)][cur] = size
        BY <2>1 DEF size
      <3> QED BY <2>1, <2>3, <2>4, <2>5, <3>1, <3>2
              DEF DL!Dump, AbsLine, AbsMode, AbsCutting
    <2> QED BY <2>1, <2>6 DEF DL!LineNext
  <1>8. CASE DumpRetake
    <2>1. \A i \in Inputs : Line(i)' = Line(i)
      BY <1>8 DEF DumpRetake, Line, InTransit
    <2>2. AbsLine' = AbsLine
      BY <2>1 DEF AbsLine
    <2>3. /\ AbsCutting[cur]
          /\ AbsCutting' = [AbsCutting EXCEPT ![cur] = FALSE]
      BY <1>0, <1>8 DEF DumpRetake, AbsCutting, Writing, TypeOK
    <2>4. AbsMode' = [AbsMode EXCEPT ![cur] =
                        StateAfterDump(@, delay_interval[cur])]
      BY <1>0, <1>8 DEF DumpRetake, AbsMode, TypeOK
    <2>5. AbsMode[cur] \in {"Entering", "Entered", "Exiting"}
      BY <1>0, <1>8 DEF DumpRetake, AbsMode, TakesOwnStates, Dumpable, TypeOK
    <2>6. PICK c \in Inputs : c = cur
      BY <1>0 DEF TypeOK
    <2>7. DL!AfterDump(c)
      BY <2>2, <2>3, <2>4, <2>5, <2>6
         DEF DL!AfterDump, StateAfterDump, AbsLine, AbsMode, AbsCutting
    <2> QED BY <2>7 DEF DL!LineNext
  <1>9. ASSUME NEW new \in OwnStates, cur \in Inputs, cur' = cur,
               delay_state_taken' = [delay_state_taken EXCEPT ![cur] = new],
               DL!Follows(delay_state_taken[cur], new),
               \A i \in Inputs : Line(i)' = Line(i),
               pc \notin {"init", "clear", "retake"},
               pc' \notin {"init", "clear", "retake"}
        PROVE  DL!LineNext
    <2>1. AbsLine' = AbsLine
      BY <1>9 DEF AbsLine
    <2>2. AbsCutting' = AbsCutting /\ ~ AbsCutting[cur]
      BY <1>9 DEF AbsCutting, Writing
    <2>3. AbsMode' = [AbsMode EXCEPT ![cur] = new]
          /\ AbsMode[cur] = delay_state_taken[cur]
      BY <1>0, <1>9 DEF AbsMode, TypeOK
    <2>4. PICK c \in Inputs : c = cur
      BY <1>9
    <2>5. DL!Change(c)
      BY <1>9, <2>1, <2>2, <2>3, <2>4
         DEF DL!Change, DL!Modes, OwnStates, AbsLine, AbsMode, AbsCutting
    <2> QED BY <2>5 DEF DL!LineNext
  <1>10. ASSUME Refill, pc' \in {"full", "entering", "zero", "exiting", "output"}
         PROVE  /\ \A i \in Inputs : Line(i)' = Line(i)
                /\ pc \notin {"init", "clear", "retake"} /\ cur' = cur
                /\ cur \in Inputs
    <2>1. out[cur] <= Quantum /\ cur \in Inputs
      BY <1>0, <1>10, Sizes DEF Refill, IndInv, BufferBounds, InTransit, TypeOK
    <2>2. BytesRead(cur) \in Nat
      BY <1>0, <2>1, ReadFits
    <2>3. \A i \in Inputs : Line(i)' = Line(i)
      BY <1>0, <1>10, <2>1, <2>2 DEF Refill, Line, InTransit, TypeOK
    <2> QED BY <1>10, <2>1, <2>3 DEF Refill
  <1>11. CASE EnterRamp \/ EnterHold \/ ExitRamp \/ ExitHold \/ Bypass
    <2>1. /\ Refill /\ pc' \in {"entering", "exiting", "output"}
          /\ delay_state_taken' = delay_state_taken
      BY <1>11 DEF EnterRamp, EnterHold, ExitRamp, ExitHold, Bypass
    <2> QED BY <1>10, <2>1, SameAbstract DEF Writing
  <1>12. CASE EnterReached
    <2>1. Refill /\ pc' = "full"
      BY <1>12 DEF EnterReached
    <2> QED BY <1>9, <1>10, <1>12, <2>1 DEF EnterReached, OwnStates, DL!Follows
  <1>13. CASE ExitReached
    <2>1. Refill /\ pc' = "zero"
      BY <1>13 DEF ExitReached
    <2> QED BY <1>9, <1>10, <1>13, <2>1 DEF ExitReached, OwnStates, DL!Follows
  <1>14. CASE StoreFull \/ StoreZero
    <2>1. \A i \in Inputs : Line(i)' = Line(i)
      BY <1>14 DEF StoreFull, StoreZero, StoreInterval, Line, InTransit
    <2> QED BY <1>14, <2>1, SameAbstract
            DEF StoreFull, StoreZero, StoreInterval, Writing
  <1>15. CASE StoreEntering \/ StoreExiting
    <2>1. \A i \in Inputs : Line(i)' = Line(i)
      BY <1>15 DEF StoreEntering, StoreExiting, StoreTaken, Line, InTransit
    <2>2. CASE StoreEntering
      BY <1>0, <1>9, <2>1, <2>2 DEF StoreEntering, StoreTaken, OwnStates,
         TakesOwnStates, DL!Follows, TypeOK
    <2>3. CASE StoreExiting
      BY <1>0, <1>9, <2>1, <2>3 DEF StoreExiting, StoreTaken, OwnStates,
         TakesOwnStates, DL!Follows, TypeOK
    <2> QED BY <1>15, <2>2, <2>3
  <1>16. CASE Output
    <2>1. \A i \in Inputs : Line(i)' = Line(i)
      BY <1>0, <1>16 DEF Output, Line, InTransit, TypeOK
    <2> QED BY <1>16, <2>1, SameAbstract DEF Output, Writing
  <1> QED
    BY <1>1, <1>2, <1>3, <1>4, <1>5, <1>6, <1>7, <1>8, <1>11, <1>12, <1>13,
       <1>14, <1>15, <1>16 DEF Next, AudioCallback, AudioDump, DL!LineNext

(* Whatever the number of inputs and the sizes: audio leaves a line only by *)
(* being played or by a dump of the right size, and the reported state      *)
(* gives up a full delay only for a dump or for an exit.                    *)
THEOREM Refinement == Spec => ImplementsDelayLine
  BY RefineInit, RefineStep, IndInvariant, PTL
     DEF Spec, ImplementsDelayLine, DL!LineSpec

-----------------------------------------------------------------------------
(* What a scan does is nothing to the engine.                              *)
LEMMA ScanSimulates == [ScanNext]_allVars => [Next]_vars
<1> SUFFICES ASSUME [ScanNext]_allVars PROVE [Next]_vars
  OBVIOUS
<1>1. CASE Slots \/ Others
  BY <1>1 DEF Slots, Others, Next
<1>2. CASE ScanTimer
  BY <1>2 DEF ScanTimer, ScanInterval, ScanState
<1>3. CASE UNCHANGED allVars
  BY <1>3 DEF allVars
<1> QED BY <1>1, <1>2, <1>3 DEF ScanNext

(***************************************************************************)
(* The engine beside scanTimerData() does what the engine alone may do.    *)
(***************************************************************************)
THEOREM ScanImplementsEngine == ScanSpec => Spec
<1>1. ScanInit => Init
  BY DEF ScanInit
<1> QED BY <1>1, ScanSimulates, PTL DEF ScanSpec, Spec

(***************************************************************************)
(* Scanned or not, the engine is a delay line (DelayLine).                 *)
(***************************************************************************)
THEOREM ScanImplementsLine == ScanSpec => ImplementsDelayLine
BY ScanImplementsEngine, Refinement, PTL

-----------------------------------------------------------------------------
(* The slots of the main thread exclude one another; the members that the  *)
(* scan reads are of the type of its copies.                               *)
ScanTypes ==
  /\ hpi_delay_state \in [Inputs -> DelayStates]
  /\ hpi_delay_interval \in [Inputs -> 0 .. Word - 1]
  /\ scanning \in Inputs \cup {None}
  /\ scanning = None \/ dumping = None

LEMMA NotDumping ==
  ASSUME AudioCallback \/ \E i \in Inputs : Play(i)
  PROVE  dumping' = dumping
<1>1. CASE \E i \in Inputs : Play(i)
  BY <1>1 DEF Play
<1>2. CASE ThreadInit \/ Capture \/ SkipDump \/ AudioDump \/ DumpRetake
  BY <1>2 DEF ThreadInit, Capture, SkipDump, AudioDump, DumpInfo, CutPart,
              CutAll, CutNothing, DumpClear, DumpRetake, audio
<1>3. CASE Refill
  BY <1>3 DEF Refill
<1>4. CASE StoreFull \/ StoreEntering \/ StoreZero \/ StoreExiting
  BY <1>4 DEF StoreFull, StoreEntering, StoreZero, StoreExiting,
              StoreInterval, StoreTaken
<1>5. CASE Output
  BY <1>5 DEF Output
<1> QED BY <1>1, <1>2, <1>3, <1>4, <1>5
        DEF AudioCallback, EnterReached, EnterRamp, EnterHold, ExitReached,
            ExitRamp, ExitHold, Bypass

LEMMA ScanTypesStep ==
  ASSUME IndInv, ScanTypes, [ScanNext]_allVars
  PROVE  ScanTypes'
<1> USE DEF ScanTypes
<1>1. CASE Slots
  BY <1>1 DEF Slots, scanVars, reported
<1>2. CASE Others
  BY <1>2, NotDumping DEF Others, scanVars, reported
<1>3. CASE ScanInterval
  <2>1. delay_interval \in [Inputs -> 0 .. Word - 1] /\ scanning \in Inputs
    BY <1>3 DEF ScanInterval, IndInv, TypeOK
  <2> QED BY <1>3, <2>1 DEF ScanInterval, vars
<1>4. ASSUME NEW i \in Inputs, ScanState(i) PROVE ScanTypes'
  <2>1. delay_state_taken \in [Inputs -> DelayStates]
    BY DEF IndInv, TypeOK
  <2> QED BY <1>4, <2>1 DEF ScanState, vars
<1>5. CASE UNCHANGED allVars
  BY <1>5 DEF allVars, vars, scanVars, reported
<1> QED BY <1>1, <1>2, <1>3, <1>4, <1>5 DEF ScanNext, ScanTimer

(***************************************************************************)
(* Engine and copies keep their types, whatever the copies held at the     *)
(* start, and a scan that is half done and a dump that is half set are     *)
(* never under way together (MainObject's slots run to completion).        *)
(***************************************************************************)
THEOREM ScanTypeCorrect == ScanSpec => []ScanTypeOK
<1>1. ScanInit => ScanTypes
  BY DEF ScanInit, ScanTypes
<1>2. IndInv /\ ScanTypes => ScanTypeOK
  BY DEF IndInv, ScanTypes, ScanTypeOK
<1>3. IndInv /\ ScanTypes /\ [ScanNext]_allVars => ScanTypes'
  BY ScanTypesStep
<1>4. ScanSpec => []IndInv
  BY ScanImplementsEngine, IndInvariant, PTL
<1> QED BY <1>1, <1>2, <1>3, <1>4, PTL DEF ScanSpec
================================================================================
