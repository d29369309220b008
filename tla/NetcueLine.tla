------------------------------ MODULE NetcueLine ------------------------------
(***************************************************************************)
(* What the serial port promises of netcues: the line carries whole        *)
(* netcues, one after the other, and no character is lost, repeated or     *)
(* overtaken between the request to send it and its transmission.          *)
(***************************************************************************)
EXTENDS Integers, Sequences, SequencesExt, FiniteSetsExt

CONSTANTS
  Cues,       \* the netcues, each with its line end
  LineEnd

VARIABLE line   \* what was to be sent and is not yet transmitted

Init == line = <<>>

EndsOf(chars) == {k \in DOMAIN chars : chars[k] = LineEnd}

WholeCues(chars) ==
  /\ Last(chars) = LineEnd
  /\ \A e \in EndsOf(chars) :
       SubSeq(chars, 1 + Max({0} \cup {k \in EndsOf(chars) : k < e}), e) \in Cues

Send ==
  /\ IsStrictPrefix(line, line')
  /\ WholeCues(SubSeq(line', Len(line) + 1, Len(line')))

Transmit == line # <<>> /\ line' = Tail(line)

Next == Send \/ Transmit

Spec == Init /\ [][Next]_line
===============================================================================
