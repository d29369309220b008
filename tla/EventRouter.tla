----------------------------- MODULE EventRouter ------------------------------
(***************************************************************************)
(* The delayed forwarding of events by the GPIO, breakaway and CIC routers *)
(* (router_gpio.cpp, router_breakaway.cpp, router_cic.cpp): an event of an *)
(* input waits in the input's queue until it is as old as the input's      *)
(* audio delay, then goes to the outputs that carry that input.  The delay *)
(* is the interval last reported by delayStateChanged() and may grow,      *)
(* shrink or vanish while events wait.  The three routers share no state,  *)
(* so a behaviour is that of one of them, `kind'.                          *)
(*                                                                         *)
(* An event is its line and its age, in scan periods of 10 msecs; ages are *)
(* what the code's time stamps and currentDateTime() amount to while the   *)
(* wall clock is not stepped.  A negative interval, which a dump may leave *)
(* (DumpStopsAtZero of AudioDelay), makes every event due, as 0 does, and  *)
(* is 0 here.                                                              *)
(***************************************************************************)
EXTENDS Integers, Sequences

CONSTANTS
  Inputs, Outputs,
  Unconfigured,  \* outputs with no breakaway address and no CIC program code
  Lines,         \* the GPIO lines (or CIC codes, or breakaway lengths)
  Debounce,      \* the least that a timer of relayDebounceInterval() runs, in
                 \* periods (Qt's coarse timers: 95% of it); 0: no debouncing
  MaxInterval,   \* bound on the delay interval
  MaxWaiting,    \* bound on the events of an input that wait at once
  NoInput        \* an output that is OFF

ASSUME EventAssumption ==
  /\ Debounce \in Nat /\ MaxInterval \in Nat \ {0} /\ MaxWaiting \in Nat
  /\ NoInput \notin Inputs /\ Unconfigured \subseteq Outputs

VARIABLES
  kind,                   \* the router: "gpio", "breakaway" or "cic"
  gpio_events,            \* per input, the queue of waiting events
  gpio_delay_intervals,   \* per input, as last reported
  gpio_debounce_timers,   \* per input and line, the time left; 0: inactive
  router_crosspoints,     \* per output, its input
  scanned,                \* the scan of this period has run
  sent                    \* what the last scan sent: per output, line by line

vars == <<kind, gpio_events, gpio_delay_intervals, gpio_debounce_timers,
          router_crosspoints, scanned, sent>>

Kinds == {"gpio", "breakaway", "cic"}
Event == [line : Lines, age : Nat]
NothingSent == [o \in Outputs |-> <<>>]

Init ==
  /\ kind \in Kinds
  /\ gpio_events = [i \in Inputs |-> <<>>]
  /\ gpio_delay_intervals = [i \in Inputs |-> 0]
  /\ gpio_debounce_timers = [i \in Inputs |-> [l \in Lines |-> 0]]
  /\ router_crosspoints \in [Outputs -> Inputs \cup {NoInput}]
  /\ scanned = FALSE
  /\ sent = NothingSent

-----------------------------------------------------------------------------
Room(i) == Len(gpio_events[i]) < MaxWaiting
Push(i, l) ==
  gpio_events' = [gpio_events EXCEPT ![i] = Append(@, [line |-> l, age |-> 0])]

(* A wrong variant: the debounce timer is not started.                     *)
SendRelayUntimed(i, l) ==
  /\ kind = "gpio"
  /\ gpio_debounce_timers[i][l] = 0
  /\ Room(i)
  /\ Push(i, l)
  /\ UNCHANGED <<kind, gpio_delay_intervals, gpio_debounce_timers,
                 router_crosspoints, scanned, sent>>

(* A relay closure, reported by the RML protocol or the Livewire network.  *)
(* One that comes while the line's timer runs is dropped: a stuttering     *)
(* step; a timer that runs for longer drops more.                          *)
SendRelay(i, l) ==
  /\ kind = "gpio"
  /\ gpio_debounce_timers[i][l] = 0
  /\ Room(i)
  /\ gpio_debounce_timers' = [gpio_debounce_timers EXCEPT ![i][l] = Debounce]
  /\ Push(i, l)
  /\ UNCHANGED <<kind, gpio_delay_intervals, router_crosspoints, scanned, sent>>

(* The other routers queue every event.                                    *)
Enqueue(i, l) ==
  /\ Room(i)
  /\ Push(i, l)
  /\ UNCHANGED <<kind, gpio_delay_intervals, gpio_debounce_timers,
                 router_crosspoints, scanned, sent>>

SendBreakaway(i, l) == kind = "breakaway" /\ Enqueue(i, l)

(* A CIC datagram of four fields, from an input's address.                 *)
CicReceived(i, l) == kind = "cic" /\ Enqueue(i, l)

SetDelayState(i, msec) ==
  /\ gpio_delay_intervals' = [gpio_delay_intervals EXCEPT ![i] = msec]
  /\ UNCHANGED <<kind, gpio_events, gpio_debounce_timers, router_crosspoints,
                 scanned, sent>>

SetCrossPoint(o, i) ==
  /\ router_crosspoints' = [router_crosspoints EXCEPT ![o] = i]
  /\ UNCHANGED <<kind, gpio_events, gpio_delay_intervals, gpio_debounce_timers,
                 scanned, sent>>

(***************************************************************************)
(* scanTimerData(): from the front of each queue, everything that is old   *)
(* enough; the first event that is not holds back those behind it.         *)
(***************************************************************************)
(* A wrong variant: an event exactly as old as the delay is not sent.      *)
OlderThan(i, e) == e.age > gpio_delay_intervals[i]

OldEnough(i, e) == e.age >= gpio_delay_intervals[i]

(* A wrong variant: a scan takes one event at most.                        *)
DueCountOne(i) ==
  IF gpio_events[i] # <<>> /\ OldEnough(i, Head(gpio_events[i])) THEN 1 ELSE 0

DueCount(i) ==
  LET n == Len(gpio_events[i])
  IN  CHOOSE k \in 0 .. n :
        /\ \A j \in 1 .. k : OldEnough(i, gpio_events[i][j])
        /\ k = n \/ ~OldEnough(i, gpio_events[i][k + 1])

(* A wrong variant: the event behind those that are due is lost.           *)
RestShort(i) == SubSeq(gpio_events[i], DueCount(i) + 2, Len(gpio_events[i]))

Due(i) == SubSeq(gpio_events[i], 1, DueCount(i))
Rest(i) == SubSeq(gpio_events[i], DueCount(i) + 1, Len(gpio_events[i]))

(* To each output that carries the input at this moment, if what the       *)
(* router needs to send it there is configured.                            *)
SendsGpo(o) == kind = "gpio"
SendsBreakaway(o) == kind = "breakaway" /\ o \notin Unconfigured
SendsCic(o) == kind = "cic" /\ o \notin Unconfigured
Sends(o) == SendsGpo(o) \/ SendsBreakaway(o) \/ SendsCic(o)

LinesSent(o) ==
  IF router_crosspoints[o] \in Inputs /\ Sends(o)
    THEN LET due == Due(router_crosspoints[o])
         IN  [j \in DOMAIN due |-> due[j].line]
    ELSE <<>>

ScanTimer ==
  /\ ~scanned
  /\ scanned' = TRUE
  /\ sent' = [o \in Outputs |-> LinesSent(o)]
  /\ gpio_events' = [i \in Inputs |-> Rest(i)]
  /\ UNCHANGED <<kind, gpio_delay_intervals, gpio_debounce_timers,
                 router_crosspoints>>

(***************************************************************************)
(* A scan period passes.  The event loop is assumed to keep up with its    *)
(* 10 msec timer: no period passes without a scan.                         *)
(***************************************************************************)
Older(e) == [e EXCEPT !.age = @ + 1]
(* A wrong variant: a timer runs on below 0.                               *)
LessEndless(n) == n - 1

Less(n) == IF n > 0 THEN n - 1 ELSE 0

Tick ==
  /\ scanned
  /\ scanned' = FALSE
  /\ gpio_events' = [i \in Inputs |->
       [j \in DOMAIN gpio_events[i] |-> Older(gpio_events[i][j])]]
  /\ gpio_debounce_timers' = [i \in Inputs |-> [l \in Lines |->
       Less(gpio_debounce_timers[i][l])]]
  /\ sent' = NothingSent
  /\ UNCHANGED <<kind, gpio_delay_intervals, router_crosspoints>>

Next ==
  \/ \E i \in Inputs, l \in Lines :
       SendRelay(i, l) \/ SendBreakaway(i, l) \/ CicReceived(i, l)
  \/ \E i \in Inputs, m \in 0 .. MaxInterval : SetDelayState(i, m)
  \/ \E o \in Outputs, i \in Inputs \cup {NoInput} : SetCrossPoint(o, i)
  \/ ScanTimer
  \/ Tick

Spec == Init /\ [][Next]_vars

-----------------------------------------------------------------------------
(* The types; a debounce timer never runs past its interval or below 0.    *)
TypeOK ==
  /\ kind \in Kinds
  /\ gpio_events \in [Inputs -> Seq(Event)]
  /\ gpio_delay_intervals \in [Inputs -> 0 .. MaxInterval]
  /\ gpio_debounce_timers \in [Inputs -> [Lines -> 0 .. Debounce]]
  /\ router_crosspoints \in [Outputs -> Inputs \cup {NoInput}]
  /\ scanned \in BOOLEAN
  /\ sent \in [Outputs -> Seq(Lines)]

(***************************************************************************)
(* "Ignore any relay events received within this time interval after       *)
(* reception of the initial event" (lwnetrouter-sample.conf:104): two      *)
(* waiting relays of a line were received at least the debounce interval   *)
(* apart, whatever scans, changes of delay and timers came in between.     *)
(***************************************************************************)
Debounced ==
  kind = "gpio" => \A i \in Inputs : \A j, k \in DOMAIN gpio_events[i] :
    j < k /\ gpio_events[i][j].line = gpio_events[i][k].line
      => gpio_events[i][j].age - gpio_events[i][k].age >= Debounce

(***************************************************************************)
(* The queue is searched from the front only, so one young event would     *)
(* hold back older ones behind it.  It never does: after a scan nothing    *)
(* that waits is old enough, even when the delay was dumped or replaced    *)
(* while it waited.                                                        *)
(***************************************************************************)
NothingOverdue ==
  [][ ScanTimer =>
        \A i \in Inputs : \A j \in DOMAIN gpio_events'[i] :
          ~OldEnough(i, gpio_events'[i][j]) ]_vars

(***************************************************************************)
(* A scan sends to an output, in the order of reception, exactly the       *)
(* events that leave the queue of the input it carries, and nothing of any *)
(* other input: none is lost, repeated or overtaken when several are due   *)
(* at once after a dump.                                                   *)
(***************************************************************************)
SentAsReceived ==
  [][ ScanTimer =>
        \A o \in Outputs :
          LET i == router_crosspoints[o]
          IN  IF i \in Inputs /\ (kind = "gpio" \/ o \notin Unconfigured)
              THEN sent'[o] \o [j \in DOMAIN gpio_events'[i] |->
                                  gpio_events'[i][j].line]
                     = [j \in DOMAIN gpio_events[i] |-> gpio_events[i][j].line]
              ELSE sent'[o] = <<>> ]_vars

(***************************************************************************)
(* No event is held for longer than the largest delay, however the delay   *)
(* changes while it waits: the age an event may reach is bounded.          *)
(***************************************************************************)
NoneForgotten ==
  \A i \in Inputs : \A j \in DOMAIN gpio_events[i] :
    gpio_events[i][j].age <= MaxInterval
===============================================================================
