--------------------------- MODULE EventRouterProofs ---------------------------
(* Theorems about EventRouter, for any inputs, outputs, lines, delays and  *)
(* debounce interval.                                                      *)
EXTENDS EventRouter, FiniteRecursion, SequenceTheorems, TLAPS

(* Events wait in the order of their reception.                            *)
Ordered ==
  \A i \in Inputs : \A j, k \in DOMAIN gpio_events[i] :
    j < k => gpio_events[i][j].age >= gpio_events[i][k].age

(* The timer of a line runs until its last event is old enough.            *)
TimersRun ==
  kind = "gpio" => \A i \in Inputs : \A j \in DOMAIN gpio_events[i] :
    gpio_events[i][j].age
      + gpio_debounce_timers[i][gpio_events[i][j].line] >= Debounce

(* What a scan leaves may grow older by one period.                        *)
ScanLeavesYoung ==
  scanned => \A i \in Inputs : \A j \in DOMAIN gpio_events[i] :
    gpio_events[i][j].age < MaxInterval

IndInv ==
  /\ TypeOK
  /\ Ordered
  /\ TimersRun
  /\ ScanLeavesYoung
  /\ Debounced
  /\ NoneForgotten

-----------------------------------------------------------------------------
(* What waits at an input.                                                 *)
LEMMA Waiting ==
  ASSUME TypeOK, NEW i \in Inputs
  PROVE  LET s == gpio_events[i]
         IN  /\ s \in Seq(Event) /\ Len(s) \in Nat /\ DOMAIN s = 1 .. Len(s)
             /\ \A j \in DOMAIN s : /\ s[j] \in Event
                                   /\ s[j].age \in Nat /\ s[j].line \in Lines
<1>1. gpio_events[i] \in Seq(Event)
  BY DEF TypeOK
<1>2. \A e \in Event : e.age \in Nat /\ e.line \in Lines
  BY DEF Event
<1> QED BY <1>1, <1>2

(* The search from the front stops at the first event that is too young.   *)
LEMMA DueCountIs ==
  ASSUME TypeOK, NEW i \in Inputs
  PROVE  LET n == Len(gpio_events[i])
         IN  /\ DueCount(i) \in 0 .. n
             /\ \A j \in 1 .. DueCount(i) : OldEnough(i, gpio_events[i][j])
             /\ DueCount(i) = n
                  \/ ~OldEnough(i, gpio_events[i][DueCount(i) + 1])
<1> DEFINE n == Len(gpio_events[i])
           young == {j \in 1 .. n : ~OldEnough(i, gpio_events[i][j])}
           first(k) == /\ \A j \in 1 .. k : OldEnough(i, gpio_events[i][j])
                       /\ k = n \/ ~OldEnough(i, gpio_events[i][k + 1])
<1>1. n \in Nat
  BY DEF TypeOK
<1>2. \E k \in 0 .. n : first(k)
  <2>1. CASE young = {}
    <3>1. first(n)
      BY <2>1, <1>1
    <3> QED BY <3>1, <1>1
  <2>2. CASE young # {}
    <3>1. PICK x \in young : \A y \in young : x <= y
      <4>1. young \subseteq Nat
        BY <1>1
      <4> HIDE DEF young
      <4> QED BY <2>2, <4>1, Least
    <3>2. x \in 1 .. n /\ ~OldEnough(i, gpio_events[i][x])
      BY <3>1
    <3>3. \A j \in 1 .. x - 1 : OldEnough(i, gpio_events[i][j])
      BY <3>1, <3>2, <1>1
    <3>4. x - 1 \in 0 .. n /\ (x - 1) + 1 = x
      BY <3>2, <1>1
    <3>5. first(x - 1)
      BY <3>2, <3>3, <3>4
    <3> QED BY <3>4, <3>5
  <2> QED BY <2>1, <2>2
<1>3. DueCount(i) = CHOOSE k \in 0 .. n : first(k)
  BY DEF DueCount
<1> HIDE DEF n, first
<1>4. DueCount(i) \in 0 .. n /\ first(DueCount(i))
  BY <1>2, <1>3
<1> QED BY <1>4 DEF n, first

(* What a scan leaves in a queue, and what it takes from it.               *)
LEMMA RestIs ==
  ASSUME TypeOK, NEW i \in Inputs
  PROVE  LET n == Len(gpio_events[i])
             d == DueCount(i)
         IN  /\ Rest(i) \in Seq(Event)
             /\ DOMAIN Rest(i) = 1 .. n - d
             /\ \A j \in 1 .. n - d : /\ d + j \in DOMAIN gpio_events[i]
                                      /\ Rest(i)[j] = gpio_events[i][d + j]
             /\ Due(i) \in Seq(Event)
             /\ DOMAIN Due(i) = 1 .. d
             /\ \A j \in 1 .. d : /\ j \in DOMAIN gpio_events[i]
                                  /\ Due(i)[j] = gpio_events[i][j]
<1> DEFINE s == gpio_events[i]
           n == Len(s)
           d == DueCount(i)
<1>1. s \in Seq(Event) /\ n \in Nat /\ DOMAIN s = 1 .. n /\ \A j \in 1 .. n : s[j] \in Event
  BY DEF TypeOK
<1>2. d \in 0 .. n
  BY DueCountIs
<1> HIDE DEF s, n, d
<1>3. /\ SubSeq(s, d + 1, n) \in Seq(Event)
      /\ Len(SubSeq(s, d + 1, n)) = n - d
      /\ \A j \in 1 .. n - d : SubSeq(s, d + 1, n)[j] = s[d + j]
  <2>1. \A j \in d + 1 .. n : s[j] \in Event
    BY <1>1, <1>2
  <2>2. /\ SubSeq(s, d + 1, n) \in Seq(Event)
        /\ Len(SubSeq(s, d + 1, n)) = IF d + 1 <= n THEN n - (d + 1) + 1 ELSE 0
        /\ \A j \in 1 .. n - (d + 1) + 1 : SubSeq(s, d + 1, n)[j] = s[(d + 1) + j - 1]
    BY <1>1, <1>2, <2>1, SubSeqProperties
  <2>3. n - (d + 1) + 1 = n - d /\ \A j \in Int : (d + 1) + j - 1 = d + j
    BY <1>1, <1>2
  <2> QED BY <1>1, <1>2, <2>2, <2>3
<1>4. /\ SubSeq(s, 1, d) \in Seq(Event)
      /\ Len(SubSeq(s, 1, d)) = d
      /\ \A j \in 1 .. d : SubSeq(s, 1, d)[j] = s[j]
  <2>1. \A j \in 1 .. d : s[j] \in Event
    BY <1>1, <1>2
  <2>2. /\ SubSeq(s, 1, d) \in Seq(Event)
        /\ Len(SubSeq(s, 1, d)) = IF 1 <= d THEN d - 1 + 1 ELSE 0
        /\ \A j \in 1 .. d - 1 + 1 : SubSeq(s, 1, d)[j] = s[1 + j - 1]
    BY <1>1, <1>2, <2>1, SubSeqProperties
  <2>3. d - 1 + 1 = d /\ \A j \in Int : 1 + j - 1 = j
    BY <1>1, <1>2
  <2> QED BY <1>1, <1>2, <2>2, <2>3
<1>5. Rest(i) = SubSeq(s, d + 1, n) /\ Due(i) = SubSeq(s, 1, d)
  BY DEF Rest, Due, s, n, d
<1>6. DOMAIN Rest(i) = 1 .. n - d /\ DOMAIN Due(i) = 1 .. d
  BY <1>3, <1>4, <1>5
<1>7. /\ \A j \in 1 .. n - d : d + j \in DOMAIN s
      /\ \A j \in 1 .. d : j \in DOMAIN s
  BY <1>1, <1>2
<1> QED BY <1>3, <1>4, <1>5, <1>6, <1>7 DEF s, n, d

LEMMA Appended ==
  ASSUME NEW s \in Seq(Event), NEW e \in Event
  PROVE  /\ Append(s, e) \in Seq(Event)
         /\ DOMAIN Append(s, e) = 1 .. Len(s) + 1
         /\ \A j \in DOMAIN s : Append(s, e)[j] = s[j]
         /\ Append(s, e)[Len(s) + 1] = e
OBVIOUS

-----------------------------------------------------------------------------
LEMMA InitInv == Init => IndInv
<1> SUFFICES ASSUME Init PROVE IndInv
  OBVIOUS
<1>1. \A i \in Inputs : gpio_events[i] = <<>>
  BY DEF Init
<1>2. TypeOK
  <2>1. gpio_events \in [Inputs -> Seq(Event)] /\ sent \in [Outputs -> Seq(Lines)]
    BY DEF Init, NothingSent
  <2>2. /\ gpio_delay_intervals \in [Inputs -> 0 .. MaxInterval]
        /\ gpio_debounce_timers \in [Inputs -> [Lines -> 0 .. Debounce]]
    BY EventAssumption DEF Init
  <2> QED BY <2>1, <2>2 DEF Init, TypeOK
<1> QED BY <1>1, <1>2
        DEF Init, IndInv, Ordered, TimersRun, ScanLeavesYoung, Debounced,
            NoneForgotten

(* An event is received: it is the youngest, and a relay's timer is set.   *)
LEMMA Received ==
  ASSUME IndInv, NEW i \in Inputs, NEW l \in Lines,
         SendRelay(i, l) \/ SendBreakaway(i, l) \/ CicReceived(i, l)
  PROVE  IndInv'
<1> DEFINE s == gpio_events[i]
           e == [line |-> l, age |-> 0]
<1>1. /\ gpio_events' = [gpio_events EXCEPT ![i] = Append(s, e)]
      /\ UNCHANGED <<kind, gpio_delay_intervals, router_crosspoints, scanned, sent>>
  BY DEF SendRelay, SendBreakaway, CicReceived, Enqueue, Push
<1>2. /\ s \in Seq(Event) /\ DOMAIN s = 1 .. Len(s) /\ Len(s) \in Nat
      /\ \A k \in DOMAIN s : s[k].age \in Nat /\ s[k].line \in Lines
      /\ gpio_events \in [Inputs -> Seq(Event)]
      /\ gpio_debounce_timers \in [Inputs -> [Lines -> 0 .. Debounce]]
  BY Waiting DEF IndInv, TypeOK
<1>3. e \in Event /\ e.age = 0 /\ e.line = l
  BY DEF Event
<1>4. /\ gpio_events'[i] = Append(s, e)
      /\ \A h \in Inputs \ {i} : gpio_events'[h] = gpio_events[h]
  BY <1>1, <1>2
<1> HIDE DEF s, e
<1>5. /\ Append(s, e) \in Seq(Event)
      /\ DOMAIN Append(s, e) = 1 .. Len(s) + 1
      /\ \A j \in DOMAIN s : Append(s, e)[j] = s[j]
      /\ Append(s, e)[Len(s) + 1] = e
  BY <1>2, <1>3, Appended
<1>6. \A j \in DOMAIN Append(s, e) : j \in DOMAIN s \/ j = Len(s) + 1
  BY <1>2, <1>5
<1>7. \/ /\ kind = "gpio" /\ gpio_debounce_timers[i][l] = 0
         /\ gpio_debounce_timers' =
              [gpio_debounce_timers EXCEPT ![i][l] = Debounce]
      \/ kind # "gpio" /\ UNCHANGED gpio_debounce_timers
  BY DEF SendRelay, SendBreakaway, CicReceived, Enqueue
<1>8. gpio_debounce_timers' \in [Inputs -> [Lines -> 0 .. Debounce]]
  <2>1. Debounce \in 0 .. Debounce
    BY EventAssumption
  <2>2. gpio_debounce_timers[i] \in [Lines -> 0 .. Debounce]
    BY <1>2
  <2>3. [gpio_debounce_timers[i] EXCEPT ![l] = Debounce] \in [Lines -> 0 .. Debounce]
    BY <2>1, <2>2
  <2> QED BY <1>2, <1>7, <2>3
<1>9. TypeOK'
  BY <1>1, <1>2, <1>5, <1>8 DEF IndInv, TypeOK, s
<1>10. Ordered'
  <2>1. \A j, k \in DOMAIN Append(s, e) :
          j < k => Append(s, e)[j].age >= Append(s, e)[k].age
    BY <1>2, <1>3, <1>5 DEF IndInv, Ordered, s
  <2> QED BY <1>4, <2>1 DEF IndInv, Ordered
<1>11. TimersRun'
  <2> SUFFICES ASSUME kind = "gpio",
                      NEW h \in Inputs, NEW j \in DOMAIN gpio_events'[h]
               PROVE  gpio_events'[h][j].age
                        + gpio_debounce_timers'[h][gpio_events'[h][j].line]
                        >= Debounce
    BY <1>1 DEF TimersRun
  <2>1. gpio_debounce_timers' =
          [gpio_debounce_timers EXCEPT ![i][l] = Debounce]
    BY <1>7
  <2>2. CASE h # i
    BY <1>2, <1>4, <2>1, <2>2 DEF IndInv, TimersRun
  <2>3. CASE h = i /\ j = Len(s) + 1
    BY <1>2, <1>3, <1>4, <1>5, <2>1, <2>3, EventAssumption
  <2>4. CASE h = i /\ j \in DOMAIN s
    <3>1. gpio_events'[h][j] = s[j] /\ s[j].age \in Nat /\ s[j].line \in Lines
      BY <1>2, <1>4, <1>5, <2>4
    <3>2. s[j].age + gpio_debounce_timers[i][s[j].line] >= Debounce
      BY <2>4 DEF IndInv, TimersRun, s
    <3>3. gpio_debounce_timers'[i][s[j].line] >= gpio_debounce_timers[i][s[j].line]
      BY <1>2, <2>1, <3>1, EventAssumption
    <3>4. /\ gpio_debounce_timers[i][s[j].line] \in Nat
          /\ gpio_debounce_timers'[i][s[j].line] \in Nat
      BY <1>2, <1>8, <3>1, EventAssumption
    <3> QED BY <2>4, <3>1, <3>2, <3>3, <3>4, EventAssumption
  <2> QED BY <1>4, <1>6, <2>2, <2>3, <2>4
<1>12. ScanLeavesYoung'
  <2>1. scanned => \A j \in DOMAIN Append(s, e) : Append(s, e)[j].age < MaxInterval
    BY <1>3, <1>5, <1>6, EventAssumption DEF IndInv, ScanLeavesYoung, s
  <2> QED BY <1>1, <1>4, <2>1 DEF IndInv, ScanLeavesYoung
<1>13. NoneForgotten'
  <2>1. \A j \in DOMAIN Append(s, e) : Append(s, e)[j].age <= MaxInterval
    BY <1>3, <1>5, <1>6, EventAssumption DEF IndInv, NoneForgotten, s
  <2> QED BY <1>4, <2>1 DEF IndInv, NoneForgotten
<1>14. Debounced'
  <2> SUFFICES ASSUME kind = "gpio", NEW h \in Inputs,
                      NEW j \in DOMAIN gpio_events'[h],
                      NEW k \in DOMAIN gpio_events'[h],
                      j < k, gpio_events'[h][j].line = gpio_events'[h][k].line
               PROVE  gpio_events'[h][j].age - gpio_events'[h][k].age >= Debounce
    BY <1>1 DEF Debounced
  <2>1. CASE h # i
    BY <1>4, <2>1 DEF IndInv, Debounced
  <2>2. CASE h = i /\ k \in DOMAIN s
    <3>1. j \in DOMAIN s
      BY <1>2, <1>4, <1>5, <2>2
    <3> QED BY <1>4, <1>5, <2>2, <3>1 DEF IndInv, Debounced, s
  <2>3. CASE h = i /\ k = Len(s) + 1
    <3>1. j \in DOMAIN s /\ gpio_events'[h][j] = s[j] /\ gpio_events'[h][k] = e
      BY <1>2, <1>4, <1>5, <2>3
    <3>2. s[j].line = l
      BY <1>3, <3>1
    <3>3. s[j].age + gpio_debounce_timers[i][l] >= Debounce
      BY <3>1, <3>2 DEF IndInv, TimersRun, s
    <3> QED BY <1>2, <1>3, <1>7, <3>1, <3>3, EventAssumption
  <2> QED BY <1>4, <1>6, <2>1, <2>2, <2>3
<1> QED BY <1>9, <1>10, <1>11, <1>12, <1>13, <1>14 DEF IndInv

LEMMA Settings ==
  ASSUME IndInv,
         \/ \E i \in Inputs, m \in 0 .. MaxInterval : SetDelayState(i, m)
         \/ \E o \in Outputs, i \in Inputs \cup {NoInput} : SetCrossPoint(o, i)
  PROVE  IndInv'
<1>1. UNCHANGED <<kind, gpio_events, gpio_debounce_timers, scanned, sent>>
  BY DEF SetDelayState, SetCrossPoint
<1>2. /\ gpio_delay_intervals' \in [Inputs -> 0 .. MaxInterval]
      /\ router_crosspoints' \in [Outputs -> Inputs \cup {NoInput}]
  BY DEF SetDelayState, SetCrossPoint, IndInv, TypeOK
<1> QED BY <1>1, <1>2
        DEF IndInv, TypeOK, Ordered, TimersRun, ScanLeavesYoung, Debounced,
            NoneForgotten

(* After a scan nothing that waits is old enough.                          *)
LEMMA RestYoung ==
  ASSUME IndInv, NEW i \in Inputs, NEW j \in DOMAIN Rest(i)
  PROVE  ~OldEnough(i, Rest(i)[j])
<1> DEFINE s == gpio_events[i]
           n == Len(s)
           d == DueCount(i)
<1>1. /\ TypeOK /\ n \in Nat /\ d \in 0 .. n /\ DOMAIN s = 1 .. n
      /\ \A k \in DOMAIN s : s[k].age \in Nat
      /\ gpio_delay_intervals[i] \in 0 .. MaxInterval
  BY DueCountIs, Waiting DEF IndInv, TypeOK
<1>2. j \in 1 .. n - d /\ d + j \in DOMAIN s /\ Rest(i)[j] = s[d + j]
  BY <1>1, RestIs
<1>3. d # n /\ d + 1 \in DOMAIN s
  BY <1>1, <1>2
<1>4. ~OldEnough(i, s[d + 1])
  BY <1>1, <1>3, DueCountIs
<1>5. s[d + 1].age >= s[d + j].age
  <2>1. CASE j = 1
    BY <1>1, <1>2, <2>1
  <2>2. CASE j # 1
    <3>1. d + 1 < d + j
      BY <1>1, <1>2, <2>2
    <3> QED BY <1>2, <1>3, <3>1 DEF IndInv, Ordered
  <2> QED BY <2>1, <2>2
<1>6. s[d + 1].age \in Nat /\ s[d + j].age \in Nat
      /\ gpio_delay_intervals[i] \in Int
  BY <1>1, <1>2, <1>3
<1> HIDE DEF s, d
<1> QED BY <1>2, <1>4, <1>5, <1>6 DEF OldEnough

LEMMA LinesOfDue ==
  ASSUME TypeOK, NEW o \in Outputs
  PROVE  LinesSent(o) \in Seq(Lines)
<1>1. CASE router_crosspoints[o] \in Inputs /\ Sends(o)
  <2> DEFINE i == router_crosspoints[o]
             d == DueCount(i)
  <2>1. /\ d \in Nat /\ DOMAIN Due(i) = 1 .. d
        /\ \A j \in 1 .. d : Due(i)[j] \in Event
    <3>1. d \in 0 .. Len(gpio_events[i]) /\ Len(gpio_events[i]) \in Nat
      BY <1>1, DueCountIs DEF TypeOK
    <3>2. Due(i) \in Seq(Event) /\ DOMAIN Due(i) = 1 .. d
      BY <1>1, RestIs
    <3> QED BY <3>1, <3>2
  <2>2. LinesSent(o) = [j \in 1 .. d |-> Due(i)[j].line]
    BY <1>1, <2>1 DEF LinesSent
  <2>3. \A j \in 1 .. d : Due(i)[j].line \in Lines
    BY <2>1 DEF Event
  <2> HIDE DEF d, i
  <2> QED BY <2>1, <2>2, <2>3
<1>2. CASE ~(router_crosspoints[o] \in Inputs /\ Sends(o))
  BY <1>2 DEF LinesSent
<1> QED BY <1>1, <1>2

LEMMA Scan ==
  ASSUME IndInv, ScanTimer
  PROVE  IndInv'
<1>1. /\ gpio_events' = [i \in Inputs |-> Rest(i)]
      /\ sent' = [o \in Outputs |-> LinesSent(o)]
      /\ UNCHANGED <<kind, gpio_delay_intervals, gpio_debounce_timers,
                     router_crosspoints>>
      /\ scanned' = TRUE
  BY DEF ScanTimer
<1>2. TypeOK
  BY DEF IndInv
<1>3. TypeOK'
  BY <1>1, <1>2, RestIs, LinesOfDue DEF TypeOK
<1>4. ASSUME NEW i \in Inputs
      PROVE  /\ DueCount(i) \in Nat
             /\ \A j \in DOMAIN gpio_events'[i] :
                  /\ j \in Nat
                  /\ DueCount(i) + j \in DOMAIN gpio_events[i]
                  /\ gpio_events'[i][j] = gpio_events[i][DueCount(i) + j]
                  /\ gpio_events[i][DueCount(i) + j].age \in Nat
  <2>1. DueCount(i) \in 0 .. Len(gpio_events[i]) /\ Len(gpio_events[i]) \in Nat
    BY <1>2, DueCountIs DEF TypeOK
  <2>2. gpio_events'[i] = Rest(i)
    BY <1>1
  <2>3. \A j \in DOMAIN gpio_events[i] : gpio_events[i][j].age \in Nat
    BY <1>2, Waiting
  <2> QED BY <1>2, <2>1, <2>2, <2>3, RestIs
<1>5. Ordered'
  <2> SUFFICES ASSUME NEW i \in Inputs, NEW j \in DOMAIN gpio_events'[i],
                      NEW k \in DOMAIN gpio_events'[i], j < k
               PROVE  gpio_events'[i][j].age >= gpio_events'[i][k].age
    BY DEF Ordered
  <2>1. DueCount(i) + j < DueCount(i) + k
    BY <1>4
  <2> QED BY <1>4, <2>1 DEF IndInv, Ordered
<1>6. TimersRun'
  BY <1>1, <1>4 DEF IndInv, TimersRun
<1>7. Debounced'
  <2> SUFFICES ASSUME kind = "gpio", NEW i \in Inputs,
                      NEW j \in DOMAIN gpio_events'[i],
                      NEW k \in DOMAIN gpio_events'[i],
                      j < k, gpio_events'[i][j].line = gpio_events'[i][k].line
               PROVE  gpio_events'[i][j].age - gpio_events'[i][k].age >= Debounce
    BY <1>1 DEF Debounced
  <2>1. DueCount(i) + j < DueCount(i) + k
    BY <1>4
  <2> QED BY <1>4, <2>1 DEF IndInv, Debounced
<1>8. ScanLeavesYoung' /\ NoneForgotten'
  <2> SUFFICES ASSUME NEW i \in Inputs, NEW j \in DOMAIN gpio_events'[i]
               PROVE  /\ gpio_events'[i][j].age < MaxInterval
                      /\ gpio_events'[i][j].age <= MaxInterval
    BY DEF ScanLeavesYoung, NoneForgotten
  <2>1. ~OldEnough(i, gpio_events'[i][j])
    BY <1>1, RestYoung
  <2>2. gpio_events'[i][j].age \in Nat
    BY <1>4
  <2>3. gpio_delay_intervals[i] \in 0 .. MaxInterval
    BY <1>2 DEF TypeOK
  <2> QED BY <2>1, <2>2, <2>3, EventAssumption DEF OldEnough
<1> QED BY <1>3, <1>5, <1>6, <1>7, <1>8 DEF IndInv

LEMMA Period ==
  ASSUME IndInv, Tick
  PROVE  IndInv'
<1>1. /\ scanned /\ scanned' = FALSE
      /\ gpio_events' = [i \in Inputs |->
           [j \in DOMAIN gpio_events[i] |-> Older(gpio_events[i][j])]]
      /\ gpio_debounce_timers' = [i \in Inputs |-> [l \in Lines |->
           Less(gpio_debounce_timers[i][l])]]
      /\ sent' = NothingSent
      /\ UNCHANGED <<kind, gpio_delay_intervals, router_crosspoints>>
  BY DEF Tick
<1>2. ASSUME NEW i \in Inputs
      PROVE  /\ DOMAIN gpio_events'[i] = DOMAIN gpio_events[i]
             /\ gpio_events'[i] \in Seq(Event)
             /\ \A j \in DOMAIN gpio_events[i] :
                  /\ gpio_events[i][j].age \in Nat
                  /\ gpio_events[i][j].line \in Lines
                  /\ gpio_events'[i][j].age = gpio_events[i][j].age + 1
                  /\ gpio_events'[i][j].line = gpio_events[i][j].line
  <2>1. gpio_events[i] \in Seq(Event)
    BY DEF IndInv, TypeOK
  <2>2. gpio_events'[i] = [j \in 1 .. Len(gpio_events[i]) |-> Older(gpio_events[i][j])]
    BY <1>1, <2>1
  <2>3. \A e \in Event : /\ Older(e) \in Event
                         /\ e.age \in Nat /\ e.line \in Lines
                         /\ Older(e).age = e.age + 1
                         /\ Older(e).line = e.line
    BY DEF Event, Older
  <2>4. \A j \in DOMAIN gpio_events[i] : gpio_events[i][j] \in Event
    BY <2>1
  <2>5. Len(gpio_events[i]) \in Nat /\ DOMAIN gpio_events[i] = 1 .. Len(gpio_events[i])
    BY <2>1
  <2> QED BY <2>2, <2>3, <2>4, <2>5
<1>3. ASSUME NEW i \in Inputs, NEW l \in Lines
      PROVE  /\ gpio_debounce_timers[i][l] \in 0 .. Debounce
             /\ gpio_debounce_timers'[i][l] = Less(gpio_debounce_timers[i][l])
             /\ Less(gpio_debounce_timers[i][l]) \in 0 .. Debounce
             /\ Less(gpio_debounce_timers[i][l]) + 1 >= gpio_debounce_timers[i][l]
  <2>1. gpio_debounce_timers[i][l] \in 0 .. Debounce
    BY DEF IndInv, TypeOK
  <2> QED BY <1>1, <2>1, EventAssumption DEF Less
<1>4. TypeOK'
  <2>1. gpio_events' \in [Inputs -> Seq(Event)]
    BY <1>1, <1>2
  <2>2. gpio_debounce_timers' \in [Inputs -> [Lines -> 0 .. Debounce]]
    BY <1>1, <1>3
  <2>3. sent' \in [Outputs -> Seq(Lines)]
    BY <1>1 DEF NothingSent
  <2> QED BY <1>1, <2>1, <2>2, <2>3 DEF IndInv, TypeOK
<1>5. Ordered'
  BY <1>2 DEF IndInv, Ordered
<1>6. Debounced'
  <2> SUFFICES ASSUME kind = "gpio", NEW i \in Inputs,
                      NEW j \in DOMAIN gpio_events[i],
                      NEW k \in DOMAIN gpio_events[i],
                      j < k, gpio_events[i][j].line = gpio_events[i][k].line
               PROVE  gpio_events'[i][j].age - gpio_events'[i][k].age >= Debounce
    <3>1. \A i \in Inputs : DOMAIN gpio_events'[i] = DOMAIN gpio_events[i]
      BY <1>2
    <3>2. \A i \in Inputs : \A j \in DOMAIN gpio_events[i] :
            gpio_events'[i][j].line = gpio_events[i][j].line
      BY <1>2
    <3>3. kind' = kind
      BY <1>1
    <3> QED BY <3>1, <3>2, <3>3 DEF Debounced
  <2>1. gpio_events[i][j].age - gpio_events[i][k].age >= Debounce
    BY DEF IndInv, Debounced
  <2> QED BY <1>2, <2>1, EventAssumption
<1>7. TimersRun'
  <2> SUFFICES ASSUME kind = "gpio", NEW i \in Inputs,
                      NEW j \in DOMAIN gpio_events[i]
               PROVE  gpio_events'[i][j].age
                        + gpio_debounce_timers'[i][gpio_events'[i][j].line]
                        >= Debounce
    BY <1>1, <1>2 DEF TimersRun
  <2> DEFINE l == gpio_events[i][j].line
             t == gpio_debounce_timers[i][l]
             a == gpio_events[i][j].age
  <2>1. a + t >= Debounce
    BY DEF IndInv, TimersRun
  <2>2. /\ l \in Lines /\ a \in Nat
        /\ gpio_events'[i][j].age = a + 1 /\ gpio_events'[i][j].line = l
    BY <1>2
  <2>3. gpio_debounce_timers'[i][l] = Less(t) /\ Less(t) + 1 >= t
        /\ t \in 0 .. Debounce /\ Less(t) \in 0 .. Debounce
    BY <1>3, <2>2
  <2> HIDE DEF l, t, a
  <2>4. (a + 1) + Less(t) >= Debounce
    BY <2>1, <2>2, <2>3, EventAssumption
  <2> QED BY <2>2, <2>3, <2>4
<1>8. ScanLeavesYoung' /\ NoneForgotten'
  <2>1. \A i \in Inputs : \A j \in DOMAIN gpio_events'[i] :
          gpio_events'[i][j].age <= MaxInterval
    <3> SUFFICES ASSUME NEW i \in Inputs, NEW j \in DOMAIN gpio_events[i]
                 PROVE  gpio_events'[i][j].age <= MaxInterval
      BY <1>2
    <3>1. gpio_events[i][j].age < MaxInterval
      BY <1>1 DEF IndInv, ScanLeavesYoung
    <3> QED BY <1>2, <3>1, EventAssumption
  <2> QED BY <1>1, <2>1 DEF ScanLeavesYoung, NoneForgotten
<1> QED BY <1>4, <1>5, <1>6, <1>7, <1>8 DEF IndInv

(* The invariant is kept by every step.                                    *)
LEMMA IndStep == IndInv /\ [Next]_vars => IndInv'
<1> SUFFICES ASSUME IndInv, [Next]_vars PROVE IndInv'
  OBVIOUS
<1>1. CASE \E i \in Inputs, l \in Lines :
             SendRelay(i, l) \/ SendBreakaway(i, l) \/ CicReceived(i, l)
  BY <1>1, Received
<1>2. CASE \/ \E i \in Inputs, m \in 0 .. MaxInterval : SetDelayState(i, m)
           \/ \E o \in Outputs, i \in Inputs \cup {NoInput} : SetCrossPoint(o, i)
  BY <1>2, Settings
<1>3. CASE ScanTimer
  BY <1>3, Scan
<1>4. CASE Tick
  BY <1>4, Period
<1>5. CASE UNCHANGED vars
  BY <1>5 DEF vars, IndInv, TypeOK, Ordered, TimersRun, ScanLeavesYoung,
              Debounced, NoneForgotten
<1> QED BY <1>1, <1>2, <1>3, <1>4, <1>5 DEF Next

LEMMA IndAlways == Spec => []IndInv
<1>1. Init => IndInv
  BY InitInv
<1>2. IndInv /\ [Next]_vars => IndInv'
  BY IndStep
<1> QED BY <1>1, <1>2, PTL DEF Spec

-----------------------------------------------------------------------------
(* A debounce timer never runs past its interval or below 0, and queues,   *)
(* intervals, crosspoints and what is sent keep their types.               *)
THEOREM EventTypeCorrect == Spec => []TypeOK
<1>1. IndInv => TypeOK
  BY DEF IndInv
<1> QED BY <1>1, IndAlways, PTL

(* Two waiting relays of a line are at least the debounce interval apart.  *)
THEOREM RelaysDebounced == Spec => []Debounced
<1>1. IndInv => Debounced
  BY DEF IndInv
<1> QED BY <1>1, IndAlways, PTL

(* No event waits for longer than the largest delay.                       *)
THEOREM NoEventForgotten == Spec => []NoneForgotten
<1>1. IndInv => NoneForgotten
  BY DEF IndInv
<1> QED BY <1>1, IndAlways, PTL

(* No young event holds back an older one: after a scan nothing that waits *)
(* is old enough.                                                          *)
THEOREM NoEventOverdue == Spec => NothingOverdue
<1>1. ASSUME IndInv, ScanTimer, NEW i \in Inputs, NEW j \in DOMAIN gpio_events'[i]
      PROVE  ~OldEnough(i, gpio_events'[i][j])
  <2>1. gpio_events'[i] = Rest(i)
    BY <1>1 DEF ScanTimer
  <2> QED BY <1>1, <2>1, RestYoung
<1>2. IndInv /\ [Next]_vars =>
        [ ScanTimer =>
            \A i \in Inputs : \A j \in DOMAIN gpio_events'[i] :
              ~OldEnough(i, gpio_events'[i][j]) ]_vars
  BY <1>1
<1> QED BY <1>2, IndAlways, PTL DEF Spec, NothingOverdue

(* A scan sends to an output exactly the events that leave the queue of    *)
(* the input it carries, in the order of their reception.                  *)
THEOREM EventsSentAsReceived == Spec => SentAsReceived
<1>1. ASSUME IndInv, ScanTimer, NEW o \in Outputs,
             router_crosspoints[o] \in Inputs,
             kind = "gpio" \/ o \notin Unconfigured
      PROVE  LET i == router_crosspoints[o]
             IN  sent'[o] \o [j \in DOMAIN gpio_events'[i] |->
                                gpio_events'[i][j].line]
                   = [j \in DOMAIN gpio_events[i] |-> gpio_events[i][j].line]
  <2> DEFINE i == router_crosspoints[o]
             s == gpio_events[i]
             n == Len(s)
             d == DueCount(i)
             left == [j \in 1 .. n - d |-> s[d + j].line]
             gone == [j \in 1 .. d |-> s[j].line]
  <2>1. /\ i \in Inputs /\ TypeOK
        /\ n \in Nat /\ d \in 0 .. n /\ DOMAIN s = 1 .. n
        /\ \A j \in 1 .. n : s[j].line \in Lines
    BY <1>1, DueCountIs, Waiting DEF IndInv
  <2>2. Sends(o)
    BY <1>1 DEF Sends, SendsGpo, SendsBreakaway, SendsCic, IndInv, TypeOK, Kinds
  <2>3. sent'[o] = gone
    <3>1. sent'[o] = LinesSent(o)
      BY <1>1 DEF ScanTimer
    <3>2. LinesSent(o) = [j \in DOMAIN Due(i) |-> Due(i)[j].line]
      BY <1>1, <2>2 DEF LinesSent
    <3>3. DOMAIN Due(i) = 1 .. d /\ \A j \in 1 .. d : Due(i)[j] = s[j]
      BY <2>1, RestIs
    <3> QED BY <3>1, <3>2, <3>3
  <2>4. [j \in DOMAIN gpio_events'[i] |-> gpio_events'[i][j].line] = left
    <3>1. gpio_events'[i] = Rest(i)
      BY <1>1, <2>1 DEF ScanTimer
    <3>2. DOMAIN Rest(i) = 1 .. n - d
          /\ \A j \in 1 .. n - d : Rest(i)[j] = s[d + j]
      BY <2>1, RestIs
    <3> QED BY <3>1, <3>2
  <2>5. gone \o left = [j \in 1 .. n |-> s[j].line]
    <3> HIDE DEF s, n, d, i
    <3>1. gone \in Seq(Lines) /\ Len(gone) = d
      BY <2>1
    <3>2. left \in Seq(Lines) /\ Len(left) = n - d
      BY <2>1
    <3> QED BY <2>1, <3>1, <3>2
  <2> QED BY <2>1, <2>3, <2>4, <2>5
<1>2. ASSUME IndInv, ScanTimer, NEW o \in Outputs,
             ~(/\ router_crosspoints[o] \in Inputs
               /\ kind = "gpio" \/ o \notin Unconfigured)
      PROVE  sent'[o] = <<>>
  BY <1>2 DEF ScanTimer, LinesSent, Sends, SendsGpo, SendsBreakaway, SendsCic
<1>3. ASSUME IndInv, ScanTimer
      PROVE  \A o \in Outputs :
               LET i == router_crosspoints[o]
               IN  IF i \in Inputs /\ (kind = "gpio" \/ o \notin Unconfigured)
                   THEN sent'[o] \o [j \in DOMAIN gpio_events'[i] |->
                                       gpio_events'[i][j].line]
                          = [j \in DOMAIN gpio_events[i] |-> gpio_events[i][j].line]
                   ELSE sent'[o] = <<>>
  BY <1>1, <1>2, <1>3
<1>4. IndInv /\ [Next]_vars =>
        [ ScanTimer =>
            \A o \in Outputs :
              LET i == router_crosspoints[o]
              IN  IF i \in Inputs /\ (kind = "gpio" \/ o \notin Unconfigured)
                  THEN sent'[o] \o [j \in DOMAIN gpio_events'[i] |->
                                      gpio_events'[i][j].line]
                         = [j \in DOMAIN gpio_events[i] |-> gpio_events[i][j].line]
                  ELSE sent'[o] = <<>> ]_vars
  BY <1>3
<1> QED BY <1>4, IndAlways, PTL DEF Spec, SentAsReceived
===============================================================================
