----------------------------- MODULE NetcuesProofs -----------------------------
(* The daemon's event routers, with their configuration, the protocols and *)
(* the serial port around them, keep what EventRouter promises.            *)
EXTENDS Netcues, EventRouterProofs, FiniteSetTheorems

(* An address that speaks for an input speaks for one that is configured.  *)
LEMMA InputOfIs == \A a : InputOf(a) > 0 => InputOf(a) \in Inputs
<1> SUFFICES ASSUME NEW a, InputOf(a) > 0 PROVE InputOf(a) \in Inputs
  OBVIOUS
<1> DEFINE found == {i \in 1 .. InputQuantity : a \in Range(conf_input_addresses[i])}
<1>1. found # {}
  BY DEF InputOf
<1>2. found \subseteq Nat /\ found \subseteq Inputs
  BY NetcuesAssumption, ConfigurationAssumption
<1> HIDE DEF found
<1>3. \E i \in found : \A j \in found : i <= j
  BY <1>1, <1>2, Least
<1>4. InputOf(a) = CHOOSE i \in found : \A j \in found : i <= j
  BY <1>1 DEF InputOf, found
<1> QED BY <1>2, <1>3, <1>4

(* A number that is taken for an input or a line is one.                   *)
LEMMA UnsignedIs ==
  /\ \A n \in 0 .. InputQuantity + 1 :
       Unsigned(n - 1) < InputQuantity => n \in Inputs
  /\ \A n \in 0 .. Cardinality(Lines) + 1 :
       Unsigned(n - 1) < Cardinality(Lines) => n \in Lines
<1>1. ASSUME NEW q \in Nat, q < UnsignedSize, NEW n \in 0 .. q + 1,
             Unsigned(n - 1) < q
      PROVE  n \in 1 .. q
  <2>1. UnsignedSize \in Nat /\ UnsignedSize > 0
    BY <1>1, NetcuesAssumption
  <2>2. CASE n = 0
    <3>1. Unsigned(n - 1) = UnsignedSize - 1
      BY <2>1, <2>2 DEF Unsigned
    <3> QED BY <1>1, <2>1, <3>1
  <2>3. CASE n \in 1 .. q + 1
    <3>1. Unsigned(n - 1) = n - 1
      BY <1>1, <2>1, <2>3 DEF Unsigned
    <3> QED BY <1>1, <2>3, <3>1
  <2> QED BY <1>1, <2>2, <2>3
<1>2. InputQuantity \in Nat
  BY ConfigurationAssumption
<1> QED BY <1>1, <1>2, NetcuesAssumption

(* Whatever the daemon does is a step of the router or leaves it alone.    *)
LEMMA RouterStep == [NetcuesNext]_netcues => [Next]_vars
<1> SUFFICES ASSUME [NetcuesNext]_netcues PROVE [Next]_vars
  OBVIOUS
<1>1. router = vars
  BY DEF router, vars
<1>2. CASE LoadConfiguration
  BY <1>2 DEF LoadConfiguration, router, vars
<1>3. CASE StartRouters
  BY <1>3 DEF StartRouters, router, vars
<1>4. CASE EventReceived
  <2>1. CASE RmlCommand
    <3>1. CASE \E input \in 0 .. InputQuantity + 1 : RmlDx(input)
      <4>1. PICK input \in 0 .. InputQuantity + 1 : RmlDx(input)
        BY <3>1
      <4>2. input \in Inputs /\ SendBreakaway(input, input)
        BY <4>1, UnsignedIs DEF RmlDx
      <4> QED BY <4>2, NetcuesAssumption DEF Next
    <3>2. CASE \E input \in 0 .. InputQuantity + 1,
                  line \in 0 .. Cardinality(Lines) + 1, closed \in BOOLEAN :
                 RmlGo(input, line, closed)
      <4>1. PICK input \in 0 .. InputQuantity + 1,
                 line \in 0 .. Cardinality(Lines) + 1, closed \in BOOLEAN :
              RmlGo(input, line, closed)
        BY <3>2
      <4>2. input \in Inputs /\ line \in Lines /\ SendRelay(input, line)
        BY <4>1, UnsignedIs DEF RmlGo
      <4> QED BY <4>2 DEF Next
    <3> QED BY <2>1, <3>1, <3>2 DEF RmlCommand
  <2>2. CASE RmlFragment
    BY <2>2 DEF RmlFragment, router, vars
  <2>3. CASE NetworkEvent
    <3>1. PICK addr \in Addresses, line \in Lines :
            \/ \E source \in 0 .. InputQuantity, state \in BOOLEAN :
                 GpioReceived(addr, source, line, state)
            \/ CicFrom(addr, line)
      BY <2>3 DEF NetworkEvent
    <3>2. InputOf(addr) \in Inputs
      BY <3>1, InputOfIs DEF GpioReceived, CicFrom
    <3>3. SendRelay(InputOf(addr), line) \/ CicReceived(InputOf(addr), line)
      BY <3>1 DEF GpioReceived, CicFrom
    <3> QED BY <3>2, <3>3 DEF Next
  <2> QED BY <1>4, <2>1, <2>2, <2>3 DEF EventReceived
<1>5. CASE Elsewhere
  BY <1>5 DEF Elsewhere, Next
<1>6. CASE ScanEvents
  BY <1>6 DEF ScanEvents, Next
<1>7. CASE WriteTtyData \/ UartTransmits \/ UNCHANGED netcues
  BY <1>7 DEF WriteTtyData, UartTransmits, netcues, router, vars
<1> QED BY <1>2, <1>3, <1>4, <1>5, <1>6, <1>7 DEF NetcuesNext

(* The routers of the daemon are those of EventRouter.                     *)
THEOREM NetcuesImplementRouter == NetcuesSpec => Spec
<1>1. NetcuesInit => Init
  BY DEF NetcuesInit
<1>2. [NetcuesNext]_netcues => [Next]_vars
  BY RouterStep
<1> QED BY <1>1, <1>2, PTL DEF NetcuesSpec, Spec

(* Two waiting relays of a line are at least the debounce interval apart,  *)
(* whether they came from RML or from the network.                         *)
THEOREM NetcuesDebounced == NetcuesSpec => []Debounced
BY NetcuesImplementRouter, RelaysDebounced, PTL

(* No event of any source waits for longer than the largest delay.         *)
THEOREM NetcuesNoneForgotten == NetcuesSpec => []NoneForgotten
BY NetcuesImplementRouter, NoEventForgotten, PTL

(* No young event holds back an older one.                                 *)
THEOREM NetcuesNothingOverdue == NetcuesSpec => NothingOverdue
BY NetcuesImplementRouter, NoEventOverdue, PTL

(* A scan sends exactly the events that leave the queue, in their order.   *)
THEOREM NetcuesSentAsReceived == NetcuesSpec => SentAsReceived
BY NetcuesImplementRouter, EventsSentAsReceived, PTL

-----------------------------------------------------------------------------
(***************************************************************************)
(* The configuration.  Of the sections up to the one that is read, what    *)
(* was taken is the beginning of what is listed, up to the first gap once  *)
(* a section is ended; and nothing was taken twice.                        *)
(***************************************************************************)
Kept(i) ==
  \A m \in 1 .. Len(conf_input_addresses[i]) :
    m <= Len(profile[i]) /\ conf_input_addresses[i][m] = profile[i][m]

Ended(i) == AddressValue(i, Len(conf_input_addresses[i]) + 1) = NoAddress

Distinct ==
  \A i, j \in 1 .. section :
    \A m \in 1 .. Len(conf_input_addresses[i]),
       n \in 1 .. Len(conf_input_addresses[j]) :
      conf_input_addresses[i][m] = conf_input_addresses[j][n] => i = j /\ m = n

ConfigInv ==
  /\ ConfigurationTypeOK
  /\ \A i \in 1 .. section : Kept(i)
  /\ \A i \in 1 .. section - 1 : Ended(i)
  /\ \A i \in Sections : i > section => conf_input_addresses[i] = <<>>
  /\ Distinct

ConfigNext == ReadConfiguration \/ ReloadConfiguration

LEMMA ConfigFacts ==
  ASSUME ConfigInv
  PROVE  /\ MaxInputs \in Nat /\ section \in 1 .. MaxInputs
         /\ conf_input_addresses \in [Sections -> Seq(Addresses)]
         /\ profile \in [Sections -> Seq(Addresses \cup {NoAddress})]
         /\ \A i \in Sections :
              /\ conf_input_addresses[i] \in Seq(Addresses)
              /\ Len(conf_input_addresses[i]) \in Nat
              /\ \A m \in 1 .. Len(conf_input_addresses[i]) :
                   conf_input_addresses[i][m] \in Addresses
              /\ Len(profile[i]) \in Nat
              /\ \A m \in 1 .. Len(profile[i]) :
                   profile[i][m] \in Addresses \cup {NoAddress}
<1>1. /\ conf_input_addresses \in [Sections -> Seq(Addresses)]
      /\ profile \in [Sections -> Seq(Addresses \cup {NoAddress})]
  BY ProfilesAssumption DEF ConfigInv, ConfigurationTypeOK
<1>2. MaxInputs \in Nat /\ section \in 1 .. MaxInputs
  BY ConfigurationAssumption DEF ConfigInv, ConfigurationTypeOK, Sections
<1>3. ASSUME NEW i \in Sections
      PROVE  /\ conf_input_addresses[i] \in Seq(Addresses)
             /\ profile[i] \in Seq(Addresses \cup {NoAddress})
  BY <1>1
<1>4. ASSUME NEW S, NEW s \in Seq(S)
      PROVE  Len(s) \in Nat /\ \A m \in 1 .. Len(s) : s[m] \in S
  OBVIOUS
<1>5. ASSUME NEW i \in Sections
      PROVE  /\ Len(conf_input_addresses[i]) \in Nat
             /\ \A m \in 1 .. Len(conf_input_addresses[i]) :
                  conf_input_addresses[i][m] \in Addresses
             /\ Len(profile[i]) \in Nat
             /\ \A m \in 1 .. Len(profile[i]) :
                  profile[i][m] \in Addresses \cup {NoAddress}
  BY <1>3, <1>4
<1> QED BY <1>1, <1>2, <1>3, <1>5

LEMMA NothingRead ==
  ASSUME ConfigurationTypeOK, section = 1,
         conf_input_addresses = [i \in Sections |-> <<>>]
  PROVE  ConfigInv
<1>1. MaxInputs \in Nat /\ 1 .. section \subseteq Sections
  BY ConfigurationAssumption DEF ConfigurationTypeOK, Sections
<1>2. \A i \in Sections : /\ conf_input_addresses[i] = <<>>
                          /\ 1 .. Len(conf_input_addresses[i]) = {}
  OBVIOUS
<1>3. \A i \in 1 .. section : Kept(i)
  BY <1>1, <1>2 DEF Kept
<1>4. Distinct
  BY <1>1, <1>2 DEF Distinct
<1> QED BY <1>2, <1>3, <1>4 DEF ConfigInv

LEMMA ConfigTyped ==
  ASSUME ConfigInv, [ConfigNext]_configuration
  PROVE  ConfigurationTypeOK'
<1>1. ConfigurationTypeOK
  BY DEF ConfigInv
<1>2. CASE AppendAddress
  <2>1. NextAddress \in Addresses
    <3> DEFINE k == Len(conf_input_addresses[section]) + 1
    <3>1. k \in Nat \ {0} /\ section \in Sections
      BY ConfigFacts DEF Sections
    <3>2. NextAddress = IF k <= Len(profile[section]) THEN profile[section][k]
                                                       ELSE NoAddress
      BY DEF NextAddress, AddressValue
    <3> HIDE DEF k
    <3>3. NextAddress \in Addresses \cup {NoAddress}
      BY <3>1, <3>2, ConfigFacts
    <3> QED BY <1>2, <3>3 DEF AppendAddress
  <2>2. Append(conf_input_addresses[section], NextAddress) \in Seq(Addresses)
    <3>1. conf_input_addresses[section] \in Seq(Addresses)
      BY ConfigFacts DEF Sections
    <3> HIDE DEF NextAddress
    <3> QED BY <2>1, <3>1, AppendProperties
  <2> QED BY <1>1, <1>2, <2>2 DEF AppendAddress, ConfigurationTypeOK
<1>3. CASE RefuseAddress
  BY <1>1, <1>3 DEF RefuseAddress, ConfigurationTypeOK
<1>4. CASE EndSection
  <2>1. section + 1 \in Sections \/ section' = section
    BY <1>4, ConfigFacts DEF EndSection, Sections
  <2> QED BY <1>1, <1>4, <2>1 DEF EndSection, ConfigurationTypeOK
<1>5. CASE ReloadConfiguration
  <2>1. 1 \in Sections
    BY ConfigFacts DEF Sections
  <2>2. conf_input_addresses' \in [Sections -> Seq(Addresses)]
    BY <1>5 DEF ReloadConfiguration
  <2> QED BY <1>5, <2>1, <2>2 DEF ReloadConfiguration, ConfigurationTypeOK
<1>6. CASE UNCHANGED configuration
  BY <1>1, <1>6 DEF configuration, ConfigurationTypeOK
<1> QED BY <1>2, <1>3, <1>4, <1>5, <1>6 DEF ConfigNext, ReadConfiguration

(* The address that is due: the next one listed, if there is one.          *)
LEMMA NextAddressIs ==
  ASSUME ConfigInv, NextAddress # NoAddress
  PROVE  LET k == Len(conf_input_addresses[section])
         IN  /\ k + 1 <= Len(profile[section])
             /\ NextAddress = profile[section][k + 1]
             /\ NextAddress \in Addresses
<1> DEFINE k == Len(conf_input_addresses[section])
<1>1. NextAddress = IF k + 1 <= Len(profile[section]) THEN profile[section][k + 1]
                                                      ELSE NoAddress
  BY DEF NextAddress, AddressValue
<1>2. k \in Nat /\ section \in Sections
  BY ConfigFacts DEF Sections
<1> HIDE DEF k
<1>3. k + 1 <= Len(profile[section]) /\ NextAddress = profile[section][k + 1]
  BY <1>1
<1>4. k + 1 \in 1 .. Len(profile[section])
  <2>1. Len(profile[section]) \in Nat
    BY <1>2, ConfigFacts
  <2> QED BY <1>2, <1>3, <2>1
<1>5. profile[section][k + 1] \in Addresses \cup {NoAddress}
  BY <1>2, <1>4, ConfigFacts
<1>6. NextAddress \in Addresses
  BY <1>3, <1>5
<1> QED BY <1>3, <1>6 DEF k

(* An address that was found is a duplicate of one that was taken.         *)
LEMMA DuplicateIs ==
  ASSUME ConfigInv, NEW a
  PROVE  Duplicate(a) <=>
           \E j \in 1 .. section : \E n \in 1 .. Len(conf_input_addresses[j]) :
             conf_input_addresses[j][n] = a
<1>1. ASSUME NEW j \in 1 .. section
      PROVE  DOMAIN conf_input_addresses[j] = 1 .. Len(conf_input_addresses[j])
  <2>1. conf_input_addresses[j] \in Seq(Addresses)
    BY ConfigFacts DEF Sections
  <2> QED BY <2>1
<1> QED BY <1>1 DEF Duplicate, Range

LEMMA AppendStep ==
  ASSUME ConfigInv, AppendAddress, loading = "reading"
  PROVE  ConfigInv'
<1> DEFINE c == conf_input_addresses
           k == Len(c[section])
           a == NextAddress
<1>1. ConfigurationTypeOK'
  BY ConfigTyped DEF ConfigNext, ReadConfiguration
<1>2. /\ section \in Sections /\ k \in Nat /\ section \in Nat
      /\ 1 .. section \subseteq Sections
      /\ c \in [Sections -> Seq(Addresses)] /\ c[section] \in Seq(Addresses)
      /\ \A i \in Sections : Len(c[i]) \in Nat
  BY ConfigFacts DEF Sections
<1>3. /\ k + 1 <= Len(profile[section]) /\ a = profile[section][k + 1]
      /\ a \in Addresses
  BY NextAddressIs DEF AppendAddress
<1>4. \A j \in 1 .. section : \A n \in 1 .. Len(c[j]) : c[j][n] # a
  BY DuplicateIs DEF AppendAddress
<1>5. /\ c' = [c EXCEPT ![section] = Append(c[section], a)]
      /\ UNCHANGED <<profile, section, loading>>
  BY DEF AppendAddress
<1> HIDE DEF a
<1> DEFINE new == Append(c[section], a)
<1>6. /\ Len(new) = k + 1 /\ new[k + 1] = a
      /\ \A m \in 1 .. k : new[m] = c[section][m]
  BY <1>2, <1>3, AppendProperties
<1>7. /\ c'[section] = new
      /\ \A i \in Sections : i # section => c'[i] = c[i]
  BY <1>2, <1>5
<1> HIDE DEF new, c
<1>8. \A i \in 1 .. section : Kept(i)'
  <2> SUFFICES ASSUME NEW i \in 1 .. section, NEW m \in 1 .. Len(c'[i])
               PROVE  m <= Len(profile[i]) /\ c'[i][m] = profile[i][m]
    BY <1>5 DEF Kept, c
  <2>1. Kept(i)
    BY DEF ConfigInv
  <2>2. CASE i # section
    BY <1>2, <1>7, <2>1, <2>2 DEF Kept, c
  <2>3. CASE i = section
    <3>1. m = k + 1 \/ m \in 1 .. k
      <4>1. m \in 1 .. k + 1
        BY <1>6, <1>7, <2>3
      <4> HIDE DEF k
      <4> QED BY <1>2, <4>1
    <3>2. CASE m = k + 1
      BY <1>3, <1>6, <1>7, <2>3, <3>2
    <3>3. CASE m \in 1 .. k
      BY <1>6, <1>7, <2>1, <2>3, <3>3 DEF Kept, c
    <3> QED BY <3>1, <3>2, <3>3
  <2> QED BY <2>2, <2>3
<1>9. \A i \in 1 .. section - 1 : Ended(i)'
  <2> SUFFICES ASSUME NEW i \in 1 .. section - 1 PROVE Ended(i)'
    OBVIOUS
  <2>1. i # section /\ i \in Sections
    BY <1>2
  <2>2. Ended(i) /\ c'[i] = c[i] /\ profile' = profile
    BY <1>5, <1>7, <2>1 DEF ConfigInv
  <2> QED BY <2>2 DEF Ended, AddressValue, c
<1>10. \A i \in Sections : i > section => c'[i] = <<>>
  <2> SUFFICES ASSUME NEW i \in Sections, i > section PROVE c'[i] = <<>>
    OBVIOUS
  <2>1. i # section
    BY <1>2 DEF Sections
  <2> QED BY <1>7, <2>1 DEF ConfigInv, c
<1>11. Distinct'
  <2> SUFFICES ASSUME NEW i \in 1 .. section, NEW j \in 1 .. section,
                      NEW m \in 1 .. Len(c'[i]), NEW n \in 1 .. Len(c'[j]),
                      c'[i][m] = c'[j][n]
               PROVE  i = j /\ m = n
    BY <1>5 DEF Distinct, c
  <2>1. ASSUME NEW x \in 1 .. section, NEW y \in 1 .. Len(c'[x])
        PROVE  \/ x = section /\ y = k + 1 /\ c'[x][y] = a
               \/ y \in 1 .. Len(c[x]) /\ c'[x][y] = c[x][y] /\ c[x][y] # a
    <3>1. CASE x # section
      <4>1. c'[x] = c[x]
        BY <1>2, <1>7, <3>1
      <4> QED BY <1>4, <4>1 DEF c
    <3>2. CASE x = section
      <4>1. y \in 1 .. k + 1
        BY <1>6, <1>7, <3>2
      <4>2. y = k + 1 \/ y \in 1 .. k
        <5> HIDE DEF k
        <5> QED BY <1>2, <4>1
      <4> QED BY <1>4, <1>6, <1>7, <3>2, <4>2 DEF c
    <3> QED BY <3>1, <3>2
  <2>2. CASE c'[i][m] = a
    <3>1. c'[j][n] = a
      BY <2>2
    <3>2. i = section /\ m = k + 1
      BY <2>1, <2>2
    <3>3. j = section /\ n = k + 1
      BY <2>1, <3>1
    <3> QED BY <3>2, <3>3
  <2>3. CASE c'[i][m] # a
    <3>1. /\ m \in 1 .. Len(c[i]) /\ c'[i][m] = c[i][m]
          /\ n \in 1 .. Len(c[j]) /\ c'[j][n] = c[j][n]
      BY <2>1, <2>3
    <3>2. c[i][m] = c[j][n]
      BY <3>1
    <3>3. \A x, y \in 1 .. section : \A u \in 1 .. Len(c[x]), v \in 1 .. Len(c[y]) :
            c[x][u] = c[y][v] => x = y /\ u = v
      BY DEF ConfigInv, Distinct, c
    <3>4. i \in 1 .. section /\ j \in 1 .. section
      OBVIOUS
    <3>5. m \in 1 .. Len(c[i]) /\ n \in 1 .. Len(c[j])
      BY <3>1
    <3> HIDE DEF c
    <3> QED BY <3>2, <3>3, <3>4, <3>5, Zenon
  <2> QED BY <2>2, <2>3
<1> QED BY <1>1, <1>5, <1>8, <1>9, <1>10, <1>11 DEF ConfigInv, c

LEMMA ConfigStep ==
  ASSUME ConfigInv, [ConfigNext]_configuration
  PROVE  ConfigInv'
<1>1. ConfigurationTypeOK'
  BY ConfigTyped
<1>2. CASE loading = "reading" /\ AppendAddress
  BY <1>2, AppendStep
<1>3. CASE RefuseAddress \/ UNCHANGED configuration
  <2>1. UNCHANGED <<profile, conf_input_addresses, section>>
    BY <1>3 DEF RefuseAddress, configuration
  <2> QED BY <1>1, <2>1 DEF ConfigInv, Kept, Ended, AddressValue, Distinct
<1>4. CASE EndSection
  <2>1. UNCHANGED <<profile, conf_input_addresses>> /\ Ended(section)
    BY <1>4 DEF EndSection, NextAddress, Ended
  <2>2. CASE UNCHANGED section
    BY <1>1, <2>1, <2>2 DEF ConfigInv, Kept, Ended, AddressValue, Distinct
  <2>3. CASE section' = section + 1
    <3>1. /\ section \in Nat /\ section + 1 \in Sections
          /\ conf_input_addresses[section + 1] = <<>>
      <4>1. section \in Nat /\ section + 1 \in Sections
        BY <1>1, <2>3, ConfigFacts DEF ConfigurationTypeOK, Sections
      <4> QED BY <4>1 DEF ConfigInv
    <3>2. \A i \in 1 .. section + 1 : Kept(i)
      <4>1. Kept(section + 1)
        BY <3>1 DEF Kept
      <4>2. \A i \in 1 .. section + 1 : i = section + 1 \/ i \in 1 .. section
        BY <3>1
      <4> QED BY <4>1, <4>2 DEF ConfigInv
    <3>3. \A i \in 1 .. (section + 1) - 1 : Ended(i)
      <4>1. \A i \in 1 .. (section + 1) - 1 : i = section \/ i \in 1 .. section - 1
        BY <3>1
      <4> QED BY <2>1, <4>1 DEF ConfigInv
    <3>4. \A i \in Sections : i > section + 1 => conf_input_addresses[i] = <<>>
      <4>1. \A i \in Sections : i > section + 1 => i > section
        BY <3>1 DEF Sections
      <4> QED BY <4>1 DEF ConfigInv
    <3>5. \A i, j \in 1 .. section + 1 :
            \A m \in 1 .. Len(conf_input_addresses[i]),
               n \in 1 .. Len(conf_input_addresses[j]) :
              conf_input_addresses[i][m] = conf_input_addresses[j][n]
                => i = j /\ m = n
      <4>1. \A i \in 1 .. section + 1 :
              1 .. Len(conf_input_addresses[i]) # {} => i \in 1 .. section
        BY <3>1
      <4> QED BY <4>1 DEF ConfigInv, Distinct
    <3> QED BY <1>1, <2>1, <2>3, <3>2, <3>3, <3>4, <3>5
            DEF ConfigInv, Kept, Ended, AddressValue, Distinct
  <2> QED BY <1>4, <2>2, <2>3 DEF EndSection
<1>5. CASE ReloadConfiguration
  <2>1. section' = 1 /\ conf_input_addresses' = [i \in Sections |-> <<>>]
    BY <1>5 DEF ReloadConfiguration
  <2>2. \A i \in Sections : /\ conf_input_addresses'[i] = <<>>
                            /\ 1 .. Len(conf_input_addresses'[i]) = {}
    BY <2>1
  <2>3. 1 .. section' \subseteq Sections
    BY <1>1, <2>1 DEF ConfigurationTypeOK, Sections
  <2>4. \A i \in 1 .. section' : Kept(i)'
    BY <2>2, <2>3 DEF Kept
  <2>5. Distinct'
    BY <2>2, <2>3 DEF Distinct
  <2>6. 1 .. section' - 1 = {}
    BY <2>1
  <2> QED BY <1>1, <2>2, <2>4, <2>5, <2>6 DEF ConfigInv
<1> QED BY <1>2, <1>3, <1>4, <1>5 DEF ConfigNext, ReadConfiguration

(* Whatever the daemon does is a step of the configuration or leaves it.   *)
LEMMA NetcuesConfigStep == [NetcuesNext]_netcues => [ConfigNext]_configuration
<1> SUFFICES ASSUME [NetcuesNext]_netcues PROVE [ConfigNext]_configuration
  OBVIOUS
<1>1. CASE LoadConfiguration
  BY <1>1 DEF LoadConfiguration, ConfigNext
<1>2. CASE ~LoadConfiguration
  BY <1>2 DEF NetcuesNext, StartRouters, EventReceived, Elsewhere, ScanEvents,
              WriteTtyData, UartTransmits, netcues
<1> QED BY <1>1, <1>2

LEMMA ConfigAlways == NetcuesSpec => []ConfigInv
<1>1. NetcuesInit => ConfigInv
  <2> SUFFICES ASSUME ConfigInit PROVE ConfigInv
    BY DEF NetcuesInit
  <2>1. 1 \in Sections
    BY ConfigurationAssumption DEF Sections
  <2>2. conf_input_addresses \in [Sections -> Seq(Addresses)]
    BY DEF ConfigInit
  <2>3. ConfigurationTypeOK
    BY <2>1, <2>2 DEF ConfigInit, ConfigurationTypeOK
  <2> QED BY <2>3, NothingRead DEF ConfigInit
<1>2. ConfigInv /\ [NetcuesNext]_netcues => ConfigInv'
  BY NetcuesConfigStep, ConfigStep
<1> QED BY <1>1, <1>2, PTL DEF NetcuesSpec

(* An entry of what was read.                                              *)
LEMMA EntryKept ==
  ASSUME ConfigInv, NEW i \in 1 .. section,
         NEW k \in 1 .. Len(conf_input_addresses[i]),
         NEW a, conf_input_addresses[i][k] = a
  PROVE  <<i, k>> \in Entries(a)
<1> DEFINE c == conf_input_addresses
<1>1. /\ i \in Sections /\ Len(c[i]) \in Nat /\ Len(profile[i]) \in Nat
      /\ \A m \in 1 .. Len(c[i]) : c[i][m] \in Addresses
  BY ConfigFacts DEF Sections
<1>2. \A m \in 1 .. Len(c[i]) : m <= Len(profile[i]) /\ c[i][m] = profile[i][m]
  BY DEF ConfigInv, Kept
<1>3. \A m \in 1 .. Len(c[i]) : AddressValue(i, m) = c[i][m]
  BY <1>2 DEF AddressValue
<1>4. \A m \in 1 .. k : m \in 1 .. Len(c[i])
  BY <1>1
<1>5. \A m \in 1 .. k : AddressValue(i, m) # NoAddress
  BY <1>1, <1>3, <1>4, ConfigurationAssumption
<1>6. AddressValue(i, k) = a
  BY <1>3
<1>7. k \in 1 .. Len(profile[i])
  BY <1>1, <1>2
<1>8. <<i, k>> \in UNION {{j} \X (1 .. Len(profile[j])) : j \in Sections}
  BY <1>1, <1>7
<1> QED BY <1>5, <1>6, <1>8 DEF Entries

(* An entry of a section that was read to its end was read.                *)
LEMMA EntryRead ==
  ASSUME ConfigInv, NEW a \in Addresses, NEW e \in Entries(a),
         e[1] \in 1 .. section, Ended(e[1])
  PROVE  /\ e = <<e[1], e[2]>>
         /\ e[2] \in 1 .. Len(conf_input_addresses[e[1]])
         /\ conf_input_addresses[e[1]][e[2]] = a
<1> DEFINE i == e[1]
           k == e[2]
           n == Len(conf_input_addresses[i])
<1>1. /\ e = <<i, k>> /\ k \in Nat \ {0}
      /\ AddressValue(i, k) = a
      /\ \A m \in 1 .. k : AddressValue(i, m) # NoAddress
  <2>1. PICK j \in Sections : e \in {j} \X (1 .. Len(profile[j]))
    BY DEF Entries
  <2>2. Len(profile[j]) \in Nat
    BY ConfigFacts
  <2> QED BY <2>1, <2>2 DEF Entries
<1>2. n \in Nat /\ AddressValue(i, n + 1) = NoAddress
  BY ConfigFacts DEF Ended, Sections
<1>3. k \in 1 .. n
  <2> HIDE DEF i, k, n
  <2> QED BY <1>1, <1>2
<1>4. k <= Len(profile[i]) /\ conf_input_addresses[i][k] = profile[i][k]
  BY <1>3 DEF ConfigInv, Kept
<1>5. AddressValue(i, k) = profile[i][k]
  BY <1>4 DEF AddressValue
<1> QED BY <1>1, <1>3, <1>4, <1>5

(* The entries of an address are finitely many.                            *)
LEMMA EntriesFinite ==
  ASSUME ConfigInv, NEW a
  PROVE  IsFiniteSet(Entries(a))
<1> DEFINE F == [j \in Sections |-> {j} \X (1 .. Len(profile[j]))]
           T == {F[j] : j \in Sections}
<1>1. IsFiniteSet(Sections)
  BY ConfigFacts, FS_Interval DEF Sections
<1>2. F \in Surjection(Sections, T)
  BY DEF Surjection
<1>3. IsFiniteSet(T)
  <2> HIDE DEF F, T
  <2> QED BY <1>1, <1>2, FS_Surjection
<1>4. ASSUME NEW t \in T PROVE IsFiniteSet(t)
  <2>1. PICK j \in Sections : t = {j} \X (1 .. Len(profile[j]))
    OBVIOUS
  <2>2. IsFiniteSet({j}) /\ IsFiniteSet(1 .. Len(profile[j]))
    <3>1. Len(profile[j]) \in Int /\ 1 \in Int
      BY ConfigFacts
    <3>2. IsFiniteSet(1 .. Len(profile[j]))
      BY <3>1, FS_Interval
    <3> QED BY <3>2, FS_Singleton
  <2> QED BY <2>1, <2>2, FS_Product
<1>5. IsFiniteSet(UNION T)
  <2> HIDE DEF T
  <2> QED BY <1>3, <1>4, FS_UNION
<1>6. Entries(a) \subseteq UNION T
  BY DEF Entries
<1> QED BY <1>5, <1>6, FS_Subset

LEMMA AtMostOne ==
  ASSUME NEW S, \A x, y \in S : x = y
  PROVE  Cardinality(S) <= 1
<1>1. CASE S = {}
  BY <1>1, FS_EmptySet
<1>2. CASE S # {}
  <2>1. PICK x : S = {x}
    BY <1>2
  <2> QED BY <2>1, FS_Singleton
<1> QED BY <1>1, <1>2

LEMMA MoreThanOne ==
  ASSUME NEW S, IsFiniteSet(S), NEW x \in S, NEW y \in S, x # y
  PROVE  Cardinality(S) > 1
<1>1. Cardinality(S) \in Nat
  BY FS_CardinalityType
<1>2. Cardinality(S) # 0
  BY FS_EmptySet
<1>3. Cardinality(S) # 1
  BY FS_Singleton
<1> QED BY <1>1, <1>2, <1>3

(***************************************************************************)
(* "duplicate SourceIpAddress entry ... in [Input%d] and [Input%d]"        *)
(* (config.cpp:117), for files of any length: one is taken only if no      *)
(* address occurs twice, and then every input has exactly its section's    *)
(* addresses; it is refused only for an address that does occur twice.     *)
(***************************************************************************)
THEOREM FilesReadAsListed == NetcuesSpec => AddressesAsListed
<1> DEFINE c == conf_input_addresses
           Step ==
             /\ loading = "reading" /\ loading' = "loaded" =>
                  \A a \in Addresses :
                    /\ Cardinality(Entries(a)) <= 1
                    /\ \A i \in Sections :
                         a \in Range(conf_input_addresses'[i])
                           <=> \E e \in Entries(a) : e[1] = i
             /\ loading = "reading" /\ loading' = "refused" =>
                  \E a \in Addresses : Cardinality(Entries(a)) > 1
<1>1. ASSUME ConfigInv, ReadConfiguration, loading' = "loaded",
             NEW a \in Addresses
      PROVE  /\ Cardinality(Entries(a)) <= 1
             /\ \A i \in Sections :
                  a \in Range(c'[i]) <=> \E e \in Entries(a) : e[1] = i
  <2>1. /\ section = MaxInputs /\ c' = c /\ Ended(section)
    <3>1. EndSection
      BY <1>1 DEF ReadConfiguration, AppendAddress, RefuseAddress
    <3>2. section = MaxInputs
      BY <1>1, <3>1, ConfigFacts DEF EndSection, ReadConfiguration
    <3> QED BY <3>1, <3>2 DEF EndSection, NextAddress, Ended
  <2>2. Sections = 1 .. section /\ \A i \in Sections : Ended(i)
    <3>1. \A i \in Sections : i = section \/ i \in 1 .. section - 1
      BY <1>1, <2>1, ConfigFacts DEF Sections
    <3> QED BY <1>1, <2>1, <3>1 DEF ConfigInv, Sections
  <2>3. ASSUME NEW e \in Entries(a)
        PROVE  /\ e = <<e[1], e[2]>> /\ e[1] \in 1 .. section
               /\ e[2] \in 1 .. Len(c[e[1]]) /\ c[e[1]][e[2]] = a
    <3>1. e[1] \in Sections
      BY DEF Entries
    <3>2. e[1] \in 1 .. section /\ Ended(e[1])
      BY <2>2, <3>1
    <3> QED BY <1>1, <3>2, EntryRead
  <2>4. Cardinality(Entries(a)) <= 1
    <3>1. ASSUME NEW e \in Entries(a), NEW f \in Entries(a) PROVE e = f
      <4>1. /\ e[1] \in 1 .. section /\ f[1] \in 1 .. section
            /\ e[2] \in 1 .. Len(c[e[1]]) /\ f[2] \in 1 .. Len(c[f[1]])
            /\ c[e[1]][e[2]] = c[f[1]][f[2]]
            /\ e = <<e[1], e[2]>> /\ f = <<f[1], f[2]>>
        BY <2>3
      <4>2. e[1] = f[1] /\ e[2] = f[2]
        BY <1>1, <4>1 DEF ConfigInv, Distinct
      <4> QED BY <4>1, <4>2
    <3> QED BY <3>1, AtMostOne
  <2>5. ASSUME NEW i \in Sections
        PROVE  a \in Range(c'[i]) <=> \E e \in Entries(a) : e[1] = i
    <3>1. DOMAIN c[i] = 1 .. Len(c[i])
      BY <1>1, ConfigFacts
    <3>2. a \in Range(c'[i]) <=> \E k \in 1 .. Len(c[i]) : c[i][k] = a
      BY <2>1, <3>1 DEF Range
    <3>3. ASSUME NEW k \in 1 .. Len(c[i]), c[i][k] = a
          PROVE  \E e \in Entries(a) : e[1] = i
      <4>1. <<i, k>> \in Entries(a)
        BY <1>1, <2>2, <3>3, EntryKept
      <4> QED BY <4>1
    <3>4. ASSUME NEW e \in Entries(a), e[1] = i
          PROVE  \E k \in 1 .. Len(c[i]) : c[i][k] = a
      BY <2>3, <3>4
    <3> QED BY <3>2, <3>3, <3>4
  <2> QED BY <2>4, <2>5
<1>2. ASSUME ConfigInv, ReadConfiguration, loading' = "refused"
      PROVE  \E a \in Addresses : Cardinality(Entries(a)) > 1
  <2>1. RefuseAddress
    BY <1>2 DEF ReadConfiguration, AppendAddress, EndSection
  <2> DEFINE a == NextAddress
             k == Len(c[section])
  <2>2. /\ k + 1 <= Len(profile[section]) /\ a = profile[section][k + 1]
        /\ a \in Addresses
    BY <1>2, <2>1, NextAddressIs DEF RefuseAddress
  <2>3. PICK j \in 1 .. section : \E n \in 1 .. Len(c[j]) : c[j][n] = a
    BY <1>2, <2>1, DuplicateIs DEF RefuseAddress
  <2>4. PICK n \in 1 .. Len(c[j]) : c[j][n] = a
    BY <2>3
  <2>5. /\ section \in Sections /\ section \in 1 .. section /\ k \in Nat
        /\ Len(profile[section]) \in Nat
        /\ \A m \in 1 .. k : c[section][m] \in Addresses
    BY <1>2, ConfigFacts DEF Sections
  <2> HIDE DEF a
  <2>6. <<j, n>> \in Entries(a)
    BY <1>2, <2>4, EntryKept
  <2>7. <<section, k + 1>> \in Entries(a)
    <3>1. \A m \in 1 .. k : AddressValue(section, m) = c[section][m]
      BY <1>2, <2>5 DEF ConfigInv, Kept, AddressValue
    <3>2. AddressValue(section, k + 1) = a
      BY <2>2 DEF AddressValue
    <3>3. \A m \in 1 .. k + 1 : AddressValue(section, m) # NoAddress
      <4>1. \A m \in 1 .. k + 1 : m = k + 1 \/ m \in 1 .. k
        <5> HIDE DEF k
        <5> QED BY <2>5
      <4> QED BY <2>2, <2>5, <3>1, <3>2, <4>1, ConfigurationAssumption
    <3>4. k + 1 \in 1 .. Len(profile[section])
      <4> HIDE DEF k
      <4> QED BY <2>2, <2>5
    <3> HIDE DEF k
    <3>5. <<section, k + 1>> \in
            UNION {{i} \X (1 .. Len(profile[i])) : i \in Sections}
      BY <2>5, <3>4
    <3> QED BY <3>2, <3>3, <3>5 DEF Entries
  <2>8. <<j, n>> # <<section, k + 1>>
    <3>1. ASSUME j = section, n = k + 1 PROVE FALSE
      <4>1. n \in 1 .. k
        BY <3>1
      <4> HIDE DEF k
      <4> QED BY <2>5, <3>1, <4>1
    <3> QED BY <3>1
  <2> QED BY <1>2, <2>2, <2>6, <2>7, <2>8, EntriesFinite, MoreThanOne
<1>3. ConfigInv /\ [NetcuesNext]_netcues => [Step]_configuration
  <2> SUFFICES ASSUME ConfigInv, ConfigNext PROVE Step
    BY NetcuesConfigStep
  <2>1. loading = "reading" => ReadConfiguration
    BY DEF ConfigNext, ReloadConfiguration
  <2> QED BY <1>1, <1>2, <2>1
<1> HIDE DEF Step
<1>4. NetcuesSpec => [][Step]_configuration
  BY <1>3, ConfigAlways, PTL DEF NetcuesSpec
<1> QED BY <1>4 DEF AddressesAsListed, Step

-----------------------------------------------------------------------------
(* The pieces of a sequence, and of two that are joined.                   *)
LEMMA Piece ==
  ASSUME NEW S, NEW s \in Seq(S), NEW n \in 0 .. Len(s), NEW m \in 0 .. n
  PROVE  /\ SubSeq(s, m + 1, n) \in Seq(S)
         /\ Len(SubSeq(s, m + 1, n)) = n - m
         /\ \A j \in 1 .. n - m : SubSeq(s, m + 1, n)[j] = s[m + j]
<1>1. \A j \in m + 1 .. n : s[j] \in S
  OBVIOUS
<1>2. /\ SubSeq(s, m + 1, n) \in Seq(S)
      /\ Len(SubSeq(s, m + 1, n)) = IF m + 1 <= n THEN n - (m + 1) + 1 ELSE 0
      /\ \A j \in 1 .. n - (m + 1) + 1 : SubSeq(s, m + 1, n)[j] = s[(m + 1) + j - 1]
  BY <1>1, SubSeqProperties
<1> DEFINE p == SubSeq(s, m + 1, n)
<1> HIDE DEF p
<1>3. m \in Nat /\ n \in Nat /\ m <= n
  OBVIOUS
<1>4. n - (m + 1) + 1 = n - m
  BY <1>3
<1>5. Len(p) = n - m
  <2>1. CASE m + 1 <= n
    BY <1>2, <1>4, <2>1 DEF p
  <2>2. CASE ~(m + 1 <= n)
    <3>1. n - m = 0
      BY <1>3, <2>2
    <3> QED BY <1>2, <2>2, <3>1 DEF p
  <2> QED BY <2>1, <2>2
<1>6. ASSUME NEW j \in 1 .. n - m PROVE p[j] = s[m + j]
  <2>1. p[j] = s[(m + 1) + j - 1]
    BY <1>2, <1>4 DEF p
  <2>2. (m + 1) + j - 1 = m + j
    BY <1>3
  <2> QED BY <2>1, <2>2
<1> QED BY <1>2, <1>5, <1>6 DEF p

LEMMA Joined ==
  ASSUME NEW S, NEW a \in Seq(S), NEW b \in Seq(S)
  PROVE  /\ a \o b \in Seq(S)
         /\ Len(a \o b) = Len(a) + Len(b)
         /\ \A j \in 1 .. Len(a) : (a \o b)[j] = a[j]
         /\ \A j \in 1 .. Len(b) : (a \o b)[Len(a) + j] = b[j]
<1>1. /\ a \o b \in Seq(S) /\ Len(a \o b) = Len(a) + Len(b)
      /\ \A j \in 1 .. Len(a) + Len(b) :
           (a \o b)[j] = IF j <= Len(a) THEN a[j] ELSE b[j - Len(a)]
  BY ConcatProperties
<1>2. \A j \in 1 .. Len(b) : /\ Len(a) + j \in 1 .. Len(a) + Len(b)
                             /\ ~(Len(a) + j <= Len(a))
                             /\ (Len(a) + j) - Len(a) = j
  OBVIOUS
<1>3. \A j \in 1 .. Len(a) : j \in 1 .. Len(a) + Len(b) /\ j <= Len(a)
  OBVIOUS
<1> QED BY <1>1, <1>2, <1>3

LEMMA PieceOfFirst ==
  ASSUME NEW S, NEW a \in Seq(S), NEW b \in Seq(S),
         NEW n \in 0 .. Len(a), NEW m \in 0 .. n
  PROVE  SubSeq(a \o b, m + 1, n) = SubSeq(a, m + 1, n)
<1> DEFINE c == a \o b
           p == SubSeq(c, m + 1, n)
           q == SubSeq(a, m + 1, n)
<1>1. /\ c \in Seq(S) /\ Len(c) = Len(a) + Len(b)
      /\ \A j \in 1 .. Len(a) : c[j] = a[j]
  BY Joined
<1>2. n \in 0 .. Len(c) /\ m \in 0 .. n
  BY <1>1
<1> HIDE DEF c
<1>3. p \in Seq(S) /\ Len(p) = n - m /\ \A j \in 1 .. n - m : p[j] = c[m + j]
  BY <1>1, <1>2, Piece
<1>4. q \in Seq(S) /\ Len(q) = n - m /\ \A j \in 1 .. n - m : q[j] = a[m + j]
  BY Piece
<1>5. \A j \in 1 .. n - m : m + j \in 1 .. Len(a)
  OBVIOUS
<1> HIDE DEF p, q
<1>6. \A j \in 1 .. Len(p) : p[j] = q[j]
  BY <1>1, <1>3, <1>4, <1>5
<1>7. p = q
  BY <1>3, <1>4, <1>6, SeqEqual
<1> QED BY <1>7 DEF p, q, c

LEMMA PieceOfSecond ==
  ASSUME NEW S, NEW a \in Seq(S), NEW b \in Seq(S),
         NEW n \in 0 .. Len(b), NEW m \in 0 .. n
  PROVE  SubSeq(a \o b, (Len(a) + m) + 1, Len(a) + n) = SubSeq(b, m + 1, n)
<1> DEFINE c == a \o b
           l == Len(a)
           p == SubSeq(c, (l + m) + 1, l + n)
           q == SubSeq(b, m + 1, n)
<1>1. /\ c \in Seq(S) /\ Len(c) = l + Len(b) /\ l \in Nat
      /\ \A j \in 1 .. Len(b) : c[l + j] = b[j]
  BY Joined
<1> HIDE DEF c, l
<1>2. l + n \in 0 .. Len(c) /\ l + m \in 0 .. l + n /\ (l + n) - (l + m) = n - m
  BY <1>1
<1>3. p \in Seq(S) /\ Len(p) = n - m
      /\ \A j \in 1 .. n - m : p[j] = c[(l + m) + j]
  BY <1>1, <1>2, Piece
<1>4. q \in Seq(S) /\ Len(q) = n - m /\ \A j \in 1 .. n - m : q[j] = b[m + j]
  BY Piece
<1>5. \A j \in 1 .. n - m : m + j \in 1 .. Len(b) /\ (l + m) + j = l + (m + j)
  BY <1>1
<1> HIDE DEF p, q
<1>6. \A j \in 1 .. Len(p) : p[j] = q[j]
  BY <1>1, <1>3, <1>4, <1>5
<1>7. p = q
  BY <1>3, <1>4, <1>6, SeqEqual
<1> QED BY <1>7 DEF p, q, c, l

(* A sequence is its beginning and what follows it.                        *)
LEMMA PiecesJoined ==
  ASSUME NEW S, NEW s \in Seq(S), NEW n \in 0 .. Len(s)
  PROVE  /\ SubSeq(s, 1, n) \in Seq(S) /\ Len(SubSeq(s, 1, n)) = n
         /\ SubSeq(s, n + 1, Len(s)) \in Seq(S)
         /\ SubSeq(s, 1, n) \o SubSeq(s, n + 1, Len(s)) = s
<1> DEFINE p == SubSeq(s, 0 + 1, n)
           q == SubSeq(s, n + 1, Len(s))
           c == p \o q
<1>1. /\ Len(s) \in Nat /\ 0 \in 0 .. n /\ n \in Nat
      /\ Len(s) \in 0 .. Len(s) /\ 0 + 1 = 1 /\ n - 0 = n
  OBVIOUS
<1>2. p \in Seq(S) /\ Len(p) = n /\ \A j \in 1 .. n : p[j] = s[j]
  <2>1. p \in Seq(S) /\ Len(p) = n - 0 /\ \A j \in 1 .. n - 0 : p[j] = s[0 + j]
    BY <1>1, Piece
  <2>2. \A j \in 1 .. n : 0 + j = j
    OBVIOUS
  <2> HIDE DEF p
  <2> QED BY <1>1, <2>1, <2>2
<1>3. /\ q \in Seq(S) /\ Len(q) = Len(s) - n
      /\ \A j \in 1 .. Len(s) - n : q[j] = s[n + j]
  BY <1>1, Piece
<1> HIDE DEF p, q
<1>4. /\ c \in Seq(S) /\ Len(c) = Len(p) + Len(q)
      /\ \A j \in 1 .. Len(p) : c[j] = p[j]
      /\ \A j \in 1 .. Len(q) : c[Len(p) + j] = q[j]
  BY <1>2, <1>3, Joined
<1> HIDE DEF c
<1>5. Len(c) = Len(s)
  BY <1>1, <1>2, <1>3, <1>4
<1>6. ASSUME NEW j \in 1 .. Len(c) PROVE c[j] = s[j]
  <2>1. CASE j \in 1 .. n
    BY <1>2, <1>4, <2>1
  <2>2. CASE j \notin 1 .. n
    <3> DEFINE i == j - n
    <3>1. i \in 1 .. Len(s) - n /\ n + i = j
      BY <1>1, <1>5, <2>2
    <3> HIDE DEF i
    <3>2. c[n + i] = q[i] /\ q[i] = s[n + i]
      BY <1>2, <1>3, <1>4, <3>1
    <3> QED BY <3>1, <3>2
  <2> QED BY <2>1, <2>2
<1>7. c = s
  BY <1>4, <1>5, <1>6, SeqEqual
<1> QED BY <1>1, <1>2, <1>3, <1>7 DEF c, p, q

(* What sequences have in common that are joined, all of them joined have. *)
LEMMA Flattened ==
  ASSUME NEW S, NEW W, W \subseteq Seq(S), <<>> \in W,
         \A x, y \in W : x \o y \in W,
         NEW seqs \in Seq(W)
  PROVE  FlattenSeq(seqs) \in W
<1> DEFINE N == Len(seqs)
           g == [n \in 1 .. N |-> [x \in W |-> x \o seqs[n]]]
           Body(b) == [i \in 1 .. Len(seqs) |->
                        IF i = 1 THEN seqs[i] ELSE b[i - 1] \o seqs[i]]
           flatten == CHOOSE b : b = Body(b)
<1>1. N \in Nat /\ \A n \in 1 .. N : seqs[n] \in W
  OBVIOUS
<1>2. CASE N = 0
  BY <1>2 DEF FlattenSeq
<1>3. CASE N # 0
  <2>1. ASSUME NEW n \in 1 .. N, NEW x \in W
        PROVE  g[n][x] \in W /\ g[n][x] = x \o seqs[n]
    <3>1. g[n][x] = x \o seqs[n]
      OBVIOUS
    <3> HIDE DEF g
    <3> QED BY <1>1, <3>1
  <2>2. PICK f : Recurs(f, W, <<>>, N, g)
    <3> HIDE DEF N, g
    <3> QED BY <1>1, <2>1, Recursion
  <2>3. /\ \A n \in 0 .. N : f[n] \in W
        /\ f[0] = <<>>
        /\ \A n \in 1 .. N : f[n] = g[n][f[n - 1]]
    BY <2>2 DEF Recurs
  <2> HIDE DEF g
  <2>4. ASSUME NEW n \in 1 .. N PROVE f[n] = f[n - 1] \o seqs[n]
    <3>1. n - 1 \in 0 .. N
      BY <1>1
    <3> HIDE DEF N
    <3> QED BY <2>1, <2>3, <3>1
  <2>5. 1 \in 1 .. N /\ f[1] = seqs[1]
    <3>1. 1 \in 1 .. N /\ 1 - 1 = 0
      BY <1>1, <1>3
    <3>2. f[1] = <<>> \o seqs[1]
      BY <2>3, <2>4, <3>1
    <3>3. seqs[1] \in Seq(S)
      BY <1>1, <3>1
    <3> QED BY <3>1, <3>2, <3>3, ConcatEmptySeq
  <2> DEFINE b == [i \in 1 .. Len(seqs) |-> f[i]]
  <2>6. b = Body(b)
    <3>1. ASSUME NEW i \in 1 .. Len(seqs)
          PROVE  b[i] = IF i = 1 THEN seqs[i] ELSE b[i - 1] \o seqs[i]
      <4>1. CASE i = 1
        BY <2>5, <4>1
      <4>2. CASE i # 1
        <5>1. i - 1 \in 1 .. Len(seqs)
          BY <4>2
        <5> QED BY <2>4, <4>2, <5>1
      <4> QED BY <4>1, <4>2
    <3>2. b = [i \in 1 .. Len(seqs) |-> b[i]]
      OBVIOUS
    <3> HIDE DEF b
    <3> QED BY <3>1, <3>2
  <2>7. flatten = Body(flatten)
    <3> HIDE DEF b, Body
    <3> QED BY <2>6
  <2>8. FlattenSeq(seqs) = flatten[N]
    BY <1>3 DEF FlattenSeq
  <2> HIDE DEF flatten
  <2>9. \A i \in 1 .. N :
          flatten[i] = IF i = 1 THEN seqs[i] ELSE flatten[i - 1] \o seqs[i]
    BY <2>7
  <2> DEFINE T == {n \in 0 .. N : n = 0 \/ flatten[n] \in W}
  <2>10. ASSUME NEW n \in 0 .. N - 1, n \in T PROVE n + 1 \in T
    <3>1. n + 1 \in 1 .. N /\ n + 1 \in 0 .. N /\ (n + 1) - 1 = n
      BY <1>1
    <3>2. CASE n = 0
      BY <1>1, <2>9, <3>1, <3>2
    <3>3. CASE n # 0
      <4>1. n + 1 # 1 /\ flatten[n] \in W
        BY <2>10, <3>3
      <4>2. flatten[n + 1] = flatten[n] \o seqs[n + 1]
        BY <2>9, <3>1, <4>1
      <4>3. flatten[n] \o seqs[n + 1] \in W
        BY <1>1, <3>1, <4>1
      <4> HIDE DEF Body, b, N
      <4> QED BY <3>1, <4>2, <4>3
    <3> QED BY <3>2, <3>3
  <2>11. 0 \in T /\ N \in 0 .. N
    BY <1>1
  <2>12. N \in T
    <3> HIDE DEF T, N
    <3> QED BY <1>1, <2>10, <2>11, Induct
  <2> QED BY <1>3, <2>8, <2>12
<1> QED BY <1>2, <1>3

-----------------------------------------------------------------------------
(***************************************************************************)
(* Texts of whole netcues.  What follows a line end, or the beginning, up  *)
(* to the next line end is a netcue; this is what NetcueLine says with the *)
(* last line end before a line end.                                        *)
(***************************************************************************)
Ends(chars) == {k \in 1 .. Len(chars) : chars[k] = LineEnd}

Neighbours(chars, s, e) ==
  s < e /\ \A k \in Ends(chars) : k <= s \/ e <= k

WholeText(chars) ==
  /\ chars # <<>> => Len(chars) \in Ends(chars)
  /\ \A e \in Ends(chars), s \in {0} \cup Ends(chars) :
       Neighbours(chars, s, e) => SubSeq(chars, s + 1, e) \in AllCues

Texts == {chars \in Seq(STRING) : WholeText(chars)}

LEMMA TextIsWhole ==
  ASSUME NEW chars \in Texts, chars # <<>>
  PROVE  Line!WholeCues(chars)
<1>1. /\ chars \in Seq(STRING) /\ WholeText(chars) /\ Len(chars) \in Nat
      /\ DOMAIN chars = 1 .. Len(chars)
  BY DEF Texts
<1>2. Line!EndsOf(chars) = Ends(chars)
  BY <1>1 DEF Line!EndsOf, Ends
<1>3. Line!Last(chars) = LineEnd
  BY <1>1 DEF Line!Last, WholeText, Ends
<1>4. ASSUME NEW e \in Ends(chars)
      PROVE  SubSeq(chars,
                    1 + Line!Max({0} \cup {k \in Ends(chars) : k < e}), e) \in AllCues
  <2> DEFINE K == {0} \cup {k \in Ends(chars) : k < e}
             T == {e - k : k \in K}
  <2>1. Ends(chars) \subseteq 1 .. Len(chars) /\ e \in Nat \ {0}
    BY <1>1 DEF Ends
  <2>2. T \subseteq Nat /\ T # {} /\ K \subseteq Nat
    BY <2>1
  <2>3. PICK t \in T : \A u \in T : t <= u
    <3> HIDE DEF T
    <3> QED BY <2>2, Least
  <2>4. PICK s \in K : t = e - s
    BY <2>3
  <2>5. \A k \in K : s >= k
    <3>1. \A k \in K : e - s <= e - k
      BY <2>3, <2>4
    <3> HIDE DEF K
    <3> QED BY <2>1, <2>2, <2>4, <3>1
  <2>6. Line!Max(K) = CHOOSE x \in K : \A y \in K : x >= y
    BY DEF Line!Max
  <2>7. \A x \in K : (\A y \in K : x >= y) => x = s
    <3> HIDE DEF K
    <3> QED BY <2>2, <2>4, <2>5
  <2>8. Line!Max(K) = s
    <3> HIDE DEF K
    <3> QED BY <2>4, <2>5, <2>6, <2>7
  <2>9. Neighbours(chars, s, e) /\ s \in {0} \cup Ends(chars) /\ s \in Nat
    <3>1. s < e /\ s \in {0} \cup Ends(chars) /\ s \in Nat
      BY <2>1, <2>4
    <3>2. \A k \in Ends(chars) : k <= s \/ e <= k
      BY <2>1, <2>5, <3>1
    <3> QED BY <3>1, <3>2 DEF Neighbours
  <2>10. SubSeq(chars, s + 1, e) \in AllCues /\ 1 + s = s + 1
    BY <1>1, <2>9 DEF WholeText
  <2> HIDE DEF K
  <2>11. SubSeq(chars, 1 + Line!Max(K), e) \in AllCues
    BY <2>8, <2>10
  <2> QED BY <2>11 DEF K
<1> QED BY <1>2, <1>3, <1>4 DEF Line!WholeCues

LEMMA TextsJoined ==
  ASSUME NEW a \in Texts, NEW b \in Texts
  PROVE  a \o b \in Texts
<1> DEFINE l == Len(a)
           n == Len(b)
           c == a \o b
<1>1. /\ a \in Seq(STRING) /\ b \in Seq(STRING) /\ l \in Nat /\ n \in Nat
      /\ WholeText(a) /\ WholeText(b)
  BY DEF Texts
<1>2. CASE a = <<>> \/ b = <<>>
  <2>1. a \o b = a \/ a \o b = b
    BY <1>1, <1>2, ConcatEmptySeq
  <2> QED BY <2>1
<1>3. CASE a # <<>> /\ b # <<>>
  <2>1. /\ c \in Seq(STRING) /\ Len(c) = l + n
        /\ \A j \in 1 .. l : c[j] = a[j]
        /\ \A j \in 1 .. n : c[l + j] = b[j]
    BY <1>1, Joined
  <2>2. l \in Ends(a) /\ n \in Ends(b) /\ l > 0 /\ n > 0
    <3>1. l \in Ends(a) /\ n \in Ends(b)
      BY <1>1, <1>3 DEF WholeText
    <3> QED BY <3>1 DEF Ends
  <2> HIDE DEF c, l, n
  <2>3. \A k \in 1 .. l : k \in Ends(c) <=> k \in Ends(a)
    BY <1>1, <2>1 DEF Ends, l
  <2>4. \A k \in 1 .. n : l + k \in Ends(c) <=> k \in Ends(b)
    <3>1. \A k \in 1 .. n : l + k \in 1 .. l + n
      BY <1>1
    <3> QED BY <2>1, <3>1 DEF Ends, n
  <2>5. Ends(c) \subseteq 1 .. l + n /\ Ends(a) \subseteq 1 .. l
        /\ Ends(b) \subseteq 1 .. n
    BY <2>1 DEF Ends, l, n
  <2>6. Len(c) \in Ends(c)
    BY <2>1, <2>2, <2>4, <2>5
  <2>7. ASSUME NEW e \in Ends(c), NEW s \in {0} \cup Ends(c), Neighbours(c, s, e)
        PROVE  SubSeq(c, s + 1, e) \in AllCues
    <3>1. /\ e \in 1 .. l + n /\ s \in 0 .. l + n /\ s < e
          /\ \A k \in Ends(c) : k <= s \/ e <= k
      BY <1>1, <2>5, <2>7 DEF Neighbours
    <3>2. CASE e <= l
      <4>1. e \in 1 .. l /\ s \in 0 .. l /\ s \in 0 .. e
        BY <1>1, <3>1, <3>2
      <4>2. e \in Ends(a) /\ s \in {0} \cup Ends(a)
        BY <2>3, <2>7, <4>1
      <4>3. Neighbours(a, s, e)
        BY <2>3, <2>5, <3>1 DEF Neighbours
      <4>4. SubSeq(a, s + 1, e) \in AllCues
        BY <1>1, <4>2, <4>3 DEF WholeText
      <4>5. SubSeq(a \o b, s + 1, e) = SubSeq(a, s + 1, e)
        <5>1. e \in 0 .. Len(a)
          BY <1>1, <4>1 DEF l
        <5> QED BY <1>1, <4>1, <5>1, PieceOfFirst
      <4> QED BY <4>4, <4>5 DEF c
    <3>3. CASE ~(e <= l)
      <4>1. l <= s
        BY <2>2, <2>3, <2>5, <3>1, <3>3
      <4> DEFINE f == e - l
                 r == s - l
      <4>2. /\ f \in 1 .. n /\ r \in 0 .. n /\ r \in 0 .. f /\ r < f
            /\ e = l + f /\ s = l + r /\ f \in 0 .. n
        BY <1>1, <3>1, <3>3, <4>1
      <4> HIDE DEF f, r
      <4>3. f \in Ends(b) /\ r \in {0} \cup Ends(b)
        <5>1. r = 0 \/ r \in 1 .. n
          BY <4>2
        <5>2. r \in 1 .. n => l + r \in Ends(c)
          <6>1. r \in 1 .. n => l + r # 0
            BY <1>1
          <6> QED BY <2>7, <4>2, <6>1
        <5> QED BY <2>4, <2>7, <4>2, <5>1, <5>2
      <4>4. ASSUME NEW k \in Ends(b) PROVE k <= r \/ f <= k
        <5>1. k \in 1 .. n
          BY <2>5
        <5>2. l + k \in Ends(c)
          BY <2>4, <5>1
        <5>3. l + k <= l + r \/ l + f <= l + k
          BY <3>1, <4>2, <5>2
        <5> QED BY <1>1, <4>2, <5>1, <5>3
      <4>5. SubSeq(b, r + 1, f) \in AllCues
        BY <1>1, <4>2, <4>3, <4>4 DEF WholeText, Neighbours
      <4>6. SubSeq(a \o b, (Len(a) + r) + 1, Len(a) + f) = SubSeq(b, r + 1, f)
        <5>1. f \in 0 .. Len(b)
          BY <4>2 DEF n
        <5> QED BY <1>1, <4>2, <5>1, PieceOfSecond
      <4> QED BY <4>2, <4>5, <4>6 DEF c, l
    <3> QED BY <3>2, <3>3
  <2>8. WholeText(c)
    BY <2>6, <2>7 DEF WholeText
  <2> QED BY <2>1, <2>8 DEF Texts, c
<1> QED BY <1>2, <1>3

LEMMA Extended ==
  ASSUME NEW S, NEW s \in Seq(S), NEW x \in S
  PROVE  /\ Append(s, x) \in Seq(S) /\ Len(Append(s, x)) = Len(s) + 1
         /\ Append(s, x)[Len(s) + 1] = x
         /\ \A j \in 1 .. Len(s) : Append(s, x)[j] = s[j]
OBVIOUS

(* A netcue, or none, is such a text.                                      *)
LEMMA CueIsText ==
  ASSUME NEW o \in Outputs, NEW l \in Lines
  PROVE  CueOf(o, l) \in Texts
<1> DEFINE t == Netcue[o][l]
           c == Append(t, LineEnd)
           n == Len(t)
<1>1. t \in Seq(STRING) /\ LineEnd \in STRING /\ LineEnd \notin Range(t)
  BY NetcueAssumption
<1> HIDE DEF t
<1>2. n \in Nat /\ \A j \in 1 .. n : t[j] # LineEnd
  <2>1. n \in Nat /\ DOMAIN t = 1 .. n
    BY <1>1
  <2> QED BY <1>1, <2>1 DEF Range
<1>3. /\ c \in Seq(STRING) /\ Len(c) = n + 1 /\ c[n + 1] = LineEnd
      /\ \A j \in 1 .. n : c[j] = t[j]
  <2> DEFINE S == STRING
  <2>1. t \in Seq(S) /\ LineEnd \in S
    BY <1>1
  <2> HIDE DEF S
  <2>2. /\ Append(t, LineEnd) \in Seq(S)
        /\ Len(Append(t, LineEnd)) = Len(t) + 1
        /\ Append(t, LineEnd)[Len(t) + 1] = LineEnd
        /\ \A j \in 1 .. Len(t) : Append(t, LineEnd)[j] = t[j]
    BY <2>1, Extended
  <2> QED BY <2>2 DEF S
<1>4. CueOf(o, l) = c /\ c \in AllCues
  BY DEF CueOf, AllCues, t
<1> HIDE DEF c, n
<1>5. Ends(c) = {n + 1}
  <2>1. ASSUME NEW k \in 1 .. n + 1 PROVE c[k] = LineEnd <=> k = n + 1
    <3>1. k = n + 1 \/ k \in 1 .. n
      BY <1>2
    <3> QED BY <1>2, <1>3, <3>1
  <2>2. n + 1 \in 1 .. n + 1
    BY <1>2
  <2> QED BY <1>3, <2>1, <2>2 DEF Ends
<1>6. SubSeq(c, 0 + 1, n + 1) = c
  BY <1>2, <1>3, SubSeqFull
<1>7. WholeText(c)
  <2>1. Len(c) \in Ends(c)
    BY <1>3, <1>5
  <2>2. ASSUME NEW e \in Ends(c), NEW s \in {0} \cup Ends(c), Neighbours(c, s, e)
        PROVE  SubSeq(c, s + 1, e) \in AllCues
    <3>1. e = n + 1 /\ s < e
      BY <1>5, <2>2 DEF Neighbours
    <3>2. s = 0
      BY <1>2, <1>5, <3>1
    <3> QED BY <1>4, <1>6, <3>1, <3>2
  <2> QED BY <2>1, <2>2 DEF WholeText
<1> QED BY <1>3, <1>4, <1>7 DEF Texts

LEMMA TextsFlattened ==
  ASSUME NEW seqs \in Seq(Texts)
  PROVE  FlattenSeq(seqs) \in Texts
<1>1. <<>> \in Texts
  <2>1. Ends(<<>>) = {} /\ <<>> \in Seq(STRING)
    BY DEF Ends
  <2> QED BY <2>1 DEF Texts, WholeText
<1>2. Texts \subseteq Seq(STRING) /\ \A x, y \in Texts : x \o y \in Texts
  BY TextsJoined DEF Texts
<1> QED BY <1>1, <1>2, Flattened

(* What a scan sends to the device.                                        *)
LEMMA CuesAreText ==
  ASSUME TypeOK
  PROVE  AllCuesDue \in Texts
<1>1. /\ InputQuantity \in Nat /\ Inputs = 1 .. InputQuantity
      /\ Cardinality(Outputs) \in Nat /\ Outputs = 1 .. Cardinality(Outputs)
  BY NetcuesAssumption, ConfigurationAssumption
<1>2. ASSUME NEW n \in Nat, NEW f, f \in [1 .. n -> Texts]
      PROVE  f \in Seq(Texts)
  BY <1>2
<1>3. <<>> \in Texts
  <2>1. <<>> \in Seq(Texts) /\ FlattenSeq(<<>>) = <<>>
    BY DEF FlattenSeq
  <2> QED BY <2>1, TextsFlattened
<1>4. ASSUME NEW i \in Inputs PROVE CuesDue(i) \in Texts
  <2> DEFINE d == DueCount(i)
             Cue(j, o) == IF router_crosspoints[o] = i THEN CueOf(o, Due(i)[j].line)
                                                      ELSE <<>>
             Cues(j) == [o \in Outputs |-> Cue(j, o)]
             all == [j \in DOMAIN Due(i) |-> FlattenSeq(Cues(j))]
  <2>1. /\ d \in Nat /\ DOMAIN Due(i) = 1 .. d
        /\ \A j \in 1 .. d : Due(i)[j].line \in Lines
    <3>1. d \in 0 .. Len(gpio_events[i]) /\ Len(gpio_events[i]) \in Nat
      BY DueCountIs DEF TypeOK
    <3>2. Due(i) \in Seq(Event) /\ DOMAIN Due(i) = 1 .. d
      BY RestIs
    <3>3. \A j \in 1 .. d : Due(i)[j] \in Event
      BY <3>1, <3>2
    <3> QED BY <3>1, <3>2, <3>3 DEF Event
  <2>2. ASSUME NEW j \in 1 .. d PROVE FlattenSeq(Cues(j)) \in Texts
    <3>1. \A o \in Outputs : Cue(j, o) \in Texts
      BY <1>3, <2>1, CueIsText
    <3> HIDE DEF Cue
    <3>2. Cues(j) \in Seq(Texts)
      BY <1>1, <1>2, <3>1
    <3> HIDE DEF Cues
    <3> QED BY <3>2, TextsFlattened
  <2>3. CuesDue(i) = FlattenSeq(all)
    BY DEF CuesDue
  <2> HIDE DEF d, Cues
  <2>4. all \in Seq(Texts)
    BY <1>2, <2>1, <2>2
  <2> HIDE DEF all
  <2> QED BY <2>3, <2>4, TextsFlattened
<1>5. [i \in Inputs |-> CuesDue(i)] \in Seq(Texts)
  BY <1>1, <1>2, <1>4
<1> QED BY <1>5, TextsFlattened DEF AllCuesDue

-----------------------------------------------------------------------------
(***************************************************************************)
(* The device.  It is open only when the routers have been started, its    *)
(* queue is empty when it is not open, and the kernel holds no more than   *)
(* the device lets it, so that all that is written is taken.               *)
(***************************************************************************)
TtyInv ==
  /\ uart \in Seq(STRING) /\ tty_write_queue \in Seq(STRING)
  /\ Len(uart) <= TtyLimit
  /\ started \in BOOLEAN /\ rml_accum \in {"", "begun"} /\ tty_open \in BOOLEAN
  /\ ~started => ~tty_open
  /\ ~tty_open => tty_write_queue = <<>>

LEMMA TailJoined ==
  ASSUME NEW S, NEW a \in Seq(S), NEW b \in Seq(S), a # <<>>
  PROVE  /\ a \o b # <<>> /\ Tail(a) \in Seq(S) /\ Len(Tail(a)) = Len(a) - 1
         /\ Tail(a) \o b = Tail(a \o b)
<1> DEFINE c == a \o b
           t == Tail(a)
           u == Tail(c)
           d == t \o b
<1>1. /\ c \in Seq(S) /\ Len(c) = Len(a) + Len(b)
      /\ \A j \in 1 .. Len(a) : c[j] = a[j]
      /\ \A j \in 1 .. Len(b) : c[Len(a) + j] = b[j]
  BY Joined
<1>2. /\ Len(a) \in Nat \ {0} /\ Len(b) \in Nat
      /\ t \in Seq(S) /\ Len(t) = Len(a) - 1
      /\ \A j \in 1 .. Len(t) : t[j] = a[j + 1]
  BY HeadTailProperties
<1> HIDE DEF c, t
<1>3. c # <<>>
  <2>1. Len(c) # 0
    BY <1>1, <1>2
  <2> QED BY <2>1
<1>4. /\ u \in Seq(S) /\ Len(u) = Len(c) - 1
      /\ \A j \in 1 .. Len(u) : u[j] = c[j + 1]
  BY <1>1, <1>3, HeadTailProperties
<1>5. /\ d \in Seq(S) /\ Len(d) = Len(t) + Len(b)
      /\ \A j \in 1 .. Len(t) : d[j] = t[j]
      /\ \A j \in 1 .. Len(b) : d[Len(t) + j] = b[j]
  <2>1. t \in Seq(S)
    BY <1>2
  <2> QED BY <2>1, Joined
<1> DEFINE la == Len(a)
           lb == Len(b)
<1>6. Len(d) = (la - 1) + lb /\ Len(u) = (la - 1) + lb
  BY <1>1, <1>2, <1>4, <1>5
<1> HIDE DEF u, d
<1>7. ASSUME NEW j \in 1 .. Len(d) PROVE d[j] = u[j]
  <2>0. la \in Nat \ {0} /\ lb \in Nat /\ j \in 1 .. (la - 1) + lb
    BY <1>2, <1>6
  <2>1. u[j] = c[j + 1]
    BY <1>4, <1>6
  <2>2. CASE j <= la - 1
    <3>1. j \in 1 .. Len(t) /\ j + 1 \in 1 .. Len(a)
      BY <1>2, <2>2, <2>0
    <3> QED BY <1>1, <1>2, <1>5, <2>1, <3>1
  <2>3. CASE ~(j <= la - 1)
    <3> DEFINE k == j - (la - 1)
    <3>1. k \in 1 .. lb /\ (la - 1) + k = j /\ la + k = j + 1
      <4> HIDE DEF la, lb
      <4> QED BY <2>0, <2>3
    <3> HIDE DEF k
    <3>2. d[Len(t) + k] = b[k] /\ Len(t) + k = j
      BY <1>2, <1>5, <3>1
    <3>3. c[Len(a) + k] = b[k]
      BY <1>1, <3>1
    <3> QED BY <2>1, <3>1, <3>2, <3>3
  <2> QED BY <2>2, <2>3
<1>8. d = u
  BY <1>4, <1>5, <1>6, <1>7, SeqEqual
<1> QED BY <1>2, <1>3, <1>8 DEF d, u, c, t

(* What is written is taken, and goes from the queue to the kernel.        *)
LEMMA WriteMoves ==
  ASSUME TtyInv, WriteTtyData
  PROVE  /\ uart' \in Seq(STRING) /\ tty_write_queue' \in Seq(STRING)
         /\ Len(uart') <= TtyLimit
         /\ uart' \o tty_write_queue' = uart \o tty_write_queue
<1> DEFINE S == STRING
           q == tty_write_queue
           w == WriteCount
           p == SubSeq(q, 1, w)
           r == SubSeq(q, w + 1, Len(q))
<1>1. /\ q \in Seq(S) /\ uart \in Seq(S) /\ Len(q) \in Nat /\ Len(uart) \in Nat
      /\ Len(uart) <= TtyLimit /\ TtyLimit \in Nat /\ UartSize \in Nat
      /\ TtyLimit <= UartSize
  <2>1. q \in Seq(S) /\ uart \in Seq(S) /\ Len(uart) <= TtyLimit
    BY DEF TtyInv
  <2> HIDE DEF S, q
  <2>2. Len(q) \in Nat /\ Len(uart) \in Nat
    BY <2>1
  <2> QED BY <2>1, <2>2, NetcuesAssumption
<1>2. w \in 0 .. Len(q) /\ Len(uart) + w <= TtyLimit
  BY <1>1 DEF WriteCount
<1> HIDE DEF S, w
<1>3. /\ p \in Seq(S) /\ Len(p) = w /\ r \in Seq(S) /\ p \o r = q
  BY <1>1, <1>2, PiecesJoined
<1>4. uart' = uart \o Accepted(p) /\ q' = r
  BY DEF WriteTtyData, w
<1> HIDE DEF q, p, r
<1>5. Accepted(p) = p
  <2>1. Len(p) <= UartSize - Len(uart)
    BY <1>1, <1>2, <1>3
  <2> QED BY <2>1 DEF Accepted
<1>6. uart' = uart \o p
  BY <1>4, <1>5
<1>7. uart \o p \in Seq(S) /\ Len(uart \o p) = Len(uart) + Len(p)
  BY <1>1, <1>3, Joined
<1>8. (uart \o p) \o r = uart \o q
  <2>1. uart \in Seq(S) /\ p \in Seq(S) /\ r \in Seq(S)
    BY <1>1, <1>3
  <2>2. (uart \o p) \o r = uart \o (p \o r)
    BY <2>1, ConcatAssociative
  <2> QED BY <1>3, <2>2
<1> QED BY <1>2, <1>3, <1>4, <1>6, <1>7, <1>8 DEF S, q

LEMMA ScanAppends ==
  ASSUME TtyInv, TypeOK, ScanEvents, tty_open
  PROVE  /\ AllCuesDue \in Texts
         /\ tty_write_queue' = tty_write_queue \o AllCuesDue
         /\ tty_write_queue' \in Seq(STRING)
         /\ uart' \o tty_write_queue' = (uart \o tty_write_queue) \o AllCuesDue
<1> DEFINE S == STRING
           a == AllCuesDue
<1>1. /\ a \in Texts /\ a \in Seq(S)
      /\ uart \in Seq(S) /\ tty_write_queue \in Seq(S)
  BY CuesAreText DEF Texts, TtyInv
<1>2. tty_write_queue' = tty_write_queue \o a /\ uart' = uart
  BY DEF ScanEvents
<1> HIDE DEF S, a
<1>3. tty_write_queue \o a \in Seq(S)
  BY <1>1, Joined
<1>4. (uart \o tty_write_queue) \o a = uart \o (tty_write_queue \o a)
  BY <1>1, ConcatAssociative
<1> QED BY <1>1, <1>2, <1>3, <1>4 DEF S, a

LEMMA TtyStep ==
  ASSUME TtyInv, TypeOK, [NetcuesNext]_netcues
  PROVE  TtyInv'
<1>1. CASE LoadConfiguration \/ UNCHANGED netcues
  <2>1. UNCHANGED <<started, rml_accum, tty_open, tty_write_queue, uart>>
    BY <1>1 DEF LoadConfiguration, netcues, tty
  <2> QED BY <2>1 DEF TtyInv
<1>2. CASE StartRouters
  <2>1. UNCHANGED <<tty_write_queue, uart, rml_accum>> /\ started'
        /\ tty_open' \in BOOLEAN /\ tty_write_queue = <<>>
    BY <1>2 DEF StartRouters, OpenDevice, TtyInv
  <2>2. started' = TRUE
    BY <1>2 DEF StartRouters
  <2> QED BY <2>1, <2>2 DEF TtyInv
<1>3. CASE EventReceived
  <2>1. rml_accum' \in {"", "begun"}
    BY <1>3 DEF EventReceived, RmlCommand, RmlFragment, TtyInv
  <2> QED BY <1>3, <2>1 DEF EventReceived, tty, TtyInv
<1>4. CASE Elsewhere
  BY <1>4 DEF Elsewhere, tty, TtyInv
<1>5. CASE ScanEvents
  <2>1. UNCHANGED <<started, rml_accum, tty_open, uart>> /\ started
    BY <1>5 DEF ScanEvents
  <2>2. tty_write_queue' \in Seq(STRING)
    BY <1>5, ScanAppends DEF ScanEvents, TtyInv
  <2>3. ~tty_open => tty_write_queue' = tty_write_queue
    BY <1>5 DEF ScanEvents
  <2> QED BY <2>1, <2>2, <2>3 DEF TtyInv
<1>6. CASE WriteTtyData
  <2>1. UNCHANGED <<started, rml_accum, tty_open>> /\ tty_open
    BY <1>6 DEF WriteTtyData
  <2> QED BY <1>6, <2>1, WriteMoves DEF TtyInv
<1>7. CASE UartTransmits
  <2>1. /\ uart # <<>> /\ uart' = Tail(uart)
        /\ UNCHANGED <<started, rml_accum, tty_open, tty_write_queue>>
    BY <1>7 DEF UartTransmits
  <2>2. Tail(uart) \in Seq(STRING) /\ Len(Tail(uart)) <= TtyLimit
    <3> DEFINE S == STRING
    <3>1. uart \in Seq(S) /\ Len(uart) <= TtyLimit /\ TtyLimit \in Nat
      BY NetcuesAssumption DEF TtyInv
    <3> HIDE DEF S
    <3>2. Tail(uart) \in Seq(S) /\ Len(Tail(uart)) = Len(uart) - 1
          /\ Len(uart) \in Nat
      BY <2>1, <3>1, HeadTailProperties
    <3>3. Len(Tail(uart)) <= TtyLimit
      BY <3>1, <3>2
    <3> QED BY <3>2, <3>3 DEF S
  <2> QED BY <2>1, <2>2 DEF TtyInv
<1> QED BY <1>1, <1>2, <1>3, <1>4, <1>5, <1>6, <1>7 DEF NetcuesNext

LEMMA TtyAlways == NetcuesSpec => [](TtyInv /\ TypeOK)
<1>1. NetcuesInit => TtyInv
  <2> SUFFICES ASSUME NetcuesInit PROVE TtyInv
    OBVIOUS
  <2>1. <<>> \in Seq(STRING) /\ Len(<<>>) <= TtyLimit
    BY NetcuesAssumption
  <2> QED BY <2>1 DEF NetcuesInit, TtyInv
<1>2. TtyInv /\ TypeOK /\ [NetcuesNext]_netcues => TtyInv'
  BY TtyStep
<1>3. NetcuesSpec => []TypeOK
  BY NetcuesImplementRouter, EventTypeCorrect, PTL
<1> QED BY <1>1, <1>2, <1>3, PTL DEF NetcuesSpec

(* Whatever is configured, received and switched, everything in the daemon *)
(* keeps to its type, and the count that writeTtyData() derives from       *)
(* TIOCOUTQ is never negative.                                             *)
THEOREM NetcuesTypeCorrect == NetcuesSpec => []NetcuesTypeOK
<1>1. TtyInv /\ TypeOK /\ ConfigInv => NetcuesTypeOK
  BY DEF TtyInv, ConfigInv, NetcuesTypeOK
<1> QED BY <1>1, TtyAlways, ConfigAlways, PTL

(* What one text adds to what was to be sent.                              *)
LEMMA SendsText ==
  ASSUME NEW old \in Seq(STRING), NEW text \in Texts, text # <<>>,
         NEW new, new = old \o text
  PROVE  /\ IsStrictPrefix(old, new)
         /\ SubSeq(new, Len(old) + 1, Len(new)) = text
<1> DEFINE S == STRING
<1>1. old \in Seq(S) /\ text \in Seq(S) /\ Len(old) \in Nat
      /\ Len(text) \in Nat /\ Len(text) # 0
  BY DEF Texts
<1> HIDE DEF S
<1>2. new \in Seq(S) /\ Len(new) = Len(old) + Len(text)
  BY <1>1, Joined
<1>3. SubSeq(new, 0 + 1, Len(old)) = SubSeq(old, 0 + 1, Len(old))
  <2>1. Len(old) \in 0 .. Len(old) /\ 0 \in 0 .. Len(old)
    BY <1>1
  <2> QED BY <1>1, <2>1, PieceOfFirst
<1>4. SubSeq(new, (Len(old) + 0) + 1, Len(old) + Len(text))
        = SubSeq(text, 0 + 1, Len(text))
  <2>1. Len(text) \in 0 .. Len(text) /\ 0 \in 0 .. Len(text)
    BY <1>1
  <2> QED BY <1>1, <2>1, PieceOfSecond
<1>5. SubSeq(text, 1, Len(text)) = text
  BY <1>1, SubSeqFull
<1>6. 0 + 1 = 1 /\ (Len(old) + 0) + 1 = Len(old) + 1 /\ Len(old) <= Len(new)
      /\ Len(new) # Len(old)
  BY <1>1, <1>2
<1>7. new # old
  BY <1>6
<1> QED BY <1>2, <1>3, <1>4, <1>5, <1>6, <1>7 DEF IsStrictPrefix, IsPrefix

(***************************************************************************)
(* However scans, writes and transmission interleave, whatever is due at   *)
(* once and whatever the sizes, whole netcues leave the port in the order  *)
(* in which they were sent, and nothing is lost in between.                *)
(***************************************************************************)
THEOREM NetcuesImplementLine == NetcuesSpec => ImplementsNetcueLine
<1> DEFINE chars == uart \o tty_write_queue
<1>1. NetcuesInit => Line!Init
  <2> SUFFICES ASSUME NetcuesInit PROVE chars = <<>>
    BY DEF Line!Init
  <2>1. <<>> \in Seq(STRING)
    OBVIOUS
  <2>2. <<>> \o <<>> = <<>>
    BY <2>1, ConcatEmptySeq
  <2> QED BY <2>2 DEF NetcuesInit
<1>2. TtyInv /\ TypeOK /\ [NetcuesNext]_netcues => [Line!Next]_chars
  <2> SUFFICES ASSUME TtyInv, TypeOK, [NetcuesNext]_netcues
               PROVE  Line!Next \/ chars' = chars
    OBVIOUS
  <2>1. ASSUME UNCHANGED <<uart, tty_write_queue>> PROVE chars' = chars
    BY <2>1
  <2>2. CASE LoadConfiguration \/ StartRouters \/ EventReceived \/ Elsewhere
             \/ UNCHANGED netcues
    <3>1. UNCHANGED <<uart, tty_write_queue>>
      BY <2>2 DEF LoadConfiguration, StartRouters, OpenDevice, EventReceived,
                  Elsewhere, tty, netcues
    <3> QED BY <2>1, <3>1
  <2>3. CASE ScanEvents
    <3>1. CASE ~tty_open
      BY <2>1, <2>3, <3>1 DEF ScanEvents
    <3>2. CASE tty_open
      <4> DEFINE a == AllCuesDue
      <4>1. a \in Texts /\ chars' = chars \o a
        BY <2>3, <3>2, ScanAppends
      <4>2. chars \in Seq(STRING)
        <5> DEFINE S == STRING
        <5>1. uart \in Seq(S) /\ tty_write_queue \in Seq(S)
          BY DEF TtyInv
        <5> HIDE DEF S
        <5>2. chars \in Seq(S)
          BY <5>1, Joined
        <5> QED BY <5>2 DEF S
      <4> HIDE DEF a
      <4>3. CASE a = <<>>
        <5>1. chars \o <<>> = chars
          BY <4>2, ConcatEmptySeq
        <5> QED BY <4>1, <4>3, <5>1
      <4>4. CASE a # <<>>
        <5>1. /\ IsStrictPrefix(chars, chars')
              /\ SubSeq(chars', Len(chars) + 1, Len(chars')) = a
          <6> HIDE DEF chars
          <6> QED BY <4>1, <4>2, <4>4, SendsText
        <5>2. Line!WholeCues(a)
          BY <4>1, <4>4, TextIsWhole
        <5>3. Line!Send
          BY <5>1, <5>2 DEF Line!Send, Line!IsStrictPrefix, Line!IsPrefix,
                            IsStrictPrefix, IsPrefix
        <5> QED BY <5>3 DEF Line!Next
      <4> QED BY <4>3, <4>4
    <3> QED BY <3>1, <3>2
  <2>4. CASE WriteTtyData
    BY <2>4, WriteMoves
  <2>5. CASE UartTransmits
    <3>1. /\ uart # <<>> /\ uart' = Tail(uart)
          /\ tty_write_queue' = tty_write_queue
      BY <2>5 DEF UartTransmits
    <3>2. chars # <<>> /\ Tail(uart) \o tty_write_queue = Tail(chars)
      <4> DEFINE S == STRING
      <4>1. uart \in Seq(S) /\ tty_write_queue \in Seq(S)
        BY DEF TtyInv
      <4> HIDE DEF S
      <4> QED BY <3>1, <4>1, TailJoined
    <3>3. Line!Transmit
      BY <3>1, <3>2 DEF Line!Transmit
    <3> QED BY <3>3 DEF Line!Next
  <2> QED BY <2>2, <2>3, <2>4, <2>5 DEF NetcuesNext
<1> QED BY <1>1, <1>2, TtyAlways, PTL
        DEF NetcuesSpec, ImplementsNetcueLine, Line!Spec
=============================================================================
