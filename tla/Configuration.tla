----------------------------- MODULE Configuration -----------------------------
(***************************************************************************)
(* Reading of the inputs' source addresses from the configuration file     *)
(* (config.cpp): each [Input<n>] section's SourceIpAddress<k> up to the    *)
(* first k that is missing.  An address that occurs twice, in one section  *)
(* or in two, makes the daemon exit before it has started anything; then   *)
(* it is started again, with the file as it is by that time.               *)
(*                                                                         *)
(* Sections and keys are numbered from 1, as in the file.  The other       *)
(* values of the file are the CONSTANTS of the modules that use them.      *)
(***************************************************************************)
EXTENDS Integers, Sequences, FiniteSets, Functions

CONSTANTS
  MaxInputs,       \* MAX_INPUTS, the number of sections that are read
  InputQuantity,
  Addresses,
  NoAddress,       \* a key that is missing
  Profiles         \* the files: of each section, the values of its keys

ASSUME ConfigurationAssumption ==
  /\ MaxInputs \in Nat /\ InputQuantity \in 1 .. MaxInputs
  /\ NoAddress \notin Addresses

Sections == 1 .. MaxInputs

ASSUME ProfilesAssumption ==
  Profiles \subseteq [Sections -> Seq(Addresses \cup {NoAddress})]

VARIABLES
  profile,                 \* the file
  conf_input_addresses,
  section,                 \* the section that is read
  loading                  \* "reading", "refused" or "loaded"

configuration == <<profile, conf_input_addresses, section, loading>>

ConfigInit ==
  /\ profile \in Profiles
  /\ conf_input_addresses = [i \in Sections |-> <<>>]
  /\ section = 1 /\ loading = "reading"

AddressValue(i, k) ==
  IF k <= Len(profile[i]) THEN profile[i][k] ELSE NoAddress

(* The key that is due: every key that was found has been appended.        *)
NextAddress == AddressValue(section, Len(conf_input_addresses[section]) + 1)

(* A wrong variant: the section's own addresses are not looked at.         *)
DuplicateInOther(a) ==
  \E j \in 1 .. section - 1 : a \in Range(conf_input_addresses[j])

Duplicate(a) == \E j \in 1 .. section : a \in Range(conf_input_addresses[j])

AppendAddress ==
  /\ NextAddress # NoAddress /\ ~Duplicate(NextAddress)
  /\ conf_input_addresses' =
       [conf_input_addresses EXCEPT ![section] = Append(@, NextAddress)]
  /\ UNCHANGED <<profile, section, loading>>

RefuseAddress ==
  /\ NextAddress # NoAddress /\ Duplicate(NextAddress)
  /\ loading' = "refused"
  /\ UNCHANGED <<profile, conf_input_addresses, section>>

EndSection ==
  /\ NextAddress = NoAddress
  /\ IF section < MaxInputs
     THEN section' = section + 1 /\ UNCHANGED loading
     ELSE loading' = "loaded" /\ UNCHANGED section
  /\ UNCHANGED <<profile, conf_input_addresses>>

ReadConfiguration ==
  loading = "reading" /\ (AppendAddress \/ RefuseAddress \/ EndSection)

(* A new start of the daemon.                                              *)
ReloadConfiguration ==
  /\ loading # "reading"
  /\ profile' \in Profiles
  /\ conf_input_addresses' = [i \in Sections |-> <<>>]
  /\ section' = 1 /\ loading' = "reading"

(* input(): the input that an address speaks for, or 0 (-1 in the code).   *)
InputOf(a) ==
  LET found == {i \in 1 .. InputQuantity : a \in Range(conf_input_addresses[i])}
  IN  IF found = {} THEN 0 ELSE CHOOSE i \in found : \A j \in found : i <= j

-----------------------------------------------------------------------------
ConfigurationTypeOK ==
  /\ profile \in Profiles
  /\ conf_input_addresses \in [Sections -> Seq(Addresses)]
  /\ section \in Sections
  /\ loading \in {"reading", "refused", "loaded"}

(* Where the file names an address, before the first gap of a section.     *)
Entries(a) ==
  {e \in UNION {{i} \X (1 .. Len(profile[i])) : i \in Sections} :
     /\ AddressValue(e[1], e[2]) = a
     /\ \A m \in 1 .. e[2] : AddressValue(e[1], m) # NoAddress}

(***************************************************************************)
(* "duplicate SourceIpAddress entry ... in [Input%d] and [Input%d]"        *)
(* (config.cpp:117): a file is taken only if no address occurs twice, and  *)
(* then every input has exactly its section's addresses; it is refused     *)
(* only for an address that does occur twice.                              *)
(***************************************************************************)
AddressesAsListed ==
  [][ /\ loading = "reading" /\ loading' = "loaded" =>
           \A a \in Addresses :
             /\ Cardinality(Entries(a)) <= 1
             /\ \A i \in Sections :
                  a \in Range(conf_input_addresses'[i])
                    <=> \E e \in Entries(a) : e[1] = i
      /\ loading = "reading" /\ loading' = "refused" =>
           \E a \in Addresses : Cardinality(Entries(a)) > 1 ]_configuration
===============================================================================
