------------------------------- MODULE MCNetcues -------------------------------
(* Files with up to two keys in each of two sections, of which the first   *)
(* is the one input that is configured, and the netcues.                   *)
EXTENDS Netcues

Keys == {<<>>} \cup [1 .. 1 -> Addresses \cup {NoAddress}]
               \cup [1 .. 2 -> Addresses \cup {NoAddress}]

MCProfiles == [Sections -> Keys]

(* The address of input 1 and one that speaks for no input.                *)
MCRunProfiles ==
  {f \in MCProfiles : Range(f[1]) = {"a1"} /\ f[2] = <<"a2">> /\ Len(f[1]) = 1}

(* Two outputs of which one has a netcue for one line only.                *)
MCNetcue == << <<  <<"a">>, <<"b">> >>, << <<>>, <<"c">> >> >>
===============================================================================
