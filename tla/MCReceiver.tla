------------------------------ MODULE MCReceiver ------------------------------
(***************************************************************************)
(* Receiver for TLC: host h1 may be configured statically (ID 1, its       *)
(* address) and lies inside the scanned subnet too (ID 2, address and      *)
(* subnet); host h2 is only scanned (ID 3).                                *)
(***************************************************************************)
EXTENDS Receiver

MCIDs       == 1..3
MCHosts     == <<"h1", "h1", "h2">>
MCAddressOf == [d \in IDs |-> MCHosts[d]]

(* The static device's profile is detected, not configured.                *)
MCConfigProfile == [d \in StaticIDs |-> Unset]

(* Hardware of two models, and of one no profile matches.                  *)
MCProfileOf == [o \in Objects |-> CASE o = "oA" -> "pA" [] o = "oB" -> "pB" [] OTHER -> Unset]

(* Hardware answers to its own profile only.                               *)
MCServes == {<<o, ProfileOf[o]>> : o \in Objects} \cap (Objects \X Profiles)

(* The subnet is configured with what every host accepts or not at all; or *)
(* the operator edits the list between the runs.                           *)
MCSecret  == [a \in Addresses |-> "c1"]
OneList   == {<<>>, <<"c1">>}
ManyLists == {<<>>, <<"c1">>, <<"c2", "c1">>}

(* h1 works beside a host no profile matches, or h2 beside a host whose    *)
(* profile is broken.                                                      *)
MCNets == {<<"oA", "oX">>, <<"oB", "oA">>}
MCInit == Init /\ <<net["h1"], net["h2"]>> \in MCNets
MCSpec == MCInit /\ [][Next]_vars
=============================================================================
