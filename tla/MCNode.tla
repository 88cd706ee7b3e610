-------------------------------- MODULE MCNode --------------------------------
(***************************************************************************)
(* Three VFs of one PF and three pods for TLC, so that a VF is used again  *)
(* while another one is in use and a third one comes or goes.  The bridge  *)
(* has a second uplink, which carries VLAN 20 from the start.              *)
(***************************************************************************)
EXTENDS Node, TLC

CONSTANTS v1, v2, v3, u1, u2, br1, p1, p2, p3

MCVlan == {1, 10, 20}
MCUplinkOf == [v \in Vf |-> u1]
MCBridgeOf == [u \in Uplink |-> br1]
MCAdminVlans == u1 :> {1} @@ u2 :> {20}

MCConfig ==
  {[bridge |-> br1, vlan |-> 10, trunk |-> {}, setUplinkVlan |-> TRUE],
   [bridge |-> br1, vlan |-> 20, trunk |-> {10}, setUplinkVlan |-> TRUE],
   [bridge |-> br1, vlan |-> 0, trunk |-> {10}, setUplinkVlan |-> FALSE]}

MCSymmetry == Permutations(Pod) \cup Permutations(Vf)
=============================================================================
