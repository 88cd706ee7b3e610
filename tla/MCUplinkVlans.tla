---------------------------- MODULE MCUplinkVlans ----------------------------
(***************************************************************************)
(* Small nodes for TLC: two or three VFs on one uplink, VLANs 1, 10 and    *)
(* 20.  Every configuration the code tells apart is in one of the sets     *)
(* below: native VLAN, trunk, both, none, VLAN 1 asked for by name, with   *)
(* and without setUplinkVlan, on and off the uplink's bridge.              *)
(***************************************************************************)
EXTENDS UplinkVlans

CONSTANTS v1, v2, v3, u1, br1, br2

MCVlan == {1, 10, 20}

Cfg(b, vlan, trunk, set) ==
  [bridge |-> b, vlan |-> vlan, trunk |-> trunk, setUplinkVlan |-> set]

\* All VFs on one PF, the PF on br1, with the kernel's default VLAN.
MCOneUplink == [v \in Vf |-> u1]
MCOneBridge == [u \in Uplink |-> br1]
MCAdminDefault == [u \in Uplink |-> {1}]

MCMixedConfig ==
  {Cfg(br1, 10, {}, TRUE), Cfg(br1, 10, {20}, TRUE), Cfg(br1, 0, {10, 20}, FALSE),
   Cfg(br1, 0, {}, TRUE), Cfg(br2, 20, {}, TRUE)}

MCSharedConfig == {Cfg(br1, 10, {}, TRUE), Cfg(br1, 20, {10}, TRUE)}

MCPortConfig ==
  {Cfg(br1, 0, {}, FALSE), Cfg(br1, 1, {}, TRUE), Cfg(br1, 10, {}, FALSE),
   Cfg(br1, 0, {10}, TRUE), Cfg(br1, 20, {10, 20}, FALSE), Cfg(br1, 1, {20}, FALSE)}
=============================================================================
