---------------------------- MODULE UplinkService ----------------------------
(***************************************************************************)
(* What `setUplinkVlan' promises (docs/configuration-reference.md:38-45),  *)
(* without processes, locks or netlink calls.  An uplink carries a set of  *)
(* VLANs.  A VF that joins with a set of VLANs finds all of them carried,  *)
(* and a VLAN is withdrawn from an uplink only while no member of that     *)
(* uplink needs it.  Nothing promises that an unneeded VLAN is withdrawn:  *)
(* removal is "best effort".                                               *)
(***************************************************************************)

CONSTANTS
  Vf,        \* the VFs of the node
  Uplink,    \* the bridge ports towards the wire: a PF, or the bond of a PF
  Vlan,      \* VLAN ids
  UplinkOf   \* the uplink of each VF

VARIABLES
  carried,   \* carried[u]: the VLANs uplink u lets into the bridge
  need       \* need[v]: the VLANs a member VF was promised, {} for the others

vars == <<carried, need>>

Init ==
  /\ carried \in [Uplink -> SUBSET Vlan]
  /\ need = [v \in Vf |-> {}]

\* A VLAN starts to be carried.
Admit(u, x) ==
  /\ carried' = [carried EXCEPT ![u] = @ \cup {x}]
  /\ UNCHANGED need

\* A VLAN that no member of the uplink needs stops being carried.
Withdraw(u, x) ==
  /\ \A v \in Vf : UplinkOf[v] = u => x \notin need[v]
  /\ carried' = [carried EXCEPT ![u] = @ \ {x}]
  /\ UNCHANGED need

\* A VF becomes a member once everything it asks for is carried.
Join(v, S) ==
  /\ need[v] = {}
  /\ S \subseteq carried[UplinkOf[v]]
  /\ need' = [need EXCEPT ![v] = S]
  /\ UNCHANGED carried

\* A VF stops being a member; what it needed may stay carried.
Leave(v) ==
  /\ need' = [need EXCEPT ![v] = {}]
  /\ UNCHANGED carried

Next ==
  \/ \E u \in Uplink, x \in Vlan : Admit(u, x) \/ Withdraw(u, x)
  \/ \E v \in Vf : Leave(v) \/ \E S \in SUBSET Vlan : Join(v, S)

Spec == Init /\ [][Next]_vars
=============================================================================
