------------------------------ MODULE ParseConf ------------------------------
(***************************************************************************)
(* ParseConf of pkg/config/config.go with the lookups it makes in sysfs    *)
(* (pkg/utils/utils.go) and over netlink (pkg/utils/netlink.go), and the   *)
(* choices of the MAC and of the uplink that ADD makes afterwards: from    *)
(* the CNI configuration and the node to what the rest of ADD works with.  *)
(* The node does not change meanwhile.  A lookup that fails, whatever the  *)
(* reason, is an input that is Nil.                                        *)
(*                                                                         *)
(* An input has the fields                                                 *)
(*   deviceID   the VF's PCI address                                       *)
(*   pf         its PF (GetUplinkRepresentor, external)                    *)
(*   numVfs     the content of the PF's sriov_numvfs                       *)
(*   virtfn     virtfn[i]: the PCI address behind the i-th virtfn link     *)
(*   bridge     the `bridge' option, split at commas and trimmed           *)
(*   links      links[l]: kind and master of a network device              *)
(*   names      the entries of the VF's net directory                      *)
(*   driver     the driver the VF is bound to                              *)
(*   vlan, trunk, mac, envMac, runtimeMac                                  *)
(***************************************************************************)
EXTENDS TrunkVlans, FiniteSets

CONSTANTS
  Input,          \* the inputs to be parsed
  DefaultBridge,  \* "cni0"
  Blank,          \* an element of the `bridge' option without a name
  Malformed,      \* CNI_ARGS that cannot be parsed, as the MAC in them
  VfioPci         \* the one member of UserspaceDrivers

\* The links from l upwards: the least set with l and the masters of its own.
LinksAbove(links, l) ==
  LET Closed(S) == \A k \in S : links[k].master \in S \/ links[k].master \notin DOMAIN links
  IN  {k \in DOMAIN links :
         \A S \in SUBSET DOMAIN links : {l} \cap DOMAIN links \subseteq S /\ Closed(S) => k \in S}

ASSUME InputAssumption ==
  \A i \in Input :
    /\ i.trunk \in Trunks /\ i.vlan \in Int
    /\ i.numVfs \in Nat \cup {Nil} /\ DOMAIN i.virtfn \subseteq Nat
    /\ i.bridge \in Seq({i.bridge[k] : k \in DOMAIN i.bridge})
    /\ Nil \notin DOMAIN i.links
    \* A PF is no bridge, and no bridge is in one.
    /\ i.pf \in DOMAIN i.links => i.links[i.pf].kind # "bridge"
    /\ \A b \in DOMAIN i.links : i.links[b].kind = "bridge" =>
         \A l \in LinksAbove(i.links, b) \ {b} : i.links[l].kind # "bridge"

VARIABLES
  in,      \* the input
  pc,      \* the call to be made next, or the result
  out,     \* the fields of PluginConf set so far
  vf,      \* the index GetVfid looks at
  master   \* the link GetParentBridgeForLink has come to

vars == <<in, pc, out, vf, master, trunkVars>>

NoOut == [PFName |-> Nil, VFID |-> Nil, ActualBridge |-> Nil, HostIFName |-> Nil,
          IsUserspaceDriver |-> FALSE, MAC |-> Nil, Uplink |-> Nil]

Init ==
  /\ in \in Input
  /\ pc = "uplink" /\ out = NoOut /\ vf = 0 /\ master = Nil
  /\ TrunkInit /\ trunk = in.trunk

At(l) == pc = l
Goto(l) == pc' = l
Fail == Goto("failed")
Sets(o) == out' = o
Quiet == UNCHANGED <<in, vf, master, trunkVars>>

\* DeviceID and GetUplinkRepresentor.
GetUplink ==
  /\ At("uplink")
  /\ IF in.deviceID = Nil \/ in.pf = Nil THEN Fail /\ UNCHANGED out
     ELSE Goto("virtfn") /\ Sets([out EXCEPT !.PFName = in.pf])
  /\ Quiet

\* GetVfid: from virtfn0 on, up to the number of VFs and not below it; links
\* that are missing or cannot be read are passed over.
NumVfs == IF in.numVfs = Nil THEN -1 ELSE in.numVfs
Virtfn(i) == IF i \in DOMAIN in.virtfn THEN in.virtfn[i] ELSE Nil

GetVfidUntilGap ==  \* mutant: a missing link ends the loop
  /\ At("virtfn")
  /\ IF vf > NumVfs \/ Virtfn(vf) = Nil THEN Fail /\ UNCHANGED <<out, vf>>
     ELSE IF Virtfn(vf) = in.deviceID
     THEN Goto("bridge") /\ Sets([out EXCEPT !.VFID = vf]) /\ UNCHANGED vf
     ELSE vf' = vf + 1 /\ UNCHANGED <<pc, out>>
  /\ UNCHANGED <<in, master, trunkVars>>
GetVfid ==
  /\ At("virtfn")
  /\ IF vf > NumVfs THEN Fail /\ UNCHANGED <<out, vf>>
     ELSE IF Virtfn(vf) = in.deviceID
     THEN Goto("bridge") /\ Sets([out EXCEPT !.VFID = vf]) /\ UNCHANGED vf
     ELSE vf' = vf + 1 /\ UNCHANGED <<pc, out>>
  /\ UNCHANGED <<in, master, trunkVars>>

\* handleBridgeConfig: one bridge is taken as it is, several have to be
\* compared with the uplink's.
AllowedBridges == IF in.bridge = <<>> THEN <<DefaultBridge>> ELSE in.bridge
Allowed == {AllowedBridges[i] : i \in DOMAIN AllowedBridges}

HandleBridge ==
  /\ At("bridge")
  /\ IF Blank \in Allowed THEN Fail /\ UNCHANGED <<out, master>>
     ELSE IF Len(AllowedBridges) = 1
     THEN /\ Goto("name") /\ Sets([out EXCEPT !.ActualBridge = AllowedBridges[1]])
          /\ UNCHANGED master
     ELSE Goto("walk") /\ master' = out.PFName /\ UNCHANGED out
  /\ UNCHANGED <<in, vf, trunkVars>>

\* GetParentBridgeForLink: from master to master until one is a bridge.  A
\* link that is not there (Nil: index 0) ends it with an error.
FindBridgeStuck ==  \* mutant: comes back to the same link
  /\ At("walk") /\ UNCHANGED out
  /\ IF master \notin DOMAIN in.links THEN Fail
     ELSE IF in.links[master].kind # "bridge" THEN UNCHANGED pc ELSE Goto("name")
  /\ Quiet
FindBridgeAny ==  \* mutant: the bridge found need not be an allowed one
  /\ At("walk")
  /\ IF master \notin DOMAIN in.links THEN Fail /\ UNCHANGED <<out, master>>
     ELSE IF in.links[master].kind # "bridge"
     THEN master' = in.links[master].master /\ UNCHANGED <<pc, out>>
     ELSE Goto("name") /\ Sets([out EXCEPT !.ActualBridge = master]) /\ UNCHANGED master
  /\ UNCHANGED <<in, vf, trunkVars>>
FindBridge ==
  /\ At("walk")
  /\ IF master \notin DOMAIN in.links THEN Fail /\ UNCHANGED <<out, master>>
     ELSE IF in.links[master].kind # "bridge"
     THEN master' = in.links[master].master /\ UNCHANGED <<pc, out>>
     ELSE IF master \in Allowed
     THEN Goto("name") /\ Sets([out EXCEPT !.ActualBridge = master]) /\ UNCHANGED master
     ELSE Fail /\ UNCHANGED <<out, master>>
  /\ UNCHANGED <<in, vf, trunkVars>>

\* GetVFLinkName: the first entry.  Without one, HasUserspaceDriver.
GetName ==
  /\ At("name")
  /\ IF in.names # Nil /\ in.names # <<>>
     THEN Goto("vlan") /\ Sets([out EXCEPT !.HostIFName = in.names[1]])
     ELSE IF in.driver = VfioPci
     THEN Goto("vlan") /\ Sets([out EXCEPT !.IsUserspaceDriver = TRUE])
     ELSE Fail /\ UNCHANGED out
  /\ Quiet

CheckVlan ==
  /\ At("vlan") /\ UNCHANGED out
  /\ IF in.vlan < 0 \/ in.vlan > MaxVlanId THEN Fail
     ELSE IF in.trunk # <<>> THEN Goto("trunk") ELSE Goto("mac")
  /\ Quiet

\* splitVlanIds.
SplitVlans ==
  /\ At("trunk") /\ TrunkNext
  /\ pc' = IF at' = "ok" THEN "mac" ELSE IF at' = "error" THEN "failed" ELSE pc
  /\ UNCHANGED <<in, out, vf, master>>

\* getMACAddressConfig: the runtime configuration before CNI_ARGS before
\* the top-level option.
ChooseMacEnvFirst ==  \* mutant: the two swapped
  /\ At("mac") /\ Goto("bond")
  /\ Sets([out EXCEPT !.MAC = IF in.envMac # Nil THEN in.envMac
                              ELSE IF in.runtimeMac # Nil THEN in.runtimeMac ELSE in.mac])
  /\ Quiet
ChooseMac ==
  /\ At("mac")
  /\ IF in.envMac = Malformed THEN Fail /\ UNCHANGED out
     ELSE /\ Goto("bond")
          /\ Sets([out EXCEPT !.MAC = IF in.runtimeMac # Nil THEN in.runtimeMac
                                      ELSE IF in.envMac # Nil THEN in.envMac ELSE in.mac])
  /\ Quiet

\* GetParentBondForLink: the PF's bond stands in for the PF as the uplink;
\* any error of it means that there is none.
ChooseUplinkAny ==  \* mutant: the master need not be a bond
  /\ At("bond") /\ Goto("done")
  /\ LET up == IF in.pf \in DOMAIN in.links THEN in.links[in.pf].master ELSE Nil
     IN  Sets([out EXCEPT !.Uplink = IF up \in DOMAIN in.links THEN up ELSE in.pf])
  /\ Quiet
ChooseUplink ==
  /\ At("bond") /\ Goto("done")
  /\ LET up == IF in.pf \in DOMAIN in.links THEN in.links[in.pf].master ELSE Nil
     IN  Sets([out EXCEPT !.Uplink =
                 IF up \in DOMAIN in.links /\ in.links[up].kind = "bond" THEN up ELSE in.pf])
  /\ Quiet

Next ==
  \/ GetUplink \/ GetVfid \/ HandleBridge \/ FindBridge \/ GetName \/ CheckVlan
  \/ SplitVlans \/ ChooseMac \/ ChooseUplink

Spec == Init /\ [][Next]_vars

FairSpec == Spec /\ WF_vars(Next)

(***************************************************************************)
(* Properties.                                                             *)
(***************************************************************************)
Field(S) == S \cup {Nil}

TypeOK ==
  /\ pc \in {"uplink", "virtfn", "bridge", "walk", "name", "vlan", "trunk", "mac",
             "bond", "done", "failed"}
  /\ DOMAIN out = DOMAIN NoOut
  /\ out.PFName \in Field({in.pf}) /\ out.VFID \in Field(Nat)
  /\ out.ActualBridge \in Field(Allowed)
  /\ out.IsUserspaceDriver \in BOOLEAN
  /\ vf \in 0 .. NumVfs + 2
  /\ master \in Field({in.pf} \cup {in.links[l].master : l \in DOMAIN in.links})

\* The links above l, l included, as far as they are there.
Above(l) == LinksAbove(in.links, l)

\* The bridge the uplink is a member of, directly or through a bond.
UplinkBridge == {l \in Above(in.pf) : in.links[l].kind = "bridge"}

VfOfPf == \E i \in DOMAIN in.virtfn : in.virtfn[i] = in.deviceID /\ i <= NumVfs

GoodVf == in.deviceID # Nil /\ in.pf # Nil /\ VfOfPf

GoodBridge ==
  /\ Blank \notin Allowed
  /\ Len(AllowedBridges) > 1 => UplinkBridge # {} /\ UplinkBridge \subseteq Allowed

HasName == in.names # Nil /\ in.names # <<>>
GoodDriver == HasName \/ in.driver = VfioPci

GoodArgs == in.envMac # Malformed

GoodVlans ==
  /\ in.vlan \in 0 .. MaxVlanId
  /\ in.trunk # <<>> => AllInOrder /\ AllMeant # {}

\* ADD goes on exactly if VF, bridge, driver, VLANs and arguments are all in
\* order: no gap among the virtfn links, no bond between uplink and
\* bridge, no missing net directory and no trunk item decides otherwise.
AcceptsExactly ==
  /\ pc = "done" => GoodVf /\ GoodBridge /\ GoodDriver /\ GoodVlans /\ GoodArgs
  /\ pc = "failed" => ~(GoodVf /\ GoodBridge /\ GoodDriver /\ GoodVlans /\ GoodArgs)

\* The most specific source that names a MAC wins (plugin.go:232-235).
HasMacMeant ==
  /\ in.runtimeMac # Nil => out.MAC = in.runtimeMac
  /\ in.runtimeMac = Nil /\ in.envMac # Nil => out.MAC = in.envMac
  /\ in.runtimeMac = Nil /\ in.envMac = Nil => out.MAC = in.mac

\* What ADD then works with is this VF's: the index of its virtfn link, its
\* net device or its driver, a bridge the configuration allows and, where it
\* allows several, the one the uplink is in; the VLANs the trunk means; and
\* the MAC that was meant.
WorksWith ==
  pc = "done" =>
    /\ out.PFName = in.pf
    /\ in.virtfn[out.VFID] = in.deviceID
    /\ out.ActualBridge \in Allowed
    /\ Len(AllowedBridges) > 1 => UplinkBridge = {out.ActualBridge}
    /\ out.IsUserspaceDriver <=> ~HasName
    /\ HasName => out.HostIFName = in.names[1]
    /\ vlans = IF in.trunk = <<>> THEN {} ELSE AllMeant
    /\ HasMacMeant

\* Where the bridge was chosen among several, the VLANs of setUplinkVlan go
\* to a port of that bridge, although one lookup walks up from the PF until
\* it meets a bridge and the other one looks at its master only.
UplinkIsPort ==
  pc = "done" /\ Len(AllowedBridges) > 1
  /\ (\A l \in Above(in.pf) \ {in.pf} : in.links[l].kind \in {"bond", "bridge"}) =>
    in.links[out.Uplink].master = out.ActualBridge

\* The loops over virtfn links, masters, trunk items and ids all end.
Terminates == <>(pc \in {"done", "failed"})

(***************************************************************************)
(* Why they hold: what is known of the input and the output at each call.  *)
(***************************************************************************)
PastVf == {"bridge", "walk", "name", "vlan", "trunk", "mac", "bond", "done"}
PastBridge == {"name", "vlan", "trunk", "mac", "bond", "done"}
PastName == {"vlan", "trunk", "mac", "bond", "done"}
PastTrunk == {"mac", "bond", "done"}

VfKnown ==
  /\ pc = "uplink" => out = NoOut /\ vf = 0
  /\ pc \in {"virtfn"} \cup PastVf =>
       in.deviceID # Nil /\ in.pf # Nil /\ out.PFName = in.pf
  /\ pc = "virtfn" => \A i \in 0 .. vf - 1 : Virtfn(i) # in.deviceID
  /\ pc \in PastVf =>
       out.VFID \in DOMAIN in.virtfn /\ in.virtfn[out.VFID] = in.deviceID /\ out.VFID <= NumVfs

\* The walk has passed no bridge.
BridgeKnown ==
  /\ pc = "walk" =>
       /\ Blank \notin Allowed /\ Len(AllowedBridges) > 1
       /\ UplinkBridge = {l \in Above(master) : in.links[l].kind = "bridge"}
  /\ pc \in PastBridge =>
       /\ GoodBridge /\ out.ActualBridge \in Allowed
       /\ Len(AllowedBridges) > 1 => UplinkBridge = {out.ActualBridge}

NameKnown ==
  /\ pc \notin PastName \cup {"failed"} => ~out.IsUserspaceDriver
  /\ pc \in PastName =>
       /\ GoodDriver /\ (out.IsUserspaceDriver <=> ~HasName)
       /\ HasName => out.HostIFName = in.names[1]

VlansKnown ==
  /\ trunk = in.trunk /\ TrunkIInv
  /\ pc \notin {"trunk", "failed"} \cup PastTrunk => at = "item" /\ vlans = {}
  /\ pc = "trunk" => in.trunk # <<>> /\ at \notin {"ok", "error"}
  /\ pc \in {"trunk"} \cup PastTrunk => in.vlan \in 0 .. MaxVlanId
  /\ pc \in PastTrunk => IF in.trunk = <<>> THEN vlans = {} ELSE at = "ok"

MacKnown ==
  pc \in {"bond", "done"} =>
    /\ GoodArgs
    /\ HasMacMeant

UplinkKnown ==
  pc = "done" =>
    LET up == IF in.pf \in DOMAIN in.links THEN in.links[in.pf].master ELSE Nil
    IN  out.Uplink = IF up \in DOMAIN in.links /\ in.links[up].kind = "bond"
                     THEN up ELSE in.pf

Known ==
  /\ TypeOK
  /\ VfKnown /\ BridgeKnown /\ NameKnown /\ VlansKnown /\ MacKnown /\ UplinkKnown
  /\ AcceptsExactly
=============================================================================
