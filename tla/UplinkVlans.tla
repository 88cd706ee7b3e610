----------------------------- MODULE UplinkVlans -----------------------------
(***************************************************************************)
(* Representor ports and uplink VLANs: AttachRepresentor and               *)
(* DetachRepresentor of pkg/manager/manager.go, run by one CNI process per *)
(* VF.  The processes share the VLAN tables of the bridge ports, which     *)
(* live in the kernel, and serialise their work on an uplink with flock()  *)
(* on vlan-uplink.lock.  A port gets its VLANs outside that lock.          *)
(*                                                                         *)
(* Kernel behaviour the code relies on (external): a link that joins a     *)
(* bridge gets VLAN 1 as PVID, setting the master it already has changes   *)
(* nothing, leaving a bridge flushes the port's VLANs, removing an absent  *)
(* VLAN succeeds, and a lock dies with the process that holds it.          *)
(***************************************************************************)
EXTENDS Naturals, FiniteSets

CONSTANTS
  Vf,          \* the VFs of the node, each with its own representor
  Uplink,      \* the bridge ports towards the wire: a PF, or the bond of a PF
  Bridge,      \* the Linux bridges
  Vlan,        \* VLAN ids
  UplinkOf,    \* the uplink GetParentBondForLink settles on, for each VF
  BridgeOf,    \* the bridge each uplink is a port of
  AdminVlans,  \* the VLANs each uplink carries before the plugin ever runs
  Config,      \* the configurations a VF may be attached with
  FaultyCalls, \* the calls that may fail, those of DelMaySkip among them
  MayKill,     \* whether a CNI process may be killed
  NoBridge, NoVf

DefaultVlan == 1

\* The part of PluginConf that matters here; vlan = 0 is "no PVID".
Conf == [bridge : Bridge, vlan : Vlan \cup {0}, trunk : SUBSET Vlan,
         setUplinkVlan : BOOLEAN]
NoConf == [bridge |-> NoBridge, vlan |-> 0, trunk |-> {}, setUplinkVlan |-> FALSE]

\* What the kernel keeps of a representor as a bridge port.
Port == [master : Bridge \cup {NoBridge}, vlans : SUBSET Vlan,
         pvid : Vlan \cup {0}]
NoPort == [master |-> NoBridge, vlans |-> {}, pvid |-> 0]

ASSUME VlanAssumption == Vlan \subseteq 1 .. 4094 /\ DefaultVlan \in Vlan
ASSUME TopologyAssumption ==
  /\ UplinkOf \in [Vf -> Uplink]
  /\ BridgeOf \in [Uplink -> Bridge]
  /\ AdminVlans \in [Uplink -> SUBSET Vlan]
  /\ Vf \cap Uplink = {}
  /\ NoVf \notin Vf
  /\ NoBridge \notin Bridge
ASSUME ConfigAssumption == Config \subseteq Conf
ASSUME FaultAssumption == MayKill \in BOOLEAN

VARIABLES
  pc,          \* pc[v]: where the command working on v is
  conf,        \* conf[v]: its PluginConf, cached between ADD and DEL
  port,        \* port[v]: v's representor as a bridge port
  uplinkVlans, \* uplinkVlans[u]: the VLANs of uplink u as a bridge port
  lock,        \* the holder of vlan-uplink.lock
  todo,        \* todo[v]: the VLANs the current loop of v has still to visit
  brif         \* brif[v]: the ports v listed before it looks for unused VLANs

vars == <<pc, conf, port, uplinkVlans, lock, todo, brif>>

AddPc == {"defaultVlan", "trunk", "addLock", "addUplink", "undo"}
DelPc == {"delLock", "list", "unused", "delUplink"}
AnyPc == AddPc \cup DelPc \cup {"idle", "attached", "detached"}
Critical == {"addUplink", "list", "unused", "delUplink"}

\* The VLANs of a configuration: conf.Trunk with conf.Vlan appended.
Vlans(c) == c.trunk \cup ({c.vlan} \ {0})

\* The port a configuration asks for.
PortOf(c) ==
  [master |-> c.bridge,
   vlans  |-> IF Vlans(c) = {} THEN {DefaultVlan} ELSE Vlans(c),
   pvid   |-> IF c.vlan > 0 THEN c.vlan
              ELSE IF c.trunk = {} THEN DefaultVlan ELSE 0]

Init ==
  /\ pc = [v \in Vf |-> "idle"]
  /\ conf = [v \in Vf |-> NoConf]
  /\ port = [v \in Vf |-> NoPort]
  /\ uplinkVlans = AdminVlans
  /\ lock = NoVf
  /\ todo = [v \in Vf |-> {}]
  /\ brif = [v \in Vf |-> {}]

(***************************************************************************)
(* Kernel operations on a port (external).                                 *)
(***************************************************************************)
Enslaved(p, b) ==
  IF p.master = b THEN p
  ELSE [master |-> b, vlans |-> {DefaultVlan}, pvid |-> DefaultVlan]

WithoutVlan(p, x) ==
  [p EXCEPT !.vlans = @ \ {x}, !.pvid = IF @ = x THEN 0 ELSE @]

\* Adding a VLAN without the PVID flag takes the PVID away from that VLAN.
WithTagged(p, x) ==
  [p EXCEPT !.vlans = @ \cup {x}, !.pvid = IF @ = x THEN 0 ELSE @]

WithPvid(p, x) == [p EXCEPT !.vlans = @ \cup {x}, !.pvid = x]

Goto(v, from, to) == pc[v] = from /\ pc' = [pc EXCEPT ![v] = to]

\* flock(LOCK_EX): enabled once nobody holds the lock.
AcquireUnlocked(v) == lock' = v  \* mutant: two at a time
Acquire(v) == lock = NoVf /\ lock' = v

\* Unlock, or the death of the process: frees the lock if v holds it.
Release(v) == lock' = IF lock = v THEN NoVf ELSE lock

(***************************************************************************)
(* AttachRepresentor.                                                      *)
(***************************************************************************)
\* Is VLAN 1 taken off the port?  (manager.go:324)
RemovesDefaultNoTrunk(c) == c.vlan > 1  \* mutant: forgets a trunk
RemovesDefault(c) == c.vlan > 1 \/ c.trunk # {}

\* LinkSetMaster.  An earlier failure changes neither port nor uplink.
SetMaster(v, c) ==
  /\ Goto(v, "idle", IF RemovesDefault(c) THEN "defaultVlan" ELSE "trunk")
  /\ conf' = [conf EXCEPT ![v] = c]
  /\ port' = [port EXCEPT ![v] = Enslaved(@, c.bridge)]
  /\ todo' = [todo EXCEPT ![v] = c.trunk]
  /\ UNCHANGED <<uplinkVlans, lock, brif>>

DelDefaultVlan(v) ==
  /\ Goto(v, "defaultVlan", "trunk")
  /\ port' = [port EXCEPT ![v] = WithoutVlan(@, DefaultVlan)]
  /\ UNCHANGED <<conf, uplinkVlans, lock, todo, brif>>

\* One turn of BridgeTrunkVlanAdd on the representor.
AddTrunkVlan(v, x) ==
  /\ pc[v] = "trunk" /\ x \in todo[v]
  /\ port' = [port EXCEPT ![v] = WithTagged(@, x)]
  /\ todo' = [todo EXCEPT ![v] = @ \ {x}]
  /\ UNCHANGED <<pc, conf, uplinkVlans, lock, brif>>

\* BridgePVIDVlanAdd if a VLAN was asked for; then the uplink, or done.
SetPvidAlways(v) ==  \* mutant: also for VLAN 0, which means none
  /\ todo[v] = {}
  /\ Goto(v, "trunk", IF conf[v].setUplinkVlan THEN "addLock" ELSE "attached")
  /\ port' = [port EXCEPT ![v] = WithPvid(@, conf[v].vlan)]
  /\ UNCHANGED <<conf, uplinkVlans, lock, todo, brif>>
SetPvid(v) ==
  /\ todo[v] = {}
  /\ Goto(v, "trunk", IF conf[v].setUplinkVlan THEN "addLock" ELSE "attached")
  /\ port' = IF conf[v].vlan > 0
             THEN [port EXCEPT ![v] = WithPvid(@, conf[v].vlan)] ELSE port
  /\ UNCHANGED <<conf, uplinkVlans, lock, todo, brif>>

\* addUplinkVlans: take the lock, add each VLAN to the uplink, unlock.
LockForTrunk(v) ==  \* mutant: the native VLAN is not appended
  /\ Goto(v, "addLock", "addUplink")
  /\ Acquire(v)
  /\ todo' = [todo EXCEPT ![v] = conf[v].trunk]
  /\ UNCHANGED <<conf, port, uplinkVlans, brif>>
LockForAdd(v) ==
  /\ Goto(v, "addLock", "addUplink")
  /\ Acquire(v)
  /\ todo' = [todo EXCEPT ![v] = Vlans(conf[v])]
  /\ UNCHANGED <<conf, port, uplinkVlans, brif>>

AddUplinkVlan(v, x) ==
  /\ pc[v] = "addUplink" /\ x \in todo[v]
  /\ uplinkVlans' = [uplinkVlans EXCEPT ![UplinkOf[v]] = @ \cup {x}]
  /\ todo' = [todo EXCEPT ![v] = @ \ {x}]
  /\ UNCHANGED <<pc, conf, port, lock, brif>>

UnlockAfterAdd(v) ==
  /\ todo[v] = {}
  /\ Goto(v, "addUplink", "attached")
  /\ Release(v)
  /\ UNCHANGED <<conf, port, uplinkVlans, todo, brif>>

\* The call whose failure aborts AttachRepresentor, where it can be aborted.
AttachCall ==
  [defaultVlan |-> "BridgeVlanDel", trunk |-> "BridgeVlanAdd",
   addLock |-> "Lock", addUplink |-> "BridgeVlanAdd"]

\* A call failed: the deferred unlock and LinkSetNoMaster remain to be run.
AttachFails(v) ==
  /\ pc[v] \in DOMAIN AttachCall /\ AttachCall[pc[v]] \in FaultyCalls
  /\ AttachCall[pc[v]] = "BridgeVlanAdd" =>
       todo[v] # {} \/ (pc[v] = "trunk" /\ conf[v].vlan > 0)
  /\ pc' = [pc EXCEPT ![v] = "undo"]
  /\ Release(v)
  /\ todo' = [todo EXCEPT ![v] = {}]
  /\ UNCHANGED <<conf, port, uplinkVlans, brif>>

\* The deferred LinkSetNoMaster, whose own error is ignored.
UndoMaster(v) ==
  /\ Goto(v, "undo", "idle")
  /\ conf' = [conf EXCEPT ![v] = NoConf]
  /\ \/ port' = [port EXCEPT ![v] = NoPort]
     \/ "LinkSetNoMaster" \in FaultyCalls /\ UNCHANGED port
  /\ UNCHANGED <<uplinkVlans, lock, todo, brif>>

(***************************************************************************)
(* DetachRepresentor, called by DEL, again by a repeated DEL, and by the   *)
(* error handler of ADD.                                                   *)
(***************************************************************************)
\* LinkSetNoMaster; on a link without a master it does nothing.
Detach(v) ==
  /\ pc[v] \in {"attached", "detached"}
  /\ pc' = [pc EXCEPT ![v] = IF conf[v].setUplinkVlan THEN "delLock"
                             ELSE "detached"]
  /\ port' = [port EXCEPT ![v] = NoPort]
  /\ UNCHANGED <<conf, uplinkVlans, lock, todo, brif>>

\* It fails before the representor left the bridge.  The callers go on.
DetachFails(v) ==
  /\ "LinkSetNoMaster" \in FaultyCalls
  /\ Goto(v, "attached", "detached")
  /\ UNCHANGED <<conf, port, uplinkVlans, lock, todo, brif>>

\* deleteUplinkVlans.
LockForDel(v) ==
  /\ Goto(v, "delLock", "list")
  /\ Acquire(v)
  /\ UNCHANGED <<conf, port, uplinkVlans, todo, brif>>

\* GetBridgeLinks without the own uplink (manager.go:466-479).
OtherPortsAndOwn(v) ==  \* mutant: the own uplink stays in the list
  LET b == BridgeOf[UplinkOf[v]]
  IN  {w \in Vf : port[w].master = b} \cup {u \in Uplink : BridgeOf[u] = b}
OtherPorts(v) ==
  LET b == BridgeOf[UplinkOf[v]]
  IN  {w \in Vf : port[w].master = b}
        \cup {u \in Uplink \ {UplinkOf[v]} : BridgeOf[u] = b}

ListPorts(v) ==
  /\ Goto(v, "list", "unused")
  /\ brif' = [brif EXCEPT ![v] = OtherPorts(v)]
  /\ UNCHANGED <<conf, port, uplinkVlans, lock, todo>>

\* What BridgeVlanList reports of a link.
VlansOn(l) == IF l \in Vf THEN port[l].vlans ELSE uplinkVlans[l]

\* getUnusedVlanList: the VLANs of v that no listed port carries.  Its
\* error is dropped: a failed BridgeVlanList reads as "no port has VLANs".
UnusedByPvid(v) ==  \* mutant: looks at native VLANs only
  {x \in Vlans(conf[v]) : \A l \in brif[v] : l \in Vf => port[l].pvid # x}
Unused(v) == {x \in Vlans(conf[v]) : \A l \in brif[v] : x \notin VlansOn(l)}

FindUnused(v) ==
  /\ Goto(v, "unused", "delUplink")
  /\ \/ todo' = [todo EXCEPT ![v] = Unused(v)]
     \/ /\ "BridgeVlanList" \in FaultyCalls
        /\ todo' = [todo EXCEPT ![v] = Vlans(conf[v])]
  /\ brif' = [brif EXCEPT ![v] = {}]
  /\ UNCHANGED <<conf, port, uplinkVlans, lock>>

DelUplinkVlan(v, x) ==
  /\ pc[v] = "delUplink" /\ x \in todo[v]
  /\ uplinkVlans' = [uplinkVlans EXCEPT ![UplinkOf[v]] = @ \ {x}]
  /\ todo' = [todo EXCEPT ![v] = @ \ {x}]
  /\ UNCHANGED <<pc, conf, port, lock, brif>>

UnlockAfterDelHeld(v) ==  \* mutant: the deferred Unlock is missing
  /\ todo[v] = {}
  /\ Goto(v, "delUplink", "detached")
  /\ UNCHANGED <<conf, port, uplinkVlans, lock, todo, brif>>
UnlockAfterDel(v) ==
  /\ todo[v] = {}
  /\ Goto(v, "delUplink", "detached")
  /\ Release(v)
  /\ UNCHANGED <<conf, port, uplinkVlans, todo, brif>>

DeleteCall ==
  [delLock |-> "Lock", list |-> "LinkList", delUplink |-> "BridgeVlanDel"]

\* deleteUplinkVlans fails: unlocked, logged, and DetachRepresentor succeeds.
DeleteFails(v) ==
  /\ pc[v] \in DOMAIN DeleteCall /\ DeleteCall[pc[v]] \in FaultyCalls
  /\ pc[v] = "delUplink" => todo[v] # {}
  /\ pc' = [pc EXCEPT ![v] = "detached"]
  /\ Release(v)
  /\ todo' = [todo EXCEPT ![v] = {}]
  /\ UNCHANGED <<conf, port, uplinkVlans, brif>>

(***************************************************************************)
(* Around the two calls.                                                   *)
(***************************************************************************)
\* DEL (or a failed ADD) is over and its configuration is gone.
Forget(v) ==
  /\ Goto(v, "detached", "idle")
  /\ conf' = [conf EXCEPT ![v] = NoConf]
  /\ UNCHANGED <<port, uplinkVlans, lock, todo, brif>>

\* May DEL report success before it comes to the representor: because the
\* file of ADD cannot be read ("Load"), or without a path of the network
\* namespace ("Netns")?
DelMaySkip == {"Load", "Netns"} \cap FaultyCalls # {}

\* It does: the runtime lets go of the VF, and all stays as it is.
Abandon(v) ==
  /\ DelMaySkip
  /\ Goto(v, "attached", "idle")
  /\ conf' = [conf EXCEPT ![v] = NoConf]
  /\ UNCHANGED <<port, uplinkVlans, lock, todo, brif>>

\* The process is killed.  In ADD, the error handler included, nothing was
\* cached, so the configuration is lost; in DEL it is still in the cache.
Kill(v) ==
  /\ MayKill /\ pc[v] \notin {"idle", "detached"}
  /\ \/ /\ pc[v] \in DelPc
        /\ pc' = [pc EXCEPT ![v] = "detached"]
        /\ UNCHANGED conf
     \/ /\ pc' = [pc EXCEPT ![v] = "idle"]
        /\ conf' = [conf EXCEPT ![v] = NoConf]
  /\ Release(v)
  /\ todo' = [todo EXCEPT ![v] = {}]
  /\ brif' = [brif EXCEPT ![v] = {}]
  /\ UNCHANGED <<port, uplinkVlans>>

GetsLock(v) == LockForAdd(v) \/ LockForDel(v)

\* A step of a command that has started, other than a failure.
Step(v) ==
  \/ DelDefaultVlan(v) \/ SetPvid(v) \/ UnlockAfterAdd(v) \/ UndoMaster(v)
  \/ ListPorts(v) \/ FindUnused(v) \/ UnlockAfterDel(v)
  \/ GetsLock(v)
  \/ \E x \in Vlan : \/ AddTrunkVlan(v, x) \/ AddUplinkVlan(v, x)
                     \/ DelUplinkVlan(v, x)

Next ==
  \E v \in Vf :
    \/ \E c \in Config : SetMaster(v, c)
    \/ Detach(v) \/ DetachFails(v) \/ Forget(v) \/ Abandon(v) \/ Kill(v)
    \/ AttachFails(v) \/ DeleteFails(v)
    \/ Step(v)

Spec == Init /\ [][Next]_vars

\* A process that can take a step eventually does, and one that waits for
\* the lock is not passed over for ever while the lock is freed again and
\* again (flock wakes its waiters whenever the holder lets go).  No failure
\* need ever happen: nobody gets past the lock by an error alone.
Fairness == \A v \in Vf : WF_vars(Step(v)) /\ SF_vars(GetsLock(v))

FairSpec == Spec /\ Fairness

(***************************************************************************)
(* Properties.                                                             *)
(***************************************************************************)
TypeOK ==
  /\ pc \in [Vf -> AnyPc]
  /\ conf \in [Vf -> Conf \cup {NoConf}]
  /\ port \in [Vf -> Port]
  /\ uplinkVlans \in [Uplink -> SUBSET Vlan]
  /\ lock \in Vf \cup {NoVf}
  /\ todo \in [Vf -> SUBSET Vlan]
  /\ brif \in [Vf -> SUBSET (Vf \cup Uplink)]

\* v is attached to its uplink's bridge and asked for its VLANs on the uplink.
Member(v) ==
  /\ pc[v] = "attached" /\ conf[v].setUplinkVlan
  /\ conf[v].bridge = BridgeOf[UplinkOf[v]]

\* Whatever the other processes list, compute, delete or fail at, and
\* wherever they are killed, the uplink of an attached VF that asked for it
\* lets all of the VF's VLANs into the bridge: the removal of VLANs spares
\* those "other VF" use (docs/configuration-reference.md:41-42).
UplinkCovers ==
  \A v \in Vf : Member(v) => Vlans(conf[v]) \subseteq uplinkVlans[UplinkOf[v]]

\* After AttachRepresentor the port carries the VLANs of the configuration,
\* with its `vlan' as the native one, and none besides: no default VLAN next
\* to a configured one, and nothing of an earlier attachment.
PortExact == \A v \in Vf : pc[v] = "attached" => port[v] = PortOf(conf[v])

(***************************************************************************)
(* Why UplinkCovers holds: the inductive invariant.                        *)
(***************************************************************************)
\* The lock is held exactly by the process in its critical section.
LockOwner == \A v \in Vf : pc[v] \in Critical <=> lock = v

\* The port of a VF that is being attached fills up, and stays as it is.
PortFills ==
  \A v \in Vf :
    /\ pc[v] \in {"defaultVlan", "trunk", "addLock", "addUplink", "attached"}
         => port[v].master = conf[v].bridge
    /\ pc[v] = "defaultVlan" => todo[v] = conf[v].trunk
    /\ pc[v] = "trunk" => conf[v].trunk \subseteq port[v].vlans \cup todo[v]
    /\ pc[v] \in {"addLock", "addUplink", "attached"}
         => Vlans(conf[v]) \subseteq port[v].vlans
    /\ pc[v] = "addLock" => conf[v].setUplinkVlan

\* The uplink fills up while the lock is held.
UplinkFills ==
  \A v \in Vf : pc[v] = "addUplink" =>
    Vlans(conf[v]) \subseteq uplinkVlans[UplinkOf[v]] \cup todo[v]

\* A process that removes VLANs has listed the members of its uplink, and
\* goes on to remove nothing they need: nobody joins while it has the lock.
SparesMembers ==
  \A d, v \in Vf : Member(v) /\ UplinkOf[v] = UplinkOf[d] =>
    /\ pc[d] = "unused" => v \in brif[d]
    /\ pc[d] = "delUplink" => Vlans(conf[v]) \cap todo[d] = {}

IInv == TypeOK /\ LockOwner /\ PortFills /\ UplinkFills /\ SparesMembers /\ UplinkCovers

\* Why PortExact holds: a port is built from nothing, step by step.
Carries(v, vlans, pvid) ==
  port[v].master = conf[v].bridge /\ port[v].vlans = vlans /\ port[v].pvid = pvid

PortBuilds ==
  \A v \in Vf :
    /\ pc[v] \in {"idle", "detached"} \cup DelPc => port[v] = NoPort
    /\ pc[v] = "defaultVlan" =>
         /\ Carries(v, {DefaultVlan}, DefaultVlan)
         /\ RemovesDefault(conf[v]) /\ todo[v] = conf[v].trunk
    /\ pc[v] = "trunk" =>
         /\ todo[v] \subseteq conf[v].trunk
         /\ IF RemovesDefault(conf[v]) THEN Carries(v, conf[v].trunk \ todo[v], 0)
            ELSE Carries(v, {DefaultVlan}, DefaultVlan)
    /\ pc[v] \in {"addLock", "addUplink", "attached"} => port[v] = PortOf(conf[v])

\* A command or an attachment of v accounts for VLAN x on uplink u.
Uses(v, u, x) == UplinkOf[v] = u /\ pc[v] # "detached" /\ x \in Vlans(conf[v])

\* A VLAN the plugin put on an uplink stays only while a command or an
\* attachment of that uplink is still there to take it off again.
NoLeak ==
  \A u \in Uplink : \A x \in uplinkVlans[u] \ AdminVlans[u] : \E v \in Vf : Uses(v, u, x)

\* Why NoLeak holds: a VLAN that a process leaves on the uplink has another
\* user, who has yet to get the lock before it is gone.
LeavesUsed(v) ==
  LET u == UplinkOf[v]
  IN  \A x \in (uplinkVlans[u] \ AdminVlans[u]) \cap (Vlans(conf[v]) \ todo[v]) :
        \E w \in Vf \ {v} : Uses(w, u, x)

Accounts ==
  \A v \in Vf :
    /\ pc[v] # "undo"
    /\ IF pc[v] = "idle" THEN Vlans(conf[v]) = {} ELSE conf[v].setUplinkVlan
    /\ pc[v] = "addUplink" => todo[v] \subseteq Vlans(conf[v])
    /\ pc[v] = "unused" => brif[v] \subseteq Vf
    /\ pc[v] = "delUplink" => LeavesUsed(v)

\* Every AttachRepresentor and DetachRepresentor that started comes to an
\* end: nobody waits for the uplink lock for ever, killed holders included.
Finishes ==
  \A v \in Vf : pc[v] \in AddPc \cup DelPc ~> pc[v] \notin AddPc \cup DelPc

\* The service the uplinks offer to the VFs, and that the steps above are
\* steps of it: no VLAN is ever withdrawn from a member that needs it.
Need == [v \in Vf |-> IF Member(v) THEN Vlans(conf[v]) ELSE {}]
Service == INSTANCE UplinkService WITH carried <- uplinkVlans, need <- Need
ServiceSpec == Service!Spec
=============================================================================
