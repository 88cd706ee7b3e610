-------------------------- MODULE UplinkVlansProofs --------------------------
(***************************************************************************)
(* Proofs about UplinkVlans, for any number of VFs, uplinks, bridges and   *)
(* VLANs, any configurations, any failing calls and any killed processes.  *)
(***************************************************************************)
EXTENDS UplinkVlans, TLAPS

(***************************************************************************)
(* Types.                                                                  *)
(***************************************************************************)
LEMMA ConfTypes ==
  /\ \A c \in Conf \cup {NoConf} :
       /\ c.trunk \subseteq Vlan
       /\ c.vlan \in Vlan \cup {0}
       /\ Vlans(c) \subseteq Vlan
  /\ \A c \in Conf : c.bridge \in Bridge
  BY DEF Conf, NoConf, Vlans

LEMMA ZeroOrVlan == \A y \in Vlan \cup {0} : y > 0 \/ y = 0
<1>1. \A y \in 1 .. 4094 : y > 0
  OBVIOUS
<1> QED
  BY <1>1, VlanAssumption

LEMMA PortTypes ==
  /\ NoPort \in Port
  /\ \A p \in Port, b \in Bridge : Enslaved(p, b) \in Port
  /\ \A p \in Port, x \in Vlan :
       /\ WithoutVlan(p, x) \in Port
       /\ WithTagged(p, x) \in Port
       /\ WithPvid(p, x) \in Port
<1> USE DEF Port
<1>1. DefaultVlan \in Vlan
  BY VlanAssumption
<1>2. NoPort \in Port
  BY DEF NoPort
<1>3. ASSUME NEW p \in Port, NEW b \in Bridge PROVE Enslaved(p, b) \in Port
  <2>1. CASE p.master = b
    BY <2>1 DEF Enslaved
  <2>2. CASE p.master # b
    BY <1>1, <2>2 DEF Enslaved
  <2> QED
    BY <2>1, <2>2
<1>4. ASSUME NEW p \in Port, NEW x \in Vlan
      PROVE  WithoutVlan(p, x) \in Port /\ WithTagged(p, x) \in Port
  <2>1. /\ p.vlans \ {x} \in SUBSET Vlan
        /\ p.vlans \cup {x} \in SUBSET Vlan
        /\ (IF p.pvid = x THEN 0 ELSE p.pvid) \in Vlan \cup {0}
    OBVIOUS
  <2> QED
    BY <2>1 DEF WithoutVlan, WithTagged
<1>5. ASSUME NEW p \in Port, NEW x \in Vlan PROVE WithPvid(p, x) \in Port
  BY DEF WithPvid
<1> QED
  BY <1>2, <1>3, <1>4, <1>5

LEMMA TypeStep == TypeOK /\ [Next]_vars => TypeOK'
<1> SUFFICES ASSUME TypeOK, [Next]_vars PROVE TypeOK'
  OBVIOUS
<1> USE DEF TypeOK, AnyPc, AddPc, DelPc, Goto
<1>1. CASE UNCHANGED vars
  BY <1>1 DEF vars
<1>2. ASSUME NEW v \in Vf, NEW c \in Config, SetMaster(v, c) PROVE TypeOK'
  <2>1. c \in Conf /\ c.bridge \in Bridge /\ c.trunk \subseteq Vlan
    BY ConfigAssumption, ConfTypes
  <2>2. Enslaved(port[v], c.bridge) \in Port
    BY <2>1, PortTypes
  <2> QED
    BY <1>2, <2>1, <2>2 DEF SetMaster
<1>3. ASSUME NEW v \in Vf, Detach(v) \/ DetachFails(v) \/ Forget(v) \/ Abandon(v) PROVE TypeOK'
  BY <1>3, PortTypes DEF Detach, DetachFails, Forget, Abandon
<1>4. ASSUME NEW v \in Vf, Kill(v) PROVE TypeOK'
  BY <1>4 DEF Kill, Release
<1>5. ASSUME NEW v \in Vf, DelDefaultVlan(v) PROVE TypeOK'
  <2>1. WithoutVlan(port[v], DefaultVlan) \in Port
    BY PortTypes, VlanAssumption
  <2> QED
    BY <1>5, <2>1 DEF DelDefaultVlan
<1>6. ASSUME NEW v \in Vf, SetPvid(v) PROVE TypeOK'
  <2>1. conf[v].vlan > 0 => WithPvid(port[v], conf[v].vlan) \in Port
    BY PortTypes DEF Conf, NoConf
  <2> QED
    BY <1>6, <2>1 DEF SetPvid
<1>7. ASSUME NEW v \in Vf, UnlockAfterAdd(v) \/ AttachFails(v) \/ DeleteFails(v)
             \/ UnlockAfterDel(v)
      PROVE TypeOK'
  BY <1>7 DEF UnlockAfterAdd, AttachFails, DeleteFails, UnlockAfterDel, Release
<1>8. ASSUME NEW v \in Vf, UndoMaster(v) PROVE TypeOK'
  BY <1>8, PortTypes DEF UndoMaster
<1>9. ASSUME NEW v \in Vf, ListPorts(v) PROVE TypeOK'
  BY <1>9 DEF ListPorts, OtherPorts
<1>10. ASSUME NEW v \in Vf, FindUnused(v) PROVE TypeOK'
  BY <1>10, ConfTypes DEF FindUnused, Unused
<1>11. ASSUME NEW v \in Vf, GetsLock(v) PROVE TypeOK'
  BY <1>11, ConfTypes DEF GetsLock, LockForAdd, LockForDel, Acquire
<1>12. ASSUME NEW v \in Vf, NEW x \in Vlan, AddTrunkVlan(v, x) PROVE TypeOK'
  BY <1>12, PortTypes DEF AddTrunkVlan
<1>13. ASSUME NEW v \in Vf, NEW x \in Vlan, AddUplinkVlan(v, x) \/ DelUplinkVlan(v, x)
       PROVE TypeOK'
  BY <1>13, TopologyAssumption DEF AddUplinkVlan, DelUplinkVlan
<1> QED
  BY <1>1, <1>2, <1>3, <1>4, <1>5, <1>6, <1>7, <1>8, <1>9, <1>10, <1>11, <1>12,
     <1>13 DEF Next, Step

LEMMA TypeInit == Init => TypeOK
  BY TopologyAssumption
  DEF Init, TypeOK, AnyPc, NoConf, NoPort, Port

\* Every variable keeps its type, whatever fails or is killed.
THEOREM TypeCorrect == Spec => []TypeOK
  BY TypeInit, TypeStep, PTL DEF Spec

(***************************************************************************)
(* The lock.                                                               *)
(***************************************************************************)
LEMMA LockStep == TypeOK /\ LockOwner /\ [Next]_vars => LockOwner'
<1> SUFFICES ASSUME TypeOK, LockOwner, [Next]_vars PROVE LockOwner'
  OBVIOUS
<1> USE TopologyAssumption DEF TypeOK, LockOwner, Critical, Goto
<1>1. CASE UNCHANGED vars
  BY <1>1 DEF vars
<1>2. ASSUME NEW v \in Vf, NEW c \in Config, SetMaster(v, c) PROVE LockOwner'
  BY <1>2 DEF SetMaster
<1>3. ASSUME NEW v \in Vf, Detach(v) \/ DetachFails(v) \/ Forget(v) \/ Abandon(v) PROVE LockOwner'
  BY <1>3 DEF Detach, DetachFails, Forget, Abandon
<1>4. ASSUME NEW v \in Vf, Kill(v) PROVE LockOwner'
  BY <1>4 DEF Kill, Release, DelPc
<1>5. ASSUME NEW v \in Vf, DelDefaultVlan(v) \/ SetPvid(v) \/ UndoMaster(v)
      PROVE  LockOwner'
  BY <1>5 DEF DelDefaultVlan, SetPvid, UndoMaster
<1>6. ASSUME NEW v \in Vf, UnlockAfterAdd(v) \/ UnlockAfterDel(v) PROVE LockOwner'
  BY <1>6 DEF UnlockAfterAdd, UnlockAfterDel, Release
<1>7. ASSUME NEW v \in Vf, AttachFails(v) \/ DeleteFails(v) PROVE LockOwner'
  BY <1>7 DEF AttachFails, DeleteFails, Release
<1>8. ASSUME NEW v \in Vf, ListPorts(v) \/ FindUnused(v) PROVE LockOwner'
  BY <1>8 DEF ListPorts, FindUnused
<1>9. ASSUME NEW v \in Vf, GetsLock(v) PROVE LockOwner'
  BY <1>9 DEF GetsLock, LockForAdd, LockForDel, Acquire
<1>10. ASSUME NEW v \in Vf, NEW x \in Vlan,
              AddTrunkVlan(v, x) \/ AddUplinkVlan(v, x) \/ DelUplinkVlan(v, x)
       PROVE  LockOwner'
  BY <1>10 DEF AddTrunkVlan, AddUplinkVlan, DelUplinkVlan
<1> QED
  BY <1>1, <1>2, <1>3, <1>4, <1>5, <1>6, <1>7, <1>8, <1>9, <1>10 DEF Next, Step

\* Of the processes that read or write VLANs of uplinks, one at a time is past
\* Lock and short of Unlock, and it is the one that holds the lock.
THEOREM OneAtATime == Spec => []LockOwner
<1>1. Init => TypeOK /\ LockOwner
  BY TypeInit, TopologyAssumption DEF Init, LockOwner, Critical
<1>2. TypeOK /\ LockOwner /\ [Next]_vars => TypeOK' /\ LockOwner'
  BY TypeStep, LockStep
<1> QED
  BY <1>1, <1>2, PTL DEF Spec

(***************************************************************************)
(* The port of a VF that is being attached.                                *)
(***************************************************************************)
LEMMA PortStep == TypeOK /\ PortFills /\ [Next]_vars => PortFills'
<1> SUFFICES ASSUME TypeOK, PortFills, [Next]_vars PROVE PortFills'
  OBVIOUS
<1> USE DEF TypeOK, PortFills, Goto
<1>1. CASE UNCHANGED vars
  BY <1>1 DEF vars, Vlans
<1>2. ASSUME NEW v \in Vf, NEW c \in Config, SetMaster(v, c) PROVE PortFills'
  <2>1. Enslaved(port[v], c.bridge).master = c.bridge
    BY DEF Enslaved
  <2> QED
    BY <1>2, <2>1 DEF SetMaster
<1>3. ASSUME NEW v \in Vf, Detach(v) \/ DetachFails(v) \/ Forget(v) \/ Abandon(v) PROVE PortFills'
  BY <1>3 DEF Detach, DetachFails, Forget, Abandon
<1>4. ASSUME NEW v \in Vf, Kill(v) PROVE PortFills'
  BY <1>4 DEF Kill
<1>5. ASSUME NEW v \in Vf, DelDefaultVlan(v) PROVE PortFills'
  <2>1. WithoutVlan(port[v], DefaultVlan).master = port[v].master
    BY DEF WithoutVlan, Port
  <2> QED
    BY <1>5, <2>1 DEF DelDefaultVlan
<1>6. ASSUME NEW v \in Vf, SetPvid(v) PROVE PortFills'
  <2> DEFINE x == conf[v].vlan
  <2>1. WithPvid(port[v], x).master = port[v].master
        /\ WithPvid(port[v], x).vlans = port[v].vlans \cup {x}
    BY DEF WithPvid, Port
  <2>2. Vlans(conf[v]) \subseteq port'[v].vlans
    <3>1. conf[v].trunk \subseteq port[v].vlans
      BY <1>6 DEF SetPvid
    <3>2. CASE x > 0
      BY <1>6, <2>1, <3>1, <3>2 DEF SetPvid, Vlans
    <3>3. CASE ~(x > 0)
      <4>1. x \in Vlan \cup {0}
        BY ConfTypes
      <4>2. x = 0
        BY <3>3, <4>1, ZeroOrVlan
      <4> QED
        BY <1>6, <3>1, <4>2 DEF SetPvid, Vlans
    <3> QED
      BY <3>2, <3>3
  <2>3. port'[v].master = port[v].master
    BY <1>6, <2>1 DEF SetPvid
  <2>4. \A w \in Vf \ {v} : port'[w] = port[w] /\ pc'[w] = pc[w]
    BY <1>6 DEF SetPvid
  <2> QED
    BY <1>6, <2>2, <2>3, <2>4 DEF SetPvid
<1>7. ASSUME NEW v \in Vf, UnlockAfterAdd(v) \/ UnlockAfterDel(v) PROVE PortFills'
  BY <1>7 DEF UnlockAfterAdd, UnlockAfterDel
<1>8. ASSUME NEW v \in Vf, AttachFails(v) \/ DeleteFails(v) \/ UndoMaster(v)
      PROVE  PortFills'
  BY <1>8 DEF AttachFails, DeleteFails, UndoMaster
<1>9. ASSUME NEW v \in Vf, ListPorts(v) \/ FindUnused(v) PROVE PortFills'
  BY <1>9 DEF ListPorts, FindUnused
<1>10. ASSUME NEW v \in Vf, GetsLock(v) PROVE PortFills'
  BY <1>10 DEF GetsLock, LockForAdd, LockForDel
<1>11. ASSUME NEW v \in Vf, NEW x \in Vlan, AddTrunkVlan(v, x) PROVE PortFills'
  <2>1. /\ WithTagged(port[v], x).master = port[v].master
        /\ WithTagged(port[v], x).vlans = port[v].vlans \cup {x}
    BY DEF WithTagged, Port
  <2> QED
    BY <1>11, <2>1 DEF AddTrunkVlan
<1>12. ASSUME NEW v \in Vf, NEW x \in Vlan, AddUplinkVlan(v, x) \/ DelUplinkVlan(v, x)
       PROVE  PortFills'
  BY <1>12 DEF AddUplinkVlan, DelUplinkVlan
<1> QED
  BY <1>1, <1>2, <1>3, <1>4, <1>5, <1>6, <1>7, <1>8, <1>9, <1>10, <1>11, <1>12
  DEF Next, Step

(***************************************************************************)
(* The uplink.                                                             *)
(***************************************************************************)
\* While a process is in its critical section no other one is.
LEMMA Alone ==
  ASSUME TypeOK, LockOwner, NEW v \in Vf, NEW w \in Vf,
         pc[v] \in Critical, pc[w] \in Critical
  PROVE  v = w
  BY DEF LockOwner

\* The only step that makes a member is UnlockAfterAdd.
LEMMA Joins ==
  ASSUME TypeOK, PortFills, [Next]_vars, NEW v \in Vf, Member(v)'
  PROVE  \/ /\ Member(v) /\ conf'[v] = conf[v] /\ port'[v] = port[v]
         \/ UnlockAfterAdd(v)
<1> USE DEF TypeOK, Member, Goto
<1>1. CASE UNCHANGED vars
  BY <1>1 DEF vars
<1>2. ASSUME NEW w \in Vf,
             \/ \E c \in Config : SetMaster(w, c)
             \/ Detach(w) \/ DetachFails(w) \/ Forget(w) \/ Abandon(w) \/ Kill(w)
             \/ DelDefaultVlan(w) \/ AttachFails(w) \/ UndoMaster(w)
      PROVE  Member(v) /\ conf'[v] = conf[v] /\ port'[v] = port[v]
  BY <1>2 DEF SetMaster, Detach, DetachFails, Forget, Abandon, Kill, DelDefaultVlan,
              AttachFails, UndoMaster, DelPc
<1>3. ASSUME NEW w \in Vf,
             \/ ListPorts(w) \/ FindUnused(w) \/ UnlockAfterDel(w)
             \/ DeleteFails(w) \/ GetsLock(w)
      PROVE  Member(v) /\ conf'[v] = conf[v] /\ port'[v] = port[v]
  BY <1>3 DEF ListPorts, FindUnused, UnlockAfterDel, DeleteFails, GetsLock,
              LockForAdd, LockForDel
<1>4. ASSUME NEW w \in Vf, SetPvid(w)
      PROVE  Member(v) /\ conf'[v] = conf[v] /\ port'[v] = port[v]
  BY <1>4 DEF SetPvid
<1>5. ASSUME NEW w \in Vf, UnlockAfterAdd(w), w # v
      PROVE  Member(v) /\ conf'[v] = conf[v] /\ port'[v] = port[v]
  BY <1>5 DEF UnlockAfterAdd
<1>6. ASSUME NEW w \in Vf, NEW x \in Vlan,
             AddTrunkVlan(w, x) \/ AddUplinkVlan(w, x) \/ DelUplinkVlan(w, x)
      PROVE  Member(v) /\ conf'[v] = conf[v] /\ port'[v] = port[v]
  BY <1>6 DEF AddTrunkVlan, AddUplinkVlan, DelUplinkVlan
<1> QED
  BY <1>1, <1>2, <1>3, <1>4, <1>5, <1>6 DEF Next, Step

\* VLANs leave an uplink in DelUplinkVlan only.
LEMMA OnlyDeletes ==
  ASSUME TypeOK, [Next]_vars, NEW u \in Uplink
  PROVE  \/ uplinkVlans[u] \subseteq uplinkVlans'[u]
         \/ \E d \in Vf, x \in Vlan : DelUplinkVlan(d, x)
<1> USE DEF TypeOK
<1>1. CASE UNCHANGED vars
  BY <1>1 DEF vars
<1>2. ASSUME NEW v \in Vf,
             \/ \E c \in Config : SetMaster(v, c)
             \/ Detach(v) \/ DetachFails(v) \/ Forget(v) \/ Abandon(v) \/ Kill(v)
             \/ DelDefaultVlan(v) \/ SetPvid(v) \/ UnlockAfterAdd(v)
             \/ AttachFails(v) \/ UndoMaster(v) \/ ListPorts(v) \/ FindUnused(v)
             \/ UnlockAfterDel(v) \/ DeleteFails(v) \/ GetsLock(v)
             \/ \E x \in Vlan : AddTrunkVlan(v, x)
      PROVE  uplinkVlans[u] \subseteq uplinkVlans'[u]
  BY <1>2 DEF SetMaster, Detach, DetachFails, Forget, Abandon, Kill, DelDefaultVlan,
              SetPvid, UnlockAfterAdd, AttachFails, UndoMaster, ListPorts,
              FindUnused, UnlockAfterDel, DeleteFails, GetsLock, LockForAdd,
              LockForDel, AddTrunkVlan
<1>3. ASSUME NEW v \in Vf, NEW x \in Vlan, AddUplinkVlan(v, x)
      PROVE  uplinkVlans[u] \subseteq uplinkVlans'[u]
  BY <1>3 DEF AddUplinkVlan
<1> QED
  BY <1>1, <1>2, <1>3 DEF Next, Step

LEMMA FillsStep == TypeOK /\ LockOwner /\ UplinkFills /\ [Next]_vars => UplinkFills'
<1> SUFFICES ASSUME TypeOK, LockOwner, UplinkFills, [Next]_vars,
                    NEW v \in Vf, pc'[v] = "addUplink"
             PROVE  Vlans(conf'[v]) \subseteq uplinkVlans'[UplinkOf[v]] \cup todo'[v]
  BY DEF UplinkFills, Vlans
<1> USE DEF TypeOK, Goto
<1>1. CASE LockForAdd(v)
  BY <1>1 DEF LockForAdd, Vlans
<1>2. ASSUME NEW x \in Vlan, AddUplinkVlan(v, x)
      PROVE  Vlans(conf'[v]) \subseteq uplinkVlans'[UplinkOf[v]] \cup todo'[v]
  <2>1. Vlans(conf[v]) \subseteq uplinkVlans[UplinkOf[v]] \cup todo[v]
    BY <1>2 DEF AddUplinkVlan, UplinkFills
  <2>2. conf'[v] = conf[v] /\ todo'[v] = todo[v] \ {x}
    BY <1>2 DEF AddUplinkVlan
  <2>3. uplinkVlans'[UplinkOf[v]] = uplinkVlans[UplinkOf[v]] \cup {x}
    BY <1>2, TopologyAssumption DEF AddUplinkVlan
  <2> QED
    BY <2>1, <2>2, <2>3
<1>3. CASE UNCHANGED vars
  BY <1>3 DEF vars, UplinkFills, Vlans
<1>4. CASE ~LockForAdd(v) /\ ~(\E x \in Vlan : AddUplinkVlan(v, x)) /\ Next
  <2>1. pc[v] = "addUplink" /\ conf'[v] = conf[v] /\ todo'[v] = todo[v]
    <3>1. ASSUME NEW w \in Vf,
                 \/ \E c \in Config : SetMaster(w, c)
                 \/ Detach(w) \/ DetachFails(w) \/ Forget(w) \/ Abandon(w) \/ Kill(w)
                 \/ DelDefaultVlan(w) \/ SetPvid(w) \/ UnlockAfterAdd(w)
                 \/ AttachFails(w) \/ UndoMaster(w)
          PROVE  pc[v] = "addUplink" /\ conf'[v] = conf[v] /\ todo'[v] = todo[v]
      BY <3>1 DEF SetMaster, Detach, DetachFails, Forget, Abandon, Kill, DelPc,
                  DelDefaultVlan, SetPvid, UnlockAfterAdd, AttachFails, UndoMaster
    <3>2. ASSUME NEW w \in Vf,
                 \/ ListPorts(w) \/ FindUnused(w)
                 \/ UnlockAfterDel(w) \/ DeleteFails(w) \/ LockForDel(w)
          PROVE  pc[v] = "addUplink" /\ conf'[v] = conf[v] /\ todo'[v] = todo[v]
      BY <3>2 DEF ListPorts, FindUnused, UnlockAfterDel, DeleteFails, LockForDel
    <3>3. ASSUME NEW w \in Vf, LockForAdd(w), w # v
          PROVE  pc[v] = "addUplink" /\ conf'[v] = conf[v] /\ todo'[v] = todo[v]
      BY <3>3 DEF LockForAdd
    <3>4. ASSUME NEW w \in Vf, NEW x \in Vlan,
                 \/ AddTrunkVlan(w, x) \/ DelUplinkVlan(w, x)
                 \/ AddUplinkVlan(w, x) /\ w # v
          PROVE  pc[v] = "addUplink" /\ conf'[v] = conf[v] /\ todo'[v] = todo[v]
      BY <3>4 DEF AddTrunkVlan, AddUplinkVlan, DelUplinkVlan
    <3> QED
      BY <1>4, <3>1, <3>2, <3>3, <3>4 DEF Next, Step, GetsLock
  <2>2. ~(\E d \in Vf, x \in Vlan : DelUplinkVlan(d, x))
    BY <2>1, Alone DEF DelUplinkVlan, Critical
  <2>3. uplinkVlans[UplinkOf[v]] \subseteq uplinkVlans'[UplinkOf[v]]
    BY <2>2, OnlyDeletes, TopologyAssumption
  <2> QED
    BY <2>1, <2>3 DEF UplinkFills
<1> QED
  BY <1>1, <1>2, <1>3, <1>4

LEMMA SparesStep ==
  ASSUME TypeOK, LockOwner, PortFills, SparesMembers, [Next]_vars,
         "BridgeVlanList" \notin FaultyCalls
  PROVE  SparesMembers'
<1> SUFFICES ASSUME NEW d \in Vf, NEW v \in Vf, Member(v)', UplinkOf[v] = UplinkOf[d]
             PROVE  /\ pc'[d] = "unused" => v \in brif'[d]
                    /\ pc'[d] = "delUplink" => Vlans(conf'[v]) \cap todo'[d] = {}
  BY DEF SparesMembers, Vlans
<1> USE DEF TypeOK, Goto
<1>1. CASE UnlockAfterAdd(v)
  \* v holds the lock, so d is not in its critical section.
  <2>1. d # v => pc[d] \notin Critical
    BY <1>1, Alone DEF UnlockAfterAdd, Critical
  <2> QED
    BY <1>1, <2>1 DEF UnlockAfterAdd, Critical
<1>2. CASE Member(v) /\ conf'[v] = conf[v] /\ port'[v] = port[v] /\ ~UnlockAfterAdd(v)
  <2>1. port[v].master = BridgeOf[UplinkOf[d]]
        /\ Vlans(conf[v]) \subseteq port[v].vlans
    BY <1>2 DEF PortFills, Member
  <2>2. CASE ListPorts(d)
    BY <1>2, <2>1, <2>2 DEF ListPorts, OtherPorts
  <2>3. CASE FindUnused(d)
    <3>1. v \in brif[d] /\ pc[d] = "unused" /\ todo'[d] = Unused(d)
          /\ pc'[d] = "delUplink"
      BY <1>2, <2>3 DEF FindUnused, SparesMembers
    <3>2. Vlans(conf[v]) \cap Unused(d) = {}
      BY <2>1, <3>1 DEF Unused, VlansOn
    <3> QED
      BY <1>2, <3>1, <3>2
  <2>4. CASE ~ListPorts(d) /\ ~FindUnused(d)
    <3>1. \/ pc'[d] \notin {"unused", "delUplink"}
          \/ pc'[d] = pc[d] /\ brif'[d] = brif[d] /\ todo'[d] \subseteq todo[d]
      <4>1. CASE UNCHANGED vars
        BY <4>1 DEF vars
      <4>2. ASSUME NEW w \in Vf,
                   \/ \E c \in Config : SetMaster(w, c)
                   \/ Detach(w) \/ DetachFails(w) \/ Forget(w) \/ Abandon(w) \/ Kill(w)
                   \/ DelDefaultVlan(w) \/ SetPvid(w) \/ UnlockAfterAdd(w)
                   \/ AttachFails(w) \/ UndoMaster(w)
            PROVE  <3>1
        BY <4>2 DEF SetMaster, Detach, DetachFails, Forget, Abandon, Kill, DelPc,
                    DelDefaultVlan, SetPvid, UnlockAfterAdd, AttachFails, UndoMaster
      <4>3. ASSUME NEW w \in Vf,
                   \/ (ListPorts(w) \/ FindUnused(w)) /\ w # d
                   \/ UnlockAfterDel(w) \/ DeleteFails(w) \/ GetsLock(w)
            PROVE  <3>1
        BY <4>3 DEF ListPorts, FindUnused, UnlockAfterDel, DeleteFails, GetsLock,
                    LockForAdd, LockForDel
      <4>4. ASSUME NEW w \in Vf, NEW x \in Vlan,
                   AddTrunkVlan(w, x) \/ AddUplinkVlan(w, x) \/ DelUplinkVlan(w, x)
            PROVE  <3>1
        BY <4>4 DEF AddTrunkVlan, AddUplinkVlan, DelUplinkVlan
      <4> QED
        BY <2>4, <4>1, <4>2, <4>3, <4>4 DEF Next, Step
    <3> QED
      BY <1>2, <3>1 DEF SparesMembers
  <2> QED
    BY <2>2, <2>3, <2>4
<1> QED
  BY <1>1, <1>2, Joins

LEMMA CoversStep ==
  ASSUME TypeOK, PortFills, UplinkFills, SparesMembers, UplinkCovers, LockOwner,
         [Next]_vars
  PROVE  UplinkCovers'
<1> SUFFICES ASSUME NEW v \in Vf, Member(v)'
             PROVE  Vlans(conf'[v]) \subseteq uplinkVlans'[UplinkOf[v]]
  BY DEF UplinkCovers, Vlans
<1> USE TopologyAssumption DEF TypeOK, Goto
<1>1. CASE UnlockAfterAdd(v)
  BY <1>1 DEF UnlockAfterAdd, UplinkFills
<1>2. CASE Member(v) /\ conf'[v] = conf[v]
  <2>1. Vlans(conf[v]) \subseteq uplinkVlans[UplinkOf[v]]
    BY <1>2 DEF UplinkCovers
  <2>2. ASSUME NEW d \in Vf, NEW x \in Vlan, DelUplinkVlan(d, x)
        PROVE  Vlans(conf[v]) \subseteq uplinkVlans'[UplinkOf[v]]
    <3>1. CASE UplinkOf[d] = UplinkOf[v]
      <4>1. x \notin Vlans(conf[v])
        BY <1>2, <2>2, <3>1 DEF DelUplinkVlan, SparesMembers
      <4> QED
        BY <2>1, <2>2, <3>1, <4>1 DEF DelUplinkVlan
    <3>2. CASE UplinkOf[d] # UplinkOf[v]
      BY <2>1, <2>2, <3>2 DEF DelUplinkVlan
    <3> QED
      BY <3>1, <3>2
  <2>3. CASE uplinkVlans[UplinkOf[v]] \subseteq uplinkVlans'[UplinkOf[v]]
    BY <1>2, <2>1, <2>3
  <2> QED
    <3>1. UplinkOf[v] \in Uplink /\ Vlans(conf'[v]) = Vlans(conf[v])
      BY <1>2
    <3>2. Vlans(conf[v]) \subseteq uplinkVlans'[UplinkOf[v]]
      BY <2>2, <2>3, <3>1, OnlyDeletes
    <3> QED
      BY <3>1, <3>2
<1> QED
  BY <1>1, <1>2, Joins

LEMMA IInvInit == Init => IInv
<1> SUFFICES ASSUME Init PROVE IInv
  OBVIOUS
<1>1. TypeOK
  BY TypeInit
<1> QED
  BY <1>1, TopologyAssumption
  DEF Init, IInv, LockOwner, Critical, PortFills, UplinkFills, SparesMembers,
      UplinkCovers, Member

\* As long as BridgeVlanList answers, whichever of the other calls fail and
\* wherever processes are killed, the lock has one owner at most, and who
\* removes VLANs from an uplink has listed all members of it.
THEOREM Inductive ==
  ASSUME "BridgeVlanList" \notin FaultyCalls
  PROVE  Spec => []IInv
<1>1. IInv /\ [Next]_vars => IInv'
  BY TypeStep, LockStep, PortStep, FillsStep, SparesStep, CoversStep DEF IInv
<1> QED
  BY <1>1, IInvInit, PTL DEF Spec

\* Therefore an attached VF that asked for its VLANs on the uplink finds all
\* of them there, whatever the other processes do with that uplink.
THEOREM Coverage ==
  ASSUME "BridgeVlanList" \notin FaultyCalls
  PROVE  Spec => []UplinkCovers
<1>1. IInv => UplinkCovers
  BY DEF IInv
<1> QED
  BY <1>1, Inductive, PTL

(***************************************************************************)
(* The protocol implements the service.                                    *)
(***************************************************************************)
\* What the VFs need changes for one VF, or not at all.
LEMMA NeedSame ==
  ASSUME NEW v \in Vf,
         \A w \in Vf \ {v} : Member(w)' = Member(w) /\ conf'[w] = conf[w]
  PROVE  /\ Member(v)' => Need' = [Need EXCEPT ![v] = Vlans(conf'[v])]
         /\ ~Member(v)' => Need' = [Need EXCEPT ![v] = {}]
  BY DEF Need, Vlans

LEMMA ServiceStep ==
  ASSUME IInv, [Next]_vars PROVE [Service!Next]_(Service!vars)
<1> USE TopologyAssumption DEF TypeOK, Goto
<1>a. TypeOK /\ LockOwner /\ PortFills /\ UplinkFills /\ SparesMembers
  BY DEF IInv
<1>1. CASE UNCHANGED vars
  BY <1>1 DEF vars, Service!vars, Need, Member, Vlans
<1>2. ASSUME NEW v \in Vf, Detach(v) \/ DetachFails(v) \/ Abandon(v) \/ Kill(v)
      PROVE  Service!Next
  <2>1. ~Member(v)' /\ uplinkVlans' = uplinkVlans
    BY <1>2, <1>a DEF Detach, DetachFails, Abandon, Kill, Member
  <2>2. \A w \in Vf \ {v} : Member(w)' = Member(w) /\ conf'[w] = conf[w]
    BY <1>2, <1>a DEF Detach, DetachFails, Abandon, Kill, Member
  <2>3. Service!Leave(v)
    BY <2>1, <2>2, NeedSame DEF Service!Leave
  <2> QED
    BY <2>3 DEF Service!Next
<1>3. ASSUME NEW v \in Vf, UnlockAfterAdd(v) PROVE [Service!Next]_(Service!vars)
  <2>1. ~Member(v) /\ uplinkVlans' = uplinkVlans /\ conf' = conf
    BY <1>3 DEF UnlockAfterAdd, Member
  <2>2. \A w \in Vf \ {v} : Member(w)' = Member(w) /\ conf'[w] = conf[w]
    BY <1>3, <1>a DEF UnlockAfterAdd, Member
  <2>3. Need[v] = {}
    BY <2>1 DEF Need
  <2>4. CASE Member(v)'
    <3>1. Vlans(conf[v]) \subseteq uplinkVlans[UplinkOf[v]]
      BY <1>3, <1>a DEF UnlockAfterAdd, UplinkFills
    <3>2. Vlans(conf[v]) \subseteq Vlan
      BY <1>a, ConfTypes
    <3>3. Need' = [Need EXCEPT ![v] = Vlans(conf[v])]
      BY <2>1, <2>2, <2>4, NeedSame
    <3>4. Service!Join(v, Vlans(conf[v]))
      BY <2>1, <2>3, <3>1, <3>3 DEF Service!Join
    <3> QED
      BY <3>2, <3>4 DEF Service!Next
  <2>5. CASE ~Member(v)'
    <3>1. Service!Leave(v)
      BY <2>1, <2>2, <2>5, NeedSame DEF Service!Leave
    <3> QED
      BY <3>1 DEF Service!Next
  <2> QED
    BY <2>4, <2>5
<1>4. ASSUME NEW v \in Vf, NEW x \in Vlan, AddUplinkVlan(v, x) PROVE Service!Next
  <2>1. Service!Admit(UplinkOf[v], x)
    BY <1>4 DEF AddUplinkVlan, Service!Admit, Need, Member, Vlans
  <2> QED
    BY <2>1 DEF Service!Next
<1>5. ASSUME NEW d \in Vf, NEW x \in Vlan, DelUplinkVlan(d, x) PROVE Service!Next
  <2>1. ASSUME NEW v \in Vf, UplinkOf[v] = UplinkOf[d] PROVE x \notin Need[v]
    BY <1>5, <1>a, <2>1 DEF DelUplinkVlan, SparesMembers, Need
  <2>2. Need' = Need /\ uplinkVlans' = [uplinkVlans EXCEPT ![UplinkOf[d]] = @ \ {x}]
    BY <1>5 DEF DelUplinkVlan, Need, Member, Vlans
  <2>3. Service!Withdraw(UplinkOf[d], x)
    BY <2>1, <2>2 DEF Service!Withdraw
  <2> QED
    BY <2>3 DEF Service!Next
<1>6. ASSUME NEW v \in Vf,
             \/ \E c \in Config : SetMaster(v, c)
             \/ Forget(v) \/ DelDefaultVlan(v) \/ SetPvid(v) \/ AttachFails(v)
             \/ UndoMaster(v)
      PROVE  UNCHANGED Service!vars
  <2>1. Member(v)' = FALSE /\ Member(v) = FALSE /\ uplinkVlans' = uplinkVlans
    BY <1>6, <1>a DEF SetMaster, Forget, DelDefaultVlan, SetPvid, AttachFails,
                UndoMaster, Member, AttachCall
  <2>2. \A w \in Vf \ {v} : Member(w)' = Member(w) /\ conf'[w] = conf[w]
    BY <1>6, <1>a DEF SetMaster, Forget, DelDefaultVlan, SetPvid, AttachFails,
                UndoMaster, Member
  <2>3. Need' = Need
    BY <2>1, <2>2 DEF Need, Vlans
  <2> QED
    BY <2>1, <2>3 DEF Service!vars
<1>7. ASSUME NEW v \in Vf,
             \/ ListPorts(v) \/ FindUnused(v) \/ UnlockAfterDel(v)
             \/ DeleteFails(v) \/ GetsLock(v)
             \/ \E x \in Vlan : AddTrunkVlan(v, x)
      PROVE  UNCHANGED Service!vars
  <2>1. uplinkVlans' = uplinkVlans /\ conf' = conf
    BY <1>7 DEF ListPorts, FindUnused, UnlockAfterDel, DeleteFails, GetsLock,
                LockForAdd, LockForDel, AddTrunkVlan
  <2>2. \A w \in Vf : Member(w)' = Member(w)
    BY <1>7, <1>a DEF ListPorts, FindUnused, UnlockAfterDel, DeleteFails, GetsLock,
                LockForAdd, LockForDel, AddTrunkVlan, Member, DeleteCall
  <2> QED
    BY <2>1, <2>2 DEF Service!vars, Need, Vlans
<1> QED
  BY <1>1, <1>2, <1>3, <1>4, <1>5, <1>6, <1>7 DEF Next, Step

\* Every behaviour of the protocol is one of the service: VLANs are withdrawn
\* from an uplink only while no member of it needs them.
THEOREM Implements ==
  ASSUME "BridgeVlanList" \notin FaultyCalls
  PROVE  Spec => ServiceSpec
<1>1. Init => Service!Init
  BY TopologyAssumption DEF Init, Service!Init, Need, Member
<1>2. IInv /\ [Next]_vars => IInv'
  BY TypeStep, LockStep, PortStep, FillsStep, SparesStep, CoversStep DEF IInv
<1>3. IInv /\ [Next]_vars => [Service!Next]_(Service!vars)
  BY ServiceStep
<1> QED
  BY <1>1, <1>2, <1>3, IInvInit, PTL DEF Spec, ServiceSpec, Service!Spec

(***************************************************************************)
(* A port carries exactly what was asked for.                              *)
(***************************************************************************)
LEMMA PortFields ==
  ASSUME NEW p \in Port, NEW x \in Vlan
  PROVE  /\ WithoutVlan(p, x).master = p.master
         /\ WithoutVlan(p, x).vlans = p.vlans \ {x}
         /\ WithoutVlan(p, x).pvid = IF p.pvid = x THEN 0 ELSE p.pvid
         /\ WithTagged(p, x).master = p.master
         /\ WithTagged(p, x).vlans = p.vlans \cup {x}
         /\ WithTagged(p, x).pvid = IF p.pvid = x THEN 0 ELSE p.pvid
         /\ WithPvid(p, x).master = p.master
         /\ WithPvid(p, x).vlans = p.vlans \cup {x}
         /\ WithPvid(p, x).pvid = x
  BY DEF Port, WithoutVlan, WithTagged, WithPvid

LEMMA SamePort ==
  ASSUME NEW p \in Port, NEW q \in Port,
         p.master = q.master, p.vlans = q.vlans, p.pvid = q.pvid
  PROVE  p = q
  BY DEF Port

LEMMA PortOfFields ==
  ASSUME NEW c \in Conf \cup {NoConf}
  PROVE  /\ PortOf(c) \in Port
         /\ PortOf(c).master = c.bridge
         /\ PortOf(c).vlans = IF Vlans(c) = {} THEN {DefaultVlan} ELSE Vlans(c)
         /\ PortOf(c).pvid = IF c.vlan > 0 THEN c.vlan
                             ELSE IF c.trunk = {} THEN DefaultVlan ELSE 0
<1>1. c.bridge \in Bridge \cup {NoBridge} /\ c.vlan \in Vlan \cup {0}
      /\ Vlans(c) \subseteq Vlan /\ DefaultVlan \in Vlan
  BY ConfTypes, VlanAssumption DEF Conf, NoConf
<1> QED
  BY <1>1 DEF PortOf, Port

\* VLAN 1 stays on the port only if it is the native VLAN, asked for or not.
LEMMA KeepsDefault ==
  ASSUME NEW c \in Conf \cup {NoConf}, ~RemovesDefault(c)
  PROVE  c.trunk = {} /\ (c.vlan = 0 \/ c.vlan = DefaultVlan)
<1>1. \A y \in Vlan \cup {0} : y > 1 \/ y = 1 \/ y = 0
  <2>1. \A y \in 1 .. 4094 : y > 1 \/ y = 1
    OBVIOUS
  <2> QED
    BY <2>1, VlanAssumption
<1>2. c.vlan \in Vlan \cup {0}
  BY ConfTypes
<1>3. ~(c.vlan > 1) /\ c.trunk = {}
  BY DEF RemovesDefault
<1> QED
  BY <1>1, <1>2, <1>3, Zenon DEF DefaultVlan

LEMMA BuildsStep ==
  ASSUME "LinkSetNoMaster" \notin FaultyCalls, ~DelMaySkip, ~MayKill,
         TypeOK, PortBuilds, [Next]_vars
  PROVE  PortBuilds'
<1> USE DEF TypeOK, Goto, AddPc, DelPc
<1>1. CASE UNCHANGED vars
  BY <1>1 DEF vars, PortBuilds, Carries
<1>2. ASSUME NEW v \in Vf, NEW c \in Config, SetMaster(v, c) PROVE PortBuilds'
  <2>1. c \in Conf /\ c.bridge # NoBridge
    BY ConfigAssumption, TopologyAssumption DEF Conf
  <2>2. port[v] = NoPort
    BY <1>2 DEF SetMaster, PortBuilds
  <2>3. Carries(v, {DefaultVlan}, DefaultVlan)'
    BY <1>2, <2>1, <2>2 DEF SetMaster, Enslaved, NoPort, Carries
  <2>4. /\ conf'[v] = c /\ todo'[v] = c.trunk
        /\ pc'[v] = (IF RemovesDefault(c) THEN "defaultVlan" ELSE "trunk")
    BY <1>2 DEF SetMaster
  <2>5. \A w \in Vf \ {v} : /\ conf'[w] = conf[w] /\ todo'[w] = todo[w]
                            /\ pc'[w] = pc[w] /\ port'[w] = port[w]
    BY <1>2 DEF SetMaster
  <2> QED
    BY <2>3, <2>4, <2>5 DEF PortBuilds, Carries
<1>3. ASSUME NEW v \in Vf, Detach(v) \/ Forget(v) PROVE PortBuilds'
  BY <1>3 DEF Detach, Forget, PortBuilds, Carries
<1>4. ASSUME NEW v \in Vf, UndoMaster(v) PROVE PortBuilds'
  BY <1>4 DEF UndoMaster, PortBuilds, Carries
<1>5. ASSUME NEW v \in Vf, DelDefaultVlan(v) PROVE PortBuilds'
  <2>1. Carries(v, {}, 0)'
    <3>1. port'[v] = WithoutVlan(port[v], DefaultVlan) /\ conf'[v] = conf[v]
      BY <1>5 DEF DelDefaultVlan
    <3>2. Carries(v, {DefaultVlan}, DefaultVlan)
      BY <1>5 DEF DelDefaultVlan, PortBuilds
    <3> QED
      BY <3>1, <3>2, PortFields, VlanAssumption DEF Carries
  <2>2. RemovesDefault(conf[v]) /\ conf[v].trunk \ todo[v] = {}
        /\ todo[v] \subseteq conf[v].trunk
    BY <1>5 DEF DelDefaultVlan, PortBuilds
  <2> QED
    BY <1>5, <2>1, <2>2 DEF DelDefaultVlan, PortBuilds, Carries
<1>6. ASSUME NEW v \in Vf, NEW x \in Vlan, AddTrunkVlan(v, x) PROVE PortBuilds'
  <2>1. /\ x \in conf[v].trunk /\ todo[v] \subseteq conf[v].trunk
        /\ RemovesDefault(conf[v]) /\ Carries(v, conf[v].trunk \ todo[v], 0)
    BY <1>6 DEF AddTrunkVlan, PortBuilds, RemovesDefault
  <2>2. port'[v] = WithTagged(port[v], x) /\ todo'[v] = todo[v] \ {x} /\ conf'[v] = conf[v]
    BY <1>6 DEF AddTrunkVlan
  <2>3. Carries(v, conf[v].trunk \ todo[v], 0)'
    <3>1. (conf[v].trunk \ todo[v]) \cup {x} = conf[v].trunk \ (todo[v] \ {x})
      BY <2>1
    <3> QED
      BY <2>1, <2>2, <3>1, PortFields DEF Carries
  <2> QED
    BY <1>6, <2>1, <2>2, <2>3 DEF AddTrunkVlan, PortBuilds, Carries
<1>7. ASSUME NEW v \in Vf, SetPvid(v) PROVE PortBuilds'
  <2> DEFINE c == conf[v]
  <2>1. c \in Conf \cup {NoConf}
    OBVIOUS
  <2>2. IF RemovesDefault(c) THEN Carries(v, c.trunk, 0)
        ELSE Carries(v, {DefaultVlan}, DefaultVlan)
    <3>1. c.trunk \ todo[v] = c.trunk
      BY <1>7 DEF SetPvid
    <3> QED
      BY <1>7, <3>1 DEF SetPvid, PortBuilds
  <2>3. port'[v] = PortOf(c)
    <3>1. CASE c.vlan > 0
      <4>1. port'[v] = WithPvid(port[v], c.vlan) /\ c.vlan \in Vlan
        BY <1>7, <3>1, <2>1, ConfTypes DEF SetPvid
      <4>2. port'[v] \in Port
        BY <4>1, PortTypes
      <4>3. port[v].vlans \cup {c.vlan} = Vlans(c) /\ Vlans(c) # {}
        <5>1. c.vlan # 0
          BY <3>1
        <5>2. Vlans(c) = c.trunk \cup {c.vlan}
          BY <5>1 DEF Vlans
        <5>3. CASE RemovesDefault(c)
          BY <2>2, <5>2, <5>3 DEF Carries
        <5>4. CASE ~RemovesDefault(c)
          BY <2>1, <2>2, <5>1, <5>2, <5>4, KeepsDefault DEF Carries
        <5> QED
          BY <5>3, <5>4
      <4>4. port'[v].master = c.bridge /\ port'[v].vlans = Vlans(c)
            /\ port'[v].pvid = c.vlan
        <5>1. port[v].master = c.bridge
          BY <2>2 DEF Carries
        <5>2. port[v] \in Port
          OBVIOUS
        <5>3. /\ WithPvid(port[v], c.vlan).master = port[v].master
              /\ WithPvid(port[v], c.vlan).vlans = port[v].vlans \cup {c.vlan}
              /\ WithPvid(port[v], c.vlan).pvid = c.vlan
          BY <4>1, <5>2, PortFields
        <5> QED
          BY <4>1, <4>3, <5>1, <5>3, Zenon
      <4>5. PortOf(c).vlans = Vlans(c) /\ PortOf(c).pvid = c.vlan
        BY <2>1, <3>1, <4>3, PortOfFields
      <4> QED
        BY <2>1, <4>2, <4>4, <4>5, PortOfFields, SamePort
    <3>2. CASE ~(c.vlan > 0)
      <4>1. c.vlan = 0 /\ port'[v] = port[v] /\ port[v] \in Port
        BY <1>7, <2>1, <3>2, ConfTypes, ZeroOrVlan DEF SetPvid
      <4>2. Vlans(c) = c.trunk
        BY <4>1 DEF Vlans
      <4>3. RemovesDefault(c) <=> c.trunk # {}
        BY <4>1 DEF RemovesDefault
      <4>4. port[v].master = PortOf(c).master /\ port[v].pvid = PortOf(c).pvid
        BY <2>1, <2>2, <3>2, <4>3, PortOfFields DEF Carries
      <4>5. port[v].vlans = PortOf(c).vlans
        BY <2>1, <2>2, <4>2, <4>3, PortOfFields DEF Carries
      <4> QED
        BY <2>1, <4>1, <4>4, <4>5, PortOfFields, SamePort
    <3> QED
      BY <3>1, <3>2
  <2> QED
    BY <1>7, <2>3 DEF SetPvid, PortBuilds, Carries
<1>8. ASSUME NEW v \in Vf, AttachFails(v) PROVE PortBuilds'
  BY <1>8 DEF AttachFails, PortBuilds, Carries
<1>9. ASSUME NEW v \in Vf, GetsLock(v) \/ UnlockAfterAdd(v) PROVE PortBuilds'
  BY <1>9 DEF GetsLock, LockForAdd, LockForDel, UnlockAfterAdd, PortBuilds, Carries
<1>10. ASSUME NEW v \in Vf, ListPorts(v) \/ FindUnused(v) \/ UnlockAfterDel(v)
       PROVE  PortBuilds'
  BY <1>10 DEF ListPorts, FindUnused, UnlockAfterDel, PortBuilds, Carries
<1>11. ASSUME NEW v \in Vf, DeleteFails(v) PROVE PortBuilds'
  <2>1. pc[v] \in DelPc
    BY <1>11 DEF DeleteFails, DeleteCall
  <2> QED
    BY <1>11, <2>1 DEF DeleteFails, PortBuilds, Carries
<1>12. ASSUME NEW v \in Vf, NEW x \in Vlan, AddUplinkVlan(v, x) \/ DelUplinkVlan(v, x)
       PROVE  PortBuilds'
  BY <1>12 DEF AddUplinkVlan, DelUplinkVlan, PortBuilds, Carries
<1>13. \A v \in Vf : ~Kill(v) /\ ~DetachFails(v) /\ ~Abandon(v)
  BY DEF Kill, DetachFails, Abandon
<1> QED
  BY <1>1, <1>2, <1>3, <1>4, <1>5, <1>6, <1>7, <1>8, <1>9, <1>10, <1>11, <1>12,
     <1>13 DEF Next, Step

\* As long as a representor can always be taken off its bridge, and is before
\* its VF is given to another pod, a port that was set up has the VLANs and the
\* native VLAN of its configuration and no others, whichever attachments came
\* before and failed half way.
THEOREM ExactPorts ==
  ASSUME "LinkSetNoMaster" \notin FaultyCalls, ~DelMaySkip, ~MayKill
  PROVE  Spec => []PortExact
<1>1. Init => TypeOK /\ PortBuilds
  <2>1. Init => PortBuilds
    BY DEF Init, PortBuilds, DelPc
  <2> QED
    BY <2>1, TypeInit
<1>2. TypeOK /\ PortBuilds /\ [Next]_vars => (TypeOK /\ PortBuilds)'
  BY TypeStep, BuildsStep
<1>3. PortBuilds => PortExact
  BY DEF PortBuilds, PortExact
<1> QED
  BY <1>1, <1>2, <1>3, PTL DEF Spec

(***************************************************************************)
(* Nothing is left behind.                                                 *)
(***************************************************************************)
\* The circumstances in which nothing can be left: no call fails, every VF
\* has its VLANs set on the uplink, and one uplink serves all of them.
Undisturbed ==
  /\ FaultyCalls = {} /\ ~MayKill
  /\ \A c \in Config : c.setUplinkVlan
  /\ \A u, w \in Uplink : u = w
  /\ \A u \in Uplink : DefaultVlan \in AdminVlans[u]

\* A port shows the VLANs of an attachment that is there, or VLAN 1.
LEMMA CarriesOwn ==
  ASSUME TypeOK, PortBuilds, Accounts, NEW w \in Vf, NEW x \in port[w].vlans
  PROVE  x = DefaultVlan \/ (x \in Vlans(conf[w]) /\ pc[w] \notin {"idle", "detached"} \cup DelPc)
<1>1. pc[w] \notin {"idle", "detached"} \cup DelPc
  <2>1. NoPort.vlans = {}
    BY DEF NoPort
  <2> QED
    BY <2>1 DEF PortBuilds
<1>2. pc[w] \in {"defaultVlan", "trunk", "addLock", "addUplink", "attached"}
  BY <1>1 DEF TypeOK, AnyPc, AddPc, Accounts
<1>3. CASE pc[w] \in {"defaultVlan", "trunk"}
  BY <1>1, <1>3 DEF PortBuilds, Carries, Vlans
<1>4. CASE pc[w] \in {"addLock", "addUplink", "attached"}
  <2>1. conf[w] \in Conf \cup {NoConf}
    BY DEF TypeOK
  <2>2. port[w].vlans = IF Vlans(conf[w]) = {} THEN {DefaultVlan} ELSE Vlans(conf[w])
    BY <1>4, <2>1, PortOfFields DEF PortBuilds
  <2> QED
    BY <1>1, <2>2
<1> QED
  BY <1>2, <1>3, <1>4

\* Users of a VLAN stay users until they let go of the lock in DEL, and what
\* they leave on the uplink then has another user.
LEMMA LeakStep ==
  ASSUME Undisturbed, TypeOK, LockOwner, PortBuilds, Accounts, NoLeak, [Next]_vars
  PROVE  (Accounts /\ NoLeak)'
<1> USE TopologyAssumption DEF TypeOK, Goto, Critical
<1>1. CASE UNCHANGED vars
  <2>1. Accounts'
    <3>1. /\ pc' = pc /\ todo' = todo /\ brif' = brif /\ conf' = conf
          /\ uplinkVlans' = uplinkVlans
      BY <1>1 DEF vars
    <3>2. \A w \in Vf : LeavesUsed(w) => LeavesUsed(w)'
      BY <3>1 DEF LeavesUsed, Uses, Vlans
    <3> QED
      BY <3>1, <3>2 DEF Accounts, Vlans
  <2>2. NoLeak'
    BY <1>1 DEF vars, NoLeak, Uses, Vlans
  <2> QED
    BY <2>1, <2>2
<1>2. ASSUME NEW v \in Vf, NEW c \in Config, SetMaster(v, c) PROVE (Accounts /\ NoLeak)'
  <2>1. c.setUplinkVlan /\ Vlans(conf[v]) = {} /\ pc[v] = "idle"
    BY <1>2 DEF SetMaster, Accounts, Undisturbed
  <2>2. \A u, x : \A w \in Vf : Uses(w, u, x) => w # v /\ Uses(w, u, x)'
    BY <1>2, <2>1 DEF SetMaster, Uses
  <2>3. NoLeak'
    BY <1>2, <2>2 DEF SetMaster, NoLeak
  <2>4. Accounts'
    <3>1. \A w \in Vf : pc'[w] = "delUplink" => LeavesUsed(w)'
      BY <1>2, <2>1, <2>2 DEF SetMaster, Accounts, LeavesUsed, Vlans
    <3> QED
      BY <1>2, <2>1, <3>1 DEF SetMaster, Accounts, Vlans
  <2> QED
    BY <2>3, <2>4
<1>3. ASSUME NEW v \in Vf,
             \/ DelDefaultVlan(v) \/ SetPvid(v) \/ ListPorts(v) \/ Detach(v)
             \/ \E x \in Vlan : AddTrunkVlan(v, x)
             \/ LockForAdd(v) \/ LockForDel(v) \/ UnlockAfterAdd(v)
      PROVE  (Accounts /\ NoLeak)'
  <2>1. /\ conf' = conf /\ uplinkVlans' = uplinkVlans /\ pc[v] # "idle"
        /\ pc'[v] \notin {"idle", "detached", "undo", "delUplink"}
        /\ \A w \in Vf \ {v} : pc'[w] = pc[w] /\ todo'[w] = todo[w] /\ brif'[w] = brif[w]
    BY <1>3 DEF DelDefaultVlan, SetPvid, ListPorts, Detach, AddTrunkVlan, LockForAdd,
                LockForDel, UnlockAfterAdd, Accounts
  <2>2. \A u, x : \A w \in Vf : Uses(w, u, x) => Uses(w, u, x)'
    BY <2>1 DEF Uses, Vlans
  <2>3. NoLeak'
    BY <2>1, <2>2 DEF NoLeak
  <2>4. pc'[v] = "addUplink" => todo'[v] \subseteq Vlans(conf'[v])
    BY <1>3, <2>1 DEF DelDefaultVlan, SetPvid, ListPorts, Detach, AddTrunkVlan, LockForAdd,
                LockForDel, UnlockAfterAdd
  <2>5. pc'[v] = "unused" => brif'[v] \subseteq Vf
    BY <1>3 DEF DelDefaultVlan, SetPvid, ListPorts, Detach, AddTrunkVlan, LockForAdd,
                LockForDel, UnlockAfterAdd, OtherPorts, Undisturbed
  <2>6. Accounts'
    <3>1. \A w \in Vf : pc'[w] = "delUplink" => LeavesUsed(w)'
      BY <2>1, <2>2 DEF Accounts, LeavesUsed, Vlans
    <3>2. ASSUME NEW w \in Vf
          PROVE  /\ pc'[w] # "undo"
                 /\ IF pc'[w] = "idle" THEN Vlans(conf'[w]) = {} ELSE conf'[w].setUplinkVlan
                 /\ pc'[w] = "addUplink" => todo'[w] \subseteq Vlans(conf'[w])
                 /\ pc'[w] = "unused" => brif'[w] \subseteq Vf
      <4>1. CASE w = v
        BY <2>1, <2>4, <2>5, <4>1 DEF Accounts
      <4>2. CASE w # v
        BY <2>1, <4>2 DEF Accounts
      <4> QED
        BY <4>1, <4>2
    <3> QED
      BY <3>1, <3>2 DEF Accounts, Vlans
  <2> QED
    BY <2>3, <2>6
<1>4. ASSUME NEW v \in Vf, NEW y \in Vlan, AddUplinkVlan(v, y) PROVE (Accounts /\ NoLeak)'
  <2>1. \A u, x : \A w \in Vf : Uses(w, u, x) => Uses(w, u, x)'
    BY <1>4 DEF AddUplinkVlan, Uses, Vlans
  <2>2. Uses(v, UplinkOf[v], y)
    BY <1>4 DEF AddUplinkVlan, Accounts, Uses
  <2>3. NoLeak'
    BY <1>4, <2>1, <2>2 DEF AddUplinkVlan, NoLeak
  <2>4. \A w \in Vf \ {v} : pc[w] # "delUplink"
    BY <1>4 DEF AddUplinkVlan, LockOwner
  <2>5. ASSUME NEW w \in Vf
        PROVE  /\ pc'[w] # "undo" /\ pc'[w] # "delUplink"
               /\ IF pc'[w] = "idle" THEN Vlans(conf'[w]) = {} ELSE conf'[w].setUplinkVlan
               /\ pc'[w] = "addUplink" => todo'[w] \subseteq Vlans(conf'[w])
               /\ pc'[w] = "unused" => brif'[w] \subseteq Vf
    <3>1. CASE w = v
      BY <1>4, <3>1 DEF AddUplinkVlan, Accounts
    <3>2. CASE w # v
      BY <1>4, <2>4, <3>2 DEF AddUplinkVlan, Accounts
    <3> QED
      BY <3>1, <3>2
  <2>6. Accounts'
    BY <2>5 DEF Accounts, Vlans
  <2> QED
    BY <2>3, <2>6
<1>5. ASSUME NEW v \in Vf, FindUnused(v) PROVE (Accounts /\ NoLeak)'
  <2>1. \A u, x : \A w \in Vf : Uses(w, u, x) => Uses(w, u, x)'
    BY <1>5 DEF FindUnused, Uses, Vlans
  <2>2. NoLeak'
    BY <1>5, <2>1 DEF FindUnused, NoLeak
  <2>3. /\ todo'[v] = Unused(v) /\ pc[v] = "unused" /\ pc'[v] = "delUplink"
        /\ conf' = conf /\ uplinkVlans' = uplinkVlans
    BY <1>5 DEF FindUnused, Undisturbed
  <2>4. ASSUME NEW x \in Vlans(conf[v]) \ (Unused(v) \cup AdminVlans[UplinkOf[v]])
        PROVE  \E w \in Vf \ {v} : Uses(w, UplinkOf[v], x)
    <3>1. PICK w \in brif[v] : x \in VlansOn(w)
      BY DEF Unused
    <3>2. w \in Vf /\ x \in port[w].vlans
      BY <2>3, <3>1 DEF Accounts, VlansOn
    <3>3. x # DefaultVlan
      BY DEF Undisturbed
    <3>4. x \in Vlans(conf[w]) /\ pc[w] \notin {"idle", "detached"} \cup DelPc
      BY <3>2, <3>3, CarriesOwn
    <3>5. w # v
      BY <2>3, <3>4 DEF DelPc
    <3>6. UplinkOf[w] = UplinkOf[v]
      BY <3>2 DEF Undisturbed
    <3> QED
      BY <3>2, <3>4, <3>5, <3>6 DEF Uses
  <2>5. Accounts'
    <3>1. \A w \in Vf \ {v} : pc'[w] = pc[w] /\ todo'[w] = todo[w] /\ brif'[w] = brif[w]
      BY <1>5 DEF FindUnused
    <3>2. \A w \in Vf : pc'[w] = "delUplink" => LeavesUsed(w)'
      <4>1. LeavesUsed(v)'
        BY <2>1, <2>3, <2>4 DEF LeavesUsed, Vlans
      <4>2. \A w \in Vf \ {v} : pc[w] = "delUplink" => LeavesUsed(w)'
        BY <2>1, <2>3, <3>1 DEF Accounts, LeavesUsed, Vlans
      <4> QED
        BY <3>1, <4>1, <4>2
    <3>3. \A w \in Vf \ {v} :
            /\ pc'[w] # "undo"
            /\ IF pc'[w] = "idle" THEN Vlans(conf'[w]) = {} ELSE conf'[w].setUplinkVlan
            /\ pc'[w] = "addUplink" => todo'[w] \subseteq Vlans(conf'[w])
            /\ pc'[w] = "unused" => brif'[w] \subseteq Vf
      BY <2>3, <3>1 DEF Accounts
    <3>4. conf'[v].setUplinkVlan
      BY <2>3 DEF Accounts
    <3> QED
      BY <2>3, <3>2, <3>3, <3>4 DEF Accounts, Vlans
  <2> QED
    BY <2>2, <2>5
<1>6. ASSUME NEW v \in Vf, NEW y \in Vlan, DelUplinkVlan(v, y) PROVE (Accounts /\ NoLeak)'
  <2>1. \A u, x : \A w \in Vf : Uses(w, u, x) => Uses(w, u, x)'
    BY <1>6 DEF DelUplinkVlan, Uses, Vlans
  <2>2. /\ pc' = pc /\ conf' = conf /\ brif' = brif /\ pc[v] = "delUplink"
        /\ todo'[v] = todo[v] \ {y}
        /\ uplinkVlans'[UplinkOf[v]] = uplinkVlans[UplinkOf[v]] \ {y}
        /\ \A w \in Vf \ {v} : todo'[w] = todo[w]
        /\ \A u \in Uplink : uplinkVlans'[u] \subseteq uplinkVlans[u]
    BY <1>6 DEF DelUplinkVlan
  <2>3. NoLeak'
    BY <2>1, <2>2 DEF NoLeak
  <2>4. Accounts'
    <3>1. LeavesUsed(v)'
      BY <2>1, <2>2 DEF Accounts, LeavesUsed, Vlans
    <3>2. \A w \in Vf \ {v} : pc[w] = "delUplink" => LeavesUsed(w)'
      BY <2>1, <2>2 DEF Accounts, LeavesUsed, Vlans
    <3> QED
      BY <2>2, <3>1, <3>2 DEF Accounts, Vlans
  <2> QED
    BY <2>3, <2>4
<1>7. ASSUME NEW v \in Vf, UnlockAfterDel(v) PROVE (Accounts /\ NoLeak)'
  <2>1. \A u, x : \A w \in Vf \ {v} : Uses(w, u, x) => Uses(w, u, x)'
    BY <1>7 DEF UnlockAfterDel, Uses, Vlans
  <2>2. \A u \in Uplink : \A x \in uplinkVlans[u] \ AdminVlans[u] :
          Uses(v, u, x) => \E w \in Vf \ {v} : Uses(w, u, x)
    BY <1>7 DEF UnlockAfterDel, Accounts, LeavesUsed, Uses
  <2>3. NoLeak'
    <3>1. \A u \in Uplink : \A x \in uplinkVlans[u] \ AdminVlans[u] :
            \E w \in Vf \ {v} : Uses(w, u, x)
      BY <2>2 DEF NoLeak
    <3> QED
      BY <1>7, <2>1, <3>1 DEF UnlockAfterDel, NoLeak
  <2>4. \A w \in Vf \ {v} : pc[w] # "delUplink"
    BY <1>7 DEF UnlockAfterDel, LockOwner
  <2>5. Accounts'
    BY <1>7, <2>4 DEF UnlockAfterDel, Accounts, Vlans
  <2> QED
    BY <2>3, <2>5
<1>8. ASSUME NEW v \in Vf, Forget(v) PROVE (Accounts /\ NoLeak)'
  <2>1. \A u, x : \A w \in Vf : Uses(w, u, x) => w # v /\ Uses(w, u, x)'
    BY <1>8 DEF Forget, Uses, Vlans
  <2>2. NoLeak'
    BY <1>8, <2>1 DEF Forget, NoLeak
  <2>3. Accounts'
    <3>1. \A w \in Vf : pc'[w] = "delUplink" => LeavesUsed(w)'
      BY <1>8, <2>1 DEF Forget, Accounts, LeavesUsed, Vlans
    <3> QED
      BY <1>8, <3>1 DEF Forget, Accounts, Vlans, NoConf
  <2> QED
    BY <2>2, <2>3
<1>9. \A v \in Vf : /\ ~Kill(v) /\ ~Abandon(v) /\ ~DetachFails(v) /\ ~AttachFails(v) /\ ~DeleteFails(v)
                   /\ ~UndoMaster(v)
  BY DEF Kill, Abandon, DelMaySkip, DetachFails, AttachFails, DeleteFails, UndoMaster,
         Undisturbed, Accounts
<1> QED
  BY <1>1, <1>2, <1>3, <1>4, <1>5, <1>6, <1>7, <1>8, <1>9 DEF Next, Step, GetsLock

\* Where no call fails and every VF has its VLANs set on the one uplink, a
\* VLAN that is left on the uplink is one somebody still uses, or still has
\* to take off; of two VFs that leave at once, the last one removes it.
THEOREM NothingLeaks ==
  ASSUME Undisturbed
  PROVE  Spec => []NoLeak
<1> DEFINE Inv == TypeOK /\ LockOwner /\ PortBuilds /\ Accounts /\ NoLeak
<1>1. Init => Inv
  <2>1. Init => LockOwner /\ PortBuilds
    BY TopologyAssumption DEF Init, LockOwner, Critical, PortBuilds, DelPc
  <2>2. Init => Accounts /\ NoLeak
    BY TopologyAssumption DEF Init, Accounts, NoLeak, Vlans, NoConf
  <2> QED
    BY <2>1, <2>2, TypeInit
<1>2. Inv /\ [Next]_vars => Inv'
  BY TypeStep, LockStep, BuildsStep, LeakStep DEF Undisturbed, DelMaySkip
<1>3. Inv => NoLeak
  OBVIOUS
<1> QED
  BY <1>1, <1>2, <1>3, PTL DEF Spec
=============================================================================
