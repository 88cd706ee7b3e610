--------------------------- MODULE NodeCleanProofs ---------------------------
(***************************************************************************)
(* Proof that the uplink keeps no VLAN nobody is configured with, for any  *)
(* number of pods and VFs, on the uplink all VFs have: next to it the      *)
(* bridge may have others.                                                 *)
(***************************************************************************)
EXTENDS NodeProofs

\* The VFs are those of one PF, and its uplink carries VLAN 1 as every port of
\* a bridge does unless it is taken off.  With VFs of two PFs on a bridge
\* UplinkClean does not hold: a removal on the uplink of the first one spares
\* a VLAN for a VF of the second one that is still in ADD, has the VLAN on its
\* port and waits for the lock; nobody looks at the first uplink again.
OneUplink ==
  /\ \A v, w \in Vf : UplinkOf[v] = UplinkOf[w]
  /\ \A v \in Vf : DefaultVlan \in AdminVlans[UplinkOf[v]]

(***************************************************************************)
(* What a step leaves alone.                                               *)
(***************************************************************************)
\* The kernel's and the process's state of the other VFs.
LEMMA Others ==
  ASSUME Books, NEW v \in Vf, NodeStep(v), NEW w \in Vf \ {v}
  PROVE  /\ pc'[w] = pc[w] /\ cmd'[w] = cmd[w] /\ ConfOf'[w] = ConfOf[w]
         /\ port'[w] = port[w] /\ todo'[w] = todo[w] /\ brif'[w] = brif[w]
<1>1. TypeOK
  BY DEF Books, NodeTypeOK
<1>2. pc'[w] = pc[w] /\ cmd'[w] = cmd[w] /\ ConfOf'[w] = ConfOf[w]
  BY OnlyOne DEF Books, Only, ConfOf
<1>3. port'[w] = port[w] /\ todo'[w] = todo[w] /\ brif'[w] = brif[w]
  <2> USE <1>1 DEF TypeOK, Goto
  <2>1. CASE Attach(v) \/ AttachAborts(v)
    BY <2>1 DEF Attach, AttachAborts, DelDefaultVlan, SetPvid, LockForAdd, UnlockAfterAdd,
                AddTrunkVlan, AddUplinkVlan, AttachFails
  <2>2. CASE AddFails(v) \/ RolledBack(v) \/ DelSkips(v) \/ DelSucceeds(v)
    BY <2>2 DEF AddFails, UndoMaster, RolledBack, DelSkips, DelSucceeds, Forget, Abandon
  <2>3. CASE RollBack(v) \/ UndoSaved(v) \/ DelDetaches(v)
    BY <2>3 DEF RollBack, UndoSaved, DelDetaches, Detach, DetachFails, vars
  <2>4. CASE RemoveVlans(v) \/ RemovalFails(v)
    BY <2>4 DEF RemoveVlans, RemovalFails, LockForDel, ListPorts, FindUnused,
                UnlockAfterDel, DelUplinkVlan, DeleteFails
  <2>5. CASE \E p \in Pod, c \in Config : StartAdd(v, p, c)
    BY <2>5 DEF StartAdd, SetMaster, vars
  <2>6. CASE \/ Save(v) \/ AddReturns(v) \/ ReturnsUndone(v)
             \/ DelFindsNothing(v) \/ StartDel(v) \/ DelFails(v)
    BY <2>6 DEF Save, AddReturns, ReturnsUndone, DelFindsNothing, StartDel, DelFails, DelEnds,
                vars, kernel
  <2>7. CASE KillCmd(v)
    BY <2>7 DEF KillCmd, Dies
  <2> QED
    BY <2>1, <2>2, <2>3, <2>4, <2>5, <2>6, <2>7 DEF NodeStep
<1> QED
  BY <1>2, <1>3

\* The VLANs of uplinks.
LEMMA UplinkSteps ==
  ASSUME Books, NEW v \in Vf, NodeStep(v)
  PROVE  \/ uplinkVlans' = uplinkVlans
         \/ cmd[v] = "add" /\ UNCHANGED book /\ \E x \in Vlan : AddUplinkVlan(v, x)
         \/ cmd[v] \in {"undo", "undoSaved", "del"} /\ UNCHANGED book
            /\ \E x \in Vlan : DelUplinkVlan(v, x)
<1>1. CASE Attach(v) \/ AttachAborts(v)
  BY <1>1 DEF Attach, AttachAborts, DelDefaultVlan, SetPvid, LockForAdd, UnlockAfterAdd,
              AddTrunkVlan, AttachFails
<1>2. CASE AddFails(v) \/ RolledBack(v) \/ DelSkips(v) \/ DelSucceeds(v)
  BY <1>2 DEF AddFails, UndoMaster, RolledBack, DelSkips, DelSucceeds, Forget, Abandon
<1>3. CASE RollBack(v) \/ UndoSaved(v) \/ DelDetaches(v)
  BY <1>3 DEF RollBack, UndoSaved, DelDetaches, Detach, DetachFails, vars
<1>4. CASE RemoveVlans(v) \/ RemovalFails(v)
  BY <1>4 DEF RemoveVlans, RemovalFails, LockForDel, ListPorts, FindUnused,
              UnlockAfterDel, DeleteFails
<1>5. CASE \E p \in Pod, c \in Config : StartAdd(v, p, c)
  BY <1>5 DEF StartAdd, SetMaster, vars
<1>6. CASE \/ Save(v) \/ AddReturns(v) \/ ReturnsUndone(v)
           \/ DelFindsNothing(v) \/ StartDel(v) \/ DelFails(v)
  BY <1>6 DEF Save, AddReturns, ReturnsUndone, DelFindsNothing, StartDel, DelFails, DelEnds,
              vars, kernel
<1>7. CASE KillCmd(v)
  BY <1>7 DEF KillCmd, Dies
<1> QED
  BY <1>1, <1>2, <1>3, <1>4, <1>5, <1>6, <1>7 DEF NodeStep

\* Once something grave has happened it has.
LEMMA GraveStays ==
  ASSUME Books, NEW v \in Vf, NodeStep(v), ~grave' PROVE ~grave
<1>1. grave \in BOOLEAN
  BY DEF Books, NodeTypeOK
<1>2. CASE KillCmd(v)
  BY <1>1, <1>2 DEF KillCmd, Dies, Alarm
<1>3. CASE RollBack(v) \/ DelDetaches(v) \/ AttachAborts(v) \/ RemovalFails(v)
  BY <1>1, <1>3 DEF RollBack, DelDetaches, AttachAborts, RemovalFails, Alarm
<1>4. CASE DelSkips(v) \/ \E p \in Pod, c \in Config : StartAdd(v, p, c)
  BY <1>1, <1>4 DEF DelSkips, StartAdd
<1>5. CASE \/ Attach(v) \/ AddFails(v) \/ Save(v) \/ AddReturns(v) \/ RolledBack(v)
           \/ UndoSaved(v) \/ ReturnsUndone(v)
  BY <1>1, <1>5 DEF Attach, AddFails, Save, AddReturns, RolledBack, UndoSaved, ReturnsUndone,
                    book
<1>6. CASE \/ StartDel(v) \/ DelFindsNothing(v) \/ RemoveVlans(v) \/ DelSucceeds(v)
           \/ DelFails(v)
  BY <1>1, <1>6 DEF StartDel, DelFindsNothing, RemoveVlans, DelSucceeds, DelFails, DelEnds, book
<1> QED
  BY <1>2, <1>3, <1>4, <1>5, <1>6 DEF NodeStep

(***************************************************************************)
(* The configuration of the VF that takes the step.                        *)
(***************************************************************************)
LEMMA NoVlans == Vlans(NoConf) = {} /\ NoConf.setUplinkVlan = FALSE
  BY DEF Vlans, NoConf

\* It is the same throughout a command and after it, except where ADD begins
\* and where ADD, rolled back or cut short, or DEL, with success, ends.
LEMMA ConfSteps ==
  ASSUME Books, NEW v \in Vf, NodeStep(v)
  PROVE  /\ Attach(v) \/ AttachAborts(v) \/ RollBack(v) \/ UndoSaved(v) \/ DelDetaches(v)
              \/ RemoveVlans(v) \/ RemovalFails(v)
              => ConfOf[v] = conf[v] /\ ConfOf'[v] = conf[v]
         /\ Save(v) \/ AddReturns(v) \/ ReturnsUndone(v) \/ StartDel(v) \/ DelFails(v)
              => ConfOf'[v] = ConfOf[v]
         /\ DelFindsNothing(v) => ConfOf'[v] = NoConf /\ ConfOf[v] = NoConf
         /\ DelSkips(v) => /\ ConfOf'[v] = NoConf
                           /\ grave' = (grave \/ ConfOf[v].setUplinkVlan)
         /\ AddFails(v) \/ RolledBack(v) \/ DelSucceeds(v)
              => ConfOf[v] = conf[v] /\ ConfOf'[v] = NoConf
         /\ \A p \in Pod, c \in Config : StartAdd(v, p, c) =>
              \/ ConfOf'[v] = c /\ cmd'[v] = "add" /\ SetMaster(v, c)
                 /\ grave' = (grave \/ Keeps(c))
              \/ ConfOf'[v] = NoConf /\ UNCHANGED <<vars, cmd>>
         /\ KillCmd(v) =>
              /\ ConfOf[v] = conf[v]
              /\ ConfOf'[v] = IF cmd[v] \in {"add", "undo"} THEN NoConf ELSE conf[v]
<1> USE PodAssumption DEF NodeTypeOK, TypeOK, Turn, Becomes, ConfOf
<1>0. NodeTypeOK /\ RecordedAt(v) /\ Allocated
  BY DEF Books, Recorded
<1>1. Attach(v) \/ AttachAborts(v) \/ RollBack(v) \/ UndoSaved(v) \/ DelDetaches(v)
        \/ RemoveVlans(v) \/ RemovalFails(v)
        => ConfOf[v] = conf[v] /\ ConfOf'[v] = conf[v]
  <2>1. Attach(v) \/ AttachAborts(v) => ConfOf[v] = conf[v] /\ ConfOf'[v] = conf[v]
    BY <1>0 DEF Attach, AttachAborts, DelDefaultVlan, SetPvid, LockForAdd, UnlockAfterAdd,
                AddTrunkVlan, AddUplinkVlan, AttachFails, book
  <2>2. RollBack(v) \/ UndoSaved(v) \/ DelDetaches(v)
          => ConfOf[v] = conf[v] /\ ConfOf'[v] = conf[v]
    BY <1>0 DEF RollBack, UndoSaved, DelDetaches, Detach, DetachFails, vars
  <2>3. RemoveVlans(v) \/ RemovalFails(v) => ConfOf[v] = conf[v] /\ ConfOf'[v] = conf[v]
    BY <1>0 DEF RemoveVlans, RemovalFails, LockForDel, ListPorts, FindUnused,
                UnlockAfterDel, DelUplinkVlan, DeleteFails, book
  <2> QED
    BY <2>1, <2>2, <2>3
<1>2. Save(v) \/ AddReturns(v) \/ ReturnsUndone(v) \/ StartDel(v) \/ DelFails(v)
        => ConfOf'[v] = ConfOf[v]
  <2>1. Save(v) => ConfOf'[v] = ConfOf[v]
    BY <1>0 DEF Save, vars
  <2>2. AddReturns(v) \/ ReturnsUndone(v) => ConfOf'[v] = ConfOf[v]
    BY <1>0 DEF AddReturns, ReturnsUndone, RecordedAt, DelCmd
  <2>3. StartDel(v) => ConfOf'[v] = ConfOf[v]
    BY <1>0 DEF StartDel
  <2>4. DelFails(v) => ConfOf'[v] = ConfOf[v]
    BY <1>0 DEF DelFails, DelEnds, RecordedAt, DelCmd
  <2> QED
    BY <2>1, <2>2, <2>3, <2>4
<1>3. DelFindsNothing(v) => ConfOf'[v] = NoConf /\ ConfOf[v] = NoConf
  BY <1>0 DEF DelFindsNothing, Frees
<1>7. DelSkips(v) => ConfOf'[v] = NoConf /\ grave' = (grave \/ ConfOf[v].setUplinkVlan)
  BY <1>0 DEF DelSkips, Frees
<1>4. AddFails(v) \/ RolledBack(v) \/ DelSucceeds(v)
        => ConfOf[v] = conf[v] /\ ConfOf'[v] = NoConf
  <2>1. AddFails(v) => ConfOf[v] = conf[v] /\ ConfOf'[v] = NoConf
    BY <1>0 DEF AddFails, RecordedAt
  <2>2. RolledBack(v) => ConfOf[v] = conf[v] /\ ConfOf'[v] = NoConf
    BY <1>0 DEF RolledBack, RecordedAt
  <2>3. DelSucceeds(v) => ConfOf[v] = conf[v] /\ ConfOf'[v] = NoConf
    BY <1>0 DEF DelSucceeds, Frees
  <2> QED
    BY <2>1, <2>2, <2>3
<1>5. ASSUME NEW p \in Pod, NEW c \in Config, StartAdd(v, p, c)
      PROVE  \/ ConfOf'[v] = c /\ cmd'[v] = "add" /\ SetMaster(v, c)
                /\ grave' = (grave \/ Keeps(c))
             \/ ConfOf'[v] = NoConf /\ UNCHANGED <<vars, cmd>>
  <2>1. CASE SetMaster(v, c) /\ Turn(v, "none", "add") /\ grave' = (grave \/ Keeps(c))
    BY <1>0, <2>1 DEF SetMaster
  <2>2. CASE UNCHANGED <<vars, cmd, grave>>
    <3>1. cmd'[v] = "none" /\ cache' = cache /\ pod'[v] = p
      BY <1>0, <1>5, <2>2 DEF StartAdd, RecordedAt
    <3>2. cache[p] = NoConf
      BY <1>0, <1>5 DEF StartAdd, Allocated
    <3> QED
      BY <2>2, <3>1, <3>2
  <2> QED
    BY <1>5, <2>1, <2>2 DEF StartAdd
<1>6. KillCmd(v) =>
        /\ ConfOf[v] = conf[v]
        /\ ConfOf'[v] = IF cmd[v] \in {"add", "undo"} THEN NoConf ELSE conf[v]
  <2> SUFFICES ASSUME KillCmd(v)
               PROVE  /\ ConfOf[v] = conf[v]
                      /\ ConfOf'[v] = IF cmd[v] \in {"add", "undo"} THEN NoConf ELSE conf[v]
    OBVIOUS
  <2>1. /\ cmd[v] # "none" /\ cmd'[v] = "none" /\ pod' = pod /\ cache' = cache
    BY <1>0 DEF KillCmd, Dies
  <2>2. pod[v] # NoPod
    BY <1>0, <2>1 DEF RecordedAt
  <2>3. cache[pod[v]] = IF cmd[v] \in {"add", "undo"} THEN NoConf ELSE conf[v]
    BY <1>0, <2>1, <2>2 DEF RecordedAt, AddCmd, DelCmd
  <2> QED
    BY <2>1, <2>2, <2>3
<1> QED
  BY <1>1, <1>2, <1>3, <1>4, <1>5, <1>6, <1>7

(***************************************************************************)
(* CleanAt of the VF that takes the step.                                  *)
(***************************************************************************)
\* Its first five parts: what concerns the VF alone ...
CalmAt(v) ==
  LET c == ConfOf[v]  u == UplinkOf[v]
  IN  /\ c.setUplinkVlan \/ Vlans(c) = {}
      /\ pc[v] = "undo" => Vlans(c) = {}
      /\ port[v].vlans \subseteq
           {DefaultVlan} \cup IF pc[v] \in DelPc \/ Over(v) THEN {} ELSE Vlans(c)
      /\ pc[v] \in {"defaultVlan", "trunk", "addUplink"} => todo[v] \subseteq Vlans(c)
      /\ pc[v] = "unused" =>
           brif[v] \subseteq Vf \cup {w \in Uplink \ {u} : BridgeOf[w] = BridgeOf[u]}
\* ... and the last one: what it leaves on the uplink.
SparesAt(v) ==
  LET c == ConfOf[v]  u == UplinkOf[v]
  IN  pc[v] = "delUplink" =>
        \A x \in (uplinkVlans[u] \ AdminVlans[u]) \cap (Vlans(c) \ todo[v]) :
          (\E w \in Vf \ {v} : Owes(w, x)) \/ Elsewhere(u, x)

LEMMA CleanParts ==
  ASSUME NEW v \in Vf
  PROVE  /\ CleanAt(v) <=> CalmAt(v) /\ SparesAt(v)
         /\ CleanAt(v)' <=> CalmAt(v)' /\ SparesAt(v)'
  BY DEF CleanAt, CalmAt, SparesAt

\* What the kernel calls make of the VLANs of a port.
LEMMA PortVlans ==
  ASSUME NEW p \in Port, NEW b \in Bridge, NEW x \in Vlan
  PROVE  /\ NoPort.vlans = {}
         /\ Enslaved(p, b).vlans \subseteq {DefaultVlan} \cup p.vlans
         /\ WithoutVlan(p, x).vlans \subseteq p.vlans
         /\ WithTagged(p, x).vlans = p.vlans \cup {x}
         /\ WithPvid(p, x).vlans = p.vlans \cup {x}
  BY DEF NoPort, Enslaved, WithoutVlan, WithTagged, WithPvid, Port

LEMMA OwnVlans ==
  ASSUME NEW c \in Conf \cup {NoConf}
  PROVE  c.trunk \subseteq Vlans(c) /\ (c.vlan > 0 => c.vlan \in Vlans(c) /\ c.vlan \in Vlan)
<1>1. c.vlan \in Vlan \cup {0}
  BY ConfTypes
<1> QED
  BY <1>1, VlanAssumption DEF Vlans

LEMMA CalmAttach ==
  ASSUME Books, NEW v \in Vf, NodeStep(v), Attach(v) \/ AttachAborts(v), CalmAt(v), ~grave'
  PROVE  CalmAt(v)'
<1>1. /\ ConfOf[v] = conf[v] /\ ConfOf'[v] = conf[v] /\ conf[v] \in Conf \cup {NoConf}
      /\ TypeOK
  <2>1. ConfOf[v] = conf[v] /\ ConfOf'[v] = conf[v]
    BY ConfSteps
  <2> QED
    BY <2>1 DEF Books, NodeTypeOK, TypeOK
<1>a. ~Over(v) /\ ~Over(v)'
  BY DEF Attach, AttachAborts, Over, book
<1> DEFINE c == conf[v]
<1>2. /\ c.setUplinkVlan \/ Vlans(c) = {}
      /\ port[v].vlans \subseteq
           {DefaultVlan} \cup IF pc[v] \in DelPc THEN {} ELSE Vlans(c)
      /\ pc[v] \in {"defaultVlan", "trunk", "addUplink"} => todo[v] \subseteq Vlans(c)
  BY <1>1, <1>a DEF CalmAt
<1>3. SUFFICES /\ pc'[v] = "undo" => Vlans(c) = {}
               /\ port'[v].vlans \subseteq
                    {DefaultVlan} \cup IF pc'[v] \in DelPc THEN {} ELSE Vlans(c)
               /\ pc'[v] \in {"defaultVlan", "trunk", "addUplink"} => todo'[v] \subseteq Vlans(c)
               /\ pc'[v] # "unused"
  BY <1>1, <1>2, <1>a DEF CalmAt, Vlans
<1>4. c.trunk \subseteq Vlans(c) /\ (c.vlan > 0 => c.vlan \in Vlans(c) /\ c.vlan \in Vlan)
  BY <1>1, OwnVlans
<1>5. /\ WithoutVlan(port[v], DefaultVlan).vlans \subseteq port[v].vlans
      /\ \A x \in Vlan : /\ WithTagged(port[v], x).vlans = port[v].vlans \cup {x}
                        /\ WithPvid(port[v], x).vlans = port[v].vlans \cup {x}
  <2>1. port[v] \in Port /\ DefaultVlan \in Vlan
    BY <1>1, VlanAssumption DEF TypeOK
  <2> QED
    BY <2>1, PortVlans, TopologyAssumption
<1> USE <1>1 DEF TypeOK, Goto, DelPc
<1>6. CASE DelDefaultVlan(v)
  <2>1. port'[v] = WithoutVlan(port[v], DefaultVlan)
    BY <1>6 DEF DelDefaultVlan
  <2>2. pc[v] = "defaultVlan" /\ pc'[v] = "trunk" /\ todo' = todo
    BY <1>6 DEF DelDefaultVlan
  <2> QED
    BY <1>2, <1>5, <2>1, <2>2
<1>7. CASE SetPvid(v)
  <2>1. CASE c.vlan > 0
    <3>1. port'[v] = WithPvid(port[v], c.vlan)
      BY <1>7, <2>1 DEF SetPvid
    <3>2. pc[v] = "trunk" /\ pc'[v] \in {"addLock", "attached"}
      BY <1>7 DEF SetPvid
    <3> QED
      BY <1>2, <1>4, <1>5, <2>1, <3>1, <3>2
  <2>2. CASE ~ c.vlan > 0
    BY <1>2, <1>7, <2>2 DEF SetPvid
  <2> QED
    BY <2>1, <2>2
<1>8. CASE LockForAdd(v) \/ UnlockAfterAdd(v)
  BY <1>2, <1>8 DEF LockForAdd, UnlockAfterAdd
<1>9. ASSUME NEW x \in Vlan, AddTrunkVlan(v, x)
      PROVE  /\ pc'[v] = "undo" => Vlans(c) = {}
             /\ port'[v].vlans \subseteq
                  {DefaultVlan} \cup IF pc'[v] \in DelPc THEN {} ELSE Vlans(c)
             /\ pc'[v] \in {"defaultVlan", "trunk", "addUplink"} => todo'[v] \subseteq Vlans(c)
             /\ pc'[v] # "unused"
  <2>1. port'[v] = WithTagged(port[v], x)
    BY <1>9 DEF AddTrunkVlan
  <2>2. pc[v] = "trunk" /\ pc'[v] = "trunk" /\ x \in todo[v] /\ todo'[v] \subseteq todo[v]
    BY <1>9 DEF AddTrunkVlan
  <2> QED
    BY <1>2, <1>5, <2>1, <2>2
<1>10. ASSUME NEW x \in Vlan, AddUplinkVlan(v, x)
      PROVE  /\ pc'[v] = "undo" => Vlans(c) = {}
             /\ port'[v].vlans \subseteq
                  {DefaultVlan} \cup IF pc'[v] \in DelPc THEN {} ELSE Vlans(c)
             /\ pc'[v] \in {"defaultVlan", "trunk", "addUplink"} => todo'[v] \subseteq Vlans(c)
             /\ pc'[v] # "unused"
  BY <1>2, <1>10 DEF AddUplinkVlan
<1>11. CASE AttachAborts(v)
  <2>1. ~c.setUplinkVlan
    BY <1>11 DEF AttachAborts, Alarm
  <2> QED
    BY <1>2, <1>11, <2>1 DEF AttachAborts, AttachFails
<1> QED
  BY <1>6, <1>7, <1>8, <1>9, <1>10, <1>11 DEF Attach

LEMMA CalmDetach ==
  ASSUME Books, NEW v \in Vf, NodeStep(v), CalmAt(v), ~grave',
         \/ RollBack(v) \/ UndoSaved(v) \/ DelDetaches(v)
         \/ RemoveVlans(v) \/ RemovalFails(v)
  PROVE  CalmAt(v)'
<1>1. ConfOf[v] = conf[v] /\ ConfOf'[v] = conf[v]
  BY ConfSteps
<1>2. TypeOK
  BY DEF Books, NodeTypeOK
<1> DEFINE c == conf[v]  u == UplinkOf[v]
           Far == Vf \cup {w \in Uplink \ {u} : BridgeOf[w] = BridgeOf[u]}
<1>3. /\ c.setUplinkVlan \/ Vlans(c) = {}
      /\ port[v].vlans \subseteq {DefaultVlan} \cup Vlans(c)
      /\ pc[v] \in DelPc => port[v].vlans \subseteq {DefaultVlan}
      /\ pc[v] = "unused" => brif[v] \subseteq Far
  BY <1>1 DEF CalmAt
<1> DEFINE Goal == /\ pc'[v] \in DelPc \cup {"detached"}
                   /\ \/ port'[v].vlans \subseteq {DefaultVlan}
                      \/ /\ port'[v].vlans \subseteq {DefaultVlan} \cup Vlans(c)
                         /\ pc'[v] = "detached" /\ cmd'[v] = "undoSaved"
                   /\ pc'[v] = "unused" => brif'[v] \subseteq Far
<1>4. SUFFICES Goal
  BY <1>1, <1>3 DEF CalmAt, Vlans, DelPc, Over
<1> USE <1>2 DEF TypeOK, Goto, DelPc
<1>5. NoPort.vlans = {}
  BY DEF NoPort
<1>6. CASE Detach(v)
  BY <1>5, <1>6 DEF Detach
<1>7. CASE DetachFails(v) /\ Alarm(v)
  <2>1. Vlans(c) = {}
    BY <1>3, <1>7 DEF Alarm
  <2> QED
    BY <1>3, <1>7, <2>1 DEF DetachFails
<1>8. CASE DelDetaches(v) /\ pc[v] = "detached" /\ UNCHANGED vars /\ Alarm(v)
  <2>1. Vlans(c) = {}
    BY <1>3, <1>8 DEF Alarm
  <2> QED
    BY <1>3, <1>8, <2>1 DEF vars
<1>11. CASE UndoSaved(v) /\ DetachFails(v)
  <2>1. cmd'[v] = "undoSaved"
    BY <1>11 DEF UndoSaved, Turn, Books, NodeTypeOK
  <2> QED
    BY <1>3, <1>11, <2>1 DEF DetachFails
<1>9. CASE RemoveVlans(v)
  <2>1. CASE LockForDel(v) \/ UnlockAfterDel(v)
    BY <1>3, <2>1 DEF LockForDel, UnlockAfterDel
  <2>2. CASE ListPorts(v)
    <3>1. OtherPorts(v) \subseteq Far
      BY TopologyAssumption DEF OtherPorts
    <3> QED
      BY <1>3, <2>2, <3>1 DEF ListPorts
  <2>3. CASE FindUnused(v)
    BY <1>3, <2>3 DEF FindUnused
  <2>4. CASE \E x \in Vlan : DelUplinkVlan(v, x)
    BY <1>3, <2>4 DEF DelUplinkVlan
  <2> QED
    BY <1>9, <2>1, <2>2, <2>3, <2>4 DEF RemoveVlans
<1>10. CASE RemovalFails(v)
  BY <1>3, <1>10 DEF RemovalFails, DeleteFails, DeleteCall
<1> QED
  BY <1>6, <1>7, <1>8, <1>9, <1>10, <1>11 DEF RollBack, UndoSaved, DelDetaches

LEMMA CalmBook ==
  ASSUME Books, NEW v \in Vf, NodeStep(v), CalmAt(v),
         \/ AddFails(v) \/ RolledBack(v) \/ DelSucceeds(v) \/ (DelSkips(v) /\ ~grave')
         \/ Save(v) \/ AddReturns(v) \/ ReturnsUndone(v)
         \/ StartDel(v) \/ DelFails(v) \/ DelFindsNothing(v)
  PROVE  CalmAt(v)'
<1>1. TypeOK /\ RecordedAt(v)
  BY DEF Books, NodeTypeOK, Recorded
<1> USE <1>1 DEF TypeOK, Goto, DelPc
<1>2. CASE \/ Save(v) \/ AddReturns(v) \/ ReturnsUndone(v)
           \/ StartDel(v) \/ DelFails(v) \/ DelFindsNothing(v)
  <2>1. ConfOf'[v] = ConfOf[v]
    BY <1>2, ConfSteps
  <2>2. pc' = pc /\ port' = port /\ todo' = todo /\ brif' = brif
    BY <1>2 DEF Save, AddReturns, ReturnsUndone, StartDel, DelFails, DelEnds, DelFindsNothing,
                vars, kernel
  <2>3. ~Over(v)'
    BY <1>2, <1>1 DEF Save, AddReturns, ReturnsUndone, StartDel, DelFails, DelEnds,
                DelFindsNothing, Turn, Over, Books, NodeTypeOK, RecordedAt
  <2> QED
    BY <2>1, <2>2, <2>3 DEF CalmAt, Vlans
<1>3. CASE AddFails(v) \/ RolledBack(v) \/ DelSucceeds(v)
  <2>1. ConfOf[v] = conf[v] /\ ConfOf'[v] = NoConf
    BY <1>3, ConfSteps
  <2>2. pc'[v] = "idle"
    BY <1>3 DEF AddFails, RolledBack, DelSucceeds, UndoMaster, Forget
  <2>3. port[v].vlans \subseteq {DefaultVlan}
    <3>1. CASE pc[v] = "undo"
      BY <2>1, <3>1 DEF CalmAt
    <3>2. CASE Over(v)
      BY <2>1, <3>2 DEF CalmAt
    <3> QED
      BY <1>3, <3>1, <3>2 DEF Over, Turn, AddFails, RolledBack, DelSucceeds, UndoMaster, Forget
  <2>4. port'[v].vlans \subseteq {DefaultVlan}
    <3>1. NoPort.vlans = {}
      BY DEF NoPort
    <3>2. port'[v] = port[v] \/ port'[v] = NoPort
      BY <1>3 DEF AddFails, RolledBack, DelSucceeds, UndoMaster, Forget
    <3> QED
      BY <2>3, <3>1, <3>2
  <2> QED
    BY <2>1, <2>2, <2>4, NoVlans DEF CalmAt, Vlans
<1>4. CASE DelSkips(v) /\ ~grave'
  <2>1. ConfOf'[v] = NoConf /\ ~ConfOf[v].setUplinkVlan
    BY <1>4, ConfSteps
  <2>2. port'[v].vlans \subseteq {DefaultVlan}
    <3>1. port' = port
      BY <1>4 DEF DelSkips, Abandon, Forget
    <3> QED
      BY <2>1, <3>1 DEF CalmAt
  <2>3. pc'[v] = "idle"
    BY <1>4 DEF DelSkips, Abandon, Forget
  <2> QED
    BY <2>1, <2>2, <2>3, NoVlans DEF CalmAt, Vlans
<1> QED
  BY <1>2, <1>3, <1>4

LEMMA CalmKill ==
  ASSUME Books, NEW v \in Vf, NodeStep(v), CalmAt(v), KillCmd(v), ~grave'
  PROVE  CalmAt(v)'
<1>1. TypeOK /\ RecordedAt(v)
  BY DEF Books, NodeTypeOK, Recorded
<1>2. /\ ConfOf[v] = conf[v]
      /\ ConfOf'[v] = IF cmd[v] \in {"add", "undo"} THEN NoConf ELSE conf[v]
  BY ConfSteps
<1>3. /\ port' = port /\ todo'[v] = {} /\ brif'[v] = {} /\ cmd[v] # "none"
      /\ pc'[v] = IF cmd[v] \in {"add", "undo"} THEN "idle"
                  ELSE IF pc[v] \in DelPc THEN "detached" ELSE pc[v]
      /\ ~Over(v)'
  BY <1>1 DEF KillCmd, Dies, TypeOK, Over, Books, NodeTypeOK
<1>4. CASE cmd[v] \in {"add", "undo"}
  <2>1. ~conf[v].setUplinkVlan
    BY <1>4 DEF KillCmd, Dies, Alarm
  <2>2. Vlans(conf[v]) = {}
    BY <1>2, <2>1 DEF CalmAt
  <2>3. port[v].vlans \subseteq {DefaultVlan}
    BY <1>2, <2>2 DEF CalmAt
  <2> QED
    BY <1>2, <1>3, <1>4, <2>3, NoVlans DEF CalmAt, Vlans, DelPc
<1>5. CASE cmd[v] \notin {"add", "undo"}
  <2>1. ConfOf'[v] = ConfOf[v]
    BY <1>2, <1>5
  <2>2. pc'[v] = IF pc[v] \in DelPc THEN "detached" ELSE pc[v]
    BY <1>3, <1>5
  <2> QED
    BY <1>3, <2>1, <2>2 DEF CalmAt, Vlans, DelPc
<1> QED
  BY <1>4, <1>5

LEMMA CalmStart ==
  ASSUME Books, NEW v \in Vf, NodeStep(v), CalmAt(v), ~grave',
         NEW p \in Pod, NEW c \in Config, StartAdd(v, p, c)
  PROVE  CalmAt(v)'
<1>1. TypeOK /\ RecordedAt(v)
  BY DEF Books, NodeTypeOK, Recorded
<1>2. pod[v] = NoPod /\ cmd[v] = "none" /\ pc[v] = "idle" /\ ConfOf[v] = NoConf
  BY <1>1, PodAssumption DEF StartAdd, RecordedAt, ConfOf
<1>3. port[v].vlans \subseteq {DefaultVlan}
  BY <1>2, NoVlans DEF CalmAt, DelPc
<1>a. ~Over(v)'
  BY <1>1, <1>2 DEF StartAdd, SetMaster, Turn, Goto, Over, Books, NodeTypeOK, vars
<1>4. CASE ConfOf'[v] = c /\ cmd'[v] = "add" /\ SetMaster(v, c) /\ grave' = (grave \/ Keeps(c))
  <2>1. c.setUplinkVlan \/ Vlans(c) = {}
    BY <1>4 DEF Keeps
  <2>2. c \in Conf /\ c.bridge \in Bridge /\ port[v] \in Port
    BY <1>1, ConfigTypes, ConfTypes DEF TypeOK
  <2>3. Enslaved(port[v], c.bridge).vlans \subseteq {DefaultVlan}
    BY <1>3, <2>2 DEF Enslaved
  <2>4. /\ port'[v] = Enslaved(port[v], c.bridge) /\ todo'[v] = c.trunk
        /\ pc'[v] \in {"defaultVlan", "trunk"}
    BY <1>1, <1>4 DEF SetMaster, Goto, TypeOK
  <2>5. c.trunk \subseteq Vlans(c)
    BY <2>2, OwnVlans
  <2> QED
    BY <1>4, <1>a, <2>1, <2>3, <2>4, <2>5 DEF CalmAt, Vlans, DelPc
<1>5. CASE ConfOf'[v] = NoConf /\ UNCHANGED <<vars, cmd>>
  BY <1>2, <1>3, <1>5, <1>a, NoVlans DEF CalmAt, Vlans, vars, DelPc
<1> QED
  BY <1>4, <1>5, ConfSteps

LEMMA CalmStep ==
  ASSUME Books, NEW v \in Vf, NodeStep(v), CalmAt(v), ~grave'
  PROVE  CalmAt(v)'
  BY CalmAttach, CalmDetach, CalmBook, CalmKill, CalmStart DEF NodeStep

(***************************************************************************)
(* Who has yet to look at the uplink.                                      *)
(***************************************************************************)
\* A VF stops having a VLAN to look after only where its removal ends, with
\* nothing more to take off.
LEMMA StillOwes ==
  ASSUME Books, NEW v \in Vf, NodeStep(v), CalmAt(v), ~grave', ~UnlockAfterDel(v),
         NEW x \in Vlan, Owes(v, x)
  PROVE  Owes(v, x)'
<1>1. TypeOK /\ RecordedAt(v) /\ NodeTypeOK
  BY DEF Books, NodeTypeOK, Recorded
<1>2. x \in Vlans(ConfOf[v]) /\ ~Over(v)
  BY DEF Owes
<1>3. ConfOf[v].setUplinkVlan
  BY <1>2 DEF CalmAt
<1>4. /\ ConfOf'[v] = ConfOf[v] /\ ~Over(v)' => Owes(v, x)'
      /\ cmd'[v] \notin {"undo", "del"} => ~Over(v)'
      /\ pc'[v] # "detached" => ~Over(v)'
  BY <1>2 DEF Owes, Over, Vlans
<1> USE <1>1 DEF TypeOK, NodeTypeOK, Goto, Turn
<1>5. CASE Attach(v) \/ AttachAborts(v)
  <2>1. cmd[v] = "add" /\ cmd' = cmd
    BY <1>5 DEF Attach, AttachAborts, book
  <2> QED
    BY <1>4, <1>5, <2>1, ConfSteps
<1>6. CASE RollBack(v) \/ DelDetaches(v)
  <2>1. ConfOf[v] = conf[v] /\ ConfOf'[v] = conf[v]
    BY <1>6, ConfSteps
  <2>2. ~Alarm(v)
    BY <1>3, <2>1 DEF Alarm
  <2>3. Detach(v)
    BY <1>6, <2>2 DEF RollBack, DelDetaches
  <2>4. pc'[v] = "delLock"
    BY <1>3, <2>1, <2>3 DEF Detach
  <2> QED
    BY <1>4, <2>1, <2>4
<1>7. CASE RemoveVlans(v) \/ RemovalFails(v)
  <2>1. ConfOf[v] = conf[v] /\ ConfOf'[v] = conf[v]
    BY <1>7, ConfSteps
  <2>2. CASE RemovalFails(v)
    <3>1. cmd[v] = "undoSaved" /\ cmd' = cmd
      BY <1>3, <2>1, <2>2 DEF Alarm, RemovalFails
    <3> QED
      BY <1>4, <2>1, <3>1
  <2>3. CASE RemoveVlans(v)
    <3>1. pc'[v] \in {"list", "unused", "delUplink"}
      BY <2>3 DEF RemoveVlans, LockForDel, ListPorts, FindUnused, DelUplinkVlan
    <3> QED
      BY <1>4, <2>1, <3>1
  <2> QED
    BY <1>7, <2>2, <2>3
<1>13. CASE UndoSaved(v)
  BY <1>4, <1>13, ConfSteps DEF UndoSaved
<1>8. CASE AddFails(v) \/ RolledBack(v) \/ DelSucceeds(v)
  <2>1. pc[v] = "undo"
    BY <1>2, <1>8 DEF AddFails, RolledBack, DelSucceeds, UndoMaster, Forget, Over
  <2> QED
    BY <1>2, <2>1 DEF CalmAt
<1>9. CASE Save(v) \/ AddReturns(v) \/ ReturnsUndone(v) \/ StartDel(v) \/ DelFails(v)
  <2>1. cmd'[v] \in {"saved", "none", "load"}
    BY <1>9 DEF Save, AddReturns, ReturnsUndone, StartDel, DelFails, DelEnds
  <2> QED
    BY <1>4, <1>9, <2>1, ConfSteps
<1>10. CASE DelFindsNothing(v) \/ DelSkips(v)
  BY <1>2, <1>3, <1>10, ConfSteps, NoVlans
<1>11. CASE \E p \in Pod, c \in Config : StartAdd(v, p, c)
  <2>1. ConfOf[v] = NoConf
    BY <1>11, PodAssumption DEF StartAdd, RecordedAt, ConfOf
  <2> QED
    BY <1>2, <2>1, NoVlans
<1>12. CASE KillCmd(v)
  <2>1. cmd[v] \notin {"add", "undo"}
    <3>1. ConfOf[v] = conf[v]
      BY <1>12, ConfSteps
    <3> QED
      BY <1>3, <1>12, <3>1 DEF KillCmd, Dies, Alarm
  <2>2. ConfOf'[v] = ConfOf[v]
    BY <1>12, <2>1, ConfSteps
  <2>3. cmd'[v] = "none"
    BY <1>12 DEF KillCmd, Dies
  <2> QED
    BY <1>4, <2>2, <2>3
<1> QED
  BY <1>5, <1>6, <1>7, <1>8, <1>9, <1>10, <1>11, <1>12, <1>13 DEF NodeStep

\* The others go on looking after theirs.
LEMMA OthersOwe ==
  ASSUME Books, NEW v \in Vf, NodeStep(v), NEW w \in Vf \ {v}, NEW x \in Vlan
  PROVE  Owes(w, x)' <=> Owes(w, x)
<1>1. pc'[w] = pc[w] /\ cmd'[w] = cmd[w] /\ ConfOf'[w] = ConfOf[w]
  BY Others
<1> QED
  BY <1>1 DEF Owes, Over, Vlans

\* With one uplink for all VFs, what is on the other uplinks of the bridge
\* stays there.
LEMMA ElsewhereStays ==
  ASSUME OneUplink, Books, NEW v \in Vf, NodeStep(v), NEW u \in Uplink, u = UplinkOf[v],
         NEW x \in Vlan
  PROVE  Elsewhere(u, x)' <=> Elsewhere(u, x)
<1>1. ASSUME NEW w \in Uplink \ {u} PROVE uplinkVlans'[w] = uplinkVlans[w]
  <2>1. TypeOK
    BY DEF Books, NodeTypeOK
  <2> QED
    BY <1>1, <2>1, UplinkSteps, TopologyAssumption DEF TypeOK, AddUplinkVlan, DelUplinkVlan
<1> QED
  BY <1>1 DEF Elsewhere

\* A VLAN other than 1 on a port is one its VF has yet to look after.
LEMMA ShownIsOwed ==
  ASSUME Books, NEW w \in Vf, CalmAt(w), NEW x \in port[w].vlans, x # DefaultVlan
  PROVE  Owes(w, x) /\ pc[w] \notin DelPc
  BY DEF CalmAt, Owes

\* Nobody else is at the uplinks while v is.
LEMMA AloneAt ==
  ASSUME Books, LockOwner, NEW v \in Vf, NEW w \in Vf, pc[v] \in Critical, pc[w] \in Critical
  PROVE  v = w
  BY Alone DEF Books, NodeTypeOK

(***************************************************************************)
(* What a removal leaves on the uplink.                                    *)
(***************************************************************************)
\* What FindUnused spares is shown by a port, whose VF owes it, or by another
\* uplink.
LEMMA SparesFound ==
  ASSUME OneUplink, Books, NEW v \in Vf, NodeStep(v), RemoveVlans(v), FindUnused(v),
         \A w \in Vf : CalmAt(w)
  PROVE  SparesAt(v)'
<1> DEFINE c == conf[v]  u == UplinkOf[v]
<1>1. TypeOK /\ u \in Uplink /\ AdminVlans[u] \subseteq Vlan /\ DefaultVlan \in AdminVlans[u]
  BY TopologyAssumption DEF Books, NodeTypeOK, OneUplink
<1>2. ConfOf[v] = c /\ ConfOf'[v] = c
  BY ConfSteps
<1>3. /\ pc[v] = "unused" /\ uplinkVlans' = uplinkVlans
      /\ todo'[v] = Unused(v) \/ todo'[v] = Vlans(c)
  BY <1>1 DEF FindUnused, Goto, TypeOK
<1>4. brif[v] \subseteq Vf \cup {w \in Uplink \ {u} : BridgeOf[w] = BridgeOf[u]}
  BY <1>3 DEF CalmAt
<1>5. ASSUME NEW x \in (uplinkVlans[u] \ AdminVlans[u]) \cap (Vlans(c) \ todo'[v])
      PROVE  (\E w \in Vf \ {v} : Owes(w, x)') \/ Elsewhere(u, x)'
  <2>1. x \in Vlan /\ x # DefaultVlan
    BY <1>1 DEF TypeOK
  <2>2. PICK l \in brif[v] : x \in VlansOn(l)
    BY <1>3 DEF Unused
  <2>3. CASE l \in Vf
    <3>1. x \in port[l].vlans
      BY <2>2, <2>3 DEF VlansOn
    <3>2. Owes(l, x) /\ pc[l] \notin DelPc
      BY <2>1, <2>3, <3>1, ShownIsOwed
    <3>3. l # v
      BY <1>3, <3>2 DEF DelPc
    <3> QED
      BY <2>1, <2>3, <3>2, <3>3, OthersOwe
  <2>4. CASE l \notin Vf
    <3>1. l \in Uplink \ {u} /\ BridgeOf[l] = BridgeOf[u] /\ x \in uplinkVlans[l]
      BY <1>4, <2>2, <2>4 DEF VlansOn
    <3> QED
      BY <1>3, <3>1 DEF Elsewhere
  <2> QED
    BY <2>3, <2>4
<1> QED
  BY <1>2, <1>3, <1>5 DEF SparesAt, Vlans

LEMMA SparesOwn ==
  ASSUME OneUplink, Books, NEW v \in Vf, NodeStep(v), ~grave',
         \A w \in Vf : CalmAt(w) /\ SparesAt(w)
  PROVE  SparesAt(v)'
<1> DEFINE u == UplinkOf[v]
<1>1. TypeOK /\ u \in Uplink /\ RecordedAt(v)
  BY TopologyAssumption DEF Books, NodeTypeOK, Recorded
<1>2. SUFFICES ASSUME pc'[v] = "delUplink" PROVE SparesAt(v)'
  BY DEF SparesAt
<1> USE <1>1 DEF TypeOK, Goto
<1>3. CASE RemoveVlans(v)
  <2>1. CASE FindUnused(v)
    BY <1>3, <2>1, SparesFound
  <2>2. ASSUME NEW y \in Vlan, DelUplinkVlan(v, y) PROVE SparesAt(v)'
    <3>1. ConfOf[v] = conf[v] /\ ConfOf'[v] = conf[v]
      BY <1>3, ConfSteps
    <3>2. /\ pc[v] = "delUplink" /\ uplinkVlans'[u] = uplinkVlans[u] \ {y}
          /\ todo'[v] = todo[v] \ {y}
      BY <2>2 DEF DelUplinkVlan
    <3>3. ASSUME NEW x \in (uplinkVlans'[u] \ AdminVlans[u]) \cap (Vlans(conf[v]) \ todo'[v])
          PROVE  (\E w \in Vf \ {v} : Owes(w, x)') \/ Elsewhere(u, x)'
      <4>1. x \in (uplinkVlans[u] \ AdminVlans[u]) \cap (Vlans(conf[v]) \ todo[v]) /\ x \in Vlan
        BY <3>2, <3>3
      <4>2. (\E w \in Vf \ {v} : Owes(w, x)) \/ Elsewhere(u, x)
        BY <3>1, <3>2, <4>1 DEF SparesAt
      <4> QED
        BY <4>1, <4>2, OthersOwe, ElsewhereStays
    <3> QED
      BY <3>1, <3>3 DEF SparesAt, Vlans
  <2> QED
    BY <1>2, <1>3, <2>1, <2>2 DEF RemoveVlans, LockForDel, ListPorts, UnlockAfterDel
<1>4. CASE Attach(v) \/ AttachAborts(v)
  BY <1>2, <1>4 DEF Attach, AttachAborts, DelDefaultVlan, SetPvid, LockForAdd, UnlockAfterAdd,
                    AddTrunkVlan, AddUplinkVlan, AttachFails
<1>5. CASE AddFails(v) \/ RolledBack(v) \/ DelSkips(v) \/ DelSucceeds(v)
  BY <1>2, <1>5 DEF AddFails, UndoMaster, RolledBack, DelSkips, DelSucceeds, Forget, Abandon
<1>6. CASE RollBack(v) \/ UndoSaved(v) \/ DelDetaches(v)
  BY <1>2, <1>6 DEF RollBack, UndoSaved, DelDetaches, Detach, DetachFails, vars
<1>7. CASE RemovalFails(v)
  BY <1>2, <1>7 DEF RemovalFails, DeleteFails
<1>8. CASE \E p \in Pod, c \in Config : StartAdd(v, p, c)
  <2>1. pc[v] = "idle"
    BY <1>8 DEF StartAdd, RecordedAt
  <2> QED
    BY <1>2, <1>8, <2>1 DEF StartAdd, SetMaster, vars
<1>9. CASE \/ Save(v) \/ AddReturns(v) \/ ReturnsUndone(v)
           \/ DelFindsNothing(v) \/ StartDel(v) \/ DelFails(v)
  <2>1. pc'[v] = pc[v] /\ pc[v] # "delUplink"
    BY <1>9 DEF Save, AddReturns, ReturnsUndone, DelFindsNothing, StartDel, DelFails, DelEnds,
                vars, kernel, RecordedAt, Turn
  <2> QED
    BY <1>2, <2>1
<1>10. CASE KillCmd(v)
  BY <1>2, <1>10 DEF KillCmd, Dies, DelPc
<1> QED
  BY <1>3, <1>4, <1>5, <1>6, <1>7, <1>8, <1>9, <1>10 DEF NodeStep

\* Nobody changes the uplink or stops owing a VLAN under a removal's hands.
LEMMA SparesOthers ==
  ASSUME OneUplink, Books, LockOwner, NEW v \in Vf, NodeStep(v), ~grave',
         \A w \in Vf : CalmAt(w) /\ SparesAt(w), NEW d \in Vf \ {v}
  PROVE  SparesAt(d)'
<1> DEFINE u == UplinkOf[d]
<1>1. /\ pc'[d] = pc[d] /\ todo'[d] = todo[d] /\ ConfOf'[d] = ConfOf[d]
      /\ TypeOK /\ u \in Uplink /\ u = UplinkOf[v]
  BY Others, TopologyAssumption DEF Books, NodeTypeOK, OneUplink
<1>2. SUFFICES ASSUME pc[d] = "delUplink" PROVE SparesAt(d)'
  BY <1>1 DEF SparesAt
<1>3. pc[v] \notin Critical
  BY <1>2, AloneAt DEF Critical
<1>4. uplinkVlans' = uplinkVlans /\ ~UnlockAfterDel(v)
  <2>1. \A x \in Vlan : ~AddUplinkVlan(v, x) /\ ~DelUplinkVlan(v, x)
    BY <1>3 DEF AddUplinkVlan, DelUplinkVlan, Critical
  <2>2. ~UnlockAfterDel(v)
    BY <1>3 DEF UnlockAfterDel, Goto, Critical
  <2> QED
    BY <2>1, <2>2, UplinkSteps
<1>5. ASSUME NEW x \in (uplinkVlans[u] \ AdminVlans[u]) \cap (Vlans(ConfOf[d]) \ todo[d])
      PROVE  (\E w \in Vf \ {d} : Owes(w, x)') \/ Elsewhere(u, x)'
  <2>1. x \in Vlan
    BY <1>1 DEF TypeOK
  <2>2. (\E w \in Vf \ {d} : Owes(w, x)) \/ Elsewhere(u, x)
    BY <1>2 DEF SparesAt
  <2>3. ASSUME NEW w \in Vf \ {d}, Owes(w, x) PROVE Owes(w, x)'
    <3>1. CASE w = v
      BY <1>4, <2>1, <2>3, <3>1, StillOwes
    <3>2. CASE w # v
      BY <2>1, <2>3, <3>2, OthersOwe
    <3> QED
      BY <3>1, <3>2
  <2> QED
    BY <1>1, <2>1, <2>2, <2>3, ElsewhereStays
<1> QED
  BY <1>1, <1>4, <1>5 DEF SparesAt, Vlans

(***************************************************************************)
(* The uplinks.                                                            *)
(***************************************************************************)
LEMMA UntouchedStep ==
  ASSUME Books, NEW v \in Vf, NodeStep(v), Untouched PROVE Untouched'
<1> SUFFICES ASSUME NEW u \in Uplink, \A w \in Vf : UplinkOf[w] # u
             PROVE  uplinkVlans'[u] = AdminVlans[u]
  BY DEF Untouched
<1>1. uplinkVlans[u] = AdminVlans[u] /\ UplinkOf[v] # u /\ TypeOK
  BY DEF Untouched, Books, NodeTypeOK
<1> QED
  BY <1>1, UplinkSteps, TopologyAssumption DEF TypeOK, AddUplinkVlan, DelUplinkVlan

\* The second half of Clean.
OwedAll ==
  \A u \in Uplink : \A x \in uplinkVlans[u] \ AdminVlans[u] :
    (\E v \in Vf : UplinkOf[v] = u /\ Owes(v, x)) \/ Elsewhere(u, x)

LEMMA OwedStep ==
  ASSUME OneUplink, Books, NEW v \in Vf, NodeStep(v), Untouched', ~grave',
         \A w \in Vf : CalmAt(w) /\ SparesAt(w), OwedAll
  PROVE  OwedAll'
<1>1. TypeOK
  BY DEF Books, NodeTypeOK
<1> SUFFICES ASSUME NEW u \in Uplink, NEW x \in uplinkVlans'[u] \ AdminVlans[u]
             PROVE  (\E w \in Vf : UplinkOf[w] = u /\ Owes(w, x)') \/ Elsewhere(u, x)'
  BY DEF OwedAll
<1>2. u = UplinkOf[v] /\ \A w \in Vf : UplinkOf[w] = u
  BY DEF Untouched, OneUplink
<1>3. CASE x \in uplinkVlans[u]
  <2>1. x \in Vlan
    BY <1>1, <1>3 DEF TypeOK
  <2>2. CASE Elsewhere(u, x)
    BY <1>2, <2>1, <2>2, ElsewhereStays
  <2>3. CASE \E w \in Vf \ {v} : Owes(w, x)
    BY <1>2, <2>1, <2>3, OthersOwe
  <2>4. CASE Owes(v, x) /\ ~UnlockAfterDel(v)
    BY <1>2, <2>1, <2>4, StillOwes
  <2>5. CASE Owes(v, x) /\ UnlockAfterDel(v)
    <3>1. pc[v] = "delUplink" /\ todo[v] = {}
      BY <2>5 DEF UnlockAfterDel, Goto
    <3>2. x \in Vlans(ConfOf[v])
      BY <2>5 DEF Owes
    <3>3. (\E w \in Vf \ {v} : Owes(w, x)) \/ Elsewhere(u, x)
      BY <1>2, <1>3, <3>1, <3>2 DEF SparesAt
    <3> QED
      BY <2>2, <2>3, <3>3
  <2>6. (\E w \in Vf : UplinkOf[w] = u /\ Owes(w, x)) \/ Elsewhere(u, x)
    BY <1>3 DEF OwedAll
  <2> QED
    BY <2>2, <2>3, <2>4, <2>5, <2>6
<1>4. CASE x \notin uplinkVlans[u]
  <2>1. PICK y \in Vlan : AddUplinkVlan(v, y) /\ cmd[v] = "add" /\ UNCHANGED book
    <3>1. \A y \in Vlan : ~DelUplinkVlan(v, y)
      BY <1>1, <1>2, <1>4 DEF TypeOK, DelUplinkVlan
    <3> QED
      BY <1>4, <3>1, UplinkSteps
  <2>2. x = y /\ pc[v] = "addUplink" /\ y \in todo[v] /\ conf' = conf
    BY <1>1, <1>2, <1>4, <2>1, TopologyAssumption DEF TypeOK, AddUplinkVlan
  <2>3. x \in Vlans(ConfOf[v])
    BY <2>2 DEF CalmAt
  <2>4. ConfOf'[v] = ConfOf[v] /\ cmd'[v] = "add"
    BY <2>1, <2>2 DEF book, ConfOf
  <2> QED
    BY <1>2, <2>3, <2>4 DEF Owes, Over, Vlans
<1> QED
  BY <1>3, <1>4

(***************************************************************************)
(* The theorem.                                                            *)
(***************************************************************************)
CleanInv == LockOwner /\ Untouched /\ Clean

LEMMA CleanAll ==
  /\ Clean <=> (~grave => OwedAll /\ \A w \in Vf : CalmAt(w) /\ SparesAt(w))
  /\ Clean' <=> (~grave' => OwedAll' /\ \A w \in Vf : CalmAt(w)' /\ SparesAt(w)')
  BY CleanParts DEF Clean, OwedAll

LEMMA CleanStep ==
  ASSUME OneUplink, Books, CleanInv, NEW v \in Vf, NodeStep(v)
  PROVE  Untouched' /\ Clean'
<1>1. Untouched'
  BY UntouchedStep DEF CleanInv
<1>2. ASSUME ~grave' PROVE OwedAll' /\ \A w \in Vf : CalmAt(w)' /\ SparesAt(w)'
  <2>1. OwedAll /\ \A w \in Vf : CalmAt(w) /\ SparesAt(w)
    BY <1>2, GraveStays, CleanAll DEF CleanInv
  <2>2. OwedAll'
    BY <1>1, <1>2, <2>1, OwedStep
  <2>3. CalmAt(v)' /\ SparesAt(v)'
    BY <1>2, <2>1, CalmStep, SparesOwn
  <2>4. ASSUME NEW w \in Vf \ {v} PROVE CalmAt(w)' /\ SparesAt(w)'
    <3>1. SparesAt(w)'
      BY <1>2, <2>1, SparesOthers DEF CleanInv
    <3>2. CalmAt(w)'
      <4>1. /\ pc'[w] = pc[w] /\ cmd'[w] = cmd[w]
            /\ ConfOf'[w] = ConfOf[w] /\ port'[w] = port[w]
            /\ todo'[w] = todo[w] /\ brif'[w] = brif[w]
        BY Others
      <4> QED
        BY <2>1, <4>1 DEF CalmAt, Vlans, Over
    <3> QED
      BY <3>1, <3>2
  <2> QED
    BY <2>2, <2>3, <2>4
<1> QED
  BY <1>1, <1>2, CleanAll

LEMMA CleanInit == NodeInit => CleanInv
<1> SUFFICES ASSUME NodeInit PROVE CleanInv
  OBVIOUS
<1>1. LockOwner /\ Untouched
  BY TopologyAssumption DEF NodeInit, Init, LockOwner, Critical, Untouched
<1>2. \A v \in Vf : ConfOf[v] = NoConf /\ pc[v] = "idle" /\ port[v].vlans = {}
  BY DEF NodeInit, Init, ConfOf, NoPort
<1>3. \A u \in Uplink : uplinkVlans[u] \ AdminVlans[u] = {}
  BY DEF NodeInit, Init
<1>4. Clean
  BY <1>2, <1>3, NoVlans DEF Clean, CleanAt
<1> QED
  BY <1>1, <1>4 DEF CleanInv

\* The lock is held as in UplinkVlans.
LEMMA NodeLock == NodeSpec => []LockOwner
<1>1. Mapped!Spec => []Mapped!LockOwner
  BY Mapped!OneAtATime, VlanAssumption, TopologyAssumption, ConfigAssumption, FaultAssumption
  DEF Mapped!Conf, Conf, Mapped!DefaultVlan, DefaultVlan
<1>2. Mapped!LockOwner => LockOwner
  BY DEF Mapped!LockOwner, LockOwner, Mapped!Critical, Critical
<1> QED
  BY <1>1, <1>2, NodeRefines, SameInit, SameNext, PTL
  DEF UplinkVlansSpec, Uplinks!Spec, Mapped!Spec

\* Where the VFs of one PF use the bridge, and as long as no ADD was cut short
\* and no removal failed or was skipped by a DEL that reported success (grave
\* in Node), every VLAN left on the uplink has somebody who has yet to look
\* whether to take it off, or is on another uplink, and no removal passes over
\* one that has nobody else.
THEOREM CleanAlways ==
  ASSUME OneUplink
  PROVE  NodeSpec => []Clean
<1>1. ASSUME Books, LockOwner, Untouched, Clean, [NodeNext]_nodeVars
      PROVE  (Untouched /\ Clean)'
  <2>1. CASE UNCHANGED nodeVars
    <3>1. Untouched'
      BY <1>1, <2>1 DEF nodeVars, vars, Untouched
    <3>2. Clean'
      BY <1>1, <2>1 DEF nodeVars, vars, book, Clean, CleanAt, Owes, Over, Elsewhere, ConfOf,
                            Vlans
    <3> QED
      BY <3>1, <3>2
  <2>2. ASSUME NEW v \in Vf, NodeStep(v) PROVE (Untouched /\ Clean)'
    BY <1>1, <2>2, CleanStep DEF CleanInv
  <2> QED
    BY <1>1, <2>1, <2>2 DEF NodeNext
<1>2. NodeInit => Untouched /\ Clean
  BY CleanInit DEF CleanInv
<1> QED
  BY <1>1, <1>2, BooksInOrder, NodeLock, PTL DEF NodeSpec

\* Therefore, under the same conditions, no VLAN stays on an uplink that none
\* of its VFs is, or is being, configured with and no other uplink of the
\* bridge carries.
THEOREM UplinkStaysClean ==
  ASSUME OneUplink
  PROVE  NodeSpec => []UplinkClean
<1>1. Clean => UplinkClean
  BY DEF Clean, UplinkClean, Owes, Elsewhere
<1> QED
  BY <1>1, CleanAlways, PTL
=============================================================================
