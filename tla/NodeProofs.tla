----------------------------- MODULE NodeProofs -----------------------------
(***************************************************************************)
(* Proofs about Node, for any number of pods, VFs, uplinks, bridges and    *)
(* VLANs, any failing calls and any killed commands: the commands use the  *)
(* representor calls as UplinkVlans admits, so that the theorems about     *)
(* UplinkVlans hold of the node, and pods stay connected.                  *)
(***************************************************************************)
EXTENDS Node, UplinkVlansProofs

(***************************************************************************)
(* The books: what the cache, the commands in memory and the runtime's     *)
(* view of the pods have to do with each other.                            *)
(***************************************************************************)
\* Steps of the commands that are steps of UplinkVlans as they stand.
KernelStep(v) ==
  \/ Attach(v) \/ AttachAborts(v) \/ AddFails(v) \/ RollBack(v) \/ RolledBack(v)
  \/ UndoSaved(v) \/ DelSkips(v)
  \/ DelDetaches(v) \/ RemoveVlans(v) \/ RemovalFails(v) \/ DelSucceeds(v)

LEMMA KernelSteps ==
  ASSUME NEW v \in Vf, KernelStep(v) PROVE [Next]_vars
  BY DEF KernelStep, Attach, AttachAborts, AddFails, RollBack, RolledBack, UndoSaved,
         DelSkips, DelDetaches, RemoveVlans, RemovalFails, DelSucceeds, Next, Step, GetsLock

LEMMA ConfigTypes ==
  /\ Config \subseteq Conf
  /\ \A c \in Config : c # NoConf
  BY ConfigAssumption, TopologyAssumption DEF Conf, NoConf

LEMMA TidyStep == TypeOK /\ Tidy /\ [Next]_vars => Tidy'
<1> SUFFICES ASSUME TypeOK, Tidy, [Next]_vars PROVE Tidy'
  OBVIOUS
<1> USE TopologyAssumption DEF TypeOK, Tidy, Goto, Critical
<1>1. CASE UNCHANGED vars
  BY <1>1 DEF vars
<1>2. ASSUME NEW v \in Vf, NEW c \in Config, SetMaster(v, c) PROVE Tidy'
  BY <1>2 DEF SetMaster
<1>3. ASSUME NEW v \in Vf, Detach(v) \/ DetachFails(v) \/ Forget(v) \/ Abandon(v) PROVE Tidy'
  BY <1>3 DEF Detach, DetachFails, Forget, Abandon
<1>4. ASSUME NEW v \in Vf, Kill(v) PROVE Tidy'
  BY <1>4 DEF Kill, Release
<1>5. ASSUME NEW v \in Vf, AttachFails(v) \/ DeleteFails(v) PROVE Tidy'
  BY <1>5 DEF AttachFails, DeleteFails, AttachCall, DeleteCall, Release
<1>6. ASSUME NEW v \in Vf, DelDefaultVlan(v) \/ SetPvid(v) \/ UndoMaster(v) PROVE Tidy'
  BY <1>6 DEF DelDefaultVlan, SetPvid, UndoMaster
<1>7. ASSUME NEW v \in Vf, UnlockAfterAdd(v) \/ UnlockAfterDel(v) PROVE Tidy'
  BY <1>7 DEF UnlockAfterAdd, UnlockAfterDel, Release
<1>8. ASSUME NEW v \in Vf, ListPorts(v) \/ FindUnused(v) PROVE Tidy'
  BY <1>8 DEF ListPorts, FindUnused
<1>9. ASSUME NEW v \in Vf, GetsLock(v) PROVE Tidy'
  BY <1>9 DEF GetsLock, LockForAdd, LockForDel, Acquire
<1>10. ASSUME NEW v \in Vf, NEW x \in Vlan,
              AddTrunkVlan(v, x) \/ AddUplinkVlan(v, x) \/ DelUplinkVlan(v, x)
       PROVE  Tidy'
  BY <1>10 DEF AddTrunkVlan, AddUplinkVlan, DelUplinkVlan
<1> QED
  BY <1>1, <1>2, <1>3, <1>4, <1>5, <1>6, <1>7, <1>8, <1>9, <1>10 DEF Next, Step

LEMMA NodeTypesStep ==
  ASSUME Books, [NodeNext]_nodeVars PROVE NodeTypeOK'
<1> USE PodAssumption DEF NodeTypeOK, Turn, Becomes
<1>a. NodeTypeOK /\ Recorded
  BY DEF Books
<1>1. CASE UNCHANGED nodeVars
  <2>1. TypeOK'
    BY <1>1, <1>a, TypeStep DEF nodeVars
  <2> QED
    BY <1>1, <1>a, <2>1 DEF nodeVars, book
<1>2. ASSUME NEW v \in Vf, KernelStep(v) PROVE NodeTypeOK'
  <2>1. TypeOK'
    BY <1>2, <1>a, KernelSteps, TypeStep
  <2>3. CASE Attach(v) \/ AttachAborts(v) \/ RemoveVlans(v) \/ RemovalFails(v)
    BY <1>a, <2>1, <2>3 DEF Attach, AttachAborts, RemoveVlans, RemovalFails, book, Alarm
  <2>4. CASE RollBack(v) \/ DelDetaches(v) \/ UndoSaved(v)
    BY <1>a, <2>1, <2>4 DEF RollBack, DelDetaches, UndoSaved, Alarm, AddCmd, DelCmd
  <2>5. CASE AddFails(v) \/ RolledBack(v)
    BY <1>a, <2>1, <2>5 DEF AddFails, RolledBack, AddCmd
  <2>6. CASE DelSucceeds(v) \/ DelSkips(v)
    BY <1>a, <2>1, <2>6, ConfTypes DEF DelSucceeds, DelSkips, Frees, AddCmd, Conf, NoConf
  <2> QED
    BY <1>2, <2>3, <2>4, <2>5, <2>6 DEF KernelStep
<1>3. ASSUME NEW v \in Vf, NEW p \in Pod, NEW c \in Config, StartAdd(v, p, c)
      PROVE  NodeTypeOK'
  <2>1. TypeOK'
    <3>1. [Next]_vars
      BY <1>3 DEF StartAdd, Next, vars
    <3> QED
      BY <3>1, <1>a, TypeStep
  <2> QED
    BY <1>3, <1>a, <2>1 DEF StartAdd, AddCmd, Keeps
<1>4. ASSUME NEW v \in Vf, Save(v) PROVE NodeTypeOK'
  <2>1. TypeOK'
    BY <1>4, <1>a, TypeStep DEF Save
  <2>2. conf[v] \in Conf \cup {NoConf}
    BY <1>a DEF TypeOK
  <2> QED
    BY <1>4, <1>a, <2>1, <2>2 DEF Save, AddCmd
<1>5. ASSUME NEW v \in Vf, AddReturns(v) \/ ReturnsUndone(v) \/ DelFails(v)
      PROVE  NodeTypeOK'
  <2>1. TypeOK'
    BY <1>5, <1>a DEF AddReturns, ReturnsUndone, DelFails, DelEnds, kernel, TypeOK
  <2> QED
    BY <1>5, <1>a, <2>1 DEF AddReturns, ReturnsUndone, DelFails, DelEnds, AddCmd
<1>6. ASSUME NEW v \in Vf, StartDel(v) PROVE NodeTypeOK'
  <2>1. TypeOK'
    BY <1>6, <1>a DEF StartDel, kernel, TypeOK
  <2> QED
    BY <1>6, <1>a, <2>1 DEF StartDel, DelCmd
<1>7. ASSUME NEW v \in Vf, DelFindsNothing(v) PROVE NodeTypeOK'
  <2>1. TypeOK'
    BY <1>7, <1>a, TypeStep DEF DelFindsNothing
  <2> QED
    BY <1>7, <1>a, <2>1 DEF DelFindsNothing, Frees
<1>8. ASSUME NEW v \in Vf, KillCmd(v) PROVE NodeTypeOK'
  <2>1. TypeOK'
    BY <1>8, <1>a DEF KillCmd, Dies, Release, TypeOK, AnyPc
  <2> QED
    BY <1>8, <1>a, <2>1 DEF KillCmd, Dies, Alarm
<1> QED
  BY <1>1, <1>2, <1>3, <1>4, <1>5, <1>6, <1>7, <1>8 DEF NodeNext, NodeStep, KernelStep

\* A command changes nothing of the other VFs, nor of their pods' files.
Only(v) ==
  \A w \in Vf \ {v} :
    /\ pc'[w] = pc[w] /\ conf'[w] = conf[w] /\ cmd'[w] = cmd[w] /\ pod'[w] = pod[w]
    /\ pod[w] # NoPod => stage'[pod[w]] = stage[pod[w]] /\ cache'[pod[w]] = cache[pod[w]]

LEMMA KernelOnly ==
  ASSUME TypeOK, NEW v \in Vf, KernelStep(v), NEW w \in Vf \ {v}
  PROVE  pc'[w] = pc[w] /\ conf'[w] = conf[w]
<1> USE DEF TypeOK, Goto
<1>1. CASE Attach(v) \/ AttachAborts(v)
  BY <1>1 DEF Attach, AttachAborts, DelDefaultVlan, SetPvid, LockForAdd, UnlockAfterAdd,
              AddTrunkVlan, AddUplinkVlan, AttachFails
<1>2. CASE AddFails(v) \/ RolledBack(v) \/ DelSkips(v) \/ DelSucceeds(v)
  BY <1>2 DEF AddFails, UndoMaster, RolledBack, DelSkips, DelSucceeds, Forget, Abandon
<1>3. CASE RollBack(v) \/ UndoSaved(v) \/ DelDetaches(v)
  BY <1>3 DEF RollBack, UndoSaved, DelDetaches, Detach, DetachFails, vars
<1>4. CASE RemoveVlans(v) \/ RemovalFails(v)
  BY <1>4 DEF RemoveVlans, RemovalFails, LockForDel, ListPorts, FindUnused, UnlockAfterDel,
              DelUplinkVlan, DeleteFails
<1> QED
  BY <1>1, <1>2, <1>3, <1>4 DEF KernelStep

LEMMA OnlyOne ==
  ASSUME NodeTypeOK, Allocated, NEW v \in Vf, NodeStep(v) PROVE Only(v)
<1> SUFFICES ASSUME NEW w \in Vf \ {v}
             PROVE  /\ pc'[w] = pc[w] /\ conf'[w] = conf[w]
                    /\ cmd'[w] = cmd[w] /\ pod'[w] = pod[w]
                    /\ pod[w] # NoPod => /\ stage'[pod[w]] = stage[pod[w]]
                                         /\ cache'[pod[w]] = cache[pod[w]]
  BY DEF Only
<1> USE DEF NodeTypeOK, Turn, Becomes
<1>a. pod[w] # NoPod => pod[w] \in Pod /\ pod[w] # pod[v]
  BY DEF Allocated
<1>1. CASE KernelStep(v)
  <2>1. pc'[w] = pc[w] /\ conf'[w] = conf[w]
    BY <1>1, KernelOnly
  <2>2. CASE Attach(v) \/ AttachAborts(v) \/ RemoveVlans(v) \/ RemovalFails(v)
    BY <2>1, <2>2 DEF Attach, AttachAborts, RemoveVlans, RemovalFails, book
  <2>3. CASE RollBack(v) \/ UndoSaved(v) \/ DelDetaches(v)
    BY <2>1, <2>3 DEF RollBack, UndoSaved, DelDetaches
  <2>4. CASE AddFails(v) \/ RolledBack(v) \/ DelSkips(v) \/ DelSucceeds(v)
    BY <1>a, <2>1, <2>4 DEF AddFails, RolledBack, DelSkips, DelSucceeds, Frees
  <2> QED
    BY <1>1, <2>2, <2>3, <2>4 DEF KernelStep
<1>2. ASSUME NEW p \in Pod, NEW c \in Config, StartAdd(v, p, c)
      PROVE  /\ pc'[w] = pc[w] /\ conf'[w] = conf[w]
             /\ cmd'[w] = cmd[w] /\ pod'[w] = pod[w]
             /\ pod[w] # NoPod => /\ stage'[pod[w]] = stage[pod[w]]
                                  /\ cache'[pod[w]] = cache[pod[w]]
  <2>1. pod[w] # p
    BY <1>2 DEF StartAdd, Allocated
  <2> QED
    BY <1>2, <2>1 DEF StartAdd, SetMaster, Goto, TypeOK, vars
<1>3. CASE Save(v) \/ DelFindsNothing(v)
  BY <1>a, <1>3 DEF Save, DelFindsNothing, Frees, vars
<1>4. CASE AddReturns(v) \/ ReturnsUndone(v) \/ StartDel(v) \/ DelFails(v)
  BY <1>a, <1>4 DEF AddReturns, ReturnsUndone, StartDel, DelFails, DelEnds, TypeOK
<1>5. CASE KillCmd(v)
  BY <1>a, <1>5 DEF KillCmd, Dies, TypeOK
<1> QED
  BY <1>1, <1>2, <1>3, <1>4, <1>5 DEF NodeStep, KernelStep

\* pod changes hands only in these ways.
LEMMA PodStep ==
  ASSUME NodeTypeOK, NEW v \in Vf, NodeStep(v)
  PROVE  \/ \E p \in Pod : /\ stage[p] = "new" /\ pod[v] = NoPod
                           /\ pod' = [pod EXCEPT ![v] = p]
                           /\ \A q \in Pod : stage'[q] = "new" => q # p /\ stage[q] = "new"
         \/ /\ pod' = pod \/ pod' = [pod EXCEPT ![v] = NoPod]
            /\ \A q \in Pod : stage'[q] = "new" => stage[q] = "new"
<1> USE DEF NodeTypeOK, Becomes
<1>1. ASSUME NEW p \in Pod, NEW c \in Config, StartAdd(v, p, c)
      PROVE  /\ stage[p] = "new" /\ pod[v] = NoPod
             /\ pod' = [pod EXCEPT ![v] = p]
             /\ \A q \in Pod : stage'[q] = "new" => q # p /\ stage[q] = "new"
  BY <1>1 DEF StartAdd
<1>2. CASE Attach(v) \/ AttachAborts(v) \/ RemoveVlans(v) \/ RemovalFails(v)
  BY <1>2 DEF Attach, AttachAborts, RemoveVlans, RemovalFails, book
<1>3. CASE RollBack(v) \/ UndoSaved(v) \/ DelDetaches(v) \/ AddFails(v) \/ RolledBack(v)
  BY <1>3 DEF RollBack, UndoSaved, DelDetaches, AddFails, RolledBack
<1>4. CASE Save(v) \/ AddReturns(v) \/ ReturnsUndone(v) \/ StartDel(v) \/ DelFails(v)
  BY <1>4 DEF Save, AddReturns, ReturnsUndone, StartDel, DelFails, DelEnds
<1>6. CASE DelFindsNothing(v) \/ DelSkips(v) \/ DelSucceeds(v)
  BY <1>6 DEF DelFindsNothing, DelSkips, DelSucceeds, Frees
<1>5. CASE KillCmd(v)
  BY <1>5 DEF KillCmd, Dies
<1> QED
  BY <1>1, <1>2, <1>3, <1>4, <1>5, <1>6 DEF NodeStep

\* A file appears for the pod of the command only.
LEMMA CacheStep ==
  ASSUME NodeTypeOK, NEW v \in Vf, NodeStep(v), NEW q \in Pod, q # pod[v]
  PROVE  cache'[q] = cache[q]
<1> USE DEF NodeTypeOK
<1>1. CASE \/ \E p \in Pod, c \in Config : StartAdd(v, p, c)
           \/ Attach(v) \/ AttachAborts(v) \/ AddFails(v) \/ RollBack(v) \/ RolledBack(v)
  BY <1>1 DEF StartAdd, Attach, AttachAborts, AddFails, RollBack, RolledBack, book
<1>2. CASE Save(v) \/ AddReturns(v) \/ UndoSaved(v) \/ ReturnsUndone(v) \/ KillCmd(v)
  BY <1>2 DEF Save, AddReturns, UndoSaved, ReturnsUndone, KillCmd, Dies
<1>3. CASE \/ StartDel(v) \/ DelFindsNothing(v) \/ DelSkips(v) \/ DelDetaches(v)
           \/ RemoveVlans(v) \/ RemovalFails(v) \/ DelSucceeds(v) \/ DelFails(v)
  BY <1>3 DEF StartDel, DelFindsNothing, DelSkips, DelDetaches, RemoveVlans, RemovalFails,
              book, DelSucceeds, DelFails, DelEnds
<1> QED
  BY <1>1, <1>2, <1>3 DEF NodeStep

LEMMA AllocatedStep ==
  ASSUME NodeTypeOK, Allocated, [NodeNext]_nodeVars PROVE Allocated'
<1>1. CASE UNCHANGED nodeVars
  BY <1>1 DEF nodeVars, book, Allocated
<1>2. ASSUME NEW v \in Vf, NodeStep(v) PROVE Allocated'
  <2>1. /\ \A u, w \in Vf : pod'[u] = pod'[w] /\ pod'[u] # NoPod => u = w
        /\ \A p \in Pod : stage'[p] = "new" =>
             stage[p] = "new" /\ \A w \in Vf : pod'[w] # p
    BY <1>2, PodStep, PodAssumption DEF Allocated, NodeTypeOK
  <2>2. ASSUME NEW p \in Pod, stage'[p] = "new" PROVE cache'[p] = NoConf
    BY <1>2, <2>1, <2>2, CacheStep DEF Allocated
  <2> QED
    BY <2>1, <2>2 DEF Allocated
<1> QED
  BY <1>1, <1>2 DEF NodeNext

\* One lemma for each command, about the VF it works on.
LEMMA RecordedAdd ==
  ASSUME Books, NEW v \in Vf,
         \/ \E p \in Pod, c \in Config : StartAdd(v, p, c)
         \/ Attach(v) \/ AttachAborts(v) \/ AddFails(v) \/ Save(v) \/ AddReturns(v)
         \/ RollBack(v) \/ RolledBack(v) \/ UndoSaved(v) \/ ReturnsUndone(v)
  PROVE  RecordedAt(v)'
<1> USE PodAssumption DEF NodeTypeOK, TypeOK, Turn, Becomes, AddCmd, DelCmd, Goto, Deletable
<1>a. NodeTypeOK /\ RecordedAt(v)
  BY DEF Books, Recorded
<1>1. ASSUME NEW p \in Pod, NEW c \in Config, StartAdd(v, p, c) PROVE RecordedAt(v)'
  <2>1. c # NoConf /\ cache[p] = NoConf
    BY <1>1, ConfigTypes DEF StartAdd, Books, Allocated
  <2>2. cmd[v] = "none" /\ pc[v] = "idle"
    BY <1>1, <1>a DEF StartAdd, RecordedAt
  <2> QED
    BY <1>1, <1>a, <2>1, <2>2 DEF StartAdd, SetMaster, RecordedAt, AddPc, vars
<1>2. CASE Attach(v)
  <2>1. pc'[v] \in AddPc \cup {"attached"} /\ conf' = conf
    BY <1>2, <1>a DEF Attach, DelDefaultVlan, SetPvid, LockForAdd, UnlockAfterAdd,
                      AddTrunkVlan, AddUplinkVlan, AddPc
  <2> QED
    BY <1>2, <1>a, <2>1 DEF Attach, book, RecordedAt
<1>3. CASE AttachAborts(v)
  BY <1>3, <1>a DEF AttachAborts, AttachFails, RecordedAt, AddPc
<1>4. CASE AddFails(v)
  BY <1>4, <1>a DEF AddFails, UndoMaster, RecordedAt
<1>5. CASE Save(v)
  BY <1>5, <1>a DEF Save, vars, RecordedAt
<1>6. CASE AddReturns(v)
  BY <1>6, <1>a DEF AddReturns, kernel, RecordedAt
<1>7. CASE RollBack(v)
  BY <1>7, <1>a DEF RollBack, Detach, DetachFails, RecordedAt, DelPc
<1>8. CASE RolledBack(v)
  BY <1>8, <1>a DEF RolledBack, Forget, RecordedAt
<1>9. CASE UndoSaved(v)
  BY <1>9, <1>a DEF UndoSaved, Detach, DetachFails, RecordedAt, DelPc
<1>10. CASE ReturnsUndone(v)
  BY <1>10, <1>a DEF ReturnsUndone, kernel, RecordedAt
<1> QED
  BY <1>1, <1>2, <1>3, <1>4, <1>5, <1>6, <1>7, <1>8, <1>9, <1>10

LEMMA RecordedDel ==
  ASSUME Books, NEW v \in Vf,
         \/ StartDel(v) \/ DelFindsNothing(v) \/ DelSkips(v) \/ DelDetaches(v)
         \/ RemoveVlans(v) \/ RemovalFails(v)
         \/ DelSucceeds(v) \/ DelFails(v)
         \/ KillCmd(v)
  PROVE  RecordedAt(v)'
<1> USE PodAssumption DEF NodeTypeOK, TypeOK, Turn, Becomes, AddCmd, DelCmd, Goto, Deletable
<1>a. NodeTypeOK /\ RecordedAt(v)
  BY DEF Books, Recorded
<1>1. CASE StartDel(v)
  BY <1>1, <1>a DEF StartDel, kernel, RecordedAt
<1>2. CASE DelFindsNothing(v)
  BY <1>2, <1>a DEF DelFindsNothing, Frees, vars, RecordedAt
<1>3. CASE DelDetaches(v)
  BY <1>3, <1>a DEF DelDetaches, Detach, DetachFails, vars, RecordedAt, DelPc
<1>4. CASE RemoveVlans(v) \/ RemovalFails(v)
  <2>1. pc'[v] \in DelPc \cup {"detached"} /\ conf' = conf
    BY <1>4, <1>a DEF RemoveVlans, RemovalFails, LockForDel, ListPorts, FindUnused,
                      UnlockAfterDel, DelUplinkVlan, DeleteFails, DelPc, RecordedAt
  <2> QED
    BY <1>4, <1>a, <2>1 DEF RemoveVlans, RemovalFails, book, RecordedAt
<1>5. CASE DelSucceeds(v)
  BY <1>5, <1>a DEF DelSucceeds, Frees, Forget, RecordedAt
<1>6. CASE DelFails(v)
  BY <1>6, <1>a DEF DelFails, DelEnds, kernel, RecordedAt
<1>7. CASE KillCmd(v)
  BY <1>7, <1>a DEF KillCmd, Dies, RecordedAt
<1>8. CASE DelSkips(v)
  BY <1>8, <1>a DEF DelSkips, Frees, Abandon, Forget, RecordedAt
<1> QED
  BY <1>1, <1>2, <1>3, <1>4, <1>5, <1>6, <1>7, <1>8

LEMMA RecordedStep ==
  ASSUME Books, [NodeNext]_nodeVars PROVE Recorded'
<1>1. CASE UNCHANGED nodeVars
  BY <1>1 DEF Books, nodeVars, vars, book, Recorded, RecordedAt
<1>2. ASSUME NEW v \in Vf, NodeStep(v) PROVE Recorded'
  <2>1. RecordedAt(v)'
    BY <1>2, RecordedAdd, RecordedDel DEF NodeStep
  <2>2. Only(v)
    BY <1>2, OnlyOne DEF Books
  <2>3. ASSUME NEW w \in Vf \ {v} PROVE RecordedAt(w)'
    <3>1. RecordedAt(w)
      BY DEF Books, Recorded
    <3>2. CASE pod[w] = NoPod
      BY <2>2, <3>1, <3>2 DEF Only, RecordedAt, AddCmd, DelCmd
    <3>3. CASE pod[w] # NoPod
      BY <2>2, <3>1, <3>3 DEF Only, RecordedAt
    <3> QED
      BY <3>2, <3>3
  <2> QED
    BY <2>1, <2>3 DEF Recorded
<1> QED
  BY <1>1, <1>2 DEF NodeNext

LEMMA NodeTidyStep ==
  ASSUME NodeTypeOK, Tidy, [NodeNext]_nodeVars PROVE Tidy'
<1>a. TypeOK
  BY DEF NodeTypeOK
<1>1. CASE UNCHANGED nodeVars
  BY <1>1, <1>a, TidyStep DEF nodeVars
<1>2. ASSUME NEW v \in Vf, KernelStep(v) PROVE Tidy'
  BY <1>2, <1>a, KernelSteps, TidyStep
<1>3. ASSUME NEW v \in Vf, NEW p \in Pod, NEW c \in Config, StartAdd(v, p, c) PROVE Tidy'
  <2>1. [Next]_vars
    BY <1>3 DEF StartAdd, Next, vars
  <2> QED
    BY <2>1, <1>a, TidyStep
<1>4. ASSUME NEW v \in Vf, Save(v) \/ DelFindsNothing(v) PROVE Tidy'
  BY <1>4, <1>a, TidyStep DEF Save, DelFindsNothing
<1>5. ASSUME NEW v \in Vf, AddReturns(v) \/ ReturnsUndone(v) \/ StartDel(v) \/ DelFails(v)
      PROVE  Tidy'
  BY <1>5 DEF AddReturns, ReturnsUndone, StartDel, DelFails, DelEnds, kernel, Tidy
<1>6. ASSUME NEW v \in Vf, KillCmd(v) PROVE Tidy'
  BY <1>6, <1>a, TopologyAssumption DEF KillCmd, Dies, Release, Tidy, TypeOK, Critical
<1> QED
  BY <1>1, <1>2, <1>3, <1>4, <1>5, <1>6 DEF NodeNext, NodeStep, KernelStep

LEMMA BooksInit == NodeInit => Books
<1> SUFFICES ASSUME NodeInit PROVE Books
  OBVIOUS
<1> USE PodAssumption DEF NodeInit
<1>1. NodeTypeOK
  BY TypeInit DEF NodeTypeOK
<1>2. Allocated
  BY DEF Allocated
<1>3. Recorded
  BY DEF Recorded, RecordedAt, Init, AddCmd, DelCmd
<1>4. Tidy
  BY TopologyAssumption DEF Tidy, Init
<1> QED
  BY <1>1, <1>2, <1>3, <1>4 DEF Books

\* The books are in order at every step of the node, also where ADD undid
\* itself after it saved, or DEL reported success and did nothing or kept its
\* file.
THEOREM BooksInOrder == NodeSpec => []Books
<1>1. ASSUME Books, [NodeNext]_nodeVars PROVE Books'
  BY <1>1, NodeTypesStep, AllocatedStep, RecordedStep, NodeTidyStep DEF Books
<1> QED
  BY <1>1, BooksInit, PTL DEF NodeSpec

(***************************************************************************)
(* The refinement.                                                         *)
(***************************************************************************)
LEMMA ConfHere ==
  ASSUME Books, NEW v \in Vf
  PROVE  /\ cmd[v] # "none" => ConfOf[v] = conf[v]
         /\ pod[v] = NoPod => ConfOf[v] = NoConf
         /\ cmd[v] = "none" /\ pod[v] # NoPod => ConfOf[v] = cache[pod[v]]
  BY DEF Books, Recorded, RecordedAt, ConfOf

LEMMA ConfThere ==
  ASSUME Books, NEW v \in Vf, NodeStep(v)
  PROVE  /\ ConfOf' = [ConfOf EXCEPT ![v] = ConfOf'[v]]
         /\ ConfOf'[v] = ConfOf[v] => ConfOf' = ConfOf
<1>1. Only(v)
  BY OnlyOne DEF Books
<1>2. ASSUME NEW w \in Vf \ {v} PROVE ConfOf'[w] = ConfOf[w]
  BY <1>1 DEF Only, ConfOf
<1>3. ConfOf = [w \in Vf |-> ConfOf[w]] /\ ConfOf' = [w \in Vf |-> ConfOf'[w]]
  BY DEF ConfOf
<1> QED
  BY <1>2, <1>3

\* A step of UplinkVlans that keeps the configurations is one of the
\* refined UplinkVlans, if v's configuration is in memory.
LEMMA KeptSteps ==
  ASSUME NEW v \in Vf, ConfOf[v] = conf[v], ConfOf' = ConfOf,
         Step(v) \/ AttachFails(v) \/ DeleteFails(v) \/ Detach(v) \/ DetachFails(v),
         ~UndoMaster(v)
  PROVE  Uplinks!Next
<1> USE DEF Goto, Uplinks!Goto, Uplinks!Next, Uplinks!Step
<1>1. CASE DelDefaultVlan(v)
  BY <1>1 DEF DelDefaultVlan, Uplinks!DelDefaultVlan, WithoutVlan, Uplinks!WithoutVlan,
              DefaultVlan, Uplinks!DefaultVlan
<1>2. CASE SetPvid(v)
  BY <1>2 DEF SetPvid, Uplinks!SetPvid, WithPvid, Uplinks!WithPvid
<1>3. CASE UnlockAfterAdd(v) \/ UnlockAfterDel(v)
  BY <1>3 DEF UnlockAfterAdd, Uplinks!UnlockAfterAdd, UnlockAfterDel, Uplinks!UnlockAfterDel,
              Release, Uplinks!Release
<1>4. CASE GetsLock(v)
  BY <1>4 DEF GetsLock, Uplinks!GetsLock, LockForAdd, Uplinks!LockForAdd, LockForDel,
              Uplinks!LockForDel, Acquire, Uplinks!Acquire, Vlans, Uplinks!Vlans
<1>5. CASE ListPorts(v)
  BY <1>5 DEF ListPorts, Uplinks!ListPorts, OtherPorts, Uplinks!OtherPorts
<1>6. CASE FindUnused(v)
  BY <1>6 DEF FindUnused, Uplinks!FindUnused, Unused, Uplinks!Unused, VlansOn,
              Uplinks!VlansOn, Vlans, Uplinks!Vlans
<1>7. ASSUME NEW x \in Vlan, AddTrunkVlan(v, x) \/ AddUplinkVlan(v, x) \/ DelUplinkVlan(v, x)
      PROVE  Uplinks!Next
  BY <1>7 DEF AddTrunkVlan, Uplinks!AddTrunkVlan, AddUplinkVlan, Uplinks!AddUplinkVlan,
              DelUplinkVlan, Uplinks!DelUplinkVlan, WithTagged, Uplinks!WithTagged
<1>8. CASE AttachFails(v)
  BY <1>8 DEF AttachFails, Uplinks!AttachFails, AttachCall, Uplinks!AttachCall,
              Release, Uplinks!Release
<1>9. CASE DeleteFails(v)
  BY <1>9 DEF DeleteFails, Uplinks!DeleteFails, DeleteCall, Uplinks!DeleteCall,
              Release, Uplinks!Release
<1>10. CASE Detach(v) \/ DetachFails(v)
  BY <1>10 DEF Detach, Uplinks!Detach, DetachFails, Uplinks!DetachFails, NoPort, Uplinks!NoPort
<1> QED
  BY <1>1, <1>2, <1>3, <1>4, <1>5, <1>6, <1>7, <1>8, <1>9, <1>10 DEF Step

LEMMA MappedAdd ==
  ASSUME Books, NEW v \in Vf, NodeStep(v),
         \/ \E p \in Pod, c \in Config : StartAdd(v, p, c)
         \/ Attach(v) \/ AttachAborts(v) \/ AddFails(v) \/ Save(v) \/ AddReturns(v)
         \/ RollBack(v) \/ RolledBack(v) \/ UndoSaved(v) \/ ReturnsUndone(v)
  PROVE  [Uplinks!Next]_(Uplinks!vars)
<1> USE PodAssumption DEF NodeTypeOK, TypeOK, Turn, Becomes, Uplinks!vars, Uplinks!Goto, Goto
<1>a. NodeTypeOK /\ RecordedAt(v)
  BY DEF Books, Recorded
<1>1. ASSUME NEW p \in Pod, NEW c \in Config, StartAdd(v, p, c)
      PROVE  [Uplinks!Next]_(Uplinks!vars)
  <2>1. cmd[v] = "none" /\ ConfOf[v] = NoConf /\ cache[p] = NoConf
    BY <1>1, <1>a, ConfHere DEF StartAdd, Books, Allocated, RecordedAt
  <2>2. CASE SetMaster(v, c) /\ Turn(v, "none", "add")
    <3>1. ConfOf'[v] = c
      BY <1>a, <2>2 DEF SetMaster, ConfOf
    <3>2. Uplinks!SetMaster(v, c)
      BY <1>a, <2>2, <3>1, ConfThere
      DEF SetMaster, Uplinks!SetMaster, RemovesDefault, Uplinks!RemovesDefault, Enslaved,
          Uplinks!Enslaved, DefaultVlan, Uplinks!DefaultVlan
    <3> QED
      BY <3>2 DEF Uplinks!Next
  <2>3. CASE UNCHANGED <<vars, cmd>>
    <3>1. ConfOf'[v] = NoConf
      BY <1>1, <1>a, <2>1, <2>3 DEF StartAdd, ConfOf
    <3> QED
      BY <2>1, <2>3, <3>1, ConfThere DEF vars
  <2> QED
    BY <1>1, <2>2, <2>3 DEF StartAdd
<1>2. CASE Attach(v) \/ AttachAborts(v)
  <2>1. cmd[v] = "add" /\ cmd' = cmd /\ pod' = pod /\ cache' = cache /\ conf' = conf
    BY <1>2 DEF Attach, AttachAborts, book, DelDefaultVlan, SetPvid, LockForAdd,
                UnlockAfterAdd, AddTrunkVlan, AddUplinkVlan, AttachFails
  <2>2. ConfOf[v] = conf[v] /\ ConfOf' = ConfOf
    BY <2>1, ConfHere DEF ConfOf
  <2>3. Step(v) \/ AttachFails(v)
    BY <1>2 DEF Attach, AttachAborts, Step, GetsLock
  <2>4. ~UndoMaster(v)
    BY <1>2, <1>a DEF Attach, AttachAborts, UndoMaster, DelDefaultVlan, SetPvid, LockForAdd,
                UnlockAfterAdd, AddTrunkVlan, AddUplinkVlan, AttachFails, AttachCall
  <2> QED
    BY <2>2, <2>3, <2>4, KeptSteps
<1>3. CASE AddFails(v)
  <2>1. ConfOf[v] = conf[v] /\ ConfOf'[v] = NoConf
    BY <1>3, <1>a, ConfHere DEF AddFails, RecordedAt, ConfOf
  <2>2. Uplinks!UndoMaster(v)
    BY <1>3, <2>1, ConfThere DEF AddFails, UndoMaster, Uplinks!UndoMaster, NoConf,
                                 Uplinks!NoConf, NoPort, Uplinks!NoPort
  <2> QED
    BY <2>2 DEF Uplinks!Next, Uplinks!Step
<1>4. CASE Save(v)
  <2>1. ConfOf[v] = conf[v] /\ ConfOf'[v] = conf[v]
    BY <1>4, <1>a, ConfHere DEF Save, ConfOf, vars
  <2> QED
    BY <1>4, <2>1, ConfThere DEF Save, vars
<1>5. CASE AddReturns(v)
  <2>1. ConfOf[v] = conf[v] /\ ConfOf'[v] = conf[v]
    BY <1>5, <1>a, ConfHere DEF AddReturns, RecordedAt, AddCmd, DelCmd, ConfOf
  <2> QED
    BY <1>5, <2>1, ConfThere DEF AddReturns, kernel
<1>6. CASE RollBack(v)
  <2>1. ConfOf[v] = conf[v] /\ ConfOf'[v] = conf[v] /\ pc[v] # "undo"
    BY <1>6, <1>a, ConfHere DEF RollBack, Detach, DetachFails, ConfOf
  <2> QED
    BY <1>6, <2>1, ConfThere, KeptSteps DEF RollBack, UndoMaster
<1>7. CASE RolledBack(v)
  <2>1. ConfOf[v] = conf[v] /\ ConfOf'[v] = NoConf
    BY <1>7, <1>a, ConfHere DEF RolledBack, RecordedAt, ConfOf
  <2>2. Uplinks!Forget(v)
    BY <1>7, <2>1, ConfThere DEF RolledBack, Forget, Uplinks!Forget, NoConf, Uplinks!NoConf
  <2> QED
    BY <2>2 DEF Uplinks!Next
<1>8. CASE UndoSaved(v)
  <2>1. ConfOf[v] = conf[v] /\ ConfOf'[v] = conf[v] /\ pc[v] # "undo"
    BY <1>8, <1>a, ConfHere DEF UndoSaved, Detach, DetachFails, ConfOf
  <2> QED
    BY <1>8, <2>1, ConfThere, KeptSteps DEF UndoSaved, UndoMaster
<1>9. CASE ReturnsUndone(v)
  <2>1. ConfOf[v] = conf[v] /\ ConfOf'[v] = conf[v]
    BY <1>9, <1>a, ConfHere DEF ReturnsUndone, RecordedAt, AddCmd, DelCmd, ConfOf
  <2> QED
    BY <1>9, <2>1, ConfThere DEF ReturnsUndone, kernel
<1> QED
  BY <1>1, <1>2, <1>3, <1>4, <1>5, <1>6, <1>7, <1>8, <1>9

LEMMA MappedDel ==
  ASSUME Books, NEW v \in Vf, NodeStep(v),
         \/ StartDel(v) \/ DelFindsNothing(v) \/ DelSkips(v) \/ DelDetaches(v)
         \/ RemoveVlans(v) \/ RemovalFails(v)
         \/ DelSucceeds(v) \/ DelFails(v)
  PROVE  [Uplinks!Next]_(Uplinks!vars)
<1> USE PodAssumption DEF NodeTypeOK, TypeOK, Turn, Becomes, Uplinks!vars, Uplinks!Goto, Goto
<1>a. NodeTypeOK /\ RecordedAt(v)
  BY DEF Books, Recorded
<1>1. CASE StartDel(v)
  <2>1. ConfOf[v] = cache[pod[v]] /\ ConfOf'[v] = cache[pod[v]]
    BY <1>1, <1>a, ConfHere DEF StartDel, ConfOf
  <2> QED
    BY <1>1, <2>1, ConfThere DEF StartDel, kernel
<1>2. CASE DelFindsNothing(v)
  <2>1. ConfOf[v] = NoConf /\ ConfOf'[v] = NoConf
    BY <1>2, <1>a, ConfHere DEF DelFindsNothing, Frees, ConfOf, vars
  <2> QED
    BY <1>2, <2>1, ConfThere DEF DelFindsNothing, vars
<1>3. CASE DelDetaches(v)
  <2>1. ConfOf[v] = conf[v] /\ ConfOf'[v] = conf[v] /\ pc[v] # "undo"
    BY <1>3, <1>a, ConfHere DEF DelDetaches, Detach, DetachFails, vars, ConfOf
  <2> QED
    BY <1>3, <2>1, ConfThere, KeptSteps DEF DelDetaches, UndoMaster, vars
<1>4. CASE RemoveVlans(v) \/ RemovalFails(v)
  <2>1. /\ cmd[v] # "none" /\ cmd' = cmd /\ pod' = pod /\ cache' = cache /\ conf' = conf
        /\ pc[v] # "undo"
    BY <1>4, <1>a DEF RemoveVlans, RemovalFails, book, LockForDel, ListPorts, FindUnused,
                UnlockAfterDel, DelUplinkVlan, DeleteFails, RecordedAt, DelPc
  <2>2. ConfOf[v] = conf[v] /\ ConfOf' = ConfOf
    BY <2>1, ConfHere DEF ConfOf
  <2>3. Step(v) \/ DeleteFails(v)
    BY <1>4 DEF RemoveVlans, RemovalFails, Step, GetsLock
  <2> QED
    BY <2>1, <2>2, <2>3, KeptSteps DEF UndoMaster
<1>5. CASE DelSucceeds(v)
  <2>1. ConfOf[v] = conf[v] /\ ConfOf'[v] = NoConf
    BY <1>5, <1>a, ConfHere DEF DelSucceeds, Frees, ConfOf
  <2>2. Uplinks!Forget(v)
    BY <1>5, <2>1, ConfThere DEF DelSucceeds, Forget, Uplinks!Forget, NoConf,
                                 Uplinks!NoConf
  <2> QED
    BY <2>2 DEF Uplinks!Next
<1>6. CASE DelFails(v)
  <2>1. ConfOf[v] = conf[v] /\ ConfOf'[v] = conf[v]
    BY <1>6, <1>a, ConfHere DEF DelFails, DelEnds, RecordedAt, DelCmd, ConfOf
  <2> QED
    BY <1>6, <2>1, ConfThere DEF DelFails, DelEnds, kernel
<1>7. CASE DelSkips(v)
  <2>1. ConfOf'[v] = NoConf
    BY <1>7, <1>a DEF DelSkips, Frees, ConfOf
  <2>2. Uplinks!Abandon(v) \/ Uplinks!Forget(v)
    BY <1>7, <2>1, ConfThere DEF DelSkips, Abandon, Uplinks!Abandon, DelMaySkip,
                Uplinks!DelMaySkip, Forget, Uplinks!Forget, NoConf, Uplinks!NoConf
  <2> QED
    BY <2>2 DEF Uplinks!Next
<1> QED
  BY <1>1, <1>2, <1>3, <1>4, <1>5, <1>6, <1>7

LEMMA MappedKill ==
  ASSUME Books, NEW v \in Vf, NodeStep(v), KillCmd(v)
  PROVE  [Uplinks!Next]_(Uplinks!vars)
<1> USE PodAssumption DEF NodeTypeOK, TypeOK, Uplinks!vars, KillCmd, Dies
<1>a. NodeTypeOK /\ RecordedAt(v) /\ Tidy
  BY DEF Books, Recorded
<1>b. ConfOf[v] = conf[v] /\ pod[v] # NoPod
  BY <1>a, ConfHere DEF RecordedAt
<1>1. CASE cmd[v] \in {"add", "undo"}
  <2>1. ConfOf'[v] = NoConf /\ pc' = [pc EXCEPT ![v] = "idle"]
    BY <1>a, <1>b, <1>1 DEF RecordedAt, ConfOf
  <2>2. CASE pc[v] = "detached"
    <3>1. todo' = todo /\ brif' = brif /\ lock' = lock
      BY <1>a, <2>2 DEF Tidy, Release, Critical
    <3>2. Uplinks!Forget(v)
      BY <2>1, <2>2, <3>1, ConfThere DEF Uplinks!Forget, Uplinks!Goto, NoConf, Uplinks!NoConf
    <3> QED
      BY <3>2 DEF Uplinks!Next
  <2>3. CASE pc[v] # "detached"
    <3>1. pc[v] # "idle"
      BY <1>a, <1>1, <2>3 DEF RecordedAt, AddPc, DelPc
    <3>2. Uplinks!Kill(v)
      BY <2>1, <2>3, <3>1, ConfThere DEF Uplinks!Kill, NoConf, Uplinks!NoConf, Release,
                                         Uplinks!Release
    <3> QED
      BY <3>2 DEF Uplinks!Next
  <2> QED
    BY <2>2, <2>3
<1>2. CASE cmd[v] \notin {"add", "undo"}
  <2>1. ConfOf' = ConfOf
    <3>1. ConfOf'[v] = cache[pod[v]]
      BY <1>a, <1>b DEF ConfOf
    <3>2. cmd[v] \in DelCmd \cup {"saved", "undoSaved"}
      BY <1>a, <1>2 DEF AddCmd, DelCmd
    <3> QED
      BY <1>a, <1>b, <3>1, <3>2, ConfThere DEF RecordedAt
  <2>2. CASE pc[v] \in DelPc
    <3>1. Uplinks!Kill(v)
      BY <1>2, <2>1, <2>2 DEF Uplinks!Kill, DelPc, Uplinks!DelPc, Release, Uplinks!Release
    <3> QED
      BY <3>1 DEF Uplinks!Next
  <2>3. CASE pc[v] \notin DelPc
    <3>1. pc[v] \in {"attached", "detached"}
      BY <1>a, <1>2, <2>3 DEF RecordedAt, AddCmd, DelCmd
    <3>2. todo' = todo /\ brif' = brif /\ lock' = lock
      BY <1>a, <3>1 DEF Tidy, Release, Critical
    <3>3. pc' = pc
      BY <1>a, <1>2, <2>3
    <3> QED
      BY <2>1, <3>2, <3>3
  <2> QED
    BY <2>2, <2>3
<1> QED
  BY <1>1, <1>2

\* The node implements UplinkVlans: every step of a command is a step of
\* AttachRepresentor or DetachRepresentor there, or changes nothing of it.
THEOREM NodeRefines == NodeSpec => UplinkVlansSpec
<1>1. NodeInit => Uplinks!Init
  BY PodAssumption DEF NodeInit, Init, Uplinks!Init, ConfOf, NoConf, Uplinks!NoConf, NoPort,
                       Uplinks!NoPort
<1>2. ASSUME Books, [NodeNext]_nodeVars PROVE [Uplinks!Next]_(Uplinks!vars)
  <2>1. CASE UNCHANGED nodeVars
    BY <2>1 DEF nodeVars, vars, book, Uplinks!vars, ConfOf
  <2>2. ASSUME NEW v \in Vf, NodeStep(v) PROVE [Uplinks!Next]_(Uplinks!vars)
    <3>1. CASE \/ \E p \in Pod, c \in Config : StartAdd(v, p, c)
               \/ Attach(v) \/ AttachAborts(v) \/ AddFails(v) \/ Save(v) \/ AddReturns(v)
               \/ RollBack(v) \/ RolledBack(v) \/ UndoSaved(v) \/ ReturnsUndone(v)
      BY <1>2, <2>2, <3>1, MappedAdd
    <3>2. CASE \/ StartDel(v) \/ DelFindsNothing(v) \/ DelSkips(v) \/ DelDetaches(v)
               \/ RemoveVlans(v) \/ RemovalFails(v) \/ DelSucceeds(v) \/ DelFails(v)
      BY <1>2, <2>2, <3>2, MappedDel
    <3>3. CASE KillCmd(v)
      BY <1>2, <2>2, <3>3, MappedKill
    <3> QED
      BY <2>2, <3>1, <3>2, <3>3 DEF NodeStep
  <2> QED
    BY <1>2, <2>1, <2>2 DEF NodeNext
<1> QED
  BY <1>1, <1>2, BooksInOrder, PTL DEF NodeSpec, UplinkVlansSpec, Uplinks!Spec

(***************************************************************************)
(* What is proved of UplinkVlans holds of the node.                        *)
(***************************************************************************)
Mapped == INSTANCE UplinkVlansProofs WITH conf <- ConfOf

LEMMA SameNext == [Uplinks!Next]_(Uplinks!vars) => [Mapped!Next]_(Mapped!vars)
  BY DEF Mapped!SetMaster, Uplinks!SetMaster, Mapped!DelDefaultVlan,
         Uplinks!DelDefaultVlan, Mapped!AddTrunkVlan, Uplinks!AddTrunkVlan,
         Mapped!SetPvid, Uplinks!SetPvid, Mapped!LockForAdd, Uplinks!LockForAdd,
         Mapped!AddUplinkVlan, Uplinks!AddUplinkVlan, Mapped!UnlockAfterAdd,
         Uplinks!UnlockAfterAdd, Mapped!AttachCall, Uplinks!AttachCall,
         Mapped!AttachFails, Uplinks!AttachFails, Mapped!UndoMaster, Uplinks!UndoMaster,
         Mapped!Detach, Uplinks!Detach, Mapped!DetachFails, Uplinks!DetachFails,
         Mapped!LockForDel, Uplinks!LockForDel, Mapped!OtherPorts, Uplinks!OtherPorts,
         Mapped!ListPorts, Uplinks!ListPorts, Mapped!VlansOn, Uplinks!VlansOn,
         Mapped!Unused, Uplinks!Unused, Mapped!FindUnused, Uplinks!FindUnused,
         Mapped!DelUplinkVlan, Uplinks!DelUplinkVlan, Mapped!UnlockAfterDel,
         Uplinks!UnlockAfterDel, Mapped!DeleteCall, Uplinks!DeleteCall,
         Mapped!DeleteFails, Uplinks!DeleteFails, Mapped!Forget, Uplinks!Forget,
         Mapped!Abandon, Uplinks!Abandon, Mapped!DelMaySkip, Uplinks!DelMaySkip,
         Mapped!Kill, Uplinks!Kill, Mapped!GetsLock, Uplinks!GetsLock, Mapped!Step,
         Uplinks!Step, Mapped!Next, Uplinks!Next, Mapped!vars, Uplinks!vars,
         Mapped!Enslaved, Uplinks!Enslaved, Mapped!WithoutVlan, Uplinks!WithoutVlan,
         Mapped!WithTagged, Uplinks!WithTagged, Mapped!WithPvid, Uplinks!WithPvid,
         Mapped!Goto, Uplinks!Goto, Mapped!Acquire, Uplinks!Acquire, Mapped!Release,
         Uplinks!Release, Mapped!RemovesDefault, Uplinks!RemovesDefault, Mapped!Vlans,
         Uplinks!Vlans, Mapped!NoConf, Uplinks!NoConf, Mapped!NoPort, Uplinks!NoPort,
         Mapped!DefaultVlan, Uplinks!DefaultVlan, Mapped!AddPc, Uplinks!AddPc,
         Mapped!DelPc, Uplinks!DelPc, Mapped!Critical, Uplinks!Critical

LEMMA SameInit == Uplinks!Init => Mapped!Init
  BY DEF Mapped!Init, Uplinks!Init, Mapped!NoConf, Uplinks!NoConf, Mapped!NoPort, Uplinks!NoPort

LEMMA NodeCovered ==
  ASSUME "BridgeVlanList" \notin FaultyCalls
  PROVE  NodeSpec => []Mapped!IInv
<1>1. Mapped!Spec => []Mapped!IInv
  BY Mapped!Inductive, VlanAssumption, TopologyAssumption, ConfigAssumption, FaultAssumption
  DEF Mapped!Conf, Conf, Mapped!DefaultVlan, DefaultVlan
<1> QED
  BY <1>1, NodeRefines, SameInit, SameNext, PTL
  DEF UplinkVlansSpec, Uplinks!Spec, Mapped!Spec

\* Every variable of the node and of the kernel keeps its type.
THEOREM NodeTypes == NodeSpec => []NodeTypeOK
<1>1. Books => NodeTypeOK
  BY DEF Books
<1> QED
  BY <1>1, BooksInOrder, PTL

\* Whatever the commands of other pods do, fail at or are killed in: a pod
\* stays on its bridge and uplink to its own DEL, if its ADD reported success
\* and did not disconnect it itself, because of updateDeviceInfo.
THEOREM StaysConnected ==
  ASSUME "BridgeVlanList" \notin FaultyCalls
  PROVE  NodeSpec => []PodConnected
<1>1. ASSUME Books, Mapped!IInv, NEW v \in Vf, pod[v] # NoPod, stage[pod[v]] = "up"
      PROVE  LET c == cache[pod[v]]
             IN  /\ c # NoConf
                 /\ port[v].master = c.bridge /\ Vlans(c) \subseteq port[v].vlans
                 /\ c.setUplinkVlan /\ c.bridge = BridgeOf[UplinkOf[v]] =>
                      Vlans(c) \subseteq uplinkVlans[UplinkOf[v]]
  <2>1. cmd[v] = "none" /\ pc[v] = "attached" /\ cache[pod[v]] # NoConf
    BY <1>1 DEF Books, Recorded, RecordedAt
  <2>2. ConfOf[v] = cache[pod[v]]
    BY <1>1, <2>1, ConfHere
  <2>3. \A c : Mapped!Vlans(c) = Vlans(c)
    BY DEF Mapped!Vlans, Vlans
  <2>4. port[v].master = ConfOf[v].bridge /\ Vlans(ConfOf[v]) \subseteq port[v].vlans
    BY <1>1, <2>1, <2>3 DEF Mapped!IInv, Mapped!PortFills
  <2>5. ConfOf[v].setUplinkVlan /\ ConfOf[v].bridge = BridgeOf[UplinkOf[v]] =>
          Vlans(ConfOf[v]) \subseteq uplinkVlans[UplinkOf[v]]
    BY <1>1, <2>1, <2>3 DEF Mapped!IInv, Mapped!UplinkCovers, Mapped!Member
  <2> QED
    BY <2>1, <2>2, <2>4, <2>5
<1>2. Books /\ Mapped!IInv => PodConnected
  BY <1>1 DEF PodConnected
<1> QED
  BY <1>2, BooksInOrder, NodeCovered, PTL

\* A pod that is up has on its port the VLANs and the native VLAN of its
\* configuration and no others, whichever pods had the VF before it.
PodPortExact ==
  \A v \in Vf : pod[v] # NoPod /\ stage[pod[v]] = "up" => port[v] = PortOf(cache[pod[v]])

\* As long as a representor can always be taken off its bridge, every DEL gets
\* at its file and has a path, and no command is killed, that is so, whatever
\* else fails in ADD and DEL.
THEOREM PodPortsExact ==
  ASSUME "LinkSetNoMaster" \notin FaultyCalls, ~DelMaySkip, ~MayKill
  PROVE  NodeSpec => []PodPortExact
<1>1. Mapped!Spec => []Mapped!PortExact
  BY Mapped!ExactPorts, VlanAssumption, TopologyAssumption, ConfigAssumption, FaultAssumption
  DEF Mapped!DelMaySkip, DelMaySkip, Mapped!Conf, Conf, Mapped!DefaultVlan, DefaultVlan
<1>2. Books /\ Mapped!PortExact => PodPortExact
  <2> SUFFICES ASSUME Books, Mapped!PortExact, NEW v \in Vf, pod[v] # NoPod,
                      stage[pod[v]] = "up"
               PROVE  port[v] = PortOf(cache[pod[v]])
    BY DEF PodPortExact
  <2>1. cmd[v] = "none" /\ pc[v] = "attached"
    BY DEF Books, Recorded, RecordedAt
  <2>2. ConfOf[v] = cache[pod[v]]
    BY <2>1, ConfHere
  <2> QED
    BY <2>1, <2>2 DEF Mapped!PortExact, Mapped!PortOf, PortOf, Mapped!Vlans, Vlans,
                      Mapped!DefaultVlan, DefaultVlan
<1> QED
  BY <1>1, <1>2, BooksInOrder, NodeRefines, SameInit, SameNext, PTL
  DEF UplinkVlansSpec, Uplinks!Spec, Mapped!Spec

\* The commands of the node render the service of UplinkService: a VLAN is
\* withdrawn from an uplink only while no attached VF of it needs it.
THEOREM NodeServes ==
  ASSUME "BridgeVlanList" \notin FaultyCalls
  PROVE  NodeSpec => Mapped!ServiceSpec
<1>1. Mapped!Spec => Mapped!ServiceSpec
  BY Mapped!Implements, VlanAssumption, TopologyAssumption, ConfigAssumption, FaultAssumption
  DEF Mapped!Conf, Conf, Mapped!DefaultVlan, DefaultVlan
<1> QED
  BY <1>1, NodeRefines, SameInit, SameNext, PTL
  DEF UplinkVlansSpec, Uplinks!Spec, Mapped!Spec
=============================================================================
