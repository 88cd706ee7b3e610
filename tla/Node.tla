--------------------------------- MODULE Node ---------------------------------
(***************************************************************************)
(* The commands of a whole node: CmdAdd and CmdDel of pkg/plugin/plugin.go *)
(* run side by side, one on each VF, on top of the attaching and detaching *)
(* of module UplinkVlans.  A command has its configuration in memory; what *)
(* survives it is the PluginConf in the cache, which ADD writes at its end *)
(* and DEL reads at its beginning.                                         *)
(*                                                                         *)
(* Between the two calls on the representor and the writing of the cache   *)
(* lie the calls that module CniPlugin has one by one; here they succeed   *)
(* or fail as a whole.  External: the runtime, which gives a VF to one pod *)
(* at a time, answers a failed ADD with DEL, and repeats a failed DEL, but *)
(* not one that reported success (CniPlugin has those), even where the DEL *)
(* did nothing.                                                            *)
(***************************************************************************)
EXTENDS UplinkVlans

CONSTANTS Pod, NoPod

ASSUME PodAssumption == NoPod \notin Pod

VARIABLES
  cmd,    \* cmd[v]: the command that runs on v, and how far it is
  pod,    \* pod[v]: the pod v is allocated to
  stage,  \* stage[p]: how far the runtime is with p
  cache,  \* cache[p]: the PluginConf file of p; NoConf for none, or a torn one
  grave   \* history: has anything happened after which VLANs may be left?

kernel == <<port, uplinkVlans, lock, todo, brif>>
book == <<cmd, pod, stage, cache, grave>>
nodeVars == <<vars, book>>

AddCmd == {"add", "undo", "saved", "undoSaved"}
DelCmd == {"load", "del"}

NodeInit ==
  /\ Init
  /\ cmd = [v \in Vf |-> "none"]
  /\ pod = [v \in Vf |-> NoPod]
  /\ stage = [p \in Pod |-> "new"]
  /\ cache = [p \in Pod |-> NoConf]
  /\ grave = FALSE

Turn(v, from, to) == cmd[v] = from /\ cmd' = [cmd EXCEPT ![v] = to]
Becomes(p, s) == stage' = [stage EXCEPT ![p] = s]

\* A failure or kill that leaves VLANs on the uplink ...
Alarm(v) == grave' = (grave \/ conf[v].setUplinkVlan)
\* ... or a VF that keeps others from removing VLANs and removes none itself.
Keeps(c) == ~c.setUplinkVlan /\ Vlans(c) # {}

(***************************************************************************)
(* CmdAdd.                                                                 *)
(***************************************************************************)
\* ADD up to LinkSetMaster; an error until then changes nothing.
StartAdd(v, p, c) ==
  /\ pod[v] = NoPod /\ stage[p] = "new"
  /\ pod' = [pod EXCEPT ![v] = p]
  /\ \/ /\ SetMaster(v, c) /\ Turn(v, "none", "add") /\ Becomes(p, "adding")
        /\ grave' = (grave \/ Keeps(c))
     \/ Becomes(p, "failed") /\ UNCHANGED <<vars, cmd, grave>>
  /\ UNCHANGED cache

Attach(v) ==
  /\ cmd[v] = "add"
  /\ \/ DelDefaultVlan(v) \/ SetPvid(v) \/ LockForAdd(v) \/ UnlockAfterAdd(v)
     \/ \E x \in Vlan : AddTrunkVlan(v, x) \/ AddUplinkVlan(v, x)
  /\ UNCHANGED book

\* AttachRepresentor fails; nothing takes VLANs off the uplink again.
AttachAborts(v) ==
  /\ cmd[v] = "add"
  /\ AttachFails(v) /\ Alarm(v)
  /\ UNCHANGED <<cmd, pod, stage, cache>>

AddFails(v) ==
  /\ Turn(v, "add", "none")
  /\ UndoMaster(v)
  /\ Becomes(pod[v], "failed")
  /\ UNCHANGED <<pod, cache, grave>>

\* All that follows in ADD succeeds, up to the cache ...
Save(v) ==
  /\ pc[v] = "attached" /\ Turn(v, "add", "saved")
  /\ cache' = [cache EXCEPT ![pod[v]] = conf[v]]
  /\ UNCHANGED <<vars, pod, stage, grave>>

\* ... and ADD returns; or it fails after that, with no error handler run.
AddReturns(v) ==
  /\ Turn(v, "saved", "none")
  /\ conf' = [conf EXCEPT ![v] = NoConf]
  /\ Becomes(pod[v], "up") \/ Becomes(pod[v], "failed")
  /\ UNCHANGED <<kernel, pc, pod, cache, grave>>

\* A call after AttachRepresentor fails: its error handler detaches.
RollBack(v) ==
  /\ Turn(v, "add", "undo")
  /\ \/ Detach(v) /\ UNCHANGED grave
     \/ DetachFails(v) /\ Alarm(v)
  /\ UNCHANGED <<pod, stage, cache>>

\* updateDeviceInfo fails, which is not critical and leaves err set
\* (plugin.go:148): the error handlers run, although ADD succeeds.
UndoSaved(v) ==
  /\ "DeviceInfo" \in FaultyCalls
  /\ Turn(v, "saved", "undoSaved")
  /\ Detach(v) \/ DetachFails(v)
  /\ UNCHANGED <<pod, stage, cache, grave>>

\* The file stays, and so a DEL can make good what they failed at.
ReturnsUndone(v) ==
  /\ pc[v] = "detached" /\ Turn(v, "undoSaved", "none")
  /\ conf' = [conf EXCEPT ![v] = NoConf]
  /\ Becomes(pod[v], "undone") \/ Becomes(pod[v], "failed")
  /\ UNCHANGED <<kernel, pc, pod, cache, grave>>

RolledBack(v) ==
  /\ Turn(v, "undo", "none")
  /\ Forget(v)
  /\ Becomes(pod[v], "failed")
  /\ UNCHANGED <<pod, cache, grave>>

(***************************************************************************)
(* CmdDel.                                                                 *)
(***************************************************************************)
Deletable == {"up", "undone", "failed", "leaving"}

StartDel(v) ==
  /\ Turn(v, "none", "load")
  /\ pod[v] # NoPod /\ stage[pod[v]] \in Deletable /\ cache[pod[v]] # NoConf
  /\ conf' = [conf EXCEPT ![v] = cache[pod[v]]]
  /\ Becomes(pod[v], "leaving")
  /\ UNCHANGED <<kernel, pc, pod, cache, grave>>

\* The runtime takes it that the pod is gone and frees the VF.
Frees(v) == Becomes(pod[v], "done") /\ pod' = [pod EXCEPT ![v] = NoPod]

\* DEL finds no file and reports success.
DelFindsNothing(v) ==
  /\ cmd[v] = "none"
  /\ pod[v] # NoPod /\ stage[pod[v]] \in Deletable /\ cache[pod[v]] = NoConf
  /\ Frees(v)
  /\ UNCHANGED <<vars, cmd, cache, grave>>

\* DEL does not get at the file, or is given no path, and reports success.
DelSkips(v) ==
  /\ DelMaySkip /\ cmd[v] = "none"
  /\ pod[v] # NoPod /\ stage[pod[v]] \in Deletable /\ cache[pod[v]] # NoConf
  /\ Abandon(v) \/ Forget(v)
  /\ Frees(v)
  /\ grave' = (grave \/ cache[pod[v]].setUplinkVlan)
  /\ UNCHANGED <<cmd, cache>>

\* DEL goes on whatever DetachRepresentor returns.
DelDetaches(v) ==
  /\ Turn(v, "load", "del")
  /\ \/ Detach(v) /\ UNCHANGED grave
     \/ DetachFails(v) /\ Alarm(v)
     \/ /\ pc[v] = "detached" /\ "LinkSetNoMaster" \in FaultyCalls
        /\ UNCHANGED vars /\ Alarm(v)
  /\ UNCHANGED <<pod, stage, cache>>

RemoveVlans(v) ==
  /\ cmd[v] \in {"undo", "undoSaved", "del"}
  /\ \/ LockForDel(v) \/ ListPorts(v) \/ FindUnused(v) \/ UnlockAfterDel(v)
     \/ \E x \in Vlan : DelUplinkVlan(v, x)
  /\ UNCHANGED book

RemovalFails(v) ==
  /\ cmd[v] \in {"undo", "undoSaved", "del"}
  /\ DeleteFails(v)
  /\ IF cmd[v] = "undoSaved" THEN UNCHANGED grave ELSE Alarm(v)
  /\ UNCHANGED <<cmd, pod, stage, cache>>

\* The rest of DEL succeeds, and the file goes, unless Delete fails or err is
\* still set because the network namespace is gone (plugin.go:365-375) ...
DelSucceeds(v) ==
  /\ Turn(v, "del", "none")
  /\ Forget(v)
  /\ Frees(v)
  /\ cache' = [cache EXCEPT ![pod[v]] = NoConf] \/ UNCHANGED cache
  /\ UNCHANGED grave

\* ... or fails, and the file is kept for the next DEL.
DelEnds(v) ==
  /\ pc[v] = "detached" /\ Turn(v, "del", "none")
  /\ conf' = [conf EXCEPT ![v] = NoConf]
  /\ UNCHANGED <<kernel, pc, pod, stage, grave>>
DelFailsClean(v) ==  \* mutant: the file goes all the same
  DelEnds(v) /\ cache' = [cache EXCEPT ![pod[v]] = NoConf]
DelFails(v) == DelEnds(v) /\ UNCHANGED cache

(***************************************************************************)
(* A killed process takes its memory with it, and its lock goes free.      *)
(***************************************************************************)
Dies(v) ==
  /\ MayKill /\ cmd[v] # "none"
  /\ cmd' = [cmd EXCEPT ![v] = "none"]
  /\ conf' = [conf EXCEPT ![v] = NoConf]
  /\ pc' = [pc EXCEPT ![v] = IF cmd[v] \in {"add", "undo"} THEN "idle"
                             ELSE IF @ \in DelPc THEN "detached" ELSE @]
  /\ todo' = [todo EXCEPT ![v] = {}] /\ brif' = [brif EXCEPT ![v] = {}]
  /\ Becomes(pod[v], IF cmd[v] \in AddCmd THEN "failed" ELSE "leaving")
  /\ IF cmd[v] \in {"add", "undo"} THEN Alarm(v) ELSE UNCHANGED grave
  /\ UNCHANGED <<port, uplinkVlans, pod, cache>>
KillCmdLocked(v) == Dies(v) /\ UNCHANGED lock  \* mutant: the lock outlives it
KillCmd(v) == Dies(v) /\ Release(v)

NodeStep(v) ==
  \/ \E p \in Pod, c \in Config : StartAdd(v, p, c)
  \/ Attach(v) \/ AttachAborts(v) \/ AddFails(v) \/ Save(v) \/ AddReturns(v)
  \/ RollBack(v) \/ RolledBack(v) \/ UndoSaved(v) \/ ReturnsUndone(v)
  \/ StartDel(v) \/ DelFindsNothing(v) \/ DelSkips(v) \/ DelDetaches(v)
  \/ RemoveVlans(v) \/ RemovalFails(v)
  \/ DelSucceeds(v) \/ DelFails(v)
  \/ KillCmd(v)

NodeNext == \E v \in Vf : NodeStep(v)

NodeSpec == NodeInit /\ [][NodeNext]_nodeVars

(***************************************************************************)
(* Properties.                                                             *)
(***************************************************************************)
\* What a VF is configured with: in the memory of the command that runs on
\* it, or else in the cache.
ConfOf ==
  [v \in Vf |-> IF cmd[v] # "none" THEN conf[v]
                ELSE IF pod[v] # NoPod THEN cache[pod[v]] ELSE NoConf]

\* Types, of the kernel's state among them.
NodeTypeOK ==
  /\ TypeOK
  /\ cmd \in [Vf -> AddCmd \cup DelCmd \cup {"none"}]
  /\ pod \in [Vf -> Pod \cup {NoPod}]
  /\ stage \in [Pod -> {"new", "adding", "up", "undone", "failed", "leaving", "done"}]
  /\ cache \in [Pod -> Conf \cup {NoConf}]
  /\ grave \in BOOLEAN

\* A pod whose ADD reported success stays connected until its own DEL,
\* whatever the commands of other pods do, fail at or are killed in: its
\* port is on its bridge with its VLANs, and so is its uplink if it asked.
\* This is not so of a pod that is "undone": updateDeviceInfo failed, and ADD
\* disconnected it while reporting success (SuccessMeansAttached, CniPlugin).
PodConnected ==
  \A v \in Vf : pod[v] # NoPod /\ stage[pod[v]] = "up" =>
    LET c == cache[pod[v]]
    IN  /\ c # NoConf
        /\ port[v].master = c.bridge /\ Vlans(c) \subseteq port[v].vlans
        /\ c.setUplinkVlan /\ c.bridge = BridgeOf[UplinkOf[v]] =>
             Vlans(c) \subseteq uplinkVlans[UplinkOf[v]]

\* As long as no ADD was cut short, no removal failed or was skipped by a DEL
\* that reported success (plugin.go:308-311, 331-342), and every VF with VLANs
\* asked for them on its uplink, a VLAN stays on an uplink only while a VF of
\* that uplink is, or is being, configured with it, or while another uplink
\* of the bridge carries it (manager.go:472-479): a DEL that fails elsewhere,
\* or is killed, is made good by the next one.  This is for VFs of one PF on
\* a bridge (OneUplink in NodeCleanProofs).
UplinkClean ==
  ~grave => \A u \in Uplink : \A x \in uplinkVlans[u] \ AdminVlans[u] :
    \/ \E v \in Vf : UplinkOf[v] = u /\ x \in Vlans(ConfOf[v])
    \/ \E w \in Uplink \ {u} : BridgeOf[w] = BridgeOf[u] /\ x \in uplinkVlans[w]

\* The commands use AttachRepresentor and DetachRepresentor in the ways that
\* UplinkVlans admits, so that what is shown of it holds of the node: it
\* keeps a configuration where the node has it in memory or on disk.
Uplinks == INSTANCE UplinkVlans WITH conf <- ConfOf
UplinkVlansSpec == Uplinks!Spec

\* Why the commands do so.  A pod has one VF, and a new one none, nor a
\* file ...
Allocated ==
  /\ \A v, w \in Vf : pod[v] = pod[w] /\ pod[v] # NoPod => v = w
  /\ \A p \in Pod : stage[p] = "new" => cache[p] = NoConf /\ \A v \in Vf : pod[v] # p

\* ... a command in ADD has yet to write the file that one in DEL has read,
\* and with no command at work the file says what is left to undo ...
RecordedAt(v) ==
  LET s == stage[pod[v]]  c == cache[pod[v]]
  IN  /\ pod[v] = NoPod => cmd[v] = "none" /\ pc[v] = "idle"
      /\ pod[v] # NoPod /\ cmd[v] = "none" =>
           /\ s \in Deletable
           /\ c = NoConf => pc[v] = "idle"
           /\ c # NoConf => pc[v] \in {"attached", "detached"}
           /\ s = "up" => pc[v] = "attached"
      /\ cmd[v] \in {"add", "undo"} => c = NoConf
      /\ cmd[v] \in DelCmd \cup {"saved", "undoSaved"} => c = conf[v] /\ c # NoConf
      /\ cmd[v] = "add" => pc[v] \in AddPc \cup {"attached"} /\ conf[v] # NoConf
      /\ cmd[v] = "saved" => pc[v] = "attached"
      /\ cmd[v] \in {"undo", "undoSaved", "del"} => pc[v] \in DelPc \cup {"detached"}
      /\ cmd[v] = "load" => pc[v] \in {"attached", "detached"}
      /\ cmd[v] # "none" => s = IF cmd[v] \in AddCmd THEN "adding" ELSE "leaving"
Recorded == \A v \in Vf : RecordedAt(v)

\* ... and a process between two of its loops has nothing to forget.
Tidy ==
  \A v \in Vf :
    /\ pc[v] # "unused" => brif[v] = {}
    /\ pc[v] \notin {"defaultVlan", "trunk", "addUplink", "delUplink"} => todo[v] = {}
    /\ lock = v => pc[v] \in Critical

Books == NodeTypeOK /\ Allocated /\ Recorded /\ Tidy

\* Why UplinkClean holds: whoever has VLAN x has yet to look whether to take
\* it off, unless its removal is over, ...
Over(v) == cmd[v] \in {"undo", "del"} /\ pc[v] = "detached"
Owes(v, x) == x \in Vlans(ConfOf[v]) /\ ~Over(v)
Elsewhere(u, x) ==
  \E w \in Uplink \ {u} : BridgeOf[w] = BridgeOf[u] /\ x \in uplinkVlans[w]

\* ... a port shows the VLANs of an attachment that is not over, or VLAN 1,
\* and a removal spares on the uplink what someone else has yet to look at.
CleanAt(v) ==
  LET c == ConfOf[v]  u == UplinkOf[v]
  IN  /\ c.setUplinkVlan \/ Vlans(c) = {}
      /\ pc[v] = "undo" => Vlans(c) = {}
      /\ port[v].vlans \subseteq
           {DefaultVlan} \cup IF pc[v] \in DelPc \/ Over(v) THEN {} ELSE Vlans(c)
      /\ pc[v] \in {"defaultVlan", "trunk", "addUplink"} => todo[v] \subseteq Vlans(c)
      /\ pc[v] = "unused" =>
           brif[v] \subseteq Vf \cup {w \in Uplink \ {u} : BridgeOf[w] = BridgeOf[u]}
      /\ pc[v] = "delUplink" =>
           \A x \in (uplinkVlans[u] \ AdminVlans[u]) \cap (Vlans(c) \ todo[v]) :
             (\E w \in Vf \ {v} : Owes(w, x)) \/ Elsewhere(u, x)
Untouched ==
  \A u \in Uplink : (\A v \in Vf : UplinkOf[v] # u) => uplinkVlans[u] = AdminVlans[u]
Clean ==
  ~grave =>
    /\ \A v \in Vf : CleanAt(v)
    /\ \A u \in Uplink : \A x \in uplinkVlans[u] \ AdminVlans[u] :
         (\E v \in Vf : UplinkOf[v] = u /\ Owes(v, x)) \/ Elsewhere(u, x)
=============================================================================
