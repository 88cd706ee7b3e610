------------------------------ MODULE CniPlugin ------------------------------
(***************************************************************************)
(* CmdAdd and CmdDel of pkg/plugin/plugin.go with the manager and cache    *)
(* calls they make, for one VF that a node hands to one pod after another. *)
(* Every call out of the plugin (netlink, IPAM, file) is a step that may   *)
(* fail, and the process may be killed between any two of them.  The VLANs *)
(* of the port are one call here; module UplinkVlans takes it apart.       *)
(*                                                                         *)
(* External: the container runtime, which runs one command of a pod at a   *)
(* time, answers a failed ADD with DEL, repeats a failed DEL, and removes  *)
(* the network namespace afterwards; and the kernel, which returns the VF  *)
(* of a dying namespace to the host under the name it has there.           *)
(***************************************************************************)
EXTENDS Naturals, FiniteSets

CONSTANTS
  Pod,          \* the pods (sandboxes) the VF is given to
  Config,       \* the configurations a pod may come with
  FaultyCalls,  \* the calls that may fail, by label; "kill" is the process
  MaxFaults,    \* bound: how many failures and kills happen in all
  MayVanish,    \* may a namespace go away before its pod's DEL?
  EmptyNetns,   \* may DEL come without a namespace path once it is gone?
  RepeatDel,    \* may DEL come again after it succeeded?
  NoPod, NoEntry, Torn

Orig == "orig"    \* an attribute nobody has changed
Unset == "unset"  \* the zero value of a saved attribute
Host == "host"

\* What the commands depend on in a configuration.  A pod that configures a
\* MAC or an MTU configures one of its own, written as the pod itself.
Conf == [mac : BOOLEAN, mtu : BOOLEAN, ipam : BOOLEAN, devInfo : BOOLEAN,
         userspace : BOOLEAN]

Attr == Pod \cup {Orig}
Saved == [name : {"orig", "pod", "temp", Unset}, effMac : Attr \cup {Unset},
          mtu : Attr \cup {Unset}, adminMac : Attr \cup {Unset},
          repMtu : Attr \cup {Unset}]

ASSUME ConfigAssumption == Config \subseteq Conf
ASSUME PodAssumption ==
  /\ NoPod \notin Pod
  /\ Pod \cap {Orig, Unset, Host} = {}
ASSUME EntryAssumption == {NoEntry, Torn} \cap [conf : Conf, orig : Saved] = {} /\ NoEntry # Torn
ASSUME BoundAssumption == MaxFaults \in Nat

VARIABLES
  cmd,       \* the running command and its locals
  vf,        \* the VF's network device
  adminMac,  \* the MAC the PF administers for the VF
  rep,       \* its representor
  leases,    \* the pods with an address from IPAM
  cache,     \* cache[p]: the PluginConf file of p
  netns,     \* netns[p]: the namespace of p
  stage,     \* stage[p]: how far the runtime is with p
  owner,     \* the pod the VF is allocated to
  faults     \* failures so far; grave: has there been one DEL cannot undo?

stored == <<leases, cache>>
node == <<netns, stage, owner>>
vars == <<cmd, vf, adminMac, rep, leases, cache, netns, stage, owner, faults>>

NoSaved == [name |-> Unset, effMac |-> Unset, mtu |-> Unset,
            adminMac |-> Unset, repMtu |-> Unset]
NoConf == [mac |-> FALSE, mtu |-> FALSE, ipam |-> FALSE, devInfo |-> FALSE,
           userspace |-> FALSE]

\* pc: the call to be made next; orig: OrigVfState and OrigRepState; err: the
\* variable `err' the deferred functions look at; ok: what the command
\* returns; open: netNS is open; undo: the registered error handlers.
NoCmd == [op |-> "none", pod |-> NoPod, pc |-> "idle", conf |-> NoConf,
          orig |-> NoSaved, err |-> FALSE, ok |-> TRUE, open |-> FALSE, undo |-> {}]

\* The VF and its representor as no pod has them; their links are up or down.
HomeVf == [ns : {Host}, name : {"orig"}, mac : {Orig}, mtu : {Orig}, up : BOOLEAN]
HomeRep == [bridged : {FALSE}, mtu : {Orig}, up : BOOLEAN]

Init ==
  /\ cmd = NoCmd
  /\ vf \in HomeVf
  /\ adminMac = Orig
  /\ rep \in HomeRep
  /\ leases = {}
  /\ cache = [p \in Pod |-> NoEntry]
  /\ netns = [p \in Pod |-> "none"]
  /\ stage = [p \in Pod |-> "new"]
  /\ owner = NoPod
  /\ faults = [count |-> 0, grave |-> FALSE]

At(l) == cmd.pc = l
To(l) == cmd' = [cmd EXCEPT !.pc = l]

\* What a call leaves alone.
OnlyCmd == UNCHANGED <<vf, adminMac, rep, stored, node, faults>>
OnlyRep == UNCHANGED <<vf, adminMac, stored, node, faults>>
OnlyVf == UNCHANGED <<adminMac, rep, stored, node, faults>>

\* The calls of ADD before anything is changed, those after the cache was
\* written, and those a repeated DEL makes again: DEL undoes their failure.
Harmless == {"open", "repMtu", "print", "delIpam", "getns"}

Fault(l) ==
  /\ l \in FaultyCalls /\ faults.count < MaxFaults
  /\ faults' = [count |-> faults.count + 1, grave |-> faults.grave \/ l \notin Harmless]

\* Is the call at label l made at all under configuration c?
Made(l, c) ==
  /\ l \in {"repMtu", "vfMtu", "detMtu", "relMtu"} => c.mtu
  /\ l \in {"vfMac", "relMac"} => c.mac
  /\ l \in {"ipamAdd", "ipamConf", "delIpam"} => c.ipam
  /\ l = "devInfo" => c.devInfo

(***************************************************************************)
(* CmdAdd.                                                                 *)
(***************************************************************************)
\* ParseConf notes the VF's present name as the one to give back.
StartAdd(p, c) ==
  /\ cmd.op = "none" /\ stage[p] = "new" /\ owner = NoPod
  /\ cmd' = [NoCmd EXCEPT !.op = "ADD", !.pod = p, !.pc = "open", !.conf = c,
                          !.orig.name = vf.name]
  /\ netns' = [netns EXCEPT ![p] = "open"]
  /\ stage' = [stage EXCEPT ![p] = "adding"]
  /\ owner' = p
  /\ UNCHANGED <<vf, adminMac, rep, stored, faults>>

OpenNetns ==
  /\ At("open")
  /\ cmd' = [cmd EXCEPT !.pc = "repMtu", !.open = TRUE]
  /\ OnlyCmd

\* AttachRepresentor.
SetRepMtuUnsaved ==  \* mutant: the MTU to restore is never noted
  /\ At("repMtu") /\ To("repUp")
  /\ rep' = IF cmd.conf.mtu THEN [rep EXCEPT !.mtu = cmd.pod] ELSE rep
  /\ OnlyRep
SetRepMtu ==
  /\ At("repMtu")
  /\ IF cmd.conf.mtu
     THEN /\ cmd' = [cmd EXCEPT !.pc = "repUp", !.orig.repMtu = rep.mtu]
          /\ rep' = [rep EXCEPT !.mtu = cmd.pod]
     ELSE To("repUp") /\ UNCHANGED rep
  /\ OnlyRep

SetRepUp ==
  /\ At("repUp") /\ To("master")
  /\ rep' = [rep EXCEPT !.up = TRUE]
  /\ OnlyRep

SetMaster ==
  /\ At("master") /\ To("vlans")
  /\ rep' = [rep EXCEPT !.bridged = TRUE]
  /\ OnlyRep

\* The VLANs of port and uplink; with them AttachRepresentor succeeds.
SetVlansNoUndo == At("vlans") /\ To("admin") /\ OnlyCmd  \* mutant: no handler
SetVlans ==
  /\ At("vlans")
  /\ cmd' = [cmd EXCEPT !.pc = "admin", !.undo = @ \cup {"rep"}]
  /\ OnlyCmd

ApplyVFConfig ==
  /\ At("admin")
  /\ cmd' = [cmd EXCEPT !.pc = IF cmd.conf.userspace THEN "ipamAdd" ELSE "vfDown",
                        !.orig.adminMac = adminMac]
  /\ adminMac' = IF cmd.conf.mac THEN cmd.pod ELSE adminMac
  /\ UNCHANGED <<vf, rep, stored, node, faults>>

\* SetupVF.
SetVfDown ==
  /\ At("vfDown") /\ To("vfTemp")
  /\ vf' = [vf EXCEPT !.up = FALSE]
  /\ OnlyVf

SetVfTempName ==
  /\ At("vfTemp") /\ To("vfMac")
  /\ vf' = [vf EXCEPT !.name = "temp"]
  /\ OnlyVf

SetVfMacUnsaved ==  \* mutant: the MAC to restore is never noted
  /\ At("vfMac") /\ To("vfMtu")
  /\ vf' = IF cmd.conf.mac THEN [vf EXCEPT !.mac = cmd.pod] ELSE vf
  /\ OnlyVf
SetVfMac ==
  /\ At("vfMac")
  /\ IF cmd.conf.mac
     THEN /\ cmd' = [cmd EXCEPT !.pc = "vfMtu", !.orig.effMac = vf.mac]
          /\ vf' = [vf EXCEPT !.mac = cmd.pod]
     ELSE To("vfMtu") /\ UNCHANGED vf
  /\ OnlyVf

SetVfMtu ==
  /\ At("vfMtu")
  /\ IF cmd.conf.mtu
     THEN /\ cmd' = [cmd EXCEPT !.pc = "vfMove", !.orig.mtu = vf.mtu]
          /\ vf' = [vf EXCEPT !.mtu = cmd.pod]
     ELSE To("vfMove") /\ UNCHANGED vf
  /\ OnlyVf

MoveVfToPod ==
  /\ At("vfMove") /\ To("vfPod")
  /\ vf' = [vf EXCEPT !.ns = cmd.pod]
  /\ OnlyVf

SetVfPodName ==
  /\ At("vfPod") /\ To("vfUp")
  /\ vf' = [vf EXCEPT !.name = "pod"]
  /\ OnlyVf

SetVfUp ==
  /\ At("vfUp")
  /\ cmd' = [cmd EXCEPT !.pc = "ipamAdd", !.undo = @ \cup {"vf"}]
  /\ vf' = [vf EXCEPT !.up = TRUE]
  /\ OnlyVf

\* configureIPAM.  Behind "ipamConf" are the checks of the result, too.
ExecIpamAdd ==
  /\ At("ipamAdd")
  /\ IF cmd.conf.ipam
     THEN /\ cmd' = [cmd EXCEPT !.pc = "ipamConf", !.undo = @ \cup {"ipam"}]
          /\ leases' = leases \cup {cmd.pod}
     ELSE To("save") /\ UNCHANGED leases
  /\ UNCHANGED <<vf, adminMac, rep, cache, node, faults>>

ConfigureIface == At("ipamConf") /\ To("save") /\ OnlyCmd

Save ==
  /\ At("save") /\ To("devInfo")
  /\ cache' = [cache EXCEPT ![cmd.pod] = [conf |-> cmd.conf, orig |-> cmd.orig]]
  /\ UNCHANGED <<vf, adminMac, rep, leases, node, faults>>

\* updateDeviceInfo "is not critical", but its error stays in `err'.
UpdateDeviceInfo ==
  /\ At("devInfo")
  /\ \/ To("print") /\ OnlyCmd
     \/ /\ Made("devInfo", cmd.conf) /\ Fault("devInfo")
        /\ cmd' = [cmd EXCEPT !.pc = "print", !.err = TRUE]
        /\ UNCHANGED <<vf, adminMac, rep, stored, node>>

\* PrintResult: its error is returned and never assigned to `err'.
PrintResult ==
  /\ At("print")
  /\ \/ To("close") /\ OnlyCmd
     \/ /\ Fault("print")
        /\ cmd' = [cmd EXCEPT !.pc = "close", !.ok = FALSE]
        /\ UNCHANGED <<vf, adminMac, rep, stored, node>>

SetupCalls == {"vfDown", "vfTemp", "vfMac", "vfMtu", "vfMove", "vfPod", "vfUp"}
AddCalls ==
  {"open", "repMtu", "repUp", "master", "vlans", "admin", "ipamAdd", "ipamConf",
   "save"} \cup SetupCalls

\* A call of ADD fails.  AttachRepresentor takes the representor off the
\* bridge itself and ignores whether that worked, the handler of SetupVF is
\* registered either way, and a failed write may leave a part of the file.
AddFails ==
  /\ cmd.pc \in AddCalls /\ Made(cmd.pc, cmd.conf) /\ Fault(cmd.pc)
  /\ cmd' = [cmd EXCEPT !.pc = "close", !.err = TRUE, !.ok = FALSE,
                        !.undo = IF cmd.pc \in SetupCalls THEN @ \cup {"vf"} ELSE @]
  /\ \/ rep' = IF At("vlans") THEN [rep EXCEPT !.bridged = FALSE] ELSE rep
     \/ At("vlans") /\ "undoMaster" \in FaultyCalls /\ UNCHANGED rep
  /\ \/ UNCHANGED cache
     \/ At("save") /\ cache' = [cache EXCEPT ![cmd.pod] = Torn]
  /\ UNCHANGED <<vf, adminMac, leases, node>>

\* The deferred functions, last one first: the namespace is closed ...
CloseAndUndo ==  \* mutant: handleError does not look at the error
  /\ At("close")
  /\ cmd' = [cmd EXCEPT !.pc = "undoIpam", !.open = FALSE]
  /\ OnlyCmd
CloseNetns ==
  /\ At("close")
  /\ cmd' = [cmd EXCEPT !.pc = IF cmd.err THEN "undoIpam" ELSE "exit",
                        !.open = FALSE]
  /\ OnlyCmd

\* ... and handleError runs the error handlers, last one first, if `err' is set.
UndoIpam ==
  /\ At("undoIpam") /\ To("undoVf")
  /\ \/ /\ leases' = IF "ipam" \in cmd.undo THEN leases \ {cmd.pod} ELSE leases
        /\ UNCHANGED faults
     \/ "ipam" \in cmd.undo /\ Fault("undoIpam") /\ UNCHANGED leases
  /\ UNCHANGED <<vf, adminMac, rep, cache, node>>

\* The VF after a complete ReleaseVF.
Released(f) ==
  [ns |-> Host, name |-> cmd.orig.name, up |-> FALSE,
   mac |-> IF cmd.conf.mac THEN cmd.orig.effMac ELSE f.mac,
   mtu |-> IF cmd.conf.mtu THEN cmd.orig.mtu ELSE f.mtu]

\* The handler of SetupVF releases what it finds in the namespace if SetupVF
\* got as far as ContIFNames.  netNS.Do refuses a namespace that was closed,
\* so it never finds anything.
UndoVf ==
  /\ At("undoVf") /\ To(IF "rep" \in cmd.undo THEN "detDown" ELSE "exit")
  /\ vf' = IF "vf" \in cmd.undo /\ cmd.open /\ vf.name = "pod" /\ vf.up
           THEN Released(vf) ELSE vf
  /\ OnlyVf

(***************************************************************************)
(* DetachRepresentor, in the error handler of ADD and in DEL.              *)
(***************************************************************************)
\* Both callers go on whatever it returns.
AfterDetach == IF cmd.op = "ADD" THEN "exit" ELSE "delIpam"

SetRepDown ==
  /\ At("detDown") /\ To("detMtu")
  /\ rep' = [rep EXCEPT !.up = FALSE]
  /\ OnlyRep

RestoreRepMtu ==
  /\ At("detMtu") /\ To("detMaster")
  /\ rep' = IF cmd.conf.mtu THEN [rep EXCEPT !.mtu = cmd.orig.repMtu] ELSE rep
  /\ OnlyRep

SetNoMaster ==
  /\ At("detMaster") /\ To(AfterDetach)
  /\ rep' = [rep EXCEPT !.bridged = FALSE]
  /\ OnlyRep

DetachFails ==
  /\ cmd.pc \in {"detDown", "detMtu", "detMaster"}
  /\ Made(cmd.pc, cmd.conf) /\ Fault(cmd.pc)
  /\ To(AfterDetach)
  /\ UNCHANGED <<vf, adminMac, rep, stored, node>>

(***************************************************************************)
(* CmdDel.                                                                 *)
(***************************************************************************)
StartDel(p) ==
  /\ cmd.op = "none"
  /\ \/ stage[p] \in {"up", "failed", "leaving", "aborting"}
     \/ RepeatDel /\ stage[p] = "done"
  /\ cmd' = [NoCmd EXCEPT !.op = "DEL", !.pod = p, !.pc = "load"]
  /\ stage' = [stage EXCEPT ![p] = IF @ = "up" THEN "leaving"
                                   ELSE IF @ = "failed" THEN "aborting" ELSE @]
  /\ UNCHANGED <<vf, adminMac, rep, stored, netns, owner, faults>>

\* No file, half a file or a failed read: DEL succeeds and does nothing.
LoadOrFail ==  \* mutant: without a file DEL fails
  /\ At("load")
  /\ cmd' = IF cache[cmd.pod] \in {NoEntry, Torn}
            THEN [cmd EXCEPT !.pc = "exit", !.ok = FALSE]
            ELSE [cmd EXCEPT !.pc = "detDown", !.conf = cache[cmd.pod].conf,
                             !.orig = cache[cmd.pod].orig]
  /\ OnlyCmd
Load ==
  /\ At("load")
  /\ \/ /\ cache[cmd.pod] \notin {NoEntry, Torn}
        /\ cmd' = [cmd EXCEPT !.pc = "detDown", !.conf = cache[cmd.pod].conf,
                              !.orig = cache[cmd.pod].orig]
        /\ UNCHANGED faults
     \/ cache[cmd.pod] \in {NoEntry, Torn} /\ To("exit") /\ UNCHANGED faults
     \/ Fault("load") /\ To("exit")
  /\ UNCHANGED <<vf, adminMac, rep, stored, node>>

ExecIpamDel ==
  /\ At("delIpam") /\ To("getns")
  /\ leases' = IF cmd.conf.ipam THEN leases \ {cmd.pod} ELSE leases
  /\ UNCHANGED <<vf, adminMac, rep, cache, node, faults>>

\* A path that does not exist is no failure, yet `err' stays set.
GetNS ==
  /\ At("getns")
  /\ cmd' = IF netns[cmd.pod] = "open"
            THEN [cmd EXCEPT !.pc = IF cmd.conf.userspace THEN "reset" ELSE "relDown"]
            ELSE [cmd EXCEPT !.pc = "clean", !.err = TRUE]
  /\ OnlyCmd

\* ReleaseVF looks for the VF by its pod name in the pod's namespace.
Found == vf.ns = cmd.pod /\ vf.name = "pod"

ReleaseDown ==
  /\ At("relDown") /\ Found /\ To("relName")
  /\ vf' = [vf EXCEPT !.up = FALSE]
  /\ OnlyVf

ReleaseNotFound ==
  /\ At("relDown") /\ ~Found
  /\ cmd' = [cmd EXCEPT !.pc = "clean", !.err = TRUE, !.ok = FALSE]
  /\ OnlyCmd

ReleaseName ==
  /\ At("relName") /\ To("relMac")
  /\ vf' = [vf EXCEPT !.name = cmd.orig.name]
  /\ OnlyVf

ReleaseMac ==
  /\ At("relMac") /\ To("relMtu")
  /\ vf' = IF cmd.conf.mac THEN [vf EXCEPT !.mac = cmd.orig.effMac] ELSE vf
  /\ OnlyVf

ReleaseMtu ==
  /\ At("relMtu") /\ To("relMove")
  /\ vf' = IF cmd.conf.mtu THEN [vf EXCEPT !.mtu = cmd.orig.mtu] ELSE vf
  /\ OnlyVf

MoveVfToHost ==
  /\ At("relMove") /\ To("reset")
  /\ vf' = [vf EXCEPT !.ns = Host]
  /\ OnlyVf

ResetVFConfig ==
  /\ At("reset") /\ To("clean")
  /\ adminMac' = IF cmd.conf.mac THEN cmd.orig.adminMac ELSE adminMac
  /\ UNCHANGED <<vf, rep, stored, node, faults>>

DelCalls ==
  {"delIpam", "getns", "relDown", "relName", "relMac", "relMtu", "relMove", "reset"}

DelFailsSilently ==  \* mutant: the error is shadowed
  /\ cmd.pc \in DelCalls /\ Made(cmd.pc, cmd.conf) /\ Fault(cmd.pc)
  /\ To("clean")
  /\ UNCHANGED <<vf, adminMac, rep, stored, node>>
DelFails ==
  /\ cmd.pc \in DelCalls /\ Made(cmd.pc, cmd.conf) /\ Fault(cmd.pc)
  /\ cmd' = [cmd EXCEPT !.pc = "clean", !.err = TRUE, !.ok = FALSE]
  /\ UNCHANGED <<vf, adminMac, rep, stored, node>>

\* The deferred removal of the file, for a DEL without error only.
CleanAlways ==  \* mutant: also after an error
  /\ At("clean") /\ To("exit")
  /\ cache' = [cache EXCEPT ![cmd.pod] = NoEntry]
  /\ UNCHANGED <<vf, adminMac, rep, leases, node, faults>>
CleanNever == At("clean") /\ To("exit") /\ OnlyCmd  \* mutant
Clean ==
  /\ At("clean") /\ To("exit")
  /\ \/ /\ cache' = IF cmd.err THEN cache ELSE [cache EXCEPT ![cmd.pod] = NoEntry]
        /\ UNCHANGED faults
     \/ ~cmd.err /\ Fault("clean") /\ UNCHANGED cache
  /\ UNCHANGED <<vf, adminMac, rep, leases, node>>

(***************************************************************************)
(* The runtime and the kernel around the commands (external).              *)
(***************************************************************************)
\* The namespace of p dies and gives back what is in it.
SentHome(p) == IF vf.ns = p THEN [vf EXCEPT !.ns = Host, !.up = FALSE] ELSE vf

AddExits ==
  /\ At("exit") /\ cmd.op = "ADD"
  /\ cmd' = NoCmd
  /\ stage' = [stage EXCEPT ![cmd.pod] = IF cmd.ok THEN "up" ELSE "failed"]
  /\ UNCHANGED <<vf, adminMac, rep, stored, netns, owner, faults>>

DelExits ==
  /\ At("exit") /\ cmd.op = "DEL"
  /\ cmd' = NoCmd
  /\ IF cmd.ok
     THEN /\ stage' = [stage EXCEPT ![cmd.pod] = "done"]
          /\ netns' = [netns EXCEPT ![cmd.pod] = "gone"]
          /\ vf' = SentHome(cmd.pod)
          /\ owner' = IF owner = cmd.pod THEN NoPod ELSE owner
     ELSE UNCHANGED <<vf, node>>
  /\ UNCHANGED <<adminMac, rep, stored, faults>>

\* CmdDel returns at once when it gets no namespace path.
DelWithoutNetns(p) ==
  /\ EmptyNetns /\ cmd.op = "none" /\ netns[p] = "gone"
  /\ stage[p] \in {"up", "failed", "leaving", "aborting"}
  /\ stage' = [stage EXCEPT ![p] = "done"]
  /\ owner' = NoPod
  /\ UNCHANGED <<cmd, vf, adminMac, rep, stored, netns, faults>>

Vanish(p) ==
  /\ MayVanish /\ cmd.op = "none" /\ netns[p] = "open"
  /\ netns' = [netns EXCEPT ![p] = "gone"]
  /\ vf' = SentHome(p)
  /\ faults' = [faults EXCEPT !.grave = TRUE]
  /\ UNCHANGED <<cmd, adminMac, rep, stored, stage, owner>>

\* The process dies; a file it was writing may be left torn.
Kill ==
  /\ cmd.op # "none" /\ Fault("kill")
  /\ cmd' = NoCmd
  /\ stage' = IF cmd.op = "ADD" THEN [stage EXCEPT ![cmd.pod] = "failed"] ELSE stage
  /\ \/ UNCHANGED cache
     \/ At("save") /\ cache' = [cache EXCEPT ![cmd.pod] = Torn]
  /\ UNCHANGED <<vf, adminMac, rep, leases, netns, owner>>

\* A step of the running command.
Step ==
  \/ OpenNetns \/ SetRepMtu \/ SetRepUp \/ SetMaster \/ SetVlans \/ ApplyVFConfig
  \/ SetVfDown \/ SetVfTempName \/ SetVfMac \/ SetVfMtu \/ MoveVfToPod
  \/ SetVfPodName \/ SetVfUp \/ ExecIpamAdd \/ ConfigureIface \/ Save
  \/ UpdateDeviceInfo \/ PrintResult \/ AddFails
  \/ CloseNetns \/ UndoIpam \/ UndoVf
  \/ SetRepDown \/ RestoreRepMtu \/ SetNoMaster \/ DetachFails
  \/ Load \/ ExecIpamDel \/ GetNS \/ ReleaseDown \/ ReleaseNotFound \/ ReleaseName
  \/ ReleaseMac \/ ReleaseMtu \/ MoveVfToHost \/ ResetVFConfig \/ DelFails \/ Clean
  \/ AddExits \/ DelExits

Next ==
  \/ Step \/ Kill
  \/ \E p \in Pod : \/ StartDel(p) \/ DelWithoutNetns(p) \/ Vanish(p)
                    \/ \E c \in Config : StartAdd(p, c)

Spec == Init /\ [][Next]_vars

\* A command runs on, and the runtime deletes a pod until that succeeds,
\* whatever else it starts in between.
Fairness ==
  /\ WF_vars(Step)
  /\ \A p \in Pod : SF_vars(StartDel(p) /\ stage[p] # "done")

FairSpec == Spec /\ Fairness

(***************************************************************************)
(* Properties.                                                             *)
(***************************************************************************)
DetachCalls == {"detDown", "detMtu", "detMaster"}
ReleaseCalls == {"relDown", "relName", "relMac", "relMtu", "relMove"}
AnyPc ==
  AddCalls \cup DetachCalls \cup DelCalls
    \cup {"idle", "devInfo", "print", "close", "undoIpam", "undoVf", "load", "clean", "exit"}

Cmd == [op : {"none", "ADD", "DEL"}, pod : Pod \cup {NoPod}, pc : AnyPc, conf : Conf,
        orig : Saved, err : BOOLEAN, ok : BOOLEAN, open : BOOLEAN,
        undo : SUBSET {"rep", "vf", "ipam"}]

TypeOK ==
  /\ cmd \in Cmd
  /\ vf \in [ns : Pod \cup {Host}, name : {"orig", "temp", "pod"}, mac : Attr,
             mtu : Attr, up : BOOLEAN]
  /\ adminMac \in Attr
  /\ rep \in [bridged : BOOLEAN, mtu : Attr, up : BOOLEAN]
  /\ leases \subseteq Pod
  /\ cache \in [Pod -> [conf : Conf, orig : Saved] \cup {NoEntry, Torn}]
  /\ netns \in [Pod -> {"none", "open", "gone"}]
  /\ stage \in [Pod -> {"new", "adding", "up", "failed", "leaving", "aborting", "done"}]
  /\ owner \in Pod \cup {NoPod}
  /\ faults \in [count : 0 .. MaxFaults, grave : BOOLEAN]

IsSaved(e) == e \notin {NoEntry, Torn}

\* All that a successful ADD gives a pod with configuration c.
Attached(p, c) ==
  /\ rep.bridged /\ rep.up
  /\ c.mtu => rep.mtu = p
  /\ c.mac => adminMac = p
  /\ c.ipam => p \in leases
  /\ ~c.userspace => /\ vf.ns = p /\ vf.name = "pod" /\ vf.up
                     /\ c.mac => vf.mac = p
                     /\ c.mtu => vf.mtu = p

\* ADD reports success only with the pod attached, and it stays so until its
\* own DEL: no rollback after success, no late DEL of an earlier pod, and
\* what the DEL will need is in the cache.
SuccessMeansAttached ==
  \A p \in Pod : stage[p] = "up" /\ netns[p] = "open" =>
    IsSaved(cache[p]) /\ Attached(p, cache[p].conf)

\* While the VF of a pod that was attached is still in its namespace, the
\* cache knows how to get it back: a failed or killed DEL can be repeated.
RetryHasConf ==
  \A p \in Pod : stage[p] \in {"up", "leaving"} /\ vf.ns = p => IsSaved(cache[p])

\* A failed ADD leaves neither a bridge port nor an address behind, unless
\* it left the PluginConf from which DEL takes them back (PrintResult failed).
FailedAddUndone ==
  \A p \in Pod : stage[p] = "failed" /\ cmd = NoCmd /\ ~IsSaved(cache[p]) =>
    ~rep.bridged /\ p \notin leases

\* A failed ADD gives the VF back to the host, as the error handler of
\* SetupVF is there to do.
FailedAddReturnsVf ==
  \A p \in Pod : stage[p] = "failed" /\ cmd = NoCmd => vf.ns # p

\* Between two pods the VF has the namespace, name, MACs and MTU it had before
\* the first one, and its representor no bridge and its old MTU, whatever the
\* pods configured, unless something happened that DEL cannot undo.  Whether
\* their links were up nobody notes: DetachRepresentor and ReleaseVF leave
\* them down (manager.go:174, 399).
Restored ==
  owner = NoPod /\ cmd = NoCmd /\ ~faults.grave =>
    vf \in HomeVf /\ rep \in HomeRep /\ adminMac = Orig /\ leases = {}

\* A DEL that reported success leaves no address behind, even when the
\* namespace was gone before it came (plugin.go:368-371).
LeaseFreed == \A p \in Pod : stage[p] = "done" => p \notin leases

\* A DEL that reported success leaves no cached PluginConf behind.
NoStaleEntry == \A p \in Pod : stage[p] = "done" => cache[p] = NoEntry
EntryRemoved == ~faults.grave => NoStaleEntry

\* A DEL that comes again after it succeeded leaves the pod that has the VF
\* by then alone.
LateDelSpares == ~faults.grave => SuccessMeansAttached

\* A DEL that is repeated until it succeeds does succeed: repeated calls do
\* not fail in a dead loop (plugin.go:333-340).
DelCompletes ==
  \A p \in Pod : stage[p] \in {"leaving", "aborting"} ~> stage[p] = "done"
=============================================================================
