# Verification of Accelerated Bridge CNI

TLA+ models of the CNI plugin in `src/`, TLC runs on small nodes, and TLAPS proofs for nodes of any size.

## 1. The system

The plugin is a short-lived process. The container runtime starts it once per command (ADD, DEL, CHECK) of a pod;
several such processes run at the same time for different pods. It moves an SR-IOV VF of a switchdev NIC into the pod,
attaches the VF's *representor* to a Linux bridge, gives that bridge port the configured VLANs, asks an IPAM plugin for
an address, and on DEL undoes all of it from a cached copy of what ADD did.

| Component | Source | State it keeps | Operations | What makes it correct |
|---|---|---|---|---|
| Plugin commands | `pkg/plugin/plugin.go`, `cmdcontext.go` | locals of one command: PluginConf, the open namespace, `err`, error handlers | CmdAdd, CmdDel, CmdCheck | success means attached; failure leaves nothing behind; DEL can be repeated |
| VF manager | `pkg/manager/manager.go:81-280` | the VF's name, namespace, MAC, MTU, link state; the administrative MAC on the PF (all in the kernel) | SetupVF, ReleaseVF, ApplyVFConfig, ResetVFConfig | the VF comes back as it was |
| Representor and uplink VLANs | `manager.go:282-514` | bridge ports and their VLAN tables (kernel) | AttachRepresentor, DetachRepresentor | the port has the configured VLANs only; the uplink carries what its VFs need, and no more |
| Uplink lock | `manager.go:23-53` | an flock on `vlan-uplink.lock` | Lock, Unlock | one process at a time works on uplinks; a dead holder frees it |
| State cache | `pkg/cache` | one JSON file per attachment | GetStateRef, Save, Load, Delete | a file exists exactly while its attachment may have to be undone |
| Configuration | `pkg/config/config.go` | none | LoadConf, ParseConf, handleBridgeConfig | what is in order is accepted and nothing else; the bridge is the uplink's |
| VLAN ids | `pkg/config/vlan.go` | none | splitVlanIds | the union of the items, or an error |
| Netlink helpers | `pkg/utils/netlink.go` | none | VLAN add/del/list, parent bridge, parent bond, bridge links | the loops stop at the first error |
| sysfs helpers | `pkg/utils/utils.go`, `sriov.go` | none | GetVfid, GetVFLinkName, HasUserspaceDriver | the VF's index and name |
| DeviceInfo file | `plugin.go:154-230` | a JSON file per attachment, shared with the meta plugin | updateDeviceInfo | it gains the representor and loses nothing |
| Environment, IPAM, namespace wrappers | `pkg/plugin/env.go`, `ipam.go`, `netns.go` | none | thin wrappers | MAC priority |
| Entry point, image, test support | `cmd/`, `images/`, `pkg/utils/testing.go`, mocks | none | | |

Interaction: CmdAdd and CmdDel call the configuration, the manager, IPAM and the cache one after the other. Two
processes share the kernel's bridge and VLAN tables, the lock file, the IPAM store and, if one pod follows another on a
VF, the VF and its representor. ADD and DEL of one attachment share its cache file. Nothing else synchronises them: a
port gets its VLANs outside the lock, and only the work on the uplink is inside it.

What is hard here: interleavings of attach and detach on one uplink; a failed call in the middle of some thirty;
`err` variables that deferred functions look at later; the order of deferred functions; repeated DELs; processes that are killed; a
namespace that goes away first; a VF that carries an earlier pod's settings into the next. `PROJECT.json` lists these
hazards at their lines.

## 2. Modules

| Module | Role |
|---|---|
| `UplinkVlans` | AttachRepresentor and DetachRepresentor of concurrent processes: ports, uplink VLANs, lock |
| `UplinkService` | the abstract service of an uplink, implemented by `UplinkVlans` |
| `Node` | CmdAdd and CmdDel of all VFs of a node side by side, on top of `UplinkVlans` |
| `CniPlugin` | CmdAdd and CmdDel call by call, for one VF and the pods that use it in turn |
| `PluginFiles` | the PluginConf cache and the DeviceInfo file, with commands of several attachments |
| `ParseConf` | ParseConf with its sysfs and netlink lookups, the choice of MAC and uplink |
| `TrunkVlans` | splitVlanIds, part of `ParseConf` |
| `CniInvariants` | the inductive invariants of `CniPlugin` |
| `UplinkVlansProofs`, `NodeProofs`, `NodeCleanProofs`, `CniPluginProofs`, `PluginFilesProofs`, `ParseConfProofs`, `TrunkVlansProofs` | theorems |
| `MCUplinkVlans`, `MCNode`, `MCCniPlugin`, `MCPluginFiles`, `MCParseConf` | constants for TLC |

`Node` extends `UplinkVlans` and refines it; `UplinkVlans` refines `UplinkService`; `ParseConf` extends `TrunkVlans`.
`Node` and `CniPlugin` look at the same two commands from two sides: `Node` at many VFs with the calls around the
representor taken together, `CniPlugin` at one VF with every call apart. Neither is derived from the other.

### UplinkVlans

One process per VF. `port[v]` is the representor as the kernel's bridge sees it (master, VLANs, native VLAN);
`uplinkVlans[u]` the VLAN table of an uplink (a PF, or its bond: GetParentBondForLink decides, here the constant
`UplinkOf`); `lock` the holder of the lock file; `conf[v]` the PluginConf of the attachment. `pc[v]` names the next
netlink call: `defaultVlan, trunk, addLock, addUplink, attached` in AttachRepresentor, `undo` its deferred LinkSetNoMaster,
`delLock, list, unused, delUplink, detached` in DetachRepresentor. The loops over VLANs are one step per VLAN
(`AddTrunkVlan`, `AddUplinkVlan`, `DelUplinkVlan`), in any order; the sorted order of the code is one of them.
`ListPorts` (GetBridgeLinks) and `FindUnused` (BridgeVlanList) are separate steps because the ports may change in
between. A failed call leads to `undo` or, in deleteUplinkVlans, to a logged warning. `Forget` ends DEL;
`DetachFails` is a DetachRepresentor that returned an error, after which its callers go on. `Abandon` is a DEL that reports success
before it comes to the representor, because the cache file cannot be read (label `"Load"` of `FaultyCalls`) or no namespace path
was given (`"Netns"`): the runtime gives the VF away and everything stays on the port and the uplink (plugin.go:308-311, 331-342). A process killed in ADD or
in its error handlers takes its configuration with it; one killed in DEL leaves it in the cache, and the VF may be
detached again (`Kill`).

The kernel is modelled from how the code uses it: a link that joins a bridge gets VLAN 1 as native VLAN; setting the
master a link already has changes nothing; leaving the bridge flushes the port's VLANs; the flock of a dead process is free.

`UplinkService` knows only which VLANs are carried and which are needed: a VLAN is withdrawn only while no member
needs it. The refinement maps `carried` to `uplinkVlans` and `need` to the VLANs of attached VFs with `setUplinkVlan`
on their uplink's bridge.

### Node

Adds the commands to `UplinkVlans`: `cmd[v]` is the command on a VF and how far it is (`add` until the cache is written,
`saved` after that, `undo` and `undoSaved` in the error handlers before and after that, `load` and `del` in DEL), `cache[p]` the PluginConf
files, `pod` and `stage` the runtime's view. `conf[v]` is now what it is in the code, the memory of a running command: `Save` writes it to the
cache, `StartDel` reads it back, and the end or death of a command loses it. ADD before LinkSetMaster (`StartAdd`), ADD
between AttachRepresentor and Save (`Save` or `RollBack`) and DEL after DetachRepresentor (`DelSucceeds` or `DelFails`)
succeed or fail as a whole; a handled failure of ADD runs the error handler that detaches; PrintResult fails without one
(`AddReturns`). `KillCmd` may come between any two steps. Three outcomes are easily overlooked:

* A failed updateDeviceInfo after Save (label `"DeviceInfo"`) leaves `err` set: the error handler detaches, and ADD reports
  success all the same (`UndoSaved`, `ReturnsUndone`). The pod is then `undone`: not connected, with its file in the cache. `PodConnected` does not
  speak of it; that the code does this is the run `devinfo_rollback`.
* DEL can succeed and keep its file, because the namespace is gone or Delete failed (`DelSucceeds`; the run `gone_netns` is about the first).
* DEL can succeed and do nothing, because the file cannot be read or no path was given (`DelSkips`, labels `"Load"` and `"Netns"`).

After any DEL that reported success the runtime frees the VF (`Frees`) and does not come back to the pod; DELs that come again after success
are in `CniPlugin`.

The mapping to `UplinkVlans` takes a VF's configuration from the memory of its command or, with none running, from the
cache (`ConfOf`). `PodConnected` relates what ADD reported and cached to the port and the uplink while other commands
run, fail and die.

`grave` is a history variable: it notes the events after which VLANs may stay on an uplink for good, namely an attach of a VF with
`setUplinkVlan` that failed or was killed, a removal that failed or was skipped by a DEL that reported success, and a VF
with VLANs but without `setUplinkVlan`, which counts as a user for others and removes nothing when it leaves. `UplinkClean` is stated for nodes where none of these has happened; DELs that fail
elsewhere, are killed anywhere, keep their file or are repeated, and ADDs undone after success, are all within it: in the last case even a removal
that fails, since a DEL with the file is still to come.

### CniPlugin

One VF, given to one pod after the other. `cmd` is the running command with its locals (`err`, the return value `ok`,
whether the namespace is open, the registered error handlers `undo`, the saved original state `orig`); `vf`, `rep`,
`adminMac` are kernel state; `leases` IPAM's; `cache` the files; `netns`, `stage`, `owner` the runtime's view.
Every netlink, IPAM and file call is an action of its own. A value a pod sets (MAC, MTU) is written as the pod
itself, so that a pod's setting met later is recognised. Whether the links of VF and representor were up before the first pod is left open
(`HomeVf`, `HomeRep`). `AddFails`, `DetachFails` and `DelFails` are a failed call at the current label;
`Kill` ends the process between any two calls. The VLAN part of AttachRepresentor is one call (`SetVlans`), and
DetachRepresentor ends with LinkSetNoMaster: `UplinkVlans` has the rest. `UndoVf` is the error handler of SetupVF:
at that point the deferred `netNS.Close()` has run, and `netNS.Do` of the containernetworking library returns an error
for a closed namespace, so nothing is released.

The runtime is external: one command of a pod at a time, DEL after a failed ADD, DEL again after a failed DEL, and the
namespace removed after DEL, upon which the kernel returns the VF to the host under its present name. `MayVanish`, `EmptyNetns`
and `RepeatDel` add namespaces that disappear early, DELs without a path, and DELs after success.

`faults` counts failures and kills, and its `grave` says whether there has been one that DEL does not make good. The
others (`Harmless`) are failures before ADD changed anything that needs a namespace to undo, failures after the cache was
written, and failures of calls a repeated DEL makes again. `Restored`, `EntryRemoved` and `LateDelSpares` hold as long as
nothing grave has happened. `Restored` is about namespace, name, MACs, MTUs, bridge port and addresses: nobody notes the link state, and
ReleaseVF and DetachRepresentor leave the links down (manager.go:174, 399).

### PluginFiles

`cached[r]` is the file of name `r` in the cache directory, `info[a]` the DeviceInfo file of an attachment, which the
meta plugin puts there before ADD. A file name is the sequence of its parts, with the dashes that join them
(`GetStateRef`) and those that occur inside network and interface names. os.WriteFile is two steps, truncation
and bytes, for both files; a file may be torn by a failure or a kill in between. `ReadInfo`, `Skip`, `Change`, `TruncateInfo` and `WriteInfo` are updateDeviceInfo: a file that
does not parse (one of the files the meta plugin may give is torn), has no version or no `pci` object is left alone; one that names the representor already is too. `LoadFails` is a read of the cache that fails: DEL reports success and the file stays.

### ParseConf and TrunkVlans

`in` is one input: the CNI configuration together with what sysfs and netlink answer; an answer that is an error is
`Nil`. `pc` runs through the calls of ParseConf, one action each: `GetUplink`, `GetVfid` (one step per virtfn link),
`HandleBridge` and `FindBridge` (one step per master), `GetName`, `CheckVlan`, `SplitVlans` (a step of `TrunkVlans`), and
after it `ChooseMac` (getMACAddressConfig) and `ChooseUplink` (GetParentBondForLink). `out` collects the fields of PluginConf.
`AcceptsExactly` and `WorksWith` compare the outcome with what the options mean, written without the loops
(`HasMacMeant`: the runtime's MAC, else the one of CNI_ARGS, else the top-level one); `UplinkIsPort`
says that the two walks up from the PF, one for the bridge and one for the bond, agree.
A PF below a master that is neither bond nor bridge (a team, say) is outside it: there the bridge is found through the team, and the VLANs go to the PF.

`TrunkVlans` is splitVlanIds as a state machine: `n` the item, `v` the id the range loop has come to, `vlans` the set so far.

Definitions with the comment `mutant` are wrong variants of the one that follows. They are not part of a
specification; they are put in its place to see that a property fails (`mutants` in `PROJECT.json`).

## 3. Runs

Passing runs:

| Run | Shows | Bounds |
|---|---|---|
| `uplink_faults` | types, `IInv`, `UplinkCovers`, refinement of `UplinkService`, `Finishes` | 2 VFs, 1 uplink, 2 bridges, VLANs 1/10/20, 5 configurations; all calls but BridgeVlanList fail, DELs that do nothing, kills |
| `port_exact` | `PortExact` | 2 VFs, 6 configurations (every case of manager.go:324-342), failing VLAN calls |
| `node` | types, `Books`, `PodConnected`, `UplinkClean` and its invariant `Clean`, refinement of `UplinkVlans` | 3 VFs of one PF, 3 pods, VLANs 1/10/20, 3 configurations, a second uplink that carries 20; the same failures and kills and a failing updateDeviceInfo, symmetry of VFs and of pods |
| `cni_faults` | types, `Kept`, `SuccessMeansAttached`, `RetryHasConf` | 2 pods, 3 configurations, links up or down at first, 3 failures or kills, vanishing namespaces |
| `cni_mended` | `Mended`, `Restored`, `EntryRemoved`, `LateDelSpares`, `FailedAddUndone`, `LeaseFreed`, `DelCompletes` | 2 pods, 3 configurations, links up or down at first, repeated DELs, vanishing namespaces, 2 failures that error handlers or DEL answer |
| `parse_conf` | types, `Known`, `AcceptsExactly`, `WorksWith`, `UplinkIsPort`, `TrunkIInv`, `TrunkExact`, `Terminates` | largest VLAN id 4, up to 2 trunk items, 4 virtfn links, 8 topologies; VF, bridge, name and MAC, VLANs varied one part at a time |
| `plugin_files` | types, `FilesKept`, `CacheIsolated`, `InfoPreserved`, `InfoCurrent` | 2 interfaces of one sandbox, 7 DeviceInfo files (none and a torn one among them), 3 failures or kills |

Why the bounds are enough. Two VFs suffice for one process to remove what the other adds; with three VFs and pods, one
attachment stays while a second one goes and a third one, on a VF used before, comes. Two VLANs besides the default one make shared,
private, native and trunk VLANs distinct; the proofs cover any number of all of these. Two pods on one VF are enough for one to
leave something for the other; a third would meet what the second one met. Failures are bounded (`MaxFaults`) where each
may happen anywhere; three cover a failed ADD, a failed DEL of it and a failure in the next pod. `UplinkVlans` and `Node`
have no such bound. The parts of an input of ParseConf are read one after the other and independently, so varying them one at a time loses
nothing; ids up to 4 have both ends, a middle and values beyond, and `TrunkCorrect` covers 4094. Interfaces of one sandbox in
one network are the closest two cache file names can be. Where deadlock is not checked, the
system really stops: all pods are done (`cni_*`, `node`), or the configuration is parsed (`parse_conf`).

What the passing runs leave out of their failures is not arbitrary: each omission is one of the differences below or
follows from it. `PortExact` leaves out a failing LinkSetNoMaster, DELs that report success without detaching, and kills: each of them leaves an earlier
attachment's VLANs on the port. `FailedAddUndone` leaves out failures of the rollback itself, which the
handlers ignore. `LeaseFreed` leaves out kills and failed cache reads: CmdDel
returns nil without a cached configuration and frees nothing, as the comment at plugin.go:333-340 intends.

Violation runs, each a difference between the code and what the repository says of it:

| Run | Difference |
|---|---|
| `unread_vlans` | manager.go:494 drops the error of BridgeVlanList: VLANs other VFs use are removed from the uplink |
| `devinfo_rollback` | plugin.go:148: a failed DeviceInfo update rolls a successful ADD back |
| `closed_netns` | plugin.go:93: the namespace is closed before the handler that needs it; a failed ADD leaves the VF in the pod |
| `gone_netns` | plugin.go:365: DEL with a vanished namespace returns nil and keeps the cache file |
| `del_dead_loop` | ReleaseVF cannot be repeated: one late failure makes every further DEL fail |

More follow from the models and have no run of their own:

* manager.go:312: a representor still on the bridge, after a failed detach or a killed ADD, keeps its VLANs into the next
  attachment; with `"LinkSetNoMaster"` among the failures `PortExact` fails, against configuration-reference.md:28-29.
* manager.go:476 takes only the VF's own uplink out of the list of ports, while the comment at manager.go:472-473 wants
  representors only: a VLAN that another uplink of the bridge carries is never removed. `UplinkClean` has this exception.
* manager.go:417: a VF without `setUplinkVlan` is a user of its VLANs when others leave and removes none itself.
* plugin.go:152 returns the error of PrintResult without assigning it to `err`, so no error handler runs; DEL makes up for it
  (`FailedAddUndone` is stated for failed ADDs without a cache file).
* plugin.go:165-168 says that a DeviceInfo file of version 1.0.0 is upgraded; plugin.go:209-214 returns before writing
  if the representor is there already. `InfoPreserved` allows the old version in that case.
* manager.go:93 and 306 change the link state of VF and representor without noting it, and manager.go:174 and 399 leave both down: a link
  that was up before the first pod is down after it. No text promises more; `Restored` leaves link state out.
* plugin.go:349 keeps the cache file after a failed DEL, contrary to the comment at plugin.go:333-334; a repeated DEL
  needs it (`RetryHasConf`, `Books`).

## 4. Fairness

`UplinkVlans`: weak fairness on the steps of each started command (a process that can run does), and strong fairness on
taking the lock: flock wakes its waiters whenever it is released, so a waiter is not passed over for ever. No fairness on
starting commands, on failures or on kills: in particular nobody gets past the lock only because Lock returns an error.
`CniPlugin`: weak fairness on the running command, and strong fairness on the runtime's DEL of a pod until it succeeds: the
runtime comes back to it whatever else it starts in between. Failures are bounded in number, so a call that is repeated
often enough succeeds. `ParseConf`: weak fairness on its only process. `Node` and `PluginFiles` have no liveness properties.

## 5. Proofs

Every invariant a passing run checks is also a theorem, for all values of the constants; further conditions are hypotheses
of the theorem and named below. The modules' own assumptions on constants are:

* VLANs are within 1-4094 and topologies are total functions (`UplinkVlans`); the special values differ from all others.
* A pod is not the host, and a configuration is a record of options (`CniPlugin`).
* A container id is no dash, occurs inside no network or interface name, and the names with the id tell attachments apart
  (`NameAssumption` of `PluginFiles`).
* A PF is no bridge, and above a bridge there is no other bridge (`InputAssumption` of `ParseConf`): the kernel refuses a bridge as a
  port of a bridge. Cycles of masters, missing links and gaps among virtfn links are all admitted.

`UplinkVlansProofs`:

* `TypeCorrect`: `Spec => []TypeOK`.
* `OneAtATime`: `Spec => []LockOwner`, whatever fails or is killed. This part of `IInv` needs no hypothesis.
* `Inductive`: if BridgeVlanList does not fail, `Spec => []IInv`. Any other call may fail and any process may be killed.
* `Coverage`: under the same assumption, `Spec => []UplinkCovers`.
* `Implements`: under the same assumption, `Spec => ServiceSpec`.

`UplinkCovers` is not inductive: a DEL that has already decided what to remove could remove it from a VF that attached
since. The invariant `IInv` says why it cannot. The lock is held exactly in the critical sections (`LockOwner`); a port
has its VLANs before its process reaches the uplink (`PortFills`); the VLANs still missing on the uplink are those the
lock holder has yet to add (`UplinkFills`); and a process that removes VLANs has every member in its list of ports, and
then none of their VLANs in its list of VLANs (`SparesMembers`), because joining needs the lock. Each conjunct has its
own step lemma; `Joins` and `OnlyDeletes` isolate the only steps that create members and remove VLANs. TLC checks `IInv`
in `uplink_faults`.

* `ExactPorts`: if LinkSetNoMaster does not fail, no DEL reports success without detaching (`~DelMaySkip`) and no process is killed, `Spec => []PortExact`. Other calls may fail.
  Its invariant `PortBuilds` says what a port carries at every step from the empty port on, and that it is empty again
  before the next attachment.
* `NothingLeaks`: with one uplink, `setUplinkVlan` in every configuration, VLAN 1 on the uplink from the start and no failures
  (`Undisturbed`), `Spec => []NoLeak`. Its invariant `Accounts` says that every VLAN a process is about to leave on the
  uplink has another user who must still pass through the lock before it is gone; that the listed port belongs to such
  a user follows from `PortBuilds` (`CarriesOwn`).

`NodeProofs`:

* `BooksInOrder`, `NodeTypes`: `NodeSpec => []Books`, and its part `NodeTypeOK`. A pod has one VF, and a new one no file (`Allocated`); while a pod
  has a VF, its file is there exactly when ADD has saved it or a DEL has yet to succeed, and with no command at work the representor was
  attached or detached with that configuration (`Recorded`); what a DEL that reported success left in the cache concerns no VF any more; a process between its loops has
  nothing in hand (`Tidy`). The proof shows for each command what it does to its own VF (`RecordedAdd`, `RecordedDel`)
  and that it does nothing to others (`OnlyOne`).
* `NodeRefines`: `NodeSpec => UplinkVlansSpec`, without any assumption on failures or kills. `Books` is what the mapping needs:
  moving a configuration from memory to the cache and back is then a stutter, a kill is a `Kill`, a `Forget` or a stutter, and a DEL that
  does nothing an `Abandon` or a `Forget`.
* Three results about the representor calls hold of the whole commands by that refinement and `Books`, each
  under the hypothesis of the result it comes from: `StaysConnected` (`PodConnected`, from `Inductive`: for pods whose ADD succeeded and was not undone by a failed
  updateDeviceInfo), `PodPortsExact` (such a pod has exactly the VLANs of its *cached* configuration on its port, from `ExactPorts`), and `NodeServes` (the node
  implements `UplinkService`, from `Implements`).

`NodeCleanProofs`:

* `CleanAlways`, `UplinkStaysClean`: if the VFs are those of one PF whose uplink carries VLAN 1 (`OneUplink`), `NodeSpec => []Clean` and
  `NodeSpec => []UplinkClean`, with failures, kills, repeated DELs and ADDs undone after success as `grave` admits them. A DEL that reports success and does
  nothing is one of the things that are grave. The invariant `Clean` says who
  is responsible: a VLAN on the uplink has a VF that has it and *owes* a look at it (`Owes`: its removal is not over), or another uplink
  of the bridge carries it; a port shows nothing but the VLANs of an attachment that is not over, and VLAN 1; and what a removal under
  way has passed over is owed by another VF. The lock enters through `OneAtATime`: of two VFs that look, one looks last.
  `OneUplink` is needed. With VFs of two PFs on a bridge TLC finds `UplinkClean` violated: VF *a* of the first PF leaves while VF
  *b* of the second is in ADD, has VLAN 10 on its port and waits for the lock; *a* spares VLAN 10 on the first uplink for *b*, which only
  ever looks at the second one.

`CniPluginProofs`, on the invariants of `CniInvariants`:

* `KeptAlways`: `Spec => []Kept`, without hypotheses. `Kept` says at each call what the command has noted (`Noted`), written to
  the cache (`FileKept`) and attached (`Attaching`), how the runtime's view agrees with it (`Stages`), and that a DEL has the
  file of a live pod as long as nothing is grave (`Orderly`). It gives `CniTypes`, `RetryKeepsConf`, `LateDelHarmless` and `EntriesRemoved`;
  with the hypothesis that updateDeviceInfo does not fail and that no DEL comes after success, `AttachedOnSuccess`. The hypotheses
  are needed: `devinfo_rollback` shows the first, and a late DEL the second, when an earlier failure left a file behind.
* `NodeRestored`: `Spec => []Restored`, from any link state. `Restored` speaks of the moments between pods only, and not of link state. Its invariant `Restorable` says at each call that
  each attribute but link state either has its original value or has been noted with it (`AddRestorable`), which attributes DEL has put back so
  far (`DelRestores`), and that between commands the file is enough to restore the rest (`RestRestorable`).
* `LeasesFreed`, `FailedAddsUndone`, `MendedAlways`: every address belongs to a pod whose file says so, or to a command that is going to
  write that file or give the address back (`LeaseHeld`); so does a bridge port (`PortHeld`). Hypotheses: no kills, no failed read of the
  cache, no failing call inside the error handlers (`AddressLosers`, `PortLosers`), and no DEL without a namespace path. Each
  of these loses an address or a port in the code, as its comments accept (plugin.go:307-311, 333-340).

The proofs go action by action: effect lemmas state what each action changes, and one lemma per conjunct uses only these.

`PluginFilesProofs`:

* `StateRefsDiffer`: `GetStateRef` is injective under `NameAssumption`. The container id occurs once in a file name, so it has the same place in
  two equal names, and network and interface names around it are equal as well.
* `FilesKeptAlways`, with `FilesTypes`, `CacheIsolation`, `InfoIsPreserved`, `InfoIsCurrent`: the invariant `FilesKept` says what is in an
  attachment's two files at each operation (`CacheKept`, `InfoKept`), whoever else is at work; `StateRefsDiffer` is what keeps others away.

`ParseConfProofs`:

* `KnownAlways`, with `ConfTypes`, `AcceptedIffGood`, `WorksWithItsOwn` and `TrunkExactInConf`: `Known` says what each call has established,
  in terms of what the options mean. For the search of the VF: no link passed so far was the VF's. For the walk to the
  bridge: the bridges above the link it has come to are those above the PF; this rests on `AboveUnfolds`, about the least set of
  links closed under masters. For the trunk it contains `TrunkIInv`, and `TrunkStep` is used as it is.
* `UplinkPortOfBridge`: if no bond is in a bond (`NoNestedBonds`), `Spec => []UplinkIsPort`. Linux does not rule nested bonds out; with one,
  GetParentBondForLink returns the inner bond, which is no port of the bridge, and the VLANs cannot be set on it. `InputAssumption` does not exclude that.

`TrunkVlansProofs`:

* `TrunkInductive`, `TrunkCorrect`: `TrunkSpec => []TrunkIInv` and `TrunkSpec => []TrunkExact`, for every trunk and
  every largest VLAN id. `TrunkExact` speaks of the result only; `TrunkLoop` says what the ids collected so far are at the
  head of each of the two loops.

Only model-checked: the liveness properties `Finishes`, `DelCompletes` and `Terminates` (fairness and ENABLED are beyond the prover), and the
differences of the violation runs. `NoLeak`, `PodPortExact`, `StateRefsDiffer` and `OneAtATime` are proved and have no run of their own.

## 6. Not modelled, and why

* Moving an uplink to another bridge or bond while VFs are attached: administration outside the plugin. DEL would look
  the uplink up anew and not find the VLANs.
* Netlink lookups that fail and are taken for an answer (GetParentBondForLink in manager.go:362): the VLANs then go to the
  PF and not to its bond. `ParseConf` has the lookup, with errors as answers; `UplinkVlans` takes its result as given.
* Failures of Unlock (ignored by the code; the process ends soon after and frees the lock).
* Reboots: kernel state is rebuilt, and what is left of the cache is covered by the vanished namespaces.
* LoadConf and JSON, wording of errors, logging: no state changes.
* IPAM and namespace wrappers: calls that succeed or fail; what is behind them is external.
* CmdCheck: returns nil.
* The entry point hands the commands to the CNI skeleton, the image copies the binary, mocks and test helpers fake what
  the models treat as external.

## 7. Plan

1. Done: `UplinkVlans` with `UplinkService`; `CniPlugin`; `TrunkVlans` and `ParseConf`; `PluginFiles`; `Node` with its
   refinement; theorems for every invariant of the passing runs.
2. An abstract specification of an attachment (what ADD and DEL promise the container runtime), implemented by `CniPlugin`.
3. A weaker hypothesis for `UplinkStaysClean` that admits several PFs whose VFs do not share VLANs, and one for `NothingLeaks` and
   `PodPortsExact` that admits kills where the port leaves its bridge afterwards.
