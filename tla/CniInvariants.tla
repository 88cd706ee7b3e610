----------------------------- MODULE CniInvariants -----------------------------
(***************************************************************************)
(* Why the properties of CniPlugin hold: what is so at every call of a     *)
(* command.  Kept is inductive whatever fails and is killed; Restorable    *)
(* and the books of addresses and ports (LeaseHeld, PortHeld) rest on it.  *)
(***************************************************************************)
EXTENDS CniPlugin

Adding(S) == cmd.op = "ADD" /\ cmd.pc \in S
Deleting(S) == cmd.op = "DEL" /\ cmd.pc \in S

\* Which calls a command makes, and until when it has no error.
Control ==
  /\ cmd.op = "none" => cmd = NoCmd
  /\ cmd.op # "none" => cmd.pod \in Pod
  /\ cmd.op = "ADD" =>
       cmd.pc \in AddCalls \cup DetachCalls
                  \cup {"devInfo", "print", "close", "undoIpam", "undoVf", "exit"}
  /\ cmd.op = "DEL" => cmd.pc \in DetachCalls \cup DelCalls \cup {"load", "clean", "exit"}
  /\ Adding(AddCalls \cup {"devInfo"}) => cmd.ok /\ ~cmd.err
  /\ Adding({"print"}) => cmd.ok
  /\ Adding({"undoIpam", "undoVf"}) => cmd.err /\ ~cmd.open
  /\ Adding(DetachCalls) => cmd.err /\ "rep" \in cmd.undo
  /\ Deleting(DetachCalls \cup DelCalls \cup {"load"}) => cmd.ok /\ ~cmd.err

\* The runtime's view: the VF belongs to the one pod that is not through,
\* and lies in a namespace only while that is there.
Live == {"adding", "up", "failed", "leaving", "aborting"}
Stages ==
  /\ cmd.op = "ADD" => stage[cmd.pod] = "adding"
  /\ cmd.op = "DEL" => stage[cmd.pod] \in {"leaving", "aborting", "done"}
  /\ cmd.op = "DEL" /\ ~RepeatDel => stage[cmd.pod] # "done"
  /\ \A p \in Pod :
       /\ owner = p <=> stage[p] \in Live
       /\ stage[p] = "adding" => cmd.op = "ADD" /\ cmd.pod = p /\ netns[p] = "open"
       /\ stage[p] = "new" => cache[p] = NoEntry /\ p \notin leases
       /\ stage[p] = "done" => netns[p] = "gone"
       /\ vf.ns = p => netns[p] = "open" /\ stage[p] # "new"

\* What is restored later was noted before it was changed.
Notes(c, o) ==
  /\ o.name # Unset
  /\ c.mtu => o.repMtu # Unset
  /\ c.mac => o.adminMac # Unset
  /\ ~c.userspace => (c.mac => o.effMac # Unset) /\ (c.mtu => o.mtu # Unset)

Saving == {"ipamAdd", "ipamConf", "save"}
Noted ==
  LET c == cmd.conf  o == cmd.orig
  IN  /\ \A p \in Pod : IsSaved(cache[p]) => Notes(cache[p].conf, cache[p].orig)
      /\ Deleting(DetachCalls \cup DelCalls) => Notes(c, o)
      /\ Deleting(ReleaseCalls) => ~c.userspace
      /\ cmd.op = "ADD" => o.name # Unset
      /\ Adding({"repUp", "master", "vlans", "admin"} \cup SetupCalls \cup Saving)
           \/ (cmd.op = "ADD" /\ "rep" \in cmd.undo) => (c.mtu => o.repMtu # Unset)
      /\ Adding(SetupCalls) => ~c.userspace
      /\ Adding(SetupCalls \cup Saving) => o.adminMac # Unset
      /\ Adding({"vfMtu", "vfMove", "vfPod", "vfUp"} \cup Saving) /\ ~c.userspace =>
           (c.mac => o.effMac # Unset)
      /\ Adding({"vfMove", "vfPod", "vfUp"} \cup Saving) /\ ~c.userspace =>
           (c.mtu => o.mtu # Unset)

\* The running command's own file: none until Save, then what the command
\* holds itself.
OwnFile ==
  /\ Adding(AddCalls) => cache[cmd.pod] = NoEntry
  /\ Adding({"devInfo", "print"}) \/ (Adding(AnyPc \ AddCalls) /\ (cmd.ok \/ ~cmd.err)) =>
       cache[cmd.pod] = [conf |-> cmd.conf, orig |-> cmd.orig]
  /\ Deleting(DetachCalls \cup DelCalls \cup {"clean"}) =>
       cache[cmd.pod] = [conf |-> cmd.conf, orig |-> cmd.orig]

\* A userspace VF stays on the host, and a DEL without error has the VF back
\* before it removes the file.
VfReturned ==
  /\ cmd.op = "ADD" /\ cmd.conf.userspace => vf.ns # cmd.pod
  /\ \A p \in Pod : IsSaved(cache[p]) /\ cache[p].conf.userspace => vf.ns # p
  /\ Deleting({"reset"}) \/ (Deleting({"clean"}) /\ ~cmd.err) => vf.ns # cmd.pod

FileKept == OwnFile /\ VfReturned /\ RetryHasConf

\* ADD attaches the pod piece by piece.
Attaching ==
  LET p == cmd.pod  c == cmd.conf
  IN  /\ Adding({"repUp", "master", "vlans", "admin"} \cup SetupCalls \cup Saving) =>
           (c.mtu => rep.mtu = p)
      /\ Adding({"master", "vlans", "admin"} \cup SetupCalls \cup Saving) => rep.up
      /\ Adding({"vlans", "admin"} \cup SetupCalls \cup Saving) => rep.bridged
      /\ Adding(SetupCalls \cup Saving) => (c.mac => adminMac = p)
      /\ ~c.userspace =>
           /\ Adding({"vfMtu", "vfMove", "vfPod", "vfUp"} \cup Saving) => (c.mac => vf.mac = p)
           /\ Adding({"vfMove", "vfPod", "vfUp"} \cup Saving) => (c.mtu => vf.mtu = p)
           /\ Adding({"vfPod", "vfUp"} \cup Saving) => vf.ns = p
           /\ Adding({"vfUp"} \cup Saving) => vf.name = "pod"
           /\ Adding(Saving) => vf.up
      /\ Adding({"ipamConf", "save"}) => (c.ipam => p \in leases)
      /\ Adding({"devInfo", "print", "close", "exit"}) /\ ~cmd.err => Attached(p, c)

\* A failed ADD reports no success unless updateDeviceInfo failed, and no DEL
\* takes away what another pod has.
Spared == ~faults.grave \/ ("devInfo" \notin FaultyCalls /\ ~RepeatDel)
StaysAttached ==
  Spared =>
    /\ cmd.op = "ADD" => (cmd.err => ~cmd.ok)
    /\ SuccessMeansAttached

\* With nothing grave, DEL finds the file of a pod that is not through and no
\* other one.
Orderly ==
  ~faults.grave =>
    /\ NoStaleEntry
    /\ \A p \in Pod : cache[p] # Torn /\ (owner = p => netns[p] = "open")
    /\ cmd.op = "DEL" /\ cmd.pc \notin {"load", "exit"} => stage[cmd.pod] # "done"
    /\ Deleting({"clean", "exit"}) => (cmd.err => ~cmd.ok)
    /\ Deleting({"exit"}) /\ cmd.ok => cache[cmd.pod] = NoEntry

Kept == TypeOK /\ Control /\ Stages /\ Noted /\ FileKept /\ Orderly /\ Attaching /\ StaysAttached

\* What ADD changes it has noted with its original value, or has not changed,
\* and it leaves the VF where DEL looks for it.
Home == vf \in HomeVf /\ rep \in HomeRep /\ adminMac = Orig /\ leases = {}
RepKept(c, o) == IF c.mtu THEN o.repMtu = Orig ELSE rep.mtu = Orig
AdminKept(c, o) == IF c.mac THEN o.adminMac = Orig ELSE adminMac = Orig
MacKept(c, o) == IF c.mac THEN o.effMac = Orig ELSE vf.mac = Orig
MtuKept(c, o) == IF c.mtu THEN o.mtu = Orig ELSE vf.mtu = Orig
Leased(p, c) == IF c.ipam THEN {p} ELSE {}
Undoable(p, c, o) ==
  /\ RepKept(c, o) /\ AdminKept(c, o) /\ leases \subseteq Leased(p, c)
  /\ IF c.userspace THEN vf \in HomeVf
     ELSE o.name = "orig" /\ vf.ns = p /\ vf.name = "pod" /\ MacKept(c, o) /\ MtuKept(c, o)

AddRestorable ==
  LET c == cmd.conf  o == cmd.orig
  IN  ~faults.grave =>
        /\ Adding({"open", "repMtu"}) \/ (cmd.op = "ADD" /\ cmd.err) => Home /\ cmd.undo = {}
        /\ cmd.op = "ADD" /\ cmd.err => ~IsSaved(cache[cmd.pod])
        /\ Adding({"repUp", "master", "vlans", "admin"} \cup SetupCalls) =>
             RepKept(c, o) /\ leases = {}
        /\ Adding({"repUp", "master", "vlans", "admin"}) => vf \in HomeVf /\ adminMac = Orig
        /\ Adding(AddCalls) => o.name = "orig"
        /\ Adding(SetupCalls) => AdminKept(c, o)
        /\ Adding({"vfDown", "vfTemp", "vfMac"}) => vf.mac = Orig
        /\ Adding({"vfDown", "vfTemp", "vfMac", "vfMtu"}) => vf.mtu = Orig
        /\ Adding({"vfMtu", "vfMove", "vfPod", "vfUp"}) => MacKept(c, o)
        /\ Adding({"vfMove", "vfPod", "vfUp"}) => MtuKept(c, o)
        /\ Adding(Saving \cup {"devInfo", "print", "close"}) /\ ~cmd.err =>
             Undoable(cmd.pod, c, o)

DelRestores ==
  LET c == cmd.conf  o == cmd.orig
  IN  ~faults.grave =>
        /\ Deleting(DetachCalls \cup {"delIpam", "getns", "relDown"}) => Undoable(cmd.pod, c, o)
        /\ Deleting({"detMaster"}) => rep.mtu = Orig
        /\ Deleting(DelCalls) => rep \in HomeRep /\ AdminKept(c, o)
        /\ Deleting(DelCalls \ {"delIpam"}) => leases = {}
        /\ Deleting(ReleaseCalls) => o.name = "orig" /\ MacKept(c, o) /\ MtuKept(c, o)
        /\ Deleting({"relDown"}) => Found
        /\ Deleting({"relMac", "relMtu", "relMove"}) => vf.name = "orig"
        /\ Deleting({"relMtu", "relMove"}) => vf.mac = Orig
        /\ Deleting({"relMove"}) => vf.mtu = Orig
        /\ Deleting({"reset"}) => vf \in HomeVf
        /\ Deleting({"clean"}) => IF cmd.err THEN Undoable(cmd.pod, c, o) ELSE Home

\* Between the commands of a pod, its file says how to restore what is not
\* as it was.
RestAt(p) ==
  IF IsSaved(cache[p]) THEN Undoable(p, cache[p].conf, cache[p].orig) ELSE Home
RestRestorable ==
  ~faults.grave =>
    /\ owner = NoPod => Home
    /\ owner # NoPod /\ (cmd.pod # owner \/ cmd.pc \in {"load", "exit"}) => RestAt(owner)

Restorable == AddRestorable /\ DelRestores /\ RestRestorable

\* An address belongs to a pod whose file says so, or to an ADD that is going
\* to write that or to give the address back.
LeaseHeld ==
  \A p \in leases :
    /\ stage[p] # "done"
    /\ IF cmd.op = "ADD" /\ cmd.pod = p
       THEN /\ cmd.conf.ipam /\ "ipam" \in cmd.undo
            /\ cmd.pc \notin {"undoVf"} \cup DetachCalls
            /\ cmd.pc = "exit" => ~cmd.err
       ELSE IsSaved(cache[p]) /\ cache[p].conf.ipam
    /\ cmd.op = "DEL" /\ cmd.pod = p =>
         /\ cmd.pc \notin DelCalls \ {"delIpam"}
         /\ cmd.pc \in {"clean", "exit"} => cmd.err /\ ~cmd.ok

\* So does a port on the bridge.
PortHeld ==
  rep.bridged =>
    /\ owner # NoPod
    /\ IF cmd.op = "ADD"
       THEN /\ cmd.pc # "vlans" => "rep" \in cmd.undo
            /\ cmd.pc = "exit" => ~cmd.err
       ELSE IsSaved(cache[owner])
    /\ cmd.op = "DEL" /\ cmd.pod = owner => cmd.pc \in DetachCalls \cup {"load"}

Mended == Restorable /\ LeaseHeld /\ PortHeld
================================================================================
