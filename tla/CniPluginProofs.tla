--------------------------- MODULE CniPluginProofs ---------------------------
(***************************************************************************)
(* Proofs about CniPlugin, for any number of pods and configurations, any  *)
(* failing calls and any bound on their number.                            *)
(***************************************************************************)
EXTENDS CniInvariants, TLAPS

(***************************************************************************)
(* Types.                                                                  *)
(***************************************************************************)
VfType == [ns : Pod \cup {Host}, name : {"orig", "temp", "pod"}, mac : Attr, mtu : Attr,
           up : BOOLEAN]
RepType == [bridged : BOOLEAN, mtu : Attr, up : BOOLEAN]
Entry == [conf : Conf, orig : Saved]
Typed == cmd \in Cmd /\ vf \in VfType /\ rep \in RepType

LEMMA FaultTypes ==
  ASSUME TypeOK, NEW l, Fault(l) PROVE faults' \in [count : 0 .. MaxFaults, grave : BOOLEAN]
  BY BoundAssumption DEF TypeOK, Fault, Harmless

LEMMA NoCmdType == NoCmd \in Cmd
  BY DEF NoCmd, Cmd, AnyPc, NoConf, Conf, NoSaved, Saved

LEMMA ToType == ASSUME cmd \in Cmd, NEW l \in AnyPc, To(l) PROVE cmd' \in Cmd
  BY DEF Cmd, To

LEMMA NoteType ==
  ASSUME cmd \in Cmd, NEW l \in AnyPc, NEW a \in Attr,
         \/ cmd' = [cmd EXCEPT !.pc = l, !.orig.repMtu = a]
         \/ cmd' = [cmd EXCEPT !.pc = l, !.orig.effMac = a]
         \/ cmd' = [cmd EXCEPT !.pc = l, !.orig.mtu = a]
  PROVE  cmd' \in Cmd
<1>1. CASE cmd' = [cmd EXCEPT !.pc = l, !.orig.repMtu = a]
  BY <1>1 DEF Cmd, Saved
<1>2. CASE cmd' = [cmd EXCEPT !.pc = l, !.orig.effMac = a]
  BY <1>2 DEF Cmd, Saved
<1>3. CASE cmd' = [cmd EXCEPT !.pc = l, !.orig.mtu = a]
  BY <1>3 DEF Cmd, Saved
<1> QED
  BY <1>1, <1>2, <1>3

\* The locals of a running command keep their types.
LEMMA CmdTypeStep ==
  ASSUME Typed, adminMac \in Attr, IsSaved(cache[cmd.pod]) => cache[cmd.pod] \in Entry, Step
  PROVE  cmd' \in Cmd
<1> USE DEF Typed, At, AnyPc, AddCalls, SetupCalls, DetachCalls, DelCalls
<1>a. vf.mac \in Attr /\ vf.mtu \in Attr /\ rep.mtu \in Attr
  BY DEF VfType, RepType
<1>1. CASE SetRepUp
  BY <1>1, ToType DEF SetRepUp
<1>2. CASE SetMaster
  BY <1>2, ToType DEF SetMaster
<1>3. CASE SetVfDown
  BY <1>3, ToType DEF SetVfDown
<1>4. CASE SetVfTempName
  BY <1>4, ToType DEF SetVfTempName
<1>5. CASE MoveVfToPod
  BY <1>5, ToType DEF MoveVfToPod
<1>6. CASE SetVfPodName
  BY <1>6, ToType DEF SetVfPodName
<1>7. CASE ConfigureIface
  BY <1>7, ToType DEF ConfigureIface
<1>8. CASE Save
  BY <1>8, ToType DEF Save
<1>9. CASE UndoIpam
  BY <1>9, ToType DEF UndoIpam
<1>10. CASE UndoVf
  BY <1>10, ToType DEF UndoVf
<1>11. CASE SetRepDown
  BY <1>11, ToType DEF SetRepDown
<1>12. CASE RestoreRepMtu
  BY <1>12, ToType DEF RestoreRepMtu
<1>13. CASE ExecIpamDel
  BY <1>13, ToType DEF ExecIpamDel
<1>14. CASE ReleaseDown
  BY <1>14, ToType DEF ReleaseDown
<1>15. CASE ReleaseName
  BY <1>15, ToType DEF ReleaseName
<1>16. CASE ReleaseMac
  BY <1>16, ToType DEF ReleaseMac
<1>17. CASE ReleaseMtu
  BY <1>17, ToType DEF ReleaseMtu
<1>18. CASE MoveVfToHost
  BY <1>18, ToType DEF MoveVfToHost
<1>19. CASE ResetVFConfig
  BY <1>19, ToType DEF ResetVFConfig
<1>20. CASE Clean
  BY <1>20, ToType DEF Clean
<1>21. CASE SetNoMaster
  BY <1>21, ToType DEF SetNoMaster, AfterDetach
<1>22. CASE DetachFails
  BY <1>22, ToType DEF DetachFails, AfterDetach
<1>23. CASE OpenNetns
  BY <1>23 DEF OpenNetns, Cmd
<1>24. CASE SetVlans
  BY <1>24 DEF SetVlans, Cmd
<1>25. CASE ApplyVFConfig
  BY <1>25 DEF ApplyVFConfig, Cmd, Saved
<1>26. CASE SetVfUp
  BY <1>26 DEF SetVfUp, Cmd
<1>27. CASE AddFails
  BY <1>27 DEF AddFails, Cmd
<1>28. CASE CloseNetns
  BY <1>28 DEF CloseNetns, Cmd
<1>29. CASE ReleaseNotFound
  BY <1>29 DEF ReleaseNotFound, Cmd
<1>30. CASE DelFails
  BY <1>30 DEF DelFails, Cmd
<1>31. CASE SetRepMtu
  <2>1. CASE cmd' = [cmd EXCEPT !.pc = "repUp", !.orig.repMtu = rep.mtu]
    BY <2>1, <1>a, NoteType
  <2>2. CASE To("repUp")
    BY <1>31, <2>2, ToType
  <2> QED
    BY <1>31, <2>1, <2>2 DEF SetRepMtu
<1>32. CASE SetVfMac
  <2>1. CASE cmd' = [cmd EXCEPT !.pc = "vfMtu", !.orig.effMac = vf.mac]
    BY <2>1, <1>a, NoteType
  <2>2. CASE To("vfMtu")
    BY <1>32, <2>2, ToType
  <2> QED
    BY <1>32, <2>1, <2>2 DEF SetVfMac
<1>33. CASE SetVfMtu
  <2>1. CASE cmd' = [cmd EXCEPT !.pc = "vfMove", !.orig.mtu = vf.mtu]
    BY <2>1, <1>a, NoteType
  <2>2. CASE To("vfMove")
    BY <1>33, <2>2, ToType
  <2> QED
    BY <1>33, <2>1, <2>2 DEF SetVfMtu
<1>34. CASE ExecIpamAdd
  <2>1. CASE cmd' = [cmd EXCEPT !.pc = "ipamConf", !.undo = @ \cup {"ipam"}]
    BY <1>34, <2>1 DEF Cmd
  <2>2. CASE To("save")
    BY <1>34, <2>2, ToType
  <2> QED
    BY <1>34, <2>1, <2>2 DEF ExecIpamAdd
<1>35. CASE UpdateDeviceInfo
  <2>1. CASE To("print")
    BY <1>35, <2>1, ToType
  <2>2. CASE cmd' = [cmd EXCEPT !.pc = "print", !.err = TRUE]
    BY <1>35, <2>2 DEF Cmd
  <2> QED
    BY <1>35, <2>1, <2>2 DEF UpdateDeviceInfo
<1>36. CASE PrintResult
  <2>1. CASE To("close")
    BY <1>36, <2>1, ToType
  <2>2. CASE cmd' = [cmd EXCEPT !.pc = "close", !.ok = FALSE]
    BY <1>36, <2>2 DEF Cmd
  <2> QED
    BY <1>36, <2>1, <2>2 DEF PrintResult
<1>37. CASE GetNS
  <2>1. CASE cmd' = [cmd EXCEPT !.pc = IF cmd.conf.userspace THEN "reset" ELSE "relDown"]
    BY <1>37, <2>1 DEF Cmd
  <2>2. CASE cmd' = [cmd EXCEPT !.pc = "clean", !.err = TRUE]
    BY <1>37, <2>2 DEF Cmd
  <2> QED
    BY <1>37, <2>1, <2>2 DEF GetNS
<1>38. CASE Load
  <2>1. CASE To("exit")
    BY <2>1, ToType
  <2>2. CASE ~To("exit")
    <3>1. /\ cmd' = [cmd EXCEPT !.pc = "detDown", !.conf = cache[cmd.pod].conf,
                                !.orig = cache[cmd.pod].orig]
          /\ cache[cmd.pod] \in Entry
      BY <1>38, <2>2 DEF Load, IsSaved
    <3> QED
      BY <3>1 DEF Cmd, Entry
  <2> QED
    BY <2>1, <2>2
<1>39. CASE AddExits \/ DelExits
  BY <1>39, NoCmdType DEF AddExits, DelExits
<1> QED
  BY <1>1, <1>2, <1>3, <1>4, <1>5, <1>6, <1>7, <1>8, <1>9, <1>10, <1>11, <1>12,
     <1>13, <1>14, <1>15, <1>16, <1>17, <1>18, <1>19, <1>20, <1>21, <1>22, <1>23,
     <1>24, <1>25, <1>26, <1>27, <1>28, <1>29, <1>30, <1>31, <1>32, <1>33, <1>34,
     <1>35, <1>36, <1>37, <1>38, <1>39 DEF Step

(***************************************************************************)
(* What each call changes, field by field: the form in which the lemmas    *)
(* below use the actions.                                                  *)
(***************************************************************************)
Same == cmd'.op = cmd.op /\ cmd'.pod = cmd.pod /\ cmd'.conf = cmd.conf
Flags == cmd'.err = cmd.err /\ cmd'.ok = cmd.ok
Handlers == cmd'.open = cmd.open /\ cmd'.undo = cmd.undo
From(l, m) == cmd.pc = l /\ cmd'.pc = m /\ Same
Goes(l, m) == From(l, m) /\ cmd'.orig = cmd.orig /\ Flags /\ Handlers
Raises(e, k) == cmd'.err = e /\ cmd'.ok = k /\ cmd'.orig = cmd.orig
VfIs(ns, name, mac, mtu, up) ==
  vf'.ns = ns /\ vf'.name = name /\ vf'.mac = mac /\ vf'.mtu = mtu /\ vf'.up = up
RepIs(bridged, mtu, up) == rep'.bridged = bridged /\ rep'.mtu = mtu /\ rep'.up = up
OrigIs(name, effMac, mtu, admin, repMtu) ==
  /\ cmd'.orig.name = name /\ cmd'.orig.effMac = effMac /\ cmd'.orig.mtu = mtu
  /\ cmd'.orig.adminMac = admin /\ cmd'.orig.repMtu = repMtu
OnlyAdmin == UNCHANGED <<vf, rep, stored, node, faults>>
World == UNCHANGED <<vf, adminMac, rep, stored, node>>

LEMMA Going == ASSUME cmd \in Cmd, NEW l, NEW m, At(l), To(m) PROVE Goes(l, m)
  BY DEF Cmd, At, To, Goes, From, Same, Flags, Handlers

LEMMA SetRepUpDoes ==
  ASSUME Typed, SetRepUp
  PROVE  Goes("repUp", "master") /\ RepIs(rep.bridged, rep.mtu, TRUE) /\ OnlyRep
  BY Going DEF Typed, SetRepUp, RepIs, RepType, OnlyRep

LEMMA SetMasterDoes ==
  ASSUME Typed, SetMaster
  PROVE  Goes("master", "vlans") /\ RepIs(TRUE, rep.mtu, rep.up) /\ OnlyRep
  BY Going DEF Typed, SetMaster, RepIs, RepType, OnlyRep

LEMMA SetVfDownDoes ==
  ASSUME Typed, SetVfDown
  PROVE  Goes("vfDown", "vfTemp") /\ VfIs(vf.ns, vf.name, vf.mac, vf.mtu, FALSE) /\ OnlyVf
  BY Going DEF Typed, SetVfDown, VfIs, VfType, OnlyVf

LEMMA SetVfTempNameDoes ==
  ASSUME Typed, SetVfTempName
  PROVE  Goes("vfTemp", "vfMac") /\ VfIs(vf.ns, "temp", vf.mac, vf.mtu, vf.up) /\ OnlyVf
  BY Going DEF Typed, SetVfTempName, VfIs, VfType, OnlyVf

LEMMA MoveVfToPodDoes ==
  ASSUME Typed, MoveVfToPod
  PROVE  Goes("vfMove", "vfPod") /\ VfIs(cmd.pod, vf.name, vf.mac, vf.mtu, vf.up) /\ OnlyVf
  BY Going DEF Typed, MoveVfToPod, VfIs, VfType, OnlyVf

LEMMA SetVfPodNameDoes ==
  ASSUME Typed, SetVfPodName
  PROVE  Goes("vfPod", "vfUp") /\ VfIs(vf.ns, "pod", vf.mac, vf.mtu, vf.up) /\ OnlyVf
  BY Going DEF Typed, SetVfPodName, VfIs, VfType, OnlyVf

LEMMA OpenNetnsDoes ==
  ASSUME Typed, OpenNetns
  PROVE  /\ From("open", "repMtu") /\ cmd'.orig = cmd.orig /\ Flags /\ cmd'.undo = cmd.undo
         /\ OnlyCmd
  BY DEF Typed, OpenNetns, Cmd, From, Same, Flags, At

LEMMA SetVlansDoes ==
  ASSUME Typed, SetVlans
  PROVE  /\ From("vlans", "admin") /\ cmd'.orig = cmd.orig /\ Flags /\ cmd'.open = cmd.open
         /\ cmd'.undo = cmd.undo \cup {"rep"} /\ OnlyCmd
  BY DEF Typed, SetVlans, Cmd, From, Same, Flags, At

LEMMA SetVfUpDoes ==
  ASSUME Typed, SetVfUp
  PROVE  /\ From("vfUp", "ipamAdd") /\ cmd'.orig = cmd.orig /\ Flags /\ cmd'.open = cmd.open
         /\ cmd'.undo = cmd.undo \cup {"vf"}
         /\ VfIs(vf.ns, vf.name, vf.mac, vf.mtu, TRUE) /\ OnlyVf
  BY DEF Typed, SetVfUp, Cmd, From, Same, Flags, At, VfIs, VfType, OnlyVf

LEMMA ApplyVFConfigDoes ==
  ASSUME Typed, ApplyVFConfig
  PROVE  /\ From("admin", IF cmd.conf.userspace THEN "ipamAdd" ELSE "vfDown") /\ Flags /\ Handlers
         /\ OrigIs(cmd.orig.name, cmd.orig.effMac, cmd.orig.mtu, adminMac, cmd.orig.repMtu)
         /\ adminMac' = (IF cmd.conf.mac THEN cmd.pod ELSE adminMac) /\ OnlyAdmin
  BY DEF Typed, ApplyVFConfig, Cmd, Saved, From, Same, Flags, Handlers, OrigIs, OnlyAdmin, At

LEMMA SetRepMtuDoes ==
  ASSUME Typed, SetRepMtu
  PROVE  /\ From("repMtu", "repUp") /\ Flags /\ Handlers
         /\ OrigIs(cmd.orig.name, cmd.orig.effMac, cmd.orig.mtu, cmd.orig.adminMac,
                   IF cmd.conf.mtu THEN rep.mtu ELSE cmd.orig.repMtu)
         /\ RepIs(rep.bridged, IF cmd.conf.mtu THEN cmd.pod ELSE rep.mtu, rep.up) /\ OnlyRep
<1> USE DEF Typed, From, Same, Flags, Handlers, OrigIs, RepIs, RepType, At
<1>1. CASE cmd.conf.mtu
  <2>1. /\ cmd' = [cmd EXCEPT !.pc = "repUp", !.orig.repMtu = rep.mtu]
        /\ rep' = [rep EXCEPT !.mtu = cmd.pod]
    BY <1>1 DEF SetRepMtu
  <2> QED
    BY <1>1, <2>1 DEF Typed, SetRepMtu, Cmd, Saved
<1>2. CASE ~cmd.conf.mtu
  <2>1. Goes("repMtu", "repUp") /\ rep' = rep
    BY <1>2, Going DEF Typed, SetRepMtu
  <2> QED
    BY <1>2, <2>1 DEF SetRepMtu, Goes
<1> QED
  BY <1>1, <1>2

LEMMA SetVfMacDoes ==
  ASSUME Typed, SetVfMac
  PROVE  /\ From("vfMac", "vfMtu") /\ Flags /\ Handlers
         /\ OrigIs(cmd.orig.name,
                   IF cmd.conf.mac THEN vf.mac ELSE cmd.orig.effMac,
                   cmd.orig.mtu, cmd.orig.adminMac, cmd.orig.repMtu)
         /\ VfIs(vf.ns, vf.name, IF cmd.conf.mac THEN cmd.pod ELSE vf.mac, vf.mtu, vf.up) /\ OnlyVf
<1> USE DEF Typed, From, Same, Flags, Handlers, OrigIs, VfIs, VfType, At
<1>1. CASE cmd.conf.mac
  <2>1. /\ cmd' = [cmd EXCEPT !.pc = "vfMtu", !.orig.effMac = vf.mac]
        /\ vf' = [vf EXCEPT !.mac = cmd.pod]
    BY <1>1 DEF SetVfMac
  <2> QED
    BY <1>1, <2>1 DEF Typed, SetVfMac, Cmd, Saved
<1>2. CASE ~cmd.conf.mac
  <2>1. Goes("vfMac", "vfMtu") /\ vf' = vf
    BY <1>2, Going DEF Typed, SetVfMac
  <2> QED
    BY <1>2, <2>1 DEF SetVfMac, Goes
<1> QED
  BY <1>1, <1>2

LEMMA SetVfMtuDoes ==
  ASSUME Typed, SetVfMtu
  PROVE  /\ From("vfMtu", "vfMove") /\ Flags /\ Handlers
         /\ OrigIs(cmd.orig.name, cmd.orig.effMac,
                   IF cmd.conf.mtu THEN vf.mtu ELSE cmd.orig.mtu,
                   cmd.orig.adminMac, cmd.orig.repMtu)
         /\ VfIs(vf.ns, vf.name, vf.mac, IF cmd.conf.mtu THEN cmd.pod ELSE vf.mtu, vf.up) /\ OnlyVf
<1> USE DEF Typed, From, Same, Flags, Handlers, OrigIs, VfIs, VfType, At
<1>1. CASE cmd.conf.mtu
  <2>1. /\ cmd' = [cmd EXCEPT !.pc = "vfMove", !.orig.mtu = vf.mtu]
        /\ vf' = [vf EXCEPT !.mtu = cmd.pod]
    BY <1>1 DEF SetVfMtu
  <2> QED
    BY <1>1, <2>1 DEF Typed, SetVfMtu, Cmd, Saved
<1>2. CASE ~cmd.conf.mtu
  <2>1. Goes("vfMtu", "vfMove") /\ vf' = vf
    BY <1>2, Going DEF Typed, SetVfMtu
  <2> QED
    BY <1>2, <2>1 DEF SetVfMtu, Goes
<1> QED
  BY <1>1, <1>2

LEMMA ExecIpamAddDoes ==
  ASSUME Typed, ExecIpamAdd
  PROVE  /\ From("ipamAdd", IF cmd.conf.ipam THEN "ipamConf" ELSE "save")
         /\ cmd'.orig = cmd.orig /\ Flags /\ cmd'.open = cmd.open
         /\ cmd'.undo = (IF cmd.conf.ipam THEN cmd.undo \cup {"ipam"} ELSE cmd.undo)
         /\ leases' = (IF cmd.conf.ipam THEN leases \cup {cmd.pod} ELSE leases)
         /\ UNCHANGED <<vf, adminMac, rep, cache, node, faults>>
<1> USE DEF From, Same, Flags, At
<1>1. CASE cmd.conf.ipam
  <2>1. cmd' = [cmd EXCEPT !.pc = "ipamConf", !.undo = @ \cup {"ipam"}]
    BY <1>1 DEF ExecIpamAdd
  <2> QED
    BY <1>1, <2>1 DEF Typed, ExecIpamAdd, Cmd
<1>2. CASE ~cmd.conf.ipam
  BY <1>2, Going DEF Typed, ExecIpamAdd, Goes, Handlers
<1> QED
  BY <1>1, <1>2

LEMMA ConfigureIfaceDoes ==
  ASSUME Typed, ConfigureIface
  PROVE  Goes("ipamConf", "save") /\ OnlyCmd
  BY Going DEF Typed, ConfigureIface

LEMMA SaveDoes ==
  ASSUME Typed, Save
  PROVE  Goes("save", "devInfo") /\ cache' = [cache EXCEPT ![cmd.pod] = [conf |-> cmd.conf, orig |-> cmd.orig]]
         /\ UNCHANGED <<vf, adminMac, rep, leases, node, faults>>
  BY Going DEF Typed, Save

LEMMA UpdateDeviceInfoDoes ==
  ASSUME Typed, UpdateDeviceInfo
  PROVE  /\ From("devInfo", "print") /\ cmd'.orig = cmd.orig /\ cmd'.ok = cmd.ok /\ Handlers
         /\ World
         /\ \/ cmd'.err = cmd.err /\ faults' = faults
            \/ cmd'.err = TRUE /\ Fault("devInfo")
<1>1. CASE To("print") /\ OnlyCmd
  BY <1>1, Going DEF Typed, UpdateDeviceInfo, Goes, Flags, OnlyCmd, World
<1>2. CASE Fault("devInfo") /\ cmd' = [cmd EXCEPT !.pc = "print", !.err = TRUE] /\ World
  BY <1>2 DEF Typed, UpdateDeviceInfo, Cmd, From, Same, Handlers, At
<1> QED
  BY <1>1, <1>2 DEF UpdateDeviceInfo, World

LEMMA PrintResultDoes ==
  ASSUME Typed, PrintResult
  PROVE  /\ From("print", "close") /\ cmd'.orig = cmd.orig /\ cmd'.err = cmd.err /\ Handlers
         /\ World
         /\ \/ cmd'.ok = cmd.ok /\ faults' = faults
            \/ cmd'.ok = FALSE /\ Fault("print")
<1>1. CASE To("close") /\ OnlyCmd
  BY <1>1, Going DEF Typed, PrintResult, Goes, Flags, OnlyCmd, World
<1>2. CASE Fault("print") /\ cmd' = [cmd EXCEPT !.pc = "close", !.ok = FALSE] /\ World
  BY <1>2 DEF Typed, PrintResult, Cmd, From, Same, Handlers, At
<1> QED
  BY <1>1, <1>2 DEF PrintResult, World

LEMMA AddFailsDoes ==
  ASSUME Typed, AddFails
  PROVE  /\ cmd.pc \in AddCalls /\ From(cmd.pc, "close") /\ Raises(TRUE, FALSE) /\ cmd'.open = cmd.open
         /\ cmd'.undo = (IF cmd.pc \in SetupCalls THEN cmd.undo \cup {"vf"} ELSE cmd.undo)
         /\ Fault(cmd.pc) /\ UNCHANGED <<vf, adminMac, leases, node>>
         /\ \/ rep' = rep /\ (cmd.pc = "vlans" => "undoMaster" \in FaultyCalls)
            \/ cmd.pc = "vlans" /\ RepIs(FALSE, rep.mtu, rep.up)
         /\ \/ cache' = cache
            \/ cmd.pc = "save" /\ cache' = [cache EXCEPT ![cmd.pod] = Torn]
<1>1. /\ From(cmd.pc, "close") /\ Raises(TRUE, FALSE) /\ cmd'.open = cmd.open
      /\ cmd'.undo = (IF cmd.pc \in SetupCalls THEN cmd.undo \cup {"vf"} ELSE cmd.undo)
  BY DEF Typed, AddFails, Cmd, From, Same, Raises
<1>2. CASE At("vlans") /\ rep' = [rep EXCEPT !.bridged = FALSE]
  BY <1>1, <1>2 DEF Typed, AddFails, At, RepIs, RepType
<1>3. CASE (At("vlans") => "undoMaster" \in FaultyCalls) /\ rep' = rep
  BY <1>1, <1>3 DEF AddFails, At
<1> QED
  BY <1>2, <1>3 DEF AddFails

LEMMA CloseNetnsDoes ==
  ASSUME Typed, CloseNetns
  PROVE  /\ From("close", IF cmd.err THEN "undoIpam" ELSE "exit") /\ cmd'.orig = cmd.orig /\ Flags
         /\ cmd'.open = FALSE /\ cmd'.undo = cmd.undo /\ OnlyCmd
  BY DEF Typed, CloseNetns, Cmd, From, Same, Flags, At

LEMMA UndoIpamDoes ==
  ASSUME Typed, UndoIpam
  PROVE  Goes("undoIpam", "undoVf") /\ UNCHANGED <<vf, adminMac, rep, cache, node>>
         /\ \/ /\ leases' = (IF "ipam" \in cmd.undo THEN leases \ {cmd.pod} ELSE leases)
               /\ faults' = faults
            \/ "ipam" \in cmd.undo /\ Fault("undoIpam") /\ leases' = leases
  BY Going DEF Typed, UndoIpam

LEMMA UndoVfDoes ==
  ASSUME Typed, ~cmd.open, UndoVf
  PROVE  Goes("undoVf", IF "rep" \in cmd.undo THEN "detDown" ELSE "exit") /\ OnlyCmd
  BY Going DEF Typed, UndoVf, OnlyVf, OnlyCmd

LEMMA SetRepDownDoes ==
  ASSUME Typed, SetRepDown
  PROVE  Goes("detDown", "detMtu") /\ RepIs(rep.bridged, rep.mtu, FALSE) /\ OnlyRep
  BY Going DEF Typed, SetRepDown, RepIs, RepType, OnlyRep

LEMMA RestoreRepMtuDoes ==
  ASSUME Typed, RestoreRepMtu
  PROVE  /\ Goes("detMtu", "detMaster") /\ OnlyRep
         /\ RepIs(rep.bridged, IF cmd.conf.mtu THEN cmd.orig.repMtu ELSE rep.mtu, rep.up)
<1>1. CASE cmd.conf.mtu
  <2>1. rep' = [rep EXCEPT !.mtu = cmd.orig.repMtu]
    BY <1>1 DEF RestoreRepMtu
  <2> QED
    BY <1>1, <2>1, Going DEF Typed, RestoreRepMtu, RepIs, RepType
<1>2. CASE ~cmd.conf.mtu
  BY <1>2, Going DEF Typed, RestoreRepMtu, RepIs
<1> QED
  BY <1>1, <1>2

LEMMA SetNoMasterDoes ==
  ASSUME Typed, SetNoMaster
  PROVE  Goes("detMaster", AfterDetach) /\ RepIs(FALSE, rep.mtu, rep.up) /\ OnlyRep
  BY Going DEF Typed, SetNoMaster, RepIs, RepType, OnlyRep

LEMMA DetachFailsDoes ==
  ASSUME Typed, DetachFails
  PROVE  /\ cmd.pc \in DetachCalls /\ Goes(cmd.pc, AfterDetach) /\ Made(cmd.pc, cmd.conf)
         /\ Fault(cmd.pc) /\ World
  BY Going DEF Typed, DetachFails, DetachCalls, World, At

LEMMA LoadDoes ==
  ASSUME Typed, Load
  PROVE  /\ cmd.pc = "load" /\ World
         /\ \/ /\ IsSaved(cache[cmd.pod]) /\ cmd'.pc = "detDown" /\ cmd'.op = cmd.op
               /\ cmd'.pod = cmd.pod /\ Flags
               /\ cmd'.conf = cache[cmd.pod].conf /\ cmd'.orig = cache[cmd.pod].orig
               /\ faults' = faults
            \/ /\ Goes("load", "exit")
               /\ (~IsSaved(cache[cmd.pod]) /\ faults' = faults) \/ Fault("load")
<1>1. CASE To("exit")
  <2>1. Goes("load", "exit")
    BY <1>1, Going DEF Typed, Load
  <2>2. (~IsSaved(cache[cmd.pod]) /\ faults' = faults) \/ Fault("load")
    <3>1. CASE cmd' = [cmd EXCEPT !.pc = "detDown", !.conf = cache[cmd.pod].conf,
                                 !.orig = cache[cmd.pod].orig]
      BY <2>1, <3>1 DEF Typed, Goes, From, Cmd
    <3> QED
      BY <3>1 DEF Load, IsSaved
  <2> QED
    BY <2>1, <2>2 DEF Load, World, At
<1>2. CASE ~To("exit")
  <2>1. /\ cmd' = [cmd EXCEPT !.pc = "detDown", !.conf = cache[cmd.pod].conf,
                              !.orig = cache[cmd.pod].orig]
        /\ IsSaved(cache[cmd.pod]) /\ faults' = faults
    BY <1>2 DEF Load, IsSaved
  <2> QED
    BY <2>1 DEF Typed, Load, World, At, Cmd, Flags
<1> QED
  BY <1>1, <1>2

LEMMA ExecIpamDelDoes ==
  ASSUME Typed, ExecIpamDel
  PROVE  Goes("delIpam", "getns") /\ UNCHANGED <<vf, adminMac, rep, cache, node, faults>>
         /\ leases' = (IF cmd.conf.ipam THEN leases \ {cmd.pod} ELSE leases)
  BY Going DEF Typed, ExecIpamDel

LEMMA GetNSDoes ==
  ASSUME Typed, GetNS
  PROVE  /\ cmd.pc = "getns" /\ Same /\ cmd'.orig = cmd.orig /\ cmd'.ok = cmd.ok /\ Handlers /\ OnlyCmd
         /\ \/ /\ netns[cmd.pod] = "open" /\ cmd'.err = cmd.err
               /\ cmd'.pc = IF cmd.conf.userspace THEN "reset" ELSE "relDown"
            \/ netns[cmd.pod] # "open" /\ cmd'.err = TRUE /\ cmd'.pc = "clean"
<1> USE DEF Typed, Cmd, Same, Handlers, At
<1>1. CASE netns[cmd.pod] = "open"
  <2>1. cmd' = [cmd EXCEPT !.pc = IF cmd.conf.userspace THEN "reset" ELSE "relDown"]
    BY <1>1 DEF GetNS
  <2> QED
    BY <1>1, <2>1 DEF GetNS
<1>2. CASE netns[cmd.pod] # "open"
  <2>1. cmd' = [cmd EXCEPT !.pc = "clean", !.err = TRUE]
    BY <1>2 DEF GetNS
  <2> QED
    BY <1>2, <2>1 DEF GetNS
<1> QED
  BY <1>1, <1>2

LEMMA ReleaseNotFoundDoes ==
  ASSUME Typed, ReleaseNotFound
  PROVE  /\ ~Found /\ From("relDown", "clean") /\ Raises(TRUE, FALSE) /\ Handlers /\ OnlyCmd
  BY DEF Typed, ReleaseNotFound, Cmd, From, Same, Raises, Handlers, At

LEMMA DelFailsDoes ==
  ASSUME Typed, DelFails
  PROVE  /\ cmd.pc \in DelCalls /\ From(cmd.pc, "clean") /\ Raises(TRUE, FALSE) /\ Handlers
         /\ Made(cmd.pc, cmd.conf) /\ Fault(cmd.pc) /\ World
  BY DEF Typed, DelFails, Cmd, From, Same, Raises, Handlers, World

LEMMA ReleaseDownDoes ==
  ASSUME Typed, ReleaseDown
  PROVE  Goes("relDown", "relName") /\ Found /\ VfIs(vf.ns, vf.name, vf.mac, vf.mtu, FALSE) /\ OnlyVf
  BY Going DEF Typed, ReleaseDown, VfIs, VfType, OnlyVf

LEMMA ReleaseNameDoes ==
  ASSUME Typed, ReleaseName
  PROVE  Goes("relName", "relMac") /\ VfIs(vf.ns, cmd.orig.name, vf.mac, vf.mtu, vf.up) /\ OnlyVf
  BY Going DEF Typed, ReleaseName, VfIs, VfType, OnlyVf

LEMMA ReleaseMacDoes ==
  ASSUME Typed, ReleaseMac
  PROVE  /\ Goes("relMac", "relMtu") /\ OnlyVf
         /\ VfIs(vf.ns, vf.name, IF cmd.conf.mac THEN cmd.orig.effMac ELSE vf.mac, vf.mtu, vf.up)
<1>1. CASE cmd.conf.mac
  <2>1. vf' = [vf EXCEPT !.mac = cmd.orig.effMac]
    BY <1>1 DEF ReleaseMac
  <2> QED
    BY <1>1, <2>1, Going DEF Typed, ReleaseMac, VfIs, VfType
<1>2. CASE ~cmd.conf.mac
  BY <1>2, Going DEF Typed, ReleaseMac, VfIs
<1> QED
  BY <1>1, <1>2

LEMMA ReleaseMtuDoes ==
  ASSUME Typed, ReleaseMtu
  PROVE  /\ Goes("relMtu", "relMove") /\ OnlyVf
         /\ VfIs(vf.ns, vf.name, vf.mac, IF cmd.conf.mtu THEN cmd.orig.mtu ELSE vf.mtu, vf.up)
<1>1. CASE cmd.conf.mtu
  <2>1. vf' = [vf EXCEPT !.mtu = cmd.orig.mtu]
    BY <1>1 DEF ReleaseMtu
  <2> QED
    BY <1>1, <2>1, Going DEF Typed, ReleaseMtu, VfIs, VfType
<1>2. CASE ~cmd.conf.mtu
  BY <1>2, Going DEF Typed, ReleaseMtu, VfIs
<1> QED
  BY <1>1, <1>2

LEMMA MoveVfToHostDoes ==
  ASSUME Typed, MoveVfToHost
  PROVE  Goes("relMove", "reset") /\ VfIs(Host, vf.name, vf.mac, vf.mtu, vf.up) /\ OnlyVf
  BY Going DEF Typed, MoveVfToHost, VfIs, VfType, OnlyVf

LEMMA ResetVFConfigDoes ==
  ASSUME Typed, ResetVFConfig
  PROVE  Goes("reset", "clean") /\ OnlyAdmin
         /\ adminMac' = IF cmd.conf.mac THEN cmd.orig.adminMac ELSE adminMac
  BY Going DEF Typed, ResetVFConfig, OnlyAdmin

LEMMA CleanDoes ==
  ASSUME Typed, Clean
  PROVE  Goes("clean", "exit") /\ UNCHANGED <<vf, adminMac, rep, leases, node>>
         /\ \/ /\ cache' = IF cmd.err THEN cache ELSE [cache EXCEPT ![cmd.pod] = NoEntry]
               /\ faults' = faults
            \/ ~cmd.err /\ Fault("clean") /\ cache' = cache
  BY Going DEF Typed, Clean

LEMMA StartAddDoes ==
  ASSUME NEW p \in Pod, NEW c \in Config, StartAdd(p, c)
  PROVE  /\ cmd.op = "none" /\ stage[p] = "new" /\ owner = NoPod
         /\ cmd'.op = "ADD" /\ cmd'.pod = p /\ cmd'.pc = "open" /\ cmd'.conf = c
         /\ OrigIs(vf.name, Unset, Unset, Unset, Unset)
         /\ ~cmd'.err /\ cmd'.ok /\ ~cmd'.open /\ cmd'.undo = {}
         /\ netns' = [netns EXCEPT ![p] = "open"] /\ stage' = [stage EXCEPT ![p] = "adding"]
         /\ owner' = p /\ UNCHANGED <<vf, adminMac, rep, stored, faults>>
<1>1. cmd' = [NoCmd EXCEPT !.op = "ADD", !.pod = p, !.pc = "open", !.conf = c,
                          !.orig.name = vf.name]
  BY DEF StartAdd
<1> QED
  BY <1>1 DEF StartAdd, NoCmd, NoSaved, OrigIs

LEMMA StartDelDoes ==
  ASSUME NEW p \in Pod, StartDel(p)
  PROVE  /\ cmd.op = "none"
         /\ \/ stage[p] \in {"up", "failed", "leaving", "aborting"}
            \/ RepeatDel /\ stage[p] = "done"
         /\ cmd'.op = "DEL" /\ cmd'.pod = p /\ cmd'.pc = "load" /\ cmd'.undo = {}
         /\ ~cmd'.err /\ cmd'.ok /\ ~cmd'.open
         /\ stage' = [stage EXCEPT ![p] = IF @ = "up" THEN "leaving"
                                          ELSE IF @ = "failed" THEN "aborting" ELSE @]
         /\ UNCHANGED <<vf, adminMac, rep, stored, netns, owner, faults>>
<1>1. cmd' = [NoCmd EXCEPT !.op = "DEL", !.pod = p, !.pc = "load"]
  BY DEF StartDel
<1> QED
  BY <1>1 DEF StartDel, NoCmd

(***************************************************************************)
(* The control flow.                                                       *)
(***************************************************************************)
\* A command at one of its calls is an ADD or a DEL that runs.
LEMMA Running == ASSUME Typed, Control, cmd.pc # "idle" PROVE cmd.op \in {"ADD", "DEL"}
  BY DEF Typed, Cmd, Control, NoCmd

\* Every step leaves the command where Control wants it.
LEMMA ControlKept == ASSUME Typed, Control, Next PROVE Control'
<1> USE DEF Goes, From, Same, Flags, Handlers, Raises, AddCalls, SetupCalls, DetachCalls,
            DelCalls, Adding, Deleting
<1>1. CASE \/ OpenNetns \/ SetRepMtu \/ SetRepUp \/ SetMaster \/ SetVlans
           \/ ApplyVFConfig \/ SetVfDown \/ SetVfTempName \/ SetVfMac \/ SetVfMtu
           \/ MoveVfToPod \/ SetVfPodName \/ SetVfUp \/ ExecIpamAdd \/ ConfigureIface
           \/ Save
  <2>1. CASE OpenNetns \/ SetRepMtu \/ SetRepUp \/ SetMaster
    BY Running, <2>1, OpenNetnsDoes, SetRepMtuDoes, SetRepUpDoes, SetMasterDoes DEF Control
  <2>2. CASE SetVlans \/ ApplyVFConfig \/ SetVfDown \/ SetVfTempName
    BY Running, <2>2, SetVlansDoes, ApplyVFConfigDoes, SetVfDownDoes, SetVfTempNameDoes
       DEF Control
  <2>3. CASE SetVfMac \/ SetVfMtu \/ MoveVfToPod \/ SetVfPodName
    BY Running, <2>3, SetVfMacDoes, SetVfMtuDoes, MoveVfToPodDoes, SetVfPodNameDoes
       DEF Control
  <2>4. CASE SetVfUp \/ ExecIpamAdd \/ ConfigureIface \/ Save
    BY Running, <2>4, SetVfUpDoes, ExecIpamAddDoes, ConfigureIfaceDoes, SaveDoes DEF Control
  <2> QED
    BY <1>1, <2>1, <2>2, <2>3, <2>4
<1>2. CASE UpdateDeviceInfo \/ PrintResult \/ AddFails
  BY <1>2, Running, UpdateDeviceInfoDoes, PrintResultDoes, AddFailsDoes DEF Control
<1>3. CASE CloseNetns \/ UndoIpam
  BY <1>3, Running, CloseNetnsDoes, UndoIpamDoes DEF Control
<1>4. CASE UndoVf
  <2>1. ~cmd.open
    BY <1>4, Running DEF Control, UndoVf, At
  <2> QED
    BY <1>4, <2>1, Running, UndoVfDoes DEF Control
<1>5. CASE SetRepDown \/ RestoreRepMtu \/ SetNoMaster \/ DetachFails
  BY <1>5, Running, SetRepDownDoes, RestoreRepMtuDoes, SetNoMasterDoes, DetachFailsDoes
     DEF Control, AfterDetach
<1>6. CASE Load \/ ExecIpamDel \/ GetNS \/ ReleaseNotFound \/ DelFails
  BY <1>6, Running, LoadDoes, ExecIpamDelDoes, GetNSDoes, ReleaseNotFoundDoes, DelFailsDoes
     DEF Control
<1>7. CASE ReleaseDown \/ ReleaseName \/ ReleaseMac \/ ReleaseMtu \/ MoveVfToHost \/ ResetVFConfig
           \/ Clean
  BY <1>7, Running, ReleaseDownDoes, ReleaseNameDoes, ReleaseMacDoes, ReleaseMtuDoes,
     MoveVfToHostDoes, ResetVFConfigDoes, CleanDoes DEF Control
<1>8. CASE AddExits \/ DelExits \/ Kill
  BY <1>8 DEF AddExits, DelExits, Kill, Control, NoCmd
<1>9. CASE \E p \in Pod : StartDel(p) \/ \E c \in Config : StartAdd(p, c)
  BY <1>9, StartAddDoes, StartDelDoes DEF Control
<1>10. CASE \E p \in Pod : DelWithoutNetns(p) \/ Vanish(p)
  BY <1>10 DEF DelWithoutNetns, Vanish, Control
<1> QED
  BY <1>1, <1>2, <1>3, <1>4, <1>5, <1>6, <1>7, <1>8, <1>9, <1>10 DEF Next, Step

(***************************************************************************)
(* Types, continued: the state around the command.                         *)
(***************************************************************************)
LEMMA TypedOK == ASSUME TypeOK PROVE Typed /\ adminMac \in Attr
  BY DEF TypeOK, Typed, VfType, RepType

\* No handler of ADD finds the VF: the namespace is closed by then.
LEMMA HandlerBlind == ASSUME Typed, Control, UndoVf PROVE ~cmd.open
  BY Running DEF Control, UndoVf, At, Adding, Deleting, DetachCalls, DelCalls

\* DEL writes back what was noted: an attribute, never the zero value.
LEMMA NotedTypes ==
  ASSUME Typed, Control, Noted, cmd.pc \in DetachCalls
  PROVE  cmd.conf.mtu => cmd.orig.repMtu \in Attr
  BY Running DEF Typed, Cmd, Control, Noted, Notes, Saved, Conf, Deleting, Adding, DetachCalls

LEMMA ReleasedTypes ==
  ASSUME Typed, Control, Noted, Deleting(DelCalls)
  PROVE  /\ cmd.conf.mac => cmd.orig.adminMac \in Attr
         /\ Deleting(ReleaseCalls) =>
              /\ cmd.orig.name \in {"orig", "temp", "pod"}
              /\ cmd.conf.mac => cmd.orig.effMac \in Attr
              /\ cmd.conf.mtu => cmd.orig.mtu \in Attr
  BY DEF Typed, Cmd, Noted, Notes, Saved, Conf, Deleting

\* The VF is changed by SetupVF and ReleaseVF and by a dying namespace.
LEMMA VfTypes == ASSUME TypeOK, Control, Noted, Next PROVE vf' \in VfType
<1>1. Typed
  BY TypedOK
<1>2. CASE vf' = vf
  BY <1>1, <1>2 DEF Typed
<1>3. CASE SetVfDown \/ SetVfTempName \/ SetVfPodName \/ SetVfUp
  BY <1>1, <1>3 DEF SetVfDown, SetVfTempName, SetVfPodName, SetVfUp, Typed, VfType
<1>4. CASE MoveVfToPod \/ SetVfMac \/ SetVfMtu
  <2>1. cmd.pod \in Pod
    BY <1>1, <1>4, Running DEF Control, MoveVfToPod, SetVfMac, SetVfMtu, At
  <2> QED
    BY <1>1, <1>2, <1>4, <2>1 DEF MoveVfToPod, SetVfMac, SetVfMtu, Typed, VfType, Attr
<1>5. CASE ReleaseDown \/ ReleaseName \/ ReleaseMac \/ ReleaseMtu \/ MoveVfToHost
  <2>1. Deleting(ReleaseCalls) /\ Deleting(DelCalls)
    BY <1>1, <1>5, Running DEF Control, ReleaseDown, ReleaseName, ReleaseMac, ReleaseMtu,
       MoveVfToHost, At, Deleting, ReleaseCalls, DelCalls, AddCalls, SetupCalls, DetachCalls
  <2> QED
    BY <1>1, <1>2, <1>5, <2>1, ReleasedTypes DEF ReleaseDown, ReleaseName, ReleaseMac,
       ReleaseMtu, MoveVfToHost, Typed, VfType
<1>6. CASE DelExits \/ \E p \in Pod : Vanish(p)
  BY <1>1, <1>2, <1>6 DEF DelExits, Vanish, SentHome, Typed, VfType
<1> QED
  BY <1>1, <1>2, <1>3, <1>4, <1>5, <1>6, HandlerBlind DEF Next, Step, OnlyCmd, OnlyRep,
     OpenNetns, SetRepMtu, SetRepUp, SetMaster, SetVlans, ApplyVFConfig, ExecIpamAdd,
     ConfigureIface, Save, UpdateDeviceInfo, PrintResult, AddFails, CloseNetns, UndoIpam,
     UndoVf, SetRepDown, RestoreRepMtu, SetNoMaster, DetachFails, Load, ExecIpamDel, GetNS,
     ReleaseNotFound, ResetVFConfig, DelFails, Clean, AddExits, Kill, StartAdd, StartDel,
     DelWithoutNetns

\* The cached files are configurations with what was noted, or torn.
LEMMA CacheTypes ==
  ASSUME TypeOK, Control, Next
  PROVE  cache' \in [Pod -> Entry \cup {NoEntry, Torn}]
<1>1. Typed /\ cache \in [Pod -> Entry \cup {NoEntry, Torn}]
  BY TypedOK DEF TypeOK, Entry
<1>2. CASE cache' = cache
  BY <1>1, <1>2
<1>3. CASE Save
  <2>1. [conf |-> cmd.conf, orig |-> cmd.orig] \in Entry
    BY <1>1 DEF Typed, Cmd, Entry
  <2> QED
    BY <1>1, <1>3, <2>1 DEF Save
<1>4. CASE AddFails \/ Clean \/ Kill
  BY <1>1, <1>2, <1>4 DEF AddFails, Clean, Kill
<1> QED
  BY <1>2, <1>3, <1>4 DEF Next, Step, OnlyCmd, OnlyRep, OnlyVf, stored, OpenNetns,
     SetRepMtu, SetRepUp, SetMaster, SetVlans, ApplyVFConfig, SetVfDown, SetVfTempName,
     SetVfMac, SetVfMtu, MoveVfToPod, SetVfPodName, SetVfUp, ExecIpamAdd, ConfigureIface,
     UpdateDeviceInfo, PrintResult, CloseNetns, UndoIpam, UndoVf, SetRepDown, RestoreRepMtu,
     SetNoMaster, DetachFails, Load, ExecIpamDel, GetNS, ReleaseDown, ReleaseNotFound,
     ReleaseName, ReleaseMac, ReleaseMtu, MoveVfToHost, ResetVFConfig, DelFails, AddExits,
     DelExits, StartAdd, StartDel, DelWithoutNetns, Vanish

\* The representor is changed by ADD up to its VLANs and by DetachRepresentor.
LEMMA RepTypes == ASSUME TypeOK, Control, Noted, Next PROVE rep' \in RepType
<1>1. Typed
  BY TypedOK
<1>2. CASE rep' = rep
  BY <1>1, <1>2 DEF Typed
<1>3. CASE SetRepUp \/ SetMaster \/ AddFails \/ SetRepDown \/ SetNoMaster
  BY <1>1, <1>2, <1>3 DEF SetRepUp, SetMaster, AddFails, SetRepDown, SetNoMaster, Typed,
     RepType
<1>4. CASE SetRepMtu
  <2>1. cmd.pod \in Pod
    BY <1>1, <1>4, Running DEF Control, SetRepMtu, At
  <2> QED
    BY <1>1, <1>2, <1>4, <2>1 DEF SetRepMtu, Typed, RepType, Attr
<1>5. CASE RestoreRepMtu
  BY <1>1, <1>2, <1>5, NotedTypes DEF RestoreRepMtu, At, DetachCalls, Typed, RepType
<1> QED
  BY <1>2, <1>3, <1>4, <1>5 DEF Next, Step, OnlyCmd, OnlyVf, OpenNetns, SetVlans,
     ApplyVFConfig, SetVfDown, SetVfTempName, SetVfMac, SetVfMtu, MoveVfToPod, SetVfPodName,
     SetVfUp, ExecIpamAdd, ConfigureIface, Save, UpdateDeviceInfo, PrintResult, CloseNetns,
     UndoIpam, UndoVf, DetachFails, Load, ExecIpamDel, GetNS, ReleaseDown, ReleaseNotFound,
     ReleaseName, ReleaseMac, ReleaseMtu, MoveVfToHost, ResetVFConfig, DelFails, Clean,
     AddExits, DelExits, Kill, StartAdd, StartDel, DelWithoutNetns, Vanish

\* The administrative MAC is set by ApplyVFConfig and given back by ResetVFConfig.
LEMMA AdminTypes == ASSUME TypeOK, Control, Noted, Next PROVE adminMac' \in Attr
<1>1. Typed /\ adminMac \in Attr
  BY TypedOK
<1>2. CASE ApplyVFConfig
  <2>1. cmd.pod \in Pod
    BY <1>1, <1>2, Running DEF Control, ApplyVFConfig, At
  <2> QED
    BY <1>1, <1>2, <2>1 DEF ApplyVFConfig, Attr
<1>3. CASE ResetVFConfig
  <2>1. Deleting(DelCalls)
    BY <1>1, <1>3, Running DEF Control, ResetVFConfig, At, Deleting, DelCalls, AddCalls,
       SetupCalls, DetachCalls
  <2> QED
    BY <1>1, <1>3, <2>1, ReleasedTypes DEF ResetVFConfig
<1> QED
  BY <1>1, <1>2, <1>3 DEF Next, Step, OnlyCmd, OnlyVf, OnlyRep, OpenNetns, SetRepMtu,
     SetRepUp, SetMaster, SetVlans, SetVfDown, SetVfTempName, SetVfMac, SetVfMtu,
     MoveVfToPod, SetVfPodName, SetVfUp, ExecIpamAdd, ConfigureIface, Save,
     UpdateDeviceInfo, PrintResult, AddFails, CloseNetns, UndoIpam, UndoVf, SetRepDown,
     RestoreRepMtu, SetNoMaster, DetachFails, Load, ExecIpamDel, GetNS, ReleaseDown,
     ReleaseNotFound, ReleaseName, ReleaseMac, ReleaseMtu, MoveVfToHost, DelFails, Clean,
     AddExits, DelExits, Kill, StartAdd, StartDel, DelWithoutNetns, Vanish

\* No step of a command is taken without one.
LEMMA IdleStops == ASSUME cmd = NoCmd PROVE ~Step
  BY DEF NoCmd, Step, At, AddCalls, SetupCalls, DelCalls, OpenNetns, SetRepMtu, SetRepUp,
     SetMaster, SetVlans, ApplyVFConfig, SetVfDown, SetVfTempName, SetVfMac, SetVfMtu,
     MoveVfToPod, SetVfPodName, SetVfUp, ExecIpamAdd, ConfigureIface, Save,
     UpdateDeviceInfo, PrintResult, AddFails, CloseNetns, UndoIpam, UndoVf, SetRepDown,
     RestoreRepMtu, SetNoMaster, DetachFails, Load, ExecIpamDel, GetNS, ReleaseDown,
     ReleaseNotFound, ReleaseName, ReleaseMac, ReleaseMtu, MoveVfToHost, ResetVFConfig,
     DelFails, Clean, AddExits, DelExits

\* The two commands make calls of their own, DetachRepresentor apart.
AddStep ==
  \/ OpenNetns \/ SetRepMtu \/ SetRepUp \/ SetMaster \/ SetVlans \/ ApplyVFConfig
  \/ SetVfDown \/ SetVfTempName \/ SetVfMac \/ SetVfMtu \/ MoveVfToPod
  \/ SetVfPodName \/ SetVfUp \/ ExecIpamAdd \/ ConfigureIface \/ Save
  \/ UpdateDeviceInfo \/ PrintResult \/ AddFails \/ CloseNetns \/ UndoIpam \/ UndoVf
DelStep ==
  \/ Load \/ ExecIpamDel \/ GetNS \/ ReleaseDown \/ ReleaseNotFound \/ ReleaseName
  \/ ReleaseMac \/ ReleaseMtu \/ MoveVfToHost \/ ResetVFConfig \/ DelFails \/ Clean

LEMMA AddStepAdds == ASSUME Typed, Control, AddStep PROVE cmd.op = "ADD"
  BY Running DEF AddStep, Control, At, AddCalls, SetupCalls, DetachCalls, DelCalls, OpenNetns,
     SetRepMtu, SetRepUp, SetMaster, SetVlans, ApplyVFConfig, SetVfDown, SetVfTempName,
     SetVfMac, SetVfMtu, MoveVfToPod, SetVfPodName, SetVfUp, ExecIpamAdd, ConfigureIface,
     Save, UpdateDeviceInfo, PrintResult, AddFails, CloseNetns, UndoIpam, UndoVf

LEMMA DelStepDeletes == ASSUME Typed, Control, DelStep PROVE cmd.op = "DEL"
  BY Running DEF DelStep, Control, At, AddCalls, SetupCalls, DetachCalls, DelCalls, Load,
     ExecIpamDel, GetNS, ReleaseDown, ReleaseNotFound, ReleaseName, ReleaseMac, ReleaseMtu,
     MoveVfToHost, ResetVFConfig, DelFails, Clean

\* The runtime's records are changed where commands begin and end.
LEMMA RuntimeTypes ==
  ASSUME TypeOK, Control, Next
  PROVE  /\ netns' \in [Pod -> {"none", "open", "gone"}]
         /\ stage' \in [Pod -> {"new", "adding", "up", "failed", "leaving", "aborting", "done"}]
         /\ owner' \in Pod \cup {NoPod}
<1>1. CASE UNCHANGED node
  BY <1>1 DEF TypeOK, node
<1>2. CASE AddExits \/ DelExits \/ Kill
  BY <1>2 DEF AddExits, DelExits, Kill, TypeOK, node
<1>3. CASE \E p \in Pod : \/ StartDel(p) \/ DelWithoutNetns(p) \/ Vanish(p)
                         \/ \E c \in Config : StartAdd(p, c)
  <2>1. CASE \E p \in Pod : StartDel(p)
    BY <2>1 DEF StartDel, TypeOK
  <2>2. CASE \E p \in Pod : DelWithoutNetns(p)
    BY <2>2 DEF DelWithoutNetns, TypeOK
  <2>3. CASE \E p \in Pod : Vanish(p)
    BY <2>3 DEF Vanish, TypeOK
  <2>4. CASE \E p \in Pod, c \in Config : StartAdd(p, c)
    BY <2>4 DEF StartAdd, TypeOK
  <2> QED
    BY <1>3, <2>1, <2>2, <2>3, <2>4
<1> QED
  BY <1>1, <1>2, <1>3 DEF Next, Step, OnlyCmd, OnlyRep, OnlyVf, OpenNetns, SetRepMtu,
     SetRepUp, SetMaster, SetVlans, ApplyVFConfig, SetVfDown, SetVfTempName, SetVfMac,
     SetVfMtu, MoveVfToPod, SetVfPodName, SetVfUp, ExecIpamAdd, ConfigureIface, Save,
     UpdateDeviceInfo, PrintResult, AddFails, CloseNetns, UndoIpam, UndoVf, SetRepDown,
     RestoreRepMtu, SetNoMaster, DetachFails, Load, ExecIpamDel, GetNS, ReleaseDown,
     ReleaseNotFound, ReleaseName, ReleaseMac, ReleaseMtu, MoveVfToHost, ResetVFConfig,
     DelFails, Clean

LEMMA LeaseTypes == ASSUME TypeOK, Control, Next PROVE leases' \subseteq Pod
<1>1. CASE UNCHANGED leases
  BY <1>1 DEF TypeOK
<1>2. CASE ExecIpamAdd
  <2>1. cmd.pod \in Pod
    BY <1>2, TypedOK, Running DEF Control, ExecIpamAdd, At
  <2> QED
    BY <1>2, <2>1 DEF ExecIpamAdd, TypeOK
<1>3. CASE ExecIpamDel \/ UndoIpam
  BY <1>3 DEF ExecIpamDel, UndoIpam, TypeOK
<1> QED
  BY <1>1, <1>2, <1>3 DEF Next, Step, OnlyCmd, OnlyRep, OnlyVf, stored, OpenNetns,
     SetRepMtu, SetRepUp, SetMaster, SetVlans, ApplyVFConfig, SetVfDown, SetVfTempName,
     SetVfMac, SetVfMtu, MoveVfToPod, SetVfPodName, SetVfUp, ConfigureIface, Save,
     UpdateDeviceInfo, PrintResult, AddFails, CloseNetns, UndoVf, SetRepDown, RestoreRepMtu,
     SetNoMaster, DetachFails, Load, GetNS, ReleaseDown, ReleaseNotFound, ReleaseName,
     ReleaseMac, ReleaseMtu, MoveVfToHost, ResetVFConfig, DelFails, Clean, AddExits,
     DelExits, Kill, StartAdd, StartDel, DelWithoutNetns, Vanish

\* Failures are counted up to their bound, and what was grave stays grave.
LEMMA FaultsKept ==
  ASSUME TypeOK, Next
  PROVE  /\ faults' \in [count : 0 .. MaxFaults, grave : BOOLEAN]
         /\ faults.grave => faults'.grave
<1>1. CASE UNCHANGED faults
  BY <1>1 DEF TypeOK
<1>2. CASE \E l \in FaultyCalls : Fault(l)
  BY <1>2, FaultTypes DEF TypeOK, Fault
<1>3. CASE \E p \in Pod : Vanish(p)
  BY <1>3 DEF Vanish, TypeOK
<1> QED
  BY <1>1, <1>2, <1>3 DEF Next, Step, OnlyCmd, OnlyRep, OnlyVf, Fault, OpenNetns,
     SetRepMtu, SetRepUp, SetMaster, SetVlans, ApplyVFConfig, SetVfDown, SetVfTempName,
     SetVfMac, SetVfMtu, MoveVfToPod, SetVfPodName, SetVfUp, ExecIpamAdd, ConfigureIface,
     Save, UpdateDeviceInfo, PrintResult, AddFails, CloseNetns, UndoIpam, UndoVf,
     SetRepDown, RestoreRepMtu, SetNoMaster, DetachFails, Load, ExecIpamDel, GetNS,
     ReleaseDown, ReleaseNotFound, ReleaseName, ReleaseMac, ReleaseMtu, MoveVfToHost,
     ResetVFConfig, DelFails, Clean, AddExits, DelExits, Kill, StartAdd, StartDel,
     DelWithoutNetns

LEMMA CmdTypes == ASSUME TypeOK, Control, Next PROVE cmd' \in Cmd
<1>1. Typed /\ adminMac \in Attr
  BY TypedOK
<1>2. CASE Step
  <2>1. cmd.pod \in Pod => (IsSaved(cache[cmd.pod]) => cache[cmd.pod] \in Entry)
    BY DEF TypeOK, IsSaved, Entry
  <2>2. CASE cmd.pod \in Pod
    BY <1>1, <1>2, <2>1, <2>2, CmdTypeStep
  <2>3. CASE cmd.pod \notin Pod
    <3>1. cmd = NoCmd
      BY <1>1, <2>3 DEF Control
    <3> QED
      BY <1>2, <3>1, IdleStops
  <2> QED
    BY <2>2, <2>3
<1>3. CASE \E p \in Pod : \E c \in Config : StartAdd(p, c)
  <2>1. PICK p \in Pod, c \in Config : StartAdd(p, c)
    BY <1>3
  <2>2. vf.name \in {"orig", "temp", "pod"} /\ c \in Conf
    BY <1>1, ConfigAssumption DEF Typed, VfType
  <2>3. cmd' = [NoCmd EXCEPT !.op = "ADD", !.pod = p, !.pc = "open", !.conf = c,
                             !.orig.name = vf.name]
    BY <2>1 DEF StartAdd
  <2>4. [NoSaved EXCEPT !.name = vf.name] \in Saved
    BY <2>2 DEF NoSaved, Saved
  <2>5. cmd' = [NoCmd EXCEPT !.op = "ADD", !.pod = p, !.pc = "open", !.conf = c,
                             !.orig = [NoSaved EXCEPT !.name = vf.name]]
    BY <2>3 DEF NoCmd
  <2> QED
    BY <2>2, <2>4, <2>5, NoCmdType DEF Cmd, AnyPc, AddCalls
<1>4. CASE \E p \in Pod : StartDel(p)
  <2>1. PICK p \in Pod : cmd' = [NoCmd EXCEPT !.op = "DEL", !.pod = p, !.pc = "load"]
    BY <1>4 DEF StartDel
  <2> QED
    BY <2>1, NoCmdType DEF Cmd, AnyPc
<1>5. CASE Kill \/ \E p \in Pod : DelWithoutNetns(p) \/ Vanish(p)
  BY <1>1, <1>5, NoCmdType DEF Kill, DelWithoutNetns, Vanish, Typed
<1> QED
  BY <1>2, <1>3, <1>4, <1>5 DEF Next

LEMMA TypesKept == ASSUME TypeOK, Control, Noted, Next PROVE TypeOK'
  BY CmdTypes, VfTypes, AdminTypes, RepTypes, LeaseTypes, CacheTypes, RuntimeTypes,
     FaultsKept DEF TypeOK, VfType, RepType, Entry

(***************************************************************************)
(* The runtime's view.                                                     *)
(***************************************************************************)
\* Within a command only its own pod's file, address and place of the VF
\* change, and nothing the runtime keeps.
Inside ==
  /\ cmd'.op = cmd.op /\ cmd'.pod = cmd.pod /\ UNCHANGED node
  /\ vf'.ns \in {vf.ns, Host} \/ (vf'.ns = cmd.pod /\ At("vfMove"))
  /\ leases' \subseteq leases \cup {cmd.pod}
  /\ \A p \in Pod : p # cmd.pod => cache'[p] = cache[p]

LEMMA StepInside == ASSUME TypeOK, Control, Step, ~AddExits, ~DelExits PROVE Inside
<1> USE DEF Inside, Goes, From, Same, VfIs, OnlyCmd, OnlyRep, OnlyVf, OnlyAdmin, World, stored
<1>1. Typed /\ cache \in [Pod -> Entry \cup {NoEntry, Torn}]
  BY TypedOK DEF TypeOK, Entry
<1>2. CASE \/ OpenNetns \/ SetRepMtu \/ SetRepUp \/ SetMaster \/ SetVlans
           \/ ApplyVFConfig \/ SetVfDown \/ SetVfTempName \/ SetVfMac \/ SetVfMtu
           \/ MoveVfToPod \/ SetVfPodName \/ SetVfUp
  BY <1>1, <1>2, OpenNetnsDoes, SetRepMtuDoes, SetRepUpDoes, SetMasterDoes, SetVlansDoes,
     ApplyVFConfigDoes, SetVfDownDoes, SetVfTempNameDoes, SetVfMacDoes, SetVfMtuDoes,
     MoveVfToPodDoes, SetVfPodNameDoes, SetVfUpDoes DEF At
<1>3. CASE ExecIpamAdd \/ ConfigureIface \/ UpdateDeviceInfo \/ PrintResult \/ CloseNetns
           \/ UndoIpam \/ UndoVf \/ SetRepDown \/ RestoreRepMtu \/ SetNoMaster \/ DetachFails
  BY <1>1, <1>3, HandlerBlind, ExecIpamAddDoes, ConfigureIfaceDoes, UpdateDeviceInfoDoes,
     PrintResultDoes, CloseNetnsDoes, UndoIpamDoes, UndoVfDoes, SetRepDownDoes,
     RestoreRepMtuDoes, SetNoMasterDoes, DetachFailsDoes
<1>4. CASE Save \/ AddFails \/ Clean
  BY <1>1, <1>4, SaveDoes, AddFailsDoes, CleanDoes
<1>5. CASE \/ Load \/ ExecIpamDel \/ GetNS \/ ReleaseDown \/ ReleaseNotFound \/ ReleaseName
           \/ ReleaseMac \/ ReleaseMtu \/ MoveVfToHost \/ ResetVFConfig \/ DelFails
  BY <1>1, <1>5, LoadDoes, ExecIpamDelDoes, GetNSDoes, ReleaseDownDoes, ReleaseNotFoundDoes,
     ReleaseNameDoes, ReleaseMacDoes, ReleaseMtuDoes, MoveVfToHostDoes, ResetVFConfigDoes,
     DelFailsDoes
<1> QED
  BY <1>2, <1>3, <1>4, <1>5 DEF Step

\* The namespace of p dies: everything in it goes to the host.
LEMMA SentHomeIs ==
  ASSUME vf \in VfType, NEW p \in Pod, vf' = SentHome(p)
  PROVE  /\ vf'.ns = (IF vf.ns = p THEN Host ELSE vf.ns)
         /\ vf'.name = vf.name /\ vf'.mac = vf.mac /\ vf'.mtu = vf.mtu
         /\ vf.ns # p => vf' = vf
  BY DEF VfType, SentHome

LEMMA StagesKept == ASSUME TypeOK, Control, Stages, Next PROVE Stages'
<1>1. Typed /\ Host \notin Pod /\ NoPod \notin Pod
  BY TypedOK, PodAssumption
<1>2. Control'
  BY <1>1, ControlKept
<1>3. CASE Step /\ ~AddExits /\ ~DelExits
  <2>1. Inside /\ cmd.op \in {"ADD", "DEL"} /\ cmd.pod \in Pod
    BY <1>1, <1>3, StepInside, IdleStops DEF Control, Typed, Cmd
  <2>2. At("vfMove") => cmd.op = "ADD"
    BY <1>1, Running DEF Control, At, DetachCalls, DelCalls
  <2> QED
    BY <1>1, <2>1, <2>2 DEF Inside, Stages, Live, node
<1>4. CASE AddExits
  BY <1>1, <1>4 DEF AddExits, Stages, Live, NoCmd, stored, TypeOK, Control
<1>5. CASE DelExits
  <2>1. cmd.pod \in Pod
    BY <1>5 DEF DelExits, Control
  <2>2. CASE cmd.ok
    BY <1>1, <1>5, <2>1, <2>2, SentHomeIs DEF DelExits, Stages, Live, NoCmd, stored, TypeOK,
       Typed
  <2>3. CASE ~cmd.ok
    BY <1>1, <1>5, <2>1, <2>3 DEF DelExits, Stages, Live, NoCmd, stored, node
  <2> QED
    BY <2>2, <2>3
<1>6. CASE Kill
  <2>1. cmd.op \in {"ADD", "DEL"} /\ cmd.pod \in Pod /\ cmd' = NoCmd
    BY <1>1, <1>6 DEF Kill, Control, Typed, Cmd
  <2>2. \A p \in Pod : stage[p] = "new" => cache'[p] = NoEntry
    BY <1>6, <2>1 DEF Kill, Stages, TypeOK
  <2>3. CASE cmd.op = "ADD"
    BY <1>1, <1>6, <2>1, <2>2, <2>3 DEF Kill, Stages, Live, NoCmd, TypeOK
  <2>4. CASE cmd.op = "DEL"
    BY <1>1, <1>6, <2>1, <2>2, <2>4 DEF Kill, Stages, Live, NoCmd, TypeOK
  <2> QED
    BY <2>1, <2>3, <2>4
<1>7. CASE \E p \in Pod : \E c \in Config : StartAdd(p, c)
  BY <1>1, <1>7, StartAddDoes DEF Stages, Live, stored, TypeOK
<1>8. CASE \E p \in Pod : StartDel(p)
  BY <1>1, <1>8, StartDelDoes DEF Stages, Live, stored, TypeOK
<1>9. CASE \E p \in Pod : DelWithoutNetns(p)
  BY <1>1, <1>9 DEF DelWithoutNetns, Stages, Live, stored, TypeOK
<1>10. CASE \E p \in Pod : Vanish(p)
  BY <1>1, <1>10, SentHomeIs DEF Vanish, Stages, Live, stored, TypeOK, Typed
<1> QED
  BY <1>3, <1>4, <1>5, <1>6, <1>7, <1>8, <1>9, <1>10 DEF Next

(***************************************************************************)
(* What was noted.                                                         *)
(***************************************************************************)
LEMMA UnsetIsNone == Unset \notin Attr /\ Unset \notin {"orig", "temp", "pod"}
  BY PodAssumption DEF Attr, Unset, Orig

\* A file is written or removed by Save, AddFails, Clean and Kill alone.
LEMMA OthersKeepCache ==
  ASSUME Next, ~Save, ~AddFails, ~Clean, ~Kill
  PROVE  cache' = cache
  BY DEF Next, Step, OnlyCmd, OnlyRep, OnlyVf, stored, OpenNetns, SetRepMtu,
     SetRepUp, SetMaster, SetVlans, ApplyVFConfig, SetVfDown, SetVfTempName, SetVfMac,
     SetVfMtu, MoveVfToPod, SetVfPodName, SetVfUp, ExecIpamAdd, ConfigureIface,
     UpdateDeviceInfo, PrintResult, CloseNetns, UndoIpam, UndoVf, SetRepDown, RestoreRepMtu,
     SetNoMaster, DetachFails, Load, ExecIpamDel, GetNS, ReleaseDown, ReleaseNotFound,
     ReleaseName, ReleaseMac, ReleaseMtu, MoveVfToHost, ResetVFConfig, DelFails, AddExits,
     DelExits, StartAdd, StartDel, DelWithoutNetns, Vanish

\* What a file says can be restored was noted before it was written.
NotedFiles == \A p \in Pod : IsSaved(cache[p]) => Notes(cache[p].conf, cache[p].orig)

LEMMA NotedFilesKept == ASSUME TypeOK, Control, Noted, Next PROVE NotedFiles'
<1>1. NotedFiles
  BY DEF Noted, NotedFiles
<1>2. CASE cache' = cache
  BY <1>1, <1>2 DEF NotedFiles, IsSaved, Notes
<1>3. CASE Save
  <2>1. Adding({"save"})
    BY <1>3, TypedOK, Running DEF Control, Save, At, Adding, DetachCalls, DelCalls
  <2>2. Notes(cmd.conf, cmd.orig)
    BY <2>1 DEF Noted, Notes, Saving, Adding
  <2>3. cache' = [cache EXCEPT ![cmd.pod] = [conf |-> cmd.conf, orig |-> cmd.orig]]
    BY <1>3 DEF Save
  <2> QED
    BY <1>1, <2>2, <2>3 DEF TypeOK, NotedFiles, IsSaved, Notes
<1>4. CASE AddFails \/ Clean \/ Kill
  BY <1>1, <1>2, <1>4 DEF AddFails, Clean, Kill, TypeOK, NotedFiles, IsSaved, Notes
<1> QED
  BY <1>2, <1>3, <1>4, OthersKeepCache

LEMMA NotedKept == ASSUME TypeOK, Control, Noted, Next PROVE Noted'
<1> USE DEF Goes, From, Same, Flags, Handlers, Raises, OrigIs, Adding, Deleting, Saving,
            SetupCalls, DetachCalls, DelCalls, ReleaseCalls
<1>1. Typed /\ vf.name # Unset /\ vf.mac # Unset /\ vf.mtu # Unset /\ rep.mtu # Unset
      /\ adminMac # Unset
  BY TypedOK, UnsetIsNone DEF Typed, VfType, RepType
<1>2. NotedFiles'
  BY NotedFilesKept
<1>3. CASE \/ OpenNetns \/ SetRepUp \/ SetMaster \/ SetVlans \/ SetVfDown \/ SetVfTempName
           \/ MoveVfToPod \/ SetVfPodName \/ SetVfUp \/ ExecIpamAdd \/ ConfigureIface \/ Save
  <2>1. CASE OpenNetns \/ SetRepUp \/ SetMaster \/ SetVlans
    BY <1>1, <1>2, Running, <2>1, OpenNetnsDoes, SetRepUpDoes, SetMasterDoes, SetVlansDoes
       DEF Control, Noted, NotedFiles
  <2>2. CASE SetVfDown \/ SetVfTempName \/ MoveVfToPod \/ SetVfPodName
    BY <1>1, <1>2, Running, <2>2, SetVfDownDoes, SetVfTempNameDoes, MoveVfToPodDoes,
       SetVfPodNameDoes DEF Control, Noted, NotedFiles
  <2>3. CASE SetVfUp \/ ExecIpamAdd \/ ConfigureIface \/ Save
    BY <1>1, <1>2, Running, <2>3, SetVfUpDoes, ExecIpamAddDoes, ConfigureIfaceDoes, SaveDoes
       DEF Control, Noted, NotedFiles
  <2> QED
    BY <1>3, <2>1, <2>2, <2>3
<1>4. CASE SetRepMtu \/ ApplyVFConfig \/ SetVfMac \/ SetVfMtu
  BY <1>1, <1>2, <1>4, Running, SetRepMtuDoes, ApplyVFConfigDoes, SetVfMacDoes, SetVfMtuDoes
     DEF Control, Noted, NotedFiles
<1>5. CASE UpdateDeviceInfo \/ PrintResult \/ AddFails \/ CloseNetns \/ UndoIpam \/ UndoVf
  BY <1>1, <1>2, <1>5, Running, HandlerBlind, UpdateDeviceInfoDoes, PrintResultDoes,
     AddFailsDoes, CloseNetnsDoes, UndoIpamDoes, UndoVfDoes DEF Control, Noted, NotedFiles
<1>6. CASE SetRepDown \/ RestoreRepMtu \/ SetNoMaster \/ DetachFails
  BY <1>1, <1>2, <1>6, Running, SetRepDownDoes, RestoreRepMtuDoes, SetNoMasterDoes,
     DetachFailsDoes DEF Control, Noted, NotedFiles, AfterDetach
<1>7. CASE Load
  BY <1>1, <1>2, <1>7, Running, LoadDoes DEF Control, Noted, NotedFiles, Notes
<1>8. CASE \/ ExecIpamDel \/ GetNS \/ ReleaseDown \/ ReleaseNotFound \/ ReleaseName
           \/ ReleaseMac \/ ReleaseMtu \/ MoveVfToHost \/ ResetVFConfig \/ DelFails \/ Clean
  <2>1. CASE ExecIpamDel \/ GetNS \/ ReleaseDown
    BY <1>1, <1>2, Running, <2>1, ExecIpamDelDoes, GetNSDoes, ReleaseDownDoes DEF Control,
       Noted, NotedFiles, Notes
  <2>2. CASE ReleaseNotFound \/ ReleaseName \/ ReleaseMac
    BY <1>1, <1>2, Running, <2>2, ReleaseNotFoundDoes, ReleaseNameDoes, ReleaseMacDoes
       DEF Control, Noted, NotedFiles, Notes
  <2>3. CASE ReleaseMtu \/ MoveVfToHost \/ ResetVFConfig
    BY <1>1, <1>2, Running, <2>3, ReleaseMtuDoes, MoveVfToHostDoes, ResetVFConfigDoes
       DEF Control, Noted, NotedFiles, Notes
  <2>4. CASE DelFails \/ Clean
    BY <1>1, <1>2, Running, <2>4, DelFailsDoes, CleanDoes DEF Control, Noted, NotedFiles,
       Notes
  <2> QED
    BY <1>8, <2>1, <2>2, <2>3, <2>4
<1>9. CASE AddExits \/ DelExits \/ Kill
  BY <1>2, <1>9 DEF AddExits, DelExits, Kill, NoCmd, Noted, NotedFiles
<1>10. CASE \E p \in Pod : StartDel(p) \/ \E c \in Config : StartAdd(p, c)
  BY <1>1, <1>2, <1>10, StartAddDoes, StartDelDoes DEF Noted, NotedFiles
<1>11. CASE \E p \in Pod : DelWithoutNetns(p) \/ Vanish(p)
  BY <1>2, <1>11 DEF DelWithoutNetns, Vanish, Noted, NotedFiles
<1> QED
  BY <1>3, <1>4, <1>5, <1>6, <1>7, <1>8, <1>9, <1>10, <1>11 DEF Next, Step

(***************************************************************************)
(* The file.                                                               *)
(***************************************************************************)
\* What a command holds is never taken for no file.
LEMMA SavedIsSaved ==
  ASSUME Typed
  PROVE  LET e == [conf |-> cmd.conf, orig |-> cmd.orig]
         IN  e \in Entry /\ IsSaved(e) /\ e.conf = cmd.conf /\ e.orig = cmd.orig
  BY EntryAssumption DEF Typed, Cmd, Entry, IsSaved

LEMMA OwnFileKept ==
  ASSUME TypeOK, Control, Stages, OwnFile, Next
  PROVE  OwnFile'
<1> USE DEF Goes, From, Same, Flags, Handlers, Raises, Adding, Deleting, AddCalls, SetupCalls,
            DetachCalls, DelCalls, OnlyCmd, OnlyRep, OnlyVf, OnlyAdmin, World, stored
<1>1. Typed /\ cache \in [Pod -> Entry \cup {NoEntry, Torn}]
  BY TypedOK DEF TypeOK, Entry
<1>2. cmd.pc # "idle" => cmd.pod \in Pod
  BY <1>1, Running DEF Control
<1>3. CASE \/ OpenNetns \/ SetRepMtu \/ SetRepUp \/ SetMaster \/ SetVlans
           \/ ApplyVFConfig \/ SetVfDown \/ SetVfTempName \/ SetVfMac \/ SetVfMtu
           \/ MoveVfToPod \/ SetVfPodName \/ SetVfUp \/ ExecIpamAdd \/ ConfigureIface
  BY <1>1, <1>3, Running, OpenNetnsDoes, SetRepMtuDoes, SetRepUpDoes, SetMasterDoes,
     SetVlansDoes, ApplyVFConfigDoes, SetVfDownDoes, SetVfTempNameDoes, SetVfMacDoes,
     SetVfMtuDoes, MoveVfToPodDoes, SetVfPodNameDoes, SetVfUpDoes, ExecIpamAddDoes,
     ConfigureIfaceDoes DEF Control, OwnFile
<1>4. CASE Save
  BY <1>1, <1>2, <1>4, Running, SaveDoes DEF Control, OwnFile
<1>5. CASE UpdateDeviceInfo \/ PrintResult \/ CloseNetns \/ UndoIpam \/ UndoVf
  <2>1. CASE UpdateDeviceInfo \/ PrintResult
    BY <1>1, Running, HandlerBlind, <2>1, UpdateDeviceInfoDoes, PrintResultDoes DEF Control,
       OwnFile, AnyPc
  <2>2. CASE CloseNetns \/ UndoIpam
    BY <1>1, Running, HandlerBlind, <2>2, CloseNetnsDoes, UndoIpamDoes DEF Control, OwnFile,
       AnyPc
  <2>3. CASE UndoVf
    BY <1>1, Running, HandlerBlind, <2>3, UndoVfDoes DEF Control, OwnFile, AnyPc
  <2> QED
    BY <1>5, <2>1, <2>2, <2>3
<1>6. CASE AddFails
  BY <1>1, <1>6, Running, AddFailsDoes DEF Control, OwnFile
<1>7. CASE SetRepDown \/ RestoreRepMtu \/ SetNoMaster \/ DetachFails
  BY <1>1, <1>7, Running, SetRepDownDoes, RestoreRepMtuDoes, SetNoMasterDoes,
     DetachFailsDoes DEF Control, OwnFile, AfterDetach, AnyPc
<1>8. CASE Load
  BY <1>1, <1>2, <1>8, Running, LoadDoes DEF Control, OwnFile, IsSaved, Entry
<1>9. CASE \/ ExecIpamDel \/ GetNS \/ ReleaseDown \/ ReleaseNotFound \/ ReleaseName
           \/ ReleaseMac \/ ReleaseMtu \/ MoveVfToHost \/ ResetVFConfig \/ DelFails \/ Clean
  <2>1. CASE ExecIpamDel \/ GetNS \/ ReleaseDown \/ ReleaseNotFound
    BY <1>1, Running, <2>1, ExecIpamDelDoes, GetNSDoes, ReleaseDownDoes, ReleaseNotFoundDoes
       DEF Control, OwnFile
  <2>2. CASE ReleaseName \/ ReleaseMac \/ ReleaseMtu \/ MoveVfToHost
    BY <1>1, Running, <2>2, ReleaseNameDoes, ReleaseMacDoes, ReleaseMtuDoes,
       MoveVfToHostDoes DEF Control, OwnFile
  <2>3. CASE ResetVFConfig \/ DelFails \/ Clean
    BY <1>1, Running, <2>3, ResetVFConfigDoes, DelFailsDoes, CleanDoes DEF Control, OwnFile
  <2> QED
    BY <1>9, <2>1, <2>2, <2>3
<1>10. CASE AddExits \/ DelExits \/ Kill
  BY <1>10 DEF AddExits, DelExits, Kill, NoCmd, OwnFile
<1>11. CASE \E p \in Pod : StartDel(p) \/ \E c \in Config : StartAdd(p, c)
  BY <1>11, StartAddDoes, StartDelDoes DEF Stages, OwnFile
<1>12. CASE \E p \in Pod : DelWithoutNetns(p) \/ Vanish(p)
  BY <1>12 DEF DelWithoutNetns, Vanish, OwnFile
<1> QED
  BY <1>3, <1>4, <1>5, <1>6, <1>7, <1>8, <1>9, <1>10, <1>11, <1>12 DEF Next, Step

LEMMA VfReturnedKept ==
  ASSUME TypeOK, Control, Stages, Noted, OwnFile, VfReturned, Next
  PROVE  VfReturned'
<1> USE DEF Goes, From, Same, Flags, Handlers, Raises, VfIs, Adding, Deleting, SetupCalls,
            DetachCalls, DelCalls, OnlyCmd, OnlyRep, OnlyVf, OnlyAdmin, World, stored
<1>1. Typed /\ cache \in [Pod -> Entry \cup {NoEntry, Torn}] /\ Host \notin Pod
  BY TypedOK, PodAssumption DEF TypeOK, Entry
<1>2. cmd.pc # "idle" => cmd.pod \in Pod
  BY <1>1, Running DEF Control
<1>3. CASE \/ OpenNetns \/ SetRepMtu \/ SetRepUp \/ SetMaster \/ SetVlans
           \/ ApplyVFConfig \/ SetVfDown \/ SetVfTempName \/ SetVfMac \/ SetVfMtu
           \/ SetVfPodName \/ SetVfUp \/ ExecIpamAdd \/ ConfigureIface
  <2>1. Same /\ vf'.ns = vf.ns /\ cache' = cache /\ cmd'.pc \notin {"reset", "clean"}
    BY <1>1, <1>3, OpenNetnsDoes, SetRepMtuDoes, SetRepUpDoes, SetMasterDoes,
       SetVlansDoes, ApplyVFConfigDoes, SetVfDownDoes, SetVfTempNameDoes, SetVfMacDoes,
       SetVfMtuDoes, SetVfPodNameDoes, SetVfUpDoes, ExecIpamAddDoes, ConfigureIfaceDoes
  <2> QED
    BY <2>1 DEF VfReturned
<1>4. CASE MoveVfToPod
  <2>1. Adding({"vfMove"}) /\ cache[cmd.pod] = NoEntry /\ ~cmd.conf.userspace
    BY <1>1, <1>4, Running, MoveVfToPodDoes DEF Control, OwnFile, Noted, AddCalls
  <2> QED
    BY <1>1, <1>4, <2>1, MoveVfToPodDoes DEF VfReturned, IsSaved
<1>5. CASE Save
  BY <1>1, <1>2, <1>5, Running, SaveDoes DEF Control, VfReturned, IsSaved
<1>6. CASE \/ UpdateDeviceInfo \/ PrintResult \/ CloseNetns \/ UndoIpam \/ UndoVf
           \/ SetRepDown \/ RestoreRepMtu \/ SetNoMaster \/ DetachFails
  <2>1. Same /\ vf'.ns = vf.ns /\ cache' = cache /\ cmd'.pc \notin {"reset", "clean"}
    BY <1>1, <1>6, HandlerBlind, UpdateDeviceInfoDoes, PrintResultDoes,
       CloseNetnsDoes, UndoIpamDoes, UndoVfDoes, SetRepDownDoes, RestoreRepMtuDoes,
       SetNoMasterDoes, DetachFailsDoes DEF AfterDetach
  <2> QED
    BY <2>1 DEF VfReturned
<1>7. CASE AddFails
  BY <1>1, <1>2, <1>7, Running, AddFailsDoes DEF Control, VfReturned, IsSaved, AddCalls
<1>8. CASE Load \/ ExecIpamDel
  BY <1>1, <1>2, <1>8, Running, LoadDoes, ExecIpamDelDoes DEF Control, VfReturned
<1>9. CASE GetNS
  <2>1. Deleting({"getns"}) /\ cache[cmd.pod] = [conf |-> cmd.conf, orig |-> cmd.orig]
    BY <1>1, <1>9, Running, GetNSDoes DEF Control, AddCalls, OwnFile
  <2>2. IsSaved(cache[cmd.pod]) /\ cache[cmd.pod].conf = cmd.conf
    BY <1>1, <2>1, SavedIsSaved
  <2> QED
    BY <1>1, <1>2, <1>9, <2>1, <2>2, GetNSDoes DEF Control, VfReturned
<1>10. CASE \/ ReleaseDown \/ ReleaseNotFound \/ ReleaseName \/ ReleaseMac \/ ReleaseMtu
            \/ MoveVfToHost \/ ResetVFConfig \/ DelFails
  <2>1. Same /\ cache' = cache /\ cmd.op = "DEL"
    BY <1>1, <1>10, Running, ReleaseDownDoes, ReleaseNotFoundDoes, ReleaseNameDoes,
       ReleaseMacDoes, ReleaseMtuDoes, MoveVfToHostDoes, ResetVFConfigDoes, DelFailsDoes
       DEF Control, AddCalls
  <2>2. vf'.ns = vf.ns \/ vf'.ns = Host
    BY <1>1, <1>10, ReleaseDownDoes, ReleaseNotFoundDoes, ReleaseNameDoes, ReleaseMacDoes,
       ReleaseMtuDoes, MoveVfToHostDoes, ResetVFConfigDoes, DelFailsDoes
  <2>3. \/ cmd'.pc \notin {"reset", "clean"} \/ vf'.ns = Host \/ (cmd'.pc = "clean" /\ cmd'.err)
        \/ cmd.pc = "reset" /\ vf'.ns = vf.ns
    BY <1>1, <1>10, ReleaseDownDoes, ReleaseNotFoundDoes, ReleaseNameDoes, ReleaseMacDoes,
       ReleaseMtuDoes, MoveVfToHostDoes, ResetVFConfigDoes, DelFailsDoes
  <2> QED
    BY <1>1, <1>2, <2>1, <2>2, <2>3, Running DEF VfReturned, Control
<1>11. CASE Clean
  BY <1>1, <1>2, <1>11, Running, CleanDoes DEF Control, VfReturned, IsSaved, AddCalls
<1>12. CASE AddExits \/ DelExits \/ Kill
  <2>1. \A p \in Pod : vf'.ns = p => vf.ns = p
    BY <1>1, <1>2, <1>12, SentHomeIs DEF AddExits, DelExits, Kill, Typed, At
  <2>2. \A p \in Pod : cache'[p] \in {cache[p], Torn}
    BY <1>1, <1>12 DEF AddExits, DelExits, Kill
  <2>3. cmd' = NoCmd
    BY <1>12 DEF AddExits, DelExits, Kill
  <2> QED
    BY <2>1, <2>2, <2>3 DEF VfReturned, IsSaved, NoCmd
<1>13. CASE \E p \in Pod : StartDel(p) \/ \E c \in Config : StartAdd(p, c)
  BY <1>1, <1>13, StartAddDoes, StartDelDoes DEF Stages, VfReturned
<1>14. CASE \E p \in Pod : DelWithoutNetns(p) \/ Vanish(p)
  <2>1. \A p \in Pod : vf'.ns = p => vf.ns = p
    BY <1>1, <1>14, SentHomeIs DEF DelWithoutNetns, Vanish, Typed
  <2> QED
    BY <1>14, <2>1 DEF DelWithoutNetns, Vanish, VfReturned, Control, NoCmd
<1> QED
  BY <1>3, <1>4, <1>5, <1>6, <1>7, <1>8, <1>9, <1>10, <1>11, <1>12, <1>13, <1>14
     DEF Next, Step

\* While the VF of a pod that was attached is in its namespace, its file is there.
LEMMA RetryHasConfKept ==
  ASSUME TypeOK, Control, Stages, Noted, FileKept, Next
  PROVE  RetryHasConf'
<1> USE DEF Goes, From, Same, Flags, VfIs, OnlyCmd, OnlyRep, OnlyVf, OnlyAdmin, World, stored
<1>1. Typed /\ cache \in [Pod -> Entry \cup {NoEntry, Torn}] /\ Host \notin Pod
  BY TypedOK, PodAssumption DEF TypeOK, Entry
<1>2. cmd.pc # "idle" => cmd.pod \in Pod
  BY <1>1, Running DEF Control
<1>3. CASE Step /\ ~AddExits /\ ~DelExits /\ ~Clean /\ ~Kill
  <2>1. Inside
    BY <1>3, StepInside
  <2>2. cmd.op = "ADD" => stage[cmd.pod] = "adding"
    BY DEF Stages
  <2>3. Save \/ AddFails \/ At("vfMove") => cmd.op = "ADD"
    BY <1>1, Running, SaveDoes, AddFailsDoes DEF Control, AddCalls, SetupCalls, DetachCalls,
       DelCalls, At
  <2>4. cmd.op # "ADD" => cache' = cache
    BY <1>3, <2>3, OthersKeepCache DEF Next
  <2> QED
    BY <1>1, <2>1, <2>2, <2>3, <2>4 DEF Inside, RetryHasConf, FileKept, node
<1>4. CASE Clean
  <2>1. Deleting({"clean"})
    BY <1>1, <1>4, Running, CleanDoes DEF Control, Deleting, AddCalls, SetupCalls, DetachCalls
  <2>2. cmd.err \/ vf.ns # cmd.pod
    BY <2>1 DEF FileKept, VfReturned, Deleting
  <2> QED
    BY <1>1, <1>4, <2>2, CleanDoes DEF RetryHasConf, FileKept, node
<1>5. CASE AddExits
  <2>1. cmd.ok => IsSaved(cache[cmd.pod])
    BY <1>1, <1>5, SavedIsSaved DEF AddExits, At, FileKept, OwnFile, Adding, AnyPc, AddCalls,
       SetupCalls
  <2> QED
    BY <1>1, <1>5, <2>1 DEF AddExits, TypeOK, RetryHasConf, FileKept, Stages
<1>6. CASE DelExits
  <2>1. cmd.pod \in Pod
    BY <1>6 DEF DelExits, Control
  <2>2. \A p \in Pod : vf'.ns = p => vf.ns = p
    BY <1>1, <1>6, <2>1, SentHomeIs DEF DelExits, Typed
  <2> QED
    BY <1>6, <2>2 DEF DelExits, TypeOK, RetryHasConf, FileKept, node
<1>7. CASE Kill
  <2>1. cmd.op = "ADD" => stage'[cmd.pod] = "failed"
    BY <1>7 DEF Kill, Control, TypeOK
  <2>2. \A p \in Pod : p # cmd.pod => cache'[p] = cache[p] /\ stage'[p] = stage[p]
    BY <1>1, <1>7 DEF Kill, TypeOK
  <2>3. cmd.op # "ADD" => cache' = cache /\ stage' = stage
    BY <1>7, <1>1, Running DEF Kill, Control, At, DetachCalls, DelCalls
  <2> QED
    BY <1>7, <2>1, <2>2, <2>3 DEF Kill, RetryHasConf, FileKept
<1>8. CASE \E p \in Pod : StartDel(p) \/ \E c \in Config : StartAdd(p, c)
  BY <1>1, <1>8, StartAddDoes, StartDelDoes DEF RetryHasConf, FileKept, TypeOK
<1>9. CASE \E p \in Pod : DelWithoutNetns(p) \/ Vanish(p)
  <2>1. \A p \in Pod : vf'.ns = p => vf.ns = p
    BY <1>1, <1>9, SentHomeIs DEF DelWithoutNetns, Vanish, Typed
  <2> QED
    BY <1>9, <2>1 DEF DelWithoutNetns, Vanish, RetryHasConf, FileKept, TypeOK
<1> QED
  BY <1>3, <1>4, <1>5, <1>6, <1>7, <1>8, <1>9 DEF Next

LEMMA FileIsKept ==
  ASSUME TypeOK, Control, Stages, Noted, FileKept, Next
  PROVE  FileKept'
  BY OwnFileKept, VfReturnedKept, RetryHasConfKept DEF FileKept

(***************************************************************************)
(* What DEL finds when nothing grave happened.                             *)
(***************************************************************************)
LEMMA GraveFault == ASSUME TypeOK, NEW l, Fault(l) PROVE faults'.grave \/ l \in Harmless
  BY DEF TypeOK, Fault

\* Nothing grave has happened if nothing grave has by the next state.
LEMMA GraveStays == ASSUME TypeOK, Next, ~faults'.grave PROVE ~faults.grave
  BY FaultsKept

LEMMA OrderlyKept ==
  ASSUME TypeOK, Control, Stages, Orderly, Next
  PROVE  Orderly'
<1> SUFFICES ASSUME ~faults'.grave
             PROVE  /\ NoStaleEntry'
                    /\ \A p \in Pod : cache'[p] # Torn /\ (owner' = p => netns'[p] = "open")
                    /\ cmd'.op = "DEL" /\ cmd'.pc \notin {"load", "exit"} =>
                         stage'[cmd'.pod] # "done"
                    /\ Deleting({"clean", "exit"})' => (cmd'.err => ~cmd'.ok)
                    /\ Deleting({"exit"})' /\ cmd'.ok => cache'[cmd'.pod] = NoEntry
  BY DEF Orderly
<1> USE DEF Goes, From, Same, Flags, Handlers, Raises, Deleting, OnlyCmd, OnlyRep, OnlyVf,
            OnlyAdmin, World, stored, node, NoStaleEntry
<1>1. /\ Typed /\ cache \in [Pod -> Entry \cup {NoEntry, Torn}] /\ Host \notin Pod
      /\ NoEntry # Torn /\ NoPod \notin Pod
  BY TypedOK, PodAssumption, EntryAssumption DEF TypeOK, Entry
<1>2. cmd.pc # "idle" => cmd.pod \in Pod
  BY <1>1, Running DEF Control
<1>3. ~faults.grave /\ NoStaleEntry
      /\ \A p \in Pod : cache[p] # Torn /\ (owner = p => netns[p] = "open")
  BY GraveStays DEF Orderly
<1>4. CASE Step /\ cmd.op = "ADD" /\ ~AddExits
  <2>1. Inside
    BY <1>1, <1>4, StepInside DEF DelExits
  <2>2. stage[cmd.pod] = "adding" /\ cmd.pod \in Pod
    BY <1>4 DEF Stages, Control
  <2>3. cache'[cmd.pod] # Torn
    <3>1. CASE Save
      BY <1>1, <2>2, <3>1, SavedIsSaved DEF Save, IsSaved
    <3>2. CASE AddFails
      BY <1>1, <1>3, <2>2, <3>2, AddFailsDoes, GraveFault DEF Harmless
    <3>3. CASE Clean
      BY <1>1, <1>3, <2>2, <3>3, CleanDoes
    <3>4. CASE Kill
      BY <3>4, GraveFault DEF Kill, Harmless
    <3> QED
      BY <1>3, <1>4, <2>2, <3>1, <3>2, <3>3, <3>4, OthersKeepCache DEF Next
  <2> QED
    BY <1>1, <1>3, <1>4, <2>1, <2>2, <2>3 DEF Inside
<1>5. CASE AddExits
  BY <1>1, <1>3, <1>5 DEF AddExits, NoCmd, TypeOK
<1>6. CASE Load
  <2>1. cmd.op = "DEL" /\ cmd.ok /\ ~cmd.err
    BY <1>1, <1>6, Running, LoadDoes DEF Control, AddCalls, SetupCalls, DetachCalls
  <2>2. ~IsSaved(cache[cmd.pod]) => cache[cmd.pod] = NoEntry
    BY <1>2, <1>3, <1>6, LoadDoes, <1>1 DEF IsSaved
  <2>3. IsSaved(cache[cmd.pod]) => stage[cmd.pod] # "done"
    BY <1>2, <1>3, <1>6, LoadDoes, <1>1 DEF IsSaved
  <2>4. /\ cmd'.op = "DEL" /\ cmd'.pod = cmd.pod /\ stage' = stage /\ netns' = netns
        /\ cache' = cache /\ owner' = owner
    BY <1>1, <1>6, <2>1, LoadDoes
  <2>5. NoStaleEntry'
    BY <1>1, <1>3, <1>6, <2>4, LoadDoes
  <2>6. CASE Flags /\ cmd'.pc = "detDown" /\ IsSaved(cache[cmd.pod])
    BY <1>3, <2>1, <2>3, <2>4, <2>5, <2>6
  <2>7. CASE Flags /\ cmd'.pc = "exit" /\ cache[cmd.pod] = NoEntry
    BY <1>3, <2>1, <2>4, <2>5, <2>7
  <2>8. \/ Flags /\ cmd'.pc = "detDown" /\ IsSaved(cache[cmd.pod])
        \/ Flags /\ cmd'.pc = "exit" /\ (~IsSaved(cache[cmd.pod]) \/ Fault("load"))
    BY <1>1, <1>6, LoadDoes
  <2>9. ~Fault("load")
    BY GraveFault DEF Harmless
  <2> QED
    BY <2>2, <2>6, <2>7, <2>8, <2>9
<1>7. CASE cmd.op = "DEL" /\ (SetRepDown \/ RestoreRepMtu \/ SetNoMaster \/ DetachFails)
  BY <1>1, <1>2, <1>3, <1>7, SetRepDownDoes, RestoreRepMtuDoes, SetNoMasterDoes,
     DetachFailsDoes DEF Orderly, AfterDetach, DetachCalls
<1>8. CASE GetNS
  <2>1. cmd.op = "DEL" /\ stage[cmd.pod] # "done" /\ ~cmd.err /\ cmd.pod \in Pod
    BY <1>1, <1>2, <1>3, <1>8, Running, GetNSDoes DEF Control, AddCalls, SetupCalls,
       DetachCalls, DelCalls, Orderly
  <2>2. netns[cmd.pod] = "open"
    BY <1>3, <2>1 DEF Stages, Live
  <2> QED
    BY <1>1, <1>3, <1>8, <2>1, <2>2, GetNSDoes
<1>9. CASE \/ ExecIpamDel \/ ReleaseDown \/ ReleaseNotFound \/ ReleaseName
           \/ ReleaseMac \/ ReleaseMtu \/ MoveVfToHost \/ ResetVFConfig \/ DelFails
  <2>1. cmd.op = "DEL"
    BY <1>1, <1>9, DelStepDeletes DEF DelStep
  <2>2. /\ Same /\ UNCHANGED <<cache, node>> /\ cmd.pc \in DelCalls /\ cmd'.pc # "exit"
        /\ cmd'.ok => cmd'.err = cmd.err
    BY <1>1, <1>9, ExecIpamDelDoes, ReleaseDownDoes, ReleaseNotFoundDoes,
       ReleaseNameDoes, ReleaseMacDoes, ReleaseMtuDoes, MoveVfToHostDoes, ResetVFConfigDoes,
       DelFailsDoes DEF DelCalls
  <2>3. ~cmd.err /\ stage[cmd.pod] # "done"
    BY <1>3, <2>1, <2>2 DEF Control, Orderly, DelCalls
  <2> QED
    BY <1>1, <1>3, <2>2, <2>3
<1>10. CASE Clean
  BY <1>1, <1>2, <1>3, <1>10, CleanDoes, GraveFault DEF Orderly, Harmless
<1>11. CASE DelExits
  BY <1>1, <1>2, <1>3, <1>11 DEF DelExits, At, NoCmd, Orderly, TypeOK, Control
<1>12. CASE Kill
  BY <1>12, GraveFault DEF Kill, Harmless
<1>13. CASE \E p \in Pod : StartDel(p) \/ \E c \in Config : StartAdd(p, c)
  BY <1>1, <1>3, <1>13, StartAddDoes, StartDelDoes DEF TypeOK
<1>14. CASE \E p \in Pod : DelWithoutNetns(p) \/ Vanish(p)
  BY <1>3, <1>14 DEF DelWithoutNetns, Vanish, Stages, Live, TypeOK
<1> QED
  <2>1. AddStep => cmd.op = "ADD"
    BY <1>1, AddStepAdds
  <2>2. Step => cmd.op \in {"ADD", "DEL"}
    BY <1>1, IdleStops DEF Control, Typed, Cmd
  <2> QED
    BY <1>4, <1>5, <1>6, <1>7, <1>8, <1>9, <1>10, <1>11, <1>12, <1>13, <1>14, <2>1, <2>2
       DEF Next, Step, AddStep

(***************************************************************************)
(* A pod is attached when its ADD reports success, and stays attached.     *)
(***************************************************************************)
LEMMA DelStepInside == ASSUME TypeOK, Control, DelStep PROVE Inside
  BY StepInside DEF DelStep, Step, AddExits, DelExits, At, Load, ExecIpamDel, GetNS,
     ReleaseDown, ReleaseNotFound, ReleaseName, ReleaseMac, ReleaseMtu, MoveVfToHost,
     ResetVFConfig, DelFails, DelCalls, Clean

\* At the start and the end of DEL only Load and DelExits make a step.
LEMMA LateCalls ==
  ASSUME cmd.pc \in {"load", "exit"}
  PROVE  /\ ~(SetRepDown \/ RestoreRepMtu \/ SetNoMaster \/ DetachFails)
         /\ ~(\/ ExecIpamDel \/ GetNS \/ ReleaseDown \/ ReleaseNotFound \/ ReleaseName
              \/ ReleaseMac \/ ReleaseMtu \/ MoveVfToHost \/ ResetVFConfig \/ DelFails \/ Clean)
  BY DEF At, DelCalls, SetRepDown, RestoreRepMtu, SetNoMaster, DetachFails, ExecIpamDel,
     GetNS, ReleaseDown, ReleaseNotFound, ReleaseName, ReleaseMac, ReleaseMtu, MoveVfToHost,
     ResetVFConfig, DelFails, Clean

LEMMA AttachingKept ==
  ASSUME TypeOK, Control, Attaching, Next
  PROVE  Attaching'
<1> USE DEF Goes, From, Same, Flags, Handlers, Raises, VfIs, RepIs, Adding, OnlyCmd, OnlyRep,
            OnlyVf, OnlyAdmin, World, stored, Saving, SetupCalls
<1>1. Typed
  BY TypedOK
<1>2. CASE OpenNetns \/ SetRepMtu \/ SetRepUp \/ SetMaster \/ SetVlans \/ ApplyVFConfig
  BY <1>1, <1>2, OpenNetnsDoes, SetRepMtuDoes, SetRepUpDoes, SetMasterDoes, SetVlansDoes,
     ApplyVFConfigDoes DEF Attaching
<1>3. CASE SetVfDown \/ SetVfTempName \/ SetVfMac \/ SetVfMtu \/ MoveVfToPod
           \/ SetVfPodName \/ SetVfUp
  <2>1. CASE SetVfDown \/ SetVfTempName \/ SetVfMac
    BY <1>1, <2>1, SetVfDownDoes, SetVfTempNameDoes, SetVfMacDoes DEF Attaching
  <2>2. CASE SetVfMtu \/ MoveVfToPod \/ SetVfPodName
    BY <1>1, <2>2, SetVfMtuDoes, MoveVfToPodDoes, SetVfPodNameDoes DEF Attaching
  <2>3. CASE SetVfUp
    BY <1>1, <2>3, SetVfUpDoes DEF Attaching
  <2> QED
    BY <1>3, <2>1, <2>2, <2>3
<1>4. CASE ExecIpamAdd \/ ConfigureIface
  BY <1>1, <1>4, ExecIpamAddDoes, ConfigureIfaceDoes DEF Attaching
<1>5. CASE Save
  BY <1>1, <1>5, SaveDoes DEF Attaching, Attached
<1>6. CASE UpdateDeviceInfo \/ PrintResult \/ AddFails \/ CloseNetns \/ UndoIpam
  BY <1>1, <1>6, UpdateDeviceInfoDoes, PrintResultDoes, AddFailsDoes, CloseNetnsDoes,
     UndoIpamDoes DEF Attaching, Attached
<1>7. CASE UndoVf \/ SetRepDown \/ RestoreRepMtu \/ SetNoMaster \/ DetachFails
  <2>1. /\ Same /\ cmd'.err = cmd.err /\ cmd'.pc \in DetachCalls \cup {"exit", "delIpam"}
        /\ cmd.pc \in DetachCalls \cup {"undoVf"}
    BY <1>1, <1>7, HandlerBlind, UndoVfDoes, SetRepDownDoes, RestoreRepMtuDoes,
       SetNoMasterDoes, DetachFailsDoes DEF AfterDetach, DetachCalls
  <2> QED
    BY <2>1 DEF Control, Attaching, DetachCalls
<1>8. CASE DelStep
  <2>1. cmd.op = "DEL" /\ Inside
    BY <1>1, <1>8, DelStepDeletes, DelStepInside
  <2> QED
    BY <2>1 DEF Inside, Attaching
<1>9. CASE AddExits \/ DelExits \/ Kill
  BY <1>9 DEF AddExits, DelExits, Kill, NoCmd, Attaching
<1>10. CASE \E p \in Pod : StartDel(p) \/ \E c \in Config : StartAdd(p, c)
  BY <1>10, StartAddDoes, StartDelDoes DEF Attaching
<1>11. CASE \E p \in Pod : DelWithoutNetns(p) \/ Vanish(p)
  BY <1>11 DEF DelWithoutNetns, Vanish, Attaching
<1> QED
  BY <1>2, <1>3, <1>4, <1>5, <1>6, <1>7, <1>8, <1>9, <1>10, <1>11 DEF Next, Step, DelStep

LEMMA StaysAttachedKept ==
  ASSUME TypeOK, Control, Stages, FileKept, Orderly, Attaching, StaysAttached, Next
  PROVE  StaysAttached'
<1> SUFFICES ASSUME Spared'
             PROVE  /\ cmd'.op = "ADD" => (cmd'.err => ~cmd'.ok)
                    /\ SuccessMeansAttached'
  BY DEF StaysAttached
<1>1. /\ Typed /\ cache \in [Pod -> Entry \cup {NoEntry, Torn}] /\ Host \notin Pod
      /\ NoPod \notin Pod
  BY TypedOK, PodAssumption DEF TypeOK, Entry
<1>2. Spared /\ SuccessMeansAttached
  BY GraveStays DEF Spared, StaysAttached
<1>3. cmd.pc # "idle" => cmd.pod \in Pod
  BY <1>1, Running DEF Control
<1>4. cmd'.op = "ADD" => (cmd'.err => ~cmd'.ok)
  <2> USE DEF Goes, From, Same, Flags, Raises
  <2>1. cmd.op = "ADD" => (cmd.err => ~cmd.ok)
    BY <1>2 DEF StaysAttached
  <2>2. CASE \/ OpenNetns \/ SetRepMtu \/ SetRepUp \/ SetMaster \/ SetVlans
             \/ ApplyVFConfig \/ SetVfDown \/ SetVfTempName \/ SetVfMac \/ SetVfMtu
             \/ MoveVfToPod \/ SetVfPodName \/ SetVfUp \/ ExecIpamAdd \/ ConfigureIface
             \/ Save
    BY <1>1, <2>1, <2>2, OpenNetnsDoes, SetRepMtuDoes, SetRepUpDoes, SetMasterDoes,
       SetVlansDoes, ApplyVFConfigDoes, SetVfDownDoes, SetVfTempNameDoes, SetVfMacDoes,
       SetVfMtuDoes, MoveVfToPodDoes, SetVfPodNameDoes, SetVfUpDoes, ExecIpamAddDoes,
       ConfigureIfaceDoes, SaveDoes
  <2>3. CASE UpdateDeviceInfo
    <3>1. Fault("devInfo") => faults'.grave /\ "devInfo" \in FaultyCalls
      BY GraveFault DEF Fault, Harmless
    <3> QED
      BY <1>1, <2>1, <2>3, <3>1, UpdateDeviceInfoDoes DEF Spared
  <2>4. CASE PrintResult \/ AddFails \/ CloseNetns \/ UndoIpam \/ UndoVf
             \/ SetRepDown \/ RestoreRepMtu \/ SetNoMaster \/ DetachFails
    BY <1>1, <2>1, <2>4, HandlerBlind, PrintResultDoes, AddFailsDoes, CloseNetnsDoes,
       UndoIpamDoes, UndoVfDoes, SetRepDownDoes, RestoreRepMtuDoes, SetNoMasterDoes,
       DetachFailsDoes
  <2>5. CASE DelStep
    BY <1>1, <2>5, DelStepDeletes, DelStepInside DEF Inside
  <2>6. CASE AddExits \/ DelExits \/ Kill
    BY <2>6 DEF AddExits, DelExits, Kill, NoCmd
  <2>7. CASE \E p \in Pod : StartDel(p) \/ \E c \in Config : StartAdd(p, c)
    BY <2>7, StartAddDoes, StartDelDoes
  <2>8. CASE \E p \in Pod : DelWithoutNetns(p) \/ Vanish(p)
    BY <2>1, <2>8 DEF DelWithoutNetns, Vanish
  <2> QED
    BY <2>2, <2>3, <2>4, <2>5, <2>6, <2>7, <2>8 DEF Next, Step, DelStep
<1>5. ASSUME NEW p \in Pod, stage'[p] = "up", netns'[p] = "open"
      PROVE  IsSaved(cache'[p]) /\ Attached(p, cache[p].conf)'
  <2> USE DEF Goes, From, Same, Flags, VfIs, OnlyCmd, World, stored, node
  <2>1. CASE AddExits /\ cmd.pod = p
    <3>1. cmd.ok /\ ~cmd.err /\ Adding({"exit"})
      BY <1>1, <1>2, <1>3, <1>5, <2>1 DEF AddExits, At, Adding, TypeOK, StaysAttached
    <3>2. Attached(p, cmd.conf) /\ cache[p] = [conf |-> cmd.conf, orig |-> cmd.orig]
      BY <2>1, <3>1 DEF Attaching, FileKept, OwnFile, Adding, AnyPc, AddCalls, SetupCalls
    <3>3. IsSaved(cache[p]) /\ cache[p].conf = cmd.conf
      BY <1>1, <3>2, SavedIsSaved
    <3> QED
      BY <2>1, <3>2, <3>3 DEF AddExits, Attached, stored
  <2>2. CASE ~(AddExits /\ cmd.pod = p)
    <3>1. stage[p] = "up" /\ netns[p] = "open"
      <4>1. CASE Step /\ ~AddExits /\ ~DelExits
        BY <1>5, <4>1, StepInside DEF Inside
      <4>2. CASE AddExits \/ DelExits \/ Kill
        BY <1>1, <1>5, <2>2, <4>2 DEF AddExits, DelExits, Kill, TypeOK
      <4>3. CASE \E q \in Pod : StartDel(q) \/ \E c \in Config : StartAdd(q, c)
        BY <1>5, <4>3, StartAddDoes, StartDelDoes DEF TypeOK
      <4>4. CASE \E q \in Pod : DelWithoutNetns(q) \/ Vanish(q)
        BY <1>5, <4>4 DEF DelWithoutNetns, Vanish, TypeOK
      <4> QED
        BY <4>1, <4>2, <4>3, <4>4 DEF Next
    <3>2. IsSaved(cache[p]) /\ Attached(p, cache[p].conf) /\ owner = p
      BY <1>2, <3>1 DEF SuccessMeansAttached, Stages, Live
    <3>3. cmd.op = "none"
          \/ (Deleting({"load", "exit"}) /\ stage[cmd.pod] = "done" /\ cmd.pod # p)
      <4>1. cmd.op # "none" => cmd.pod \in Pod /\ stage[cmd.pod] # "up"
        BY <1>1 DEF Control, Stages, Typed, Cmd
      <4>2. cmd.op # "none" => cmd.op = "DEL" /\ stage[cmd.pod] = "done"
        BY <1>1, <3>1, <3>2, <4>1 DEF Stages, Live, Typed, Cmd
      <4> QED
        BY <1>2, <3>1, <4>1, <4>2 DEF Stages, Spared, Orderly, Deleting
    <3>4. CASE Step
      <4>1. cmd.op = "DEL" /\ cmd.pc \in {"load", "exit"}
        BY <3>3, <3>4, IdleStops DEF Control, Deleting
      <4>2. Load \/ DelExits
        BY <1>1, <3>4, <4>1, AddStepAdds, LateCalls DEF Step, AddStep, AddExits
      <4>3. CASE Load
        BY <1>1, <3>2, <4>3, LoadDoes DEF World, Attached
      <4>4. CASE DelExits
        <5>1. vf.ns # cmd.pod /\ cmd.pod \in Pod
          BY <3>3, <4>1, <4>4 DEF Stages, Control
        <5>2. vf' = vf /\ UNCHANGED <<adminMac, rep, stored>>
          BY <1>1, <4>4, <5>1, SentHomeIs DEF DelExits, Typed
        <5> QED
          BY <3>2, <5>2 DEF Attached
      <4> QED
        BY <4>2, <4>3, <4>4
    <3>5. CASE Kill
      <4>1. UNCHANGED <<vf, adminMac, rep, leases>> /\ cache' = cache
        BY <3>3, <3>5 DEF Kill, At, Deleting
      <4> QED
        BY <3>2, <4>1 DEF Attached
    <3>6. CASE \E q \in Pod : StartDel(q) \/ \E c \in Config : StartAdd(q, c)
      BY <3>2, <3>6, StartAddDoes, StartDelDoes DEF Attached
    <3>7. CASE \E q \in Pod : DelWithoutNetns(q)
      BY <3>2, <3>7 DEF DelWithoutNetns, Attached
    <3>8. CASE \E q \in Pod : Vanish(q)
      <4>1. PICK q \in Pod : Vanish(q)
        BY <3>8
      <4>2. q # p /\ vf' = SentHome(q)
        BY <1>5, <4>1 DEF Vanish, TypeOK
      <4>3. CASE vf.ns = q
        BY <3>2, <4>1, <4>2, <4>3 DEF Vanish, Attached
      <4>4. CASE vf.ns # q
        BY <1>1, <3>2, <4>1, <4>2, <4>4, SentHomeIs DEF Vanish, Attached, Typed
      <4> QED
        BY <4>3, <4>4
    <3> QED
      BY <3>4, <3>5, <3>6, <3>7, <3>8 DEF Next
  <2> QED
    BY <2>1, <2>2
<1> QED
  BY <1>4, <1>5 DEF SuccessMeansAttached

(***************************************************************************)
(* The first inductive invariant, and what follows from it.                *)
(***************************************************************************)
LEMMA KeptInit == Init => Kept
<1> SUFFICES ASSUME Init PROVE Kept
  OBVIOUS
<1>1. TypeOK
  <2>1. vf \in VfType /\ rep \in RepType
    BY DEF Init, HomeVf, HomeRep, VfType, RepType, Attr
  <2> QED
    BY <2>1, NoCmdType, BoundAssumption DEF Init, TypeOK, VfType, RepType, Attr
<1>2. Control /\ Stages /\ Orderly
  BY PodAssumption, EntryAssumption DEF Init, Control, Stages, Orderly, NoStaleEntry, Live, NoCmd,
     HomeVf, Adding, Deleting
<1>3. Noted /\ FileKept
  BY DEF Init, NoCmd, Noted, FileKept, OwnFile, VfReturned, RetryHasConf, IsSaved, Adding,
     Deleting
<1>4. Attaching /\ StaysAttached
  BY DEF Init, NoCmd, Attaching, StaysAttached, SuccessMeansAttached, Adding
<1> QED
  BY <1>1, <1>2, <1>3, <1>4 DEF Kept

LEMMA KeptStep == Kept /\ [Next]_vars => Kept'
<1> SUFFICES ASSUME Kept, [Next]_vars PROVE Kept'
  OBVIOUS
<1>1. CASE Next
  BY <1>1, TypedOK, TypesKept, ControlKept, StagesKept, NotedKept, FileIsKept, OrderlyKept,
     AttachingKept, StaysAttachedKept DEF Kept
<1>2. CASE UNCHANGED vars
  BY <1>2 DEF vars, Kept, TypeOK, Control, Stages, Noted, FileKept, OwnFile, VfReturned,
     RetryHasConf, Orderly, NoStaleEntry, Attaching, StaysAttached, SuccessMeansAttached,
     Spared, Attached, IsSaved, Notes, Adding, Deleting
<1> QED
  BY <1>1, <1>2

\* Every state of every run satisfies Kept: what a command has noted and
\* saved, and what the runtime knows, fit together at every call, whichever
\* calls fail and whenever the plugin is killed.
THEOREM KeptAlways == Spec => []Kept
  BY KeptInit, KeptStep, PTL DEF Spec

\* The state has its types: in particular DEL never writes a zero value back
\* to a device, because everything it restores was noted by ADD.
THEOREM CniTypes == Spec => []TypeOK
  BY KeptAlways, PTL DEF Kept

\* A DEL that failed or was killed while the VF is still in the pod can be
\* repeated: its PluginConf is still there (plugin.go:333-340, the deferred
\* removal of the file for a DEL without error only).
THEOREM RetryKeepsConf == Spec => []RetryHasConf
  BY KeptAlways, PTL DEF Kept, FileKept

\* A pod whose ADD reported success is attached as configured until its own
\* DEL, and its file is there, provided updateDeviceInfo does not fail (its
\* error rolls a successful ADD back) and no DEL comes again after it
\* succeeded.  Any other call may fail, and the plugin may be killed.
THEOREM AttachedOnSuccess ==
  ASSUME "devInfo" \notin FaultyCalls, ~RepeatDel
  PROVE  Spec => []SuccessMeansAttached
<1>1. Kept => SuccessMeansAttached
  BY DEF Kept, StaysAttached, Spared
<1> QED
  BY <1>1, KeptAlways, PTL

\* A DEL that comes again after it succeeded leaves the pod that has the VF by
\* then alone, as long as nothing happened that DEL cannot undo.
THEOREM LateDelHarmless == Spec => []LateDelSpares
<1>1. Kept => LateDelSpares
  BY DEF Kept, StaysAttached, Spared, LateDelSpares
<1> QED
  BY <1>1, KeptAlways, PTL

\* A DEL that reported success removed the pod's file, as long as nothing
\* happened that DEL cannot undo.
THEOREM EntriesRemoved == Spec => []EntryRemoved
<1>1. Kept => EntryRemoved
  BY DEF Kept, Orderly, EntryRemoved
<1> QED
  BY <1>1, KeptAlways, PTL

(***************************************************************************)
(* What ADD leaves can be restored.                                        *)
(***************************************************************************)
LEMMA AddRestorableKept ==
  ASSUME TypeOK, Control, Noted, FileKept, Attaching, AddRestorable, RestRestorable, Next
  PROVE  AddRestorable'
<1> SUFFICES ASSUME ~faults'.grave PROVE AddRestorable'
  BY DEF AddRestorable
<1> USE DEF Goes, From, Same, Flags, Handlers, Raises, VfIs, RepIs, OrigIs, Adding, OnlyCmd,
            OnlyRep, OnlyVf, OnlyAdmin, World, stored, node, Saving, SetupCalls, AddCalls
<1>1. Typed
  BY TypedOK
<1>2. ~faults.grave
  BY GraveStays
<1>3. CASE OpenNetns \/ SetRepMtu
  BY <1>1, <1>2, <1>3, OpenNetnsDoes, SetRepMtuDoes DEF Control, AddRestorable, Home, HomeVf,
     HomeRep, RepKept
<1>4. CASE SetRepUp \/ SetMaster \/ SetVlans
  BY <1>1, <1>2, <1>4, SetRepUpDoes, SetMasterDoes, SetVlansDoes DEF Control, AddRestorable,
     RepKept
<1>5. CASE ApplyVFConfig
  BY <1>1, <1>2, <1>5, ApplyVFConfigDoes DEF Control, AddRestorable, RepKept, AdminKept,
     HomeVf, Undoable
<1>6. CASE SetVfDown \/ SetVfTempName \/ SetVfMac \/ SetVfMtu
  <2>1. CASE SetVfDown
    BY <1>1, <1>2, <2>1, SetVfDownDoes DEF Control, AddRestorable, RepKept, AdminKept,
       MacKept, MtuKept
  <2>2. CASE SetVfTempName
    BY <1>1, <1>2, <2>2, SetVfTempNameDoes DEF Control, AddRestorable, RepKept, AdminKept,
       MacKept, MtuKept
  <2>3. CASE SetVfMac
    BY <1>1, <1>2, <2>3, SetVfMacDoes DEF Control, AddRestorable, RepKept, AdminKept,
       MacKept, MtuKept
  <2>4. CASE SetVfMtu
    BY <1>1, <1>2, <2>4, SetVfMtuDoes DEF Control, AddRestorable, RepKept, AdminKept,
       MacKept, MtuKept
  <2> QED
    BY <1>6, <2>1, <2>2, <2>3, <2>4
<1>7. CASE MoveVfToPod \/ SetVfPodName
  BY <1>1, <1>2, <1>7, MoveVfToPodDoes, SetVfPodNameDoes
     DEF Control, AddRestorable, RepKept, AdminKept, MacKept, MtuKept
<1>8. CASE SetVfUp
  <2>1. cmd.op = "ADD" /\ cmd.pc = "vfUp"
    BY <1>1, <1>8, AddStepAdds, SetVfUpDoes DEF AddStep
  <2>2. ~cmd.conf.userspace /\ vf.ns = cmd.pod /\ vf.name = "pod"
    BY <2>1 DEF Noted, Attaching
  <2> QED
    BY <1>1, <1>2, <1>8, <2>1, <2>2, SetVfUpDoes
       DEF Control, AddRestorable, RepKept, AdminKept, MacKept, MtuKept, Undoable
<1>9. CASE ExecIpamAdd \/ ConfigureIface \/ Save
  BY <1>1, <1>2, <1>9, ExecIpamAddDoes, ConfigureIfaceDoes, SaveDoes
     DEF Control, AddRestorable, RepKept, AdminKept, MacKept, MtuKept, Undoable, Leased
<1>10. CASE UpdateDeviceInfo \/ PrintResult
  <2>1. /\ Same /\ cmd'.orig = cmd.orig /\ cmd'.undo = cmd.undo /\ World
        /\ cmd.pc \in {"devInfo", "print"} /\ cmd'.pc \in {"print", "close"}
    BY <1>1, <1>10, UpdateDeviceInfoDoes, PrintResultDoes
  <2>2. cmd'.err = cmd.err
    BY <1>1, <1>10, UpdateDeviceInfoDoes, PrintResultDoes, GraveFault DEF Harmless
  <2> QED
    BY <1>2, <2>1, <2>2 DEF AddRestorable, Home, IsSaved, Undoable, RepKept, AdminKept,
       MacKept, MtuKept, Leased
<1>11. CASE AddFails
  <2>1. Adding({"open", "repMtu"})
    BY <1>1, <1>11, Running, AddFailsDoes, GraveFault DEF Control, Harmless, DetachCalls,
       DelCalls
  <2>2. cache[cmd.pod] = NoEntry
    BY <2>1 DEF FileKept, OwnFile
  <2> QED
    BY <1>1, <1>2, <1>11, <2>1, <2>2, AddFailsDoes DEF AddRestorable, Home, IsSaved
<1>12. CASE CloseNetns \/ UndoIpam \/ UndoVf
  BY <1>1, <1>2, <1>12, HandlerBlind, CloseNetnsDoes, UndoIpamDoes, UndoVfDoes DEF Control,
     AddRestorable, Home
<1>13. CASE SetRepDown \/ RestoreRepMtu \/ SetNoMaster \/ DetachFails
  BY <1>1, <1>2, <1>13, SetRepDownDoes, RestoreRepMtuDoes, SetNoMasterDoes,
     DetachFailsDoes DEF Control, AddRestorable, DetachCalls
<1>14. CASE DelStep
  BY <1>1, <1>14, DelStepDeletes, DelStepInside DEF Inside, AddRestorable
<1>15. CASE AddExits \/ DelExits \/ Kill
  BY <1>15 DEF AddExits, DelExits, Kill, NoCmd, AddRestorable
<1>16. CASE \E p \in Pod : StartDel(p)
  BY <1>16, StartDelDoes DEF AddRestorable
<1>17. CASE \E p \in Pod : \E c \in Config : StartAdd(p, c)
  BY <1>2, <1>17, StartAddDoes DEF AddRestorable, RestRestorable, Home, HomeVf
<1>18. CASE \E p \in Pod : DelWithoutNetns(p) \/ Vanish(p)
  BY <1>18 DEF DelWithoutNetns, Vanish, AddRestorable, Control, NoCmd
<1> QED
  BY <1>3, <1>4, <1>5, <1>6, <1>7, <1>9, <1>10, <1>11, <1>12, <1>13, <1>14, <1>15, <1>16,
     <1>17, <1>18, <1>8 DEF Next, Step, DelStep

(***************************************************************************)
(* What DEL restores.                                                      *)
(***************************************************************************)
LEMMA AddStepInside == ASSUME TypeOK, Control, AddStep PROVE Inside
  BY TypedOK, AddStepAdds, StepInside DEF AddStep, Step, AddExits, DelExits, At, OpenNetns,
     SetRepMtu, SetRepUp, SetMaster, SetVlans, ApplyVFConfig, SetVfDown, SetVfTempName,
     SetVfMac, SetVfMtu, MoveVfToPod, SetVfPodName, SetVfUp, ExecIpamAdd, ConfigureIface,
     Save, UpdateDeviceInfo, PrintResult, AddFails, AddCalls, SetupCalls, CloseNetns,
     UndoIpam, UndoVf

LEMMA DelRestoresKept ==
  ASSUME TypeOK, Control, Stages, Noted, Orderly, RestRestorable, DelRestores, Next
  PROVE  DelRestores'
<1> SUFFICES ASSUME ~faults'.grave PROVE DelRestores'
  BY DEF DelRestores
<1> USE DEF Goes, From, Same, Flags, Handlers, Raises, VfIs, RepIs, Deleting, OnlyCmd,
            OnlyRep, OnlyVf, OnlyAdmin, World, stored, DetachCalls, DelCalls, ReleaseCalls
<1>1. Typed /\ vf' \in VfType /\ rep' \in RepType
  BY TypedOK, VfTypes, RepTypes
<1>2. ~faults.grave
  BY GraveStays
<1>3. CASE cmd'.op # "DEL"
  BY <1>3 DEF DelRestores
<1>4. CASE Load
  <2>1. cmd.op = "DEL" /\ cmd.pc = "load" /\ cmd.pod \in Pod
    BY <1>1, <1>4, DelStepDeletes DEF DelStep, Load, At, Control
  <2>2. CASE IsSaved(cache[cmd.pod])
    <3>1. owner = cmd.pod /\ owner # NoPod
      BY <1>2, <2>1, <2>2, PodAssumption DEF Orderly, NoStaleEntry, IsSaved, Stages, Live
    <3>2. Undoable(cmd.pod, cache[cmd.pod].conf, cache[cmd.pod].orig)
      BY <1>2, <2>1, <2>2, <3>1 DEF RestRestorable, RestAt
    <3>3. Undoable(cmd.pod, cache[cmd.pod].conf, cache[cmd.pod].orig)'
      BY <1>1, <1>4, <2>1, <3>2, LoadDoes DEF Undoable, RepKept, AdminKept, MacKept, MtuKept,
         Leased
    <3>4. cmd'.pc = "exit" \/ (/\ cmd'.pc = "detDown" /\ cmd'.pod = cmd.pod
                               /\ cmd'.conf = cache[cmd.pod].conf
                               /\ cmd'.orig = cache[cmd.pod].orig /\ cache' = cache)
      BY <1>1, <1>4, LoadDoes
    <3> QED
      BY <3>3, <3>4 DEF DelRestores, Undoable, RepKept, AdminKept, MacKept, MtuKept, Leased
  <2>3. CASE ~IsSaved(cache[cmd.pod])
    BY <1>1, <1>4, <2>3, LoadDoes, GraveFault DEF Harmless, DelRestores
  <2> QED
    BY <2>2, <2>3
<1>5. CASE cmd.op = "DEL" /\ (SetRepDown \/ RestoreRepMtu)
  BY <1>1, <1>2, <1>5, SetRepDownDoes, RestoreRepMtuDoes DEF DelRestores, Undoable, RepKept,
     AdminKept, MacKept, MtuKept, Leased
<1>6. CASE cmd.op = "DEL" /\ SetNoMaster
  <2>1. rep' \in HomeRep
    BY <1>1, <1>2, <1>6, SetNoMasterDoes DEF DelRestores, RepType, HomeRep
  <2> QED
    BY <1>1, <1>2, <1>6, <2>1, SetNoMasterDoes DEF DelRestores, Undoable, RepKept, AfterDetach,
       AdminKept, MacKept, MtuKept, Leased, HomeRep
<1>7. CASE DetachFails
  BY <1>1, <1>7, DetachFailsDoes, GraveFault DEF Harmless
<1>8. CASE ExecIpamDel
  BY <1>1, <1>2, <1>8, ExecIpamDelDoes DEF DelRestores, Undoable, RepKept, AdminKept, MacKept,
     MtuKept, Leased
<1>9. CASE GetNS
  BY <1>1, <1>2, <1>9, GetNSDoes DEF DelRestores, Undoable, RepKept, AdminKept, MacKept,
     MtuKept, Leased, Found
<1>10. CASE DelFails
  BY <1>1, <1>2, <1>10, DelFailsDoes, GraveFault DEF Harmless, DelRestores, Undoable, RepKept,
     AdminKept, MacKept, MtuKept, Leased
<1>11. CASE cmd.op = "DEL" /\ (ReleaseDown \/ ReleaseNotFound \/ ReleaseName \/ ReleaseMac \/ ReleaseMtu)
  BY <1>1, <1>2, <1>11, ReleaseDownDoes, ReleaseNotFoundDoes, ReleaseNameDoes, ReleaseMacDoes,
     ReleaseMtuDoes DEF DelRestores, AdminKept, MacKept, MtuKept
<1>12. CASE cmd.op = "DEL" /\ MoveVfToHost
  <2>1. vf' \in HomeVf
    BY <1>1, <1>2, <1>12, MoveVfToHostDoes DEF DelRestores, VfType, HomeVf
  <2> QED
    BY <1>1, <1>2, <1>12, <2>1, MoveVfToHostDoes DEF DelRestores, AdminKept
<1>13. CASE cmd.op = "DEL" /\ ResetVFConfig
  BY <1>1, <1>2, <1>13, ResetVFConfigDoes DEF DelRestores, AdminKept, Home, Control
<1>14. CASE Clean
  BY <1>1, <1>14, CleanDoes DEF DelRestores
<1>15. CASE AddExits \/ DelExits \/ Kill
  BY <1>3, <1>15 DEF AddExits, DelExits, Kill, NoCmd
<1>16. CASE \E p \in Pod : StartDel(p) \/ \E c \in Config : StartAdd(p, c)
  BY <1>16, StartAddDoes, StartDelDoes DEF DelRestores
<1>17. CASE \E p \in Pod : DelWithoutNetns(p) \/ Vanish(p)
  BY <1>17 DEF DelWithoutNetns, Vanish, DelRestores, Control, NoCmd
<1>18. CASE AddStep
  BY <1>1, <1>3, <1>18, AddStepAdds, AddStepInside DEF Inside
<1>19. CASE cmd.op # "DEL" /\ (SetRepDown \/ RestoreRepMtu \/ SetNoMaster)
  BY <1>1, <1>3, <1>19, SetRepDownDoes, RestoreRepMtuDoes, SetNoMasterDoes
<1> QED
  BY <1>1, <1>4, <1>5, <1>6, <1>7, <1>8, <1>9, <1>10, <1>11, <1>12, <1>13, <1>14, <1>15,
     <1>16, <1>17, <1>18, <1>19, DelStepDeletes DEF Next, Step, AddStep, DelStep

(***************************************************************************)
(* What rests between the commands.                                        *)
(***************************************************************************)
\* Nothing that can be restored changes.
Resting == UNCHANGED <<vf, adminMac, rep, leases, cache, owner>>

LEMMA RestingRests ==
  ASSUME Resting
  PROVE  /\ Home' <=> Home
         /\ RestAt(owner)' <=> RestAt(owner)
  BY DEF Resting, Home, RestAt, IsSaved, Undoable, RepKept, AdminKept, MacKept, MtuKept, Leased

LEMMA RestRestorableKept ==
  ASSUME TypeOK, Control, Stages, FileKept, Orderly, AddRestorable, DelRestores,
         RestRestorable, Next
  PROVE  RestRestorable'
<1> SUFFICES ASSUME ~faults'.grave
             PROVE  /\ owner' = NoPod => Home'
                    /\ owner' # NoPod /\ (cmd'.pod # owner' \/ cmd'.pc \in {"load", "exit"}) =>
                         RestAt(owner)'
  BY DEF RestRestorable
<1> USE DEF Goes, From, Same, Flags, Adding, Deleting, OnlyCmd, World, stored, node, Resting
<1>1. Typed /\ Host \notin Pod /\ NoPod \notin Pod
  BY TypedOK, PodAssumption
<1>2. ~faults.grave /\ (owner = NoPod => Home)
      /\ (owner # NoPod /\ (cmd.pod # owner \/ cmd.pc \in {"load", "exit"}) => RestAt(owner))
  BY GraveStays DEF RestRestorable
<1>3. CASE Step /\ cmd.pod # owner
  <2>1. cmd.op = "DEL" /\ stage[cmd.pod] = "done" /\ cmd.pod \in Pod
    BY <1>1, <1>3, IdleStops DEF Control, Stages, Live, Typed, Cmd
  <2>2. cmd.pc \in {"load", "exit"}
    BY <1>2, <2>1 DEF Orderly
  <2>3. Load \/ DelExits
    BY <1>1, <1>3, <2>1, <2>2, AddStepAdds, LateCalls DEF Step, AddStep, AddExits
  <2>4. CASE Load
    BY <1>1, <1>2, <1>3, <2>4, LoadDoes, RestingRests
  <2>5. CASE DelExits
    <3>1. vf.ns # cmd.pod
      BY <2>1 DEF Stages
    <3>2. Resting
      BY <1>1, <1>3, <2>1, <2>5, <3>1, SentHomeIs DEF DelExits, Typed
    <3>3. cmd' = NoCmd
      BY <2>5 DEF DelExits
    <3> QED
      BY <1>2, <1>3, <3>2, RestingRests
  <2> QED
    BY <2>3, <2>4, <2>5
<1>4. CASE AddStep /\ cmd.pod = owner
  <2>1. cmd.op = "ADD" /\ cmd.pod \in Pod /\ Inside
    BY <1>1, <1>4, AddStepAdds, AddStepInside DEF Control
  <2>2. CASE CloseNetns /\ ~cmd.err
    <3>1. Undoable(cmd.pod, cmd.conf, cmd.orig)
          /\ cache[cmd.pod] = [conf |-> cmd.conf, orig |-> cmd.orig]
      BY <1>1, <1>2, <2>1, <2>2, CloseNetnsDoes DEF AddRestorable, FileKept, OwnFile, AnyPc,
         AddCalls, SetupCalls
    <3>2. RestAt(owner) /\ Resting
      BY <1>1, <1>4, <2>2, <3>1, SavedIsSaved, CloseNetnsDoes DEF RestAt
    <3> QED
      BY <1>1, <1>4, <2>1, <2>2, <3>2, CloseNetnsDoes, RestingRests
  <2>3. CASE UndoVf
    <3>1. cmd.err /\ Resting
      BY <1>1, <2>1, <2>3, HandlerBlind, UndoVfDoes DEF Control
    <3>2. RestAt(owner)
      BY <1>2, <1>4, <2>1, <3>1 DEF AddRestorable, RestAt
    <3> QED
      BY <1>1, <1>4, <2>1, <3>1, <3>2, RestingRests DEF Inside
  <2>4. CASE ~UndoVf /\ ~(CloseNetns /\ ~cmd.err)
    <3>1. cmd'.pc \notin {"load", "exit"}
      BY <1>1, <1>4, <2>4, OpenNetnsDoes, SetRepMtuDoes, SetRepUpDoes, SetMasterDoes,
         SetVlansDoes, ApplyVFConfigDoes, SetVfDownDoes, SetVfTempNameDoes, SetVfMacDoes,
         SetVfMtuDoes, MoveVfToPodDoes, SetVfPodNameDoes, SetVfUpDoes, ExecIpamAddDoes,
         ConfigureIfaceDoes, SaveDoes, UpdateDeviceInfoDoes, PrintResultDoes, AddFailsDoes,
         CloseNetnsDoes, UndoIpamDoes DEF AddStep
    <3> QED
      BY <1>1, <1>4, <2>1, <3>1 DEF Inside
  <2> QED
    BY <2>2, <2>3, <2>4
<1>5. CASE (SetRepDown \/ RestoreRepMtu \/ SetNoMaster \/ DetachFails) /\ cmd.pod = owner
  <2>1. /\ Same /\ cmd'.pc \in DetachCalls \cup {AfterDetach} /\ UNCHANGED owner
        /\ cmd.pc \in DetachCalls
    BY <1>1, <1>5, SetRepDownDoes, RestoreRepMtuDoes, SetNoMasterDoes,
       DetachFailsDoes DEF OnlyRep, DetachCalls
  <2>2. cmd.op = "DEL" /\ owner # NoPod
    BY <1>1, <1>2, <1>5, <2>1, Running DEF Control, AddRestorable, DetachCalls
  <2> QED
    BY <1>5, <2>1, <2>2 DEF AfterDetach, DetachCalls
<1>6. CASE Load /\ cmd.pod = owner
  BY <1>1, <1>2, <1>6, LoadDoes, RestingRests
<1>7. CASE Clean /\ cmd.pod = owner
  <2>1. Deleting({"clean"}) /\ cmd.pod \in Pod
    BY <1>1, <1>7, DelStepDeletes, CleanDoes DEF DelStep, Control
  <2>2. cache[cmd.pod] = [conf |-> cmd.conf, orig |-> cmd.orig]
        /\ IF cmd.err THEN Undoable(cmd.pod, cmd.conf, cmd.orig) ELSE Home
    BY <1>2, <2>1 DEF FileKept, OwnFile, DelRestores
  <2>3. CASE cmd.err
    <3>1. RestAt(owner) /\ Resting
      BY <1>1, <1>7, <2>2, <2>3, SavedIsSaved, CleanDoes DEF RestAt
    <3> QED
      BY <1>1, <1>7, <2>1, <3>1, RestingRests
  <2>4. CASE ~cmd.err
    <3>1. Home' /\ cache'[cmd.pod] = NoEntry /\ owner' = owner
      BY <1>1, <1>7, <2>1, <2>2, <2>4, CleanDoes, GraveFault DEF Home, Harmless, TypeOK
    <3> QED
      BY <1>1, <1>7, <2>1, <3>1 DEF RestAt, IsSaved
  <2> QED
    BY <2>3, <2>4
<1>8. CASE cmd.pod = owner /\ (\/ ExecIpamDel \/ GetNS \/ ReleaseDown \/ ReleaseNotFound
                               \/ ReleaseName \/ ReleaseMac \/ ReleaseMtu \/ MoveVfToHost
                               \/ ResetVFConfig \/ DelFails)
  <2>1. cmd'.pc \notin {"load", "exit"}
    BY <1>1, <1>8, ExecIpamDelDoes, GetNSDoes, ReleaseDownDoes, ReleaseNotFoundDoes,
       ReleaseNameDoes, ReleaseMacDoes, ReleaseMtuDoes, MoveVfToHostDoes, ResetVFConfigDoes,
       DelFailsDoes
  <2>2. Inside /\ cmd.pod \in Pod
    BY <1>1, <1>8, DelStepDeletes, DelStepInside DEF DelStep, Control
  <2> QED
    BY <1>1, <1>8, <2>1, <2>2 DEF Inside
<1>9. CASE AddExits /\ cmd.pod = owner
  <2>1. RestAt(owner) /\ Resting /\ owner # NoPod
    BY <1>1, <1>2, <1>9 DEF AddExits, At, Control
  <2> QED
    BY <2>1, RestingRests
<1>10. CASE DelExits /\ cmd.pod = owner
  <2>1. RestAt(owner) /\ owner \in Pod /\ Deleting({"exit"})
    BY <1>1, <1>2, <1>10 DEF DelExits, At, Control
  <2>2. CASE cmd.ok
    <3>1. Home
      BY <1>2, <1>10, <2>1, <2>2 DEF Orderly, RestAt, IsSaved
    <3>2. vf' = vf /\ owner' = NoPod /\ UNCHANGED <<adminMac, rep, leases>>
      BY <1>1, <1>10, <2>1, <2>2, <3>1, SentHomeIs DEF DelExits, Home, HomeVf, Typed
    <3> QED
      BY <3>1, <3>2 DEF Home
  <2>3. CASE ~cmd.ok
    <3>1. Resting /\ owner # NoPod
      BY <1>1, <1>10, <2>1, <2>3 DEF DelExits
    <3> QED
      BY <2>1, <3>1, RestingRests
  <2> QED
    BY <2>2, <2>3
<1>11. CASE Kill \/ \E p \in Pod : Vanish(p)
  BY <1>11, GraveFault DEF Kill, Vanish, Harmless, TypeOK
<1>12. CASE \E p \in Pod : DelWithoutNetns(p)
  BY <1>2, <1>12 DEF DelWithoutNetns, Orderly, Stages, Live
<1>13. CASE \E p \in Pod : StartDel(p)
  <2>1. Resting /\ cmd.pod = NoPod
    BY <1>13, StartDelDoes DEF Control, NoCmd
  <2> QED
    BY <1>2, <2>1, RestingRests
<1>14. CASE \E p \in Pod : \E c \in Config : StartAdd(p, c)
  BY <1>1, <1>14, StartAddDoes
<1> QED
  BY <1>3, <1>4, <1>5, <1>6, <1>7, <1>8, <1>9, <1>10, <1>11, <1>12, <1>13, <1>14
     DEF Next, Step, AddStep

(***************************************************************************)
(* Addresses.                                                              *)
(***************************************************************************)
LEMMA LeaseHeldKept ==
  ASSUME {"kill", "load", "undoIpam"} \cap FaultyCalls = {}, ~EmptyNetns,
         TypeOK, Control, Stages, FileKept, LeaseHeld, Next
  PROVE  LeaseHeld'
<1> USE DEF Goes, From, Same, Flags, Handlers, Raises, OnlyCmd, OnlyRep, OnlyVf, OnlyAdmin,
            World, stored, node
<1>1. Typed /\ cache \in [Pod -> Entry \cup {NoEntry, Torn}] /\ leases \subseteq Pod
      /\ leases' \subseteq Pod /\ Host \notin Pod /\ NoPod \notin Pod
  BY TypedOK, LeaseTypes, PodAssumption DEF TypeOK, Entry
<1>2. ~Fault("kill") /\ ~Fault("load") /\ ~Fault("undoIpam")
  BY DEF Fault
<1>3. CASE Step /\ ~AddExits /\ ~DelExits
  <2>1. Inside /\ cmd.op \in {"ADD", "DEL"} /\ cmd.pod \in Pod
    BY <1>1, <1>3, StepInside, IdleStops DEF Control, Typed, Cmd
  <2> SUFFICES ASSUME NEW p \in leases'
               PROVE  /\ stage'[p] # "done"
                      /\ IF cmd'.op = "ADD" /\ cmd'.pod = p
                         THEN /\ cmd'.conf.ipam /\ "ipam" \in cmd'.undo
                              /\ cmd'.pc \notin {"undoVf"} \cup DetachCalls
                              /\ cmd'.pc = "exit" => ~cmd'.err
                         ELSE IsSaved(cache'[p]) /\ cache'[p].conf.ipam
                      /\ cmd'.op = "DEL" /\ cmd'.pod = p =>
                           /\ cmd'.pc \notin DelCalls \ {"delIpam"}
                           /\ cmd'.pc \in {"clean", "exit"} => cmd'.err /\ ~cmd'.ok
    BY DEF LeaseHeld, IsSaved
  <2>2. CASE p # cmd.pod
    BY <1>1, <2>1, <2>2 DEF Inside, LeaseHeld
  <2>3. CASE p = cmd.pod /\ AddStep
    <3>1. cmd.op = "ADD" /\ stage[p] = "adding"
      BY <1>1, <2>3, AddStepAdds DEF Stages
    <3>2. CASE ExecIpamAdd
      BY <1>1, <2>1, <2>3, <3>1, <3>2, ExecIpamAddDoes DEF Inside, LeaseHeld, DetachCalls
    <3>3. CASE UndoIpam
      BY <1>1, <1>2, <2>3, <3>1, <3>3, UndoIpamDoes DEF LeaseHeld
    <3>4. CASE CloseNetns \/ UndoVf
      BY <1>1, <2>3, <3>1, <3>4, HandlerBlind, CloseNetnsDoes, UndoVfDoes DEF LeaseHeld,
         DetachCalls
    <3>5. CASE ~ExecIpamAdd /\ ~UndoIpam /\ ~CloseNetns /\ ~UndoVf
      <4>1. /\ Same
            /\ "ipam" \in cmd.undo => "ipam" \in cmd'.undo
            /\ leases' = leases /\ cmd'.pc \notin {"undoVf", "exit"} \cup DetachCalls
        BY <1>1, <2>3, <3>5, OpenNetnsDoes, SetRepMtuDoes, SetRepUpDoes, SetMasterDoes,
           SetVlansDoes, ApplyVFConfigDoes, SetVfDownDoes, SetVfTempNameDoes, SetVfMacDoes,
           SetVfMtuDoes, MoveVfToPodDoes, SetVfPodNameDoes, SetVfUpDoes,
           ConfigureIfaceDoes, SaveDoes, UpdateDeviceInfoDoes, PrintResultDoes, AddFailsDoes
           DEF AddStep, DetachCalls
      <4> QED
        BY <2>1, <2>3, <3>1, <4>1 DEF Inside, LeaseHeld
    <3> QED
      BY <3>2, <3>3, <3>4, <3>5
  <2>4. CASE p = cmd.pod /\ (SetRepDown \/ RestoreRepMtu \/ SetNoMaster \/ DetachFails)
    <3>1. /\ Same /\ UNCHANGED <<leases, cache>> /\ cmd.pc \in DetachCalls
          /\ cmd'.pc \in DetachCalls \cup {AfterDetach}
      BY <1>1, <2>4, SetRepDownDoes, RestoreRepMtuDoes, SetNoMasterDoes, DetachFailsDoes
         DEF DetachCalls
    <3> QED
      BY <1>1, <2>1, <2>4, <3>1 DEF Inside, LeaseHeld, AfterDetach, DetachCalls, DelCalls
  <2>5. CASE p = cmd.pod /\ Load
    BY <1>1, <1>2, <2>1, <2>5, DelStepDeletes, LoadDoes DEF DelStep, Inside, LeaseHeld, DelCalls
  <2>6. CASE p = cmd.pod /\ ExecIpamDel
    <3>1. Deleting({"delIpam"}) /\ cache[p] = [conf |-> cmd.conf, orig |-> cmd.orig]
      BY <1>1, <2>6, DelStepDeletes, ExecIpamDelDoes DEF DelStep, Deleting, FileKept, OwnFile,
         DelCalls
    <3>2. p \in leases /\ ~cmd.conf.ipam
      BY <1>1, <2>6, ExecIpamDelDoes
    <3> QED
      BY <1>1, <2>6, <3>1, <3>2, SavedIsSaved DEF LeaseHeld, Deleting
  <2>7. CASE p = cmd.pod /\ DelFails
    BY <1>1, <2>1, <2>7, DelStepDeletes, DelFailsDoes DEF DelStep, Inside, LeaseHeld, DelCalls
  <2>8. CASE p = cmd.pod /\ (GetNS \/ ReleaseDown \/ ReleaseNotFound \/ ReleaseName
                             \/ ReleaseMac \/ ReleaseMtu \/ MoveVfToHost \/ ResetVFConfig)
    <3>1. cmd.op = "DEL" /\ leases' = leases /\ cmd.pc \in DelCalls \ {"delIpam"}
      BY <1>1, <2>8, DelStepDeletes, GetNSDoes, ReleaseDownDoes, ReleaseNotFoundDoes,
         ReleaseNameDoes, ReleaseMacDoes, ReleaseMtuDoes, MoveVfToHostDoes, ResetVFConfigDoes
         DEF DelStep, DelCalls
    <3> QED
      BY <2>8, <3>1 DEF LeaseHeld
  <2>9. CASE p = cmd.pod /\ Clean
    BY <1>1, <2>1, <2>9, DelStepDeletes, CleanDoes DEF DelStep, Inside, LeaseHeld, DelCalls
  <2> QED
    BY <1>3, <2>2, <2>3, <2>4, <2>5, <2>6, <2>7, <2>8, <2>9 DEF Step, AddStep
<1>4. CASE AddExits
  <2>1. ~cmd.err => IsSaved(cache[cmd.pod]) /\ cache[cmd.pod].conf = cmd.conf
    BY <1>1, <1>4, SavedIsSaved DEF AddExits, At, FileKept, OwnFile, Adding, AnyPc, AddCalls,
       SetupCalls
  <2> QED
    BY <1>1, <1>4, <2>1 DEF AddExits, At, NoCmd, LeaseHeld, IsSaved, TypeOK
<1>5. CASE DelExits
  BY <1>1, <1>5 DEF DelExits, At, NoCmd, LeaseHeld, IsSaved, TypeOK
<1>6. CASE Kill
  BY <1>2, <1>6 DEF Kill
<1>7. CASE \E p \in Pod : StartDel(p)
  BY <1>1, <1>7, StartDelDoes DEF LeaseHeld, IsSaved, TypeOK, DelCalls
<1>8. CASE \E p \in Pod : \E c \in Config : StartAdd(p, c)
  BY <1>1, <1>8, StartAddDoes DEF LeaseHeld, IsSaved, TypeOK, Stages
<1>9. CASE \E p \in Pod : DelWithoutNetns(p) \/ Vanish(p)
  BY <1>9 DEF DelWithoutNetns, Vanish, LeaseHeld, IsSaved
<1> QED
  BY <1>3, <1>4, <1>5, <1>6, <1>7, <1>8, <1>9 DEF Next

(***************************************************************************)
(* Ports.                                                                  *)
(***************************************************************************)
LEMMA PortHeldKept ==
  ASSUME {"kill", "load", "undoMaster", "detDown", "detMtu", "detMaster"} \cap FaultyCalls = {},
         ~EmptyNetns, TypeOK, Control, Stages, Noted, FileKept, PortHeld, Next
  PROVE  PortHeld'
<1> USE DEF Goes, From, Same, Flags, Handlers, Raises, RepIs, OnlyCmd, OnlyRep, OnlyVf,
            OnlyAdmin, World, stored, node
<1>1. Typed /\ cache \in [Pod -> Entry \cup {NoEntry, Torn}] /\ NoPod \notin Pod
  BY TypedOK, PodAssumption DEF TypeOK, Entry
<1>2. ~Fault("kill") /\ ~Fault("load") /\ \A l \in DetachCalls : ~Fault(l)
  BY DEF Fault, DetachCalls
<1>3. SUFFICES ASSUME rep'.bridged
               PROVE  /\ owner' # NoPod
                      /\ IF cmd'.op = "ADD"
                         THEN /\ cmd'.pc # "vlans" => "rep" \in cmd'.undo
                              /\ cmd'.pc = "exit" => ~cmd'.err
                         ELSE IsSaved(cache'[owner'])
                      /\ cmd'.op = "DEL" /\ cmd'.pod = owner' => cmd'.pc \in DetachCalls \cup {"load"}
  BY DEF PortHeld, IsSaved
<1>4. CASE AddStep
  <2>1. cmd.op = "ADD" /\ owner = cmd.pod /\ cmd.pod \in Pod /\ Inside
    BY <1>1, <1>4, AddStepAdds, AddStepInside DEF Stages, Control, Live
  <2>2. CASE SetMaster
    BY <1>1, <2>1, <2>2, SetMasterDoes DEF Inside
  <2>3. CASE SetVlans
    BY <1>1, <2>1, <2>3, SetVlansDoes DEF Inside
  <2>4. CASE AddFails
    BY <1>1, <1>3, <2>1, <2>4, AddFailsDoes DEF Inside, PortHeld
  <2>5. CASE CloseNetns \/ UndoIpam \/ UndoVf
    BY <1>1, <1>3, <2>1, <2>5, HandlerBlind, CloseNetnsDoes, UndoIpamDoes, UndoVfDoes
       DEF Inside, PortHeld
  <2>6. CASE ~SetMaster /\ ~SetVlans /\ ~AddFails /\ ~CloseNetns /\ ~UndoIpam /\ ~UndoVf
    <3>1. /\ rep'.bridged = rep.bridged /\ cmd.undo \subseteq cmd'.undo
          /\ cmd.pc # "vlans" /\ cmd'.pc # "exit"
      BY <1>1, <1>4, <2>6, OpenNetnsDoes, SetRepMtuDoes, SetRepUpDoes, ApplyVFConfigDoes,
         SetVfDownDoes, SetVfTempNameDoes, SetVfMacDoes, SetVfMtuDoes, MoveVfToPodDoes,
         SetVfPodNameDoes, SetVfUpDoes, ExecIpamAddDoes, ConfigureIfaceDoes, SaveDoes,
         UpdateDeviceInfoDoes, PrintResultDoes DEF AddStep
    <3> QED
      BY <1>3, <2>1, <3>1 DEF Inside, PortHeld
  <2> QED
    BY <2>2, <2>3, <2>4, <2>5, <2>6
<1>5. CASE SetRepDown \/ RestoreRepMtu \/ SetNoMaster \/ DetachFails
  BY <1>1, <1>2, <1>3, <1>5, SetRepDownDoes, RestoreRepMtuDoes, SetNoMasterDoes,
     DetachFailsDoes DEF PortHeld, DetachCalls
<1>6. CASE Load
  <2>1. cmd.op = "DEL"
    BY <1>1, <1>6, DelStepDeletes DEF DelStep
  <2> QED
    BY <1>1, <1>2, <1>3, <1>6, <2>1, LoadDoes DEF PortHeld, DetachCalls
<1>7. CASE \/ ExecIpamDel \/ GetNS \/ ReleaseDown \/ ReleaseNotFound \/ ReleaseName
           \/ ReleaseMac \/ ReleaseMtu \/ MoveVfToHost \/ ResetVFConfig \/ DelFails \/ Clean
  <2>1. cmd.op = "DEL" /\ Inside /\ cmd.pod \in Pod
    BY <1>1, <1>7, DelStepDeletes, DelStepInside DEF DelStep, Control
  <2>2. rep' = rep /\ cmd.pc \notin DetachCalls \cup {"load"}
    BY <1>1, <1>7, ExecIpamDelDoes, GetNSDoes, ReleaseDownDoes, ReleaseNotFoundDoes,
       ReleaseNameDoes, ReleaseMacDoes, ReleaseMtuDoes, MoveVfToHostDoes, ResetVFConfigDoes,
       DelFailsDoes, CleanDoes DEF DelCalls, DetachCalls
  <2>3. owner \in Pod
    BY <1>1, <1>3, <2>2 DEF TypeOK, PortHeld
  <2> QED
    BY <1>1, <1>3, <2>1, <2>2, <2>3 DEF Inside, PortHeld
<1>8. CASE AddExits
  <2>1. ~cmd.err => IsSaved(cache[cmd.pod])
    BY <1>1, <1>8, SavedIsSaved DEF AddExits, At, FileKept, OwnFile, Adding, AnyPc, AddCalls,
       SetupCalls
  <2>2. owner = cmd.pod
    BY <1>8 DEF AddExits, Stages, Live, Control
  <2> QED
    BY <1>1, <1>3, <1>8, <2>1, <2>2 DEF AddExits, At, NoCmd, PortHeld
<1>9. CASE DelExits
  BY <1>1, <1>3, <1>9 DEF DelExits, At, NoCmd, PortHeld, DetachCalls
<1>10. CASE Kill
  BY <1>2, <1>10 DEF Kill
<1>11. CASE \E p \in Pod : StartDel(p) \/ \E c \in Config : StartAdd(p, c)
  BY <1>1, <1>3, <1>11, StartAddDoes, StartDelDoes DEF PortHeld
<1>12. CASE \E p \in Pod : DelWithoutNetns(p) \/ Vanish(p)
  BY <1>1, <1>3, <1>12 DEF DelWithoutNetns, Vanish, PortHeld, Control, NoCmd
<1> QED
  BY <1>4, <1>5, <1>6, <1>7, <1>8, <1>9, <1>10, <1>11, <1>12 DEF Next, Step, AddStep

(***************************************************************************)
(* The second inductive invariant, on top of the first, and what follows.  *)
(***************************************************************************)
LEMMA RestorableInit == Init => Restorable
  BY DEF Init, Restorable, AddRestorable, DelRestores, RestRestorable, Home, NoCmd, Adding,
     Deleting

LEMMA RestorableStep == Kept /\ Restorable /\ [Next]_vars => Restorable'
<1> SUFFICES ASSUME Kept, Restorable, [Next]_vars PROVE Restorable'
  OBVIOUS
<1>1. CASE Next
  BY <1>1, AddRestorableKept, DelRestoresKept, RestRestorableKept DEF Kept, Restorable
<1>2. CASE UNCHANGED vars
  BY <1>2 DEF vars, Restorable, AddRestorable, DelRestores, RestRestorable, RestAt, Home,
     Undoable, RepKept, AdminKept, MacKept, MtuKept, Leased, IsSaved, Adding, Deleting, Found
<1> QED
  BY <1>1, <1>2

LEMMA RestorableAlways == Spec => []Restorable
  BY RestorableInit, RestorableStep, KeptAlways, PTL DEF Spec

\* Between two pods the VF has the namespace, name, MACs and MTU it had before
\* the first pod, its representor no bridge and its old MTU, and no address is
\* left, whatever the pods configured and whether the links were up or down at
\* first, unless something happened that DEL cannot undo: a failed call of ADD
\* between its first change and its cache file, a kill, a namespace that went
\* away early.  The links themselves need not be up again.
THEOREM NodeRestored == Spec => []Restored
<1>1. Kept /\ Restorable => Restored
  BY DEF Restorable, RestRestorable, Restored, Home
<1> QED
  BY <1>1, KeptAlways, RestorableAlways, PTL

\* The failures that lose an address or a port for good, each a call whose
\* error nothing answers, or a command that is never made.
AddressLosers == {"kill", "load", "undoIpam"}
PortLosers == {"kill", "load", "undoMaster"} \cup DetachCalls

LEMMA LeaseHeldAlways ==
  ASSUME AddressLosers \cap FaultyCalls = {}, ~EmptyNetns
  PROVE  Spec => []LeaseHeld
<1>1. Init => LeaseHeld
  BY DEF Init, LeaseHeld
<1>2. Kept /\ LeaseHeld /\ [Next]_vars => LeaseHeld'
  <2> SUFFICES ASSUME Kept, LeaseHeld, [Next]_vars PROVE LeaseHeld'
    OBVIOUS
  <2>1. CASE Next
    BY <2>1, LeaseHeldKept DEF Kept, AddressLosers
  <2>2. CASE UNCHANGED vars
    BY <2>2 DEF vars, LeaseHeld, IsSaved
  <2> QED
    BY <2>1, <2>2
<1> QED
  BY <1>1, <1>2, KeptAlways, PTL DEF Spec

LEMMA PortHeldAlways ==
  ASSUME PortLosers \cap FaultyCalls = {}, ~EmptyNetns
  PROVE  Spec => []PortHeld
<1>1. Init => PortHeld
  BY DEF Init, PortHeld, HomeRep
<1>2. Kept /\ PortHeld /\ [Next]_vars => PortHeld'
  <2> SUFFICES ASSUME Kept, PortHeld, [Next]_vars PROVE PortHeld'
    OBVIOUS
  <2>1. CASE Next
    BY <2>1, PortHeldKept DEF Kept, PortLosers, DetachCalls
  <2>2. CASE UNCHANGED vars
    BY <2>2 DEF vars, PortHeld, IsSaved
  <2> QED
    BY <2>1, <2>2
<1> QED
  BY <1>1, <1>2, KeptAlways, PTL DEF Spec

\* A DEL that reported success leaves no address behind, even when the
\* namespace was gone before it came (plugin.go:368-371), unless the plugin is
\* killed, the cache cannot be read, the error handler's own IPAM call fails,
\* or DEL comes without a namespace path.
THEOREM LeasesFreed ==
  ASSUME AddressLosers \cap FaultyCalls = {}, ~EmptyNetns
  PROVE  Spec => []LeaseFreed
<1>1. LeaseHeld => LeaseFreed
  BY DEF LeaseHeld, LeaseFreed
<1> QED
  BY <1>1, LeaseHeldAlways, PTL

\* A failed ADD leaves neither a bridge port nor an address behind, unless it
\* left the PluginConf from which DEL takes them back.  The calls of the error
\* handlers themselves must not fail; any other call of ADD may.
THEOREM FailedAddsUndone ==
  ASSUME (AddressLosers \cup PortLosers) \cap FaultyCalls = {}, ~EmptyNetns
  PROVE  Spec => []FailedAddUndone
<1>1. AddressLosers \cap FaultyCalls = {} /\ PortLosers \cap FaultyCalls = {}
  OBVIOUS
<1>2. Kept /\ LeaseHeld /\ PortHeld => FailedAddUndone
  BY DEF Kept, Stages, Live, LeaseHeld, PortHeld, FailedAddUndone, NoCmd
<1>3. Spec => []LeaseHeld
  BY <1>1, LeaseHeldAlways
<1>4. Spec => []PortHeld
  BY <1>1, PortHeldAlways
<1> QED
  BY <1>2, <1>3, <1>4, KeptAlways, PTL

\* Under the same conditions every address and port has a command or a file
\* that gives it back; and as long as nothing grave happened, what ADD
\* changed, link state apart, can be restored at every call.
THEOREM MendedAlways ==
  ASSUME (AddressLosers \cup PortLosers) \cap FaultyCalls = {}, ~EmptyNetns
  PROVE  Spec => []Mended
<1>1. AddressLosers \cap FaultyCalls = {} /\ PortLosers \cap FaultyCalls = {}
  OBVIOUS
<1>2. Restorable /\ LeaseHeld /\ PortHeld => Mended
  BY DEF Mended
<1>3. Spec => []LeaseHeld
  BY <1>1, LeaseHeldAlways
<1>4. Spec => []PortHeld
  BY <1>1, PortHeldAlways
<1> QED
  BY <1>2, <1>3, <1>4, RestorableAlways, PTL
=============================================================================
