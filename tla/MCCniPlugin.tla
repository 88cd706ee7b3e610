----------------------------- MODULE MCCniPlugin -----------------------------
(***************************************************************************)
(* Two pods that get the VF one after the other, for TLC: enough for one   *)
(* to leave something behind that the other one meets.                     *)
(***************************************************************************)
EXTENDS CniInvariants

CONSTANTS p1, p2

Cfg(mac, mtu, ipam, devInfo, userspace) ==
  [mac |-> mac, mtu |-> mtu, ipam |-> ipam, devInfo |-> devInfo,
   userspace |-> userspace]

\* Everything configured; nothing configured; a VF bound to a userspace driver.
MCFull == Cfg(TRUE, TRUE, TRUE, TRUE, FALSE)
MCPlain == Cfg(FALSE, FALSE, FALSE, FALSE, FALSE)
MCUserspace == Cfg(TRUE, TRUE, TRUE, FALSE, TRUE)

MCConfig == {MCFull, MCPlain, MCUserspace}
MCFullConfig == {MCFull}

MCAttachCalls ==
  {"repMtu", "repUp", "master", "vlans", "admin"}
MCReleaseCalls ==
  {"relDown", "relName", "relMac", "relMtu", "relMove", "reset"}
MCDetachCalls == {"detDown", "detMtu", "detMaster"}

\* All calls but updateDeviceInfo and the removal of the cache file.
MCMostCalls ==
  {"open", "ipamAdd", "ipamConf", "save", "print", "undoIpam", "undoMaster", "load",
   "delIpam", "getns", "kill"}
    \cup MCAttachCalls \cup SetupCalls \cup MCReleaseCalls \cup MCDetachCalls

\* The calls of ADD whose failure the error handlers answer.
MCHandledCalls ==
  {"open", "ipamAdd", "ipamConf", "save"} \cup MCAttachCalls \cup SetupCalls

\* ... and those that a DEL, or a repeated DEL, can make good.
MCMendedCalls == MCHandledCalls \cup Harmless \cup {"clean"}
=============================================================================
