SPECIFICATION NodeSpec
CONSTANTS
  v1 = v1  v2 = v2 v3 = v3  u1 = u1  u2 = u2  br1 = br1
  p1 = p1  p2 = p2  p3 = p3
  NoVf = NoVf  NoBridge = NoBridge  NoPod = NoPod
  Vf = {v1, v2, v3}
  Uplink = {u1, u2}
  Bridge = {br1}
  Pod = {p1, p2, p3}
  Vlan <- MCVlan
  UplinkOf <- MCUplinkOf
  BridgeOf <- MCBridgeOf
  AdminVlans <- MCAdminVlans
  Config <- MCConfig
  FaultyCalls = {"BridgeVlanAdd", "BridgeVlanDel", "Lock", "LinkList", "LinkSetNoMaster", "DeviceInfo", "Load", "Netns"}
  MayKill = TRUE
SYMMETRY MCSymmetry
CHECK_DEADLOCK FALSE
INVARIANTS NodeTypeOK Clean Books PodConnected UplinkClean
PROPERTY UplinkVlansSpec
