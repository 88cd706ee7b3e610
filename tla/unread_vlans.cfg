SPECIFICATION Spec
CONSTANTS
  v1 = v1  v2 = v2  v3 = v3
  u1 = u1  br1 = br1  br2 = br2
  NoVf = NoVf  NoBridge = NoBridge
  Vf = {v1, v2}
  Uplink = {u1}
  Bridge = {br1, br2}
  Vlan <- MCVlan
  UplinkOf <- MCOneUplink
  BridgeOf <- MCOneBridge
  AdminVlans <- MCAdminDefault
  Config <- MCSharedConfig
  FaultyCalls = {"BridgeVlanList"}
  MayKill = FALSE
INVARIANT UplinkCovers
