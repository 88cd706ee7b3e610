SPECIFICATION FairSpec
CONSTANTS
  dev = dev  other = other  pf = pf  bond = bond  lost = lost
  br1 = br1  br2 = br2  cni0 = cni0  eth = eth  eth2 = eth2
  macA = macA  macB = macB  macC = macC
  Nil = Nil  Blank = Blank  Malformed = Malformed
  DefaultBridge = cni0
  VfioPci = "vfio-pci"
  MaxVlanId = 4
  Trunks <- MCTrunks
  Input <- MCInput
CHECK_DEADLOCK FALSE
INVARIANTS TypeOK Known AcceptsExactly WorksWith UplinkIsPort TrunkIInv TrunkExact
PROPERTY Terminates
