SPECIFICATION Spec
CONSTANTS
  a1 = a1  a2 = a2
  NoFile = NoFile  Torn = Torn  NoRep = NoRep
  Attachment = {a1, a2}
  Word <- MCWord
  NetworkOf <- MCNetworkOf
  ContainerOf <- MCContainerOf
  IfnameOf <- MCIfnameOf
  Given <- MCGiven
  Version <- MCVersion
  MaxFaults = 3
INVARIANTS TypeOK FilesKept CacheIsolated InfoPreserved InfoCurrent
