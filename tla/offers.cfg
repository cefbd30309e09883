SPECIFICATION Spec
CONSTANTS
  d1 = d1
  d2 = d2
  None = None
  Device <- MCDevice
  Fleet <- MCFleet
  Program <- MCProgram
  Bundled <- MCBundled
  Manifest <- MCManifest
  Upload <- MCUpload
  Online <- MCOnline
  Slots = 1
  MaxKnown = 1
  MaxQueue = 1
  MaxChanges = 2
INVARIANTS
  TypeOK
  
  LatestIsNewest
  
  
CHECK_DEADLOCK FALSE
