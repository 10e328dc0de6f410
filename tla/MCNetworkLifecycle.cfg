\* Liveness: no symmetry.
SPECIFICATION FairSpec
CONSTANTS
  NetId = {n1, n2, n3}
  NoId = NoId
  MaxFaults = 2
  MaxEdits = 2
INVARIANTS
  TypeOK
  OnlyToldNetworksAreTakenOver
  TimedOutCreateLeavesNoOrphan
PROPERTIES
  KeepsThePromise
  DestroyCompletes
