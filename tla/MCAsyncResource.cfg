\* Liveness: no symmetry, two objects.
SPECIFICATION FairSpec
CONSTANTS
  Id = {o1, o2}
  NoId = NoId
  MaxVal = 2
  MaxFaults = 2
  MaxEdits = 2
INVARIANTS
  TypeOK
  NoSilentOrphan
  OnlyToldObjectsAreTakenOver
  HAMembersAreSpared
PROPERTIES
  ForgetsOnlyTheGone
  RecordsOnlyWhatIsInForce
  DestroyCompletes
