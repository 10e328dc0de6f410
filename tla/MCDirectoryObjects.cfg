SPECIFICATION FairSpec
CONSTANTS
  PageSize = 2
  MaxPages = 3
  MaxVal = 2
  MaxId = 9
  MaxFaults = 1
  MaxEdits = 2
INVARIANTS
  TypeOK
  NoSilentOrphan
PROPERTIES
  ForgetsOnlyTheGone
  ReplacesOnlyWhatDiffers
  ApplyConverges
  WholeOrWarned
