SPECIFICATION FairSpec
CONSTANTS
  MaxVal = 2
  Budget = 1
  MaxFaults = 2
  MaxEdits = 2
INVARIANTS
  TypeOK
  NoSilentLoss
PROPERTIES
  SuccessIsInForce
  ForgetsOnlyWhatIsOff
  ApplyConverges
