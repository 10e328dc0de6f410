SPECIFICATION Spec
CONSTANTS
  Configs <- MCConfigs
  Stored <- MCStored
  Exceptions = {x1}
  Ids <- Numbers
  Texts = {"a", "b", "x", "y"}
  MaxEdits = 3
INVARIANTS
  TypeOK
  SettlesInOneApply
  EmptyPlanMeansInForce
  OnlyAcceptedBodies
PROPERTIES
  NothingDroppedUnwarned
  OthersSurvive
