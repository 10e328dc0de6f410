\* Liveness: the cloud regions of the lists differ, and nobody renames.
SPECIFICATION FairSpec
CONSTANTS
  a = a
  b = b
  c = c
  Cp = {a, b, c}
  NoCp = NoCp
  Configs <- Distinct
  Births = {"display"}
  Others = {"remove"}
  MaxRegions = 7
  MaxFaults = 2
  MaxEdits = 2
PROPERTIES
  OnlyUnwantedAreRemoved
  FootprintConverges
