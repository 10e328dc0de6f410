SPECIFICATION Spec
CONSTANTS
  a = a
  b = b
  c = c
  Cp = {a, b, c}
  NoCp = NoCp
  Configs <- Twins
  Births = {"display"}
  Others = {"remove"}
  MaxRegions = 4
  MaxFaults = 0
  MaxEdits = 1
PROPERTIES
  ApplyPutsRegionsBack
