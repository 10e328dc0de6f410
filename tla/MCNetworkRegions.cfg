SPECIFICATION Spec
CONSTANTS
  a = a
  b = b
  c = c
  Cp = {a, b, c}
  NoCp = NoCp
  Configs <- Distinct
  Births = {"display", "name"}
  Others = {"add", "rename"}
  MaxRegions = 4
  MaxFaults = 1
  MaxEdits = 2
INVARIANTS
  TypeOK
PROPERTIES
  FootprintIsReported
  ReplacementsComeFirst
