SPECIFICATION Spec
CONSTANTS
  a = a
  b = b
  c = c
  Cp = {a, b, c}
  NoCp = NoCp
  Configs <- InFront
  Births = {"display"}
  Others = {"rename"}
  MaxRegions = 5
  MaxFaults = 0
  MaxEdits = 3
PROPERTIES
  OnlyUnwantedAreRemoved
