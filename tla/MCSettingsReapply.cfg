SPECIFICATION Spec
CONSTANTS
  MaxVal = 2
  Budget = 1
  MaxFaults = 2
  MaxEdits = 2
PROPERTIES
  ReapplySendsTheConfiguration
