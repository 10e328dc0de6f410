SPECIFICATION Spec
CONSTANTS
  NetId = {n1, n2}
  NoId = NoId
  MaxFaults = 1
  MaxEdits = 1
PROPERTIES
  AdoptedNetworkSurvivesReapply
