SPECIFICATION FairSpec
CONSTANTS
  Budget = 2
  Failures <- MCFailures
  Codes <- MCCodes
INVARIANTS
  TypeOK
  VerdictIsTheServers
  BudgetIsPerOperation
PROPERTIES
  ContextBoundsTheWait
  CompletionIsNoticed
  ImplementsContract
