SPECIFICATION Spec
CONSTANTS
  Fanout = 2
  NumMappings = 5
  NumTables = 8
  Code = 8
  Dyn = 9
  VBases = {1, 2, 4}
  PBases = {2, 4}
  Lens = {1, 3}
CHECK_DEADLOCK FALSE
INVARIANTS
  TablesCorrect
  WalkMatches
  CrashExplained
PROPERTIES
  ImplementsPageMap
