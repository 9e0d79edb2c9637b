SPECIFICATION Spec
CONSTANTS
  Configured <- Entries
  Queries <- MockQueries
  ReadUnits <- Units
  ArgValues <- MockValues
  Calls <- MockCalls
  CheckEvery = 2
  MaxCalls = 3
INVARIANTS TypeOK ArgsAsDeclared ResentOnlyWhenLost SetMeansHeld NoDrift
