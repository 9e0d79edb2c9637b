SPECIFICATION Spec
CONSTANTS
  Families = {"Ph", "Do"}
  Fields <- TwoFields
  Settings = {"default", "v"}
  Default = "default"
  MaxLevel <- LevelOf
  CheckEvery = 2
  MaxCalls <- MoreForPh
  MaxFaults = 2
  LateIsFault = TRUE
  MaxCuts = 1
INVARIANTS TypeOK CompensationTrue SetValuesHeld CalibratesAtDefault LevelTrue CalibrationGivesBack NoPhantomReapply
