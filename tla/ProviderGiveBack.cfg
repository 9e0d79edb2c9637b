SPECIFICATION Spec
CONSTANTS
  Families = {"Ph", "Do"}
  Fields <- TwoFields
  Settings = {"default", "v"}
  Default = "default"
  MaxLevel <- LevelOf
  CheckEvery = 2
  MaxCalls <- OneCall
  MaxFaults = 0
  LateIsFault = TRUE
  MaxCuts = 0
INVARIANT GivesBackWhatWasHeld
