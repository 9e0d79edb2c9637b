SPECIFICATION FairSpec
CONSTANTS
  Families = {"Ph", "Do"}
  Fields <- TwoFields
  Settings = {"default", "v"}
  Default = "default"
  MaxLevel <- LevelOf
  CheckEvery = 2
  MaxCalls <- OneCall
  MaxFaults = 1
  LateIsFault = FALSE
  MaxCuts = 1
PROPERTIES SetValuesReturn EveryRequestEnds
