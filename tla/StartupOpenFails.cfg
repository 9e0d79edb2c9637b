SPECIFICATION Spec
CONSTANTS
  Texts <- Words
  Identifiers <- Names
  MaxInt <- LargestInt
  CommandLines <- Lines
  Path = "ezo.yaml"
  Files <- AllFiles
  MockPaths = {"mock://bench"}
  Addresses <- Three
  Answers <- Circuits
INVARIANT EveryDeviceAccounted
