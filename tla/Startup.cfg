SPECIFICATION FairSpec
CONSTANTS
  Texts <- Words
  Identifiers <- Names
  MaxInt <- LargestInt
  CommandLines <- Lines
  Path = "ezo.yaml"
  Files <- AllFiles
  MockPaths = {"mock://bench"}
  Addresses <- Three
  Answers <- Circuits
INVARIANTS TypeOK InventoryComplete OneDevicePerName ExcludedForCause ReadyMeansServed
           ConfigAsWritten ChecksForetell
PROPERTY StartupEnds
