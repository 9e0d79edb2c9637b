SPECIFICATION Spec
CONSTANTS
  Families = {"Ph", "Do"}
  GenericWait = 300
  CalWait <- CalWaits
  ReadWait <- ReadWaits
  timeout_ms = 300
  query_latency = 300
  CallTimeout = 5000
  Gaps = {50}
INVARIANTS TypeOK LateHasCause RequestBounded QuietRequestInTime
