\* Scans of encoded keys from both ends.
SPECIFICATION Spec
CONSTANTS
  Byte = 8
  Width = 2
  Cases <- MCCases
INVARIANTS
  RoundTrip
  ScanExact
  PointReads
CHECK_DEADLOCK FALSE
