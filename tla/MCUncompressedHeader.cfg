SPECIFICATION HeaderSpec
CONSTANTS
  Streams <- MCStreams
  MaximumAllocation = 230
INVARIANTS
  HeaderTypeOK
  ReadsInsideHeader
PROPERTY
  HeaderAsWritten
