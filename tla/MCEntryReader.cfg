SPECIFICATION Spec
CONSTANTS
  StreamSizes = {12, 72, 80, 300, 480}
  DataSizes = {12, 80, 300, 480}
  HeaderSizes = {11, 71, 72, 77}
  Parameters <- MCParameters
  Counts = {0, 1, 2}
  EntryCounts = {0, 1}
  Characters = {0, 4}
  PathFields = {0, 2, 7}
  MaximumAllocation = 300
INVARIANTS TypeOK CursorsAgree ReadsTile EntriesAligned DeclaredIsRead
CHECK_DEADLOCK FALSE
