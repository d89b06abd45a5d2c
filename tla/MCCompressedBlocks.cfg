SPECIFICATION Spec
CONSTANTS
  FileTypes = {"vista", "win7", "win8"}
  BlockSizes <- MCBlockSizes
  FileSizes = {8, 9, 10, 14, 21, 26}
  DataSizes = {0, 1, 3, 4, 6, 7, 8, 9, 10, 12}
  Field = {0, 1, 2, 3, 8, 9, 15}
  SizeMask = 8
INVARIANTS TypeOK BlocksPartitionData BlocksTileFile ListedOrTruncated
CHECK_DEADLOCK FALSE
