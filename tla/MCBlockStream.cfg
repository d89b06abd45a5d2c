SPECIFICATION Spec
CONSTANTS
  BlockSize = 3
  Streams <- MCStreams
  CacheEntries = 2
  MaxOffset = 9
  MaxRead = 7
INVARIANTS TypeOK CursorsAgree CacheHoldsItsBlocks
PROPERTIES ImplementsByteStream ReadEnds
CHECK_DEADLOCK FALSE
