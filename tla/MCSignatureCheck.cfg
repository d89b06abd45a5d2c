SPECIFICATION Spec
CONSTANT Contents <- MCContents
INVARIANTS
  TypeOK
  OwnHandleFreed
  CheckAgreesWithReader
PROPERTY HandleLeftAsFound
