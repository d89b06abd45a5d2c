SPECIFICATION Spec
CONSTANTS
  Entries <- MCEntries
  SubEntrySizes <- MCSubEntrySizes
  MaximumAllocation = 150
INVARIANTS
  TypeOK
  FieldsAsWritten
  StringAsWritten
  StringInsideMemory
  MemoryIsOwned
