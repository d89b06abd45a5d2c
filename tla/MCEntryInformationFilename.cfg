SPECIFICATION Spec
CONSTANTS
  Entries <- MCFullFilename
  SubEntrySizes <- MCSubEntrySizes
  MaximumAllocation = 150
INVARIANT
  FilenameAsWritten
