SPECIFICATION SpecReferences
CONSTANTS
  v7 = v7
  raw = raw
  w8 = w8
  Database = {v7, raw, w8}
  FileType <- MCFileType
  NumberOfVolumes <- MCNumberOfVolumes
  NumberOfSources <- MCNumberOfSources
  NumberOfFiles <- MCNumberOfFiles
  UserHandle = {u}
  LibraryHandle = {l}
  Object = {o1, o2, o3, o4}
  NULL = NULL
INVARIANTS TypeOK HandleOwnership HelpersMatchFile HeapExact OpenFileHasItsEntries
PROPERTIES HandedBackAsLent ImplementsFileApi
