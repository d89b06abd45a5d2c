SPECIFICATION Spec
CONSTANT Databases <- MCDatabases
INVARIANTS TypeOK AllReleased PrintsReport FailureHasCause
PROPERTIES Terminates KeepsFileApi
