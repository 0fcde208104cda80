SPECIFICATION Spec
CONSTANTS
  Nodes <- mcNodes
  Documents <- mcDocuments
  Cube <- mcCube
  Imported <- mcImported
  Programs <- mcPrograms
  Default = "Default Program"
  MaxLoads = 3
  MaxCreated = 1
  MaxEdits = 3
CHECK_DEADLOCK FALSE
INVARIANTS DrawnResolves  TransformComplete
PROPERTIES EditIsLocal
