SPECIFICATION Spec
CONSTANTS
  t1 = t1
  t2 = t2
  Texts <- mcTexts
  Missing = Missing
  SourceList <- mcSources
  ProgramList <- mcPrograms
  Stages <- mcStages
  MaxObjects = 4
INVARIANTS BuiltFromSources RecompileIsFresh
