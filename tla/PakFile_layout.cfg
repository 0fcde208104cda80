SPECIFICATION Spec
CONSTANTS
  MAX_ENTRIES = 3
  HeaderSize = 1
  TableSize = 3
  DrawMetadataSize = 2
  AttributeDataSize = 1
  MaterialMetadataSize = 2
  TextureMetadataSize = 1
  ShaderProgramSize = 1
  Inputs <- mcInputs
CHECK_DEADLOCK FALSE
INVARIANTS TypeOK EntriesTile  ClosedFileComplete
