\* Two hosts in two lives of a session, two guests, two edits, a fair server
\* and network, connections that break.
CONSTANTS
  None = None
  h1 = h1  h2 = h2  g1 = g1  g2 = g2
  o1 = o1  v1 = v1
  Channels <- TwoHostsTwoGuests
  Hosts <- TwoHosts
  Objects <- OneObject
  Values <- OneValue
  MaxEdits = 2
  UploadFirst = TRUE
SPECIFICATION FairSpec
INVARIANTS
  ReadersInSync
  SoleWriterInSync
  ClosedIsLast
  ClientsConnected
  
PROPERTIES
  ImplementsLife
  ReadersCatchUp
CHECK_DEADLOCK FALSE
