\* No edit at all: a guest connects before the host uploads its scene.
CONSTANTS
  None = None
  h1 = h1  h2 = h2  g1 = g1  g2 = g2
  o1 = o1  v1 = v1
  Channels <- HostTwoGuests
  Hosts <- OneHost
  Objects <- OneObject
  Values <- OneValue
  MaxEdits = 0
  UploadFirst = FALSE
SPECIFICATION Spec
INVARIANT SynchronisedWhenQuiet
CHECK_DEADLOCK FALSE
