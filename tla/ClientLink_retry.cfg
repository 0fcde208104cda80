\* Two calls of connect_client() with two rounds each, two queued messages.
CONSTANTS
  Tries <- TwoRounds
  MaxLinks <- LinksOfTwoCalls
  MaxQueue = 2
SPECIFICATION FairSpec
INVARIANTS
  ConnectedIsBacked
  OneLinkAtATime
  MessagesByLink
  SendAfterHandshake
PROPERTIES
  ConnectingSettles
  
CHECK_DEADLOCK FALSE
