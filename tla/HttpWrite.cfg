CONSTANTS
  SizeValues = 256
  ReadLimit = 2
  ReaderMax = 100
  Messages <- AllMessages
  ReadSizes = {1, 4, 20}
SPECIFICATION Spec
CHECK_DEADLOCK FALSE
INVARIANTS PeerSeesMessage BodyIntact
PROPERTY WriteEnds
