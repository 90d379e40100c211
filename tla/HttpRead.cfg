CONSTANTS
  SizeValues = 256
  ReadLimit = 2
  ReaderMax = 100
  BufferMax = 12
  BodyMax = 5
  Segmented = FALSE
  Connections <- AllConnections
SPECIFICATION Spec
CHECK_DEADLOCK FALSE
INVARIANTS CallsFollowMessage VerdictIsRight OctetsAccounted
PROPERTY ReadEnds
