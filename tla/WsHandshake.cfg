CONSTANTS
  Sessions <- AllSessions
SPECIFICATION Spec
CHECK_DEADLOCK FALSE
INVARIANTS Negotiated OpensDeservedly NothingLost
PROPERTY HandshakeEnds
