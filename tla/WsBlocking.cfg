CONSTANTS
  Sessions <- AllSessions
SPECIFICATION Spec
CHECK_DEADLOCK FALSE
INVARIANTS MessagesArrive PeerJudged CloseAgrees
PROPERTY SessionEnds
