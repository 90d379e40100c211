SPECIFICATION FairSpec
CONSTANTS
  Together <- OneWriter
  Frames = {"data", "empty", "ping", "pong", "close"}
  Role = "client"
  Pmd = FALSE
  MaxWrites = 3
  IoErrors = TRUE
INVARIANTS
  TypeOK
  WritersTakeTurns
  LegalStream
PROPERTIES
  RepliesGoNext
  RepliesComplete
