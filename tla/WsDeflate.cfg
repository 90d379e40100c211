SPECIFICATION FairSpec
CONSTANTS
  Together <- OneWriter
  Frames = {"data", "empty", "pong", "close"}
  Role = "server"
  Pmd = TRUE
  MaxWrites = 3
  IoErrors = FALSE
INVARIANTS
  LegalStream
  NoLostWakeup
PROPERTIES
  FailedIsSticky
  WriterCompletes
