SPECIFICATION FairSpec
CONSTANTS
  Together <- OneWriter
  Frames = {"data", "empty", "ping", "pong", "close", "bad"}
  Role = "server"
  Pmd = FALSE
  MaxWrites = 3
  IoErrors = TRUE
PROPERTY ProtocolErrorReported
