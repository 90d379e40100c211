SPECIFICATION Spec
CONSTANTS
  Together <- OneWriter
  Frames = {"data", "ping", "close", "bad"}
  Role = "server"
  Pmd = FALSE
  MaxWrites = 2
  IoErrors = FALSE
INVARIANT AssertsHold
