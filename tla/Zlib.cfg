CONSTANTS
  Literals = 16
  LengthExtra <- SmallLengthExtra
  DistExtra <- SmallDistExtra
  StaticLens <- SmallStatic
  StaticDist = 2
  MaxMatch = 6
  MaxBits = 5
  MaxBlBits = 7
  HashBits = 4
  LengthLimit = 65535
  LenRoot = 3
  DistRoot = 2
  FastInput = 6
  Sessions <- SmallSessions
SPECIFICATION Spec
CHECK_DEADLOCK FALSE
INVARIANTS StateIsSound RoundTrip FlushDelivers
PROPERTY Delivered
