CONSTANTS
  Shapes <- DestinationShapes
  Length = 3
  Capacities = {0, 1, 2}
  Limits = {0, 1, 5}
  Copies = 1
SPECIFICATION Spec
CHECK_DEADLOCK FALSE
INVARIANTS ReadsFaithful OneAllocation ViewsAreWhole
PROPERTY ReadEnds
