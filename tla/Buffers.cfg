SPECIFICATION Spec
CONSTANTS
  Kinds = {"flat", "static", "multi", "adapter"}
  Octets = {0, 1}
  Uninit = 2
  Limit = 4
  MaxSize = 3
  min_size = 2
  AllocSizes = {1, 2}
  Low = 2
  Shapes <- AdapterShapes
INVARIANTS
  PointersInOrder
  ReadSizeFits
PROPERTIES
  CallsConform
