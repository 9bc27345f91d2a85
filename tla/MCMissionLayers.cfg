SPECIFICATION Spec
CONSTANTS
  Uid = {a, b, c}
  None = None
  MaxLayers = 3
  MaxStray = 1
SYMMETRY Symmetry

INVARIANT LayersOrdered
