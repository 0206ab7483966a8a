CONSTANTS
  Names = {x, y}
  Values = {v, w}
  Undefined = undefined
  MaxDepth = 3
  MaxObjects = 3
SPECIFICATION Spec
INVARIANTS TypeOK ChangesAreOutputs InputsComeFromOutside
PROPERTY BodiesAreUndone
SYMMETRY Symmetry
