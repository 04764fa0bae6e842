SPECIFICATION Spec
CONSTANTS
  Node = {1, 2, 3}
  Strangers = {0}
  MaxCopies = 2
INVARIANTS TopoOrderIsRight
PROPERTY ImplementsWalk
