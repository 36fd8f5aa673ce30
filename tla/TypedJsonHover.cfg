SPECIFICATION Spec
CONSTANTS
  Types <- MCHoverTypes
  Values <- MCValues
  Wires <- MCWires
  MaxTrips = 2
INVARIANTS
  HoverCodeArrives
CHECK_DEADLOCK FALSE
