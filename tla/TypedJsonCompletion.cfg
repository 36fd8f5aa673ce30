SPECIFICATION Spec
CONSTANTS
  Types <- MCCompletionTypes
  Values <- MCValues
  Wires <- MCWires
  MaxTrips = 2
INVARIANTS
  CompletionsArrive
CHECK_DEADLOCK FALSE
