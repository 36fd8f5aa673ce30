SPECIFICATION Spec
CONSTANTS
  Types <- MCTypes
  Values <- MCValues
  Wires <- MCWires
  MaxTrips = 4
INVARIANTS
  TypeOK
  ReadsWhatFits
  SilentOnlyIfObjectMissing
  SettlesOnceReadTwice
  ComesBack
  BuilderWritesValue
CHECK_DEADLOCK FALSE
