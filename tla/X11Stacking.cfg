SPECIFICATION Spec
CONSTANTS
  c1 = c1
  c2 = c2
  c3 = c3
  g = g
  o1 = o1
  o2 = o2
  Clients = {c1, c2, c3}
  Groups = {g}
  Outputs = {o1, o2}
  Shapes <- LayerShapes
  NoClient = NoClient
  NoTransient = NoTransient
  GroupTransient = GroupTransient
  NoGroup = NoGroup
INVARIANTS
  ServerAgrees
  FamiliesStacked
  RaiseLeafReachesTop
PROPERTIES
  StackStaysSettled
