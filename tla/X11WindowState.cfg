SPECIFICATION Spec
SYMMETRY OutputSymmetry
CONSTANTS
  o1 = o1
  o2 = o2
  Outputs = {o1, o2}
  Lengths <- OneLength
  Policies <- AllPolicies
  Drags <- AllDrags
  Omitted = Omitted
  Fitted = Fitted
  NoOutput = NoOutput
  NoDrag = NoDrag
  NoGeometry = NoGeometry
INVARIANTS
  FrameFollowsPolicy
PROPERTIES
  PlacementKept
  FitsKept
  PendingReached
