SPECIFICATION Spec
CONSTANTS
  c1 = c1
  c2 = c2
  c3 = c3
  g = g
  IdOrder <- ThreeClients
  Groups = {g}
  MaxWorkspaces = 1
  Policies <- OneRole
  Presentations <- AllOrdinary
  Relations <- TreeRelations
  WorkspaceRequests <- OneWorkspace
  IconicModes = {TRUE, FALSE}
  StackingReports <- PartialReports
  NoClient = NoClient
  NoTransient = NoTransient
  GroupTransient = GroupTransient
  NoGroup = NoGroup
  AllWorkspaces = AllWorkspaces
INVARIANTS
  FocusReachesModal
PROPERTIES
  FallbackEligibleInTrees
