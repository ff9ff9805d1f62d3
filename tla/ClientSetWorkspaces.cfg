SPECIFICATION Spec
CONSTANTS
  c1 = c1
  c2 = c2
  c3 = c3
  g = g
  IdOrder <- TwoClients
  Groups = {g}
  MaxWorkspaces = 2
  Policies <- TwoRoles
  Presentations <- OrdinaryOrSkipped
  Relations <- NoRelations
  WorkspaceRequests <- EndsOrAll
  IconicModes = {FALSE}
  StackingReports <- PartialReports
  NoClient = NoClient
  NoTransient = NoTransient
  GroupTransient = GroupTransient
  NoGroup = NoGroup
  AllWorkspaces = AllWorkspaces
INVARIANTS
  Consistent
  MembersRemembered
PROPERTIES
  FocusSurvives
