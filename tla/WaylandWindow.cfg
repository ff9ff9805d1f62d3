CONSTANTS
  Modes <- MCModes
  Chosen <- MCChosen
  MaxPending = 2
  MaxRequests = 2
  MaxDrags = 1
  NoDrag = NoDrag
  NoGeometry = NoGeometry
  Omitted = Omitted
SPECIFICATION Spec
PROPERTIES
  PlacementKept
  StatesTold
  AnswersAgree
CHECK_DEADLOCK FALSE
