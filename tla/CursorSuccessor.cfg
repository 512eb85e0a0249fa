SPECIFICATION CursorSpec
CONSTANTS
  CursorIds = {1, 2, 3}
  CursorClients = {u1, u2}
  CursorLimit = 2
INVARIANT SuccessorGiven
CHECK_DEADLOCK FALSE
