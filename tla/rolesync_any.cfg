SPECIFICATION SyncSpec
CONSTANTS
  r1 = r1  r2 = r2  l1 = l1
  UserRequests <- TheRequests
  Logins <- TheLogins
  Habits <- SomeHabits
  MaxTokens = 4  MaxRoles = 2
INVARIANTS SyncIsNewest SteadyTokenKept
PROPERTY RolesLand
CHECK_DEADLOCK FALSE
