SPECIFICATION Spec
CONSTANTS
  Players = {2, 3, 4}
  Layouts <- MCLayouts
  NonAttacker = 2
  NonDefender = 3
  Handicaps = {0, 50}
  Deaf = {3}
  Faulty = {2}
  MaxFaults = 1
INVARIANTS
  TypeOK
  AgreedRoles
PROPERTIES
  RolesSettle
CHECK_DEADLOCK FALSE
