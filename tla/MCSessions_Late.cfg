SPECIFICATION SessionSpec
CONSTANTS
  None = None
  MaxLogins = 2
  MaxReloads = 0
CHECK_DEADLOCK FALSE
PROPERTIES
  ExpiredForCause
