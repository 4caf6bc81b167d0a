SPECIFICATION SessionSpec
CONSTANTS
  None = None
  MaxLogins = 2
  MaxReloads = 1
CHECK_DEADLOCK FALSE
PROPERTIES
  
  
  ExpirySignsOut
