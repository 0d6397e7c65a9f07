CONSTANTS
  MAX_SERVICE_RETRIES = 0
  MaxCodes = 1
  MaxEvents = 0
SPECIFICATION Spec
PROPERTY ConnectEnds
CHECK_DEADLOCK FALSE
