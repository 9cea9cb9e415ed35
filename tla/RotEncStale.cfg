SPECIFICATION Spec
CONSTANTS
  QueueCap = 3
  MaxIdle = 1
PROPERTY ReleaseInvalidates
CHECK_DEADLOCK FALSE
