SPECIFICATION Spec
CONSTANTS
  Buffers = 5
  QueueMax = 2
  MaxToggles = 5
  Prompt = TRUE
INVARIANT TypeOK
PROPERTIES Promise EverythingHeard EndHeard
CHECK_DEADLOCK FALSE
