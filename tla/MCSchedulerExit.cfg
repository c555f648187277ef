CONSTANTS
  MaxTasks = 3
  MaxRtc = 2
SPECIFICATION Spec
INVARIANT TaskTerminatesProperly
