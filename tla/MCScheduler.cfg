CONSTANTS
  MaxTasks = 4
  MaxRtc = 4
SPECIFICATION FairSpec
INVARIANTS TypeOK CpuRunsCurrent TicksNeverAhead RtcIsAcknowledged StartedInOrder GpFindsUserTask
PROPERTIES RefinesRunQueue ScheduledTaskStarts
