CONSTANTS
  MaxTasks = 3
  MaxRtc = 2
SPECIFICATION FairSpec
PROPERTY SwitchedOutTaskResumes
