\* Two workers race for the same rows and may crash; jobs of the low lane may
\* hang for ever.
SPECIFICATION JobFairSpec
CONSTANTS
  Workers = {w1, w2}
  Priorities = {3, 9}
  LaneSize = 1
  LongWaits = FALSE
  MaxJobs = 3
  MaxCrashes = 1
  NoWorker = NoWorker

  
PROPERTIES
  
  HighLaneServed
