SPECIFICATION FairSpec
CONSTANTS
  Runs = {build, timed}
  Nobody = Nobody
  Other = Other
  Free = {}
  Timed = {timed}
  Resumable = {build}
  MaxRetries = 1
  MaxStops = 1
INVARIANTS GpuExclusive OutcomeIsTrue
PROPERTIES Settles
CHECK_DEADLOCK FALSE
