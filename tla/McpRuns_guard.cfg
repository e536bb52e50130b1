SPECIFICATION Spec
CONSTANTS
  Runs = {build, timed}
  Nobody = Nobody
  Other = Other
  Free = {}
  Timed = {timed}
  Resumable = {build}
  MaxRetries = 1
  MaxStops = 1
INVARIANTS GuardSparesOwnRun

CHECK_DEADLOCK FALSE
