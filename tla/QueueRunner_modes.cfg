SPECIFICATION Spec
CONSTANTS
  Nobody = Nobody
  Other = Other
  Runners = {r1, r2}
  NumSteps = 3
  Gpu = {3}
  Retries <- NoRetries
  Continue = {}
  Timed = {1, 2, 3}
  Inputs <- ThreeInputs
  Links = {2}
  Preflights = {FALSE, TRUE}
  Skips = {3}
  Entries = {"file", "resume", "detach", "gui"}
  OneAtATime = FALSE
  Signals = TRUE
  Kills = TRUE
ACTION_CONSTRAINT InMode
SYMMETRY Symmetry
INVARIANTS GpuExclusive DetachedIsFindable PreflightJudgesEach
CHECK_DEADLOCK FALSE
