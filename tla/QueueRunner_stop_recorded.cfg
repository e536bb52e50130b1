SPECIFICATION Spec
CONSTANTS
  Nobody = Nobody
  Other = Other
  Runners = {r1, r2}
  NumSteps = 3
  Gpu <- BuildAndScore
  Retries <- OneRetryFirst
  Continue = {}
  Timed = {1, 2, 3}
  Inputs <- ThreeInputs
  Links = {}
  Preflights = {FALSE}
  Skips = {}
  Entries = {"file", "resume"}
  OneAtATime = TRUE
  Signals = TRUE
  Kills = FALSE
SYMMETRY Symmetry
PROPERTIES StopIsRecorded
CHECK_DEADLOCK FALSE
