SPECIFICATION FairSpec
CONSTANTS
  Nobody = Nobody
  Other = Other
  Runners = {r1, r2}
  NumSteps = 3
  Gpu <- BuildAndScore
  Retries <- OneRetryFirst
  Continue = {2}
  Timed = {1, 2, 3}
  Inputs <- ThreeInputs
  Links = {}
  Preflights = {FALSE}
  Skips = {}
  Entries = {"file", "resume"}
  OneAtATime = TRUE
  Signals = TRUE
  Kills = TRUE
INVARIANTS TypeOK InOrder TreeOutlivesWork PassedMeansAll ChainFindsInputs
PROPERTIES PassIsKept Terminates
CHECK_DEADLOCK FALSE
